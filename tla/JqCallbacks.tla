----------------------------- MODULE JqCallbacks -----------------------------
(***************************************************************************)
(* jQuery.Callbacks of html/jquery-3.6.1.js: the lists of callbacks from   *)
(* which a Deferred is built, and so the objects that $.post returns to    *)
(* the test client.                                                        *)
(*                                                                         *)
(* A callback is code of the user: while it runs it can add and remove     *)
(* callbacks and fire, lock, empty or disable the list that calls it or    *)
(* another one; fire() is left and entered with the variables of the list  *)
(* wherever it happens to be.  The stack holds the calls of fire() that    *)
(* are under way.                                                          *)
(***************************************************************************)
EXTENDS HandlerLists

CONSTANTS
    Lists,
    OptionSets,    \* the options with which lists are made
    Fns,           \* functions of the user
    MaxAdds,       \* bound: additions to a list
    MaxFires,      \* bound: values fired
    None           \* JavaScript's false, "" and undefined

Flag == {"once", "memory", "unique", "stopOnFalse"}

ASSUME CallbacksAssumption ==
    /\ OptionSets \subseteq SUBSET Flag
    /\ MaxAdds \in Nat
    /\ MaxFires \in Nat
    /\ None \notin Nat

VARIABLES
    options,
    list,          \* the callbacks: functions, numbered by their additions
    live,          \* FALSE once list is "", the object is spent
    queue,         \* values to be fired, numbered as they come
    firingIndex,   \* the position of the running callback, 0 before the first
    firing,
    memory,        \* the last value, for lists that remember it
    locked,
    stack,         \* the calls of fire(): the list, and where in its loops
    adds,          \* history: how many callbacks were added
    fires,         \* history: how many values were accepted
    kept,          \* history: those added that were neither removed nor emptied
    last,          \* history: the value of which a callback was told last
    told,          \* history: the callbacks told of it
    emptied        \* history: empty() was called while the list was firing

listVars == << options, list, live, queue, firingIndex, firing, memory, locked >>
history == << adds, fires, kept, last, told, emptied >>
vars == << listVars, stack, history >>

Item == [fn : Fns, nr : Nat \ {0}]

TypeOK ==
    /\ options \in [Lists -> OptionSets]
    /\ list \in [Lists -> Seq(Item)]
    /\ live \in [Lists -> BOOLEAN]
    /\ queue \in [Lists -> Seq(Nat)]
    /\ firingIndex \in [Lists -> Nat]
    /\ firing \in [Lists -> BOOLEAN]
    /\ memory \in [Lists -> Nat \cup {None}]
    /\ locked \in [Lists -> BOOLEAN]
    /\ stack \in Seq([of : Lists, at : {"outer", "inner", "call"}])
    /\ adds \in [Lists -> 0 .. MaxAdds]
    /\ fires \in [Lists -> 0 .. MaxFires]
    /\ kept \in [Lists -> SUBSET (1 .. MaxAdds)]
    /\ last \in [Lists -> 0 .. MaxFires]
    /\ told \in [Lists -> SUBSET (1 .. MaxAdds)]
    /\ emptied \in [Lists -> BOOLEAN]

Init ==
    /\ options \in [Lists -> OptionSets]
    /\ list = [l \in Lists |-> << >>]
    /\ live = [l \in Lists |-> TRUE]
    /\ queue = [l \in Lists |-> << >>]
    /\ firingIndex = [l \in Lists |-> 0]
    /\ firing = [l \in Lists |-> FALSE]
    /\ memory = [l \in Lists |-> None]
    /\ locked = [l \in Lists |-> FALSE]
    /\ stack = << >>
    /\ adds = [l \in Lists |-> 0]
    /\ fires = [l \in Lists |-> 0]
    /\ kept = [l \in Lists |-> {}]
    /\ last = [l \in Lists |-> 0]
    /\ told = [l \in Lists |-> {}]
    /\ emptied = [l \in Lists |-> FALSE]

\* code of the user runs: a callback, or what is not called by a list
UserRuns == stack # << >> => stack[1].at = "call"

Top(l, place) == stack # << >> /\ stack[1].of = l /\ stack[1].at = place

At(place) == stack' = [stack EXCEPT ![1].at = place]

-----------------------------------------------------------------------------
(* fire() *)

\* mutant of EnterFire: the list is locked when it has fired
EnterFireUnlocked(l) ==
    /\ firing' = [firing EXCEPT ![l] = TRUE]
    /\ locked' = locked
    /\ stack' = << [of |-> l, at |-> "outer"] >> \o stack

\* the beginning of fire()
EnterFire(l) ==
    /\ locked' = [locked EXCEPT ![l] = @ \/ "once" \in options[l]]
    /\ firing' = [firing EXCEPT ![l] = TRUE]
    /\ stack' = << [of |-> l, at |-> "outer"] >> \o stack

\* the next value.  It becomes the memory
Shift(l) ==
    /\ Top(l, "outer")
    /\ queue[l] # << >>
    /\ memory' = [memory EXCEPT ![l] = Head(queue[l])]
    /\ queue' = [queue EXCEPT ![l] = Tail(@)]
    /\ At("inner")
    /\ UNCHANGED << options, list, live, firingIndex, firing, locked, history >>

\* the next callback is called
Call(l) ==
    /\ Top(l, "inner")
    /\ firingIndex[l] < Len(list[l])
    /\ firingIndex' = [firingIndex EXCEPT ![l] = @ + 1]
    /\ At("call")
    /\ LET nr == list[l][firingIndex'[l]].nr
       IN told' = [told EXCEPT ![l] = IF memory[l] = last[l] THEN @ \cup {nr} ELSE {nr}]
    /\ last' = [last EXCEPT ![l] = memory[l]]
    /\ UNCHANGED << options, list, live, queue, firing, memory, locked,
                    adds, fires, kept, emptied >>

\* all callbacks were called with this value
AllCalled(l) ==
    /\ Top(l, "inner")
    /\ firingIndex[l] >= Len(list[l])
    /\ firingIndex' = [firingIndex EXCEPT ![l] = 0]
    /\ At("outer")
    /\ UNCHANGED << options, list, live, queue, firing, memory, locked, history >>

\* fire() returns.  A list that has fired for good is emptied, or spent if it
\* remembers nothing
Finish(l) ==
    /\ Top(l, "outer")
    /\ queue[l] = << >>
    /\ memory' = [memory EXCEPT ![l] = IF "memory" \in options[l] THEN @ ELSE None]
    /\ firing' = [firing EXCEPT ![l] = FALSE]
    /\ list' = [list EXCEPT ![l] = IF locked[l] THEN << >> ELSE @]
    /\ live' = [live EXCEPT ![l] = IF locked[l] THEN memory'[l] # None ELSE @]
    /\ stack' = Tail(stack)
    /\ UNCHANGED << options, queue, firingIndex, locked, history >>

\* the callback returns
Return(l) ==
    /\ Top(l, "call")
    /\ UserRuns
    /\ At("inner")
    /\ UNCHANGED << listVars, history >>

\* the callback returns false, and the list stops on that
ReturnFalse(l) ==
    /\ Top(l, "call")
    /\ UserRuns
    /\ "stopOnFalse" \in options[l]
    /\ firingIndex' = [firingIndex EXCEPT ![l] = Len(list[l])]
    /\ memory' = [memory EXCEPT ![l] = None]
    /\ At("inner")
    /\ UNCHANGED << options, list, live, queue, firing, locked, history >>

\* the callback throws: fire() is left as it is, with firing set for ever
Throw(l) ==
    /\ Top(l, "call")
    /\ UserRuns
    /\ stack' = Tail(stack)
    /\ UNCHANGED << listVars, history >>

-----------------------------------------------------------------------------
(* The operations of the user *)

Has(l, f) == \E k \in 1 .. Len(list[l]) : list[l][k].fn = f

\* a list with a memory calls what is added at once, if it is not firing
Late(l) == memory[l] # None /\ ~ firing[l]

\* where a late firing starts
StartOf(l) == Len(list[l])

Add(l, f) ==
    /\ UserRuns
    /\ adds[l] < MaxAdds
    /\ live[l]
    /\ "unique" \in options[l] => ~ Has(l, f)
    /\ adds' = [adds EXCEPT ![l] = @ + 1]
    /\ kept' = [kept EXCEPT ![l] = @ \cup {adds'[l]}]
    /\ list' = [list EXCEPT ![l] = Append(@, [fn |-> f, nr |-> adds'[l]])]
    /\ IF Late(l)
         THEN /\ firingIndex' = [firingIndex EXCEPT ![l] = StartOf(l)]
              /\ queue' = [queue EXCEPT ![l] = Append(@, memory[l])]
              /\ EnterFire(l)
         ELSE UNCHANGED << firingIndex, queue, locked, firing, stack >>
    /\ UNCHANGED << options, live, memory, fires, last, told, emptied >>

\* nothing is added, as it is there; but the memory is fired nevertheless
AddAgain(l, f) ==
    /\ UserRuns
    /\ live[l]
    /\ "unique" \in options[l]
    /\ Has(l, f)
    /\ Late(l)
    /\ firingIndex' = [firingIndex EXCEPT ![l] = StartOf(l)]
    /\ queue' = [queue EXCEPT ![l] = Append(@, memory[l])]
    /\ EnterFire(l)
    /\ UNCHANGED << options, list, live, memory, history >>

\* how many callbacks up to the running one are f
Passed(l, f) ==
    Cardinality({k \in 1 .. Len(list[l]) : k <= firingIndex[l] /\ list[l][k].fn = f})

\* mutant of Moved: the index stays
MovedNot(l, f) == firingIndex[l]

\* the index of the running callback, when f is removed
Moved(l, f) == firingIndex[l] - Passed(l, f)

\* what is spliced out when f is removed
Others(f) == {it \in Item : it.fn # f}

Remove(l, f) ==
    /\ UserRuns
    /\ Has(l, f)
    /\ list' = [list EXCEPT ![l] = Only(@, Others(f))]
    /\ firingIndex' = [firingIndex EXCEPT ![l] = Moved(l, f)]
    /\ kept' = [kept EXCEPT ![l] =
                   @ \ {list[l][k].nr : k \in {i \in 1 .. Len(list[l]) : list[l][i].fn = f}}]
    /\ UNCHANGED << options, live, queue, firing, memory, locked, stack,
                    adds, fires, last, told, emptied >>

\* empty().  firingIndex keeps its value
Empty(l) ==
    /\ UserRuns
    /\ live[l]
    /\ list[l] # << >>
    /\ list' = [list EXCEPT ![l] = << >>]
    /\ kept' = [kept EXCEPT ![l] = {}]
    /\ emptied' = [emptied EXCEPT ![l] = @ \/ firing[l]]
    /\ UNCHANGED << options, live, queue, firingIndex, firing, memory, locked, stack,
                    adds, fires, last, told >>

DisableList(l) ==
    /\ locked' = [locked EXCEPT ![l] = TRUE]
    /\ queue' = [queue EXCEPT ![l] = << >>]
    /\ list' = [list EXCEPT ![l] = << >>]
    /\ live' = [live EXCEPT ![l] = FALSE]
    /\ memory' = [memory EXCEPT ![l] = None]

Disable(l) ==
    /\ UserRuns
    /\ live[l]
    /\ DisableList(l)
    /\ UNCHANGED << options, firingIndex, firing, stack, history >>

Lock(l) ==
    /\ UserRuns
    /\ locked' = [locked EXCEPT ![l] = TRUE]
    /\ queue' = [queue EXCEPT ![l] = << >>]
    /\ LET spent == memory[l] = None /\ ~ firing[l]
       IN /\ list' = [list EXCEPT ![l] = IF spent THEN << >> ELSE @]
          /\ live' = [live EXCEPT ![l] = @ /\ ~ spent]
    /\ UNCHANGED << options, firingIndex, firing, memory, stack, history >>

\* the value is numbered, so that values are told apart
FireWith(l) ==
    /\ UserRuns
    /\ fires[l] < MaxFires
    /\ ~ locked[l]
    /\ fires' = [fires EXCEPT ![l] = @ + 1]
    /\ queue' = [queue EXCEPT ![l] = Append(@, fires'[l])]
    /\ IF firing[l] THEN UNCHANGED << locked, firing, stack >> ELSE EnterFire(l)
    /\ UNCHANGED << options, list, live, firingIndex, memory,
                    adds, kept, last, told, emptied >>

-----------------------------------------------------------------------------

Fire(l) ==
    \/ Shift(l) \/ Call(l) \/ AllCalled(l) \/ Finish(l)
    \/ Return(l) \/ ReturnFalse(l) \/ Throw(l)

UserStep(l) ==
    \/ \E f \in Fns : Add(l, f) \/ AddAgain(l, f) \/ Remove(l, f)
    \/ Empty(l) \/ Disable(l) \/ Lock(l) \/ FireWith(l)

Next == \E l \in Lists : Fire(l) \/ UserStep(l)

Spec == Init /\ [][Next]_vars

-----------------------------------------------------------------------------
(* Properties *)

(* Nobody is forgotten: when a list that remembers has come to rest, all   *)
(* who were added and not removed have been called with the value that it  *)
(* remembers, however late they came and whatever the callbacks did to the *)
(* list while it was firing.  (Unless it was emptied then: those added     *)
(* afterwards stand before the index that goes on.)                        *)
\* jquery-3.6.1.js:3487-3529, 3535-3579
NoneForgotten ==
    \A l \in Lists :
        ~ firing[l] /\ memory[l] # None /\ ~ emptied[l] /\ kept[l] # {} =>
            last[l] = memory[l] /\ kept[l] \subseteq told[l]

\* those who will not be told any more: neither now nor in a later firing
Gone(l) == (1 .. adds[l]) \ kept[l]

(* What a list is for: to announce values.  Each callback is called with a *)
(* value once at most, in the order of the additions, and never with an    *)
(* old value after a new one; a list with "once" has one value.            *)
B(l) == INSTANCE Broadcast WITH
            single <- "once" \in options[l],
            registered <- adds[l], gone <- Gone(l), announced <- fires[l],
            last <- last[l], told <- told[l]

\* jquery-3.6.1.js:3435-3649
Announces ==
    /\ \A l \in Lists : B(l)!Init
    /\ [][\A l \in Lists : [B(l)!Next]_(B(l)!bvars)]_vars
=============================================================================
