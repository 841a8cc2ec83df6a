------------------------------ MODULE JqDeferred ------------------------------
(***************************************************************************)
(* jQuery.Deferred of html/jquery-3.6.1.js with its then(), jQuery.when:   *)
(* what a caller builds on the object that $.post returns; and             *)
(* jQuery.ready, whose functions wait on a Deferred (number 1) for the     *)
(* document and for whoever has asked to hold it.                          *)
(*                                                                         *)
(* then() makes another Deferred, which takes the outcome of the handler.  *)
(* When the handler returns a thenable, its outcome is waited for: another *)
(* Deferred, or the object of another library ("foreign"), which may call  *)
(* the functions that it was given at any time, more than once, and throw  *)
(* after it has called them.  maxDepth counts the thenables of a Deferred  *)
(* and tells their functions apart.                                        *)
(*                                                                         *)
(* notify and progress are left out, and so are callbacks of done and fail *)
(* that a user adds (JqCallbacks is about those): all that remains in the  *)
(* lists is code of jQuery, which runs in one step.                        *)
(***************************************************************************)
EXTENDS Integers, Sequences, FiniteSets

CONSTANTS
    Plain,         \* values that are no thenables
    Foreign,       \* thenables of another library
    TypeError,     \* the exception of a self-resolution
    Outcomes,      \* the array that when() passes on
    jQuery,        \* what the functions of ready() get
    HandlerSets,   \* for which outcomes the handlers of a then() are given
    MaxMade,       \* bound: Deferreds
    MaxCalls,      \* bound: calls of functions by foreign thenables
    MaxHolds,      \* bound: holds of ready() at a time
    None

Arm == {"resolved", "rejected"}

ASSUME DeferredAssumption ==
    /\ HandlerSets \subseteq SUBSET Arm
    /\ MaxMade \in Nat \ {0}
    /\ MaxCalls \in Nat
    /\ MaxHolds \in Nat

Deferreds == 1 .. MaxMade

Value == [k : {"plain"}, id : Plain \cup {TypeError, Outcomes, jQuery}]
    \cup [k : {"deferred"}, id : Deferreds]
    \cup [k : {"foreign"}, id : Foreign]

PlainValue(p) == [k |-> "plain", id |-> p]

VARIABLES
    made,        \* how many Deferreds there are
    ours,        \* those that the user settles, not then() or when()
    state,
    value,
    thens,       \* the handlers of a Deferred, while it is pending
    maxDepth,
    timers,      \* the calls of process that wait for setTimeout
    stack,       \* code of the user under way, the innermost first
    functions,   \* what a foreign thenable was given by the calls of its then
    calls,
    whens,       \* a call of when(), or None
    isReady,
    readyWait,
    document,    \* history: ready - the event has come, held - by how many,
                 \* over - released more often than held, due - it was not held
                 \* at some time after the event
    source,      \* history: the Deferred whose then() has made this one, or 0
    first        \* history: what the handler and each thenable after it have
                 \* said first to the Deferred that waits for them

heapVars == << state, value, thens, timers, whens >>
readyVars == << isReady, readyWait, document >>
userVars == << made, ours, calls, source, readyVars >>
vars == << heapVars, userVars, stack, functions, maxDepth, first >>

Listener == [to : Deferreds, depth : Nat, cb : SUBSET Arm]

Frame == [what : {"handler", "then"}, to : Deferreds, depth : Nat]
    \cup [what : {"when", "when then"}, i : 0 .. 2]

When == [primary : Deferreds, remaining : Int, args : Seq(Value),
         waits : SUBSET (Deferreds \X (1 .. 2)),
         said : SUBSET (1 .. 2), returned : {0} \cup Deferreds,
         failed : BOOLEAN, again : BOOLEAN]

ASSUME NoneAssumption == None \notin When

TypeOK ==
    /\ made \in 0 .. MaxMade
    /\ ours \subseteq 1 .. made
    /\ state \in [Deferreds -> {"pending"} \cup Arm]
    /\ \A d \in Deferreds :
          /\ value[d] = None <=> state[d] = "pending"
          /\ value[d] # None => value[d] \in Value
          /\ \A i \in 1 .. Len(thens[d]) : thens[d][i] \in Listener
          /\ maxDepth[d] \in Nat
    /\ \A i \in 1 .. Len(timers) : timers[i].l \in Listener /\ timers[i].arm \in Arm
    /\ stack \in Seq(Frame)
    /\ calls \in 0 .. MaxCalls
    /\ whens = None \/ whens \in When
    /\ isReady \in BOOLEAN
    /\ readyWait \in Int
    /\ document \in [ready : BOOLEAN, held : Nat, over : BOOLEAN, due : BOOLEAN]

readyList == 1

Init ==
    /\ made = readyList /\ ours = {}
    /\ state = [d \in Deferreds |-> "pending"]
    /\ value = [d \in Deferreds |-> None]
    /\ thens = [d \in Deferreds |-> << >>]
    /\ maxDepth = [d \in Deferreds |-> 0]
    /\ timers = << >>
    /\ stack = << >>
    /\ functions = [f \in Foreign |-> << >>]
    /\ calls = 0
    /\ whens = None
    /\ isReady = FALSE
    /\ readyWait = 1
    /\ document = [ready |-> FALSE, held |-> 0, over |-> FALSE, due |-> FALSE]
    /\ source = [d \in Deferreds |-> 0]
    /\ first = [d \in Deferreds |-> << >>]

Heap == [state |-> state, value |-> value, thens |-> thens, timers |-> timers]

\* code of the user runs, unless when() walks through its arguments
UserRuns == stack # << >> => stack[1].what # "when"

-----------------------------------------------------------------------------
(* Settling *)

Task(l, arm, v) == [l |-> l, arm |-> arm, v |-> v]

\* resolveWith and rejectWith: the lists fire once, and one of them disables
\* the other one; each handler gets a timer of its own
SettleOne(h, d, s, v) ==
    IF h.state[d] # "pending" THEN h
    ELSE [state  |-> [h.state EXCEPT ![d] = s],
          value  |-> [h.value EXCEPT ![d] = v],
          thens  |-> [h.thens EXCEPT ![d] = << >>],
          timers |-> h.timers \o [i \in 1 .. Len(h.thens[d]) |-> Task(h.thens[d][i], s, v)]]

\* mutant of Reaches: resolved when few are left
ReachesEarly(remaining, n) == remaining - n <= 1

\* the counter of when() reaches 0 while it is decreased n times
Reaches(remaining, n) == n > 0 /\ remaining \in 1 .. n

\* what the functions that when() has given to its arguments I do
Update(h, w, I, arm, v) ==
    CASE I = {} -> h
      [] I # {} /\ arm = "resolved" ->
            IF Len(w.args) = 1 THEN SettleOne(h, w.primary, "resolved", v)
            ELSE IF Reaches(w.remaining, Cardinality(I))
              THEN SettleOne(h, w.primary, "resolved", PlainValue(Outcomes))
            ELSE h
      [] I # {} /\ arm = "rejected" -> SettleOne(h, w.primary, "rejected", v)

Counted(w, I, arm) ==
    [w EXCEPT !.remaining = IF arm = "resolved" THEN @ - Cardinality(I) ELSE @,
              !.said = @ \cup I,
              !.failed = @ \/ (I # {} /\ arm = "rejected"),
              !.again = @ \/ I \cap w.said # {}]

Becomes(h) ==
    /\ state' = h.state
    /\ value' = h.value
    /\ thens' = h.thens
    /\ timers' = h.timers

\* d is settled, which when() may be waiting for
Settle(h, d, s, v) ==
    IF whens = None \/ h.state[d] # "pending"
      THEN Becomes(SettleOne(h, d, s, v)) /\ UNCHANGED whens
      ELSE LET I == {i \in 1 .. 2 : << d, i >> \in whens.waits}
           IN /\ Becomes(Update(SettleOne(h, d, s, v), whens, I, s, v))
              /\ whens' = Counted(whens, I, s)

\* mutant of Listen: the lists have no memory
ListenForgetful(h, d, l) == [h EXCEPT !.thens[d] = Append(@, l)]

\* then() of d is called with the functions of listener l
Listen(h, d, l) ==
    IF h.state[d] = "pending" THEN [h EXCEPT !.thens[d] = Append(@, l)]
    ELSE [h EXCEPT !.timers = Append(@, Task(l, h.state[d], h.value[d]))]

-----------------------------------------------------------------------------
(* process() and mightThrow() of then() *)

\* history: what thenable number k of e (number 0 is the handler) says first
Said(e, k, arm, v) ==
    first' = [first EXCEPT ![e] = IF Len(@) > k THEN @ ELSE Append(@, << arm, v >>)]

\* an exception that comes after a thenable was found does not count
Counts(e, k) == k + 1 >= maxDepth[e]

Thrown(h, e, k, v, rest) ==
    /\ IF Counts(e, k) THEN Settle(h, e, "rejected", v) ELSE Becomes(h) /\ UNCHANGED whens
    /\ stack' = rest
    /\ UNCHANGED << functions, maxDepth >>

\* e gets the value v from its thenable number k.  The stack is what remains
\* of it when this call of process is over
Returned(h, e, k, v, rest) ==
    CASE v.k = "plain" ->
            /\ Settle(h, e, "resolved", v)
            /\ stack' = rest
            /\ UNCHANGED << functions, maxDepth >>
      [] v = [k |-> "deferred", id |-> e] -> Thrown(h, e, k, PlainValue(TypeError), rest)
      [] v.k = "deferred" /\ v.id # e ->
            /\ maxDepth' = [maxDepth EXCEPT ![e] = @ + 1]
            /\ Becomes(Listen(h, v.id, [to |-> e, depth |-> maxDepth'[e], cb |-> {}]))
            /\ stack' = rest
            /\ UNCHANGED << functions, whens >>
      [] v.k = "foreign" ->
            /\ maxDepth' = [maxDepth EXCEPT ![e] = @ + 1]
            /\ functions' = [functions EXCEPT ![v.id] =
                                Append(@, [to |-> e, depth |-> maxDepth'[e]])]
            /\ stack' = << [what |-> "then", to |-> e, depth |-> k] >> \o rest
            /\ Becomes(h) /\ UNCHANGED whens

\* mutant of Stale: a thenable may speak again
StaleNever(e, k) == k + 1 < maxDepth[e]

\* the thenable has resolved e with another one and has nothing to say any more
Stale(e, k) == k < maxDepth[e]

\* process(), for an outcome that no handler takes: Identity or Thrower
PassOn(h, e, k, arm, v, rest) ==
    IF Stale(e, k)
      THEN Becomes(h) /\ stack' = rest /\ UNCHANGED << whens, functions, maxDepth, first >>
      ELSE /\ Said(e, k, arm, v)
           /\ IF arm = "resolved" THEN Returned(h, e, k, v, rest) ELSE Thrown(h, e, k, v, rest)

\* setTimeout calls process
RunTimer ==
    /\ stack = << >>
    /\ timers # << >>
    /\ LET t == Head(timers)
           h == [Heap EXCEPT !.timers = Tail(@)]
       IN IF t.arm \in t.l.cb
            THEN /\ stack' = << [what |-> "handler", to |-> t.l.to, depth |-> t.l.depth] >>
                 /\ Becomes(h)
                 /\ UNCHANGED << whens, functions, maxDepth, first >>
            ELSE PassOn(h, t.l.to, t.l.depth, t.arm, t.v, << >>)
    /\ UNCHANGED userVars

\* what a call of when() with one argument makes: the primary Deferred and,
\* perhaps, the one that it returns instead
MadeByWhen == IF whens = None THEN {} ELSE whens.primary .. whens.primary + 2 - Len(whens.args)

\* the Deferreds that code of the user can have in its hands
Known == {d \in 1 .. made : d \in MadeByWhen =>
                              /\ d = whens.returned
                              /\ \A i \in 1 .. Len(stack) : stack[i].what # "when then"}

Values ==
    {PlainValue(p) : p \in Plain} \cup [k : {"deferred"}, id : Known]
    \cup [k : {"foreign"}, id : Foreign]

In(what) == stack # << >> /\ stack[1].what = what

HandlerReturns ==
    /\ In("handler")
    /\ \E v \in Values :
          /\ Said(stack[1].to, 0, "resolved", v)
          /\ Returned(Heap, stack[1].to, 0, v, Tail(stack))
    /\ UNCHANGED userVars

HandlerThrows ==
    /\ In("handler")
    /\ \E p \in Plain :
          /\ Said(stack[1].to, 0, "rejected", PlainValue(p))
          /\ Thrown(Heap, stack[1].to, 0, PlainValue(p), Tail(stack))
    /\ UNCHANGED userVars

\* then() of a foreign thenable
ThenReturns ==
    /\ In("then") \/ In("when then")
    /\ stack' = Tail(stack)
    /\ UNCHANGED << heapVars, userVars, functions, maxDepth, first >>

ThenThrows ==
    /\ In("then")
    /\ \E p \in Plain :
          /\ Said(stack[1].to, stack[1].depth + 1, "rejected", PlainValue(p))
          /\ Thrown(Heap, stack[1].to, stack[1].depth, PlainValue(p), Tail(stack))
    /\ UNCHANGED userVars

\* a foreign thenable calls one of the functions that it was given
CallFunction ==
    /\ UserRuns
    /\ calls < MaxCalls
    /\ calls' = calls + 1
    /\ \E f \in Foreign, arm \in Arm, v \in Values :
          \E i \in 1 .. Len(functions[f]) :
             LET fn == functions[f][i] IN
             IF fn.to = 0
               THEN /\ Becomes(Update(Heap, whens, {fn.depth}, arm, v))
                    /\ whens' = Counted(whens, {fn.depth}, arm)
                    /\ UNCHANGED << stack, functions, maxDepth, first >>
               ELSE PassOn(Heap, fn.to, fn.depth, arm, v, stack)
    /\ UNCHANGED << made, ours, source, readyVars >>

-----------------------------------------------------------------------------
(* when(), with one argument or two *)

\* (of jQuery.ready, then() is all that a user has)
WhenValues == Values \ {[k |-> "deferred", id |-> readyList]}

StartWhen ==
    /\ UserRuns
    /\ whens = None
    /\ \E n \in 1 .. 2 : \E args \in [1 .. n -> WhenValues] :
          /\ made' = made + 3 - n
          /\ made' <= MaxMade
          /\ whens' = [primary |-> made + 1, remaining |-> n, args |-> args, waits |-> {},
                       said |-> {}, returned |-> 0, failed |-> FALSE, again |-> FALSE]
          /\ stack' = << [what |-> "when", i |-> n] >> \o stack
    /\ UNCHANGED << state, value, thens, timers, ours, calls, source, functions, maxDepth,
                    first, readyVars >>

IsThenable(v) == v.k # "plain"

\* what the only argument has made of the primary Deferred must be unwrapped
ToUnwrap ==
    /\ Len(whens.args) = 1
    /\ \/ state[whens.primary] = "pending"
       \/ state[whens.primary] = "resolved" /\ IsThenable(value[whens.primary])

\* adoptValue: the arguments are looked at from the last to the first
WhenStep ==
    /\ In("when")
    /\ stack[1].i > 0
    /\ LET i == stack[1].i
           v == whens.args[i]
           next == [stack EXCEPT ![1].i = i - 1]
       IN CASE v.k = "plain" ->
                 /\ Becomes(Update(Heap, whens, {i}, "resolved", v))
                 /\ whens' = Counted(whens, {i}, "resolved")
                 /\ stack' = next
                 /\ UNCHANGED functions
            [] v.k = "deferred" /\ state[v.id] = "pending" ->
                 /\ whens' = [whens EXCEPT !.waits = @ \cup {<< v.id, i >>}]
                 /\ stack' = next
                 /\ UNCHANGED << state, value, thens, timers, functions >>
            [] v.k = "deferred" /\ state[v.id] # "pending" ->
                 /\ Becomes(Update(Heap, whens, {i}, state[v.id], value[v.id]))
                 /\ whens' = Counted(whens, {i}, state[v.id])
                 /\ stack' = next
                 /\ UNCHANGED functions
            [] v.k = "foreign" ->
                 /\ functions' = [functions EXCEPT ![v.id] = Append(@, [to |-> 0, depth |-> i])]
                 /\ stack' = << [what |-> "when then", i |-> i] >> \o next
                 /\ UNCHANGED heapVars
    /\ UNCHANGED << userVars, maxDepth, first >>

\* when() returns the primary Deferred.  A single argument that has settled
\* it already comes to the loop of the others before, which takes it once
\* more: this changes nothing, but calls a foreign then a second time
WhenReturns ==
    /\ In("when")
    /\ stack[1].i = 0
    /\ ~ ToUnwrap
    /\ IF Len(whens.args) = 1 /\ whens.args[1].k = "foreign"
         THEN /\ functions' = [functions EXCEPT ![whens.args[1].id] =
                                  Append(@, [to |-> 0, depth |-> 1])]
              /\ stack' = << [what |-> "when then", i |-> 1] >> \o Tail(stack)
         ELSE stack' = Tail(stack) /\ UNCHANGED functions
    /\ whens' = [whens EXCEPT !.returned = whens.primary]
    /\ UNCHANGED << state, value, thens, timers, userVars, maxDepth, first >>

\* a single argument: when() returns primary.then()
WhenUnwraps ==
    /\ In("when")
    /\ stack[1].i = 0
    /\ ToUnwrap
    /\ LET e == whens.primary + 1
       IN /\ source' = [source EXCEPT ![e] = whens.primary]
          /\ Becomes(Listen(Heap, whens.primary, [to |-> e, depth |-> 0, cb |-> {}]))
          /\ whens' = [whens EXCEPT !.returned = e]
    /\ stack' = Tail(stack)
    /\ UNCHANGED << made, ours, calls, functions, maxDepth, first, readyVars >>

\* adoptValue catches what a foreign then throws
WhenThenThrows ==
    /\ In("when then")
    /\ \E p \in Plain :
          /\ Becomes(Update(Heap, whens, {stack[1].i}, "rejected", PlainValue(p)))
          /\ whens' = Counted(whens, {stack[1].i}, "rejected")
    /\ stack' = Tail(stack)
    /\ UNCHANGED << userVars, functions, maxDepth, first >>

-----------------------------------------------------------------------------
(* The user *)

New ==
    /\ UserRuns
    /\ made < MaxMade
    /\ made' = made + 1
    /\ ours' = ours \cup {made'}
    /\ UNCHANGED << heapVars, stack, functions, calls, source, maxDepth, first, readyVars >>

\* resolve() and reject() do not look at the value.  (Circles are left out:
\* a Deferred that is resolved with itself is asked again by a timer for ever)
SettleOurs(d) ==
    /\ UserRuns
    /\ d \in ours
    /\ \E arm \in Arm, v \in Values :
          /\ v.k = "deferred" /\ v.id \in ours => v.id < d
          /\ Settle(Heap, d, arm, v)
    /\ UNCHANGED << userVars, stack, functions, maxDepth, first >>

Then(d) ==
    /\ UserRuns
    /\ d \in Known
    /\ made < MaxMade
    /\ made' = made + 1
    /\ source' = [source EXCEPT ![made'] = d]
    /\ \E cb \in HandlerSets : Becomes(Listen(Heap, d, [to |-> made', depth |-> 0, cb |-> cb]))
    /\ UNCHANGED << ours, calls, whens, stack, functions, maxDepth, first, readyVars >>

-----------------------------------------------------------------------------
(* jQuery.ready *)

\* ready(wait) comes to its end: nothing is left to wait for
Opens(wait) == readyWait <= 1 /\ (wait => readyWait = 1) /\ (~ wait => ~ isReady)

ready(wait) ==
    /\ readyWait' = IF wait \/ ~ isReady THEN readyWait - 1 ELSE readyWait
    /\ isReady' = (isReady \/ (wait => readyWait = 1))
    /\ IF Opens(wait) THEN Settle(Heap, readyList, "resolved", PlainValue(jQuery))
                     ELSE Becomes(Heap) /\ UNCHANGED whens

\* history: the document as it is now
Watch(now) == document' = [now EXCEPT !.due = @ \/ (now.ready /\ now.held = 0)]

\* completed(), for the event DOMContentLoaded or load
completed ==
    /\ stack = << >>
    /\ ~ document.ready
    /\ ready(FALSE)
    /\ Watch([document EXCEPT !.ready = TRUE])
    /\ UNCHANGED << made, ours, calls, source, stack, functions, maxDepth, first >>

holdReady ==
    /\ UserRuns
    /\ document.held < MaxHolds
    /\ readyWait' = readyWait + 1
    /\ Watch([document EXCEPT !.held = @ + 1])
    /\ UNCHANGED << heapVars, made, ours, calls, source, stack, functions, maxDepth, first,
                    isReady >>

\* holdReady(false)
releaseReady ==
    /\ UserRuns
    /\ ~ document.over
    /\ ready(TRUE)
    /\ Watch(IF document.held = 0 THEN [document EXCEPT !.over = TRUE]
             ELSE [document EXCEPT !.held = @ - 1])
    /\ UNCHANGED << made, ours, calls, source, stack, functions, maxDepth, first >>

-----------------------------------------------------------------------------

HandlerEnds == HandlerReturns \/ HandlerThrows
ThenEnds == ThenReturns \/ ThenThrows \/ WhenThenThrows
WhenGoesOn == WhenStep \/ WhenUnwraps \/ WhenReturns

Next ==
    \/ RunTimer \/ WhenGoesOn
    \/ completed \/ holdReady \/ releaseReady
    \/ HandlerEnds \/ ThenEnds \/ CallFunction
    \/ New \/ StartWhen
    \/ \E d \in Deferreds : SettleOurs(d) \/ Then(d)

Spec == Init /\ [][Next]_vars

\* timers run, and code that was called comes back
FairSpec ==
    Spec /\ WF_vars(RunTimer) /\ WF_vars(WhenGoesOn) /\ WF_vars(HandlerEnds) /\ WF_vars(ThenEnds)

-----------------------------------------------------------------------------
(* Properties *)

IsSelf(e, said) == said = << "resolved", [k |-> "deferred", id |-> e] >>

Defers(e, said) == said[1] = "resolved" /\ said[2].k # "plain" /\ ~ IsSelf(e, said)

\* the first that does not put e off to another thenable
Deciding(e) == {i \in 1 .. Len(first[e]) : ~ Defers(e, first[e][i])
                                             /\ \A j \in 1 .. i - 1 : Defers(e, first[e][j])}

Verdict(e, said) == IF IsSelf(e, said) THEN << "rejected", PlainValue(TypeError) >> ELSE said

(* The outcome of a then() is what the handler says, or what the thenable  *)
(* says that the handler has returned, and so on; and of each of them it   *)
(* is what it has said first, also if it calls both functions, one of them *)
(* twice, or throws after it has called one (the rules 2.3.3.3 of          *)
(* Promises/A+ that the comments quote).                                   *)
\* jquery-3.6.1.js:3766-3904
OutcomeIsFirst ==
    \A e \in 1 .. made :
        source[e] # 0 =>
            /\ state[e] = "pending" <=> Deciding(e) = {}
            /\ \A i \in Deciding(e) : << state[e], value[e] >> = Verdict(e, first[e][i])
            /\ \A i \in 1 .. Len(first[e]) - 1 :
                 Defers(e, first[e][i]) /\ first[e][i][2].k = "deferred" =>
                     first[e][i + 1] = << state[first[e][i][2].id], value[first[e][i][2].id] >>

WhenCounts ==
    whens # None /\ ~ whens.again =>
        /\ state[whens.primary] = "resolved" <=> whens.said = DOMAIN whens.args /\ ~ whens.failed
        /\ state[whens.primary] = "rejected" <=> whens.failed

ReadyCounts == ~ document.over => (state[readyList] = "resolved" <=> document.due)

(* when() waits for all of its arguments and is resolved with the last, or *)
(* rejected with the first that fails; unless a foreign thenable tells it  *)
(* twice: each call counts for an argument.  The functions of ready() wait *)
(* in the same way, for the document and for all holds to be released, in  *)
(* any order; unless one is released that was not taken.                   *)
\* jquery-3.6.1.js:3990-4040, 4085-4121, 10817-10823
WhenWaits == WhenCounts /\ ReadyCounts

\* e was put off to a thenable that has not spoken
Waits(e) ==
    /\ Deciding(e) = {}
    /\ first[e] # << >>
    /\ LET said == first[e][Len(first[e])]
       IN said[2].k = "deferred" => state[said[2].id] = "pending"

(* When a Deferred is settled, so are those that its then() has made, once *)
(* what their handlers have returned is.                                   *)
\* jquery-3.6.1.js:3906-3948
ChainsEnd ==
    \A e \in Deferreds :
        source[e] # 0 /\ state[source[e]] # "pending" ~> state[e] # "pending" \/ Waits(e)
=============================================================================
