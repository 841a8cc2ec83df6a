------------------------------ MODULE JqEvents ------------------------------
(***************************************************************************)
(* jQuery.event of html/jquery-3.6.1.js, for clicks: the handlers that are *)
(* bound to the elements of a page, the events of the browser and those    *)
(* that scripts trigger, and the detour that a click triggered on a check  *)
(* box takes through the browser (leverageNative).                         *)
(*                                                                         *)
(* A handler is code of the user: while it runs it can bind and unbind     *)
(* handlers, trigger further clicks, remove the element and throw.  The    *)
(* stack holds the calls that are under way: dispatch(), trigger() and the *)
(* browser's own delivery of an event.  A gesture is one click, by whoever *)
(* and by whatever number of event objects.                                *)
(***************************************************************************)
EXTENDS HandlerLists

CONSTANTS
    Nodes,         \* elements
    Up,            \* Up[n]: the way from n to the root, n included
    Checkable,     \* input elements of the types checkbox and radio
    Forms,         \* what can be bound: a function of the user, with or
                   \* without a namespace, for ever or for one event
    MaxBound,       \* bound: handlers bound by the user
    MaxGestures,   \* bound
    Nil           \* JavaScript's undefined

ASSUME EventsAssumption ==
    /\ Up \in [Nodes -> Seq(Nodes)]
    /\ \A n \in Nodes : /\ Len(Up[n]) > 0 /\ Up[n][1] = n
                        /\ \A j, k \in 1 .. Len(Up[n]) : Up[n][j] = Up[n][k] => j = k
                        /\ \A k \in 2 .. Len(Up[n]) : Up[n][k] \notin Checkable
    /\ Checkable \subseteq Nodes
    /\ MaxBound \in Nat
    /\ MaxGestures \in Nat
    /\ Nil \notin Nodes \cup {form.fn : form \in Forms}
    /\ \A form \in Forms : {form.ns, form.one} \subseteq BOOLEAN

Gesture == 1 .. MaxGestures

\* a function is its guid
UserFns == {form.fn : form \in Forms}

\* The handler that leverageNative binds; it has no number.  All others are
\* numbered as they are bound
Controller == [fn |-> Nil, sel |-> Nil, ns |-> FALSE, one |-> FALSE, nr |-> 0]

HandleObj == [fn : UserFns, sel : Nodes \cup {Nil}, ns : BOOLEAN, one : BOOLEAN, nr : 1 .. MaxBound]

VARIABLES
    handlers,      \* events["click"] of each element; << >> if there is none
    delegateCount, \* how many of them have a selector; they stand in front
    saved,         \* the private data "click" of each element
    triggered,     \* jQuery.event.triggered
    detached,      \* elements that were removed from the page
    clicking,      \* elements whose click() is under way
    synth,         \* the jQuery.Event that trigger() made, for each gesture
    calls,
    bound,          \* history: handlers bound
    gestures,      \* history: gestures begun
    log            \* history: what each gesture has done, see NoLog

dom == << detached, clicking >>
binding == << handlers, delegateCount, bound >>
eventsVars == << binding, saved, triggered, dom, synth, calls, gestures, log >>

Fresh == [stopped |-> FALSE, immediate |-> FALSE, prevented |-> FALSE]

NoSynth == [target |-> Nil, ns |-> FALSE, only |-> FALSE, flags |-> Fresh]

\* due: handlers that were bound when it began and still are; called: those it
\* called, and twice: whether it called one again; broken: somebody stopped
\* it or threw; toggled: the element has changed; within: it began within a
\* click on the same element, or after the controller was unbound
NoLog == [due |-> {}, called |-> {}, twice |-> FALSE, broken |-> FALSE,
          toggled |-> FALSE, within |-> FALSE, old |-> FALSE]

\* the values of the private data: undefined, false, a captured result, and the
\* arguments of a gesture
Private == [what : {"undefined", "false", "captured", "args"}, g : 0 .. MaxGestures]

Undefined == [what |-> "undefined", g |-> 0]
False == [what |-> "false", g |-> 0]
Captured == [what |-> "captured", g |-> 0]
Args(g) == [what |-> "args", g |-> g]

StopFlags == [stopped : BOOLEAN, immediate : BOOLEAN, prevented : BOOLEAN]

\* what is on the stack: the browser and trigger() on their way along a path,
\* and dispatch() with its queue
NativeCall == [kind : {"native"}, at : {"path"}, g : Gesture, target : Nodes,
               path : Seq(Nodes), flags : StopFlags, script : BOOLEAN]

TriggerCall == [kind : {"trigger"}, at : {"path", "default"}, g : Gesture,
                target : Nodes, path : Seq(Nodes)]

Match == [elem : Nodes, item : HandleObj \cup {Controller}]

DispatchCall == [kind : {"dispatch"}, at : {"next", "call", "browser", "refired"},
                 g : Gesture, node : Nodes, native : BOOLEAN, queue : Seq(Match),
                 elem : Nodes \cup {Nil}, flags : StopFlags]

EventsTypeOK ==
    /\ handlers \in [Nodes -> Seq(HandleObj \cup {Controller})]
    /\ delegateCount \in [Nodes -> Nat]
    /\ saved \in [Nodes -> Private]
    /\ triggered \in BOOLEAN
    /\ detached \subseteq Nodes
    /\ clicking \subseteq Nodes
    /\ synth \in [Gesture -> [target : Nodes \cup {Nil}, ns : BOOLEAN, only : BOOLEAN, flags : StopFlags]]
    /\ calls \in Seq(NativeCall \cup TriggerCall \cup DispatchCall)
    /\ bound \in 0 .. MaxBound
    /\ gestures \in 0 .. MaxGestures
    /\ log \in [Gesture -> [due : SUBSET (1 .. MaxBound), called : SUBSET (1 .. MaxBound),
                            twice : BOOLEAN, broken : BOOLEAN, toggled : BOOLEAN,
                            within : BOOLEAN, old : BOOLEAN]]

HasArgs(n) == saved[n].what = "args"

\* the private data "click" of n are set
Remember(n, value) == saved' = [saved EXCEPT ![n] = value]

EventsInit ==
    /\ handlers = [n \in Nodes |-> << >>]
    /\ delegateCount = [n \in Nodes |-> 0]
    /\ saved = [n \in Nodes |-> Undefined]
    /\ triggered = FALSE
    /\ detached = {}
    /\ clicking = {}
    /\ synth = [g \in Gesture |-> NoSynth]
    /\ calls = << >>
    /\ bound = 0
    /\ gestures = 0
    /\ log = [g \in Gesture |-> NoLog]

Current == calls[1]
CurrentIs(kind, at) == calls # << >> /\ Current.kind = kind /\ Current.at = at

\* code of the user runs: a handler, or what is called by no event
HandlerRuns == calls = << >> \/ CurrentIs("dispatch", "call")

\* bound: nothing is done after the last gesture
Open == HandlerRuns /\ (calls = << >> => gestures < MaxGestures)

\* the way of an event that begins at n
Path(n) ==
    LET cuts == {k \in 1 .. Len(Up[n]) : Up[n][k] \in detached}
    IN IF cuts = {} THEN Up[n]
       ELSE SubSeq(Up[n], 1, CHOOSE k \in cuts : \A j \in cuts : k <= j)

-----------------------------------------------------------------------------
(* Binding *)

\* mutant of Insert: the handler is always appended
InsertLast(seq, item, d) == Append(seq, item)

\* delegates in front
Insert(seq, item, d) ==
    IF item.sel = Nil THEN Append(seq, item)
    ELSE SubSeq(seq, 1, d) \o << item >> \o SubSeq(seq, d + 1, Len(seq))

\* special.click.setup: the first handler of a checkable element is preceded by
\* the controller
NeedsSetup(n) == handlers[n] = << >> /\ n \in Checkable

\* event.add
Added(n, item) ==
    /\ LET first == IF NeedsSetup(n) THEN << Controller >> ELSE handlers[n]
       IN handlers' = [handlers EXCEPT ![n] = Insert(first, item, delegateCount[n])]
    /\ delegateCount' = [delegateCount EXCEPT ![n] = @ + (IF item.sel = Nil THEN 0 ELSE 1)]
    /\ IF NeedsSetup(n) THEN Remember(n, False) ELSE UNCHANGED saved

\* on() and one()
Bind(n, form, sel) ==
    /\ Open
    /\ bound < MaxBound
    /\ sel # Nil => sel # n /\ n \in {Up[sel][k] : k \in 1 .. Len(Up[sel])}
    /\ bound' = bound + 1
    /\ Added(n, [fn |-> form.fn, sel |-> sel, ns |-> form.ns, one |-> form.one, nr |-> bound'])
    /\ UNCHANGED << triggered, dom, synth, calls, gestures, log >>

\* What event.remove matches.  NotGiven stands for an argument that is not given:
\* without a function, selector and namespace the controller matches too
NotGiven == Nil

Matches(item, f, sel, ns) ==
    /\ f # NotGiven => item.fn = f
    /\ ns => item.ns
    /\ sel # NotGiven => item.sel = sel

Nrs(items) == {items[k].nr : k \in 1 .. Len(items)}

\* event.remove.  The list goes when it is empty, with its delegateCount, but
\* the private data "click" stays
Removed(n, f, sel, ns) ==
    /\ handlers' = [handlers EXCEPT ![n] =
                       Only(@, {it \in HandleObj \cup {Controller} : ~ Matches(it, f, sel, ns)})]
    /\ delegateCount' = [delegateCount EXCEPT ![n] =
                            Cardinality({k \in 1 .. Len(handlers'[n]) :
                                            handlers'[n][k].sel # Nil})]

\* handlers that are gone are not due any more
StillDue(lg) ==
    LET there == UNION {Nrs(handlers'[n]) : n \in Nodes}
    IN [g \in Gesture |-> [lg[g] EXCEPT !.due = @ \cap there]]

\* off()
Unbind(n, f, sel, ns) ==
    /\ Open
    /\ \E k \in 1 .. Len(handlers[n]) : Matches(handlers[n][k], f, sel, ns)
    /\ Removed(n, f, sel, ns)
    /\ log' = StillDue(log)
    /\ UNCHANGED << bound, saved, triggered, dom, synth, calls, gestures >>

cleanData(n) ==
    /\ handlers' = [handlers EXCEPT ![n] = << >>]
    /\ delegateCount' = [delegateCount EXCEPT ![n] = 0]
    /\ Remember(n, Undefined)

\* the handlers with a selector
Delegated ==
    UNION {{handlers[m][k].nr : k \in {i \in 1 .. Len(handlers[m]) : handlers[m][i].sel # Nil}}
             : m \in Nodes}

\* the event of gesture g is on its way from n
Aims(g, n) ==
    \E k \in 1 .. Len(calls) : calls[k].kind # "dispatch" /\ calls[k].g = g /\ calls[k].target = n

\* remove() and detach() of an element that has no children: out of the page.  The
\* handlers with a selector that others have do not find it any more, nor the
\* elements that it was in
RemoveElement(n, keepData) ==
    /\ Open
    /\ n \notin detached
    /\ \A m \in Nodes : n \in {Up[m][k] : k \in 1 .. Len(Up[m])} => m = n
    /\ IF keepData THEN UNCHANGED << handlers, delegateCount, saved >> ELSE cleanData(n)
    /\ detached' = detached \cup {n}
    /\ log' = StillDue([g \in Gesture |->
                 [log[g] EXCEPT !.due = @ \ (IF Aims(g, n) THEN Delegated ELSE {})]])
    /\ UNCHANGED << bound, triggered, clicking, synth, calls, gestures >>

-----------------------------------------------------------------------------
(* Events of the browser *)

\* The browser toggles a checkable element before anybody hears of the click
NativeFrame(g, n, script) ==
    [kind |-> "native", at |-> "path", g |-> g, target |-> n, path |-> Path(n),
     flags |-> Fresh, script |-> script]

\* n.click() is called, with the frames st below
Clicked(g, n, st) ==
    /\ calls' = << NativeFrame(g, n, TRUE) >> \o st
    /\ clicking' = clicking \cup {n}
    /\ detached' = detached

\* the handlers that an event on n must reach
Due(n, path, ns) ==
    UNION {{handlers[path[k]][i].nr : i \in
               {j \in 1 .. Len(handlers[path[k]]) :
                   LET it == handlers[path[k]][j]
                   IN /\ it # Controller
                      /\ it.sel # Nil => \E m \in 1 .. (k - 1) : path[m] = it.sel
                      /\ ns => it.ns}} : k \in 1 .. Len(path)}

Old(n) == n \in Checkable /\ saved[n] = False /\ handlers[n] = << >>

Begun(n, path, ns, only, native) ==
    /\ gestures' = gestures + 1
    /\ log' = [(IF calls = << >> THEN [g \in Gesture |-> NoLog] ELSE log) EXCEPT ![gestures'] =
                  [due |-> Due(n, path, ns), called |-> {}, twice |-> FALSE,
                   broken |-> FALSE, toggled |-> native,
                   within |-> \E k \in 1 .. Len(calls) :
                                 calls[k].kind # "dispatch" /\ n = calls[k].target,
                   old |-> Old(n)]]

\* the user clicks, or a script calls click()
Click(n, script) ==
    /\ HandlerRuns
    /\ gestures < MaxGestures
    /\ IF script THEN n \notin clicking ELSE calls = << >>
    /\ calls = << >> => n \notin detached
    /\ Begun(n, Path(n), FALSE, FALSE, TRUE)
    /\ IF script
         THEN Clicked(gestures', n, calls)
         ELSE /\ calls' = << NativeFrame(gestures', n, FALSE) >>
              /\ UNCHANGED dom
    /\ UNCHANGED << binding, saved, triggered, synth >>

\* dispatch() is called for element n: its queue is made here, the handlers
\* delegated by descendants first.  Handlers that a namespaced event passes
\* over are left out
Queue(n, target, ns) ==
    LET hs == handlers[n]
        d == delegateCount[n]
        Wanted == {it \in HandleObj \cup {Controller} : it = Controller \/ ~ ns \/ it.ns}
        p == Path(target)
        of(m) == IF m = n THEN Only(SubSeq(hs, d + 1, Len(hs)), Wanted)
                 ELSE Only(SubSeq(hs, 1, d), {it \in Wanted : it.sel = m})
        group(m) == [k \in 1 .. Len(of(m)) |-> [elem |-> m, item |-> of(m)[k]]]
        last == CHOOSE k \in 1 .. Len(p) : p[k] = n
        ways == IF \E k \in 1 .. Len(p) : p[k] = n THEN SubSeq(p, 1, last) ELSE << n >>
    IN Joined([k \in 1 .. Len(ways) |-> group(ways[k])])

DispatchFrame(g, n, target, ns, native) ==
    [kind |-> "dispatch", at |-> "next", g |-> g, node |-> n, native |-> native,
     queue |-> Queue(n, target, ns), elem |-> Nil, flags |-> Fresh]

\* The browser tells the next element.  The listener of jQuery does nothing
\* while trigger() itself has made the browser click
DeliverNative ==
    /\ CurrentIs("native", "path")
    /\ Current.path # << >>
    /\ ~ Current.flags.stopped
    /\ LET n == Head(Current.path)
           rest == [Current EXCEPT !.path = Tail(@)]
       IN calls' = (IF handlers[n] = << >> \/ triggered THEN << >>
                    ELSE << DispatchFrame(Current.g, n, Current.target, FALSE, TRUE) >>)
                   \o << rest >> \o Tail(calls)
    /\ UNCHANGED << binding, saved, triggered, dom, synth, gestures, log >>

\* ... and is done
EndNative ==
    /\ CurrentIs("native", "path")
    /\ Current.path = << >> \/ Current.flags.stopped
    /\ clicking' = IF Current.script THEN clicking \ {Current.target} ELSE clicking
    /\ calls' = Tail(calls)
    /\ UNCHANGED << binding, saved, triggered, detached, synth, gestures, log >>

-----------------------------------------------------------------------------
(* trigger() and triggerHandler() *)

TriggerFrame(g, n, only) ==
    [kind |-> "trigger", at |-> "path", g |-> g, target |-> n,
     path |-> IF only THEN << n >> ELSE Path(n)]

\* mutant of Forced: the handlers of the page get the event directly
ForcedNot(n, only) == FALSE

\* special.click.trigger: the controller is forced upon a checkable element, if the
\* private data show none (with a handler that does nothing, which is left out)
Forced(n, only) == ~ only /\ n \in Checkable /\ saved[n] = Undefined

\* event.trigger
Trigger(n, ns, only) ==
    /\ HandlerRuns
    /\ gestures < MaxGestures
    /\ Begun(n, IF only THEN << n >> ELSE Path(n), ns, only, n \notin Checkable \/ only)
    /\ synth' = [synth EXCEPT ![gestures'] =
                    [target |-> n, ns |-> ns, only |-> only, flags |-> Fresh]]
    /\ calls' = << TriggerFrame(gestures', n, only) >> \o calls
    /\ IF Forced(n, only)
         THEN /\ Remember(n, False)
              /\ handlers' = [handlers EXCEPT ![n] = << Controller >>]
         ELSE UNCHANGED << saved, handlers >>
    /\ UNCHANGED << delegateCount, bound, triggered, dom >>

trigger(n, ns) == Trigger(n, ns, FALSE)

\* the handlers of this element only, and no default action
triggerHandler(n, ns) == Trigger(n, ns, TRUE)

\* the next element of the path that was determined in advance
DeliverSynth ==
    /\ CurrentIs("trigger", "path")
    /\ Current.path # << >>
    /\ ~ synth[Current.g].flags.stopped
    /\ LET n == Head(Current.path)
           s == synth[Current.g]
           rest == [Current EXCEPT !.path = Tail(@)]
       IN calls' = (IF handlers[n] = << >> \/ triggered THEN << >>
                    ELSE << DispatchFrame(Current.g, n, s.target, s.ns, FALSE) >>)
                   \o << rest >> \o Tail(calls)
    /\ UNCHANGED << binding, saved, triggered, dom, synth, gestures, log >>

\* special.click._default: no click of a check box while the controller is at it
SuppressesDefault(n) == n \in Checkable /\ (HasArgs(n) \/ saved[n] = Captured)

\* the default action is a click of the browser, unless one is under way
DefaultNative(g) ==
    LET s == synth[g]
    IN /\ ~ s.only
       /\ ~ s.flags.prevented
       /\ ~ SuppressesDefault(s.target)
       /\ Current.target \notin clicking

\* mutant of Silenced: the handlers hear of the default action
SilencedNot == triggered' = FALSE

\* the handlers have been called already, they shall not hear of it again
Silenced == triggered' = TRUE

EndSynth ==
    /\ CurrentIs("trigger", "path")
    /\ Current.path = << >> \/ synth[Current.g].flags.stopped
    /\ IF DefaultNative(Current.g)
         THEN /\ Silenced
              /\ Clicked(Current.g, Current.target, << [Current EXCEPT !.at = "default"] >> \o Tail(calls))
              /\ log' = [log EXCEPT ![Current.g].toggled = TRUE]
         ELSE /\ calls' = Tail(calls)
              /\ UNCHANGED << triggered, dom, log >>
    /\ UNCHANGED << binding, saved, synth, gestures >>

EndDefault ==
    /\ CurrentIs("trigger", "default")
    /\ triggered' = FALSE
    /\ calls' = Tail(calls)
    /\ UNCHANGED << binding, saved, dom, synth, gestures, log >>

-----------------------------------------------------------------------------
(* dispatch() *)

\* the flags of the event that is dispatched: those of the jQuery.Event that
\* trigger() made, or of the one that wraps an event of the browser
Flags == IF Current.native THEN Current.flags ELSE synth[Current.g].flags

\* stopPropagation() and so on, by the functions that runs at the top: an
\* event of the browser, the next on the stack, is told too
Marked(fl, at) ==
    IF Current.native
      THEN /\ calls' = << [Current EXCEPT !.flags = fl, !.at = at],
                          [calls[2] EXCEPT !.flags.stopped = @ \/ fl.stopped] >>
                       \o SubSeq(calls, 3, Len(calls))
           /\ synth' = synth
      ELSE /\ calls' = << [Current EXCEPT !.at = at] >> \o Tail(calls)
           /\ synth' = [synth EXCEPT ![Current.g].flags = fl]

\* no handler is left that may be called: stopPropagation() counts from one
\* element to the next
NothingLeft ==
    Current.queue # << >> =>
        IF Head(Current.queue).elem = Current.elem THEN Flags.immediate ELSE Flags.stopped

EndDispatch ==
    /\ CurrentIs("dispatch", "next")
    /\ NothingLeft
    /\ calls' = Tail(calls)
    /\ UNCHANGED << binding, saved, triggered, dom, synth, gestures, log >>

Ready == CurrentIs("dispatch", "next") /\ ~ NothingLeft

NextItem == Head(Current.queue).item

Taken(at) == [Current EXCEPT !.queue = Tail(@), !.elem = Head(Current.queue).elem, !.at = at]

Goes(at) == calls' = << Taken(at) >> \o Tail(calls)

\* one(): off() for that function, selector and namespace, before the call
Unbound(it) ==
    IF it.one THEN Removed(Current.node, it.fn, it.sel, it.ns)
    ELSE UNCHANGED << handlers, delegateCount >>

CallHandler ==
    /\ Ready
    /\ NextItem # Controller
    /\ Goes("call")
    /\ Unbound(NextItem)
    /\ log' = LET now == [log EXCEPT ![Current.g].called = @ \cup {NextItem.nr},
                                     ![Current.g].twice = @ \/ NextItem.nr \in log[Current.g].called]
              IN StillDue([now EXCEPT ![Current.g].due = @ \ now[Current.g].called])
    /\ UNCHANGED << bound, saved, triggered, dom, synth, gestures >>

\* the handler returns
Returns ==
    /\ CurrentIs("dispatch", "call")
    /\ calls' = << [Current EXCEPT !.at = "next"] >> \o Tail(calls)
    /\ UNCHANGED << binding, saved, triggered, dom, synth, gestures, log >>

Broken == [log EXCEPT ![Current.g].broken = TRUE]

\* it returns false
ReturnsFalse ==
    /\ CurrentIs("dispatch", "call")
    /\ Marked([Flags EXCEPT !.stopped = TRUE, !.prevented = TRUE], "next")
    /\ log' = Broken
    /\ UNCHANGED << binding, saved, triggered, dom, gestures >>

\* it has called stopImmediatePropagation()
ReturnsStopped ==
    /\ CurrentIs("dispatch", "call")
    /\ Marked([Flags EXCEPT !.stopped = TRUE, !.immediate = TRUE], "next")
    /\ log' = Broken
    /\ UNCHANGED << binding, saved, triggered, dom, gestures >>

\* It throws.  The browser, or a handler that called trigger(), or nobody
\* catches that
Throws ==
    /\ CurrentIs("dispatch", "call")
    /\ \E k \in 2 .. Len(calls) + 1 :
          /\ \A j \in 2 .. (k - 1) : calls[j].kind # "native"
          /\ k <= Len(calls) => calls[k].kind = "native" \/ calls[k].at = "call"
          /\ calls' = SubSeq(calls, k, Len(calls))
          /\ log' = [g \in Gesture |->
                       [log[g] EXCEPT !.broken = @ \/ \E j \in 1 .. (k - 1) : calls[j].g = g]]
    /\ UNCHANGED << binding, saved, triggered, dom, synth, gestures >>

-----------------------------------------------------------------------------
(* leverageNative: the controller *)

\* a triggered click is interrupted, and made by the browser
Interrupt ==
    /\ Ready
    /\ NextItem = Controller
    /\ ~ Current.native
    /\ ~ synth[Current.g].only
    /\ ~ HasArgs(Current.node)
    /\ IF Current.node \in clicking
         THEN /\ Remember(Current.node, False)
              /\ Goes("next")
              /\ UNCHANGED << dom, log >>
         ELSE /\ Remember(Current.node, Args(Current.g))
              /\ Clicked(Current.g, Current.node, << Taken("browser") >> \o Tail(calls))
              /\ log' = [log EXCEPT ![Current.g].toggled = TRUE]
    /\ UNCHANGED << binding, triggered, synth, gestures >>

\* the browser's event was handled in place of the triggered one
Cancelled(result, g) == result # Args(g)

\* click() has returned
Resume ==
    /\ CurrentIs("dispatch", "browser")
    /\ IF Cancelled(saved[Current.node], Current.g)
         THEN Marked([stopped |-> TRUE, immediate |-> TRUE, prevented |-> TRUE], "next")
         ELSE Marked(Flags, "next")
    /\ Remember(Current.node, False)
    /\ UNCHANGED << binding, triggered, dom, gestures, log >>

\* An event of the browser, or of triggerHandler(), meets the arguments of a
\* triggered one: that is fired again, for all other handlers
Refire ==
    /\ Ready
    /\ NextItem = Controller
    /\ Current.native \/ synth[Current.g].only
    /\ HasArgs(Current.node)
    /\ LET g == saved[Current.node].g
       IN /\ synth' = [synth EXCEPT ![g].flags = Fresh]
          /\ calls' = << TriggerFrame(g, Current.node, FALSE), Taken("refired") >> \o Tail(calls)
          /\ log' = [log EXCEPT ![g].broken = @ \/ ~ Current.native, ![Current.g].broken = @ \/ ~ Current.native]
    /\ UNCHANGED << binding, saved, triggered, dom, gestures >>

Refired ==
    /\ CurrentIs("dispatch", "refired")
    /\ Remember(Current.node, Captured)
    /\ Marked([Flags EXCEPT !.stopped = TRUE, !.immediate = TRUE], "next")
    /\ UNCHANGED << binding, triggered, dom, gestures, log >>

\* there is nothing to do
Pass ==
    /\ Ready
    /\ NextItem = Controller
    /\ HasArgs(Current.node) <=> (~ Current.native /\ ~ synth[Current.g].only)
    /\ Goes("next")
    /\ UNCHANGED << binding, saved, triggered, dom, synth, gestures, log >>

-----------------------------------------------------------------------------

Step ==
    \/ DeliverNative \/ EndNative
    \/ DeliverSynth \/ EndSynth \/ EndDefault
    \/ CallHandler \/ EndDispatch
    \/ Interrupt \/ Resume \/ Refire \/ Refired \/ Pass

User ==
    \/ Returns \/ ReturnsFalse \/ ReturnsStopped \/ Throws
    \/ \E n \in Nodes :
          \/ \E form \in Forms, sel \in Nodes \cup {Nil} : Bind(n, form, sel)
          \/ \E f \in UserFns : Unbind(n, f, NotGiven, FALSE)
          \/ \E ns \in BOOLEAN : Unbind(n, NotGiven, NotGiven, ns)
          \/ \E keepData \in BOOLEAN : RemoveElement(n, keepData)
          \/ \E script \in BOOLEAN : Click(n, script)
          \/ \E ns \in BOOLEAN : trigger(n, ns) \/ triggerHandler(n, ns)

EventsNext == Step \/ User

EventsSpec == EventsInit /\ [][EventsNext]_eventsVars

-----------------------------------------------------------------------------
(* Properties *)

UnderWay(g) == \E k \in 1 .. Len(calls) : calls[k].g = g

(* However a click comes about and through whatever events, each handler   *)
(* that is bound when it begins, and stays bound, is called once by it:    *)
(* not for the triggered event and again for the browser's, and not for    *)
(* neither of them.  (Unless a handler stopped the event or threw.)        *)
\* jquery-3.6.1.js:5613-5700, 8655-8800
EachIsCalledOnce ==
    \A g \in 1 .. gestures :
        ~ log[g].broken => ~ log[g].twice /\ (UnderWay(g) \/ log[g].due = {})

(* "ensuring that state changes have already occurred before other         *)
(* listeners are invoked": a handler finds the check box as it will be,    *)
(* also when a script triggers the click; except within another click on   *)
(* it, and after the controller was unbound along with all else.           *)
\* jquery-3.6.1.js:5609-5612
StateComesFirst ==
    \A g \in 1 .. gestures :
        log[g].called # {} /\ ~ log[g].within /\ ~ log[g].old => log[g].toggled

(* Whatever handlers did and threw, nothing is left behind that would      *)
(* suppress the events to come; a handler for one event is gone when it    *)
(* has been called; and the delegated handlers are those in front.         *)
\* jquery-3.6.1.js:5640-5662, 8770-8792, 5160-5166, 5283-5288
NothingLeftBehind ==
    /\ calls = << >> => /\ ~ triggered
                        /\ clicking = {}
                        /\ \A n \in Nodes : saved[n] \in {Undefined, False}
    /\ \A n \in Nodes : \A k \in 1 .. Len(handlers[n]) :
          /\ handlers[n][k].sel # Nil <=> k <= delegateCount[n]
          /\ handlers[n][k].one => \A g \in Gesture : handlers[n][k].nr \notin log[g].called
=============================================================================
