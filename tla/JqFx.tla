-------------------------------- MODULE JqFx --------------------------------
(***************************************************************************)
(* The animations of html/jquery-3.6.1.js, for one element: the queue "fx" *)
(* in which they wait, the timers that run them frame by frame, stop() and *)
(* finish(), promise(), and what show(), hide() and toggle() keep to       *)
(* restore the style of the element.                                       *)
(*                                                                         *)
(* The code of the user runs in no frame, or in the callback complete of   *)
(* an animation, from where it can call all operations again.  The stack   *)
(* holds what is under way:                                                *)
(*   tick      the loop over the timers, at index i                        *)
(*   launch    doAnimation(), after the animation was made                 *)
(*   complete  the callbacks of an animation that is done, user code first *)
(*   stop      the loop of stop() over the timers, backwards               *)
(*   finish    that of finish(), and then the old queue                    *)
(*   ticked, splice   the timer is taken out, after the callbacks          *)
(***************************************************************************)
EXTENDS Integers, Sequences, FiniteSets

CONSTANTS
    Kinds,         \* what the user can start, see Kind
    MaxItems,      \* bound: animations and delays
    MaxStops,      \* bound: calls of stop(), finish(), clearQueue(), show() and hide()
    MaxLoops,      \* bound: frames requested at once
    None

\* what: an empty animation has no properties, as in animate({}).
\* queue: the option; FALSE is for animations outside of the queue.
\* duration: for how many frames an animation runs before its last
Kind == [what : {"plain", "empty", "show", "hide", "toggle"}, queue : BOOLEAN, duration : Nat]
Delay == [what |-> "delay", queue |-> TRUE, duration |-> 0]

\* The inline style of the element: "full" is the original, be it a size, auto
\* or nothing; "fixed" is the number that it came to; part is on the way
Style == {"full", "fixed", "part", "zero"}
Kept == [value : Style, hidden : BOOLEAN \cup {None}]

ASSUME FxAssumption ==
    /\ None \notin Style \cup Kept
    /\ Kinds \subseteq Kind \cup {Delay}
    /\ MaxItems \in Nat
    /\ MaxStops \in Nat
    /\ MaxLoops \in Nat \ {0}

Item == 1 .. MaxItems
Sentinel == 0      \* "inprogress"

VARIABLES
    queue,         \* "fxqueue" of the element
    hooks,         \* "fxqueueHooks": stop is the delay it would clear
    timers,        \* jQuery.timers
    inProgress,
    loops,         \* frames and timeouts that call schedule()
    delays,        \* delays whose timeout is pending
    finishing,     \* data.finish
    kinds,         \* the animations and delays, numbered as they are made
    item,          \* the state of the animations
    shown,         \* the element is displayed
    value,         \* the style that is animated
    fxshow,        \* what show and hide keep: the value and hidden, or None
    promise,       \* of promise()
    stack,
    stops,         \* history: calls that MaxStops bounds
    meddled,       \* history: the user did what upsets the order, see Meddle
    hurried,       \* history: an empty animation has moved the queue on, see Hurries
    interrupted,   \* history: an animation of the style was stopped half way
    spoilt         \* history: two animations of the style ran at a time, a
                   \* callback has thrown, or the last frame is run again

style == << shown, value, fxshow >>
engine == << timers, inProgress, loops >>
history == << stops, meddled, hurried, interrupted, spoilt >>
vars == << queue, hooks, engine, delays, finishing, kinds, item, style, promise, stack, history >>

NoHooks == [on |-> FALSE, stop |-> None, unqueued |-> 0]

\* left: frames to run; halted: stopped is set; hidden, orig, end: the
\* variables of defaultPrefilter, None without a tween
NoItem == [state |-> "none", left |-> 0, halted |-> FALSE,
           hidden |-> FALSE, orig |-> None, end |-> None]

TypeOK ==
    /\ queue \in Seq(Item \cup {Sentinel})
    /\ hooks \in [on : BOOLEAN, stop : Item \cup {None}, unqueued : Nat]
    /\ timers \in Seq(Item)
    /\ inProgress \in BOOLEAN
    /\ loops \in 0 .. MaxLoops
    /\ delays \subseteq Item
    /\ finishing \in BOOLEAN
    /\ kinds \in Seq(Kinds) /\ Len(kinds) <= MaxItems
    /\ \A i \in Item : item[i].state \in {"none", "running", "resolved", "rejected"}
    /\ shown \in BOOLEAN
    /\ value \in Style
    /\ fxshow \in Kept \cup {None}
    /\ promise \in {"none", "waiting", "resolved"}
    /\ stops \in 0 .. MaxStops

Init ==
    /\ queue = << >>
    /\ hooks = NoHooks
    /\ timers = << >>
    /\ inProgress = FALSE
    /\ loops = 0
    /\ delays = {}
    /\ finishing = FALSE
    /\ kinds = << >>
    /\ item = [i \in Item |-> NoItem]
    /\ shown = TRUE
    /\ value = "full"
    /\ fxshow = None
    /\ promise = "none"
    /\ stack = << >>
    /\ stops = 0
    /\ meddled = FALSE
    /\ hurried = FALSE
    /\ interrupted = FALSE
    /\ spoilt = FALSE

Top == stack[1]
Rest == Tail(stack)
TopIs(kind) == stack # << >> /\ Top.kind = kind

UserRuns == stack = << >> \/ TopIs("complete")

\* i is an animation that is not at its end: it carries the element
Running(i) == item[i].state = "running"
Queued(i) == kinds[i].queue

\* animate() and delay() put it into the queue; what is empty, or of no queue,
\* is started at once
Waits(kind) == kind.queue /\ kind.what # "empty"

Styles(i) == item[i].orig # None

-----------------------------------------------------------------------------
(* Parts of steps: what becomes of the queue, the engine and the style when *)
(* the frames rest stay on the stack                                        *)

\* hooks.empty.fire(), for the hooks h: the promise is resolved and the data
\* are removed, unless an animation outside of the queue holds it back
Fired(h) == IF h.unqueued > 0 THEN h ELSE NoHooks

\* mutant of Told: animations outside of the queue do not count
ToldEarly(h) == IF promise = "waiting" THEN "resolved" ELSE promise

Told(h) == IF h.unqueued = 0 /\ promise = "waiting" THEN "resolved" ELSE promise

\* Tween.cur(): the number that a style comes to
cur(v) == IF v = "full" THEN "fixed" ELSE v

\* mutant of KeptOf: the number at the time is kept
KeptOfNow(old) == cur(value)

\* dataShow[prop]: the number that the style came to before an animation had it
KeptOf(old) == IF old # None THEN old.value ELSE cur(value)

\* what will be restored: the number that an animation that was stopped has
\* left behind (unless it is 0), or the inline style
OrigOf(old) == IF old # None /\ old.value # "zero" THEN old.value ELSE value

isHiddenWithinTree == ~ shown

\* the element is displayed, or not.  The display that it had is kept elsewhere
showHide(show) == shown' = show

\* the end of a tween: a hidden element grows to the number that is kept
createTween(hidden, kept) == IF hidden THEN kept ELSE "zero"

\* defaultPrefilter: show, hide and toggle.  An animation that is stopped
\* leaves fxshow behind
Prefiltered(i) ==
    LET what == kinds'[i].what
        again == what = "show" /\ ~ isHiddenWithinTree /\ fxshow # None
        noop == \/ what = "empty"
                \/ what = (IF isHiddenWithinTree THEN "hide" ELSE "show") /\ ~ again
        seems == again \/ isHiddenWithinTree
        hidden == IF fxshow # None /\ fxshow.hidden # None THEN fxshow.hidden = TRUE ELSE seems
        kept == KeptOf(fxshow)
    IN IF what = "plain" \/ noop
         THEN /\ item' = [item EXCEPT ![i] =
                             [NoItem EXCEPT !.state = "running",
                                            !.left = IF noop THEN 0 ELSE kinds'[i].duration]]
              /\ UNCHANGED << style, spoilt >>
         ELSE /\ item' = [item EXCEPT ![i] =
                             [state |-> "running", left |-> kinds'[i].duration, halted |-> FALSE,
                              hidden |-> hidden, orig |-> OrigOf(fxshow),
                              end |-> createTween(hidden, kept)]]
              /\ fxshow' = [value |-> kept,
                            hidden |-> IF what = "toggle" THEN ~ hidden
                                       ELSE IF fxshow = None THEN None ELSE fxshow.hidden]
              /\ IF hidden THEN showHide(TRUE) ELSE UNCHANGED shown
              /\ value' = value
              /\ spoilt' = (spoilt \/ \E j \in Item : Running(j) /\ Styles(j))

\* mutant of Driven: only stop() lets the frames begin anew
DrivenNot(i, rest) ==
    /\ timers' = Append(timers, i)
    /\ inProgress' = TRUE
    /\ loops' = IF inProgress \/ stack # << >> THEN loops ELSE loops + 1
    /\ stack' = rest

\* fx.timer() and fx.start(): the first animation starts the frames, and runs
\* the first of them at once
Driven(i, rest) ==
    /\ timers' = Append(timers, i)
    /\ inProgress' = TRUE
    /\ loops' = IF inProgress THEN loops ELSE loops + 1
    /\ stack' = (IF inProgress THEN << >> ELSE << [kind |-> "tick", i |-> 1] >>) \o rest

\* doAnimation(): the animation is made
Launched(i, rest) ==
    /\ inProgress \/ loops < MaxLoops      \* bound
    /\ Prefiltered(i)
    /\ Driven(i, << [kind |-> "launch", of |-> i] >> \o rest)

WithoutSentinel(q) == IF q # << >> /\ Head(q) = Sentinel THEN Tail(q) ELSE q

\* jQuery.dequeue(), for the queue q and the pending delays d
Dequeued(q, d, rest) ==
    LET left == WithoutSentinel(q)
    IN IF left = << >>
         THEN /\ queue' = << >>
              /\ hooks' = Fired(hooks)
              /\ promise' = Told(hooks)
              /\ delays' = d
              /\ stack' = rest
              /\ UNCHANGED << engine, item, style, spoilt >>
         ELSE /\ queue' = << Sentinel >> \o Tail(left)
              /\ promise' = promise
              /\ IF kinds'[Head(left)] = Delay
                   THEN /\ delays' = d \cup {Head(left)}
                        /\ hooks' = [hooks EXCEPT !.on = TRUE, !.stop = Head(left)]
                        /\ stack' = rest
                        /\ UNCHANGED << engine, item, style, spoilt >>
                   ELSE /\ Launched(Head(left), rest)
                        /\ hooks' = [hooks EXCEPT !.on = TRUE, !.stop = None]
                        /\ delays' = d

\* The callbacks of animation i that is done or, rejected, stopped: an animation
\* outside of the queue is counted no more
Counted(i) ==
    LET h == [hooks EXCEPT !.unqueued = @ - 1]
    IN IF Queued(i)
         THEN UNCHANGED << hooks, promise >>
         ELSE /\ hooks' = IF queue = << >> THEN Fired(h) ELSE h
              /\ promise' = IF queue = << >> THEN Told(h) ELSE promise

\* The style in a frame of i.  In the last one the callbacks of show and hide
\* restore it
Ran(i) == IF Styles(i) THEN "part" ELSE value

RanToEnd(i) ==
    IF ~ Styles(i) THEN UNCHANGED style
    ELSE IF Running(i)
           THEN /\ IF item[i].hidden THEN UNCHANGED shown ELSE showHide(FALSE)
                /\ value' = item[i].orig
                /\ fxshow' = None
           ELSE /\ value' = item[i].end
                /\ UNCHANGED << shown, fxshow >>

\* the last frame, and deferred.resolveWith(), which calls back once
Resolved(i, halted, rest) ==
    /\ RanToEnd(i)
    /\ item' = [item EXCEPT ![i].halted = halted,
                            ![i].state = IF Running(i) THEN "resolved" ELSE @]
    /\ stack' = (IF Running(i) THEN << [kind |-> "complete", of |-> i] >> ELSE << >>) \o rest

-----------------------------------------------------------------------------
(* Operations of the user *)

\* animate() and delay() put it into the queue, and start the queue
Enqueue(kind) ==
    /\ UserRuns
    /\ Len(kinds) < MaxItems
    /\ Waits(kind)
    /\ kinds' = Append(kinds, kind)
    /\ IF queue # << >> /\ Head(queue) = Sentinel
         THEN /\ queue' = Append(queue, Len(kinds'))
              /\ hooks' = [hooks EXCEPT !.on = TRUE]
              /\ UNCHANGED << delays, promise, engine, item, style, stack, spoilt >>
         ELSE Dequeued(Append(queue, Len(kinds')), delays, stack)
    /\ meddled' = (meddled \/ finishing)
    /\ UNCHANGED << finishing, stops, hurried, interrupted >>

\* an animation that does not wait.  One outside of the queue counts in the hooks
Skip(kind) ==
    /\ UserRuns
    /\ Len(kinds) < MaxItems
    /\ ~ Waits(kind)
    /\ kinds' = Append(kinds, kind)
    /\ hooks' = IF kind.queue THEN hooks ELSE [hooks EXCEPT !.on = TRUE, !.unqueued = @ + 1]
    /\ Launched(Len(kinds'), stack)
    /\ UNCHANGED << queue, delays, finishing, promise, stops, meddled, hurried, interrupted >>

\* show(), hide() and toggle() without a speed change the element at once
ShowHide(show) ==
    /\ UserRuns
    /\ stops < MaxStops
    /\ stops' = stops + 1
    /\ show = isHiddenWithinTree
    /\ showHide(show)
    /\ UNCHANGED << queue, hooks, engine, delays, finishing, kinds, item, value, fxshow,
                    promise, stack, meddled, hurried, interrupted, spoilt >>

\* promise().  Bound: once, and by no callback
AskPromise ==
    /\ stack = << >>
    /\ promise = "none"
    /\ promise' = IF hooks.on THEN "waiting" ELSE "resolved"
    /\ UNCHANGED << queue, hooks, engine, delays, finishing, kinds, item, style, stack, history >>

\* What upsets the order: the queue is cleared while the sentinel stands for one
\* that runs; a callback stops what comes next; and a delay is cut short to its
\* end along with an animation, after whose end stop() leaves the queue alone.
\* (And a callback that finish() calls puts something into the queue, which has
\* no sentinel then.)
Meddle(clear, toEnd) ==
    meddled' = \/ meddled
               \/ clear
               \/ stack # << >>
               \/ toEnd /\ delays # {} /\ \E i \in Item : Running(i)

\* the queue is set and, as its head is not the sentinel then, dequeued.  This
\* fires hooks.empty, whatever runs
QueueCleared == queue' = << >> /\ promise' = Told(hooks)

\* stop() begins: the delay that runs is stopped, if the hooks are still there
Stop(clear, toEnd) ==
    /\ UserRuns
    /\ stops < MaxStops
    /\ stops' = stops + 1
    /\ Meddle(clear, toEnd)
    /\ IF clear THEN QueueCleared ELSE UNCHANGED << queue, promise >>
    /\ LET h == IF clear THEN Fired(hooks) ELSE hooks
       IN /\ hooks' = [h EXCEPT !.stop = None]
          /\ delays' = delays \ {h.stop}
    /\ stack' = << [kind |-> "stop", i |-> Len(timers), toEnd |-> toEnd, dequeue |-> TRUE] >>
                \o stack
    /\ UNCHANGED << engine, finishing, kinds, item, style, hurried, interrupted, spoilt >>

ClearQueue ==
    /\ UserRuns
    /\ stops < MaxStops
    /\ stops' = stops + 1
    /\ Meddle(TRUE, FALSE)
    /\ QueueCleared
    /\ hooks' = Fired(hooks)
    /\ UNCHANGED << engine, delays, finishing, kinds, item, style, stack, hurried, interrupted,
                    spoilt >>

\* finish() begins
Finish ==
    /\ UserRuns
    /\ stops < MaxStops
    /\ stops' = stops + 1
    /\ Meddle(FALSE, FALSE)
    /\ finishing' = TRUE
    /\ queue' = << >>
    /\ delays' = delays \ {hooks.stop}
    /\ stack' = << [kind |-> "finish", i |-> Len(timers), old |-> queue] >> \o stack
    /\ UNCHANGED << hooks, engine, kinds, item, style, promise, hurried, interrupted, spoilt >>

\* an empty animation was never in the queue, but it is of the queue "fx" and
\* moves it on: it takes the sentinel of the one that runs
Hurries(i) == Queued(i) /\ ~ Waits(kinds[i]) /\ queue # << >>

\* the callback complete returns, and the queue moves on
Return ==
    /\ TopIs("complete")
    /\ kinds' = kinds
    /\ IF Queued(Top.of)
         THEN Dequeued(queue, delays, Rest)
         ELSE /\ Counted(Top.of)
              /\ stack' = Rest
              /\ UNCHANGED << queue, engine, delays, item, style, spoilt >>
    /\ hurried' = (hurried \/ Hurries(Top.of))
    /\ UNCHANGED << finishing, stops, meddled, interrupted >>

\* it throws: all that is under way is left as it is
Throw ==
    /\ TopIs("complete")
    /\ stack' = << >>
    /\ meddled' = TRUE
    /\ spoilt' = TRUE
    /\ UNCHANGED << queue, hooks, engine, delays, finishing, kinds, item, style, promise,
                    stops, hurried, interrupted >>

-----------------------------------------------------------------------------
(* Frames and timeouts *)

\* the timeout of a delay
Timeout(i) ==
    /\ stack = << >>
    /\ i \in delays
    /\ kinds' = kinds
    /\ Dequeued(queue, delays \ {i}, << >>)
    /\ UNCHANGED << finishing, stops, meddled, hurried, interrupted >>

\* schedule(): another frame is requested, then the timers are run
Schedule ==
    /\ stack = << >>
    /\ loops > 0
    /\ IF inProgress
         THEN stack' = << [kind |-> "tick", i |-> 1] >> /\ loops' = loops
         ELSE stack' = stack /\ loops' = loops - 1
    /\ UNCHANGED << queue, hooks, timers, inProgress, delays, finishing, kinds, item, style,
                    promise, history >>

\* splice() beyond the end takes nothing out
Without(seq, k) ==
    IF k > Len(seq) THEN seq ELSE SubSeq(seq, 1, k - 1) \o SubSeq(seq, k + 1, Len(seq))

Ticking == TopIs("tick") /\ Top.i <= Len(timers)
Current == timers[Top.i]

\* a timer that has more to do
TickOn ==
    /\ Ticking
    /\ ~ item[Current].halted
    /\ item[Current].left > 0
    /\ item' = [item EXCEPT ![Current].left = @ - 1]
    /\ value' = Ran(Current)
    /\ stack' = << [Top EXCEPT !.i = @ + 1] >> \o Rest
    /\ UNCHANGED << queue, hooks, engine, delays, finishing, kinds, shown, fxshow, promise,
                    history >>

\* a timer that is done, or was stopped
TickLast ==
    /\ Ticking
    /\ item[Current].halted \/ item[Current].left = 0
    /\ LET ticked == << [kind |-> "ticked", i |-> Top.i, of |-> Current] >> \o Rest
       IN IF item[Current].halted
            THEN stack' = ticked /\ UNCHANGED << item, style >>
            ELSE Resolved(Current, FALSE, ticked)
    /\ UNCHANGED << queue, hooks, engine, delays, finishing, kinds, promise, history >>

\* the timer still stands there when its callbacks have run
Spliced(i, of) == i <= Len(timers) /\ timers[i] = of

\* it has ended, and has moved: its callbacks have taken others out
LeftBehind(i, seq) == ~ item[i].halted /\ \E k \in 1 .. Len(seq) : seq[k] = i

Ticked ==
    /\ TopIs("ticked")
    /\ timers' = IF Spliced(Top.i, Top.of) THEN Without(timers, Top.i) ELSE timers
    /\ stack' = << [kind |-> "tick",
                    i |-> IF Spliced(Top.i, Top.of) THEN Top.i ELSE Top.i + 1] >> \o Rest
    /\ spoilt' = (spoilt \/ LeftBehind(Top.of, timers'))
    /\ UNCHANGED << queue, hooks, inProgress, loops, delays, finishing, kinds, item, style,
                    promise, stops, meddled, hurried, interrupted >>

TickEnds ==
    /\ TopIs("tick")
    /\ Top.i > Len(timers)
    /\ inProgress' = (inProgress /\ timers # << >>)
    /\ stack' = Rest
    /\ UNCHANGED << queue, hooks, timers, loops, delays, finishing, kinds, item, style,
                    promise, history >>

\* anim.stop(true) of doAnimation(): an empty animation, and any within
\* finish(), is ended at once, even when it took no time and has ended
EndsAtOnce(i) == (kinds[i].what = "empty" \/ finishing) /\ ~ item[i].halted

Launch ==
    /\ TopIs("launch")
    /\ IF EndsAtOnce(Top.of)
         THEN Resolved(Top.of, TRUE, Rest)
         ELSE stack' = Rest /\ UNCHANGED << item, style >>
    /\ spoilt' = (spoilt \/ (EndsAtOnce(Top.of) /\ Styles(Top.of) /\ ~ Running(Top.of)))
    /\ UNCHANGED << queue, hooks, engine, delays, finishing, kinds, promise, stops, meddled,
                    hurried, interrupted >>

-----------------------------------------------------------------------------
(* The loops of stop() and finish() *)

Looping == (TopIs("stop") \/ TopIs("finish")) /\ Top.i > 0

\* the timers that are stopped: those that carry the element, and finish()
\* leaves those outside of the queue alone
Concerned(i) == Running(i) /\ (Top.kind = "finish" => Queued(i))

Stepped == [Top EXCEPT !.i = @ - 1]

PassTimer ==
    /\ Looping
    /\ Top.i <= Len(timers)
    /\ ~ Concerned(Current)
    /\ stack' = << Stepped >> \o Rest
    /\ UNCHANGED << queue, hooks, engine, delays, finishing, kinds, item, style, promise, history >>

ToEnd == Top.kind = "stop" => Top.toEnd

Noted == IF Top.kind = "stop" THEN [Top EXCEPT !.dequeue = FALSE] ELSE Top

\* anim.stop(true): the callbacks run before the timer is taken out
EndTimer ==
    /\ Looping
    /\ Top.i <= Len(timers)
    /\ Concerned(Current)
    /\ ToEnd
    /\ Resolved(Current, TRUE, << [kind |-> "splice"], Noted >> \o Rest)
    /\ UNCHANGED << queue, hooks, engine, delays, finishing, kinds, promise, history >>

\* anim.stop(): the animation is rejected, and stays as it is
BreakTimer ==
    /\ Looping
    /\ Top.i <= Len(timers)
    /\ Concerned(Current)
    /\ ~ ToEnd
    /\ item' = [item EXCEPT ![Current].halted = TRUE, ![Current].state = "rejected"]
    /\ Counted(Current)
    /\ stack' = << [kind |-> "splice"], Noted >> \o Rest
    /\ interrupted' = (interrupted \/ Styles(Current))
    /\ UNCHANGED << queue, engine, delays, finishing, kinds, style, stops, meddled, hurried,
                    spoilt >>

\* timers.splice(index, 1), wherever the timer stands now
Splice ==
    /\ TopIs("splice")
    /\ timers' = Without(timers, stack[2].i)
    /\ stack' = << [stack[2] EXCEPT !.i = @ - 1] >> \o Tail(Rest)
    /\ UNCHANGED << queue, hooks, inProgress, loops, delays, finishing, kinds, item, style,
                    promise, history >>

\* callbacks have taken so many timers out that there is none at the index: a
\* TypeError
Crash ==
    /\ Looping
    /\ Top.i > Len(timers)
    /\ stack' = << >>
    /\ spoilt' = TRUE
    /\ UNCHANGED << queue, hooks, engine, delays, finishing, kinds, item, style, promise,
                    stops, meddled, hurried, interrupted >>

\* mutant of MovesOn: the queue moves on after every stop()
MovesOnAlways(f) == TRUE

\* stop() starts the next in the queue, "if the last step wasn't forced"
MovesOn(f) == f.dequeue \/ ~ f.toEnd

StopEnds ==
    /\ TopIs("stop")
    /\ Top.i = 0
    /\ kinds' = kinds
    /\ IF MovesOn(Top)
         THEN Dequeued(queue, delays, Rest)
         ELSE /\ stack' = Rest
              /\ UNCHANGED << queue, hooks, promise, engine, delays, item, style, spoilt >>
    /\ UNCHANGED << finishing, stops, meddled, hurried, interrupted >>

\* finish() runs the animations of the old queue, each to its end
FinishOld ==
    /\ TopIs("finish")
    /\ Top.i = 0
    /\ Top.old # << >>
    /\ kinds' = kinds
    /\ LET i == Head(Top.old)
           on == << [Top EXCEPT !.old = Tail(@)] >> \o Rest
       IN IF i = Sentinel \/ kinds[i] = Delay
            THEN /\ stack' = on
                 /\ UNCHANGED << engine, item, style, spoilt >>
            ELSE Launched(i, on)
    /\ UNCHANGED << queue, hooks, delays, finishing, promise, stops, meddled, hurried,
                    interrupted >>

FinishEnds ==
    /\ TopIs("finish")
    /\ Top.i = 0
    /\ Top.old = << >>
    /\ finishing' = FALSE
    /\ stack' = Rest
    /\ UNCHANGED << queue, hooks, engine, delays, kinds, item, style, promise, history >>

-----------------------------------------------------------------------------

Run ==
    \/ TickOn \/ TickLast \/ Ticked \/ TickEnds \/ Launch
    \/ PassTimer \/ EndTimer \/ BreakTimer \/ Splice \/ Crash
    \/ StopEnds \/ FinishOld \/ FinishEnds

User ==
    \/ \E kind \in Kinds : Enqueue(kind) \/ Skip(kind)
    \/ \E show \in BOOLEAN : ShowHide(show)
    \/ AskPromise \/ ClearQueue \/ Finish
    \/ \E clear, toEnd \in BOOLEAN : Stop(clear, toEnd)
    \/ Throw

Browser == Schedule \/ \E i \in Item : Timeout(i)

Next == Run \/ User \/ Return \/ Browser

Spec == Init /\ [][Next]_vars

-----------------------------------------------------------------------------
(* Properties *)

AtRest == stack = << >>

\* what of the queue is under way
UnderWay ==
    delays \cup {i \in 1 .. Len(kinds) : Running(i) /\ kinds[i] # Delay /\ Waits(kinds[i])}

(* The sentinel tells the truth: one animation or delay of the queue is    *)
(* under way when it stands there, and none when it does not; so the queue *)
(* neither hangs nor runs two at a time, whatever is stopped from outside  *)
(* of callbacks, and whatever callbacks start.  (Unless the user has       *)
(* meddled, see Meddle and Throw, or has called animate({}) while          *)
(* something of the queue was under way, see Hurries.)                     *)
\* jquery-3.6.1.js:4577-4609, 7768-7772, 7809-7862
SentinelIsTrue ==
    AtRest /\ ~ meddled /\ ~ hurried =>
        Cardinality(UnderWay) = (IF queue # << >> /\ Head(queue) = Sentinel THEN 1 ELSE 0)

(* Whatever is shown, hidden, toggled, stopped half way and started again, *)
(* the size of the element comes back: what is kept while an animation has *)
(* the style is the number that the original came to, never one of the way *)
(* between.  After the last one the element has this size, and if none was *)
(* stopped half way even the original inline style; if one was, it may end *)
(* with the number, an auto height for instance as a fixed one.  (Unless   *)
(* two animations had the style at a time, or the last frame is run again, *)
(* after the style was restored: when a callback threw; when callbacks     *)
(* have stopped others and the timer is not taken out, because it has      *)
(* moved; and when finish() ends one that took no time.)                   *)
\* jquery-3.6.1.js:7397-7420, 7470-7528, 7924-7946
OriginalComesBack ==
    ~ spoilt => IF fxshow # None THEN fxshow.value = "fixed"
                ELSE value = "full" \/ (value = "fixed" /\ interrupted)

(* The promise is kept: when it is resolved nothing of the queue is under  *)
(* way or waits, nor an animation outside of it.  (Unless finish() is      *)
(* under way, which ends them all but tells so after the first, or the     *)
(* user has meddled or called animate({}) as above.)                       *)
\* jquery-3.6.1.js:4660-4690, 7367-7395
PromiseIsKept ==
    [][promise = "waiting" /\ promise' = "resolved" =>
          \/ meddled' \/ hurried' \/ finishing
          \/ queue' = << >> /\ \A i \in Item : item'[i].state # "running"]_vars

(* An animation goes on: as long as there are timers frames are requested, *)
(* whoever has stopped and started animations meanwhile, callbacks too.    *)
(* And those that run are among the timers: no other was taken out in      *)
(* place of one that has ended.  (This half unless the user has meddled:   *)
(* when a callback stops others the loops of stop(), finish() and tick()   *)
(* do take out the wrong one.)                                             *)
\* jquery-3.6.1.js:7304-7325, 7841-7851, 7924-7966
AnimationsGoOn ==
    AtRest => /\ timers # << >> => inProgress /\ loops > 0
              /\ ~ meddled => \A i \in Item : Running(i) =>
                                    \E k \in 1 .. Len(timers) : timers[k] = i

(* What jquery-3.6.1.js:4593-4594 says of the sentinel: it prevents the    *)
(* queue from being automatically dequeued, so one runs after the other.   *)
OneByOne == AtRest /\ ~ meddled => Cardinality(UnderWay) <= 1
=============================================================================
