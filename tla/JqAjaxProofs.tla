---------------------------- MODULE JqAjaxProofs ----------------------------
(***************************************************************************)
(* Proofs about JqAjax, for any set of requests, options and answers: a    *)
(* request keeps the outcome it has got, its callbacks are told once, and  *)
(* it goes on exactly as long as its XMLHttpRequest.                       *)
(***************************************************************************)
EXTENDS JqAjax, SequenceTheorems, FiniteSetTheorems, TLAPS

CoreTypes ==
    /\ stack \in Seq(Frame)
    /\ completed \in [Requests -> {"undefined", "false", "true"}]
    /\ transport \in [Requests -> BOOLEAN]
    /\ callback \in [Requests -> {"undefined", "set", "null"}]
    /\ xhr \in [Requests -> {"none", "opened", "sent", "over"}]
    /\ timer \in [Requests -> BOOLEAN]
    /\ deferred \in [Requests -> {"pending", "resolved", "rejected"}]
    /\ returned \in [Requests -> {"not called", "no", "yes", "thrown"}]
    /\ told \in [Requests -> {"none", "done", "fail"}]
    /\ stuck \in [Requests -> BOOLEAN]

(* What a call under way knows of its request, in particular while no code *)
(* of the user can run: then it is the innermost one.                      *)
FrameOK(f, innermost) ==
    /\ f.of = "ajax" => returned[f.r] = "no"
    /\ f.at = "send" => innermost /\ completed[f.r] # "true" /\ transport[f.r]
    /\ f.at = "ajaxSend" /\ completed[f.r] # "true" => transport[f.r]
    /\ f.at = "sending" =>
          /\ xhr[f.r] \in {"opened", "over"}
          /\ xhr[f.r] = "opened" => innermost
          /\ callback[f.r] = "set" => xhr[f.r] = "opened"
    /\ f.at \in AjaxPoints \cup {"send"} => callback[f.r] # "set" /\ xhr[f.r] = "none"

(* Each request has at most one call of ajax().                            *)
OneCall ==
    \A i, j \in 1 .. Len(stack) :
        stack[i].of = "ajax" /\ stack[j].of = "ajax" /\ stack[i].r = stack[j].r => i = j

FramesOK ==
    \A i \in 1 .. Len(stack), f \in Frame : f = stack[i] =>
        /\ i = 1 => FrameOK(f, TRUE)
        /\ i # 1 => FrameOK(f, FALSE)

StackInv == OneCall /\ FramesOK

RequestInv ==
    \A r \in Requests :
        /\ completed[r] = "true" <=> deferred[r] # "pending"
        /\ callback[r] = "set" /\ xhr[r] # "over" => completed[r] = "false" /\ transport[r]
        /\ xhr[r] \in {"opened", "sent"} => callback[r] = "set"
        /\ returned[r] = "not called" =>
              callback[r] # "set" /\ xhr[r] = "none" /\ completed[r] = "undefined"
        /\ timer[r] => completed[r] = "false"
        /\ deferred[r] = "pending" => told[r] = "none"
        /\ returned[r] # "yes" => told[r] = "none"

-----------------------------------------------------------------------------
(* The stack *)

LEMMA FrameParts ==
  ASSUME NEW f \in Frame
  PROVE  /\ f.r \in Requests
         /\ f.at \in AjaxPoints \cup DonePoints \cup {"send", "sending"}
         /\ f.at \in AjaxPoints \cup {"send", "sending"} => f.of = "ajax"
  BY DEF Frame, AjaxPoints, DonePoints

LEMMA StackType ==
  ASSUME CoreTypes
  PROVE  stack \in Seq(Frame) /\ Len(stack) \in Nat
<1>1. stack \in Seq(Frame)
  BY DEF CoreTypes
<1>2. QED
  BY <1>1

LEMMA TopFrame ==
  ASSUME CoreTypes, stack # << >>
  PROVE  /\ stack[1] \in Frame /\ Top \in Requests
         /\ 1 \in 1 .. Len(stack) /\ Len(stack) \in Nat
<1>1. Len(stack) \in Nat /\ 1 \in 1 .. Len(stack) /\ stack[1] \in Frame
  BY StackType
<1>2. QED
  BY <1>1, FrameParts DEF Top

\* a sequence with another first element
LEMMA PushShape ==
  ASSUME NEW S, NEW x \in S, NEW s \in Seq(S)
  PROVE  /\ << x >> \o s \in Seq(S)
         /\ Len(<< x >> \o s) = Len(s) + 1
         /\ (<< x >> \o s)[1] = x
         /\ \A i \in 2 .. Len(s) + 1 : (<< x >> \o s)[i] = s[i - 1]
<1>1. << x >> \in Seq(S) /\ Len(<< x >>) = 1 /\ << x >>[1] = x
  OBVIOUS
<1>2. QED
  BY <1>1, ConcatProperties

LEMMA TailShape ==
  ASSUME NEW S, NEW s \in Seq(S), s # << >>
  PROVE  /\ Tail(s) \in Seq(S)
         /\ Len(Tail(s)) = Len(s) - 1
         /\ \A i \in 1 .. Len(s) - 1 : Tail(s)[i] = s[i + 1]
  BY HeadTailProperties

\* f is not the call of ajax() that is the innermost now
Other(f) == f.of = "ajax" /\ stack[1].of = "ajax" => f.r # stack[1].r

\* what a step leaves of the calls below the innermost one
OthersKept == \A f \in Frame : Other(f) /\ FrameOK(f, FALSE) => FrameOK(f, FALSE)'

LEMMA OthersAreOther ==
  ASSUME CoreTypes, StackInv, stack # << >>, NEW i \in 2 .. Len(stack)
  PROVE  stack[i] \in Frame /\ Other(stack[i]) /\ FrameOK(stack[i], FALSE)
<1>1. 1 \in 1 .. Len(stack) /\ i \in 1 .. Len(stack) /\ i # 1 /\ stack[i] \in Frame
  BY StackType
<1>2. Other(stack[i])
  BY <1>1 DEF StackInv, OneCall, Other
<1>3. FrameOK(stack[i], FALSE)
  BY <1>1 DEF StackInv, FramesOK
<1>4. QED
  BY <1>1, <1>2, <1>3

\* a call is added
LEMMA PushKeeps ==
  ASSUME CoreTypes, StackInv, NEW g \in Frame, stack' = << g >> \o stack,
         g.of = "ajax" => returned[g.r] # "no",
         FrameOK(g, TRUE)',
         stack # << >> => OthersKept /\ \A f \in Frame : f = stack[1] => FrameOK(f, FALSE)'
  PROVE  stack' \in Seq(Frame) /\ StackInv'
<1>1. stack \in Seq(Frame) /\ Len(stack) \in Nat
  BY StackType
<1>2. /\ stack' \in Seq(Frame) /\ Len(stack') = Len(stack) + 1 /\ stack'[1] = g
      /\ \A i \in 2 .. Len(stack) + 1 : stack'[i] = stack[i - 1]
  BY <1>1, PushShape
<1>3. ASSUME NEW i \in 1 .. Len(stack), stack[i].of = "ajax"
      PROVE  returned[stack[i].r] = "no"
  <2>1. stack[i] \in Frame
    BY <1>1
  <2>2. FrameOK(stack[i], TRUE) \/ FrameOK(stack[i], FALSE)
    BY <2>1 DEF StackInv, FramesOK
  <2>3. QED
    BY <1>3, <2>2 DEF FrameOK
<1>4. OneCall'
  <2>1. SUFFICES ASSUME NEW i \in 1 .. Len(stack'), NEW j \in 1 .. Len(stack'),
                        stack'[i].of = "ajax", stack'[j].of = "ajax", stack'[i].r = stack'[j].r
                 PROVE  i = j
    BY DEF OneCall
  <2>2. \A k \in 1 .. Len(stack') : k # 1 =>
            k - 1 \in 1 .. Len(stack) /\ stack'[k] = stack[k - 1]
    BY <1>1, <1>2
  <2>3. CASE i = 1 \/ j = 1
    BY <1>2, <1>3, <2>1, <2>2, <2>3
  <2>4. CASE i # 1 /\ j # 1
    <3>1. i - 1 = j - 1
      BY <2>1, <2>2, <2>4 DEF StackInv, OneCall
    <3>2. QED
      BY <1>2, <3>1
  <2>5. QED
    BY <2>3, <2>4
<1>5. ASSUME NEW i \in 1 .. Len(stack'), NEW f \in Frame, f = stack'[i], i # 1
      PROVE  FrameOK(f, FALSE)'
  <2>1. i - 1 \in 1 .. Len(stack) /\ f = stack[i - 1] /\ stack # << >>
    <3>1. i \in 2 .. Len(stack) + 1
      BY <1>1, <1>2, <1>5
    <3>2. f = stack[i - 1] /\ Len(stack) # 0
      BY <1>1, <1>2, <1>5, <3>1
    <3>3. stack # << >>
      BY <3>2
    <3>4. QED
      BY <1>1, <3>1, <3>2, <3>3
  <2>2. CASE i = 2
    <3>1. i - 1 = 1
      BY <2>2
    <3>2. QED
      BY <2>1, <3>1
  <2>3. CASE i # 2
    <3>1. i - 1 \in 2 .. Len(stack)
      BY <1>1, <1>2, <1>5, <2>1, <2>3
    <3>2. Other(f) /\ FrameOK(f, FALSE)
      BY <2>1, <3>1, OthersAreOther
    <3>3. QED
      BY <2>1, <3>2 DEF OthersKept
  <2>4. QED
    BY <2>2, <2>3
<1>6. FramesOK'
  BY <1>2, <1>5 DEF FramesOK
<1>7. QED
  BY <1>2, <1>4, <1>6 DEF StackInv

\* the innermost call goes on, or another one takes its place
Replaced(g) ==
    /\ stack' \in Seq(Frame) /\ Len(stack') = Len(stack)
    /\ stack'[1] = g
    /\ \A i \in 2 .. Len(stack) : stack'[i] = stack[i]

LEMMA ReplaceKeeps ==
  ASSUME CoreTypes, StackInv, stack # << >>, NEW g \in Frame, Replaced(g),
         g.of = "ajax" => stack[1].of = "ajax" /\ g.r = stack[1].r,
         FrameOK(g, TRUE)', OthersKept
  PROVE  stack' \in Seq(Frame) /\ StackInv'
<1>1. stack \in Seq(Frame) /\ Len(stack) \in Nat /\ 1 \in 1 .. Len(stack)
  BY StackType, TopFrame
<1>2. OneCall'
  <2>1. \A i \in 1 .. Len(stack) : stack'[i].of = "ajax" =>
            stack[i].of = "ajax" /\ stack'[i].r = stack[i].r
    BY <1>1 DEF Replaced
  <2>2. QED
    BY <2>1 DEF Replaced, StackInv, OneCall
<1>3. ASSUME NEW i \in 1 .. Len(stack'), NEW f \in Frame, f = stack'[i], i # 1
      PROVE  FrameOK(f, FALSE)'
  <2>1. i \in 2 .. Len(stack) /\ f = stack[i]
    BY <1>1, <1>3 DEF Replaced
  <2>2. QED
    BY <2>1, OthersAreOther DEF OthersKept
<1>4. FramesOK'
  BY <1>3 DEF FramesOK, Replaced
<1>5. QED
  BY <1>2, <1>4 DEF StackInv, Replaced

\* the innermost call returns, or is left by an exception
LEMMA PopKeeps ==
  ASSUME CoreTypes, StackInv, stack # << >>, stack' = Tail(stack), OthersKept
  PROVE  stack' \in Seq(Frame) /\ StackInv'
<1>1. stack \in Seq(Frame) /\ Len(stack) \in Nat /\ 1 \in 1 .. Len(stack)
  BY StackType, TopFrame
<1>2. /\ stack' \in Seq(Frame) /\ Len(stack') = Len(stack) - 1
      /\ \A i \in 1 .. Len(stack) - 1 : stack'[i] = stack[i + 1]
  BY <1>1, TailShape
<1>3. OneCall'
  <2>1. SUFFICES ASSUME NEW i \in 1 .. Len(stack) - 1, NEW j \in 1 .. Len(stack) - 1,
                        stack[i + 1].of = "ajax", stack[j + 1].of = "ajax",
                        stack[i + 1].r = stack[j + 1].r
                 PROVE  i = j
    BY <1>1, <1>2 DEF OneCall
  <2>2. i + 1 \in 1 .. Len(stack) /\ j + 1 \in 1 .. Len(stack)
    BY <1>1
  <2>3. i + 1 = j + 1
    BY <2>1, <2>2 DEF StackInv, OneCall
  <2>4. QED
    BY <2>3
<1>4. ASSUME NEW i \in 1 .. Len(stack'), NEW f \in Frame, f = stack'[i]
      PROVE  FrameOK(f, FALSE)' /\ FrameOK(f, TRUE)'
  <2>1. i + 1 \in 2 .. Len(stack) /\ f = stack[i + 1]
    BY <1>1, <1>2, <1>4
  <2>2. FrameOK(f, FALSE)'
    BY <2>1, OthersAreOther DEF OthersKept
  <2>3. QED
    BY <2>2 DEF FrameOK
<1>5. FramesOK'
  BY <1>4 DEF FramesOK
<1>6. QED
  BY <1>2, <1>3, <1>5 DEF StackInv

LEMMA GotoReplaces ==
  ASSUME CoreTypes, stack # << >>, NEW place, Goto(place),
         NEW g \in Frame, g = [stack[1] EXCEPT !.at = place]
  PROVE  Replaced(g)
<1>1. stack \in Seq(Frame) /\ Len(stack) \in Nat /\ 1 \in 1 .. Len(stack)
  BY StackType, TopFrame
<1>2. stack' = [stack EXCEPT ![1] = g]
  BY DEF Goto
<1>3. QED
  BY <1>1, <1>2, ExceptSeq DEF Replaced

LEMMA PushReplaces ==
  ASSUME CoreTypes, stack # << >>, NEW g \in Frame, stack' = << g >> \o Tail(stack)
  PROVE  Replaced(g)
<1>1. stack \in Seq(Frame) /\ Len(stack) \in Nat /\ 1 \in 1 .. Len(stack)
  BY StackType, TopFrame
<1>2. /\ Tail(stack) \in Seq(Frame) /\ Len(Tail(stack)) = Len(stack) - 1
      /\ \A i \in 1 .. Len(stack) - 1 : Tail(stack)[i] = stack[i + 1]
  BY <1>1, TailShape
<1>3. /\ stack' \in Seq(Frame) /\ Len(stack') = Len(Tail(stack)) + 1 /\ stack'[1] = g
      /\ \A i \in 2 .. Len(Tail(stack)) + 1 : stack'[i] = Tail(stack)[i - 1]
  BY <1>2, PushShape
<1>4. ASSUME NEW i \in 2 .. Len(stack) PROVE stack'[i] = stack[i]
  <2>1. i - 1 \in 1 .. Len(stack) - 1 /\ (i - 1) + 1 = i /\ i \in 2 .. Len(Tail(stack)) + 1
    BY <1>1, <1>2
  <2>2. QED
    BY <1>2, <1>3, <2>1
<1>5. Len(stack') = Len(stack)
  BY <1>1, <1>2, <1>3
<1>6. QED
  BY <1>3, <1>4, <1>5 DEF Replaced

-----------------------------------------------------------------------------
(* Steps *)

AjaxInv == CoreTypes /\ StackInv /\ RequestInv

LEMMA NothingElse ==
  ASSUME UNCHANGED << completed, transport, callback, xhr, returned >>
  PROVE  OthersKept /\ \A f \in Frame : FrameOK(f, FALSE) => FrameOK(f, FALSE)'
  BY DEF OthersKept, FrameOK

\* what happens to the request of the innermost call of ajax() is of no concern
\* to the calls below
LEMMA TopOnly ==
  ASSUME CoreTypes, stack # << >>, stack[1].of = "ajax",
         \A p \in Requests \ {Top} :
            /\ completed'[p] = completed[p] /\ transport'[p] = transport[p]
            /\ callback'[p] = callback[p] /\ xhr'[p] = xhr[p]
            /\ returned'[p] = returned[p]
  PROVE  OthersKept
<1>1. SUFFICES ASSUME NEW f \in Frame, Other(f), FrameOK(f, FALSE) PROVE FrameOK(f, FALSE)'
  BY DEF OthersKept
<1>2. f.r \in Requests /\ (f.at \in AjaxPoints \cup {"send", "sending"} => f.of = "ajax")
  BY FrameParts
<1>3. CASE f.of = "ajax"
  <2>1. f.r \in Requests \ {Top}
    BY <1>1, <1>2, <1>3 DEF Other, Top
  <2>2. QED
    BY <1>1, <2>1 DEF FrameOK
<1>4. CASE f.of # "ajax"
  BY <1>2, <1>4 DEF FrameOK, AjaxPoints
<1>5. QED
  BY <1>3, <1>4

LEMMA TopIsOK ==
  ASSUME CoreTypes, StackInv, stack # << >>
  PROVE  FrameOK(stack[1], TRUE)
  BY TopFrame DEF StackInv, FramesOK

\* the innermost call at another place
LEMMA GotoFrame ==
  ASSUME CoreTypes, stack # << >>, NEW place,
         \/ /\ stack[1].at \in AjaxPoints \cup {"send", "sending"}
            /\ place \in AjaxPoints \cup {"send", "sending"}
         \/ place \in DonePoints
  PROVE  \E g \in Frame : /\ g = [stack[1] EXCEPT !.at = place]
                          /\ g.r = Top /\ g.of = stack[1].of /\ g.at = place
<1>1. stack[1] \in Frame
  BY TopFrame
<1>2. stack[1].at \in AjaxPoints \cup {"send", "sending"} => stack[1].of = "ajax"
  BY <1>1, FrameParts
<1> DEFINE g == [stack[1] EXCEPT !.at = place]
<1>3. g = [r |-> stack[1].r, of |-> stack[1].of, at |-> place]
  BY <1>1 DEF Frame
<1>4. stack[1].r \in Requests /\ stack[1].of \in {"ajax", "event", "user"}
  BY <1>1 DEF Frame
<1>5. g \in Frame
  BY <1>2, <1>3, <1>4 DEF Frame
<1>6. QED
  BY <1>3, <1>5 DEF Top

\* a step that only moves the innermost call on
LEMMA MoveStep ==
  ASSUME AjaxInv, stack # << >>, NEW place, Goto(place),
         UNCHANGED << completed, transport, callback, xhr, timer, deferred, callerVars >>,
         \/ /\ stack[1].at \in AjaxPoints \cup {"send", "sending"}
            /\ place \in AjaxPoints \cup {"send", "sending"}
         \/ place \in DonePoints,
         place \in AjaxPoints \cup {"send"} => stack[1].at \in AjaxPoints,
         place = "ajaxSend" => transport[Top],
         place = "send" => completed[Top] # "true" /\ transport[Top],
         place # "sending"
  PROVE  AjaxInv'
<1>1. CoreTypes /\ StackInv /\ RequestInv
  BY DEF AjaxInv
<1>2. PICK g \in Frame : /\ g = [stack[1] EXCEPT !.at = place]
                        /\ g.r = Top /\ g.of = stack[1].of /\ g.at = place
  BY <1>1, GotoFrame
<1>3. Replaced(g)
  BY <1>1, <1>2, GotoReplaces
<1>4. OthersKept
  BY NothingElse DEF callerVars
<1>5. FrameOK(stack[1], TRUE)
  BY <1>1, TopIsOK
<1>6. FrameOK(g, TRUE)'
  BY <1>2, <1>5 DEF FrameOK, Top, AjaxPoints, DonePoints, callerVars
<1>7. stack' \in Seq(Frame) /\ StackInv'
  BY <1>1, <1>2, <1>3, <1>4, <1>6, ReplaceKeeps DEF Top
<1>8. CoreTypes'
  BY <1>1, <1>7 DEF CoreTypes, callerVars
<1>9. RequestInv'
  BY <1>1 DEF RequestInv, callerVars
<1>10. QED
  BY <1>7, <1>8, <1>9 DEF AjaxInv

\* ajax() returns
LEMMA ReturnStep ==
  ASSUME AjaxInv, stack # << >>, stack[1].of = "ajax", ReturnJqXHR(Top),
         UNCHANGED << completed, callback, timer, deferred >>,
         transport' \in [Requests -> BOOLEAN],
         \A p \in Requests : transport[p] => transport'[p],
         \A p \in Requests \ {Top} : transport'[p] = transport[p],
         xhr' = xhr \/ xhr' = [xhr EXCEPT ![Top] = IF @ = "opened" THEN "sent" ELSE @]
  PROVE  AjaxInv'
<1>1. CoreTypes /\ StackInv /\ RequestInv /\ Top \in Requests
  BY TopFrame DEF AjaxInv
<1>2. returned[Top] = "no"
  BY <1>1, TopIsOK DEF FrameOK, Top
<1>3. /\ stack' = Tail(stack) /\ stuck' = stuck
      /\ returned' = [returned EXCEPT ![Top] = "yes"]
      /\ told' = [told EXCEPT ![Top] = IF stuck[Top] THEN @ ELSE Outcome(Top)]
  BY DEF ReturnJqXHR
<1>4. OthersKept
  <2>1. \A p \in Requests \ {Top} : returned'[p] = returned[p]
    BY <1>1, <1>3 DEF CoreTypes
  <2>2. \A p \in Requests \ {Top} : xhr'[p] = xhr[p]
    <3>1. xhr \in [Requests -> {"none", "opened", "sent", "over"}]
      BY <1>1 DEF CoreTypes
    <3>2. QED
      BY <3>1
  <2>3. QED
    BY <1>1, <2>1, <2>2, TopOnly
<1>5. stack' \in Seq(Frame) /\ StackInv'
  BY <1>1, <1>3, <1>4, PopKeeps
<1>6. /\ Outcome(Top) \in {"none", "done", "fail"}
      /\ deferred[Top] = "pending" => Outcome(Top) = "none"
  BY <1>1 DEF Outcome, CoreTypes
<1>7. /\ xhr' \in [Requests -> {"none", "opened", "sent", "over"}]
      /\ \A p \in Requests : \/ xhr'[p] = xhr[p]
                             \/ p = Top /\ xhr[p] = "opened" /\ xhr'[p] = "sent"
  <2>1. xhr \in [Requests -> {"none", "opened", "sent", "over"}]
    BY <1>1 DEF CoreTypes
  <2>2. CASE xhr' = xhr
    BY <2>1, <2>2
  <2>3. CASE xhr' = [xhr EXCEPT ![Top] = IF @ = "opened" THEN "sent" ELSE @]
    BY <1>1, <2>1, <2>3
  <2>4. QED
    BY <2>2, <2>3
<1>8. CoreTypes'
  BY <1>1, <1>3, <1>5, <1>6, <1>7 DEF CoreTypes
<1>9. RequestInv'
  <2>1. SUFFICES ASSUME NEW p \in Requests
        PROVE  /\ completed[p] = "true" <=> deferred[p] # "pending"
               /\ callback[p] = "set" /\ xhr'[p] # "over" => completed[p] = "false" /\ transport'[p]
               /\ xhr'[p] \in {"opened", "sent"} => callback[p] = "set"
               /\ returned'[p] = "not called" =>
                     callback[p] # "set" /\ xhr'[p] = "none" /\ completed[p] = "undefined"
               /\ timer[p] => completed[p] = "false"
               /\ deferred[p] = "pending" => told'[p] = "none"
               /\ returned'[p] # "yes" => told'[p] = "none"
    BY DEF RequestInv
  <2>2. CASE p = Top
    <3>1. returned'[p] = "yes" /\ told'[p] = IF stuck[p] THEN told[p] ELSE Outcome(p)
      BY <1>1, <1>3, <2>2 DEF CoreTypes
    <3>2. QED
      BY <1>1, <1>2, <1>6, <1>7, <2>2, <3>1 DEF RequestInv
  <2>3. CASE p # Top
    <3>1. returned'[p] = returned[p] /\ told'[p] = told[p]
      BY <1>1, <1>3, <2>3 DEF CoreTypes
    <3>2. QED
      BY <1>1, <1>7, <2>3, <3>1 DEF RequestInv
  <2>4. QED
    BY <2>2, <2>3
<1>10. QED
  BY <1>5, <1>8, <1>9 DEF AjaxInv

\* done(), which ended the call of ajax(), or that an event or the user has called
LEMMA DoneReturns ==
  ASSUME AjaxInv, stack # << >>, ReturnFromDone,
         UNCHANGED << completed, callback, timer, deferred, transport, xhr >>
  PROVE  AjaxInv'
<1>1. CoreTypes /\ StackInv /\ RequestInv
  BY DEF AjaxInv
<1>2. CASE stack[1].of = "ajax"
  BY <1>1, <1>2, ReturnStep DEF ReturnFromDone, CoreTypes
<1>3. CASE stack[1].of # "ajax"
  <2>1. stack' = Tail(stack) /\ UNCHANGED << returned, told, stuck >>
    BY <1>3 DEF ReturnFromDone, callerVars
  <2>2. stack' \in Seq(Frame) /\ StackInv'
    BY <1>1, <2>1, NothingElse, PopKeeps
  <2>3. QED
    BY <1>1, <2>1, <2>2 DEF AjaxInv, CoreTypes, RequestInv
<1>4. QED
  BY <1>2, <1>3

-----------------------------------------------------------------------------
(* Steps that settle a request *)

\* what becomes of the requests when r is settled
LEMMA SettleRequest ==
  ASSUME CoreTypes, RequestInv, NEW r \in Requests, NEW ok \in BOOLEAN, NEW of, NEW rest,
         Settle(r, ok, of, rest),
         stack' \in Seq(Frame),
         completed[r] # "true", returned[r] # "not called",
         callback' \in [Requests -> {"undefined", "set", "null"}],
         xhr' \in [Requests -> {"none", "opened", "sent", "over"}],
         \A p \in Requests \ {r} : callback'[p] = callback[p] /\ xhr'[p] = xhr[p],
         callback'[r] = "set" => xhr'[r] = "over",
         xhr'[r] \notin {"opened", "sent"}
  PROVE  CoreTypes' /\ RequestInv'
<1>1. /\ completed' = [completed EXCEPT ![r] = "true"]
      /\ timer' = [timer EXCEPT ![r] = FALSE]
      /\ transport' = [transport EXCEPT ![r] = FALSE]
      /\ deferred' = [deferred EXCEPT ![r] = IF ok THEN "resolved" ELSE "rejected"]
      /\ told' = [told EXCEPT ![r] = IF returned[r] = "yes" /\ ~ stuck[r]
                                       THEN IF ok THEN "done" ELSE "fail" ELSE @]
      /\ UNCHANGED << returned, stuck >>
  BY DEF Settle, Detach
<1>2. told' \in [Requests -> {"none", "done", "fail"}]
  BY <1>1 DEF CoreTypes
<1>3. CoreTypes'
  BY <1>1, <1>2 DEF CoreTypes
<1> DEFINE Same(v, w) == \A p \in Requests \ {r} : w[p] = v[p]
<1>4. completed'[r] = "true" /\ Same(completed, completed')
  <2>1. completed \in [Requests -> {"undefined", "false", "true"}]
    BY DEF CoreTypes
  <2>2. QED
    BY <1>1, <2>1
<1>5. timer'[r] = FALSE /\ Same(timer, timer')
  <2>1. timer \in [Requests -> BOOLEAN]
    BY DEF CoreTypes
  <2>2. QED
    BY <1>1, <2>1
<1>6. Same(transport, transport')
  <2>1. transport \in [Requests -> BOOLEAN]
    BY DEF CoreTypes
  <2>2. QED
    BY <1>1, <2>1
<1>7. deferred'[r] # "pending" /\ Same(deferred, deferred')
  <2>1. deferred \in [Requests -> {"pending", "resolved", "rejected"}]
    BY DEF CoreTypes
  <2>2. QED
    BY <1>1, <2>1
<1>8. Same(told, told') /\ (returned[r] # "yes" => told'[r] = told[r])
  <2>1. told \in [Requests -> {"none", "done", "fail"}]
    BY DEF CoreTypes
  <2>2. QED
    BY <1>1, <2>1
<1>9. ASSUME NEW p \in Requests
      PROVE  /\ completed'[p] = "true" <=> deferred'[p] # "pending"
             /\ callback'[p] = "set" /\ xhr'[p] # "over" => completed'[p] = "false" /\ transport'[p]
             /\ xhr'[p] \in {"opened", "sent"} => callback'[p] = "set"
             /\ returned'[p] = "not called" =>
                   callback'[p] # "set" /\ xhr'[p] = "none" /\ completed'[p] = "undefined"
             /\ timer'[p] => completed'[p] = "false"
             /\ deferred'[p] = "pending" => told'[p] = "none"
             /\ returned'[p] # "yes" => told'[p] = "none"
  <2>1. CASE p = r
    BY <1>1, <2>1, <1>4, <1>5, <1>7, <1>8 DEF RequestInv
  <2>2. CASE p # r
    <3>1. p \in Requests \ {r} /\ returned'[p] = returned[p]
      BY <1>1, <2>2
    <3>2. /\ completed'[p] = completed[p] /\ timer'[p] = timer[p] /\ told'[p] = told[p]
          /\ deferred'[p] = deferred[p] /\ transport'[p] = transport[p]
      BY <3>1, <1>4, <1>5, <1>6, <1>7, <1>8
    <3>3. callback'[p] = callback[p] /\ xhr'[p] = xhr[p]
      BY <3>1
    <3>4. QED
      BY <3>1, <3>2, <3>3 DEF RequestInv
  <2>3. QED
    BY <2>1, <2>2
<1>10. RequestInv'
  BY <1>9 DEF RequestInv
<1>11. QED
  BY <1>3, <1>10

LEMMA CallbacksFrame ==
  ASSUME NEW r \in Requests, NEW of \in {"ajax", "event", "user"}
  PROVE  \E g \in Frame : /\ g = [r |-> r, of |-> of, at |-> "callbacks"]
                          /\ g.r = r /\ g.of = of /\ g.at = "callbacks"
<1> DEFINE g == [r |-> r, of |-> of, at |-> "callbacks"]
<1>1. g \in Frame
  BY DEF Frame, DonePoints
<1>2. g.r = r /\ g.of = of /\ g.at = "callbacks"
  OBVIOUS
<1>3. QED
  BY <1>1, <1>2

\* ajax() settles its request itself
LEMMA SettleInAjax ==
  ASSUME AjaxInv, stack # << >>, stack[1].of = "ajax", completed[Top] # "true",
         Settle(Top, FALSE, "ajax", Tail(stack)),
         callback' = callback,
         xhr' \in {xhr, [xhr EXCEPT ![Top] = "over"]},
         callback[Top] = "set" => xhr'[Top] = "over",
         xhr'[Top] \notin {"opened", "sent"}
  PROVE  AjaxInv'
<1>1. CoreTypes /\ StackInv /\ RequestInv /\ Top \in Requests
  BY TopFrame DEF AjaxInv
<1>2. returned[Top] = "no"
  BY <1>1, TopIsOK DEF FrameOK, Top
<1>3. /\ completed' = [completed EXCEPT ![Top] = "true"]
      /\ transport' = [transport EXCEPT ![Top] = FALSE]
      /\ stack' = << [r |-> Top, of |-> "ajax", at |-> "callbacks"] >> \o Tail(stack)
      /\ returned' = returned
  BY DEF Settle, Detach
<1>4. PICK g \in Frame : /\ g = [r |-> Top, of |-> "ajax", at |-> "callbacks"]
                        /\ g.r = Top /\ g.of = "ajax" /\ g.at = "callbacks"
  BY <1>1, CallbacksFrame
<1>5. Replaced(g)
  BY <1>1, <1>3, <1>4, PushReplaces
<1>6. xhr \in [Requests -> {"none", "opened", "sent", "over"}]
  BY <1>1 DEF CoreTypes
<1>7. /\ xhr' \in [Requests -> {"none", "opened", "sent", "over"}]
      /\ \A p \in Requests \ {Top} : xhr'[p] = xhr[p]
  BY <1>1, <1>6
<1>8. OthersKept
  <2>1. \A p \in Requests \ {Top} : completed'[p] = completed[p] /\ transport'[p] = transport[p]
    BY <1>1, <1>3 DEF CoreTypes
  <2>2. QED
    BY <1>1, <1>3, <1>7, <2>1, TopOnly
<1>9. FrameOK(g, TRUE)'
  BY <1>2, <1>3, <1>4 DEF FrameOK, AjaxPoints
<1>10. stack' \in Seq(Frame) /\ StackInv'
  BY <1>1, <1>4, <1>5, <1>8, <1>9, ReplaceKeeps DEF Top
<1>11. callback \in [Requests -> {"undefined", "set", "null"}]
  BY <1>1 DEF CoreTypes
<1>12. CoreTypes' /\ RequestInv'
  BY <1>1, <1>2, <1>7, <1>10, <1>11, SettleRequest
<1>13. QED
  BY <1>10, <1>12 DEF AjaxInv

\* an event, the timeout or the user settles a request, from within whatever
\* call the innermost is
LEMMA SettleOutside ==
  ASSUME AjaxInv, NEW r \in Requests, NEW ok \in BOOLEAN, NEW of \in {"ajax", "event", "user"},
         of # "ajax", completed[r] # "true", returned[r] # "not called",
         Settle(r, ok, of, stack),
         \/ callback' = callback /\ xhr' = xhr /\ (callback[r] = "set" => xhr[r] = "over")
         \/ /\ callback[r] = "set"
            /\ callback' = [callback EXCEPT ![r] = "null"]
            /\ xhr' = [xhr EXCEPT ![r] = "over"],
         stack # << >> =>
            \/ stack[1].at \notin {"send", "sending"}
            \/ Top = r /\ stack[1].at = "sending" /\ xhr[r] = "opened" /\ callback[r] = "set"
  PROVE  AjaxInv'
<1>1. CoreTypes /\ StackInv /\ RequestInv
  BY DEF AjaxInv
<1>2. /\ completed' = [completed EXCEPT ![r] = "true"]
      /\ transport' = [transport EXCEPT ![r] = FALSE]
      /\ stack' = << [r |-> r, of |-> of, at |-> "callbacks"] >> \o stack
      /\ returned' = returned
  BY DEF Settle, Detach
<1>3. PICK g \in Frame : /\ g = [r |-> r, of |-> of, at |-> "callbacks"]
                        /\ g.r = r /\ g.of = of /\ g.at = "callbacks"
  <2>1. [r |-> r, of |-> of, at |-> "callbacks"] \in Frame
    BY DEF Frame, DonePoints
  <2>2. QED
    BY <2>1
<1>4. /\ xhr \in [Requests -> {"none", "opened", "sent", "over"}]
      /\ callback \in [Requests -> {"undefined", "set", "null"}]
  BY <1>1 DEF CoreTypes
<1>5. /\ xhr' \in [Requests -> {"none", "opened", "sent", "over"}]
      /\ callback' \in [Requests -> {"undefined", "set", "null"}]
      /\ \A p \in Requests \ {r} : callback'[p] = callback[p] /\ xhr'[p] = xhr[p]
      /\ callback'[r] = "set" => xhr'[r] = "over"
  BY <1>4
<1>6. xhr'[r] \notin {"opened", "sent"}
  BY <1>1, <1>4 DEF RequestInv
<1>7. /\ completed'[r] = "true"
      /\ \A p \in Requests \ {r} : completed'[p] = completed[p] /\ transport'[p] = transport[p]
  BY <1>1, <1>2 DEF CoreTypes
<1>8. ASSUME NEW f \in Frame, FrameOK(f, FALSE) PROVE FrameOK(f, FALSE)'
  <2>1. f.r \in Requests /\ returned'[f.r] = returned[f.r]
    BY <1>2, FrameParts
  <2>2. CASE f.r # r
    <3>1. /\ callback'[f.r] = callback[f.r] /\ xhr'[f.r] = xhr[f.r]
          /\ completed'[f.r] = completed[f.r] /\ transport'[f.r] = transport[f.r]
      BY <1>5, <1>7, <2>1, <2>2
    <3>2. QED
      BY <1>8, <2>1, <3>1 DEF FrameOK
  <2>3. CASE f.r = r
    <3>1. \/ callback'[f.r] = callback[f.r] /\ xhr'[f.r] = xhr[f.r]
          \/ callback[f.r] = "set" /\ callback'[f.r] = "null" /\ xhr'[f.r] = "over"
      BY <1>4, <2>3
    <3>2. QED
      BY <1>7, <1>8, <2>1, <2>3, <3>1 DEF FrameOK
  <2>4. QED
    BY <2>2, <2>3
<1>9. ASSUME stack # << >>, NEW f \in Frame, f = stack[1] PROVE FrameOK(f, FALSE)'
  <2>1. FrameOK(f, TRUE)
    BY <1>1, <1>9, TopIsOK
  <2>2. CASE f.at \notin {"send", "sending"}
    <3>1. FrameOK(f, FALSE)
      BY <2>1, <2>2 DEF FrameOK
    <3>2. QED
      BY <1>8, <3>1
  <2>3. CASE f.at \in {"send", "sending"}
    <3>1. f.r = r /\ f.at = "sending" /\ xhr[r] = "opened" /\ callback[r] = "set"
      BY <1>9, <2>3 DEF Top
    <3>2. callback'[r] = "null" /\ xhr'[r] = "over" /\ returned'[r] = returned[r]
      BY <1>2, <1>4, <3>1
    <3>3. QED
      BY <2>1, <3>1, <3>2 DEF FrameOK, AjaxPoints
  <2>4. QED
    BY <2>2, <2>3
<1>10. FrameOK(g, TRUE)'
  BY <1>3 DEF FrameOK, AjaxPoints
<1>11. stack # << >> => OthersKept
  BY <1>8 DEF OthersKept
<1>12. stack' \in Seq(Frame) /\ StackInv'
  BY <1>1, <1>2, <1>3, <1>9, <1>10, <1>11, PushKeeps
<1>13. CoreTypes' /\ RequestInv'
  BY <1>1, <1>5, <1>6, <1>12, SettleRequest
<1>14. QED
  BY <1>12, <1>13 DEF AjaxInv

-----------------------------------------------------------------------------
(* The actions *)

LEMMA AjaxInit == Init => AjaxInv
<1>1. SUFFICES ASSUME Init PROVE AjaxInv
  OBVIOUS
<1>2. stack = << >> /\ Len(stack) = 0
  BY <1>1 DEF Init
<1>3. CoreTypes
  <2>1. stack \in Seq(Frame)
    BY <1>2
  <2>2. QED
    BY <1>1, <2>1 DEF Init, CoreTypes
<1>4. StackInv
  BY <1>2 DEF StackInv, OneCall, FramesOK
<1>5. RequestInv
  BY <1>1 DEF Init, RequestInv
<1>6. QED
  BY <1>3, <1>4, <1>5 DEF AjaxInv

\* the steps of done()
LEMMA DoneSteps ==
  ASSUME AjaxInv, \/ LeaveCallbacks \/ LeaveStatusCode \/ LeaveResult
                  \/ LeaveComplete \/ LeaveAjaxComplete \/ LeaveAjaxStop
  PROVE  AjaxInv'
<1>1. stack # << >> /\ UNCHANGED << completed, transport, callback, xhr, timer, deferred >>
  BY DEF At, LeaveCallbacks, LeaveStatusCode, LeaveResult, LeaveComplete, LeaveAjaxComplete,
         LeaveAjaxStop, requestVars
<1>2. \/ ReturnFromDone
      \/ \E place \in DonePoints : Goto(place) /\ UNCHANGED callerVars
  BY DEF LeaveCallbacks, LeaveStatusCode, LeaveResult, LeaveComplete, LeaveAjaxComplete,
         LeaveAjaxStop, DonePoints
<1>3. CASE ReturnFromDone
  BY <1>1, <1>3, DoneReturns
<1>4. ASSUME NEW place \in DonePoints, Goto(place), UNCHANGED callerVars
      PROVE  AjaxInv'
  <2>1. place \notin AjaxPoints \cup {"send", "sending"}
    BY DEF AjaxPoints, DonePoints
  <2>2. place # "ajaxSend" /\ place # "send" /\ place # "sending"
    BY <2>1 DEF AjaxPoints
  <2>3. QED
    BY <1>1, <1>4, <2>1, <2>2, MoveStep
<1>5. QED
  BY <1>2, <1>3, <1>4

\* the steps of ajax() which only go on
LEMMA MoveSteps ==
  ASSUME AjaxInv, LeavePrefilter \/ LeaveAjaxStart \/ LeaveAjaxSend
  PROVE  AjaxInv'
<1>1. /\ stack # << >>
      /\ UNCHANGED << completed, transport, callback, xhr, timer, deferred, callerVars >>
  BY DEF At, LeavePrefilter, LeaveAjaxStart, LeaveAjaxSend, requestVars
<1>2. CASE LeavePrefilter \/ LeaveAjaxStart
  <2>1. stack[1].at \in AjaxPoints
    BY <1>2 DEF LeavePrefilter, LeaveAjaxStart, At, AjaxPoints
  <2>2. Goto("ajaxStart") \/ Goto("beforeSend")
    BY <1>2 DEF LeavePrefilter, LeaveAjaxStart
  <2>3. "ajaxStart" \in AjaxPoints /\ "beforeSend" \in AjaxPoints
    BY DEF AjaxPoints
  <2>4. QED
    BY <1>1, <2>1, <2>2, <2>3, MoveStep
<1>3. CASE LeaveAjaxSend
  <2>1. stack[1].at = "ajaxSend" /\ stack[1].at \in AjaxPoints /\ completed[Top] # "true"
    BY <1>3 DEF LeaveAjaxSend, At, AjaxPoints
  <2>2. transport[Top]
    BY <1>1, <2>1, TopIsOK DEF AjaxInv, FrameOK, Top
  <2>3. Goto("send")
    BY <1>3 DEF LeaveAjaxSend
  <2>4. QED
    BY <1>1, <2>1, <2>2, <2>3, MoveStep
<1>4. QED
  BY <1>2, <1>3

LEMMA TopOfAjax ==
  ASSUME CoreTypes, stack # << >>, stack[1].at \in AjaxPoints \cup {"send", "sending"}
  PROVE  stack[1].of = "ajax" /\ Top \in Requests
  BY TopFrame, FrameParts

LEMMA ReturnSteps ==
  ASSUME AjaxInv, AbortedEarly \/ AbortedBefore \/ Sent
  PROVE  AjaxInv'
<1>1. stack # << >> /\ CoreTypes
  BY DEF At, AbortedEarly, AbortedBefore, Sent, AjaxInv
<1>2. stack[1].at \in AjaxPoints \cup {"send", "sending"}
  BY DEF At, AbortedEarly, AbortedBefore, Sent, AjaxPoints
<1>3. stack[1].of = "ajax"
  BY <1>1, <1>2, TopOfAjax
<1>4. /\ ReturnJqXHR(Top)
      /\ UNCHANGED << completed, callback, timer, deferred, transport >>
  BY DEF AbortedEarly, AbortedBefore, Sent, requestVars
<1>5. xhr' = xhr \/ xhr' = [xhr EXCEPT ![Top] = IF @ = "opened" THEN "sent" ELSE @]
  BY DEF AbortedEarly, AbortedBefore, Sent, requestVars
<1>6. transport' \in [Requests -> BOOLEAN]
  BY <1>1, <1>4 DEF CoreTypes
<1>7. QED
  BY <1>1, <1>3, <1>4, <1>5, <1>6, ReturnStep

LEMMA SettleSteps ==
  ASSUME AjaxInv, Refused \/ OpenFails \/ SendFails
  PROVE  AjaxInv'
<1>1. stack # << >> /\ CoreTypes /\ RequestInv /\ StackInv
  BY DEF At, Refused, OpenFails, SendFails, AjaxInv
<1>2. stack[1].at \in AjaxPoints \cup {"send", "sending"}
  BY DEF At, Refused, OpenFails, SendFails, AjaxPoints
<1>3. stack[1].of = "ajax" /\ Top \in Requests /\ FrameOK(stack[1], TRUE)
  BY <1>1, <1>2, TopOfAjax, TopIsOK
<1>4. Settle(Top, FALSE, "ajax", Tail(stack)) /\ callback' = callback
  BY DEF Refused, OpenFails, SendFails
<1>5. CASE Refused \/ OpenFails
  <2>1. xhr' = xhr /\ stack[1].at \in AjaxPoints \cup {"send"}
    BY <1>5 DEF Refused, OpenFails, At, AjaxPoints
  <2>2. completed[Top] # "true"
    BY <1>3, <1>5 DEF Refused, OpenFails, At, FrameOK, Top
  <2>3. callback[Top] # "set" /\ xhr[Top] = "none"
    BY <1>3, <2>1 DEF FrameOK, Top
  <2>4. QED
    BY <1>1, <1>3, <1>4, <2>1, <2>2, <2>3, SettleInAjax
<1>6. CASE SendFails
  <2>1. xhr' = [xhr EXCEPT ![Top] = "over"] /\ callback[Top] = "set" /\ stack[1].at = "sending"
    BY <1>6 DEF SendFails, At
  <2>2. completed[Top] # "true"
    BY <1>1, <1>3, <2>1 DEF FrameOK, Top, RequestInv
  <2>3. xhr'[Top] = "over"
    BY <1>1, <1>3, <2>1 DEF CoreTypes
  <2>4. QED
    BY <1>1, <1>3, <1>4, <2>1, <2>2, <2>3, SettleInAjax
<1>7. QED
  BY <1>5, <1>6

LEMMA EventStep ==
  ASSUME AjaxInv, NEW r \in Requests, NEW ok \in BOOLEAN, HandleEvent(r, ok)
  PROVE  AjaxInv'
<1>1. CoreTypes /\ RequestInv
  BY DEF AjaxInv
<1>2. /\ callback[r] = "set" /\ xhr[r] \in {"sent", "opened"}
      /\ callback' = [callback EXCEPT ![r] = "null"]
      /\ xhr' = [xhr EXCEPT ![r] = "over"]
      /\ Settle(r, ok, "event", stack)
      /\ stack # << >> => Top = r /\ stack[1].at = "sending" /\ xhr[r] = "opened"
  BY DEF HandleEvent, At
<1>3. completed[r] # "true" /\ returned[r] # "not called"
  BY <1>1, <1>2 DEF RequestInv
<1>4. "event" \in {"ajax", "event", "user"} /\ "event" # "ajax"
  OBVIOUS
<1>5. QED
  BY <1>2, <1>3, <1>4, SettleOutside

\* abort() by the user or by the timeout
LEMMA AbortStep ==
  ASSUME AjaxInv, NEW r \in Requests, NEW of \in {"event", "user"},
         stack # << >> => stack[1].at \notin {"send", "sending"},
         returned[r] # "not called", completed[r] # "true",
         AbortTransport(r), Settle(r, FALSE, of, stack)
  PROVE  AjaxInv'
<1>1. CoreTypes /\ RequestInv
  BY DEF AjaxInv
<1>2. \/ callback' = callback /\ xhr' = xhr /\ (callback[r] = "set" => xhr[r] = "over")
      \/ /\ callback[r] = "set"
         /\ callback' = [callback EXCEPT ![r] = "null"]
         /\ xhr' = [xhr EXCEPT ![r] = "over"]
  BY <1>1 DEF AbortTransport, RequestInv
<1>3. of \in {"ajax", "event", "user"} /\ of # "ajax" /\ FALSE \in BOOLEAN
  OBVIOUS
<1>4. QED
  BY <1>2, <1>3, SettleOutside

LEMMA AbortSteps ==
  ASSUME AjaxInv, NEW r \in Requests, Abort(r) \/ Timeout(r)
  PROVE  AjaxInv'
<1>1. CASE Abort(r)
  <2>1. stack # << >> => stack[1].at \notin {"send", "sending"}
    BY <1>1 DEF Abort, UserRuns, AjaxPoints, DonePoints
  <2>2. QED
    BY <1>1, <2>1, AbortStep DEF Abort
<1>2. CASE Timeout(r)
  <2>1. returned[r] # "not called"
    BY <1>2 DEF Timeout, AjaxInv, RequestInv
  <2>2. QED
    BY <1>2, <2>1, AbortStep DEF Timeout
<1>3. QED
  BY <1>1, <1>2

LEMMA PostStep ==
  ASSUME AjaxInv, NEW r \in Requests, Post(r)
  PROVE  AjaxInv'
<1>1. CoreTypes /\ StackInv /\ RequestInv
  BY DEF AjaxInv
<1>2. /\ UserRuns /\ returned[r] = "not called"
      /\ returned' = [returned EXCEPT ![r] = "no"]
      /\ stack' = << [r |-> r, of |-> "ajax", at |-> "prefilter"] >> \o stack
      /\ UNCHANGED << completed, transport, callback, xhr, timer, deferred, told, stuck >>
  BY DEF Post
<1>3. PICK g \in Frame : /\ g = [r |-> r, of |-> "ajax", at |-> "prefilter"]
                        /\ g.r = r /\ g.of = "ajax" /\ g.at = "prefilter"
  <2>1. [r |-> r, of |-> "ajax", at |-> "prefilter"] \in Frame
    BY DEF Frame, AjaxPoints
  <2>2. QED
    BY <2>1
<1>4. \A p \in Requests : returned'[p] = IF p = r THEN "no" ELSE returned[p]
  BY <1>1, <1>2 DEF CoreTypes
<1>5. FrameOK(g, TRUE)'
  BY <1>1, <1>2, <1>3, <1>4 DEF FrameOK, RequestInv
<1>6. ASSUME NEW f \in Frame, FrameOK(f, FALSE) PROVE FrameOK(f, FALSE)'
  <2>1. returned[f.r] = "no" => returned'[f.r] = "no"
    BY <1>4, FrameParts
  <2>2. QED
    BY <1>2, <1>6, <2>1 DEF FrameOK
<1>7. ASSUME stack # << >>, NEW f \in Frame, f = stack[1] PROVE FrameOK(f, FALSE)'
  <2>1. FrameOK(f, TRUE) /\ f.at \notin {"send", "sending"}
    BY <1>1, <1>2, <1>7, TopIsOK DEF UserRuns, AjaxPoints, DonePoints
  <2>2. FrameOK(f, FALSE)
    BY <2>1 DEF FrameOK
  <2>3. QED
    BY <1>6, <2>2
<1>8. stack' \in Seq(Frame) /\ StackInv'
  <2>1. OthersKept
    BY <1>6 DEF OthersKept
  <2>2. stack' = << g >> \o stack /\ returned[g.r] # "no"
    BY <1>2, <1>3
  <2>3. QED
    BY <1>1, <1>5, <1>7, <2>1, <2>2, PushKeeps
<1>9. CoreTypes'
  BY <1>1, <1>2, <1>8 DEF CoreTypes
<1>10. RequestInv'
  <2>1. ASSUME NEW p \in Requests
        PROVE  /\ returned'[p] = "not called" =>
                     callback[p] # "set" /\ xhr[p] = "none" /\ completed[p] = "undefined"
               /\ returned'[p] # "yes" => told[p] = "none"
    <3>1. /\ returned[p] = "not called" =>
                callback[p] # "set" /\ xhr[p] = "none" /\ completed[p] = "undefined"
          /\ returned[p] # "yes" => told[p] = "none"
      BY <1>1 DEF RequestInv
    <3>2. returned'[p] = IF p = r THEN "no" ELSE returned[p]
      BY <1>4
    <3>3. QED
      BY <1>2, <3>1, <3>2
  <2>2. QED
    BY <1>1, <1>2, <2>1 DEF RequestInv
<1>11. QED
  BY <1>8, <1>9, <1>10 DEF AjaxInv

LEMMA BeforeSendStep ==
  ASSUME AjaxInv, LeaveBeforeSend
  PROVE  AjaxInv'
<1>1. CoreTypes /\ StackInv /\ RequestInv /\ stack # << >> /\ stack[1].at = "beforeSend"
  BY DEF AjaxInv, LeaveBeforeSend, At
<1>2. stack[1].of = "ajax" /\ Top \in Requests /\ stack[1].at \in AjaxPoints
  BY <1>1, TopOfAjax DEF AjaxPoints
<1>3. /\ transport' = [transport EXCEPT ![Top] = TRUE]
      /\ UNCHANGED << completed, callback, xhr, timer, deferred >>
  BY DEF LeaveBeforeSend
<1>4. /\ transport' \in [Requests -> BOOLEAN] /\ transport'[Top]
      /\ \A p \in Requests : transport[p] => transport'[p]
      /\ \A p \in Requests \ {Top} : transport'[p] = transport[p]
  BY <1>1, <1>2, <1>3 DEF CoreTypes
<1>5. CASE ReturnJqXHR(Top)
  BY <1>1, <1>2, <1>3, <1>4, <1>5, ReturnStep
<1>6. ASSUME NEW place \in {"ajaxSend", "send"}, Goto(place), UNCHANGED callerVars,
             place = "send" => completed[Top] # "true"
      PROVE  AjaxInv'
  <2>1. place \in AjaxPoints \cup {"send", "sending"}
    BY DEF AjaxPoints
  <2>2. PICK g \in Frame : /\ g = [stack[1] EXCEPT !.at = place]
                          /\ g.r = Top /\ g.of = stack[1].of /\ g.at = place
    BY <1>1, <1>2, <2>1, GotoFrame
  <2>3. Replaced(g)
    BY <1>1, <1>6, <2>2, GotoReplaces
  <2>4. OthersKept
    BY <1>1, <1>2, <1>3, <1>4, <1>6, TopOnly DEF callerVars
  <2>5. FrameOK(stack[1], TRUE)
    BY <1>1, TopIsOK
  <2>6. FrameOK(g, TRUE)'
    BY <1>2, <1>3, <1>4, <1>6, <2>2, <2>5 DEF FrameOK, Top, AjaxPoints, callerVars
  <2>7. stack' \in Seq(Frame) /\ StackInv'
    BY <1>1, <2>2, <2>3, <2>4, <2>6, ReplaceKeeps DEF Top
  <2>8. CoreTypes'
    BY <1>1, <1>3, <1>4, <1>6, <2>7 DEF CoreTypes, callerVars
  <2>9. RequestInv'
    BY <1>1, <1>3, <1>4, <1>6 DEF RequestInv, callerVars
  <2>10. QED
    BY <2>7, <2>8, <2>9 DEF AjaxInv
<1>7. CASE ~ (~ fireGlobals[Top] /\ completed[Top] = "true")
  BY <1>6, <1>7 DEF LeaveBeforeSend
<1>8. QED
  BY <1>5, <1>7 DEF LeaveBeforeSend

LEMMA OpenStep ==
  ASSUME AjaxInv, Open
  PROVE  AjaxInv'
<1>1. CoreTypes /\ StackInv /\ RequestInv /\ stack # << >> /\ stack[1].at = "send"
  BY DEF AjaxInv, Open, At
<1>2. stack[1].of = "ajax" /\ Top \in Requests /\ FrameOK(stack[1], TRUE)
  BY <1>1, TopOfAjax, TopIsOK
<1>3. /\ timer' = [timer EXCEPT ![Top] = Top \in WithTimeout]
      /\ completed' = [completed EXCEPT ![Top] = "false"]
      /\ callback' = [callback EXCEPT ![Top] = "set"]
      /\ xhr' = [xhr EXCEPT ![Top] = "opened"]
      /\ Goto("sending")
      /\ UNCHANGED << transport, deferred, returned, told, stuck >>
  BY DEF Open, callerVars
<1>4. /\ completed[Top] # "true" /\ transport[Top] /\ returned[Top] = "no"
  BY <1>1, <1>2 DEF FrameOK, Top
<1>5. PICK g \in Frame : /\ g = [stack[1] EXCEPT !.at = "sending"]
                        /\ g.r = Top /\ g.of = stack[1].of /\ g.at = "sending"
  BY <1>1, GotoFrame
<1>6. Replaced(g)
  BY <1>1, <1>3, <1>5, GotoReplaces
<1>7. /\ completed'[Top] = "false" /\ callback'[Top] = "set" /\ xhr'[Top] = "opened"
      /\ \A p \in Requests \ {Top} :
            /\ completed'[p] = completed[p] /\ callback'[p] = callback[p]
            /\ xhr'[p] = xhr[p] /\ timer'[p] = timer[p]
  BY <1>1, <1>2, <1>3 DEF CoreTypes
<1>8. OthersKept
  BY <1>1, <1>2, <1>3, <1>7, TopOnly
<1>9. FrameOK(g, TRUE)'
  BY <1>3, <1>4, <1>5, <1>7 DEF FrameOK, AjaxPoints
<1>10. stack' \in Seq(Frame) /\ StackInv'
  BY <1>1, <1>5, <1>6, <1>8, <1>9, ReplaceKeeps DEF Top
<1>11. CoreTypes'
  <2>1. (Top \in WithTimeout) \in BOOLEAN
    OBVIOUS
  <2>2. timer' \in [Requests -> BOOLEAN]
    BY <1>1, <1>3, <2>1 DEF CoreTypes
  <2>3. QED
    BY <1>1, <1>3, <1>10, <2>2 DEF CoreTypes
<1>12. RequestInv'
  <2>1. deferred[Top] = "pending" /\ told[Top] = "none"
    BY <1>1, <1>2, <1>4 DEF RequestInv
  <2>2. ASSUME NEW p \in Requests
        PROVE  /\ completed'[p] = "true" <=> deferred'[p] # "pending"
               /\ callback'[p] = "set" /\ xhr'[p] # "over" =>
                     completed'[p] = "false" /\ transport'[p]
               /\ xhr'[p] \in {"opened", "sent"} => callback'[p] = "set"
               /\ returned'[p] = "not called" =>
                     callback'[p] # "set" /\ xhr'[p] = "none" /\ completed'[p] = "undefined"
               /\ timer'[p] => completed'[p] = "false"
               /\ deferred'[p] = "pending" => told'[p] = "none"
               /\ returned'[p] # "yes" => told'[p] = "none"
    <3>1. CASE p = Top
      BY <1>3, <1>4, <1>7, <2>1, <3>1
    <3>2. CASE p # Top
      <4>1. /\ completed'[p] = completed[p] /\ callback'[p] = callback[p]
            /\ xhr'[p] = xhr[p] /\ timer'[p] = timer[p]
        BY <1>7, <3>2
      <4>2. /\ transport'[p] = transport[p] /\ deferred'[p] = deferred[p]
            /\ returned'[p] = returned[p] /\ told'[p] = told[p]
        BY <1>3
      <4>3. QED
        BY <1>1, <4>1, <4>2 DEF RequestInv
    <3>3. QED
      BY <3>1, <3>2
  <2>3. QED
    BY <2>2 DEF RequestInv
<1>13. QED
  BY <1>10, <1>11, <1>12 DEF AjaxInv

LEMMA ThrowStep ==
  ASSUME AjaxInv, Throw
  PROVE  AjaxInv'
<1>1. CoreTypes /\ StackInv /\ RequestInv /\ stack # << >> /\ Top \in Requests
  BY TopFrame DEF AjaxInv, Throw
<1>2. /\ stack' = Tail(stack)
      /\ stuck' = [stuck EXCEPT ![Top] = @ \/ stack[1].at \in {"callbacks", "statusCode"}]
      /\ returned' = [returned EXCEPT ![Top] = IF stack[1].of = "ajax" THEN "thrown" ELSE @]
      /\ UNCHANGED << completed, transport, callback, xhr, timer, deferred, told >>
  BY DEF Throw, requestVars
<1>3. OthersKept
  <2>1. CASE stack[1].of = "ajax"
    <3>1. \A p \in Requests \ {Top} : returned'[p] = returned[p]
      BY <1>1, <1>2 DEF CoreTypes
    <3>2. QED
      BY <1>1, <1>2, <2>1, <3>1, TopOnly
  <2>2. CASE stack[1].of # "ajax"
    <3>1. returned' = returned
      BY <1>1, <1>2, <2>2 DEF CoreTypes
    <3>2. QED
      BY <1>2, <3>1, NothingElse
  <2>3. QED
    BY <2>1, <2>2
<1>4. stack' \in Seq(Frame) /\ StackInv'
  BY <1>1, <1>2, <1>3, PopKeeps
<1>5. /\ returned' \in [Requests -> {"not called", "no", "yes", "thrown"}]
      /\ \A p \in Requests : \/ returned'[p] = returned[p]
                             \/ /\ p = Top /\ stack[1].of = "ajax" /\ returned'[p] = "thrown"
  BY <1>1, <1>2 DEF CoreTypes
<1>6. stuck' \in [Requests -> BOOLEAN]
  <2>1. stuck \in [Requests -> BOOLEAN]
    BY <1>1 DEF CoreTypes
  <2>2. (stuck[Top] \/ stack[1].at \in {"callbacks", "statusCode"}) \in BOOLEAN
    OBVIOUS
  <2>3. QED
    BY <1>2, <2>1, <2>2
<1>7. stack[1].of = "ajax" => returned[Top] = "no"
  BY <1>1, TopIsOK DEF FrameOK, Top
<1>8. CoreTypes'
  BY <1>1, <1>2, <1>4, <1>5, <1>6 DEF CoreTypes
<1>9. RequestInv'
  BY <1>1, <1>2, <1>5, <1>7 DEF RequestInv
<1>10. QED
  BY <1>4, <1>8, <1>9 DEF AjaxInv

\* steps that leave alone what these proofs are about
coreVars == << stack, completed, transport, callback, xhr, timer, deferred, callerVars >>

LEMMA Stutter ==
  ASSUME AjaxInv, UNCHANGED coreVars
  PROVE  AjaxInv'
<1>1. UNCHANGED << stack, completed, transport, callback, xhr, timer, deferred, returned, told, stuck >>
  BY DEF coreVars, callerVars
<1>2. CoreTypes'
  BY <1>1 DEF AjaxInv, CoreTypes
<1>3. RequestInv'
  BY <1>1 DEF AjaxInv, RequestInv
<1>4. OneCall'
  BY <1>1 DEF AjaxInv, StackInv, OneCall
<1>5. FramesOK'
  BY <1>1 DEF AjaxInv, StackInv, FramesOK, FrameOK
<1>6. QED
  BY <1>2, <1>3, <1>4, <1>5 DEF AjaxInv, StackInv

LEMMA IsSuccessType ==
  ASSUME NEW status, NEW converts
  PROVE  IsSuccess(status, converts) \in BOOLEAN
  BY DEF IsSuccess

LEMMA Events ==
  ASSUME NEW r \in Requests, Event(r)
  PROVE  \E ok \in BOOLEAN : HandleEvent(r, ok)
<1>1. CASE Load(r)
  <2>1. PICK status \in Statuses, contentType \in ContentTypes, parses \in BOOLEAN :
            LET chain == ajaxHandleResponses(r, contentType)
                good == IF callbackName[r] = None THEN parses ELSE Called(r, parses)
            IN HandleEvent(r, IsSuccess(XhrStatus(status), ajaxConvert(chain, good)))
    BY <1>1 DEF Load
  <2>2. QED
    BY <2>1, IsSuccessType
<1>2. CASE LoadScript(r)
  <2>1. PICK calls \in BOOLEAN :
            LET good == callbackName[r] # None /\ Called(r, calls)
            IN HandleEvent(r, IsSuccess(200, ajaxConvert(dataTypes[r], good)))
    BY <1>2 DEF LoadScript
  <2>2. QED
    BY <2>1, IsSuccessType
<1>3. CASE Error(r)
  BY <1>3 DEF Error
<1>4. QED
  BY <1>1, <1>2, <1>3 DEF Event

LEMMA NextStep == AjaxInv /\ [Next]_vars => AjaxInv'
<1>1. SUFFICES ASSUME AjaxInv, [Next]_vars PROVE AjaxInv'
  OBVIOUS
<1>2. CASE Proceed
  BY <1>1, <1>2, MoveSteps, ReturnSteps, BeforeSendStep, OpenStep, SettleSteps, DoneSteps DEF Proceed
<1>3. CASE Refused
  BY <1>1, <1>3, SettleSteps
<1>4. CASE Throw
  BY <1>1, <1>4, ThrowStep
<1>5. CASE \E type \in Named : Inspect(type)
  BY <1>1, <1>5, Stutter DEF Inspect, coreVars
<1>6. ASSUME NEW r \in Requests, Post(r) \/ Abort(r) \/ Event(r) \/ Timeout(r) \/ LateScript(r)
      PROVE  AjaxInv'
  <2>1. CASE Post(r)
    BY <1>1, <2>1, PostStep
  <2>2. CASE Abort(r) \/ Timeout(r)
    BY <1>1, <2>2, AbortSteps
  <2>3. CASE Event(r)
    BY <1>1, <2>3, Events, EventStep
  <2>4. CASE LateScript(r)
    BY <1>1, <2>4, Stutter DEF LateScript, coreVars
  <2>5. QED
    BY <1>6, <2>1, <2>2, <2>3, <2>4
<1>7. CASE UNCHANGED vars
  BY <1>1, <1>7, Stutter DEF vars, requestVars, coreVars
<1>8. QED
  BY <1>1, <1>2, <1>3, <1>4, <1>5, <1>6, <1>7 DEF Next

LEMMA AjaxInvHolds == Spec => []AjaxInv
<1>1. Init => AjaxInv
  BY AjaxInit
<1>2. AjaxInv /\ [Next]_vars => AjaxInv'
  BY NextStep
<1>3. QED
  BY <1>1, <1>2, PTL DEF Spec

-----------------------------------------------------------------------------
(* The requests implement Posts *)

\* the steps which Posts sees: one request is settled, or ajax() returns
LateFrom(r, ok) ==
    \/ late' = late
    \/ /\ ok = FALSE /\ callbackName[r] # None
       /\ late' = late \cup {<< r, callbackName[r] >>}

\* the callbacks run on top of the calls under way, or ajax() goes over to them
SettledOn(r, rest) ==
    \/ rest = stack
    \/ /\ stack # << >> /\ rest = Tail(stack) /\ Top = r
       /\ stack[1].at \in AjaxPoints \cup {"send", "sending"}

Settles(r) ==
    /\ completed[r] # "true"
    /\ \E ok \in BOOLEAN, of \in {"ajax", "event", "user"}, rest \in Seq(Frame) :
          Settle(r, ok, of, rest) /\ LateFrom(r, ok) /\ SettledOn(r, rest)
    /\ \A p \in Requests \ {r} : xhr'[p] = xhr[p]
    /\ At("sending") => Top = r

Returns ==
    /\ stack # << >> /\ stack[1].of = "ajax"
    /\ ReturnJqXHR(Top)
    /\ UNCHANGED deferred

LEMMA SettlesIntro ==
  ASSUME NEW r \in Requests, NEW ok \in BOOLEAN, NEW of \in {"ajax", "event", "user"},
         NEW rest \in Seq(Frame), Settle(r, ok, of, rest), LateFrom(r, ok), SettledOn(r, rest),
         completed[r] # "true",
         \A p \in Requests \ {r} : xhr'[p] = xhr[p],
         At("sending") => Top = r
  PROVE  Settles(r)
<1>1. \E k \in BOOLEAN, o \in {"ajax", "event", "user"}, s \in Seq(Frame) :
          Settle(r, k, o, s) /\ LateFrom(r, k) /\ SettledOn(r, s)
  BY Zenon
<1>2. QED
  BY <1>1, Zenon DEF Settles

LEMMA AbortSettles ==
  ASSUME AjaxInv, NEW r \in Requests, NEW of \in {"event", "user"}, completed[r] # "true",
         ~ At("sending"), AbortTransport(r), Settle(r, FALSE, of, stack)
  PROVE  Settles(r)
<1>1. stack \in Seq(Frame) /\ of \in {"ajax", "event", "user"} /\ FALSE \in BOOLEAN
  BY DEF AjaxInv, CoreTypes
<1>2. \A p \in Requests \ {r} : xhr'[p] = xhr[p]
  BY DEF AbortTransport, AjaxInv, CoreTypes
<1>3. LateFrom(r, FALSE) /\ SettledOn(r, stack)
  BY DEF AbortTransport, LateFrom, SettledOn
<1>4. QED
  BY <1>1, <1>2, <1>3, SettlesIntro

LEMMA EventSettles ==
  ASSUME AjaxInv, NEW r \in Requests, Abort(r) \/ Timeout(r) \/ Event(r)
  PROVE  Settles(r)
<1>1. stack \in Seq(Frame) /\ "event" \in {"ajax", "event", "user"}
  BY DEF AjaxInv, CoreTypes
<1>2. CASE Abort(r)
  <2>1. ~ At("sending")
    BY <1>2 DEF Abort, UserRuns, At, AjaxPoints, DonePoints
  <2>2. QED
    BY <1>2, <2>1, AbortSettles DEF Abort
<1>3. CASE Timeout(r)
  <2>1. ~ At("sending")
    BY <1>3 DEF Timeout, At
  <2>2. QED
    BY <1>3, <2>1, AbortSettles DEF Timeout
<1>4. CASE Event(r)
  <2>1. PICK ok \in BOOLEAN : HandleEvent(r, ok)
    BY <1>4, Events
  <2>2. /\ Settle(r, ok, "event", stack) /\ late' = late
        /\ callback[r] = "set" /\ xhr[r] \in {"sent", "opened"}
        /\ xhr' = [xhr EXCEPT ![r] = "over"]
        /\ At("sending") => Top = r
    BY <2>1 DEF HandleEvent, At
  <2>3. completed[r] # "true" /\ \A p \in Requests \ {r} : xhr'[p] = xhr[p]
    BY <2>2 DEF AjaxInv, RequestInv, CoreTypes
  <2>4. LateFrom(r, ok) /\ SettledOn(r, stack)
    BY <2>2 DEF LateFrom, SettledOn
  <2>5. QED
    BY <1>1, <2>2, <2>3, <2>4, SettlesIntro
<1>5. QED
  BY <1>2, <1>3, <1>4

LEMMA AjaxSettles ==
  ASSUME AjaxInv, Refused \/ OpenFails \/ SendFails
  PROVE  Top \in Requests /\ Settles(Top)
<1>1. stack # << >> /\ CoreTypes /\ RequestInv /\ StackInv
  BY DEF At, Refused, OpenFails, SendFails, AjaxInv
<1>2. Top \in Requests /\ Tail(stack) \in Seq(Frame) /\ FrameOK(stack[1], TRUE)
  BY <1>1, StackType, TopFrame, TopIsOK, TailShape
<1>3. completed[Top] # "true"
  <2>1. CASE Refused
    BY <2>1 DEF Refused
  <2>2. CASE OpenFails
    BY <1>2, <2>2 DEF OpenFails, At, FrameOK, Top
  <2>3. CASE SendFails
    BY <1>1, <1>2, <2>3 DEF SendFails, At, FrameOK, Top, RequestInv
  <2>4. QED
    BY <2>1, <2>2, <2>3
<1>4. /\ Settle(Top, FALSE, "ajax", Tail(stack)) /\ late' = late
      /\ xhr' = xhr \/ xhr' = [xhr EXCEPT ![Top] = "over"]
  BY DEF Refused, OpenFails, SendFails
<1>5. \A p \in Requests \ {Top} : xhr'[p] = xhr[p]
  BY <1>1, <1>2, <1>4 DEF CoreTypes
<1>6. LateFrom(Top, FALSE) /\ SettledOn(Top, Tail(stack))
  BY <1>1, <1>4 DEF LateFrom, SettledOn, Refused, OpenFails, SendFails, At, AjaxPoints
<1>7. QED
  BY <1>2, <1>3, <1>4, <1>5, <1>6, SettlesIntro

LEMMA DoneReturnsOrKeeps ==
  ASSUME \/ LeaveCallbacks \/ LeaveStatusCode \/ LeaveResult
         \/ LeaveComplete \/ LeaveAjaxComplete \/ LeaveAjaxStop
  PROVE  Returns \/ UNCHANGED << deferred, told >>
<1>1. stack # << >> /\ UNCHANGED deferred
  BY DEF At, LeaveCallbacks, LeaveStatusCode, LeaveResult, LeaveComplete, LeaveAjaxComplete,
         LeaveAjaxStop, requestVars
<1>2. ReturnFromDone \/ UNCHANGED callerVars
  BY DEF LeaveCallbacks, LeaveStatusCode, LeaveResult, LeaveComplete, LeaveAjaxComplete,
         LeaveAjaxStop
<1>3. QED
  BY <1>1, <1>2 DEF ReturnFromDone, Returns, callerVars

LEMMA AjaxReturnsOrKeeps ==
  ASSUME AjaxInv,
         \/ LeavePrefilter \/ AbortedEarly \/ LeaveAjaxStart
         \/ AbortedBefore \/ LeaveBeforeSend \/ LeaveAjaxSend
         \/ Open \/ Sent
  PROVE  Returns \/ UNCHANGED << deferred, told >>
<1>1. CASE LeavePrefilter \/ LeaveAjaxStart \/ LeaveAjaxSend \/ Open
  BY <1>1 DEF LeavePrefilter, LeaveAjaxStart, LeaveAjaxSend, Open, requestVars, callerVars
<1>2. CASE AbortedEarly \/ AbortedBefore \/ LeaveBeforeSend \/ Sent
  <2>1. stack # << >> /\ stack[1].at \in AjaxPoints \cup {"send", "sending"} /\ UNCHANGED deferred
    BY <1>2 DEF AbortedEarly, AbortedBefore, LeaveBeforeSend, Sent, At, AjaxPoints, requestVars
  <2>2. stack[1].of = "ajax"
    BY <2>1, TopOfAjax DEF AjaxInv
  <2>3. ReturnJqXHR(Top) \/ UNCHANGED told
    BY <1>2 DEF AbortedEarly, AbortedBefore, LeaveBeforeSend, Sent, callerVars
  <2>4. QED
    BY <2>1, <2>2, <2>3 DEF Returns
<1>3. QED
  BY <1>1, <1>2

LEMMA WhatIsSeen ==
  ASSUME AjaxInv, [Next]_vars
  PROVE  (\E r \in Requests : Settles(r)) \/ Returns \/ UNCHANGED << deferred, told >>
<1>1. CASE Proceed
  BY <1>1, AjaxSettles, DoneReturnsOrKeeps, AjaxReturnsOrKeeps DEF Proceed
<1>2. CASE Refused
  BY <1>2, AjaxSettles
<1>3. CASE Throw
  BY <1>3 DEF Throw, requestVars
<1>4. CASE \E type \in Named : Inspect(type)
  BY <1>4 DEF Inspect, callerVars
<1>5. ASSUME NEW r \in Requests, Post(r) \/ Abort(r) \/ Event(r) \/ Timeout(r) \/ LateScript(r)
      PROVE  Settles(r) \/ UNCHANGED << deferred, told >>
  <2>1. CASE Post(r) \/ LateScript(r)
    BY <2>1 DEF Post, LateScript, callerVars
  <2>2. CASE Abort(r) \/ Event(r) \/ Timeout(r)
    BY <2>2, EventSettles
  <2>3. QED
    BY <1>5, <2>1, <2>2
<1>6. CASE UNCHANGED vars
  BY <1>6 DEF vars, requestVars, callerVars
<1>7. QED
  BY <1>1, <1>2, <1>3, <1>4, <1>5, <1>6 DEF Next

\* the outcomes that Posts sees
Outcomes == [r \in Requests |-> Outcome(r)]

LEMMA SettlesMaps ==
  ASSUME AjaxInv, NEW r \in Requests, Settles(r)
  PROVE  P!Next
<1>1. PICK ok \in BOOLEAN, of \in {"ajax", "event", "user"}, rest \in Seq(Frame) :
          Settle(r, ok, of, rest)
  BY DEF Settles
<1> DEFINE o == IF ok THEN "done" ELSE "fail"
<1>2. deferred[r] = "pending" /\ told[r] = "none"
  BY DEF Settles, AjaxInv, CoreTypes, RequestInv
<1>3. deferred' = [deferred EXCEPT ![r] = IF ok THEN "resolved" ELSE "rejected"]
  BY <1>1 DEF Settle
<1>4. told' = [told EXCEPT ![r] = IF returned[r] = "yes" /\ ~ stuck[r] THEN o ELSE @]
  BY <1>1 DEF Settle
<1>5. deferred \in [Requests -> {"pending", "resolved", "rejected"}]
  BY DEF AjaxInv, CoreTypes
<1>6. Outcomes[r] = "none" /\ Outcomes'[r] = o
  BY <1>2, <1>3, <1>5 DEF Outcomes, Outcome
<1>7. ASSUME NEW p \in Requests, p # r PROVE Outcomes'[p] = Outcomes[p]
  BY <1>3, <1>5, <1>7 DEF Outcomes, Outcome
<1>8. Outcomes' = [Outcomes EXCEPT ![r] = o]
  BY <1>6, <1>7 DEF Outcomes
<1>9. o \in {"done", "fail"} /\ o # "none"
  OBVIOUS
<1>10. P!Settle(r, o)
  BY <1>6, <1>8 DEF P!Settle, Outcomes
<1>11. P!Tell(r) \/ UNCHANGED told
  <2>1. CASE returned[r] = "yes" /\ ~ stuck[r]
    <3>1. told' = [told EXCEPT ![r] = Outcomes'[r]]
      BY <1>4, <1>6, <2>1
    <3>2. QED
      BY <1>2, <1>6, <1>9, <3>1 DEF P!Tell, Outcomes
  <2>2. CASE ~ (returned[r] = "yes" /\ ~ stuck[r])
    <3>1. told' = told
      BY <1>4, <2>2 DEF AjaxInv, CoreTypes
    <3>2. QED
      BY <3>1
  <2>3. QED
    BY <2>1, <2>2
<1>12. QED
  BY <1>9, <1>10, <1>11 DEF P!Next

LEMMA ReturnsMaps ==
  ASSUME AjaxInv, Returns
  PROVE  P!Next \/ UNCHANGED P!pvars
<1>1. stack # << >> /\ stack[1].of = "ajax" /\ ReturnJqXHR(Top) /\ deferred' = deferred
  BY DEF Returns
<1>2. Top \in Requests /\ returned[Top] = "no"
  BY <1>1, TopFrame, TopIsOK DEF AjaxInv, FrameOK, Top
<1>3. told[Top] = "none" /\ told \in [Requests -> {"none", "done", "fail"}]
  BY <1>2 DEF AjaxInv, RequestInv, CoreTypes
<1>4. told' = [told EXCEPT ![Top] = IF stuck[Top] THEN @ ELSE Outcome(Top)]
  BY <1>1 DEF ReturnJqXHR
<1>5. Outcomes' = Outcomes
  BY <1>1 DEF Outcomes, Outcome
<1>6. CASE stuck[Top] \/ Outcome(Top) = "none"
  <2>1. told' = told
    BY <1>3, <1>4, <1>6
  <2>2. QED
    BY <1>5, <2>1 DEF P!pvars, Outcomes
<1>7. CASE ~ stuck[Top] /\ Outcome(Top) # "none"
  <2>1. Outcomes'[Top] = Outcome(Top)
    BY <1>2, <1>5 DEF Outcomes
  <2>2. told' = [told EXCEPT ![Top] = Outcomes'[Top]] /\ Outcomes'[Top] # "none"
    BY <1>4, <1>7, <2>1
  <2>3. P!Tell(Top)
    BY <1>3, <2>2 DEF P!Tell, Outcomes
  <2>4. QED
    BY <1>2, <1>5, <2>3 DEF P!Next, Outcomes
<1>8. QED
  BY <1>6, <1>7

(* Each request has one outcome, and its callbacks are told of it once:    *)
(* the first of the answer, the timeout, an abort and an exception         *)
(* settles it (jquery-3.6.1.js:9730-9847), and the later ones find it      *)
(* completed.                                                              *)
THEOREM ImplementsPostsHolds == Spec => ImplementsPosts
<1>1. Init => P!Init
  <2>1. SUFFICES ASSUME Init PROVE P!Init
    OBVIOUS
  <2>2. ASSUME NEW r \in Requests PROVE Outcome(r) = "none"
    <3>1. deferred = [q \in Requests |-> "pending"]
      BY <2>1, Zenon DEF Init
    <3>2. deferred[r] = "pending"
      BY <3>1
    <3>3. QED
      BY <3>2 DEF Outcome
  <2>3. told = [r \in Requests |-> "none"]
    BY <2>1, Zenon DEF Init
  <2>4. [r \in Requests |-> Outcome(r)] = [r \in Requests |-> "none"]
    BY <2>2
  <2>5. QED
    BY <2>3, <2>4 DEF P!Init
<1>2. AjaxInv /\ [Next]_vars => [P!Next]_(P!pvars)
  <2>1. SUFFICES ASSUME AjaxInv, [Next]_vars PROVE P!Next \/ UNCHANGED P!pvars
    OBVIOUS
  <2>2. CASE UNCHANGED << deferred, told >>
    BY <2>2 DEF P!pvars, Outcome
  <2>3. QED
    BY <2>1, <2>2, WhatIsSeen, SettlesMaps, ReturnsMaps
<1>3. QED
  BY <1>1, <1>2, AjaxInvHolds, PTL DEF Spec, ImplementsPosts, P!Spec

-----------------------------------------------------------------------------
(* A request is under way exactly as long as its XMLHttpRequest *)

\* a request is sent, or just about to be
WayInv ==
    \A r \in Requests : completed[r] = "false" =>
        xhr[r] = "sent" \/ (At("sending") /\ Top = r /\ xhr[r] = "opened")

\* names of JSONP are those of requests that were made, no two the same
NameTypes == callbackName \in [Requests -> Requests \cup {None}] /\ oldCallbacks \in Seq(Requests)

NamesMade ==
    \A r \in Requests : callbackName[r] # None => returned[callbackName[r]] # "not called"

OldMade == \A i \in 1 .. Len(oldCallbacks) : returned[oldCallbacks[i]] # "not called"

NamesDiffer ==
    \A r, p \in Requests : callbackName[r] = callbackName[p] /\ callbackName[r] # None => r = p

NamesNotOld ==
    \A r \in Requests : \A i \in 1 .. Len(oldCallbacks) : callbackName[r] # oldCallbacks[i]

OldDiffer ==
    \A i \in 1 .. Len(oldCallbacks) : \A j \in 1 .. Len(oldCallbacks) :
        oldCallbacks[i] = oldCallbacks[j] => i = j

NamesInv == NameTypes /\ NamesMade /\ OldMade /\ NamesDiffer /\ NamesNotOld /\ OldDiffer

\* a script comes late if its request has failed
LateInv ==
    /\ container \in [Requests -> Requests \cup {None}]
    /\ late \subseteq Requests \X Requests
    /\ \A x \in late : deferred[x[1]] = "rejected"
    /\ \A r \in Requests : container[r] # None => deferred[container[r]] = "rejected"

\* the steps that settle nothing
Quiet ==
    /\ UNCHANGED << jsonpVars, deferred >>
    /\ \A p \in Requests : returned[p] # "not called" => returned'[p] # "not called"
    /\ Open \/ Sent \/ (UNCHANGED << completed, xhr >> /\ ~ At("sending"))

LEMMA ReturnedStays ==
  ASSUME AjaxInv, ReturnJqXHR(Top) \/ returned' = returned,
         NEW p \in Requests, returned[p] # "not called"
  PROVE  returned'[p] # "not called"
  BY DEF ReturnJqXHR, AjaxInv, CoreTypes

LEMMA DoneIsQuiet ==
  ASSUME AjaxInv,
         \/ LeaveCallbacks \/ LeaveStatusCode \/ LeaveResult
         \/ LeaveComplete \/ LeaveAjaxComplete \/ LeaveAjaxStop
  PROVE  Quiet
<1>1. ~ At("sending") /\ UNCHANGED << jsonpVars, deferred, completed, xhr >>
  BY DEF At, LeaveCallbacks, LeaveStatusCode, LeaveResult, LeaveComplete, LeaveAjaxComplete,
         LeaveAjaxStop, requestVars
<1>2. ReturnJqXHR(Top) \/ returned' = returned
  BY DEF LeaveCallbacks, LeaveStatusCode, LeaveResult, LeaveComplete, LeaveAjaxComplete,
         LeaveAjaxStop, ReturnFromDone, callerVars
<1>3. QED
  BY <1>1, <1>2, ReturnedStays DEF Quiet

LEMMA AjaxIsQuiet ==
  ASSUME AjaxInv,
         \/ LeavePrefilter \/ AbortedEarly \/ LeaveAjaxStart
         \/ AbortedBefore \/ LeaveBeforeSend \/ LeaveAjaxSend
  PROVE  Quiet
<1>1. ~ At("sending") /\ UNCHANGED << jsonpVars, deferred, completed, xhr >>
  BY DEF At, LeavePrefilter, AbortedEarly, LeaveAjaxStart, AbortedBefore, LeaveBeforeSend,
         LeaveAjaxSend, requestVars
<1>2. ReturnJqXHR(Top) \/ returned' = returned
  BY DEF LeavePrefilter, AbortedEarly, LeaveAjaxStart, AbortedBefore, LeaveBeforeSend,
         LeaveAjaxSend, callerVars
<1>3. QED
  BY <1>1, <1>2, ReturnedStays DEF Quiet

LEMMA SendIsQuiet ==
  ASSUME AjaxInv, Open \/ Sent
  PROVE  Quiet
<1>1. UNCHANGED << jsonpVars, deferred >>
  BY DEF Open, Sent
<1>2. ReturnJqXHR(Top) \/ returned' = returned
  BY DEF Open, Sent, callerVars
<1>3. QED
  BY <1>1, <1>2, ReturnedStays DEF Quiet

LEMMA ThrowIsQuiet ==
  ASSUME AjaxInv, Throw
  PROVE  Quiet
<1>1. ~ At("sending") /\ UNCHANGED << jsonpVars, deferred, completed, xhr >>
  BY DEF Throw, UserRuns, At, AjaxPoints, DonePoints, requestVars
<1>2. \A p \in Requests : returned[p] # "not called" => returned'[p] # "not called"
  BY DEF Throw, AjaxInv, CoreTypes
<1>3. QED
  BY <1>1, <1>2 DEF Quiet

LEMMA InspectIsQuiet ==
  ASSUME \E type \in Named : Inspect(type)
  PROVE  Quiet
  BY DEF Inspect, Quiet, At, callerVars

LEMMA Steps ==
  ASSUME AjaxInv, [Next]_vars
  PROVE  \/ Quiet
         \/ \E r \in Requests : Settles(r) \/ Post(r) \/ LateScript(r)
         \/ UNCHANGED vars
<1>1. CASE Proceed
  BY <1>1, AjaxSettles, DoneIsQuiet, AjaxIsQuiet, SendIsQuiet DEF Proceed
<1>2. CASE Refused
  BY <1>2, AjaxSettles
<1>3. CASE Throw
  BY <1>3, ThrowIsQuiet
<1>4. CASE \E type \in Named : Inspect(type)
  BY <1>4, InspectIsQuiet
<1>5. ASSUME NEW r \in Requests, Post(r) \/ Abort(r) \/ Event(r) \/ Timeout(r) \/ LateScript(r)
      PROVE  Settles(r) \/ Post(r) \/ LateScript(r)
  BY <1>5, EventSettles
<1>6. QED
  BY <1>1, <1>2, <1>3, <1>4, <1>5 DEF Next

LEMMA WayStep ==
  ASSUME AjaxInv, WayInv, [Next]_vars
  PROVE  WayInv'
<1>1. CoreTypes
  BY DEF AjaxInv
<1>2. CASE UNCHANGED << completed, xhr >> /\ ~ At("sending")
  BY <1>2 DEF WayInv
<1>3. CASE Open
  <2>1. stack # << >> /\ stack[1].at = "send" /\ Top \in Requests
    BY <1>1, <1>3, TopFrame DEF Open, At
  <2>2. /\ \A p \in Requests \ {Top} : completed'[p] = completed[p] /\ xhr'[p] = xhr[p]
        /\ xhr'[Top] = "opened"
    BY <1>1, <1>3, <2>1 DEF Open, CoreTypes
  <2>3. At("sending")' /\ Top' = Top
    <3>1. PICK g \in Frame : /\ g = [stack[1] EXCEPT !.at = "sending"]
                            /\ g.r = Top /\ g.of = stack[1].of /\ g.at = "sending"
      BY <1>1, <2>1, GotoFrame
    <3>2. Replaced(g)
      BY <1>1, <1>3, <2>1, <3>1, GotoReplaces DEF Open
    <3>3. stack'[1] = g /\ Len(stack') # 0
      BY <1>1, <2>1, <3>2, TopFrame DEF Replaced
    <3>4. stack' # << >>
      BY <3>3
    <3>5. QED
      BY <3>1, <3>3, <3>4 DEF At, Top
  <2>4. ~ At("sending")
    BY <2>1 DEF At
  <2>5. QED
    BY <2>2, <2>3, <2>4 DEF WayInv
<1>4. CASE Sent
  <2>1. Top \in Requests /\ At("sending")
    BY <1>1, <1>4, TopFrame DEF Sent, At
  <2>2. /\ completed' = completed
        /\ \A p \in Requests \ {Top} : xhr'[p] = xhr[p]
        /\ xhr'[Top] = IF xhr[Top] = "opened" THEN "sent" ELSE xhr[Top]
    BY <1>1, <1>4, <2>1 DEF Sent, CoreTypes
  <2>3. QED
    BY <2>1, <2>2 DEF WayInv
<1>5. ASSUME NEW r \in Requests, Settles(r) PROVE WayInv'
  <2>1. completed' = [completed EXCEPT ![r] = "true"]
    BY <1>5 DEF Settles, Settle
  <2>2. completed'[r] = "true" /\ \A p \in Requests \ {r} : completed'[p] = completed[p]
    BY <1>1, <2>1 DEF CoreTypes
  <2>3. (\A p \in Requests \ {r} : xhr'[p] = xhr[p]) /\ (At("sending") => Top = r)
    BY <1>5 DEF Settles
  <2>4. QED
    BY <2>2, <2>3 DEF WayInv
<1>6. ASSUME NEW r \in Requests, Post(r) PROVE WayInv'
  BY <1>2, <1>6 DEF Post, UserRuns, At, AjaxPoints, DonePoints
<1>7. ASSUME NEW r \in Requests, LateScript(r) PROVE WayInv'
  BY <1>2, <1>7 DEF LateScript, At
<1>8. CASE UNCHANGED vars
  BY <1>8 DEF vars, requestVars, WayInv, At, Top
<1>9. QED
  BY <1>2, <1>3, <1>4, <1>5, <1>6, <1>7, <1>8, Steps DEF Quiet

LEMMA OldLen ==
  ASSUME NameTypes
  PROVE  /\ Len(oldCallbacks) \in Nat
         /\ oldCallbacks = << >> <=> Len(oldCallbacks) = 0
         /\ \A i \in 1 .. Len(oldCallbacks) : oldCallbacks[i] \in Requests
<1>1. oldCallbacks \in Seq(Requests)
  BY DEF NameTypes
<1>2. QED
  BY <1>1, EmptySeq

\* names that are left alone
LEMMA SameNames ==
  ASSUME NamesInv, UNCHANGED << callbackName, oldCallbacks >>,
         \A p \in Requests : returned[p] # "not called" => returned'[p] # "not called"
  PROVE  NamesInv'
<1>1. NameTypes' /\ NamesDiffer' /\ NamesNotOld' /\ OldDiffer'
  BY DEF NamesInv, NameTypes, NamesDiffer, NamesNotOld, OldDiffer
<1>2. NamesMade'
  <2>1. \A r \in Requests : callbackName[r] # None => callbackName[r] \in Requests
    BY DEF NamesInv, NameTypes
  <2>2. QED
    BY <2>1 DEF NamesInv, NamesMade
<1>3. OldMade'
  BY OldLen DEF NamesInv, OldMade
<1>4. QED
  BY <1>1, <1>2, <1>3 DEF NamesInv

\* a name is taken
LEMMA PostNames ==
  ASSUME AjaxAssumption, AjaxInv, NamesInv, NEW r \in Requests, Post(r)
  PROVE  NamesInv'
<1>1. /\ returned[r] = "not called"
      /\ \A p \in Requests : returned[p] # "not called" => returned'[p] # "not called"
      /\ returned'[r] # "not called"
  BY DEF Post, AjaxInv, CoreTypes
<1>2. CASE UNCHANGED << callbackName, oldCallbacks >>
  BY <1>1, <1>2, SameNames
<1> DEFINE n == Len(oldCallbacks)
<1>3. ASSUME NEW name, name = r \/ (n \in 1 .. n /\ name = oldCallbacks[n]),
             callbackName' = [callbackName EXCEPT ![r] = name],
             oldCallbacks' = SubSeq(oldCallbacks, 1, n - 1)
      PROVE  NamesInv'
  <2>1. /\ n \in Nat
        /\ \A i \in 1 .. n : oldCallbacks[i] \in Requests
    BY OldLen DEF NamesInv
  <2>2. name = r \/ (n \in 1 .. n /\ name = oldCallbacks[n])
    BY <1>3
  <2>3. callbackName' = [callbackName EXCEPT ![r] = name]
    BY <1>3
  <2>4. name \in Requests /\ returned'[name] # "not called"
    <3>1. CASE name = r
      BY <1>1, <3>1
    <3>2. CASE n \in 1 .. n /\ name = oldCallbacks[n]
      BY <1>1, <2>1, <3>2 DEF NamesInv, OldMade
    <3>3. QED
      BY <2>2, <3>1, <3>2
  <2>5. \A p \in Requests : callbackName[p] # name
    <3>1. CASE name = r
      BY <1>1, <3>1 DEF NamesInv, NamesMade, AjaxAssumption
    <3>2. CASE n \in 1 .. n /\ name = oldCallbacks[n]
      BY <3>2 DEF NamesInv, NamesNotOld
    <3>3. QED
      BY <2>2, <3>1, <3>2
  <2>6. /\ callbackName' \in [Requests -> Requests \cup {None}]
        /\ callbackName'[r] = name
        /\ \A p \in Requests \ {r} : callbackName'[p] = callbackName[p]
    BY <2>3, <2>4 DEF NamesInv, NameTypes
  <2>7. /\ oldCallbacks' \in Seq(Requests)
        /\ \A i \in 1 .. Len(oldCallbacks') :
              i \in 1 .. n /\ i # n /\ n \in 1 .. n /\ oldCallbacks'[i] = oldCallbacks[i]
    <3>1. oldCallbacks' = SubSeq(oldCallbacks, 1, n - 1)
      BY <1>3
    <3>2. /\ oldCallbacks' \in Seq(Requests)
          /\ Len(oldCallbacks') = IF 1 <= n - 1 THEN n - 1 ELSE 0
          /\ \A i \in 1 .. n - 1 : oldCallbacks'[i] = oldCallbacks[i]
      BY <2>1, <3>1, SubSeqProperties
    <3>3. QED
      BY <2>1, <3>2
  <2>8. ASSUME NEW i \in 1 .. Len(oldCallbacks') PROVE oldCallbacks'[i] # name
    <3>1. i \in 1 .. n /\ i # n /\ n \in 1 .. n /\ oldCallbacks'[i] = oldCallbacks[i]
      BY <2>7
    <3>2. CASE name = r
      BY <1>1, <2>1, <3>1, <3>2 DEF NamesInv, OldMade
    <3>3. CASE name = oldCallbacks[n]
      BY <3>1, <3>3 DEF NamesInv, OldDiffer
    <3>4. QED
      BY <2>2, <3>2, <3>3
  <2>9. NameTypes'
    BY <2>6, <2>7 DEF NameTypes
  <2>10. NamesMade'
    <3>1. \A p \in Requests : callbackName[p] # None => callbackName[p] \in Requests
      BY DEF NamesInv, NameTypes
    <3>2. QED
      BY <1>1, <2>4, <2>6, <3>1 DEF NamesInv, NamesMade
  <2>11. OldMade'
    BY <1>1, <2>1, <2>7 DEF NamesInv, OldMade
  <2>12. NamesDiffer'
    BY <2>5, <2>6 DEF NamesInv, NamesDiffer
  <2>13. NamesNotOld'
    BY <2>6, <2>7, <2>8 DEF NamesInv, NamesNotOld
  <2>14. OldDiffer'
    BY <2>7 DEF NamesInv, OldDiffer
  <2>15. QED
    BY <2>9, <2>10, <2>11, <2>12, <2>13, <2>14 DEF NamesInv
<1>4. CASE Install(r)
  <2>1. oldCallbacks' = SubSeq(oldCallbacks, 1, n - 1)
    BY <1>4 DEF Install
  <2>2. CASE oldCallbacks = << >>
    <3>1. callbackName' = [callbackName EXCEPT ![r] = r]
      BY <1>4, <2>2 DEF Install
    <3>2. QED
      BY <1>3, <2>1, <3>1
  <2>3. CASE oldCallbacks # << >>
    <3>1. callbackName' = [callbackName EXCEPT ![r] = oldCallbacks[n]]
      BY <1>4, <2>3 DEF Install
    <3>2. n \in 1 .. n
      BY <2>3, OldLen DEF NamesInv
    <3>3. QED
      BY <1>3, <2>1, <3>1, <3>2
  <2>4. QED
    BY <2>2, <2>3
<1>5. QED
  BY <1>2, <1>4 DEF Post

\* a name is given back
LEMMA CleanUpNames ==
  ASSUME AjaxAssumption, NamesInv, NEW r \in Requests, CleanUp(r), returned' = returned
  PROVE  NamesInv'
<1>1. /\ callbackName' \in [Requests -> Requests \cup {None}]
      /\ callbackName'[r] = None
      /\ \A p \in Requests \ {r} : callbackName'[p] = callbackName[p]
  BY DEF CleanUp, NamesInv, NameTypes
<1>2. NamesMade' /\ NamesDiffer'
  BY <1>1 DEF NamesInv, NamesMade, NamesDiffer
<1>3. ASSUME NEW p \in Requests, NEW i \in 1 .. Len(oldCallbacks)
      PROVE  callbackName'[p] # oldCallbacks[i]
  <2>1. CASE p = r
    BY <1>1, <2>1, OldLen DEF NamesInv, AjaxAssumption
  <2>2. CASE p # r
    BY <1>1, <2>2 DEF NamesInv, NamesNotOld
  <2>3. QED
    BY <2>1, <2>2
<1>4. CASE callbackName[r] = None
  <2>1. oldCallbacks' = oldCallbacks
    BY <1>4 DEF CleanUp
  <2>2. OldMade' /\ OldDiffer'
    BY <2>1 DEF NamesInv, OldMade, OldDiffer
  <2>3. NameTypes'
    BY <1>1, <2>1 DEF NamesInv, NameTypes
  <2>4. NamesNotOld'
    BY <1>3, <2>1 DEF NamesNotOld
  <2>5. QED
    BY <1>2, <2>2, <2>3, <2>4 DEF NamesInv
<1>5. CASE callbackName[r] # None
  <2> DEFINE n == Len(oldCallbacks)
  <2>1. /\ callbackName[r] \in Requests /\ oldCallbacks \in Seq(Requests)
        /\ oldCallbacks' = Append(oldCallbacks, callbackName[r])
    BY <1>5 DEF CleanUp, NamesInv, NameTypes
  <2>2. /\ oldCallbacks' \in Seq(Requests) /\ Len(oldCallbacks') = n + 1 /\ n \in Nat
        /\ oldCallbacks'[n + 1] = callbackName[r]
        /\ \A i \in 1 .. n : oldCallbacks'[i] = oldCallbacks[i]
    BY <2>1, AppendProperties
  <2>3. \A i \in 1 .. Len(oldCallbacks') :
            \/ i = n + 1 /\ oldCallbacks'[i] = callbackName[r]
            \/ i \in 1 .. n /\ oldCallbacks'[i] = oldCallbacks[i]
    BY <2>2
  <2>4. NameTypes'
    BY <1>1, <2>2 DEF NameTypes
  <2>5. OldMade'
    BY <1>5, <2>3 DEF NamesInv, NamesMade, OldMade
  <2>6. ASSUME NEW p \in Requests PROVE callbackName'[p] # callbackName[r]
    <3>1. CASE p = r
      BY <1>1, <1>5, <3>1
    <3>2. CASE p # r
      BY <1>1, <1>5, <3>2 DEF NamesInv, NamesDiffer
    <3>3. QED
      BY <3>1, <3>2
  <2>7. NamesNotOld'
    BY <1>3, <2>3, <2>6 DEF NamesNotOld
  <2>8. OldDiffer'
    <3>1. \A i \in 1 .. n : callbackName[r] # oldCallbacks[i]
      BY DEF NamesInv, NamesNotOld
    <3>2. QED
      BY <2>3, <3>1 DEF NamesInv, OldDiffer
  <2>9. QED
    BY <1>2, <2>4, <2>5, <2>7, <2>8 DEF NamesInv
<1>6. QED
  BY <1>4, <1>5

LEMMA NamesStep ==
  ASSUME AjaxAssumption, AjaxInv, NamesInv, [Next]_vars
  PROVE  NamesInv'
<1>1. CASE Quiet
  BY <1>1, SameNames DEF Quiet, jsonpVars
<1>2. ASSUME NEW r \in Requests, Settles(r) PROVE NamesInv'
  <2>1. CleanUp(r) /\ returned' = returned
    BY <1>2 DEF Settles, Settle
  <2>2. QED
    BY <2>1, CleanUpNames
<1>3. ASSUME NEW r \in Requests, Post(r) PROVE NamesInv'
  BY <1>3, PostNames
<1>4. ASSUME NEW r \in Requests, LateScript(r) PROVE NamesInv'
  BY <1>4, SameNames DEF LateScript, callerVars
<1>5. CASE UNCHANGED vars
  BY <1>5, SameNames DEF vars, requestVars, jsonpVars, callerVars
<1>6. QED
  BY <1>1, <1>2, <1>3, <1>4, <1>5, Steps

LEMMA LateStep ==
  ASSUME AjaxAssumption, AjaxInv, NamesInv, LateInv, [Next]_vars
  PROVE  LateInv'
<1>1. CASE UNCHANGED << container, late, deferred >>
  BY <1>1 DEF LateInv
<1>2. ASSUME NEW r \in Requests, Settles(r) PROVE LateInv'
  <2>1. PICK ok \in BOOLEAN, of \in {"ajax", "event", "user"}, rest \in Seq(Frame) :
            Settle(r, ok, of, rest) /\ LateFrom(r, ok)
    BY <1>2 DEF Settles
  <2>2. /\ container' = [container EXCEPT ![r] = None]
        /\ deferred' = [deferred EXCEPT ![r] = IF ok THEN "resolved" ELSE "rejected"]
    BY <2>1 DEF Settle, CleanUp
  <2>3. deferred[r] = "pending" /\ deferred \in [Requests -> {"pending", "resolved", "rejected"}]
    BY <1>2 DEF Settles, AjaxInv, CoreTypes, RequestInv
  <2>4. \A p \in Requests : deferred[p] = "rejected" => deferred'[p] = "rejected"
    BY <2>2, <2>3
  <2>5. /\ container' \in [Requests -> Requests \cup {None}]
        /\ \A p \in Requests : container'[p] # None => deferred'[container'[p]] = "rejected"
    BY <2>2, <2>4 DEF LateInv
  <2>6. CASE late' = late
    BY <2>4, <2>5, <2>6 DEF LateInv
  <2>7. CASE /\ ok = FALSE /\ callbackName[r] # None
             /\ late' = late \cup {<< r, callbackName[r] >>}
    <3>1. callbackName[r] \in Requests /\ deferred'[r] = "rejected"
      BY <2>2, <2>3, <2>7 DEF NamesInv, NameTypes
    <3>2. \A x \in late : x[1] \in Requests /\ deferred'[x[1]] = "rejected"
      BY <2>4 DEF LateInv
    <3>3. QED
      BY <2>5, <2>7, <3>1, <3>2 DEF LateInv
  <2>8. QED
    BY <2>1, <2>6, <2>7 DEF LateFrom
<1>3. ASSUME NEW r \in Requests, LateScript(r) PROVE LateInv'
  <2>1. PICK name \in Requests :
            /\ << r, name >> \in late
            /\ late' = late \ {<< r, name >>}
            /\ container' = [p \in Requests |->
                                IF callbackName[p] = name THEN r ELSE container[p]]
    BY <1>3 DEF LateScript
  <2>2. deferred' = deferred /\ deferred[r] = "rejected"
    BY <1>3, <2>1 DEF LateScript, LateInv
  <2>3. QED
    BY <2>1, <2>2 DEF LateInv
<1>4. QED
  BY <1>1, <1>2, <1>3, Steps DEF Quiet, jsonpVars, Post, vars, requestVars

WholeInv == AjaxInv /\ WayInv /\ NamesInv /\ LateInv

LEMMA WholeInit == Init => WholeInv
<1>1. SUFFICES ASSUME Init PROVE WayInv /\ NamesInv /\ LateInv
  BY AjaxInit DEF WholeInv
<1>2. WayInv /\ LateInv
  BY <1>1 DEF Init, WayInv, LateInv
<1>3. NamesInv
  <2>1. oldCallbacks = << >> /\ callbackName = [r \in Requests |-> None]
    BY <1>1 DEF Init
  <2>2. oldCallbacks \in Seq(Requests) /\ Len(oldCallbacks) = 0
    BY <2>1
  <2>3. NameTypes /\ NamesMade /\ NamesDiffer
    BY <2>1, <2>2 DEF NameTypes, NamesMade, NamesDiffer
  <2>4. OldMade /\ NamesNotOld /\ OldDiffer
    BY <2>2 DEF OldMade, NamesNotOld, OldDiffer
  <2>5. QED
    BY <2>3, <2>4 DEF NamesInv
<1>4. QED
  BY <1>2, <1>3

LEMMA WholeIsUnderWay == WholeInv => UnderWay
<1>1. SUFFICES ASSUME WholeInv PROVE UnderWay
  OBVIOUS
<1>2. stack = << >> => \A r \in Requests : xhr[r] = "sent" <=> completed[r] = "false"
  BY <1>1 DEF WholeInv, WayInv, AjaxInv, RequestInv, At
<1>3. \A r \in Requests : timer[r] => completed[r] = "false"
  BY <1>1 DEF WholeInv, AjaxInv, RequestInv
<1>4. DOMAIN oldCallbacks = 1 .. Len(oldCallbacks)
  <2>1. oldCallbacks \in Seq(Requests)
    BY <1>1 DEF WholeInv, NamesInv, NameTypes
  <2>2. QED
    BY <2>1
<1>5. Names \cap Range(oldCallbacks) = {} /\ IsInjective(oldCallbacks)
  BY <1>1, <1>4 DEF WholeInv, NamesInv, NamesNotOld, OldDiffer, Names, Range, IsInjective
<1>6. /\ \A r, p \in Requests : callbackName[r] = callbackName[p] /\ callbackName[r] # None => r = p
      /\ \A r \in Requests : container[r] \notin {None, r} => deferred[container[r]] = "rejected"
  BY <1>1 DEF WholeInv, NamesInv, NamesDiffer, LateInv
<1>7. QED
  BY <1>2, <1>3, <1>5, <1>6 DEF UnderWay

(* A request goes on exactly as long as its XMLHttpRequest does, with its  *)
(* timeout armed at most so long (jquery-3.6.1.js:10058-10149, 9702-9744); *)
(* and JSONP requests do not take each other's names or answers            *)
(* (jquery-3.6.1.js:10230-10307), but for the answers of failed ones.      *)
THEOREM UnderWayHolds == Spec => []UnderWay
<1>1. WholeInv /\ [Next]_vars => WholeInv'
  BY AjaxAssumption, NextStep, WayStep, NamesStep, LateStep DEF WholeInv
<1>2. QED
  BY <1>1, WholeInit, WholeIsUnderWay, PTL DEF Spec

-----------------------------------------------------------------------------
(* The counter of active requests *)

\* the places of a done() that has not fired ajaxComplete yet
EarlyAt == {"callbacks", "statusCode", "ajaxResult", "complete", "ajaxComplete"}

Early(p) == \E i \in 1 .. Len(stack) : stack[i].r = p /\ stack[i].at \in EarlyAt

\* the requests that jQuery.active counts
Counted == {p \in Requests : fireGlobals[p] /\ (completed[p] # "true" \/ Early(p))}

GlobalOK(f) ==
    /\ f.at = "prefilter" => ~ fireGlobals[f.r]
    /\ f.at \in DonePoints => completed[f.r] = "true"
    /\ f.at = "ajaxComplete" => fireGlobals[f.r]

FramesGlobal == \A i \in 1 .. Len(stack) : GlobalOK(stack[i])

\* each request has at most one call of done()
OneDone ==
    \A i, j \in 1 .. Len(stack) :
        stack[i].at \in DonePoints /\ stack[j].at \in DonePoints /\ stack[i].r = stack[j].r
          => i = j

GlobalInv ==
    /\ FramesGlobal /\ OneDone
    /\ fireGlobals \in [Requests -> BOOLEAN]
    /\ \A r \in Requests : returned[r] = "not called" => ~ fireGlobals[r]

\* an exception leaves the counter too high, never too low
CountInv ==
    /\ IsFiniteSet(Counted)
    /\ active \in Nat /\ thrown \in BOOLEAN
    /\ Cardinality(Counted) <= active
    /\ ~ thrown => Cardinality(Counted) = active
    /\ open = IF active = 0 THEN 0 ELSE 1

TurnsInv == GlobalInv /\ CountInv

\* a request in the calls below the innermost one
EarlyBelow(p) == \E i \in 2 .. Len(stack) : stack[i].r = p /\ stack[i].at \in EarlyAt

LEMMA EarlyIsDone == EarlyAt \subseteq DonePoints /\ "ajaxStop" \notin EarlyAt
                     /\ DonePoints \cap (AjaxPoints \cup {"send", "sending"}) = {}
  BY DEF EarlyAt, DonePoints, AjaxPoints

LEMMA EarlyTop ==
  ASSUME CoreTypes, stack # << >>, NEW p
  PROVE  Early(p) <=> (Top = p /\ stack[1].at \in EarlyAt) \/ EarlyBelow(p)
<1>1. Len(stack) \in Nat /\ 1 \in 1 .. Len(stack)
  BY TopFrame
<1>2. \A i \in 1 .. Len(stack) : i = 1 \/ i \in 2 .. Len(stack)
  BY <1>1
<1>3. \A i \in 2 .. Len(stack) : i \in 1 .. Len(stack)
  BY <1>1
<1>4. QED
  BY <1>1, <1>2, <1>3 DEF Early, EarlyBelow, Top

LEMMA EarlyPush ==
  ASSUME CoreTypes, NEW g \in Frame, stack' = << g >> \o stack, NEW p
  PROVE  Early(p)' <=> (g.r = p /\ g.at \in EarlyAt) \/ Early(p)
<1>1. stack \in Seq(Frame) /\ Len(stack) \in Nat
  BY StackType
<1>2. /\ Len(stack') = Len(stack) + 1 /\ stack'[1] = g
      /\ \A i \in 2 .. Len(stack) + 1 : stack'[i] = stack[i - 1]
  BY <1>1, PushShape
<1>3. /\ 1 \in 1 .. Len(stack')
      /\ \A i \in 1 .. Len(stack') :
            i = 1 \/ (i - 1 \in 1 .. Len(stack) /\ stack'[i] = stack[i - 1])
      /\ \A i \in 1 .. Len(stack) : i + 1 \in 1 .. Len(stack') /\ stack'[i + 1] = stack[i]
  BY <1>1, <1>2
<1>4. QED
  BY <1>2, <1>3 DEF Early

LEMMA EarlyReplace ==
  ASSUME CoreTypes, stack # << >>, NEW g \in Frame, Replaced(g), NEW p
  PROVE  Early(p)' <=> (g.r = p /\ g.at \in EarlyAt) \/ EarlyBelow(p)
<1>1. Len(stack) \in Nat /\ 1 \in 1 .. Len(stack)
  BY TopFrame
<1>2. /\ Len(stack') = Len(stack) /\ stack'[1] = g
      /\ \A i \in 2 .. Len(stack) : stack'[i] = stack[i]
  BY DEF Replaced
<1>3. /\ \A i \in 1 .. Len(stack) : i = 1 \/ i \in 2 .. Len(stack)
      /\ \A i \in 2 .. Len(stack) : i \in 1 .. Len(stack)
  BY <1>1
<1>4. QED
  BY <1>1, <1>2, <1>3 DEF Early, EarlyBelow

LEMMA EarlyPop ==
  ASSUME CoreTypes, stack # << >>, stack' = Tail(stack), NEW p
  PROVE  Early(p)' <=> EarlyBelow(p)
<1>1. stack \in Seq(Frame) /\ Len(stack) \in Nat /\ 1 \in 1 .. Len(stack)
  BY StackType, TopFrame
<1>2. /\ Len(stack') = Len(stack) - 1
      /\ \A i \in 1 .. Len(stack) - 1 : stack'[i] = stack[i + 1]
  BY <1>1, TailShape
<1>3. /\ \A i \in 1 .. Len(stack') : i + 1 \in 2 .. Len(stack) /\ stack'[i] = stack[i + 1]
      /\ \A i \in 2 .. Len(stack) : i - 1 \in 1 .. Len(stack') /\ stack'[i - 1] = stack[i]
  BY <1>1, <1>2
<1>4. QED
  BY <1>3 DEF Early, EarlyBelow

\* what a step leaves of the calls below the innermost one
GlobalKept == \A f \in Frame : Other(f) /\ GlobalOK(f) => GlobalOK(f)'


LEMMA PushGlobal ==
  ASSUME CoreTypes, GlobalInv, NEW g \in Frame, stack' = << g >> \o stack, GlobalOK(g)',
         g.at \in DonePoints => completed[g.r] # "true",
         \A f \in Frame : GlobalOK(f) => GlobalOK(f)'
  PROVE  FramesGlobal' /\ OneDone'
<1>1. stack \in Seq(Frame) /\ Len(stack) \in Nat
  BY StackType
<1>2. /\ Len(stack') = Len(stack) + 1 /\ stack'[1] = g
      /\ \A i \in 2 .. Len(stack) + 1 : stack'[i] = stack[i - 1]
  BY <1>1, PushShape
<1>3. \A i \in 1 .. Len(stack') :
         i = 1 \/ (i - 1 \in 1 .. Len(stack) /\ stack'[i] = stack[i - 1])
  BY <1>1, <1>2
<1>4. ASSUME NEW i \in 1 .. Len(stack)
      PROVE  stack[i] \in Frame /\ GlobalOK(stack[i])
  <2>1. GlobalOK(stack[i])
    BY DEF GlobalInv, FramesGlobal
  <2>2. QED
    BY <1>1, <2>1
<1>5. FramesGlobal'
  <2>1. ASSUME NEW i \in 1 .. Len(stack'), NEW f \in Frame, f = stack'[i] PROVE GlobalOK(f)'
    BY <1>2, <1>3, <1>4, <2>1
  <2>2. \A i \in 1 .. Len(stack') : stack'[i] \in Frame
    BY <1>2, <1>3, <1>4
  <2>3. QED
    BY <2>1, <2>2 DEF FramesGlobal, GlobalOK
<1>6. OneDone'
  <2>1. SUFFICES ASSUME NEW i \in 1 .. Len(stack'), NEW j \in 1 .. Len(stack'),
                        stack'[i].at \in DonePoints, stack'[j].at \in DonePoints,
                        stack'[i].r = stack'[j].r
                 PROVE  i = j
    BY DEF OneDone
  <2>2. CASE i = 1 \/ j = 1
    BY <1>2, <1>3, <1>4, <2>1, <2>2 DEF GlobalOK
  <2>3. CASE i # 1 /\ j # 1
    <3>1. i - 1 = j - 1
      BY <1>3, <2>1, <2>3 DEF GlobalInv, OneDone
    <3>2. QED
      BY <1>1, <1>2, <3>1
  <2>4. QED
    BY <2>2, <2>3
<1>7. QED
  BY <1>5, <1>6

LEMMA ReplaceGlobal ==
  ASSUME CoreTypes, StackInv, GlobalInv, stack # << >>, NEW g \in Frame, Replaced(g),
         GlobalOK(g)', GlobalKept, g.r = Top,
         g.at \in DonePoints => stack[1].at \in DonePoints \/ completed[Top] # "true"
  PROVE  FramesGlobal' /\ OneDone'
<1>1. stack \in Seq(Frame) /\ Len(stack) \in Nat /\ 1 \in 1 .. Len(stack)
  BY StackType, TopFrame
<1>2. /\ Len(stack') = Len(stack) /\ stack'[1] = g
      /\ \A i \in 2 .. Len(stack) : stack'[i] = stack[i]
  BY DEF Replaced
<1>3. \A i \in 1 .. Len(stack) : i = 1 \/ i \in 2 .. Len(stack)
  BY <1>1
<1>4. ASSUME NEW i \in 2 .. Len(stack)
      PROVE  i \in 1 .. Len(stack) /\ stack[i] \in Frame /\ Other(stack[i]) /\ GlobalOK(stack[i])
  <2>1. i \in 1 .. Len(stack)
    BY <1>1
  <2>2. GlobalOK(stack[i])
    BY <2>1 DEF GlobalInv, FramesGlobal
  <2>3. QED
    BY <2>1, <2>2, OthersAreOther
<1>5. FramesGlobal'
  <2>1. ASSUME NEW i \in 1 .. Len(stack'), NEW f \in Frame, f = stack'[i] PROVE GlobalOK(f)'
    BY <1>2, <1>3, <1>4, <2>1 DEF GlobalKept
  <2>2. \A i \in 1 .. Len(stack') : stack'[i] \in Frame
    BY <1>2, <1>3, <1>4
  <2>3. QED
    BY <2>1, <2>2 DEF FramesGlobal, GlobalOK
<1>6. OneDone'
  <2>1. SUFFICES ASSUME NEW i \in 1 .. Len(stack), NEW j \in 1 .. Len(stack),
                        stack'[i].at \in DonePoints, stack'[j].at \in DonePoints,
                        stack'[i].r = stack'[j].r
                 PROVE  i = j
    BY <1>2 DEF OneDone
  <2>2. CASE stack[1].at \in DonePoints \/ g.at \notin DonePoints
    BY <1>1, <1>2, <1>3, <1>4, <2>1, <2>2 DEF GlobalInv, OneDone, Top
  <2>3. CASE completed[Top] # "true" /\ g.at \in DonePoints
    <3>1. ASSUME NEW k \in 2 .. Len(stack), stack[k].at \in DonePoints PROVE stack[k].r # Top
      BY <1>4, <2>3, <3>1 DEF GlobalOK
    <3>2. CASE i \in 2 .. Len(stack) /\ j \in 2 .. Len(stack)
      <4>1. i \in 1 .. Len(stack) /\ j \in 1 .. Len(stack)
        BY <1>4, <3>2
      <4>2. /\ stack[i].at \in DonePoints /\ stack[j].at \in DonePoints
            /\ stack[i].r = stack[j].r
        BY <1>2, <2>1, <3>2
      <4>3. QED
        BY <4>1, <4>2 DEF GlobalInv, OneDone
    <3>3. CASE i = 1 /\ j \in 2 .. Len(stack)
      BY <1>2, <2>1, <3>1, <3>3
    <3>4. CASE j = 1 /\ i \in 2 .. Len(stack)
      BY <1>2, <2>1, <3>1, <3>4
    <3>5. QED
      BY <1>3, <3>2, <3>3, <3>4
  <2>4. QED
    BY <2>2, <2>3
<1>7. QED
  BY <1>5, <1>6

LEMMA PopGlobal ==
  ASSUME CoreTypes, StackInv, GlobalInv, stack # << >>, stack' = Tail(stack), GlobalKept
  PROVE  FramesGlobal' /\ OneDone'
<1>1. stack \in Seq(Frame) /\ Len(stack) \in Nat /\ 1 \in 1 .. Len(stack)
  BY StackType, TopFrame
<1>2. /\ Len(stack') = Len(stack) - 1
      /\ \A i \in 1 .. Len(stack) - 1 : stack'[i] = stack[i + 1]
  BY <1>1, TailShape
<1>3. \A i \in 1 .. Len(stack') :
         i + 1 \in 2 .. Len(stack) /\ i + 1 \in 1 .. Len(stack) /\ stack'[i] = stack[i + 1]
  BY <1>1, <1>2
<1>4. ASSUME NEW i \in 2 .. Len(stack)
      PROVE  i \in 1 .. Len(stack) /\ stack[i] \in Frame /\ Other(stack[i]) /\ GlobalOK(stack[i])
  <2>1. i \in 1 .. Len(stack)
    BY <1>1
  <2>2. GlobalOK(stack[i])
    BY <2>1 DEF GlobalInv, FramesGlobal
  <2>3. QED
    BY <2>1, <2>2, OthersAreOther
<1>5. FramesGlobal'
  <2>1. ASSUME NEW i \in 1 .. Len(stack'), NEW f \in Frame, f = stack'[i] PROVE GlobalOK(f)'
    BY <1>3, <1>4, <2>1 DEF GlobalKept
  <2>2. \A i \in 1 .. Len(stack') : stack'[i] \in Frame
    BY <1>3, <1>4
  <2>3. QED
    BY <2>1, <2>2 DEF FramesGlobal, GlobalOK
<1>6. OneDone'
  <2>1. SUFFICES ASSUME NEW i \in 1 .. Len(stack'), NEW j \in 1 .. Len(stack'),
                        stack'[i].at \in DonePoints, stack'[j].at \in DonePoints,
                        stack'[i].r = stack'[j].r
                 PROVE  i = j
    BY DEF OneDone
  <2>2. i + 1 = j + 1
    BY <1>3, <2>1 DEF GlobalInv, OneDone
  <2>3. QED
    BY <1>1, <1>2, <2>2
<1>7. QED
  BY <1>5, <1>6

\* the same requests are counted
LEMMA SameCount ==
  ASSUME CountInv, UNCHANGED << active, open, thrown, fireGlobals >>,
         \A p \in Requests : fireGlobals[p] =>
            ((completed'[p] # "true" \/ Early(p)') <=> (completed[p] # "true" \/ Early(p)))
  PROVE  CountInv'
<1>1. Counted' = Counted
  BY DEF Counted
<1>2. QED
  BY <1>1 DEF CountInv

\* the innermost call is at another place
LEMMA MoveGlobal ==
  ASSUME AjaxInv, TurnsInv, stack # << >>, NEW place, Goto(place),
         \/ /\ stack[1].at \in AjaxPoints \cup {"send", "sending"}
            /\ place \in AjaxPoints \cup {"send", "sending"}
         \/ stack[1].at \in EarlyAt /\ place \in EarlyAt,
         place # "prefilter",
         place = "ajaxComplete" => fireGlobals[Top],
         UNCHANGED << active, open, thrown, fireGlobals, returned >>,
         \A p \in Requests : completed'[p] = "true" <=> completed[p] = "true"
  PROVE  TurnsInv'
<1>1. CoreTypes /\ StackInv /\ GlobalInv /\ CountInv /\ Top \in Requests
  BY TopFrame DEF AjaxInv, TurnsInv
<1>2. PICK g \in Frame : /\ g = [stack[1] EXCEPT !.at = place]
                        /\ g.r = Top /\ g.of = stack[1].of /\ g.at = place
  <2>1. \/ /\ stack[1].at \in AjaxPoints \cup {"send", "sending"}
           /\ place \in AjaxPoints \cup {"send", "sending"}
        \/ place \in DonePoints
    BY EarlyIsDone
  <2>2. QED
    BY <1>1, <2>1, GotoFrame
<1>3. Replaced(g)
  BY <1>1, <1>2, GotoReplaces
<1>4. GlobalKept
  BY FrameParts DEF GlobalKept, GlobalOK
<1>5. stack[1] \in Frame /\ GlobalOK(stack[1])
  <2>1. 1 \in 1 .. Len(stack) /\ stack[1] \in Frame
    BY <1>1, TopFrame
  <2>2. QED
    BY <1>1, <2>1 DEF GlobalInv, FramesGlobal
<1>6. g.at \in DonePoints => stack[1].at \in DonePoints
  BY <1>2, EarlyIsDone
<1>7. GlobalOK(g)'
  BY <1>1, <1>2, <1>5, <1>6 DEF GlobalOK, Top
<1>8. FramesGlobal' /\ OneDone'
  BY <1>1, <1>2, <1>3, <1>4, <1>6, <1>7, ReplaceGlobal
<1>9. GlobalInv'
  BY <1>1, <1>8 DEF GlobalInv
<1>10. g.at \in EarlyAt <=> stack[1].at \in EarlyAt
  BY <1>2, EarlyIsDone
<1>11. \A p : Early(p)' <=> Early(p)
  BY <1>1, <1>2, <1>3, <1>10, EarlyReplace, EarlyTop
<1>12. CountInv'
  BY <1>1, <1>11, SameCount
<1>13. QED
  BY <1>9, <1>12 DEF TurnsInv

\* the innermost call is left, which is not about to fire ajaxComplete
LEMMA PopTurns ==
  ASSUME AjaxInv, TurnsInv, stack # << >>, stack' = Tail(stack),
         stack[1].at \in EarlyAt => ~ fireGlobals[Top],
         UNCHANGED << active, open, thrown, fireGlobals, completed >>,
         \A p \in Requests : returned[p] # "not called" => returned'[p] # "not called"
  PROVE  TurnsInv'
<1>1. CoreTypes /\ StackInv /\ GlobalInv /\ CountInv /\ Top \in Requests
  BY TopFrame DEF AjaxInv, TurnsInv
<1>2. GlobalKept
  BY DEF GlobalKept, GlobalOK
<1>3. FramesGlobal' /\ OneDone'
  BY <1>1, <1>2, PopGlobal
<1>4. GlobalInv'
  BY <1>1, <1>3 DEF GlobalInv
<1>5. \A p \in Requests : fireGlobals[p] => (Early(p)' <=> Early(p))
  BY <1>1, EarlyPop, EarlyTop
<1>6. CountInv'
  BY <1>1, <1>5, SameCount
<1>7. QED
  BY <1>4, <1>6 DEF TurnsInv

\* done() begins
LEMMA SettleTurns ==
  ASSUME AjaxInv, TurnsInv, NEW r \in Requests, Settles(r)
  PROVE  TurnsInv'
<1>1. CoreTypes /\ StackInv /\ GlobalInv /\ CountInv /\ stack \in Seq(Frame)
  BY DEF AjaxInv, TurnsInv, CoreTypes
<1>2. PICK ok \in BOOLEAN, of \in {"ajax", "event", "user"}, rest \in Seq(Frame) :
          Settle(r, ok, of, rest) /\ SettledOn(r, rest)
  BY DEF Settles
<1>3. PICK g \in Frame : /\ g = [r |-> r, of |-> of, at |-> "callbacks"]
                        /\ g.r = r /\ g.at = "callbacks"
  <2>1. [r |-> r, of |-> of, at |-> "callbacks"] \in Frame
    BY DEF Frame, DonePoints
  <2>2. QED
    BY <2>1
<1>4. /\ completed' = [completed EXCEPT ![r] = "true"] /\ completed[r] # "true"
      /\ stack' = << g >> \o rest
      /\ UNCHANGED << fireGlobals, returned, active, open, thrown >>
  BY <1>2, <1>3 DEF Settle, Settles, globalVars
<1>5. completed'[r] = "true" /\ \A p \in Requests \ {r} : completed'[p] = completed[p]
  BY <1>1, <1>4 DEF CoreTypes
<1>6. \A f \in Frame : GlobalOK(f) => GlobalOK(f)'
  BY <1>4, <1>5, FrameParts DEF GlobalOK
<1>7. GlobalOK(g)' /\ g.at \in EarlyAt
  BY <1>3, <1>5 DEF GlobalOK, EarlyAt
<1>8. /\ FramesGlobal' /\ OneDone'
      /\ \A p : Early(p)' <=> p = r \/ Early(p)
  <2>1. CASE rest = stack
    <3>1. FramesGlobal' /\ OneDone'
      BY <1>1, <1>3, <1>4, <1>6, <1>7, <2>1, PushGlobal
    <3>2. \A p : Early(p)' <=> p = r \/ Early(p)
      BY <1>1, <1>3, <1>4, <1>7, <2>1, EarlyPush
    <3>3. QED
      BY <3>1, <3>2
  <2>2. CASE /\ stack # << >> /\ rest = Tail(stack) /\ Top = r
             /\ stack[1].at \in AjaxPoints \cup {"send", "sending"}
    <3>1. Replaced(g)
      BY <1>1, <1>4, <2>2, PushReplaces
    <3>2. GlobalKept
      BY <1>6 DEF GlobalKept
    <3>3. FramesGlobal' /\ OneDone'
      BY <1>1, <1>3, <1>4, <1>7, <2>2, <3>1, <3>2, ReplaceGlobal
    <3>4. stack[1].at \notin EarlyAt
      BY <2>2, EarlyIsDone
    <3>5. \A p : Early(p)' <=> p = r \/ Early(p)
      BY <1>1, <1>3, <1>7, <2>2, <3>1, <3>4, EarlyReplace, EarlyTop
    <3>6. QED
      BY <3>3, <3>5
  <2>3. QED
    BY <1>2, <2>1, <2>2 DEF SettledOn
<1>9. GlobalInv'
  BY <1>1, <1>4, <1>8 DEF GlobalInv
<1>10. CountInv'
  BY <1>1, <1>4, <1>5, <1>8, SameCount
<1>11. QED
  BY <1>9, <1>10 DEF TurnsInv

LEMMA PostTurns ==
  ASSUME AjaxInv, TurnsInv, NEW r \in Requests, Post(r)
  PROVE  TurnsInv'
<1>1. CoreTypes /\ StackInv /\ GlobalInv /\ CountInv
  BY DEF AjaxInv, TurnsInv
<1> DEFINE g == [r |-> r, of |-> "ajax", at |-> "prefilter"]
<1>2. g \in Frame /\ g.r = r /\ g.at = "prefilter"
  BY DEF Frame, AjaxPoints
<1>3. /\ stack' = << g >> \o stack /\ returned[r] = "not called"
      /\ returned' = [returned EXCEPT ![r] = "no"]
      /\ UNCHANGED << completed, fireGlobals, active, open, thrown >>
  BY DEF Post, globalVars
<1> HIDE DEF g
<1>4. ~ fireGlobals[r] /\ g.at \notin DonePoints /\ g.at \notin EarlyAt
  BY <1>1, <1>2, <1>3, EarlyIsDone DEF GlobalInv, DonePoints
<1>5. \A f \in Frame : GlobalOK(f) => GlobalOK(f)'
  BY <1>3 DEF GlobalOK
<1>6. GlobalOK(g)'
  BY <1>2, <1>3, <1>4 DEF GlobalOK
<1>7. FramesGlobal' /\ OneDone'
  BY <1>1, <1>2, <1>3, <1>4, <1>5, <1>6, PushGlobal
<1>8. \A p \in Requests : returned'[p] = "not called" => returned[p] = "not called"
  BY <1>1, <1>3 DEF CoreTypes
<1>9. GlobalInv'
  BY <1>1, <1>3, <1>7, <1>8 DEF GlobalInv
<1>10. \A p : Early(p)' <=> Early(p)
  BY <1>1, <1>2, <1>3, <1>4, EarlyPush
<1>11. CountInv'
  BY <1>1, <1>3, <1>10, SameCount
<1>12. QED
  BY <1>9, <1>11 DEF TurnsInv

\* a step that leaves all that is counted
LEMMA SameTurns ==
  ASSUME TurnsInv, UNCHANGED << stack, fireGlobals, completed, active, open, thrown >>,
         \A p \in Requests : returned[p] # "not called" => returned'[p] # "not called"
  PROVE  TurnsInv'
<1>1. \A p : Early(p)' <=> Early(p)
  BY DEF Early
<1>2. CountInv'
  BY <1>1, SameCount DEF TurnsInv
<1>3. GlobalInv'
  BY DEF TurnsInv, GlobalInv, FramesGlobal, GlobalOK, OneDone
<1>4. QED
  BY <1>2, <1>3 DEF TurnsInv

\* a request is counted from now on
LEMMA PrefilterTurns ==
  ASSUME AjaxInv, TurnsInv, LeavePrefilter
  PROVE  TurnsInv'
<1>1. stack # << >> /\ stack[1].at = "prefilter"
  BY DEF LeavePrefilter, At
<1>2. CoreTypes /\ StackInv /\ GlobalInv /\ CountInv /\ Top \in Requests
  BY <1>1, TopFrame DEF AjaxInv, TurnsInv
<1> DEFINE first == Top \in Global /\ active = 0
           place == IF first THEN "ajaxStart" ELSE "beforeSend"
<1>3. /\ completed[Top] # "true" /\ Goto(place)
      /\ fireGlobals' = [fireGlobals EXCEPT ![Top] = Top \in Global]
      /\ active' = (IF Top \in Global THEN active + 1 ELSE active)
      /\ open' = IF first THEN open + 1 ELSE open
      /\ UNCHANGED << completed, thrown, returned >>
  BY DEF LeavePrefilter, callerVars
<1>4. place \in AjaxPoints /\ place # "prefilter" /\ stack[1].at \in AjaxPoints
  BY <1>1 DEF AjaxPoints
<1> HIDE DEF place
<1>5. PICK g \in Frame : /\ g = [stack[1] EXCEPT !.at = place]
                        /\ g.r = Top /\ g.of = stack[1].of /\ g.at = place
  BY <1>1, <1>2, <1>4, GotoFrame
<1>6. Replaced(g)
  BY <1>1, <1>2, <1>3, <1>5, GotoReplaces
<1>7. stack[1] \in Frame /\ stack[1].of = "ajax" /\ GlobalOK(stack[1]) /\ returned[Top] = "no"
  <2>1. 1 \in 1 .. Len(stack) /\ stack[1] \in Frame
    BY <1>1, <1>2, TopFrame
  <2>2. GlobalOK(stack[1])
    BY <1>2, <2>1 DEF GlobalInv, FramesGlobal
  <2>3. stack[1].of = "ajax"
    BY <1>4, <2>1, FrameParts
  <2>4. QED
    BY <1>1, <1>2, <2>1, <2>2, <2>3, TopIsOK DEF FrameOK, Top
<1>8. /\ fireGlobals' \in [Requests -> BOOLEAN] /\ ~ fireGlobals[Top]
      /\ fireGlobals'[Top] <=> Top \in Global
      /\ \A p \in Requests \ {Top} : fireGlobals'[p] = fireGlobals[p]
  <2>1. fireGlobals \in [Requests -> BOOLEAN]
    BY <1>2 DEF GlobalInv
  <2>2. ~ fireGlobals[Top]
    BY <1>1, <1>7 DEF GlobalOK, Top
  <2>3. fireGlobals' = [fireGlobals EXCEPT ![Top] = Top \in Global]
    BY <1>3
  <2>4. fireGlobals' \in [Requests -> BOOLEAN]
    BY <1>2, <2>1, <2>3
  <2>5. fireGlobals'[Top] <=> Top \in Global
    BY <1>2, <2>1, <2>3
  <2>6. \A p \in Requests \ {Top} : fireGlobals'[p] = fireGlobals[p]
    BY <1>2, <2>1, <2>3
  <2>7. QED
    BY <2>2, <2>4, <2>5, <2>6
<1>9. GlobalKept
  <2>1. SUFFICES ASSUME NEW f \in Frame, Other(f), GlobalOK(f) PROVE GlobalOK(f)'
    BY DEF GlobalKept
  <2>2. f.r \in Requests /\ (f.at = "prefilter" => f.of = "ajax")
    BY FrameParts DEF AjaxPoints
  <2>3. CASE f.r # Top
    BY <1>3, <1>8, <2>1, <2>2, <2>3 DEF GlobalOK
  <2>4. CASE f.r = Top
    <3>1. f.at # "prefilter" /\ f.at \notin DonePoints
      BY <1>3, <1>7, <2>1, <2>2, <2>4 DEF Other, GlobalOK, Top
    <3>2. QED
      BY <3>1 DEF GlobalOK, DonePoints
  <2>5. QED
    BY <2>3, <2>4
<1>10. g.at \notin DonePoints /\ g.at \notin EarlyAt /\ stack[1].at \notin EarlyAt
  BY <1>4, <1>5, EarlyIsDone
<1>11. GlobalOK(g)'
  BY <1>4, <1>5, <1>10 DEF GlobalOK, DonePoints
<1>12. FramesGlobal' /\ OneDone'
  BY <1>1, <1>2, <1>5, <1>6, <1>9, <1>10, <1>11, ReplaceGlobal
<1>13. GlobalInv'
  BY <1>2, <1>3, <1>7, <1>8, <1>12 DEF GlobalInv
<1>14. \A p : Early(p)' <=> Early(p)
  BY <1>1, <1>2, <1>5, <1>6, <1>10, EarlyReplace, EarlyTop
<1>15. Top \notin Counted /\ Counted' = IF Top \in Global THEN Counted \cup {Top} ELSE Counted
  BY <1>2, <1>3, <1>8, <1>14 DEF Counted
<1>16. CountInv'
  <2>1. /\ IsFiniteSet(Counted) /\ Cardinality(Counted) \in Nat /\ active \in Nat
        /\ Cardinality(Counted) <= active /\ (~ thrown => Cardinality(Counted) = active)
        /\ open = (IF active = 0 THEN 0 ELSE 1) /\ thrown \in BOOLEAN
    BY <1>2, FS_CardinalityType DEF CountInv
  <2>2. CASE Top \in Global
    <3>1. IsFiniteSet(Counted') /\ Cardinality(Counted') = Cardinality(Counted) + 1
      BY <1>15, <2>1, <2>2, FS_AddElement
    <3>2. active' = active + 1 /\ open' = 1 /\ thrown' = thrown
      BY <1>3, <2>1, <2>2
    <3>3. QED
      BY <2>1, <3>1, <3>2 DEF CountInv
  <2>3. CASE Top \notin Global
    <3>1. Counted' = Counted /\ active' = active /\ open' = open /\ thrown' = thrown
      BY <1>3, <1>15, <2>3
    <3>2. QED
      BY <2>1, <3>1 DEF CountInv
  <2>4. QED
    BY <2>2, <2>3
<1>17. QED
  BY <1>13, <1>16 DEF TurnsInv

\* a request is counted no more, and the last one fires ajaxStop
LEMMA CompleteTurns ==
  ASSUME AjaxInv, TurnsInv, LeaveAjaxComplete
  PROVE  TurnsInv'
<1>1. stack # << >> /\ stack[1].at = "ajaxComplete"
  BY DEF LeaveAjaxComplete, At
<1>2. CoreTypes /\ StackInv /\ GlobalInv /\ CountInv /\ Top \in Requests
  BY <1>1, TopFrame DEF AjaxInv, TurnsInv
<1>3. /\ active' = active - 1
      /\ \/ active' = 0 /\ Goto("ajaxStop") /\ open' = open - 1 /\ UNCHANGED callerVars
         \/ active' # 0 /\ ReturnFromDone /\ open' = open
      /\ UNCHANGED << completed, fireGlobals, thrown >>
  BY DEF LeaveAjaxComplete, requestVars
<1>4. stack[1] \in Frame /\ 1 \in 1 .. Len(stack) /\ GlobalOK(stack[1])
  <2>1. 1 \in 1 .. Len(stack) /\ stack[1] \in Frame
    BY <1>1, <1>2, TopFrame
  <2>2. QED
    BY <1>2, <2>1 DEF GlobalInv, FramesGlobal
<1>5. stack[1].at \in DonePoints /\ stack[1].at \in EarlyAt
  BY <1>1 DEF DonePoints, EarlyAt
<1>6. completed[Top] = "true" /\ fireGlobals[Top]
  BY <1>1, <1>4, <1>5 DEF GlobalOK, Top
<1>7. ~ EarlyBelow(Top)
  <2>1. ASSUME NEW i \in 2 .. Len(stack), stack[i].r = Top, stack[i].at \in EarlyAt PROVE FALSE
    <3>1. i \in 1 .. Len(stack) /\ stack[i].at \in DonePoints /\ i # 1
      BY <1>4, <2>1, EarlyIsDone
    <3>2. QED
      BY <1>2, <1>4, <1>5, <2>1, <3>1 DEF GlobalInv, OneDone, Top
  <2>2. QED
    BY <2>1 DEF EarlyBelow
<1>8. GlobalKept /\ \A p \in Requests : returned[p] # "not called" => returned'[p] # "not called"
  <2>1. GlobalKept
    BY <1>3 DEF GlobalKept, GlobalOK
  <2>2. ReturnJqXHR(Top) \/ returned' = returned
    BY <1>3 DEF ReturnFromDone, callerVars
  <2>3. QED
    BY <2>1, <2>2, ReturnedStays
<1>9. FramesGlobal' /\ OneDone' /\ \A p : Early(p)' <=> EarlyBelow(p)
  <2>1. CASE Goto("ajaxStop")
    <3>1. "ajaxStop" \in DonePoints /\ "ajaxStop" \notin EarlyAt
      BY DEF DonePoints, EarlyAt
    <3>2. PICK g \in Frame : /\ g = [stack[1] EXCEPT !.at = "ajaxStop"]
                            /\ g.r = Top /\ g.of = stack[1].of /\ g.at = "ajaxStop"
      BY <1>1, <1>2, <3>1, GotoFrame
    <3>3. Replaced(g)
      BY <1>1, <1>2, <2>1, <3>2, GotoReplaces
    <3>4. GlobalOK(g)'
      BY <1>3, <1>6, <3>2 DEF GlobalOK
    <3>5. FramesGlobal' /\ OneDone'
      BY <1>1, <1>2, <1>5, <1>8, <3>2, <3>3, <3>4, ReplaceGlobal
    <3>6. \A p : Early(p)' <=> EarlyBelow(p)
      BY <1>1, <1>2, <3>1, <3>2, <3>3, EarlyReplace
    <3>7. QED
      BY <3>5, <3>6
  <2>2. CASE ReturnFromDone
    <3>1. stack' = Tail(stack)
      BY <2>2 DEF ReturnFromDone, ReturnJqXHR
    <3>2. QED
      BY <1>1, <1>2, <1>8, <3>1, PopGlobal, EarlyPop
  <2>3. QED
    BY <1>3, <2>1, <2>2
<1>10. GlobalInv'
  BY <1>2, <1>3, <1>8, <1>9 DEF GlobalInv
<1>11. Top \in Counted /\ Counted' = Counted \ {Top}
  <2>1. \A p : Early(p) <=> p = Top \/ EarlyBelow(p)
    BY <1>1, <1>2, <1>5, EarlyTop
  <2>2. QED
    BY <1>2, <1>3, <1>6, <1>7, <1>9, <2>1 DEF Counted
<1>12. CountInv'
  <2>1. /\ IsFiniteSet(Counted) /\ Cardinality(Counted) \in Nat /\ active \in Nat
        /\ Cardinality(Counted) <= active /\ (~ thrown => Cardinality(Counted) = active)
        /\ open = (IF active = 0 THEN 0 ELSE 1) /\ thrown \in BOOLEAN
    BY <1>2, FS_CardinalityType DEF CountInv
  <2>2. IsFiniteSet(Counted') /\ Cardinality(Counted') = Cardinality(Counted) - 1
    BY <1>11, <2>1, FS_RemoveElement
  <2>3. Cardinality(Counted') \in Nat
    BY <2>2, FS_CardinalityType
  <2>4. active' = active - 1 /\ active >= 1 /\ thrown' = thrown
    BY <1>3, <2>1, <2>2, <2>3
  <2>5. open' = IF active' = 0 THEN 0 ELSE 1
    BY <1>3, <2>1, <2>4
  <2>6. QED
    BY <2>1, <2>2, <2>3, <2>4, <2>5 DEF CountInv
<1>13. QED
  BY <1>10, <1>12 DEF TurnsInv

\* the request whose handler throws may not be counted any more
LEMMA ThrowTurns ==
  ASSUME AjaxInv, TurnsInv, Throw
  PROVE  TurnsInv'
<1>1. /\ stack # << >> /\ stack' = Tail(stack) /\ thrown' = TRUE
      /\ UNCHANGED << fireGlobals, completed, active, open >>
  BY DEF Throw, requestVars, globalVars
<1>2. CoreTypes /\ StackInv /\ GlobalInv /\ CountInv /\ Top \in Requests
  BY <1>1, TopFrame DEF AjaxInv, TurnsInv
<1>3. GlobalKept
  BY <1>1 DEF GlobalKept, GlobalOK
<1>4. \A p \in Requests : returned[p] # "not called" => returned'[p] # "not called"
  BY <1>2 DEF Throw, CoreTypes
<1>5. GlobalInv'
  BY <1>1, <1>2, <1>3, <1>4, PopGlobal DEF GlobalInv
<1>6. Counted' \subseteq Counted
  BY <1>1, <1>2, EarlyPop, EarlyTop DEF Counted
<1>7. CountInv'
  <2>1. /\ IsFiniteSet(Counted) /\ Cardinality(Counted) \in Nat /\ active \in Nat
        /\ Cardinality(Counted) <= active /\ open = (IF active = 0 THEN 0 ELSE 1)
    BY <1>2, FS_CardinalityType DEF CountInv
  <2>2. /\ IsFiniteSet(Counted') /\ Cardinality(Counted') <= Cardinality(Counted)
        /\ Cardinality(Counted') \in Nat
    BY <1>6, <2>1, FS_Subset, FS_CardinalityType
  <2>3. QED
    BY <1>1, <2>1, <2>2 DEF CountInv
<1>8. QED
  BY <1>5, <1>7 DEF TurnsInv

LEMMA DoneTurns ==
  ASSUME AjaxInv, TurnsInv,
         LeaveCallbacks \/ LeaveStatusCode \/ LeaveResult \/ LeaveComplete \/ LeaveAjaxStop
  PROVE  TurnsInv'
<1>1. stack # << >> /\ UNCHANGED << completed, fireGlobals, active, open, thrown >>
  BY DEF LeaveCallbacks, LeaveStatusCode, LeaveResult, LeaveComplete, LeaveAjaxStop, At,
         requestVars, globalVars
<1>2. ASSUME NEW place \in EarlyAt, Goto(place), UNCHANGED callerVars, stack[1].at \in EarlyAt,
             place = "ajaxComplete" => fireGlobals[Top]
      PROVE  TurnsInv'
  <2>1. place # "prefilter" /\ returned' = returned
    BY <1>2 DEF EarlyAt, callerVars
  <2>2. QED
    BY <1>1, <1>2, <2>1, MoveGlobal
<1>3. ASSUME ReturnFromDone, stack[1].at \in EarlyAt => ~ fireGlobals[Top] PROVE TurnsInv'
  <2>1. stack' = Tail(stack) /\ (ReturnJqXHR(Top) \/ returned' = returned)
    BY <1>3 DEF ReturnFromDone, ReturnJqXHR, callerVars
  <2>2. QED
    BY <1>1, <1>3, <2>1, ReturnedStays, PopTurns
<1>4. CASE LeaveCallbacks
  BY <1>2, <1>4 DEF LeaveCallbacks, At, EarlyAt
<1>5. CASE LeaveStatusCode
  BY <1>2, <1>5 DEF LeaveStatusCode, At, EarlyAt
<1>6. CASE LeaveResult
  BY <1>2, <1>6 DEF LeaveResult, At, EarlyAt
<1>7. CASE LeaveComplete
  BY <1>2, <1>3, <1>7 DEF LeaveComplete, At, EarlyAt
<1>8. CASE LeaveAjaxStop
  BY <1>3, <1>8 DEF LeaveAjaxStop, At, EarlyAt
<1>9. QED
  BY <1>4, <1>5, <1>6, <1>7, <1>8

LEMMA AjaxTurns ==
  ASSUME AjaxInv, TurnsInv,
         AbortedEarly \/ LeaveAjaxStart \/ AbortedBefore \/ LeaveBeforeSend \/ LeaveAjaxSend
           \/ Open \/ Sent
  PROVE  TurnsInv'
<1>1. /\ stack # << >> /\ UNCHANGED << fireGlobals, active, open, thrown >>
      /\ stack[1].at \in AjaxPoints \cup {"send", "sending"}
  BY DEF AbortedEarly, LeaveAjaxStart, AbortedBefore, LeaveBeforeSend, LeaveAjaxSend, Open, Sent,
         At, AjaxPoints, requestVars, globalVars
<1>2. Top \in Requests /\ completed \in [Requests -> {"undefined", "false", "true"}]
  BY <1>1, TopFrame DEF AjaxInv, CoreTypes
<1>3. ASSUME NEW place \in {"beforeSend", "ajaxSend", "send", "sending"}, Goto(place),
             UNCHANGED callerVars,
             \A p \in Requests : completed'[p] = "true" <=> completed[p] = "true"
      PROVE  TurnsInv'
  <2>1. /\ place \in AjaxPoints \cup {"send", "sending"} /\ returned' = returned
        /\ place # "prefilter" /\ place # "ajaxComplete"
    BY <1>3 DEF AjaxPoints, callerVars
  <2>2. QED
    BY <1>1, <1>3, <2>1, MoveGlobal
<1>4. ASSUME ReturnJqXHR(Top), completed' = completed PROVE TurnsInv'
  <2>1. stack' = Tail(stack) /\ stack[1].at \notin EarlyAt
    BY <1>1, <1>4, EarlyIsDone DEF ReturnJqXHR
  <2>2. QED
    BY <1>1, <1>4, <2>1, ReturnedStays, PopTurns
<1>5. CASE AbortedEarly \/ AbortedBefore \/ Sent
  BY <1>4, <1>5 DEF AbortedEarly, AbortedBefore, Sent, requestVars
<1>6. CASE LeaveAjaxStart \/ LeaveAjaxSend
  BY <1>3, <1>6 DEF LeaveAjaxStart, LeaveAjaxSend, requestVars
<1>7. CASE LeaveBeforeSend
  BY <1>3, <1>4, <1>7 DEF LeaveBeforeSend
<1>8. CASE Open
  <2>1. completed[Top] # "true"
    BY <1>1, <1>8, TopIsOK DEF Open, At, AjaxInv, FrameOK, Top
  <2>2. completed' = [completed EXCEPT ![Top] = "false"]
    BY <1>8 DEF Open
  <2>3. \A p \in Requests : completed'[p] = "true" <=> completed[p] = "true"
    BY <1>2, <2>1, <2>2
  <2>4. QED
    BY <1>3, <1>8, <2>3 DEF Open
<1>9. QED
  BY <1>5, <1>6, <1>7, <1>8

LEMMA TurnsStep ==
  ASSUME AjaxInv, TurnsInv, [Next]_vars
  PROVE  TurnsInv'
<1>1. CASE Proceed
  BY <1>1, PrefilterTurns, AjaxTurns, DoneTurns, CompleteTurns, AjaxSettles, SettleTurns DEF Proceed
<1>2. CASE Refused
  BY <1>2, AjaxSettles, SettleTurns
<1>3. CASE Throw
  BY <1>3, ThrowTurns
<1>4. CASE \E type \in Named : Inspect(type)
  <2>1. UNCHANGED << stack, fireGlobals, completed, active, open, thrown, returned >>
    BY <1>4 DEF Inspect, callerVars, globalVars
  <2>2. QED
    BY <2>1, SameTurns
<1>5. ASSUME NEW r \in Requests, Post(r) \/ Abort(r) \/ Event(r) \/ Timeout(r)
      PROVE  TurnsInv'
  BY <1>5, PostTurns, EventSettles, SettleTurns
<1>6. ASSUME NEW r \in Requests, LateScript(r) PROVE TurnsInv'
  <2>1. UNCHANGED << stack, fireGlobals, completed, active, open, thrown, returned >>
    BY <1>6 DEF LateScript, callerVars, globalVars
  <2>2. QED
    BY <2>1, SameTurns
<1>7. CASE UNCHANGED vars
  <2>1. UNCHANGED << stack, fireGlobals, completed, active, open, thrown, returned >>
    BY <1>7 DEF vars, requestVars, callerVars, globalVars
  <2>2. QED
    BY <2>1, SameTurns
<1>8. QED
  BY <1>1, <1>2, <1>3, <1>4, <1>5, <1>6, <1>7 DEF Next

LEMMA TurnsInit == Init => TurnsInv
<1>1. SUFFICES ASSUME Init PROVE TurnsInv
  OBVIOUS
<1>2. /\ stack = << >> /\ fireGlobals = [r \in Requests |-> FALSE]
      /\ active = 0 /\ open = 0 /\ thrown = FALSE
  BY <1>1 DEF Init
<1>3. Len(stack) = 0 /\ \A r \in Requests : ~ fireGlobals[r]
  BY <1>2
<1>4. GlobalInv
  BY <1>2, <1>3 DEF GlobalInv, FramesGlobal, OneDone
<1>5. Counted = {}
  BY <1>3 DEF Counted
<1>6. CountInv
  <2>1. IsFiniteSet(Counted) /\ Cardinality(Counted) = 0
    BY <1>5, FS_EmptySet
  <2>2. thrown \in BOOLEAN
    BY <1>2
  <2>3. active \in Nat /\ 0 <= active /\ active = 0 /\ open = IF active = 0 THEN 0 ELSE 1
    BY <1>2
  <2>4. QED
    BY <2>1, <2>2, <2>3 DEF CountInv
<1>7. QED
  BY <1>4, <1>6 DEF TurnsInv

LEMMA TurnsAreTaken == AjaxInv /\ TurnsInv => EventsTakeTurns
<1>1. SUFFICES ASSUME AjaxInv, TurnsInv PROVE EventsTakeTurns
  OBVIOUS
<1>2. CountInv /\ open \in {0, 1}
  BY <1>1 DEF TurnsInv, CountInv
<1>3. ASSUME stack = << >>, ~ thrown, \A r \in Requests : deferred[r] # "pending"
      PROVE  open = 0 /\ active = 0
  <2>1. \A r \in Requests : completed[r] = "true" /\ ~ Early(r)
    <3>1. Len(stack) = 0
      BY <1>3
    <3>2. \A r \in Requests : ~ Early(r)
      BY <3>1 DEF Early
    <3>3. \A r \in Requests : completed[r] = "true"
      BY <1>1, <1>3 DEF AjaxInv, RequestInv
    <3>4. QED
      BY <3>2, <3>3
  <2>2. Counted = {}
    BY <2>1 DEF Counted
  <2>3. QED
    BY <1>2, <1>3, <2>2, FS_EmptySet DEF CountInv
<1>4. QED
  BY <1>2, <1>3 DEF EventsTakeTurns

(* ajaxStart and ajaxStop take turns, for any number of requests nested in *)
(* each other's handlers in any way; and jQuery.active is right again when *)
(* all have ended, unless code of the user has thrown                      *)
(* (jquery-3.6.1.js:9597-9600, 9839-9846): it counts the requests that     *)
(* fire global events and have not fired ajaxComplete, and exceptions can  *)
(* only leave it too high.                                                 *)
THEOREM EventsTakeTurnsHolds == Spec => []EventsTakeTurns
  BY TurnsInit, TurnsStep, TurnsAreTaken, AjaxInvHolds, PTL DEF Spec
=============================================================================
