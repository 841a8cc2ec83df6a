-------------------------- MODULE JqDeferredProofs --------------------------
(***************************************************************************)
(* Proofs about JqDeferred, for any values, any number of Deferreds and    *)
(* any settlements: the outcome of a chain is what its thenables said      *)
(* first, and when() and ready() count down exactly what they wait for.    *)
(*                                                                         *)
(* A Deferred that then() has made is served by one token: a listener on   *)
(* the Deferred before it, a timer, the functions given to a foreign       *)
(* thenable, or a call under way.  Most of what follows says what the      *)
(* token knows (Tokens) and that no step doubles the handler's (Zero).     *)
(***************************************************************************)
EXTENDS JqDeferred, FiniteSetTheorems, SequenceTheorems, TLAPS

(***************************************************************************)
(* The invariant                                                           *)
(***************************************************************************)

TaskSet == [l : Listener, arm : Arm, v : Value]

HeapSet == [state : [Deferreds -> {"pending"} \cup Arm],
            value : [Deferreds -> Value \cup {None}],
            thens : [Deferreds -> Seq(Listener)],
            timers : Seq(TaskSet)]

\* what a foreign thenable is given
Given == [to : 0 .. MaxMade, depth : Nat]

\* what is settled has a value, and nothing waits for it
Fine(h) ==
    /\ h \in HeapSet
    /\ \A d \in Deferreds : h.state[d] # "pending" => h.value[d] \in Value /\ h.thens[d] = << >>

\* a call of process for the handler of e, at place i of the list a
Zero(h, st, a, i, e) ==
    \/ a \in Deferreds /\ i \in 1 .. Len(h.thens[a])
         /\ h.thens[a][i].to = e /\ h.thens[a][i].depth = 0
    \/ a = 0 /\ i \in 1 .. Len(h.timers) /\ h.timers[i].l.to = e /\ h.timers[i].l.depth = 0
    \/ a = -1 /\ i \in 1 .. Len(st) /\ st[i].what = "handler" /\ st[i].to = e

\* l serves a Deferred of then(), and is not later than the last it waits for
ListenerOK(l, md, src) ==
    src[l.to] # 0 /\ l.depth <= md[l.to] /\ (l.depth > 0 => l.cb = {})

\* e was put off to its thenable number n, by what its number n - 1 said first
PutOff(fi, e, n) == n > 0 /\ Defers(e, fi[e][n])

\* who was put off to a Deferred listens to this one
ThensOK(h, md, fi, src) ==
    \A d \in Deferreds : \A i \in 1 .. Len(h.thens[d]) :
        LET l == h.thens[d][i]
        IN /\ ListenerOK(l, md, src)
           /\ PutOff(fi, l.to, l.depth) => fi[l.to][l.depth][2] = [k |-> "deferred", id |-> d]

\* who was put off to a Deferred gets from a timer what this one was settled with
TimersOK(h, md, fi, src) ==
    \A i \in 1 .. Len(h.timers) :
        LET l == h.timers[i].l
        IN /\ ListenerOK(l, md, src)
           /\ PutOff(fi, l.to, l.depth) =>
                LET said == fi[l.to][l.depth][2]
                IN /\ said.k = "deferred" /\ said.id \in Deferreds
                   /\ h.state[said.id] = h.timers[i].arm /\ h.value[said.id] = h.timers[i].v

\* who was put off to a foreign thenable has given it its functions
FunctionsOK(fs, md, fi, src) ==
    \A f \in Foreign : \A i \in 1 .. Len(fs[f]) :
        LET fn == fs[f][i]
        IN fn.to # 0 =>
             /\ src[fn.to] # 0 /\ fn.depth \in 1 .. md[fn.to]
             /\ PutOff(fi, fn.to, fn.depth) => fi[fn.to][fn.depth][2].k = "foreign"

\* the same of the calls that are under way
FramesOK(st, md, fi, src) ==
    \A i \in 1 .. Len(st) :
        /\ st[i].what = "handler" => src[st[i].to] # 0 /\ st[i].depth = 0
        /\ st[i].what = "then" =>
             /\ src[st[i].to] # 0 /\ st[i].depth + 1 <= md[st[i].to]
             /\ PutOff(fi, st[i].to, st[i].depth + 1) =>
                  fi[st[i].to][st[i].depth + 1][2].k = "foreign"

\* the handler of e is called from one place only, and has said nothing before
ZeroOK(h, st, md, fi) ==
    \A e \in Deferreds : \A a \in -1 .. MaxMade, i \in Nat :
        Zero(h, st, a, i, e) =>
            /\ fi[e] = << >> /\ md[e] = 0
            /\ \A b \in -1 .. MaxMade, j \in Nat : Zero(h, st, b, j, e) => a = b /\ i = j

(* The chain of e: each of its thenables but the last has put it off to the *)
(* next one; e is settled by the first that did not, and one that was a     *)
(* Deferred has said the outcome of this Deferred.                          *)
OutcomeOK(h, md, fi, e) ==
    /\ md[e] <= Len(fi[e]) /\ Len(fi[e]) <= md[e] + 1
    /\ Len(fi[e]) = md[e] + 1 => ~ Defers(e, fi[e][md[e] + 1])
    /\ h.state[e] = "pending" => \A i \in 1 .. Len(fi[e]) : Defers(e, fi[e][i])
    /\ h.state[e] # "pending" =>
         \E i \in 1 .. Len(fi[e]) :
            /\ ~ Defers(e, fi[e][i]) /\ \A j \in 1 .. i - 1 : Defers(e, fi[e][j])
            /\ << h.state[e], h.value[e] >> = Verdict(e, fi[e][i])
    /\ \A i \in 1 .. Len(fi[e]) - 1 :
         Defers(e, fi[e][i]) /\ fi[e][i][2].k = "deferred" =>
            fi[e][i + 1] = << h.state[fi[e][i][2].id], h.value[fi[e][i][2].id] >>

\* what waits for the Deferreds, and what remains of calls that are under way
Tokens(h, st, fs, md, fi, src) ==
    /\ Fine(h)
    /\ ThensOK(h, md, fi, src) /\ TimersOK(h, md, fi, src)
    /\ FunctionsOK(fs, md, fi, src) /\ FramesOK(st, md, fi, src)
    /\ ZeroOK(h, st, md, fi)

AllOutcomes(h, md, fi, src) ==
    \A e \in Deferreds : IF src[e] = 0 THEN fi[e] = << >> /\ md[e] = 0
                         ELSE OutcomeOK(h, md, fi, e)

World(h, st, fs, md, fi, src) ==
    Tokens(h, st, fs, md, fi, src) /\ AllOutcomes(h, md, fi, src)

(* What remains is the number of arguments that did not come, and the       *)
(* Deferred of when() is settled exactly if all came or one has failed.     *)
WhenOK(w, st, ms) ==
    w # None =>
        /\ w \in When /\ Len(w.args) \in 1 .. 2
        /\ w.primary > 1 /\ w.primary + 2 - Len(w.args) <= ms
        /\ w.said \subseteq 1 .. Len(w.args)
        /\ \A x \in w.waits : x[2] \in 1 .. Len(w.args)
        /\ ~ w.again =>
             /\ ~ w.failed => w.remaining = Len(w.args) - Cardinality(w.said)
             /\ st[w.primary] = "resolved" <=> w.said = 1 .. Len(w.args) /\ ~ w.failed
             /\ st[w.primary] = "rejected" <=> w.failed

\* when() is called once; what it has given and called is for its arguments
WhenFrames(w, st, fs) ==
    /\ \A i \in 1 .. Len(st) :
          /\ st[i].what = "when" => /\ w # None /\ w.returned = 0 /\ st[i].i \in 0 .. Len(w.args)
                                    /\ \A j \in 1 .. Len(st) : st[j].what = "when" => i = j
          /\ st[i].what = "when then" => w # None /\ st[i].i \in 1 .. Len(w.args)
    /\ \A f \in Foreign : \A i \in 1 .. Len(fs[f]) :
          fs[f][i].to = 0 => w # None /\ fs[f][i].depth \in 1 .. Len(w.args)

\* Deferreds that when() with one argument and then() have not taken yet
Unused(w, ms, e) ==
    e > ms \/ (w # None /\ Len(w.args) = 1 /\ w.returned = 0 /\ e = w.primary + 1)

\* only the user settles ours; readyList and that of when() are not by then()
Own(w, ms, os, st, src) ==
    /\ os \subseteq 2 .. ms
    /\ \A e \in Deferreds :
         /\ Unused(w, ms, e) => src[e] = 0 /\ st[e] = "pending" /\ e \notin os
         /\ e = readyList \/ e \in os \/ (w # None /\ e = w.primary) => src[e] = 0
    /\ w # None => w.primary \notin os

(* readyWait is the number of holds, and one more before the document is    *)
(* ready; the list is settled exactly when neither is left.                 *)
ReadyOK ==
    /\ ~ document.over =>
        /\ readyWait = document.held + (IF document.ready THEN 0 ELSE 1)
        /\ isReady <=> document.ready
        /\ document.due => document.ready
        /\ document.ready /\ document.held = 0 => document.due
        /\ state[readyList] = "resolved" <=> document.due
        /\ state[readyList] # "rejected"

ReadyTypes ==
    /\ readyWait \in Int /\ isReady \in BOOLEAN
    /\ document \in [ready : BOOLEAN, held : Nat, over : BOOLEAN, due : BOOLEAN]

Types ==
    /\ made \in 1 .. MaxMade
    /\ stack \in Seq(Frame)
    /\ functions \in [Foreign -> Seq(Given)]
    /\ maxDepth \in [Deferreds -> Nat]
    /\ first \in [Deferreds -> Seq(Arm \X Value)]
    /\ source \in [Deferreds -> 0 .. MaxMade]
    /\ ReadyTypes

Inv ==
    /\ Types
    /\ World(Heap, stack, functions, maxDepth, first, source)
    /\ WhenOK(whens, state, made)
    /\ WhenFrames(whens, stack, functions)
    /\ Own(whens, made, ours, state, source)
    /\ ReadyOK

-----------------------------------------------------------------------------
(* Settling *)

LEMMA Constants ==
  /\ MaxMade \in Nat \ {0} /\ readyList \in Deferreds
  /\ \A d \in Deferreds : d \in Int /\ d > 0 /\ d <= MaxMade
  /\ Arm = {"resolved", "rejected"} /\ "pending" \notin Arm
BY DeferredAssumption DEF Deferreds, readyList, Arm

LEMMA HeapIs ==
  ASSUME NEW h, Fine(h)
  PROVE  /\ h = [state |-> h.state, value |-> h.value, thens |-> h.thens, timers |-> h.timers]
         /\ h.state \in [Deferreds -> {"pending"} \cup Arm]
         /\ h.value \in [Deferreds -> Value \cup {None}]
         /\ h.thens \in [Deferreds -> Seq(Listener)]
         /\ h.timers \in Seq(TaskSet) /\ Len(h.timers) \in Nat
         /\ \A i \in 1 .. Len(h.timers) : h.timers[i] \in TaskSet /\ h.timers[i].l \in Listener
                                           /\ h.timers[i].arm \in Arm /\ h.timers[i].v \in Value
         /\ \A d \in Deferreds :
              /\ h.thens[d] \in Seq(Listener) /\ Len(h.thens[d]) \in Nat
              /\ h.state[d] \in {"pending"} \cup Arm
              /\ \A i \in 1 .. Len(h.thens[d]) : h.thens[d][i] \in Listener
<1>1. h \in HeapSet
  BY DEF Fine
<1>2. /\ h = [state |-> h.state, value |-> h.value, thens |-> h.thens, timers |-> h.timers]
      /\ h.state \in [Deferreds -> {"pending"} \cup Arm]
      /\ h.value \in [Deferreds -> Value \cup {None}]
      /\ h.thens \in [Deferreds -> Seq(Listener)]
      /\ h.timers \in Seq(TaskSet)
  BY <1>1 DEF HeapSet
<1>3. \A i \in 1 .. Len(h.timers) : h.timers[i] \in TaskSet
  BY <1>2
<1>4. \A t \in TaskSet : t.l \in Listener /\ t.arm \in Arm /\ t.v \in Value
  BY DEF TaskSet
<1>5. Len(h.timers) \in Nat
  BY <1>2
<1>6. \A d \in Deferreds :
        /\ h.thens[d] \in Seq(Listener) /\ Len(h.thens[d]) \in Nat
        /\ h.state[d] \in {"pending"} \cup Arm
        /\ \A i \in 1 .. Len(h.thens[d]) : h.thens[d][i] \in Listener
  BY <1>2
<1>7. QED
  BY <1>2, <1>3, <1>4, <1>5, <1>6

LEMMA Listeners ==
  ASSUME NEW l \in Listener
  PROVE  l.to \in Deferreds /\ l.depth \in Nat /\ l.cb \in SUBSET Arm
BY DEF Listener

\* what SettleOne does to a Deferred that is pending
Settled(h, g, d, s, v) ==
    /\ Fine(g)
    /\ g.state[d] = s /\ g.value[d] = v /\ g.thens[d] = << >>
    /\ \A x \in Deferreds : x # d => /\ g.state[x] = h.state[x] /\ g.value[x] = h.value[x]
                                     /\ g.thens[x] = h.thens[x]
    /\ Len(g.timers) = Len(h.timers) + Len(h.thens[d])
    /\ \A i \in 1 .. Len(h.timers) : g.timers[i] = h.timers[i]
    /\ \A i \in 1 .. Len(h.thens[d]) : g.timers[Len(h.timers) + i] = Task(h.thens[d][i], s, v)

LEMMA SettleSettles ==
  ASSUME NEW h, Fine(h), NEW d \in Deferreds, NEW s \in Arm, NEW v \in Value
  PROVE  IF h.state[d] = "pending" THEN Settled(h, SettleOne(h, d, s, v), d, s, v)
         ELSE SettleOne(h, d, s, v) = h
<1> DEFINE g == SettleOne(h, d, s, v)
           n == Len(h.timers)
           L == h.thens[d]
           T == [i \in 1 .. Len(L) |-> Task(L[i], s, v)]
<1>1. CASE h.state[d] # "pending"
  BY <1>1 DEF SettleOne
<1>2. CASE h.state[d] = "pending"
  <2>1. L \in Seq(Listener) /\ Len(L) \in Nat /\ h.timers \in Seq(TaskSet) /\ n \in Nat
        /\ \A i \in 1 .. Len(L) : L[i] \in Listener
    BY HeapIs
  <2>2. T \in Seq(TaskSet) /\ Len(T) = Len(L)
    <3>1. \A i \in 1 .. Len(L) : Task(L[i], s, v) \in TaskSet
      BY <2>1 DEF Task, TaskSet
    <3>2. T \in [1 .. Len(L) -> TaskSet]
      BY <3>1
    <3> HIDE DEF T, L
    <3>3. T \in Seq(TaskSet)
      BY <2>1, <3>2, SeqDef
    <3>4. DOMAIN T = 1 .. Len(L)
      BY <3>2
    <3>5. QED
      BY <2>1, <3>3, <3>4
  <2>3. \A i \in 1 .. Len(L) : T[i] = Task(L[i], s, v)
    OBVIOUS
  <2>4. /\ g.state = [h.state EXCEPT ![d] = s]
        /\ g.value = [h.value EXCEPT ![d] = v]
        /\ g.thens = [h.thens EXCEPT ![d] = << >>]
        /\ g.timers = h.timers \o T
        /\ g = [state |-> g.state, value |-> g.value, thens |-> g.thens, timers |-> g.timers]
    BY <1>2 DEF SettleOne
  <2> HIDE DEF T, L, g
  <2>5. /\ g.timers \in Seq(TaskSet) /\ Len(g.timers) = n + Len(L)
        /\ \A i \in 1 .. n : g.timers[i] = h.timers[i]
        /\ \A i \in 1 .. Len(L) : g.timers[n + i] = T[i]
    BY <2>1, <2>2, <2>4
  <2>6. << >> \in Seq(Listener)
    OBVIOUS
  <2>7. /\ g.state \in [Deferreds -> {"pending"} \cup Arm]
        /\ g.value \in [Deferreds -> Value \cup {None}]
        /\ g.thens \in [Deferreds -> Seq(Listener)]
        /\ g.state[d] = s /\ g.value[d] = v /\ g.thens[d] = << >>
        /\ \A x \in Deferreds : x # d => /\ g.state[x] = h.state[x] /\ g.value[x] = h.value[x]
                                         /\ g.thens[x] = h.thens[x]
    BY <2>4, <2>6, HeapIs
  <2>8. g \in HeapSet
    BY <2>4, <2>5, <2>7 DEF HeapSet
  <2>9. Fine(g)
    BY <2>7, <2>8, Constants DEF Fine
  <2>10. Settled(h, g, d, s, v)
    BY <2>3, <2>5, <2>7, <2>9 DEF Settled, L
  <2>11. QED
    BY <1>2, <2>10 DEF g
<1>3. QED
  BY <1>1, <1>2

\* g is h some steps later: what is settled stays so
Later(h, g) ==
    \A d \in Deferreds : h.state[d] # "pending" => g.state[d] = h.state[d] /\ g.value[d] = h.value[d]

LEMMA SettledLater ==
  ASSUME NEW h, NEW g, NEW d \in Deferreds, NEW s, NEW v, h.state[d] = "pending",
         Settled(h, g, d, s, v)
  PROVE  Later(h, g)
BY DEF Later, Settled

LEMMA SettledTokens ==
  ASSUME NEW h, NEW st, NEW fs, NEW md, NEW fi, NEW src, Tokens(h, st, fs, md, fi, src),
         NEW d \in Deferreds, NEW s \in Arm, NEW v \in Value, h.state[d] = "pending",
         NEW g, Settled(h, g, d, s, v)
  PROVE  Tokens(g, st, fs, md, fi, src)
<1> DEFINE n == Len(h.timers)
           m == Len(h.thens[d])
<1>1. Fine(h) /\ Fine(g) /\ n \in Nat /\ m \in Nat
  BY HeapIs DEF Tokens, Settled
<1>2. ThensOK(g, md, fi, src)
  <2>1. ASSUME NEW x \in Deferreds, NEW i \in 1 .. Len(g.thens[x])
        PROVE  g.thens[x] = h.thens[x]
    <3>1. CASE x = d
      BY <2>1, <3>1 DEF Settled
    <3>2. CASE x # d
      BY <3>2 DEF Settled
    <3>3. QED
      BY <3>1, <3>2
  <2>2. ASSUME NEW x \in Deferreds, NEW i \in 1 .. Len(g.thens[x])
        PROVE  LET l == g.thens[x][i]
               IN /\ ListenerOK(l, md, src)
                  /\ PutOff(fi, l.to, l.depth) =>
                       fi[l.to][l.depth][2] = [k |-> "deferred", id |-> x]
    <3>1. g.thens[x] = h.thens[x]
      BY <2>1
    <3>2. QED
      BY <3>1 DEF Tokens, ThensOK
  <2>3. QED
    BY <2>2 DEF ThensOK
<1>3. \A i \in 1 .. Len(g.timers) : i \in 1 .. n \/ (i - n \in 1 .. m /\ i = n + (i - n))
  <2>1. Len(g.timers) = n + m
    BY DEF Settled
  <2> HIDE DEF n, m
  <2>2. QED
    BY <1>1, <2>1
<1>4. TimersOK(g, md, fi, src)
  <2>1. ASSUME NEW i \in 1 .. n
        PROVE  LET l == g.timers[i].l
               IN /\ ListenerOK(l, md, src)
                  /\ PutOff(fi, l.to, l.depth) =>
                       LET said == fi[l.to][l.depth][2]
                       IN /\ said.k = "deferred" /\ said.id \in Deferreds
                          /\ g.state[said.id] = g.timers[i].arm /\ g.value[said.id] = g.timers[i].v
    <3> DEFINE l == h.timers[i].l
               said == fi[l.to][l.depth][2]
    <3>1. g.timers[i] = h.timers[i]
      BY DEF Settled
    <3>2. /\ ListenerOK(l, md, src)
          /\ PutOff(fi, l.to, l.depth) =>
               /\ said.k = "deferred" /\ said.id \in Deferreds
               /\ h.state[said.id] = h.timers[i].arm /\ h.value[said.id] = h.timers[i].v
      BY DEF Tokens, TimersOK
    <3>3. h.timers[i].arm # "pending"
      BY <1>1, HeapIs, Constants
    <3>4. PutOff(fi, l.to, l.depth) => said.id # d
      BY <3>2, <3>3
    <3> HIDE DEF said
    <3>5. PutOff(fi, l.to, l.depth) =>
            g.state[said.id] = h.state[said.id] /\ g.value[said.id] = h.value[said.id]
      BY <3>2, <3>4 DEF Settled
    <3>6. QED
      BY <3>1, <3>2, <3>5 DEF said
  <2>2. ASSUME NEW i \in 1 .. m
        PROVE  LET l == g.timers[n + i].l
               IN /\ ListenerOK(l, md, src)
                  /\ PutOff(fi, l.to, l.depth) =>
                       LET said == fi[l.to][l.depth][2]
                       IN /\ said.k = "deferred" /\ said.id \in Deferreds
                          /\ g.state[said.id] = g.timers[n + i].arm
                          /\ g.value[said.id] = g.timers[n + i].v
    <3> DEFINE l == h.thens[d][i]
    <3>1. g.timers[n + i] = [l |-> l, arm |-> s, v |-> v]
      BY DEF Settled, Task
    <3>2. g.timers[n + i].l = l /\ g.timers[n + i].arm = s /\ g.timers[n + i].v = v
      BY <3>1
    <3>3. /\ ListenerOK(l, md, src)
          /\ PutOff(fi, l.to, l.depth) => fi[l.to][l.depth][2] = [k |-> "deferred", id |-> d]
      BY DEF Tokens, ThensOK
    <3>4. g.state[d] = s /\ g.value[d] = v
      BY DEF Settled
    <3> HIDE DEF l
    <3>5. QED
      BY <3>2, <3>3, <3>4
  <2>3. QED
    BY <1>3, <2>1, <2>2 DEF TimersOK
<1>5. ZeroOK(g, st, md, fi)
  <2> DEFINE A(a, i) == IF a = 0 /\ i > n THEN d ELSE a
             I(a, i) == IF a = 0 /\ i > n THEN i - n ELSE i
  <2>1. ASSUME NEW e \in Deferreds, NEW a \in -1 .. MaxMade, NEW i \in Nat, Zero(g, st, a, i, e)
        PROVE  /\ Zero(h, st, A(a, i), I(a, i), e)
               /\ A(a, i) \in -1 .. MaxMade /\ I(a, i) \in Nat
               /\ a = d => FALSE
    <3>1. CASE a \in Deferreds
      <4>1. a # 0 /\ a # -1
        BY <3>1, Constants
      <4>2. i \in 1 .. Len(g.thens[a]) /\ g.thens[a][i].to = e /\ g.thens[a][i].depth = 0
        BY <2>1, <3>1, <4>1 DEF Zero
      <4>3. a # d
        BY <4>2 DEF Settled
      <4>4. g.thens[a] = h.thens[a]
        BY <3>1, <4>3 DEF Settled
      <4>5. QED
        BY <2>1, <3>1, <4>1, <4>2, <4>3, <4>4 DEF Zero
    <3>2. CASE a = 0 /\ i <= n
      <4>1. i \in 1 .. n
        BY <2>1, <3>2, Constants DEF Zero
      <4>2. g.timers[i] = h.timers[i]
        BY <4>1 DEF Settled
      <4>3. QED
        BY <1>1, <2>1, <3>2, <4>1, <4>2, Constants DEF Zero
    <3>3. CASE a = 0 /\ i > n
      <4>0. i \in 1 .. Len(g.timers)
        BY <2>1, <3>3, Constants DEF Zero
      <4>1. i - n \in 1 .. m /\ i = n + (i - n)
        <5>1. i \in 1 .. n \/ (i - n \in 1 .. m /\ i = n + (i - n))
          BY <1>3, <4>0
        <5>2. i \notin 1 .. n
          BY <1>1, <3>3
        <5>3. QED
          BY <5>1, <5>2
      <4>2. g.timers[i].l = h.thens[d][i - n]
        <5>1. PICK j \in 1 .. m : j = i - n /\ i = n + j
          BY <4>1
        <5>2. g.timers[n + j] = Task(h.thens[d][j], s, v)
          BY DEF Settled
        <5>3. g.timers[i] = Task(h.thens[d][j], s, v)
          BY <5>1, <5>2
        <5>4. g.timers[i].l = h.thens[d][j]
          BY <5>3 DEF Task
        <5>5. QED
          BY <5>1, <5>4
      <4>3. d \in -1 .. MaxMade /\ d # 0
        BY Constants
      <4>4. g.timers[i].l.to = e /\ g.timers[i].l.depth = 0
        BY <2>1, <3>3, Constants DEF Zero
      <4>5. Zero(h, st, d, i - n, e)
        BY <4>1, <4>2, <4>4 DEF Zero
      <4>6. QED
        BY <3>3, <4>1, <4>3, <4>5
    <3>4. CASE a = -1
      BY <2>1, <3>4, Constants DEF Zero
    <3>5. QED
      BY <1>1, <2>1, <3>1, <3>2, <3>3, <3>4 DEF Zero
  <2>2. ASSUME NEW e \in Deferreds, NEW a \in -1 .. MaxMade, NEW i \in Nat, Zero(g, st, a, i, e)
        PROVE  /\ fi[e] = << >> /\ md[e] = 0
               /\ \A b \in -1 .. MaxMade, j \in Nat : Zero(g, st, b, j, e) => a = b /\ i = j
    <3>1. Zero(h, st, A(a, i), I(a, i), e) /\ A(a, i) \in -1 .. MaxMade /\ I(a, i) \in Nat /\ a # d
      BY <2>1, <2>2
    <3>2. fi[e] = << >> /\ md[e] = 0
      BY <3>1 DEF Tokens, ZeroOK
    <3>3. ASSUME NEW b \in -1 .. MaxMade, NEW j \in Nat, Zero(g, st, b, j, e)
          PROVE  a = b /\ i = j
      <4>1. Zero(h, st, A(b, j), I(b, j), e) /\ A(b, j) \in -1 .. MaxMade /\ I(b, j) \in Nat /\ b # d
        BY <2>1, <3>3
      <4>2. A(a, i) = A(b, j) /\ I(a, i) = I(b, j)
        <5> HIDE DEF A, I
        <5>1. QED
          BY <3>1, <4>1 DEF Tokens, ZeroOK
      <4>3. QED
        BY <1>1, <3>1, <4>1, <4>2
    <3>4. QED
      BY <3>2, <3>3
  <2>3. QED
    BY <2>2 DEF ZeroOK
<1>6. QED
  BY <1>1, <1>2, <1>4, <1>5 DEF Tokens

\* what the Deferreds have been told is well-formed
FirstOK(fi) == fi \in [Deferreds -> Seq(Arm \X Value)]

LEMMA Firsts ==
  ASSUME NEW fi, FirstOK(fi), NEW e \in Deferreds
  PROVE  /\ fi[e] \in Seq(Arm \X Value) /\ Len(fi[e]) \in Nat
         /\ \A i \in 1 .. Len(fi[e]) :
              /\ fi[e][i] \in Arm \X Value
              /\ fi[e][i][1] \in Arm /\ fi[e][i][2] \in Value
              /\ fi[e][i][2].k = "deferred" => fi[e][i][2].id \in Deferreds
<1>1. fi[e] \in Seq(Arm \X Value)
  BY DEF FirstOK
<1>2. \A i \in 1 .. Len(fi[e]) : fi[e][i] \in Arm \X Value
  BY <1>1
<1>3. \A v \in Value : v.k = "deferred" => v.id \in Deferreds
  BY DEF Value
<1>4. QED
  BY <1>1, <1>2, <1>3

(* An outcome stays true while others are settled.                         *)
LEMMA OutcomeLater ==
  ASSUME NEW h, NEW g, Later(h, g), NEW md, NEW fi, FirstOK(fi), NEW e \in Deferreds,
         g.state[e] = h.state[e], g.value[e] = h.value[e], OutcomeOK(h, md, fi, e)
  PROVE  OutcomeOK(g, md, fi, e)
<1>1. ASSUME NEW i \in 1 .. Len(fi[e]) - 1, Defers(e, fi[e][i]), fi[e][i][2].k = "deferred"
      PROVE  fi[e][i + 1] = << g.state[fi[e][i][2].id], g.value[fi[e][i][2].id] >>
  <2>1. i \in 1 .. Len(fi[e]) /\ i + 1 \in 1 .. Len(fi[e])
    BY Firsts
  <2>2. fi[e][i + 1][1] # "pending" /\ fi[e][i][2].id \in Deferreds
    BY <1>1, <2>1, Firsts, Constants
  <2> DEFINE c == fi[e][i][2].id
  <2>3. fi[e][i + 1] = << h.state[c], h.value[c] >>
    BY <1>1 DEF OutcomeOK
  <2>4. h.state[c] # "pending"
    BY <2>2, <2>3
  <2> HIDE DEF c
  <2>5. c \in Deferreds
    BY <2>2 DEF c
  <2>6. g.state[c] = h.state[c] /\ g.value[c] = h.value[c]
    BY <2>4, <2>5 DEF Later
  <2>7. fi[e][i + 1] = << g.state[c], g.value[c] >>
    BY <2>3, <2>6
  <2>8. QED
    BY <2>7 DEF c
<1>2. QED
  BY <1>1 DEF OutcomeOK

-----------------------------------------------------------------------------
(* when() *)

\* the sets of arguments of a call of when()
LEMMA SmallSets ==
  /\ Cardinality({}) = 0 /\ Cardinality({1}) = 1 /\ Cardinality({2}) = 1
  /\ Cardinality({1, 2}) = 2
  /\ 1 .. 1 = {1} /\ 1 .. 2 = {1, 2}
  /\ \A S \in SUBSET (1 .. 2) : S = {} \/ S = {1} \/ S = {2} \/ S = {1, 2}
<1>1. Cardinality({}) = 0 /\ IsFiniteSet({})
  BY FS_EmptySet
<1>2. IsFiniteSet({1}) /\ Cardinality({1}) = 1 /\ Cardinality({2}) = 1
  BY FS_Singleton
<1>3. Cardinality({1} \cup {2}) = 2
  BY <1>2, FS_AddElement
<1>4. {1} \cup {2} = {1, 2}
  OBVIOUS
<1>5. 1 .. 1 = {1} /\ 1 .. 2 = {1, 2}
  OBVIOUS
<1>6. ASSUME NEW S \in SUBSET (1 .. 2)
      PROVE  S = {} \/ S = {1} \/ S = {2} \/ S = {1, 2}
  <2>1. CASE 1 \in S /\ 2 \in S
    BY <1>5, <2>1
  <2>2. CASE 1 \in S /\ 2 \notin S
    BY <1>5, <2>2
  <2>3. CASE 1 \notin S /\ 2 \in S
    BY <1>5, <2>3
  <2>4. CASE 1 \notin S /\ 2 \notin S
    BY <1>5, <2>4
  <2>5. QED
    BY <2>1, <2>2, <2>3, <2>4
<1>7. QED
  BY <1>1, <1>2, <1>3, <1>4, <1>5, <1>6

LEMMA SmallCards ==
  ASSUME NEW S \in SUBSET (1 .. 2)
  PROVE  Cardinality(S) \in 0 .. 2
<1>1. S = {} \/ S = {1} \/ S = {2} \/ S = {1, 2}
  BY SmallSets
<1>2. Cardinality(S) = 0 \/ Cardinality(S) = 1 \/ Cardinality(S) = 2
  <2>1. CASE S = {}
    BY <2>1, SmallSets, Zenon
  <2>2. CASE S = {1}
    BY <2>2, SmallSets, Zenon
  <2>3. CASE S = {2}
    BY <2>3, SmallSets, Zenon
  <2>4. CASE S = {1, 2}
    BY <2>4, SmallSets, Zenon
  <2>5. QED
    BY <1>1, <2>1, <2>2, <2>3, <2>4
<1>3. QED
  BY <1>2

LEMMA JoinedCards ==
  ASSUME NEW A \in SUBSET (1 .. 2), NEW B \in SUBSET (1 .. 2), A \cap B = {}
  PROVE  Cardinality(A \cup B) = Cardinality(A) + Cardinality(B)
<1>1. IsFiniteSet(A) /\ IsFiniteSet(B)
  <2>1. ASSUME NEW n \in Int PROVE IsFiniteSet(1 .. n)
    BY FS_Interval
  <2>2. 2 \in Int
    OBVIOUS
  <2>3. IsFiniteSet(1 .. 2)
    BY <2>1, <2>2, Zenon
  <2>4. QED
    BY <2>3, FS_Subset
<1>2. Cardinality(A \cup B) = Cardinality(A) + Cardinality(B) - Cardinality(A \cap B)
  BY <1>1, FS_Union
<1>3. Cardinality(A \cap B) = 0
  BY SmallSets, Zenon
<1>4. QED
  BY <1>2, <1>3, SmallCards

\* all arguments have come when there are as many
LEMMA FullCards ==
  ASSUME NEW n \in 1 .. 2, NEW S \in SUBSET (1 .. n)
  PROVE  /\ S \in SUBSET (1 .. 2) /\ Cardinality(S) \in 0 .. n
         /\ Cardinality(S) = n <=> S = 1 .. n
         /\ Cardinality(S) = 0 <=> S = {}
<1>1. 1 .. n \in SUBSET (1 .. 2) /\ IsFiniteSet(1 .. n) /\ Cardinality(1 .. n) = n
  <2>1. IsFiniteSet(1 .. n) /\ Cardinality(1 .. n) = n
    BY FS_Interval
  <2>2. QED
    BY <2>1
<1>2. /\ IsFiniteSet(S) /\ Cardinality(S) <= n
      /\ Cardinality(S) = n => S = 1 .. n
  BY <1>1, FS_Subset
<1>3. S \in SUBSET (1 .. 2)
  BY <1>1
<1>4. Cardinality(S) = 0 <=> S = {}
  BY <1>2, FS_EmptySet
<1>5. QED
  BY <1>1, <1>2, <1>3, <1>4, SmallCards

\* it is still the same call of when()
SameCall(w, u) ==
    /\ w = None <=> u = None
    /\ w # None => u.primary = w.primary /\ u.args = w.args /\ u.returned = w.returned

\* u is w when the arguments I have come
CountedTo(w, u, I, arm) ==
    /\ u \in When
    /\ u.primary = w.primary /\ u.args = w.args /\ u.waits = w.waits /\ u.returned = w.returned
    /\ u.remaining = IF arm = "resolved" THEN w.remaining - Cardinality(I) ELSE w.remaining
    /\ u.said = w.said \cup I
    /\ u.failed <=> w.failed \/ (I # {} /\ arm = "rejected")
    /\ u.again <=> w.again \/ I \cap w.said # {}

LEMMA CountedIs ==
  ASSUME NEW w \in When, Len(w.args) \in 1 .. 2, NEW I \in SUBSET (1 .. Len(w.args)),
         NEW arm \in Arm
  PROVE  CountedTo(w, Counted(w, I, arm), I, arm)
<1> DEFINE n == Len(w.args)
           r == IF arm = "resolved" THEN w.remaining - Cardinality(I) ELSE w.remaining
           f == w.failed \/ (I # {} /\ arm = "rejected")
           a == w.again \/ I \cap w.said # {}
           u1 == [w EXCEPT !.remaining = r]
           u2 == [u1 EXCEPT !.said = w.said \cup I]
           u3 == [u2 EXCEPT !.failed = f]
           u4 == [u3 EXCEPT !.again = a]
<1>1. I \in SUBSET (1 .. 2)
  <2>1. n = 1 \/ n = 2
    OBVIOUS
  <2> HIDE DEF n
  <2>2. 1 .. n \subseteq 1 .. 2
    BY <2>1
  <2>3. QED
    BY <2>2 DEF n
<1>2. Cardinality(I) \in 0 .. 2
  BY <1>1, SmallCards
<1>3. r \in Int
  BY <1>2 DEF When
<1>4. w.said \cup I \in SUBSET (1 .. 2)
  BY <1>1 DEF When
<1>5. f \in BOOLEAN /\ a \in BOOLEAN
  OBVIOUS
<1>6. Counted(w, I, arm) = u4
  BY DEF Counted, When
<1> HIDE DEF r, f, a
<1>7. u1 \in When /\ u1.remaining = r /\ u1.primary = w.primary /\ u1.args = w.args
      /\ u1.waits = w.waits /\ u1.returned = w.returned
  BY <1>3 DEF When
<1>8. u2 \in When /\ u2.remaining = r /\ u2.primary = w.primary /\ u2.args = w.args
      /\ u2.waits = w.waits /\ u2.returned = w.returned /\ u2.said = w.said \cup I
  <2> HIDE DEF u1
  <2>1. QED
    BY <1>4, <1>7 DEF When
<1>9. u3 \in When /\ u3.remaining = r /\ u3.primary = w.primary /\ u3.args = w.args
      /\ u3.waits = w.waits /\ u3.returned = w.returned /\ u3.said = w.said \cup I
      /\ u3.failed = f
  <2> HIDE DEF u2
  <2>1. QED
    BY <1>5, <1>8 DEF When
<1>10. u4 \in When /\ u4.remaining = r /\ u4.primary = w.primary /\ u4.args = w.args
      /\ u4.waits = w.waits /\ u4.returned = w.returned /\ u4.said = w.said \cup I
      /\ u4.failed = f /\ u4.again = a
  <2> HIDE DEF u3
  <2>1. QED
    BY <1>5, <1>9 DEF When
<1>11. CountedTo(w, u4, I, arm)
  <2> HIDE DEF u4
  <2>1. QED
    BY <1>10 DEF r, f, a, CountedTo
<1>12. QED
  BY <1>6, <1>11

LEMMA UpdateWhen ==
  ASSUME NEW h, Fine(h), NEW w, w # None, NEW ms, WhenOK(w, h.state, ms),
         NEW I \in SUBSET (1 .. Len(w.args)), NEW arm \in Arm, NEW v \in Value
  PROVE  /\ \/ Update(h, w, I, arm, v) = h
            \/ /\ h.state[w.primary] = "pending"
               /\ \E x \in Value : Settled(h, Update(h, w, I, arm, v), w.primary, arm, x)
         /\ WhenOK(Counted(w, I, arm), Update(h, w, I, arm, v).state, ms)
         /\ SameCall(w, Counted(w, I, arm))
<1> DEFINE n == Len(w.args)
           p == w.primary
           u == Counted(w, I, arm)
           g == Update(h, w, I, arm, v)
<1>1. /\ w \in When /\ Len(w.args) \in 1 .. 2
      /\ n \in 1 .. 2 /\ p \in Deferreds /\ w.failed \in BOOLEAN /\ w.again \in BOOLEAN
      /\ w.said \in SUBSET (1 .. n) /\ w.remaining \in Int
  BY DEF WhenOK, When
<1>2. CountedTo(w, u, I, arm)
  BY <1>1, CountedIs
<1>3. SameCall(w, u)
  BY <1>2, NoneAssumption DEF SameCall, CountedTo
<1>4. PlainValue(Outcomes) \in Value
  BY DEF PlainValue, Value
\* the primary Deferred is settled, or nothing happens
<1>5. g = h \/ \E x \in Value : g = SettleOne(h, p, arm, x)
  BY <1>4 DEF Update, Arm
<1>6. \/ g = h
      \/ h.state[p] = "pending" /\ \E x \in Value : Settled(h, g, p, arm, x)
  <2>1. ASSUME NEW x \in Value, g = SettleOne(h, p, arm, x)
        PROVE  g = h \/ (h.state[p] = "pending" /\ Settled(h, g, p, arm, x))
    BY <1>1, <2>1, SettleSettles
  <2>2. QED
    BY <1>5, <2>1
\* which of the two
<1>7. I = {} => g = h
  BY DEF Update
<1>8. I # {} /\ arm = "rejected" => g = SettleOne(h, p, "rejected", v)
  BY DEF Update
<1>9. I # {} /\ arm = "resolved" /\ n = 1 => g = SettleOne(h, p, "resolved", v)
  BY DEF Update
<1>10. I # {} /\ arm = "resolved" /\ n # 1 =>
         IF Reaches(w.remaining, Cardinality(I))
         THEN g = SettleOne(h, p, "resolved", PlainValue(Outcomes)) ELSE g = h
  BY DEF Update
<1>11. h.state[p] = "pending" => \A x \in Value, s \in Arm : SettleOne(h, p, s, x).state[p] = s
  <2>1. ASSUME h.state[p] = "pending", NEW x \in Value, NEW s \in Arm
        PROVE  SettleOne(h, p, s, x).state[p] = s
    <3> HIDE DEF n, p, u, g
    <3>1. Settled(h, SettleOne(h, p, s, x), p, s, x)
      BY <1>1, <2>1, SettleSettles
    <3>2. QED
      BY <3>1 DEF Settled
  <2>2. QED
    BY <2>1
<1>12. h.state[p] # "pending" => \A x \in Value, s \in Arm : SettleOne(h, p, s, x) = h
  BY <1>1, SettleSettles
<1>13. ASSUME ~ u.again
       PROVE  /\ ~ u.failed => u.remaining = n - Cardinality(u.said)
              /\ g.state[p] = "resolved" <=> u.said = 1 .. n /\ ~ u.failed
              /\ g.state[p] = "rejected" <=> u.failed
  <2>1. ~ w.again /\ I \cap w.said = {}
    BY <1>2, <1>13 DEF CountedTo
  <2>2. /\ ~ w.failed => w.remaining = n - Cardinality(w.said)
        /\ h.state[p] = "resolved" <=> w.said = 1 .. n /\ ~ w.failed
        /\ h.state[p] = "rejected" <=> w.failed
    BY <2>1 DEF WhenOK
  <2>3. h.state[p] \in {"pending", "resolved", "rejected"}
    BY <1>1, HeapIs, Constants
  <2>4. /\ Cardinality(u.said) = Cardinality(w.said) + Cardinality(I)
        /\ Cardinality(w.said) \in 0 .. n /\ Cardinality(I) \in 0 .. n
        /\ Cardinality(I) = 0 <=> I = {}
        /\ Cardinality(w.said) = n <=> w.said = 1 .. n
        /\ Cardinality(u.said) \in 0 .. n /\ (Cardinality(u.said) = n <=> u.said = 1 .. n)
    <3>1. u.said = w.said \cup I /\ u.said \in SUBSET (1 .. n)
      BY <1>1, <1>2 DEF CountedTo
    <3>2. I \in SUBSET (1 .. 2) /\ w.said \in SUBSET (1 .. 2)
      BY <1>1, FullCards
    <3> HIDE DEF n
    <3>3. Cardinality(u.said) = Cardinality(w.said) + Cardinality(I)
      BY <2>1, <3>1, <3>2, JoinedCards
    <3>4. I \in SUBSET (1 .. n)
      BY DEF n
    <3>5. QED
      BY <1>1, <3>1, <3>3, <3>4, FullCards
  <2>5. /\ u.remaining = IF arm = "resolved" THEN w.remaining - Cardinality(I) ELSE w.remaining
        /\ u.failed <=> w.failed \/ (I # {} /\ arm = "rejected")
    BY <1>2 DEF CountedTo
  <2>6. ~ u.failed => u.remaining = n - Cardinality(u.said)
    <3>1. ASSUME ~ u.failed PROVE ~ w.failed /\ (arm = "rejected" => Cardinality(I) = 0)
      BY <2>4, <2>5, <3>1
    <3>2. arm = "resolved" \/ arm = "rejected"
      BY DEF Arm
    <3> HIDE DEF n, u
    <3>3. QED
      BY <1>1, <2>2, <2>4, <2>5, <3>1, <3>2
  <2>7. CASE w.failed
    <3>1. u.failed /\ h.state[p] = "rejected"
      BY <2>2, <2>5, <2>7
    <3>2. g = h
      BY <1>5, <1>12, <3>1
    <3>3. QED
      BY <2>6, <3>1, <3>2
  <2>8. CASE ~ w.failed /\ I = {}
    <3>1. g = h /\ ~ u.failed
      BY <1>7, <2>5, <2>8
    <3>2. u.said = w.said
      BY <1>2, <2>8 DEF CountedTo
    <3>3. QED
      BY <2>2, <2>6, <2>8, <3>1, <3>2
  <2>9. CASE ~ w.failed /\ I # {}
    <3>1. h.state[p] = "pending"
      <4>1. Cardinality(w.said) # n
        BY <1>1, <2>4, <2>9
      <4>2. QED
        BY <2>2, <2>3, <2>4, <2>9, <4>1
    <3>2. CASE arm = "rejected"
      <4>1. g.state[p] = "rejected"
        BY <1>8, <1>11, <2>9, <3>1, <3>2
      <4>2. u.failed
        BY <2>5, <2>9, <3>2
      <4>3. QED
        BY <2>6, <4>1, <4>2
    <3>3. CASE arm = "resolved" /\ n = 1
      <4>1. g.state[p] = "resolved"
        BY <1>9, <1>11, <2>9, <3>1, <3>3
      <4>2. ~ u.failed
        BY <2>5, <2>9, <3>3
      <4>3. Cardinality(u.said) = n
        <5>1. Cardinality(I) # 0
          BY <2>4, <2>9
        <5> HIDE DEF n, u
        <5>2. QED
          BY <2>4, <3>3, <5>1
      <4>4. QED
        BY <2>4, <2>6, <4>1, <4>2, <4>3
    <3>4. CASE arm = "resolved" /\ n # 1
      <4>1. ~ u.failed
        BY <2>5, <2>9, <3>4
      <4>2. Reaches(w.remaining, Cardinality(I)) <=> Cardinality(u.said) = n
        <5> DEFINE c == Cardinality(I)
                   k == Cardinality(w.said)
        <5>1. w.remaining = n - k
          BY <2>2, <2>9
        <5>2. c \in 0 .. n /\ k \in 0 .. n /\ c # 0 /\ Cardinality(u.said) = k + c
          BY <2>4, <2>9
        <5>3. k + c \in 0 .. n
          BY <2>4, <5>2
        <5> HIDE DEF n, u, c, k
        <5>4. Reaches(n - k, c) <=> k + c = n
          BY <1>1, <5>2, <5>3 DEF Reaches
        <5>5. QED
          BY <5>1, <5>2, <5>4 DEF c
      <4>3. CASE Cardinality(u.said) = n
        <5>1. g.state[p] = "resolved"
          BY <1>4, <1>10, <1>11, <2>9, <3>1, <3>4, <4>2, <4>3
        <5>2. QED
          BY <2>4, <2>6, <4>1, <4>3, <5>1
      <4>4. CASE Cardinality(u.said) # n
        <5>1. g = h
          BY <1>10, <2>9, <3>4, <4>2, <4>4
        <5>2. QED
          BY <2>4, <2>6, <3>1, <4>1, <4>4, <5>1
      <4>5. QED
        BY <4>3, <4>4
    <3>5. QED
      BY <3>2, <3>3, <3>4 DEF Arm
  <2>10. QED
    BY <2>7, <2>8, <2>9
<1>14. /\ u # None /\ u \in When /\ u.args = w.args /\ u.primary = p /\ u.waits = w.waits
       /\ u.said \subseteq 1 .. n
  BY <1>1, <1>2, NoneAssumption DEF CountedTo
<1>15. WhenOK(u, g.state, ms)
  <2> HIDE DEF u, g
  <2>1. QED
    BY <1>13, <1>14 DEF WhenOK
<1>16. QED
  BY <1>3, <1>6, <1>15

-----------------------------------------------------------------------------
(* Settle, with what when() makes of it *)

\* the arguments of w for which d is awaited
Freed(w, d) == {i \in 1 .. 2 : << d, i >> \in w.waits}

\* h and w become g and u when d is settled
SettleTo(h, w, d, s, v, g, u) ==
    IF w = None \/ h.state[d] # "pending"
    THEN g = SettleOne(h, d, s, v) /\ u = w
    ELSE /\ g = Update(SettleOne(h, d, s, v), w, Freed(w, d), s, v)
         /\ u = Counted(w, Freed(w, d), s)

\* what comes of it
SettleGood(h, w, d, s, v, g, u, ms) ==
    /\ Later(h, g)
    /\ h.state[d] = "pending" => g.state[d] = s /\ g.value[d] = v
    /\ h.state[d] # "pending" => g = h /\ u = w
    /\ \A x \in Deferreds :
         x # d /\ (w # None => x # w.primary) =>
            g.state[x] = h.state[x] /\ g.value[x] = h.value[x]
    /\ SameCall(w, u)
    /\ WhenOK(u, g.state, ms)

LEMMA SameItself == ASSUME NEW w PROVE SameCall(w, w)
BY DEF SameCall

LEMMA SettleToGood ==
  ASSUME NEW h, NEW st, NEW fs, NEW md, NEW fi, NEW src, Tokens(h, st, fs, md, fi, src),
         NEW w, NEW ms, WhenOK(w, h.state, ms),
         NEW d \in Deferreds, NEW s \in Arm, NEW v \in Value, w # None => d # w.primary,
         NEW g, NEW u, SettleTo(h, w, d, s, v, g, u)
  PROVE  SettleGood(h, w, d, s, v, g, u, ms) /\ Tokens(g, st, fs, md, fi, src)
<1> DEFINE h1 == SettleOne(h, d, s, v)
<1>1. Fine(h)
  BY DEF Tokens
<1>2. CASE h.state[d] # "pending"
  <2>1. g = h /\ u = w
    BY <1>1, <1>2, SettleSettles DEF SettleTo
  <2>2. QED
    BY <1>2, <2>1, SameItself DEF SettleGood, Later
<1>3. CASE h.state[d] = "pending"
  <2>1. Settled(h, h1, d, s, v)
    BY <1>1, <1>3, SettleSettles
  <2> HIDE DEF h1
  <2>2. Tokens(h1, st, fs, md, fi, src) /\ Fine(h1)
    <3>1. Tokens(h1, st, fs, md, fi, src)
      BY <1>3, <2>1, SettledTokens
    <3>2. QED
      BY <3>1 DEF Tokens
  <2>3. Later(h, h1)
    BY <1>3, <2>1, SettledLater
  <2>4. WhenOK(w, h1.state, ms)
    <3>1. w # None => w.primary \in Deferreds
      BY DEF WhenOK, When
    <3>2. w # None => h1.state[w.primary] = h.state[w.primary]
      BY <2>1, <3>1 DEF Settled
    <3>3. QED
      BY <3>2 DEF WhenOK
  <2>5. CASE w = None
    <3>1. g = h1 /\ u = w
      BY <2>5 DEF SettleTo, h1
    <3>2. QED
      BY <1>3, <2>1, <2>2, <2>3, <2>4, <2>5, <3>1, SameItself DEF SettleGood, Settled
  <2>6. CASE w # None
    <3> DEFINE I == Freed(w, d)
    <3>1. g = Update(h1, w, I, s, v) /\ u = Counted(w, I, s)
      BY <1>3, <2>6 DEF SettleTo, h1
    <3>2. I \in SUBSET (1 .. Len(w.args))
      <4>1. ASSUME NEW i \in I PROVE i \in 1 .. Len(w.args)
        <5>1. << d, i >> \in w.waits
          BY <4>1 DEF Freed
        <5>2. << d, i >>[2] \in 1 .. Len(w.args)
          BY <2>6, <5>1 DEF WhenOK
        <5>3. QED
          BY <5>2
      <4>2. QED
        BY <4>1
    <3> HIDE DEF I
    <3>3. /\ g = h1 \/ /\ h1.state[w.primary] = "pending"
                       /\ \E x \in Value : Settled(h1, g, w.primary, s, x)
          /\ WhenOK(u, g.state, ms) /\ SameCall(w, u)
      BY <2>2, <2>4, <2>6, <3>1, <3>2, UpdateWhen
    <3>4. CASE g = h1
      BY <1>3, <2>1, <2>2, <2>3, <2>6, <3>3, <3>4 DEF SettleGood, Settled
    <3>5. ASSUME NEW x \in Value, Settled(h1, g, w.primary, s, x),
                 h1.state[w.primary] = "pending"
          PROVE  SettleGood(h, w, d, s, v, g, u, ms) /\ Tokens(g, st, fs, md, fi, src)
      <4>1. w.primary \in Deferreds
        BY <2>6 DEF WhenOK, When
      <4>2. Tokens(g, st, fs, md, fi, src)
        BY <2>2, <3>5, <4>1, SettledTokens
      <4>3. Later(h, g)
        <5>1. Later(h1, g)
          BY <3>5, <4>1, SettledLater
        <5>2. QED
          BY <2>3, <5>1 DEF Later
      <4>4. \A y \in Deferreds : y # w.primary =>
              g.state[y] = h1.state[y] /\ g.value[y] = h1.value[y]
        BY <3>5 DEF Settled
      <4>5. /\ h1.state[d] = s /\ h1.value[d] = v
            /\ \A y \in Deferreds : y # d =>
                 h1.state[y] = h.state[y] /\ h1.value[y] = h.value[y]
        BY <2>1 DEF Settled
      <4>6. QED
        BY <1>3, <2>6, <3>3, <4>2, <4>3, <4>4, <4>5 DEF SettleGood
    <3>6. QED
      BY <3>3, <3>4, <3>5
  <2>7. QED
    BY <2>5, <2>6
<1>4. QED
  BY <1>2, <1>3

-----------------------------------------------------------------------------
(* Listen *)

\* no call of process for the handler of e is to come
NoZero(h, st, e) == \A a \in -1 .. MaxMade, i \in Nat : ~ Zero(h, st, a, i, e)

\* l has been added to what waits for d
Listened(h, g, d, l) ==
    /\ Fine(g) /\ g.state = h.state /\ g.value = h.value
    /\ \/ /\ h.state[d] = "pending"
          /\ g.thens[d] = Append(h.thens[d], l) /\ g.timers = h.timers
          /\ \A x \in Deferreds : x # d => g.thens[x] = h.thens[x]
       \/ /\ h.state[d] # "pending" /\ g.thens = h.thens
          /\ g.timers = Append(h.timers, Task(l, h.state[d], h.value[d]))

LEMMA ListenListens ==
  ASSUME NEW h, Fine(h), NEW d \in Deferreds, NEW l \in Listener
  PROVE  Listened(h, Listen(h, d, l), d, l)
<1> DEFINE g == Listen(h, d, l)
<1>1. h.thens[d] \in Seq(Listener) /\ Append(h.thens[d], l) \in Seq(Listener)
  BY HeapIs
<1>2. CASE h.state[d] = "pending"
  <2>1. g = [h EXCEPT !.thens[d] = Append(@, l)]
    BY <1>2 DEF Listen
  <2>2. h.thens \in [Deferreds -> Seq(Listener)] /\ h \in HeapSet
    BY HeapIs DEF Fine
  <2>3. /\ g \in HeapSet /\ g.state = h.state /\ g.value = h.value /\ g.timers = h.timers
        /\ g.thens = [h.thens EXCEPT ![d] = Append(h.thens[d], l)]
    <3> DEFINE f == [h.thens EXCEPT ![d] = Append(h.thens[d], l)]
    <3>1. f \in [Deferreds -> Seq(Listener)]
      BY <1>1, <2>2
    <3> HIDE DEF g
    <3>2. g = [state |-> h.state, value |-> h.value, thens |-> f, timers |-> h.timers]
      BY <2>1, <2>2 DEF HeapSet
    <3> HIDE DEF f
    <3>3. g \in HeapSet /\ g.state = h.state /\ g.value = h.value /\ g.timers = h.timers
          /\ g.thens = f
      BY <2>2, <3>1, <3>2 DEF HeapSet
    <3>4. QED
      BY <3>3 DEF f
  <2> HIDE DEF g
  <2>4. /\ g.thens[d] = Append(h.thens[d], l)
        /\ \A x \in Deferreds : x # d => g.thens[x] = h.thens[x]
    BY <2>2, <2>3
  <2>5. Fine(g)
    BY <1>2, <2>3, <2>4 DEF Fine
  <2>6. QED
    BY <1>2, <2>3, <2>4, <2>5 DEF Listened, g
<1>3. CASE h.state[d] # "pending"
  <2> DEFINE t == Task(l, h.state[d], h.value[d])
  <2>1. t \in TaskSet
    <3>1. h.state[d] \in Arm /\ h.value[d] \in Value
      BY <1>3, HeapIs DEF Fine
    <3>2. QED
      BY <3>1 DEF Task, TaskSet
  <2>2. g = [h EXCEPT !.timers = Append(@, t)]
    BY <1>3 DEF Listen
  <2>3. h.timers \in Seq(TaskSet) /\ h \in HeapSet
    BY HeapIs DEF Fine
  <2> HIDE DEF g, t
  <2>4. Append(h.timers, t) \in Seq(TaskSet)
    BY <2>1, <2>3
  <2>5. /\ g \in HeapSet /\ g.state = h.state /\ g.value = h.value /\ g.thens = h.thens
        /\ g.timers = Append(h.timers, t)
    BY <2>2, <2>3, <2>4 DEF HeapSet
  <2>6. Fine(g)
    BY <2>5 DEF Fine
  <2>7. QED
    BY <1>3, <2>5, <2>6 DEF Listened, g, t
<1>4. QED
  BY <1>2, <1>3

LEMMA AppendAt ==
  ASSUME NEW S, NEW s \in Seq(S), NEW x \in S, NEW i \in 1 .. Len(Append(s, x))
  PROVE  /\ Len(Append(s, x)) = Len(s) + 1 /\ Len(s) \in Nat
         /\ \/ i \in 1 .. Len(s) /\ Append(s, x)[i] = s[i]
            \/ i = Len(s) + 1 /\ Append(s, x)[i] = x
BY AppendProperties

LEMMA ListenTokens ==
  ASSUME NEW h, NEW st, NEW fs, NEW md, NEW fi, NEW src, Tokens(h, st, fs, md, fi, src),
         NEW d \in Deferreds, NEW l \in Listener, NEW g, Listened(h, g, d, l),
         ListenerOK(l, md, src),
         PutOff(fi, l.to, l.depth) => fi[l.to][l.depth][2] = [k |-> "deferred", id |-> d],
         l.depth = 0 => NoZero(h, st, l.to) /\ fi[l.to] = << >> /\ md[l.to] = 0
  PROVE  Tokens(g, st, fs, md, fi, src)
<1>1. Fine(h) /\ Fine(g) /\ g.state = h.state /\ g.value = h.value
  BY DEF Tokens, Listened
<1>2. ThensOK(g, md, fi, src)
  <2> SUFFICES ASSUME NEW x \in Deferreds, NEW i \in 1 .. Len(g.thens[x])
               PROVE  /\ ListenerOK(g.thens[x][i], md, src)
                      /\ PutOff(fi, g.thens[x][i].to, g.thens[x][i].depth) =>
                           fi[g.thens[x][i].to][g.thens[x][i].depth][2]
                             = [k |-> "deferred", id |-> x]
    BY DEF ThensOK
  <2>1. CASE g.thens[x] = h.thens[x]
    BY <2>1 DEF Tokens, ThensOK
  <2>2. CASE x = d /\ g.thens[d] = Append(h.thens[d], l)
    <3>1. \/ i \in 1 .. Len(h.thens[d]) /\ g.thens[d][i] = h.thens[d][i]
          \/ g.thens[d][i] = l
      BY <1>1, <2>2, HeapIs, AppendAt
    <3>2. CASE i \in 1 .. Len(h.thens[d]) /\ g.thens[d][i] = h.thens[d][i]
      BY <2>2, <3>2 DEF Tokens, ThensOK
    <3>3. CASE g.thens[d][i] = l
      BY <2>2, <3>3
    <3>4. QED
      BY <3>1, <3>2, <3>3
  <2>3. QED
    BY <2>1, <2>2 DEF Listened
<1>3. TimersOK(g, md, fi, src)
  <2> DEFINE OK(t) == /\ ListenerOK(t.l, md, src)
                      /\ PutOff(fi, t.l.to, t.l.depth) =>
                           LET said == fi[t.l.to][t.l.depth][2]
                           IN /\ said.k = "deferred" /\ said.id \in Deferreds
                              /\ h.state[said.id] = t.arm /\ h.value[said.id] = t.v
  <2>1. \A i \in 1 .. Len(h.timers) : OK(h.timers[i])
    BY DEF Tokens, TimersOK
  <2> DEFINE t == Task(l, h.state[d], h.value[d])
  <2>2. t.l = l /\ t.arm = h.state[d] /\ t.v = h.value[d]
    BY DEF Task
  <2> HIDE DEF t
  <2>3. OK(t)
    BY <2>2
  <2> HIDE DEF OK
  <2>4. \A i \in 1 .. Len(g.timers) : OK(g.timers[i])
    <3>1. CASE g.timers = h.timers
      BY <2>1, <3>1
    <3>2. CASE h.state[d] # "pending" /\ g.timers = Append(h.timers, t)
      <4>1. h.timers \in Seq(TaskSet) /\ t \in TaskSet
        <5>1. h.state[d] \in Arm /\ h.value[d] \in Value
          BY <1>1, <3>2, HeapIs DEF Fine
        <5>2. QED
          BY <1>1, <5>1, HeapIs DEF t, Task, TaskSet
      <4>2. ASSUME NEW i \in 1 .. Len(g.timers)
            PROVE  \/ i \in 1 .. Len(h.timers) /\ g.timers[i] = h.timers[i]
                   \/ g.timers[i] = t
        BY <3>2, <4>1, <4>2, AppendAt
      <4>3. QED
        BY <2>1, <2>3, <4>2
    <3>3. QED
      BY <3>1, <3>2 DEF Listened, t
  <2>5. QED
    BY <1>1, <2>4 DEF OK, TimersOK
<1>4. ZeroOK(g, st, md, fi)
  <2> DEFINE A == IF h.state[d] = "pending" THEN d ELSE 0
             I == IF h.state[d] = "pending" THEN Len(h.thens[d]) + 1 ELSE Len(h.timers) + 1
  <2>1. ASSUME NEW e \in Deferreds, NEW a \in -1 .. MaxMade, NEW i \in Nat, Zero(g, st, a, i, e)
        PROVE  Zero(h, st, a, i, e) \/ (a = A /\ i = I /\ e = l.to /\ l.depth = 0)
    <3>1. CASE a \in Deferreds
      <4>1. i \in 1 .. Len(g.thens[a]) /\ g.thens[a][i].to = e /\ g.thens[a][i].depth = 0
        BY <2>1, <3>1, Constants DEF Zero
      <4>2. CASE g.thens[a] = h.thens[a]
        BY <3>1, <4>1, <4>2 DEF Zero
      <4>3. CASE a = d /\ h.state[d] = "pending" /\ g.thens[d] = Append(h.thens[d], l)
        <5>1. \/ i \in 1 .. Len(h.thens[d]) /\ g.thens[d][i] = h.thens[d][i]
              \/ i = Len(h.thens[d]) + 1 /\ g.thens[d][i] = l
          BY <1>1, <4>1, <4>3, HeapIs, AppendAt
        <5>2. QED
          BY <3>1, <4>1, <4>3, <5>1 DEF Zero
      <4>4. QED
        BY <3>1, <4>2, <4>3 DEF Listened
    <3>2. CASE a = 0
      <4>1. i \in 1 .. Len(g.timers) /\ g.timers[i].l.to = e /\ g.timers[i].l.depth = 0
        BY <2>1, <3>2, Constants DEF Zero
      <4>2. CASE g.timers = h.timers
        BY <3>2, <4>1, <4>2 DEF Zero
      <4>3. CASE h.state[d] # "pending" /\ g.timers = Append(h.timers, Task(l, h.state[d], h.value[d]))
        <5>1. h.timers \in Seq(TaskSet) /\ Task(l, h.state[d], h.value[d]) \in TaskSet
          <6>1. h.state[d] \in Arm /\ h.value[d] \in Value
            BY <1>1, <4>3, HeapIs DEF Fine
          <6>2. QED
            BY <1>1, <6>1, HeapIs DEF Task, TaskSet
        <5>2. \/ i \in 1 .. Len(h.timers) /\ g.timers[i] = h.timers[i]
              \/ i = Len(h.timers) + 1 /\ g.timers[i] = Task(l, h.state[d], h.value[d])
          BY <4>1, <4>3, <5>1, AppendAt
        <5>3. Task(l, h.state[d], h.value[d]).l = l
          BY DEF Task
        <5>4. QED
          BY <3>2, <4>1, <4>3, <5>2, <5>3 DEF Zero
      <4>4. QED
        BY <4>2, <4>3 DEF Listened
    <3>3. CASE a = -1
      BY <2>1, <3>3, Constants DEF Zero
    <3>4. QED
      BY <2>1, <3>1, <3>2, <3>3 DEF Zero
  <2> HIDE DEF A, I
  <2>2. ASSUME NEW e \in Deferreds, NEW a \in -1 .. MaxMade, NEW i \in Nat, Zero(g, st, a, i, e)
        PROVE  /\ fi[e] = << >> /\ md[e] = 0
               /\ \A b \in -1 .. MaxMade, j \in Nat : Zero(g, st, b, j, e) => a = b /\ i = j
    <3>1. CASE e = l.to /\ l.depth = 0
      <4>1. \A b \in -1 .. MaxMade, j \in Nat : ~ Zero(h, st, b, j, e)
        BY <3>1 DEF NoZero
      <4>2. \A b \in -1 .. MaxMade, j \in Nat : Zero(g, st, b, j, e) => b = A /\ j = I
        BY <2>1, <4>1
      <4>3. QED
        BY <2>2, <3>1, <4>2
    <3>2. CASE ~ (e = l.to /\ l.depth = 0)
      <4>1. \A b \in -1 .. MaxMade, j \in Nat : Zero(g, st, b, j, e) => Zero(h, st, b, j, e)
        BY <2>1, <3>2
      <4>2. QED
        BY <2>2, <4>1 DEF Tokens, ZeroOK
    <3>3. QED
      BY <3>1, <3>2
  <2>3. QED
    BY <2>2 DEF ZeroOK
<1>5. QED
  BY <1>1, <1>2, <1>3, <1>4 DEF Tokens

-----------------------------------------------------------------------------
(* The stack and the timers *)

(* The calls under way change, but no handler is called: those that remain *)
(* stand k places higher or lower.                                         *)
LEMMA StackTokens ==
  ASSUME NEW h, NEW st, NEW fs, NEW md, NEW fi, NEW src, Tokens(h, st, fs, md, fi, src),
         NEW su, FramesOK(su, md, fi, src), NEW k \in Int,
         \A i \in 1 .. Len(su) : su[i].what = "handler" =>
            /\ i + k \in 1 .. Len(st) /\ st[i + k].what = "handler"
            /\ st[i + k].to = su[i].to
  PROVE  /\ Tokens(h, su, fs, md, fi, src)
         /\ \A e \in Deferreds : NoZero(h, st, e) => NoZero(h, su, e)
<1> DEFINE J(a, i) == IF a = -1 THEN i + k ELSE i
<1>1. ASSUME NEW e \in Deferreds, NEW a \in -1 .. MaxMade, NEW i \in Nat, Zero(h, su, a, i, e)
      PROVE  Zero(h, st, a, J(a, i), e) /\ J(a, i) \in Nat
  <2>1. CASE a = -1
    <3>1. i \in 1 .. Len(su) /\ su[i].what = "handler" /\ su[i].to = e
      BY <1>1, <2>1, Constants DEF Zero
    <3>2. i + k \in 1 .. Len(st) /\ st[i + k].what = "handler" /\ st[i + k].to = e
      BY <3>1
    <3>3. QED
      BY <2>1, <3>2 DEF Zero
  <2>2. CASE a # -1
    BY <1>1, <2>2 DEF Zero
  <2>3. QED
    BY <2>1, <2>2
<1>2. ZeroOK(h, su, md, fi)
  <2>1. ASSUME NEW e \in Deferreds, NEW a \in -1 .. MaxMade, NEW i \in Nat, Zero(h, su, a, i, e)
        PROVE  /\ fi[e] = << >> /\ md[e] = 0
               /\ \A b \in -1 .. MaxMade, j \in Nat : Zero(h, su, b, j, e) => a = b /\ i = j
    <3>1. Zero(h, st, a, J(a, i), e) /\ J(a, i) \in Nat
      BY <1>1, <2>1
    <3>2. fi[e] = << >> /\ md[e] = 0
      BY <3>1 DEF Tokens, ZeroOK
    <3>3. ASSUME NEW b \in -1 .. MaxMade, NEW j \in Nat, Zero(h, su, b, j, e)
          PROVE  a = b /\ i = j
      <4>1. Zero(h, st, b, J(b, j), e) /\ J(b, j) \in Nat
        BY <1>1, <3>3
      <4> HIDE DEF J
      <4>2. a = b /\ J(a, i) = J(b, j)
        BY <3>1, <4>1 DEF Tokens, ZeroOK
      <4>3. QED
        BY <4>2 DEF J
    <3>4. QED
      BY <3>2, <3>3
  <2>2. QED
    BY <2>1 DEF ZeroOK
<1>3. ASSUME NEW e \in Deferreds, NoZero(h, st, e) PROVE NoZero(h, su, e)
  <2> HIDE DEF J
  <2>1. QED
    BY <1>1, <1>3 DEF NoZero
<1>4. QED
  BY <1>2, <1>3 DEF Tokens

\* the handler of e has ended
LEMMA HandlerEnded ==
  ASSUME NEW h, NEW st \in Seq(Frame), NEW fs, NEW md, NEW fi, NEW src,
         Tokens(h, st, fs, md, fi, src), st # << >>, st[1].what = "handler"
  PROVE  st[1].to \in Deferreds => /\ NoZero(h, Tail(st), st[1].to)
                                    /\ fi[st[1].to] = << >> /\ md[st[1].to] = 0
<1> SUFFICES ASSUME st[1].to \in Deferreds
             PROVE  /\ NoZero(h, Tail(st), st[1].to)
                    /\ fi[st[1].to] = << >> /\ md[st[1].to] = 0
  OBVIOUS
<1> DEFINE e == st[1].to
<1>1. 1 \in 1 .. Len(st) /\ Len(st) \in Nat /\ Len(Tail(st)) = Len(st) - 1
      /\ \A i \in 1 .. Len(Tail(st)) : Tail(st)[i] = st[i + 1]
  BY HeadTailProperties, EmptySeq
<1>2. Zero(h, st, -1, 1, e)
  BY <1>1 DEF Zero
<1>3. -1 \in -1 .. MaxMade /\ 1 \in Nat
  BY Constants
<1> HIDE DEF e
<1>4. e \in Deferreds
  BY DEF e
<1>5. /\ fi[e] = << >> /\ md[e] = 0
      /\ \A b \in -1 .. MaxMade, j \in Nat : Zero(h, st, b, j, e) => b = -1 /\ j = 1
  BY <1>2, <1>3, <1>4 DEF Tokens, ZeroOK
<1>6. ASSUME NEW a \in -1 .. MaxMade, NEW i \in Nat, Zero(h, Tail(st), a, i, e) PROVE FALSE
  <2>1. CASE a = -1
    <3>1. i \in 1 .. Len(Tail(st)) /\ Tail(st)[i].what = "handler" /\ Tail(st)[i].to = e
      BY <1>6, <2>1, Constants DEF Zero
    <3>2. i + 1 \in 1 .. Len(st) /\ st[i + 1].what = "handler" /\ st[i + 1].to = e
      BY <1>1, <3>1
    <3>3. Zero(h, st, -1, i + 1, e)
      BY <3>2 DEF Zero
    <3>4. i + 1 = 1
      BY <1>3, <1>5, <3>3
    <3>5. QED
      BY <3>1, <3>4
  <2>2. CASE a # -1
    <3>1. Zero(h, st, a, i, e)
      BY <1>6, <2>2 DEF Zero
    <3>2. QED
      BY <1>5, <2>2, <3>1
  <2>3. QED
    BY <2>1, <2>2
<1>7. QED
  BY <1>5, <1>6 DEF NoZero, e

\* the first timer goes off
WithoutTimer(h) == [h EXCEPT !.timers = Tail(@)]

LEMMA TimerTokens ==
  ASSUME NEW h, NEW st, NEW fs, NEW md, NEW fi, NEW src, Tokens(h, st, fs, md, fi, src),
         h.timers # << >>
  PROVE  /\ Tokens(WithoutTimer(h), st, fs, md, fi, src)
         /\ WithoutTimer(h).state = h.state /\ WithoutTimer(h).value = h.value
         /\ h.timers[1] \in TaskSet /\ 1 \in 1 .. Len(h.timers)
         /\ h.timers[1].l.depth = 0 =>
              /\ NoZero(WithoutTimer(h), st, h.timers[1].l.to)
              /\ fi[h.timers[1].l.to] = << >> /\ md[h.timers[1].l.to] = 0
<1> DEFINE g == WithoutTimer(h)
<1>1. Fine(h) /\ h \in HeapSet
  BY DEF Tokens, Fine
<1>2. h.timers \in Seq(TaskSet)
  BY <1>1, HeapIs
<1>3. /\ 1 \in 1 .. Len(h.timers) /\ Len(h.timers) \in Nat /\ Tail(h.timers) \in Seq(TaskSet)
      /\ Len(Tail(h.timers)) = Len(h.timers) - 1
      /\ \A i \in 1 .. Len(Tail(h.timers)) : Tail(h.timers)[i] = h.timers[i + 1]
      /\ h.timers[1] \in TaskSet
  BY <1>2, HeadTailProperties, EmptySeq
<1>4. /\ g \in HeapSet /\ g.state = h.state /\ g.value = h.value /\ g.thens = h.thens
      /\ g.timers = Tail(h.timers)
  BY <1>1, <1>3 DEF WithoutTimer, HeapSet
<1> HIDE DEF g
<1>5. Fine(g)
  BY <1>1, <1>4 DEF Fine
<1>6. ThensOK(g, md, fi, src)
  BY <1>4 DEF Tokens, ThensOK
<1>7. \A i \in 1 .. Len(g.timers) : i + 1 \in 1 .. Len(h.timers) /\ g.timers[i] = h.timers[i + 1]
  BY <1>3, <1>4
<1>8. TimersOK(g, md, fi, src)
  BY <1>4, <1>7 DEF Tokens, TimersOK
<1> DEFINE J(a, i) == IF a = 0 THEN i + 1 ELSE i
<1>9. ASSUME NEW e \in Deferreds, NEW a \in -1 .. MaxMade, NEW i \in Nat, Zero(g, st, a, i, e)
      PROVE  Zero(h, st, a, J(a, i), e) /\ J(a, i) \in Nat /\ (a = 0 => J(a, i) > 1)
  <2>1. CASE a = 0
    <3>1. i \in 1 .. Len(g.timers) /\ g.timers[i].l.to = e /\ g.timers[i].l.depth = 0
      BY <1>9, <2>1, Constants DEF Zero
    <3>2. i + 1 \in 1 .. Len(h.timers) /\ h.timers[i + 1].l.to = e /\ h.timers[i + 1].l.depth = 0
      BY <1>7, <3>1
    <3>3. QED
      BY <2>1, <3>1, <3>2 DEF Zero
  <2>2. CASE a # 0
    BY <1>4, <1>9, <2>2 DEF Zero
  <2>3. QED
    BY <2>1, <2>2
<1>10. ZeroOK(g, st, md, fi)
  <2>1. ASSUME NEW e \in Deferreds, NEW a \in -1 .. MaxMade, NEW i \in Nat, Zero(g, st, a, i, e)
        PROVE  /\ fi[e] = << >> /\ md[e] = 0
               /\ \A b \in -1 .. MaxMade, j \in Nat : Zero(g, st, b, j, e) => a = b /\ i = j
    <3>1. Zero(h, st, a, J(a, i), e) /\ J(a, i) \in Nat
      BY <1>9, <2>1
    <3>2. fi[e] = << >> /\ md[e] = 0
      BY <3>1 DEF Tokens, ZeroOK
    <3>3. ASSUME NEW b \in -1 .. MaxMade, NEW j \in Nat, Zero(g, st, b, j, e)
          PROVE  a = b /\ i = j
      <4>1. Zero(h, st, b, J(b, j), e) /\ J(b, j) \in Nat
        BY <1>9, <3>3
      <4> HIDE DEF J
      <4>2. a = b /\ J(a, i) = J(b, j)
        BY <3>1, <4>1 DEF Tokens, ZeroOK
      <4>3. QED
        BY <4>2 DEF J
    <3>4. QED
      BY <3>2, <3>3
  <2>2. QED
    BY <2>1 DEF ZeroOK
<1>11. ASSUME h.timers[1].l.depth = 0
       PROVE  /\ NoZero(g, st, h.timers[1].l.to)
              /\ fi[h.timers[1].l.to] = << >> /\ md[h.timers[1].l.to] = 0
  <2> DEFINE e == h.timers[1].l.to
  <2>1. Zero(h, st, 0, 1, e) /\ 0 \in -1 .. MaxMade
    BY <1>3, <1>11, Constants DEF Zero
  <2>2. e \in Deferreds
    BY <1>1, <1>3, HeapIs, Listeners
  <2> HIDE DEF e
  <2>3. /\ fi[e] = << >> /\ md[e] = 0
        /\ \A b \in -1 .. MaxMade, j \in Nat : Zero(h, st, b, j, e) => b = 0 /\ j = 1
    BY <2>1, <2>2 DEF Tokens, ZeroOK
  <2>4. ASSUME NEW a \in -1 .. MaxMade, NEW i \in Nat, Zero(g, st, a, i, e) PROVE FALSE
    <3>1. Zero(h, st, a, J(a, i), e) /\ J(a, i) \in Nat /\ (a = 0 => J(a, i) > 1)
      BY <1>9, <2>2, <2>4
    <3> HIDE DEF J
    <3>2. QED
      BY <2>3, <3>1
  <2>5. QED
    BY <2>3, <2>4 DEF NoZero, e
<1>12. QED
  BY <1>3, <1>4, <1>5, <1>6, <1>8, <1>10, <1>11 DEF Tokens, g

\* the handler of e is called, on an empty stack
LEMMA HandlerTokens ==
  ASSUME NEW h, NEW fs, NEW md, NEW fi, NEW src, Tokens(h, << >>, fs, md, fi, src),
         NEW e \in Deferreds, NoZero(h, << >>, e), fi[e] = << >>, md[e] = 0, src[e] # 0
  PROVE  Tokens(h, << [what |-> "handler", to |-> e, depth |-> 0] >>, fs, md, fi, src)
<1> DEFINE f == [what |-> "handler", to |-> e, depth |-> 0]
           st == << f >>
<1>1. Len(st) = 1 /\ st[1] = f /\ f.what = "handler" /\ f.to = e /\ f.depth = 0
  OBVIOUS
<1> HIDE DEF st, f
<1>2. \A i \in 1 .. Len(st) : i = 1
  BY <1>1
<1>3. FramesOK(st, md, fi, src)
  BY <1>1, <1>2 DEF FramesOK
<1>4. ASSUME NEW x \in Deferreds, NEW a \in -1 .. MaxMade, NEW i \in Nat, Zero(h, st, a, i, x)
      PROVE  Zero(h, << >>, a, i, x) \/ (a = -1 /\ i = 1 /\ x = e)
  BY <1>1, <1>2, <1>4, Constants DEF Zero
<1>5. ASSUME NEW x \in Deferreds, NEW a \in -1 .. MaxMade, NEW i \in Nat, Zero(h, st, a, i, x)
      PROVE  /\ fi[x] = << >> /\ md[x] = 0
             /\ \A b \in -1 .. MaxMade, j \in Nat : Zero(h, st, b, j, x) => a = b /\ i = j
  <2>1. CASE x = e
    <3>1. \A b \in -1 .. MaxMade, j \in Nat : Zero(h, st, b, j, x) => b = -1 /\ j = 1
      BY <1>4, <2>1 DEF NoZero
    <3>2. QED
      BY <1>5, <2>1, <3>1
  <2>2. CASE x # e
    <3>1. \A b \in -1 .. MaxMade, j \in Nat : Zero(h, st, b, j, x) => Zero(h, << >>, b, j, x)
      BY <1>4, <2>2
    <3>2. QED
      BY <1>5, <3>1 DEF Tokens, ZeroOK
  <2>3. QED
    BY <2>1, <2>2
<1>6. ZeroOK(h, st, md, fi)
  BY <1>5 DEF ZeroOK
<1>7. QED
  BY <1>3, <1>6 DEF Tokens, st, f

(* A Deferred of which no handler is to be called gets told more; what it  *)
(* was told before stays.                                                  *)
LEMMA GrowTokens ==
  ASSUME NEW h, NEW st \in Seq(Frame), NEW fs, NEW md, NEW fi, NEW src,
         Tokens(h, st, fs, md, fi, src), FirstOK(fi), md \in [Deferreds -> Nat],
         NEW e \in Deferreds, NoZero(h, st, e), md[e] <= Len(fi[e]),
         NEW mu \in [Deferreds -> Nat], NEW fj, FirstOK(fj), md[e] <= mu[e],
         \A i \in 1 .. md[e] : fj[e][i] = fi[e][i],
         \A x \in Deferreds : x # e => fj[x] = fi[x] /\ mu[x] = md[x],
         fs \in [Foreign -> Seq(Given)]
  PROVE  Tokens(h, st, fs, mu, fj, src)
<1>1. Fine(h)
  BY DEF Tokens
<1>2. ASSUME NEW x \in Deferreds, NEW n \in Nat, n <= md[x]
      PROVE  /\ n <= mu[x]
             /\ PutOff(fj, x, n) <=> PutOff(fi, x, n)
             /\ n > 0 => fj[x][n] = fi[x][n]
  <2>1. CASE x = e
    BY <1>2, <2>1 DEF PutOff
  <2>2. CASE x # e
    BY <1>2, <2>2 DEF PutOff
  <2>3. QED
    BY <2>1, <2>2
<1>3. ASSUME NEW l \in Listener, ListenerOK(l, md, src)
      PROVE  /\ ListenerOK(l, mu, src)
             /\ PutOff(fj, l.to, l.depth) =>
                  PutOff(fi, l.to, l.depth) /\ fj[l.to][l.depth] = fi[l.to][l.depth]
  <2>1. l.to \in Deferreds /\ l.depth \in Nat /\ l.depth <= md[l.to]
    BY <1>3, Listeners DEF ListenerOK
  <2>2. l.depth <= mu[l.to]
    BY <1>2, <2>1
  <2>3. PutOff(fj, l.to, l.depth) =>
          PutOff(fi, l.to, l.depth) /\ fj[l.to][l.depth] = fi[l.to][l.depth]
    <3>1. PutOff(fj, l.to, l.depth) => l.depth > 0
      BY DEF PutOff
    <3>2. QED
      BY <1>2, <2>1, <3>1
  <2>4. QED
    BY <1>3, <2>2, <2>3 DEF ListenerOK
<1>4. ThensOK(h, mu, fj, src)
  <2>1. ASSUME NEW d \in Deferreds, NEW i \in 1 .. Len(h.thens[d])
        PROVE  /\ ListenerOK(h.thens[d][i], mu, src)
               /\ PutOff(fj, h.thens[d][i].to, h.thens[d][i].depth) =>
                    fj[h.thens[d][i].to][h.thens[d][i].depth][2] = [k |-> "deferred", id |-> d]
    <3> DEFINE l == h.thens[d][i]
    <3>1. l \in Listener
      BY <1>1, HeapIs
    <3>2. ListenerOK(l, md, src) /\ (PutOff(fi, l.to, l.depth) =>
            fi[l.to][l.depth][2] = [k |-> "deferred", id |-> d])
      BY DEF Tokens, ThensOK
    <3> HIDE DEF l
    <3>3. ListenerOK(l, mu, src) /\ (PutOff(fj, l.to, l.depth) =>
            fj[l.to][l.depth][2] = [k |-> "deferred", id |-> d])
      BY <1>3, <3>1, <3>2
    <3>4. QED
      BY <3>3 DEF l
  <2>2. QED
    BY <2>1 DEF ThensOK
<1>5. TimersOK(h, mu, fj, src)
  <2>1. ASSUME NEW i \in 1 .. Len(h.timers)
        PROVE  LET l == h.timers[i].l
               IN /\ ListenerOK(l, mu, src)
                  /\ PutOff(fj, l.to, l.depth) =>
                       LET said == fj[l.to][l.depth][2]
                       IN /\ said.k = "deferred" /\ said.id \in Deferreds
                          /\ h.state[said.id] = h.timers[i].arm /\ h.value[said.id] = h.timers[i].v
    <3> DEFINE l == h.timers[i].l
               Told(said) == /\ said.k = "deferred" /\ said.id \in Deferreds
                             /\ h.state[said.id] = h.timers[i].arm
                             /\ h.value[said.id] = h.timers[i].v
    <3>1. l \in Listener
      BY <1>1, HeapIs
    <3>2. ListenerOK(l, md, src) /\ (PutOff(fi, l.to, l.depth) => Told(fi[l.to][l.depth][2]))
      BY DEF Tokens, TimersOK
    <3> HIDE DEF l, Told
    <3>3. ListenerOK(l, mu, src) /\ (PutOff(fj, l.to, l.depth) => Told(fj[l.to][l.depth][2]))
      BY <1>3, <3>1, <3>2
    <3>4. QED
      BY <3>3 DEF l, Told
  <2>2. QED
    BY <2>1 DEF TimersOK
<1>6. FunctionsOK(fs, mu, fj, src)
  <2>1. ASSUME NEW f \in Foreign, NEW i \in 1 .. Len(fs[f]), fs[f][i].to # 0
        PROVE  /\ src[fs[f][i].to] # 0 /\ fs[f][i].depth \in 1 .. mu[fs[f][i].to]
               /\ PutOff(fj, fs[f][i].to, fs[f][i].depth) =>
                    fj[fs[f][i].to][fs[f][i].depth][2].k = "foreign"
    <3> DEFINE x == fs[f][i].to
               n == fs[f][i].depth
    <3>1. x \in Deferreds /\ n \in Nat
      <4>1. \A y \in Given : y.to \in 0 .. MaxMade /\ y.depth \in Nat
        BY DEF Given
      <4>2. fs[f] \in Seq(Given)
        OBVIOUS
      <4>3. fs[f][i] \in Given
        BY <4>2
      <4>4. x \in 0 .. MaxMade /\ n \in Nat
        BY <4>1, <4>3
      <4>5. x # 0
        BY <2>1
      <4> HIDE DEF x, n
      <4>6. QED
        BY <4>4, <4>5, DeferredAssumption DEF Deferreds
    <3>2. src[x] # 0 /\ n \in 1 .. md[x] /\ (PutOff(fi, x, n) => fi[x][n][2].k = "foreign")
      BY <2>1 DEF Tokens, FunctionsOK
    <3> HIDE DEF x, n
    <3>3. n <= md[x] /\ n > 0 /\ md[x] \in Nat /\ mu[x] \in Nat
      BY <3>1, <3>2
    <3>4. n <= mu[x] /\ (PutOff(fj, x, n) <=> PutOff(fi, x, n)) /\ fj[x][n] = fi[x][n]
      BY <1>2, <3>1, <3>3
    <3>5. n \in 1 .. mu[x]
      BY <3>1, <3>3, <3>4
    <3>6. PutOff(fj, x, n) => fj[x][n][2].k = "foreign"
      BY <3>2, <3>4
    <3>7. QED
      BY <3>2, <3>5, <3>6 DEF x, n
  <2>2. QED
    BY <2>1 DEF FunctionsOK
<1>7. FramesOK(st, mu, fj, src)
  <2>1. ASSUME NEW i \in 1 .. Len(st), st[i].what = "then"
        PROVE  /\ src[st[i].to] # 0 /\ st[i].depth + 1 <= mu[st[i].to]
               /\ PutOff(fj, st[i].to, st[i].depth + 1) =>
                    fj[st[i].to][st[i].depth + 1][2].k = "foreign"
    <3> DEFINE x == st[i].to
               n == st[i].depth + 1
    <3>1. x \in Deferreds /\ st[i].depth \in Nat
      <4>1. st[i] \in Frame
        OBVIOUS
      <4>2. st[i] \in [what : {"handler", "then"}, to : Deferreds, depth : Nat]
        BY <2>1, <4>1 DEF Frame
      <4>3. QED
        BY <4>2
    <3>2. src[x] # 0 /\ n <= md[x] /\ (PutOff(fi, x, n) => fi[x][n][2].k = "foreign")
      BY <2>1 DEF Tokens, FramesOK
    <3>3. n \in Nat /\ n > 0
      BY <3>1
    <3> HIDE DEF x, n
    <3>4. n <= mu[x] /\ (PutOff(fj, x, n) <=> PutOff(fi, x, n)) /\ fj[x][n] = fi[x][n]
      BY <1>2, <3>1, <3>2, <3>3
    <3>5. PutOff(fj, x, n) => fj[x][n][2].k = "foreign"
      BY <3>2, <3>4
    <3>6. QED
      BY <3>2, <3>4, <3>5 DEF x, n
  <2>2. QED
    BY <2>1 DEF Tokens, FramesOK
<1>8. ZeroOK(h, st, mu, fj)
  <2>1. ASSUME NEW x \in Deferreds, NEW a \in -1 .. MaxMade, NEW i \in Nat, Zero(h, st, a, i, x)
        PROVE  /\ fj[x] = << >> /\ mu[x] = 0
               /\ \A b \in -1 .. MaxMade, j \in Nat : Zero(h, st, b, j, x) => a = b /\ i = j
    <3>1. x # e
      BY <2>1 DEF NoZero
    <3>2. QED
      BY <2>1, <3>1 DEF Tokens, ZeroOK
  <2>2. QED
    BY <2>1 DEF ZeroOK
<1>9. QED
  BY <1>1, <1>4, <1>5, <1>6, <1>7, <1>8 DEF Tokens

-----------------------------------------------------------------------------
(* The steps that settle or wait *)

\* h is a record with these fields and no others
IsHeap(h) == h = [state |-> h.state, value |-> h.value, thens |-> h.thens, timers |-> h.timers]

LEMMA BecomesIs ==
  ASSUME NEW x, IsHeap(x), Becomes(x)
  PROVE  Heap' = x
BY DEF IsHeap, Becomes, Heap

LEMMA SettledHeap ==
  ASSUME NEW h, IsHeap(h), NEW d, NEW s, NEW v
  PROVE  IsHeap(SettleOne(h, d, s, v))
<1>1. CASE h.state[d] # "pending"
  BY <1>1 DEF SettleOne
<1>2. CASE h.state[d] = "pending"
  <2> DEFINE a == [h.state EXCEPT ![d] = s]
             b == [h.value EXCEPT ![d] = v]
             c == [h.thens EXCEPT ![d] = << >>]
             t == h.timers \o [i \in 1 .. Len(h.thens[d]) |-> Task(h.thens[d][i], s, v)]
  <2>1. SettleOne(h, d, s, v) = [state |-> a, value |-> b, thens |-> c, timers |-> t]
    BY <1>2 DEF SettleOne
  <2> HIDE DEF a, b, c, t
  <2>2. QED
    BY <2>1 DEF IsHeap
<1>3. QED
  BY <1>1, <1>2

LEMMA UpdatedHeap ==
  ASSUME NEW h, IsHeap(h), NEW w, NEW I, NEW arm \in Arm, NEW v
  PROVE  IsHeap(Update(h, w, I, arm, v))
<1>1. \/ Update(h, w, I, arm, v) = h
      \/ Update(h, w, I, arm, v) = SettleOne(h, w.primary, "resolved", v)
      \/ Update(h, w, I, arm, v) = SettleOne(h, w.primary, "resolved", PlainValue(Outcomes))
      \/ Update(h, w, I, arm, v) = SettleOne(h, w.primary, "rejected", v)
  BY DEF Update, Arm
<1>2. QED
  BY <1>1, SettledHeap

(* Settle does to the variables what SettleTo says of heaps.               *)
LEMMA SettleIs ==
  ASSUME NEW h, IsHeap(h), NEW d, NEW s \in Arm, NEW v, Settle(h, d, s, v)
  PROVE  SettleTo(h, whens, d, s, v, Heap', whens')
<1>1. IsHeap(SettleOne(h, d, s, v))
  BY SettledHeap
<1>2. CASE whens = None \/ h.state[d] # "pending"
  <2>1. Becomes(SettleOne(h, d, s, v)) /\ whens' = whens
    BY <1>2 DEF Settle
  <2>2. Heap' = SettleOne(h, d, s, v)
    BY <1>1, <2>1, BecomesIs
  <2>3. QED
    BY <1>2, <2>1, <2>2 DEF SettleTo
<1>3. CASE ~ (whens = None \/ h.state[d] # "pending")
  <2> DEFINE x == Update(SettleOne(h, d, s, v), whens, Freed(whens, d), s, v)
  <2>1. Becomes(x) /\ whens' = Counted(whens, Freed(whens, d), s)
    BY <1>3 DEF Settle, Freed
  <2>2. IsHeap(x)
    BY <1>1, UpdatedHeap
  <2>3. Heap' = x
    BY <2>1, <2>2, BecomesIs
  <2>4. QED
    BY <1>3, <2>1, <2>3 DEF SettleTo
<1>4. QED
  BY <1>2, <1>3

\* h has become g, and w has become u, while d was settled or nothing was
Moved(h, w, d, g, u, ms) ==
    /\ Later(h, g)
    /\ \A x \in Deferreds :
         x # d /\ (w # None => x # w.primary) =>
            g.state[x] = h.state[x] /\ g.value[x] = h.value[x]
    /\ SameCall(w, u)
    /\ WhenOK(u, g.state, ms)

LEMMA MovedNot ==
  ASSUME NEW h, NEW w, NEW d, NEW ms, WhenOK(w, h.state, ms), NEW g,
         g.state = h.state, g.value = h.value
  PROVE  Moved(h, w, d, g, w, ms)
BY SameItself DEF Moved, Later

LEMMA Settles ==
  ASSUME NEW h, NEW st, NEW fs, NEW md, NEW fi, NEW src, Tokens(h, st, fs, md, fi, src),
         NEW ms, WhenOK(whens, h.state, ms),
         NEW d \in Deferreds, NEW s \in Arm, NEW v \in Value,
         whens # None => d # whens.primary, Settle(h, d, s, v)
  PROVE  /\ Tokens(Heap', st, fs, md, fi, src)
         /\ Moved(h, whens, d, Heap', whens', ms)
         /\ h.state[d] = "pending" => (Heap').state[d] = s /\ (Heap').value[d] = v
         /\ h.state[d] # "pending" => Heap' = h /\ whens' = whens
<1>1. IsHeap(h)
  BY HeapIs DEF Tokens, IsHeap
<1>2. SettleTo(h, whens, d, s, v, Heap', whens')
  BY <1>1, SettleIs
<1> DEFINE g == Heap'
           u == whens'
<1>3. SettleTo(h, whens, d, s, v, g, u)
  BY <1>2
<1> HIDE DEF g, u
<1>4. SettleGood(h, whens, d, s, v, g, u, ms) /\ Tokens(g, st, fs, md, fi, src)
  BY <1>3, SettleToGood
<1>5. Moved(h, whens, d, g, u, ms)
  BY <1>4 DEF SettleGood, Moved
<1>6. /\ h.state[d] = "pending" => g.state[d] = s /\ g.value[d] = v
      /\ h.state[d] # "pending" => g = h /\ u = whens
  BY <1>4 DEF SettleGood
<1>7. QED
  BY <1>4, <1>5, <1>6 DEF g, u

-----------------------------------------------------------------------------
(* What a thenable says *)

\* fj is fi after thenable number k of e has said x, unless it had spoken before
Told(fi, fj, e, k, x) ==
    /\ FirstOK(fj)
    /\ \A y \in Deferreds : y # e => fj[y] = fi[y]
    /\ \/ Len(fi[e]) > k /\ fj = fi
       \/ /\ Len(fi[e]) <= k
          /\ Len(fj[e]) = Len(fi[e]) + 1 /\ fj[e][Len(fi[e]) + 1] = x
          /\ \A i \in 1 .. Len(fi[e]) : fj[e][i] = fi[e][i]

LEMMA SaidTold ==
  ASSUME FirstOK(first), NEW e \in Deferreds, NEW k \in Nat, NEW arm \in Arm, NEW v \in Value,
         Said(e, k, arm, v)
  PROVE  Told(first, first', e, k, << arm, v >>)
<1> DEFINE x == << arm, v >>
           q == IF Len(first[e]) > k THEN first[e] ELSE Append(first[e], x)
<1>1. first[e] \in Seq(Arm \X Value) /\ Len(first[e]) \in Nat
  BY Firsts
<1>2. x \in Arm \X Value
  OBVIOUS
<1>3. first \in [Deferreds -> Seq(Arm \X Value)]
  BY DEF FirstOK
<1>4. first' = [first EXCEPT ![e] = q]
  BY DEF Said
<1> HIDE DEF x
<1>5. Append(first[e], x) \in Seq(Arm \X Value) /\ Len(Append(first[e], x)) = Len(first[e]) + 1
      /\ Append(first[e], x)[Len(first[e]) + 1] = x
      /\ \A i \in 1 .. Len(first[e]) : Append(first[e], x)[i] = first[e][i]
  BY <1>1, <1>2, AppendProperties
<1>6. q \in Seq(Arm \X Value)
  BY <1>1, <1>5
<1>7. CASE Len(first[e]) > k
  <2>1. q = first[e]
    BY <1>7
  <2>2. first' = first
    BY <1>3, <1>4, <2>1
  <2>3. QED
    BY <1>7, <2>2 DEF Told, FirstOK
<1>8. CASE ~ Len(first[e]) > k
  <2>1. q = Append(first[e], x)
    BY <1>8
  <2> HIDE DEF q
  <2>2. first' \in [Deferreds -> Seq(Arm \X Value)] /\ first'[e] = q
        /\ \A y \in Deferreds : y # e => first'[y] = first[y]
    BY <1>3, <1>4, <1>6
  <2>3. Len(first[e]) <= k
    BY <1>1, <1>8
  <2>4. QED
    BY <1>5, <2>1, <2>2, <2>3 DEF Told, FirstOK, x
<1>9. QED
  BY <1>7, <1>8

\* what thenable number k of e may say: of a Deferred, the outcome
MaySay(h, fi, e, k, x) ==
    PutOff(fi, e, k) /\ fi[e][k][2].k = "deferred" =>
        x = << h.state[fi[e][k][2].id], h.value[fi[e][k][2].id] >>

\* what follows a Deferred in the chain of e is its outcome in g
Follows(g, fj, e) ==
    \A i \in 1 .. Len(fj[e]) - 1 :
        Defers(e, fj[e][i]) /\ fj[e][i][2].k = "deferred" =>
            fj[e][i + 1] = << g.state[fj[e][i][2].id], g.value[fj[e][i][2].id] >>

(* What follows on a Deferred is its outcome, also with what is said now.  *)
LEMMA ToldFollows ==
  ASSUME NEW h, NEW g, Later(h, g), NEW md \in [Deferreds -> Nat], NEW fi, FirstOK(fi),
         NEW e \in Deferreds, OutcomeOK(h, md, fi, e),
         NEW arm \in Arm, NEW v \in Value, MaySay(h, fi, e, md[e], << arm, v >>),
         NEW fj, Told(fi, fj, e, md[e], << arm, v >>)
  PROVE  Follows(g, fj, e)
<1> DEFINE k == md[e]
           n == Len(fi[e])
           x == << arm, v >>
<1>1. k \in Nat /\ n \in Nat /\ k <= n /\ n <= k + 1
  BY Firsts DEF OutcomeOK
<1>2. ASSUME NEW i \in 1 .. Len(fj[e]) - 1, Defers(e, fj[e][i]), fj[e][i][2].k = "deferred"
      PROVE  /\ i \in 1 .. n /\ fj[e][i] = fi[e][i]
             /\ fj[e][i + 1] \in Arm \X Value
             /\ fj[e][i + 1] = << h.state[fj[e][i][2].id], h.value[fj[e][i][2].id] >>
  <2>1. FirstOK(fj)
    BY DEF Told
  <2>2. Len(fj[e]) \in Nat /\ i + 1 \in 1 .. Len(fj[e]) /\ fj[e][i + 1] \in Arm \X Value
    BY <2>1, Firsts
  <2>3. CASE n > k /\ fj = fi
    BY <1>1, <1>2, <2>2, <2>3 DEF OutcomeOK
  <2>4. CASE n <= k /\ Len(fj[e]) = n + 1 /\ fj[e][n + 1] = x
             /\ \A j \in 1 .. n : fj[e][j] = fi[e][j]
    <3>1. n = k /\ i \in 1 .. n
      BY <1>1, <2>4
    <3>2. fj[e][i] = fi[e][i]
      BY <2>4, <3>1
    <3>3. CASE i < n
      <4>1. i \in 1 .. n - 1 /\ i + 1 \in 1 .. n
        BY <1>1, <3>1, <3>3
      <4>2. fj[e][i + 1] = fi[e][i + 1]
        BY <2>4, <4>1
      <4>3. fi[e][i + 1] = << h.state[fi[e][i][2].id], h.value[fi[e][i][2].id] >>
        BY <1>2, <3>2, <4>1 DEF OutcomeOK
      <4>4. QED
        BY <2>2, <3>1, <3>2, <4>2, <4>3
    <3>4. CASE i = n
      <4>1. PutOff(fi, e, k) /\ fi[e][k][2].k = "deferred"
        BY <1>1, <1>2, <3>1, <3>2, <3>4 DEF PutOff
      <4>2. x = << h.state[fi[e][k][2].id], h.value[fi[e][k][2].id] >>
        BY <4>1 DEF MaySay
      <4>3. fj[e][i + 1] = x /\ i = k
        BY <2>4, <3>1, <3>4
      <4> HIDE DEF x, k, n
      <4>4. fj[e][i][2].id = fi[e][k][2].id
        BY <3>2, <4>3
      <4>5. QED
        BY <2>2, <3>1, <3>2, <4>2, <4>3, <4>4
    <3>5. QED
      BY <1>1, <3>1, <3>3, <3>4
  <2>5. QED
    BY <2>3, <2>4 DEF Told
<1>3. ASSUME NEW i \in 1 .. Len(fj[e]) - 1, Defers(e, fj[e][i]), fj[e][i][2].k = "deferred"
      PROVE  fj[e][i + 1] = << g.state[fj[e][i][2].id], g.value[fj[e][i][2].id] >>
  <2> DEFINE c == fj[e][i][2].id
             y == fj[e][i + 1]
  <2>1. i \in 1 .. n /\ fj[e][i] = fi[e][i] /\ y \in Arm \X Value /\ y = << h.state[c], h.value[c] >>
    BY <1>2, <1>3
  <2>2. c \in Deferreds
    BY <1>3, <2>1, Firsts
  <2> HIDE DEF c, y, n, k
  <2>3. h.state[c] # "pending"
    BY <2>1, Constants
  <2>4. g.state[c] = h.state[c] /\ g.value[c] = h.value[c]
    BY <2>2, <2>3 DEF Later
  <2>5. y = << g.state[c], g.value[c] >>
    BY <2>1, <2>4
  <2>6. QED
    BY <2>5 DEF y, c
<1>4. QED
  BY <1>3 DEF Follows

(* The first that does not put e off decides, when it speaks.              *)
LEMMA SaysSettling ==
  ASSUME NEW h, NEW g, Later(h, g), NEW md \in [Deferreds -> Nat], NEW fi, FirstOK(fi),
         NEW e \in Deferreds, OutcomeOK(h, md, fi, e),
         NEW arm \in Arm, NEW v \in Value, MaySay(h, fi, e, md[e], << arm, v >>),
         NEW fj, Told(fi, fj, e, md[e], << arm, v >>), ~ Defers(e, << arm, v >>),
         h.state[e] = "pending" => << g.state[e], g.value[e] >> = Verdict(e, << arm, v >>)
  PROVE  OutcomeOK(g, md, fj, e)
<1> DEFINE k == md[e]
           n == Len(fi[e])
           x == << arm, v >>
           Decided(f, y, i) == /\ ~ Defers(e, f[e][i])
                               /\ \A j \in 1 .. i - 1 : Defers(e, f[e][j])
                               /\ << y.state[e], y.value[e] >> = Verdict(e, f[e][i])
<1>1. k \in Nat /\ n \in Nat /\ k <= n /\ n <= k + 1
  BY Firsts DEF OutcomeOK
<1>2. Follows(g, fj, e)
  BY ToldFollows
<1>3. CASE n > k /\ fj = fi
  <2>1. n = k + 1 /\ ~ Defers(e, fi[e][n]) /\ n \in 1 .. n
    BY <1>1, <1>3 DEF OutcomeOK
  <2>2. h.state[e] # "pending"
    BY <2>1 DEF OutcomeOK
  <2>3. g.state[e] = h.state[e] /\ g.value[e] = h.value[e]
    BY <2>2 DEF Later
  <2>4. QED
    BY <1>3, <2>3, OutcomeLater
<1>4. CASE n <= k /\ Len(fj[e]) = n + 1 /\ fj[e][n + 1] = x
           /\ \A i \in 1 .. n : fj[e][i] = fi[e][i]
  <2>1. n = k
    BY <1>1, <1>4
  <2>2. /\ md[e] <= Len(fj[e]) /\ Len(fj[e]) <= md[e] + 1
        /\ Len(fj[e]) = md[e] + 1 => ~ Defers(e, fj[e][md[e] + 1])
    BY <1>1, <1>4, <2>1
  <2>3. CASE h.state[e] = "pending"
    <3>1. \A i \in 1 .. n : Defers(e, fj[e][i])
      BY <1>4, <2>3 DEF OutcomeOK
    <3>2. << g.state[e], g.value[e] >> = Verdict(e, x)
      BY <2>3
    <3>3. Decided(fj, g, n + 1)
      <4>1. \A j \in 1 .. (n + 1) - 1 : Defers(e, fj[e][j])
        BY <1>1, <3>1
      <4> HIDE DEF n, k
      <4>2. QED
        BY <1>4, <3>2, <4>1
    <3>4. g.state[e] # "pending"
      <4>1. Verdict(e, x)[1] \in Arm
        BY DEF Verdict, Arm
      <4>2. g.state[e] = Verdict(e, x)[1]
        BY <3>2
      <4>3. QED
        BY <4>1, <4>2, Constants
    <3>5. n + 1 \in 1 .. Len(fj[e])
      BY <1>1, <1>4
    <3>6. QED
      BY <1>2, <2>2, <3>3, <3>4, <3>5 DEF OutcomeOK, Follows
  <2>4. CASE h.state[e] # "pending"
    <3>1. PICK i \in 1 .. n : Decided(fi, h, i)
      BY <2>4 DEF OutcomeOK
    <3>2. g.state[e] = h.state[e] /\ g.value[e] = h.value[e]
      BY <2>4 DEF Later
    <3>3. i \in 1 .. Len(fj[e]) /\ fj[e][i] = fi[e][i]
      BY <1>1, <1>4, <3>1
    <3>4. \A j \in 1 .. i - 1 : fj[e][j] = fi[e][j]
      BY <1>1, <1>4, <3>1
    <3>5. Decided(fj, g, i)
      BY <3>1, <3>2, <3>3, <3>4
    <3>6. QED
      BY <1>2, <2>2, <2>4, <3>2, <3>3, <3>5 DEF OutcomeOK, Follows
  <2>5. QED
    BY <2>3, <2>4
<1>5. QED
  BY <1>3, <1>4 DEF Told

\* e waits for its thenable number mu[e], because of x
NowPutOff(h, mu, fj, e, x) ==
    OutcomeOK(h, mu, fj, e) /\ (PutOff(fj, e, mu[e]) => fj[e][mu[e]] = x)

(* One that puts e off makes room for the next.                            *)
LEMMA SaysDeferring ==
  ASSUME NEW h, NEW md \in [Deferreds -> Nat], NEW fi, FirstOK(fi),
         NEW e \in Deferreds, OutcomeOK(h, md, fi, e),
         NEW x \in Arm \X Value, MaySay(h, fi, e, md[e], x),
         NEW fj, Told(fi, fj, e, md[e], x), Defers(e, x),
         NEW mu \in [Deferreds -> Nat], mu[e] = md[e] + 1
  PROVE  NowPutOff(h, mu, fj, e, x)
<1> DEFINE k == md[e]
           n == Len(fi[e])
           Decided(f, y, i) == /\ ~ Defers(e, f[e][i])
                               /\ \A j \in 1 .. i - 1 : Defers(e, f[e][j])
                               /\ << y.state[e], y.value[e] >> = Verdict(e, f[e][i])
<1>1. k \in Nat /\ n \in Nat /\ k <= n /\ n <= k + 1
  BY Firsts DEF OutcomeOK
<1>2. Follows(h, fj, e)
  <2>1. Later(h, h)
    BY DEF Later
  <2> HIDE DEF k, n, Decided
  <2>2. PICK arm \in Arm, v \in Value : x = << arm, v >>
    OBVIOUS
  <2>3. MaySay(h, fi, e, md[e], << arm, v >>) /\ Told(fi, fj, e, md[e], << arm, v >>)
    BY <2>2, Zenon
  <2>4. QED
    BY <2>1, <2>3, ToldFollows
<1>3. CASE n > k /\ fj = fi
  <2>1. n = k + 1 /\ ~ Defers(e, fi[e][n])
    BY <1>1, <1>3 DEF OutcomeOK
  <2>2. mu[e] <= Len(fj[e]) /\ Len(fj[e]) <= mu[e] + 1 /\ Len(fj[e]) # mu[e] + 1
    BY <1>1, <1>3, <2>1
  <2>3. ~ PutOff(fj, e, mu[e])
    BY <1>3, <2>1 DEF PutOff
  <2>4. OutcomeOK(h, mu, fj, e)
    BY <1>3, <2>2 DEF OutcomeOK
  <2>5. QED
    BY <1>3, <2>3, <2>4 DEF NowPutOff
<1>4. CASE n <= k /\ Len(fj[e]) = n + 1 /\ fj[e][n + 1] = x
           /\ \A i \in 1 .. n : fj[e][i] = fi[e][i]
  <2>1. n = k
    BY <1>1, <1>4
  <2>2. mu[e] <= Len(fj[e]) /\ Len(fj[e]) <= mu[e] + 1 /\ Len(fj[e]) # mu[e] + 1
    BY <1>1, <1>4, <2>1
  <2>3. CASE h.state[e] = "pending"
    <3>1. \A i \in 1 .. n : Defers(e, fj[e][i])
      BY <1>4, <2>3 DEF OutcomeOK
    <3>2. \A i \in 1 .. Len(fj[e]) : Defers(e, fj[e][i])
      <4>1. \A i \in 1 .. Len(fj[e]) : i \in 1 .. n \/ i = n + 1
        BY <1>1, <1>4
      <4>2. Defers(e, fj[e][n + 1])
        BY <1>4
      <4>3. QED
        BY <3>1, <4>1, <4>2
    <3>3. QED
      BY <1>2, <1>4, <2>1, <2>2, <2>3, <3>2 DEF OutcomeOK, Follows, NowPutOff
  <2>4. CASE h.state[e] # "pending"
    <3>1. PICK i \in 1 .. n : Decided(fi, h, i)
      BY <2>4 DEF OutcomeOK
    <3>3. i \in 1 .. Len(fj[e]) /\ fj[e][i] = fi[e][i]
      BY <1>1, <1>4, <3>1
    <3>4. \A j \in 1 .. i - 1 : fj[e][j] = fi[e][j]
      BY <1>1, <1>4, <3>1
    <3>5. Decided(fj, h, i)
      BY <3>1, <3>3, <3>4
    <3>6. QED
      BY <1>2, <1>4, <2>1, <2>2, <2>4, <3>3, <3>5 DEF OutcomeOK, Follows, NowPutOff
  <2>5. QED
    BY <2>3, <2>4
<1>5. QED
  BY <1>3, <1>4 DEF Told

\* the outcomes of the others stay as they are
LEMMA OtherOutcomes ==
  ASSUME NEW h, NEW g, Later(h, g), NEW md, NEW fi, FirstOK(fi), NEW src,
         AllOutcomes(h, md, fi, src), NEW e \in Deferreds, src[e] # 0, NEW mu, NEW fj,
         \A y \in Deferreds : y # e => fj[y] = fi[y] /\ mu[y] = md[y],
         \A y \in Deferreds : y # e /\ src[y] # 0 =>
            g.state[y] = h.state[y] /\ g.value[y] = h.value[y],
         OutcomeOK(g, mu, fj, e)
  PROVE  AllOutcomes(g, mu, fj, src)
<1> SUFFICES ASSUME NEW y \in Deferreds
             PROVE  IF src[y] = 0 THEN fj[y] = << >> /\ mu[y] = 0 ELSE OutcomeOK(g, mu, fj, y)
  BY DEF AllOutcomes
<1>1. CASE y = e
  BY <1>1
<1>2. CASE y # e /\ src[y] = 0
  BY <1>2 DEF AllOutcomes
<1>3. CASE y # e /\ src[y] # 0
  <2>1. OutcomeOK(h, md, fi, y)
    BY <1>3 DEF AllOutcomes
  <2>2. OutcomeOK(g, md, fi, y)
    BY <1>3, <2>1, OutcomeLater
  <2>3. fj[y] = fi[y] /\ mu[y] = md[y]
    BY <1>3
  <2>4. QED
    BY <1>3, <2>2, <2>3 DEF OutcomeOK
<1>4. QED
  BY <1>1, <1>2, <1>3

\* all outcomes stay as they are
LEMMA SameOutcomes ==
  ASSUME NEW h, NEW g, Later(h, g), NEW md, NEW fi, FirstOK(fi), NEW src,
         AllOutcomes(h, md, fi, src),
         \A y \in Deferreds : src[y] # 0 => g.state[y] = h.state[y] /\ g.value[y] = h.value[y]
  PROVE  AllOutcomes(g, md, fi, src)
<1> SUFFICES ASSUME NEW y \in Deferreds, src[y] # 0
             PROVE  OutcomeOK(g, md, fi, y)
  BY DEF AllOutcomes
<1>1. OutcomeOK(h, md, fi, y)
  BY DEF AllOutcomes
<1>2. QED
  BY <1>1, OutcomeLater

-----------------------------------------------------------------------------
(* The stack and the functions grow *)

\* the frames for W stand in su as they do in st, k places away
Shifted(st, su, k, W) ==
    \A i \in 1 .. Len(su) :
        su[i].what \in W => i + k \in 1 .. Len(st) /\ st[i + k] = su[i]

LEMMA PushedFrame ==
  ASSUME NEW st \in Seq(Frame), NEW f \in Frame, NEW su, su = << f >> \o st
  PROVE  /\ su \in Seq(Frame) /\ Len(su) = Len(st) + 1 /\ su[1] = f
         /\ \A i \in 1 .. Len(su) : i = 1 \/ (i - 1 \in 1 .. Len(st) /\ su[i] = st[i - 1])
         /\ \A W : f.what \notin W => Shifted(st, su, -1, W)
<1> DEFINE s1 == << f >>
<1>1. s1 \in Seq(Frame) /\ Len(s1) = 1 /\ s1[1] = f /\ Len(st) \in Nat
  OBVIOUS
<1> HIDE DEF s1
<1>2. su = s1 \o st
  BY DEF s1
<1>3. /\ su \in Seq(Frame) /\ Len(su) = Len(s1) + Len(st)
      /\ \A i \in 1 .. Len(s1) + Len(st) :
           su[i] = IF i <= Len(s1) THEN s1[i] ELSE st[i - Len(s1)]
  BY <1>1, <1>2, ConcatProperties
<1>4. Len(su) = Len(st) + 1 /\ su[1] = f
  BY <1>1, <1>3
<1>5. ASSUME NEW i \in 1 .. Len(su), i # 1
      PROVE  i - 1 \in 1 .. Len(st) /\ su[i] = st[i - 1]
  BY <1>1, <1>3, <1>4, <1>5
<1>6. ASSUME NEW W, f.what \notin W
      PROVE  Shifted(st, su, -1, W)
  <2>1. ASSUME NEW i \in 1 .. Len(su), su[i].what \in W
        PROVE  i + (-1) \in 1 .. Len(st) /\ st[i + (-1)] = su[i]
    <3>1. i # 1
      BY <1>4, <1>6, <2>1
    <3>2. i - 1 \in 1 .. Len(st) /\ su[i] = st[i - 1] /\ i + (-1) = i - 1
      BY <1>5, <3>1
    <3>3. QED
      BY <3>2
  <2>2. QED
    BY <2>1 DEF Shifted
<1>7. QED
  BY <1>3, <1>4, <1>5, <1>6

LEMMA PoppedFrame ==
  ASSUME NEW st \in Seq(Frame), st # << >>
  PROVE  /\ Tail(st) \in Seq(Frame) /\ st[1] \in Frame /\ 1 \in 1 .. Len(st)
         /\ Len(Tail(st)) = Len(st) - 1 /\ Len(st) \in Nat
         /\ \A i \in 1 .. Len(Tail(st)) : i + 1 \in 1 .. Len(st) /\ Tail(st)[i] = st[i + 1]
         /\ \A W : Shifted(st, Tail(st), 1, W)
<1>1. /\ Tail(st) \in Seq(Frame) /\ st[1] \in Frame /\ 1 \in 1 .. Len(st)
      /\ Len(Tail(st)) = Len(st) - 1 /\ Len(st) \in Nat
      /\ \A i \in 1 .. Len(Tail(st)) : Tail(st)[i] = st[i + 1]
  BY HeadTailProperties, EmptySeq
<1>2. \A i \in 1 .. Len(Tail(st)) : i + 1 \in 1 .. Len(st) /\ Tail(st)[i] = st[i + 1]
  BY <1>1
<1>3. \A W : Shifted(st, Tail(st), 1, W)
  BY <1>2 DEF Shifted
<1>4. QED
  BY <1>1, <1>2, <1>3

LEMMA UnshiftedFrames ==
  ASSUME NEW st \in Seq(Frame), NEW W
  PROVE  Shifted(st, st, 0, W)
BY DEF Shifted

\* gs is fs when the foreign thenable f has got fn
FunctionGiven(fs, gs, f, fn) ==
    /\ gs \in [Foreign -> Seq(Given)]
    /\ \A x \in Foreign : \A i \in 1 .. Len(gs[x]) :
         (i \in 1 .. Len(fs[x]) /\ gs[x][i] = fs[x][i]) \/ (x = f /\ gs[x][i] = fn)

LEMMA GivesFunction ==
  ASSUME NEW fs \in [Foreign -> Seq(Given)], NEW f \in Foreign, NEW fn \in Given
  PROVE  FunctionGiven(fs, [fs EXCEPT ![f] = Append(@, fn)], f, fn)
<1> DEFINE gs == [fs EXCEPT ![f] = Append(@, fn)]
<1>1. fs[f] \in Seq(Given) /\ Append(fs[f], fn) \in Seq(Given)
  OBVIOUS
<1>2. gs \in [Foreign -> Seq(Given)] /\ gs[f] = Append(fs[f], fn)
      /\ \A x \in Foreign : x # f => gs[x] = fs[x]
  BY <1>1
<1> HIDE DEF gs
<1>3. ASSUME NEW x \in Foreign, NEW i \in 1 .. Len(gs[x])
      PROVE  (i \in 1 .. Len(fs[x]) /\ gs[x][i] = fs[x][i]) \/ (x = f /\ gs[x][i] = fn)
  <2>1. CASE x = f
    <3>1. i \in 1 .. Len(Append(fs[f], fn))
      BY <1>2, <2>1
    <3>2. \/ i \in 1 .. Len(fs[f]) /\ Append(fs[f], fn)[i] = fs[f][i]
          \/ i = Len(fs[f]) + 1 /\ Append(fs[f], fn)[i] = fn
      BY <1>1, <3>1, AppendAt
    <3>3. QED
      BY <1>2, <2>1, <3>2
  <2>2. CASE x # f
    BY <1>2, <2>2
  <2>3. QED
    BY <2>1, <2>2
<1>4. FunctionGiven(fs, gs, f, fn)
  BY <1>2, <1>3 DEF FunctionGiven
<1>5. QED
  BY <1>4 DEF gs

LEMMA GivenTokens ==
  ASSUME NEW h, NEW st, NEW fs, NEW md, NEW fi, NEW src, Tokens(h, st, fs, md, fi, src),
         NEW gs, NEW f, NEW fn, FunctionGiven(fs, gs, f, fn),
         fn.to # 0 =>
             /\ src[fn.to] # 0 /\ fn.depth \in 1 .. md[fn.to]
             /\ PutOff(fi, fn.to, fn.depth) => fi[fn.to][fn.depth][2].k = "foreign"
  PROVE  Tokens(h, st, gs, md, fi, src)
<1>1. FunctionsOK(fs, md, fi, src)
  BY DEF Tokens
<1>2. ASSUME NEW x \in Foreign, NEW i \in 1 .. Len(gs[x]), gs[x][i].to # 0
      PROVE  /\ src[gs[x][i].to] # 0 /\ gs[x][i].depth \in 1 .. md[gs[x][i].to]
             /\ PutOff(fi, gs[x][i].to, gs[x][i].depth) =>
                  fi[gs[x][i].to][gs[x][i].depth][2].k = "foreign"
  <2>1. CASE i \in 1 .. Len(fs[x]) /\ gs[x][i] = fs[x][i]
    BY <1>1, <1>2, <2>1 DEF FunctionsOK
  <2>2. CASE gs[x][i] = fn
    BY <1>2, <2>2
  <2>3. QED
    BY <2>1, <2>2 DEF FunctionGiven
<1>3. FunctionsOK(gs, md, fi, src)
  BY <1>2 DEF FunctionsOK
<1>4. QED
  BY <1>3 DEF Tokens

-----------------------------------------------------------------------------
(* process() and mightThrow() *)

\* e can be told by its last thenable, when the stack is rest
CanHear(h, rest, e) ==
    /\ World(h, rest, functions, maxDepth, first, source)
    /\ FirstOK(first) /\ maxDepth \in [Deferreds -> Nat]
    /\ functions \in [Foreign -> Seq(Given)] /\ rest \in Seq(Frame)
    /\ WhenOK(whens, h.state, made)
    /\ whens # None => source[whens.primary] = 0
    /\ e \in Deferreds /\ source[e] # 0
    /\ maxDepth[e] = 0 => NoZero(h, rest, e)

LEMMA NoZeroLater ==
  ASSUME NEW h, NEW st, NEW md, NEW fi, ZeroOK(h, st, md, fi), NEW e \in Deferreds, md[e] # 0
  PROVE  NoZero(h, st, e)
BY DEF NoZero, ZeroOK

\* what e was told changes nothing for the others
LEMMA HearTokens ==
  ASSUME NEW h, NEW rest, NEW e, CanHear(h, rest, e),
         NEW x \in Arm \X Value, NEW fj, Told(first, fj, e, maxDepth[e], x),
         NEW mu \in [Deferreds -> Nat], mu[e] >= maxDepth[e],
         \A y \in Deferreds : y # e => mu[y] = maxDepth[y]
  PROVE  /\ Tokens(h, rest, functions, mu, fj, source)
         /\ OutcomeOK(h, maxDepth, first, e) /\ AllOutcomes(h, maxDepth, first, source)
         /\ FirstOK(fj) /\ e \in Deferreds /\ source[e] # 0
         /\ maxDepth \in [Deferreds -> Nat] /\ FirstOK(first)
         /\ \A y \in Deferreds : y # e => fj[y] = first[y]
<1>1. /\ Tokens(h, rest, functions, maxDepth, first, source)
      /\ AllOutcomes(h, maxDepth, first, source)
      /\ FirstOK(first) /\ maxDepth \in [Deferreds -> Nat]
      /\ functions \in [Foreign -> Seq(Given)] /\ rest \in Seq(Frame)
      /\ e \in Deferreds /\ source[e] # 0
  BY DEF CanHear, World
<1>2. OutcomeOK(h, maxDepth, first, e)
  BY <1>1 DEF AllOutcomes
<1>3. NoZero(h, rest, e)
  <2>1. ZeroOK(h, rest, maxDepth, first)
    BY <1>1 DEF Tokens
  <2>2. QED
    BY <1>1, <2>1, NoZeroLater DEF CanHear
<1>4. FirstOK(fj) /\ \A y \in Deferreds : y # e => fj[y] = first[y]
  BY DEF Told
<1>5. maxDepth[e] \in Nat /\ mu[e] \in Nat /\ Len(first[e]) \in Nat /\ maxDepth[e] <= Len(first[e])
  BY <1>1, <1>2, Firsts DEF OutcomeOK
<1>6. \A i \in 1 .. maxDepth[e] : fj[e][i] = first[e][i]
  BY <1>5 DEF Told
<1>7. Tokens(h, rest, functions, mu, fj, source)
  <2>1. maxDepth[e] <= mu[e]
    BY <1>5
  <2>2. \A y \in Deferreds : y # e => fj[y] = first[y] /\ mu[y] = maxDepth[y]
    BY <1>4
  <2>3. maxDepth[e] <= Len(first[e])
    BY <1>5
  <2>4. QED
    BY <1>1, <1>3, <1>4, <1>6, <2>1, <2>2, <2>3, GrowTokens
<1>8. QED
  BY <1>1, <1>2, <1>4, <1>7

\* frames of when()
ByWhen == {"when", "when then"}

\* what when() has given is there as before
SameForWhen(fs, gs) ==
    \A f \in Foreign : \A i \in 1 .. Len(gs[f]) :
        gs[f][i].to = 0 => i \in 1 .. Len(fs[f]) /\ gs[f][i] = fs[f][i]

\* what e becomes when its last thenable speaks
Heard(h, rest, e) ==
    /\ World(Heap', stack', functions', maxDepth', first', source)
    /\ FirstOK(first') /\ maxDepth' \in [Deferreds -> Nat]
    /\ functions' \in [Foreign -> Seq(Given)] /\ stack' \in Seq(Frame)
    /\ Moved(h, whens, e, Heap', whens', made)
    /\ \E k \in Int : Shifted(rest, stack', k, ByWhen)
    /\ SameForWhen(functions, functions')

LEMMA HearSettling ==
  ASSUME NEW h, NEW rest, NEW e, CanHear(h, rest, e),
         NEW arm \in Arm, NEW v \in Value, MaySay(h, first, e, maxDepth[e], << arm, v >>),
         Told(first, first', e, maxDepth[e], << arm, v >>), ~ Defers(e, << arm, v >>),
         NEW s \in Arm, NEW x \in Value, Verdict(e, << arm, v >>) = << s, x >>,
         Settle(h, e, s, x), stack' = rest, UNCHANGED << functions, maxDepth >>
  PROVE  Heard(h, rest, e)
<1> DEFINE fj == first'
           g == Heap'
           u == whens'
<1>1. Told(first, fj, e, maxDepth[e], << arm, v >>)
  OBVIOUS
<1>0. maxDepth \in [Deferreds -> Nat] /\ maxDepth[e] >= maxDepth[e]
      /\ << arm, v >> \in Arm \X Value
  BY DEF CanHear
<1> HIDE DEF fj
<1>2. /\ Tokens(h, rest, functions, maxDepth, fj, source)
      /\ OutcomeOK(h, maxDepth, first, e) /\ AllOutcomes(h, maxDepth, first, source)
      /\ FirstOK(fj) /\ e \in Deferreds /\ source[e] # 0
      /\ maxDepth \in [Deferreds -> Nat] /\ FirstOK(first)
      /\ \A y \in Deferreds : y # e => fj[y] = first[y]
  BY <1>0, <1>1, HearTokens
<1>3. /\ WhenOK(whens, h.state, made)
      /\ whens # None => whens.primary \in Deferreds /\ source[whens.primary] = 0
  BY DEF CanHear, WhenOK, When
<1>4. /\ Tokens(Heap', rest, functions, maxDepth, fj, source)
      /\ Moved(h, whens, e, Heap', whens', made)
      /\ h.state[e] = "pending" => (Heap').state[e] = s /\ (Heap').value[e] = x
  BY <1>2, <1>3, Settles
<1>5. Tokens(g, rest, functions, maxDepth, fj, source) /\ Moved(h, whens, e, g, u, made)
      /\ (h.state[e] = "pending" => << g.state[e], g.value[e] >> = << s, x >>)
  BY <1>4
<1> HIDE DEF g, u
<1>6. Later(h, g) /\ \A y \in Deferreds : y # e /\ source[y] # 0 =>
            g.state[y] = h.state[y] /\ g.value[y] = h.value[y]
  BY <1>3, <1>5 DEF Moved
<1>7. OutcomeOK(g, maxDepth, fj, e)
  BY <1>1, <1>2, <1>5, <1>6, SaysSettling
<1>8. AllOutcomes(g, maxDepth, fj, source)
  BY <1>2, <1>6, <1>7, OtherOutcomes
<1>9. World(g, rest, functions, maxDepth, fj, source)
  BY <1>5, <1>8 DEF World
<1>10. stack' = rest /\ functions' = functions /\ maxDepth' = maxDepth
       /\ functions \in [Foreign -> Seq(Given)] /\ rest \in Seq(Frame)
  BY DEF CanHear
<1>11. Shifted(rest, rest, 0, ByWhen)
  BY <1>10, UnshiftedFrames
<1>12. \E k \in Int : Shifted(rest, stack', k, ByWhen)
  <2>1. Shifted(rest, stack', 0, ByWhen)
    BY <1>10, <1>11, Zenon
  <2>2. 0 \in Int
    OBVIOUS
  <2>3. QED
    BY <2>1, <2>2, Zenon
<1>13. QED
  BY <1>2, <1>5, <1>9, <1>10, <1>12 DEF Heard, SameForWhen, g, u, fj

\* the values are no thenables, Deferreds or foreign ones
LEMMA Values3 ==
  ASSUME NEW v \in Value
  PROVE  /\ v.k \in {"plain", "deferred", "foreign"}
         /\ v.k = "deferred" => v.id \in Deferreds /\ v = [k |-> "deferred", id |-> v.id]
         /\ v.k = "foreign" => v.id \in Foreign
BY DEF Value

LEMMA HearDeferred ==
  ASSUME NEW h, NEW rest, NEW e, CanHear(h, rest, e), NEW v \in Value,
         NEW x, x = << "resolved", v >>,
         MaySay(h, first, e, maxDepth[e], x), Told(first, first', e, maxDepth[e], x),
         v.k = "deferred", v.id # e,
         maxDepth' = [maxDepth EXCEPT ![e] = @ + 1],
         Becomes(Listen(h, v.id, [to |-> e, depth |-> maxDepth'[e], cb |-> {}])),
         stack' = rest, UNCHANGED << functions, whens >>
  PROVE  Heard(h, rest, e)
<1> DEFINE fj == first'
           mu == maxDepth'
           l == [to |-> e, depth |-> mu[e], cb |-> {}]
           g == Listen(h, v.id, l)
<1>1. Told(first, fj, e, maxDepth[e], x)
  OBVIOUS
<1>2. /\ mu \in [Deferreds -> Nat] /\ mu[e] = maxDepth[e] + 1 /\ mu[e] >= maxDepth[e]
      /\ \A y \in Deferreds : y # e => mu[y] = maxDepth[y]
      /\ e \in Deferreds /\ mu[e] > 0
  BY DEF CanHear
<1>3. Becomes(g)
  OBVIOUS
<1>4. v.id \in Deferreds /\ v = [k |-> "deferred", id |-> v.id] /\ x \in Arm \X Value
  BY Values3 DEF Arm
<1>5. Defers(e, x)
  <2>1. v # [k |-> "deferred", id |-> e]
    OBVIOUS
  <2>2. ~ IsSelf(e, x)
    BY <2>1 DEF IsSelf
  <2>3. QED
    BY <2>2 DEF Defers
<1> HIDE DEF fj, mu
<1>6. /\ Tokens(h, rest, functions, mu, fj, source)
      /\ OutcomeOK(h, maxDepth, first, e) /\ AllOutcomes(h, maxDepth, first, source)
      /\ FirstOK(fj) /\ source[e] # 0
      /\ maxDepth \in [Deferreds -> Nat] /\ FirstOK(first)
      /\ \A y \in Deferreds : y # e => fj[y] = first[y]
  BY <1>1, <1>2, <1>4, HearTokens
<1>7. /\ OutcomeOK(h, mu, fj, e)
      /\ PutOff(fj, e, mu[e]) => fj[e][mu[e]] = x
  <2>1. NowPutOff(h, mu, fj, e, x)
    BY <1>1, <1>2, <1>4, <1>5, <1>6, SaysDeferring
  <2>2. QED
    BY <2>1 DEF NowPutOff
<1>8. l \in Listener /\ l.to = e /\ l.depth = mu[e] /\ l.cb = {}
  BY <1>2 DEF Listener
<1> HIDE DEF l
<1>9. Fine(h)
  BY <1>6 DEF Tokens
<1>10. Listened(h, g, v.id, l)
  BY <1>4, <1>8, <1>9, ListenListens
<1>11. Heap' = g /\ g.state = h.state /\ g.value = h.value
  <2>1. Fine(g) /\ g.state = h.state /\ g.value = h.value
    BY <1>10 DEF Listened
  <2> HIDE DEF g
  <2>2. IsHeap(g)
    BY <2>1, HeapIs DEF IsHeap
  <2>3. QED
    BY <1>3, <2>1, <2>2, BecomesIs
<1> HIDE DEF g
<1>12. Tokens(g, rest, functions, mu, fj, source)
  <2>1. ListenerOK(l, mu, source)
    BY <1>2, <1>6, <1>8 DEF ListenerOK
  <2>2. PutOff(fj, l.to, l.depth) => fj[l.to][l.depth][2] = [k |-> "deferred", id |-> v.id]
    <3>1. x[2] = [k |-> "deferred", id |-> v.id]
      BY <1>4
    <3>2. QED
      BY <1>7, <1>8, <3>1
  <2>3. l.depth # 0
    BY <1>2, <1>8
  <2>4. QED
    BY <1>4, <1>6, <1>8, <1>10, <2>1, <2>2, <2>3, ListenTokens
<1>13. Later(h, g)
  BY <1>11 DEF Later
<1>14. OutcomeOK(g, mu, fj, e)
  BY <1>7, <1>11 DEF OutcomeOK
<1>15. AllOutcomes(g, mu, fj, source)
  <2>1. \A y \in Deferreds : y # e => fj[y] = first[y] /\ mu[y] = maxDepth[y]
    BY <1>2, <1>6
  <2>2. \A y \in Deferreds : y # e /\ source[y] # 0 =>
           g.state[y] = h.state[y] /\ g.value[y] = h.value[y]
    BY <1>11
  <2>3. QED
    BY <1>2, <1>6, <1>13, <1>14, <2>1, <2>2, OtherOutcomes
<1>16. World(g, rest, functions, mu, fj, source)
  BY <1>12, <1>15 DEF World
<1>17. /\ stack' = rest /\ functions' = functions /\ whens' = whens
       /\ functions \in [Foreign -> Seq(Given)] /\ rest \in Seq(Frame)
       /\ WhenOK(whens, h.state, made)
  BY DEF CanHear
<1>18. \E k \in Int : Shifted(rest, stack', k, ByWhen)
  <2>1. Shifted(rest, rest, 0, ByWhen)
    BY <1>17, UnshiftedFrames
  <2>2. Shifted(rest, stack', 0, ByWhen)
    BY <1>17, <2>1, Zenon
  <2>3. 0 \in Int
    OBVIOUS
  <2>4. QED
    BY <2>2, <2>3, Zenon
<1>19. Moved(h, whens, e, g, whens, made)
  BY <1>11, <1>17, MovedNot
<1>20. QED
  BY <1>2, <1>6, <1>11, <1>16, <1>17, <1>18, <1>19 DEF Heard, SameForWhen, fj, mu

LEMMA HearForeign ==
  ASSUME NEW h, NEW rest, NEW e, CanHear(h, rest, e), NEW v \in Value,
         NEW x, x = << "resolved", v >>,
         MaySay(h, first, e, maxDepth[e], x), Told(first, first', e, maxDepth[e], x),
         v.k = "foreign",
         maxDepth' = [maxDepth EXCEPT ![e] = @ + 1],
         functions' = [functions EXCEPT ![v.id] = Append(@, [to |-> e, depth |-> maxDepth'[e]])],
         stack' = << [what |-> "then", to |-> e, depth |-> maxDepth[e]] >> \o rest,
         Becomes(h), UNCHANGED whens
  PROVE  Heard(h, rest, e)
<1> DEFINE fj == first'
           mu == maxDepth'
           fn == [to |-> e, depth |-> mu[e]]
           gs == [functions EXCEPT ![v.id] = Append(@, fn)]
           f == [what |-> "then", to |-> e, depth |-> maxDepth[e]]
           su == << f >> \o rest
<1>1. Told(first, fj, e, maxDepth[e], x)
  OBVIOUS
<1>2. /\ mu \in [Deferreds -> Nat] /\ mu[e] = maxDepth[e] + 1 /\ mu[e] >= maxDepth[e]
      /\ \A y \in Deferreds : y # e => mu[y] = maxDepth[y]
      /\ e \in Deferreds /\ mu[e] > 0 /\ mu[e] \in Nat /\ maxDepth[e] \in Nat
  BY DEF CanHear
<1>3. functions' = gs /\ stack' = su
  OBVIOUS
<1>4. v.id \in Foreign /\ x \in Arm \X Value
  BY Values3 DEF Arm
<1>5. Defers(e, x)
  <2>1. v # [k |-> "deferred", id |-> e]
    OBVIOUS
  <2>2. ~ IsSelf(e, x)
    BY <2>1 DEF IsSelf
  <2>3. QED
    BY <2>2 DEF Defers
<1> HIDE DEF fj, mu, fn, gs, f, su
<1>6. /\ Tokens(h, rest, functions, mu, fj, source)
      /\ OutcomeOK(h, maxDepth, first, e) /\ AllOutcomes(h, maxDepth, first, source)
      /\ FirstOK(fj) /\ source[e] # 0
      /\ maxDepth \in [Deferreds -> Nat] /\ FirstOK(first)
      /\ \A y \in Deferreds : y # e => fj[y] = first[y]
  BY <1>1, <1>2, <1>4, HearTokens
<1>7. /\ OutcomeOK(h, mu, fj, e)
      /\ PutOff(fj, e, mu[e]) => fj[e][mu[e]] = x
  <2>1. NowPutOff(h, mu, fj, e, x)
    BY <1>1, <1>2, <1>4, <1>5, <1>6, SaysDeferring
  <2>2. QED
    BY <2>1 DEF NowPutOff
<1>8. PutOff(fj, e, mu[e]) => fj[e][mu[e]][2].k = "foreign"
  <2>1. x[2].k = "foreign"
    OBVIOUS
  <2>2. QED
    BY <1>7, <2>1
<1>9. fn \in Given /\ fn.to = e /\ fn.depth = mu[e]
  BY <1>2, Constants DEF Given, fn
<1>10. f \in Frame /\ f.what = "then" /\ f.to = e /\ f.depth = maxDepth[e]
  BY <1>2 DEF Frame, f
<1>11. functions \in [Foreign -> Seq(Given)] /\ rest \in Seq(Frame) /\ whens' = whens
       /\ WhenOK(whens, h.state, made)
  BY DEF CanHear
<1>12. FunctionGiven(functions, gs, v.id, fn)
  BY <1>4, <1>9, <1>11, GivesFunction DEF gs
<1>13. /\ su \in Seq(Frame) /\ Len(su) = Len(rest) + 1 /\ su[1] = f
       /\ \A i \in 1 .. Len(su) : i = 1 \/ (i - 1 \in 1 .. Len(rest) /\ su[i] = rest[i - 1])
       /\ \A W : f.what \notin W => Shifted(rest, su, -1, W)
  BY <1>10, <1>11, PushedFrame DEF su
<1>14. Tokens(h, rest, gs, mu, fj, source)
  <2>1. fn.depth \in 1 .. mu[fn.to] /\ source[fn.to] # 0
    BY <1>2, <1>6, <1>9
  <2>2. PutOff(fj, fn.to, fn.depth) => fj[fn.to][fn.depth][2].k = "foreign"
    BY <1>8, <1>9
  <2>3. QED
    BY <1>6, <1>12, <2>1, <2>2, GivenTokens
<1>15. FramesOK(su, mu, fj, source)
  <2>1. FramesOK(rest, mu, fj, source)
    BY <1>6 DEF Tokens
  <2>2. ASSUME NEW i \in 1 .. Len(su)
        PROVE  /\ su[i].what = "handler" => source[su[i].to] # 0 /\ su[i].depth = 0
               /\ su[i].what = "then" =>
                    /\ source[su[i].to] # 0 /\ su[i].depth + 1 <= mu[su[i].to]
                    /\ PutOff(fj, su[i].to, su[i].depth + 1) =>
                         fj[su[i].to][su[i].depth + 1][2].k = "foreign"
    <3>1. CASE i = 1
      <4>1. su[i] = f
        BY <1>13, <3>1
      <4>2. f.depth + 1 = mu[e] /\ f.depth + 1 <= mu[e]
        BY <1>2, <1>10
      <4>3. QED
        BY <1>6, <1>8, <1>10, <4>1, <4>2
    <3>2. CASE i - 1 \in 1 .. Len(rest) /\ su[i] = rest[i - 1]
      BY <2>1, <3>2 DEF FramesOK
    <3>3. QED
      BY <1>13, <3>1, <3>2
  <2>3. QED
    BY <2>2 DEF FramesOK
<1>16. Tokens(h, su, gs, mu, fj, source)
  <2>1. Shifted(rest, su, -1, {"handler"})
    BY <1>10, <1>13
  <2>2. \A i \in 1 .. Len(su) : su[i].what = "handler" =>
            /\ i + (-1) \in 1 .. Len(rest) /\ rest[i + (-1)].what = "handler"
            /\ rest[i + (-1)].to = su[i].to
    BY <2>1 DEF Shifted
  <2>3. -1 \in Int
    OBVIOUS
  <2>4. QED
    BY <1>14, <1>15, <2>2, <2>3, StackTokens
<1>17. Heap' = h
  <2>1. IsHeap(h)
    BY <1>6, HeapIs DEF Tokens, IsHeap
  <2>2. QED
    BY <2>1, BecomesIs
<1>18. AllOutcomes(h, mu, fj, source)
  <2>1. \A y \in Deferreds : y # e => fj[y] = first[y] /\ mu[y] = maxDepth[y]
    BY <1>2, <1>6
  <2>2. Later(h, h)
    BY DEF Later
  <2>3. QED
    BY <1>2, <1>6, <1>7, <2>1, <2>2, OtherOutcomes
<1>19. World(h, su, gs, mu, fj, source)
  BY <1>16, <1>18 DEF World
<1>20. \E k \in Int : Shifted(rest, stack', k, ByWhen)
  <2>0. f.what \notin ByWhen
    BY <1>10 DEF ByWhen
  <2>1. Shifted(rest, su, -1, ByWhen)
    BY <1>13, <2>0
  <2>2. Shifted(rest, stack', -1, ByWhen)
    BY <1>3, <2>1, Zenon
  <2>3. -1 \in Int
    OBVIOUS
  <2>4. QED
    BY <2>2, <2>3, Zenon
<1>21. Moved(h, whens, e, h, whens, made)
  BY <1>11, MovedNot
<1>22. gs \in [Foreign -> Seq(Given)] /\ SameForWhen(functions, gs)
  <2>1. fn.to # 0
    BY <1>2, <1>9, Constants
  <2>2. QED
    BY <1>12, <2>1 DEF FunctionGiven, SameForWhen
<1>23. World(Heap', stack', functions', mu, fj, source)
  BY <1>3, <1>17, <1>19, Zenon
<1>24. Moved(h, whens, e, Heap', whens', made)
  BY <1>11, <1>17, <1>21, Zenon
<1>25. functions' \in [Foreign -> Seq(Given)] /\ SameForWhen(functions, functions')
  BY <1>3, <1>22, Zenon
<1>26. QED
  BY <1>2, <1>3, <1>6, <1>13, <1>20, <1>23, <1>24, <1>25 DEF Heard, fj, mu

(* The last thenable of e has called the function for "resolved", or the   *)
(* handler has returned.                                                   *)
LEMMA HearReturned ==
  ASSUME NEW h, NEW rest, NEW e, CanHear(h, rest, e), NEW v \in Value,
         NEW x, x = << "resolved", v >>, MaySay(h, first, e, maxDepth[e], x),
         Said(e, maxDepth[e], "resolved", v), Returned(h, e, maxDepth[e], v, rest)
  PROVE  Heard(h, rest, e)
<1> DEFINE n == maxDepth[e]
<1>1. /\ e \in Deferreds /\ FirstOK(first) /\ n \in Nat
      /\ "resolved" \in Arm /\ "rejected" \in Arm
  BY DEF CanHear, Arm
<1>2. Told(first, first', e, n, x)
  <2>1. Told(first, first', e, n, << "resolved", v >>)
    BY <1>1, SaidTold
  <2>2. QED
    BY <2>1, Zenon
<1>3. CASE v.k = "plain"
  <2>0. v # [k |-> "deferred", id |-> e]
    BY <1>3
  <2>1. Settle(h, e, "resolved", v) /\ stack' = rest /\ UNCHANGED << functions, maxDepth >>
    BY <1>3, <2>0 DEF Returned
  <2>2. ~ Defers(e, << "resolved", v >>) /\ Verdict(e, << "resolved", v >>) = << "resolved", v >>
    BY <1>3 DEF Defers, Verdict, IsSelf
  <2>3. /\ MaySay(h, first, e, maxDepth[e], << "resolved", v >>)
        /\ Told(first, first', e, maxDepth[e], << "resolved", v >>)
    BY <1>2, Zenon
  <2> HIDE DEF n
  <2>4. QED
    BY <1>1, <2>1, <2>2, <2>3, HearSettling
<1>4. CASE v = [k |-> "deferred", id |-> e]
  <2> DEFINE t == PlainValue(TypeError)
  <2>1. Thrown(h, e, n, t, rest)
    BY <1>4 DEF Returned
  <2>2. Counts(e, n)
    BY <1>1 DEF Counts
  <2>3. Settle(h, e, "rejected", t) /\ stack' = rest /\ UNCHANGED << functions, maxDepth >>
    BY <2>1, <2>2 DEF Thrown
  <2>4. ~ Defers(e, << "resolved", v >>) /\ Verdict(e, << "resolved", v >>) = << "rejected", t >>
    BY <1>4 DEF Defers, Verdict, IsSelf
  <2>5. t \in Value
    BY DEF PlainValue, Value
  <2>6. /\ MaySay(h, first, e, maxDepth[e], << "resolved", v >>)
        /\ Told(first, first', e, maxDepth[e], << "resolved", v >>)
    BY <1>2, Zenon
  <2> HIDE DEF n, t
  <2>7. QED
    BY <1>1, <2>3, <2>4, <2>5, <2>6, HearSettling
<1>5. CASE v.k = "deferred" /\ v.id # e
  <2>1. v # [k |-> "deferred", id |-> e]
    BY <1>5
  <2>2. /\ maxDepth' = [maxDepth EXCEPT ![e] = @ + 1]
        /\ Becomes(Listen(h, v.id, [to |-> e, depth |-> maxDepth'[e], cb |-> {}]))
        /\ stack' = rest /\ UNCHANGED << functions, whens >>
    BY <1>5, <2>1 DEF Returned
  <2>3. QED
    BY <1>2, <1>5, <2>2, HearDeferred
<1>6. CASE v.k = "foreign"
  <2>1. v # [k |-> "deferred", id |-> e]
    BY <1>6
  <2>2. /\ maxDepth' = [maxDepth EXCEPT ![e] = @ + 1]
        /\ functions' = [functions EXCEPT ![v.id] =
                            Append(@, [to |-> e, depth |-> maxDepth'[e]])]
        /\ stack' = << [what |-> "then", to |-> e, depth |-> maxDepth[e]] >> \o rest
        /\ Becomes(h) /\ UNCHANGED whens
    BY <1>6, <2>1 DEF Returned
  <2>3. QED
    BY <1>2, <1>6, <2>2, HearForeign
<1>7. v.k \in {"plain", "deferred", "foreign"} /\
      (v.k = "deferred" => v = [k |-> "deferred", id |-> v.id])
  BY Values3
<1>8. QED
  BY <1>3, <1>4, <1>5, <1>6, <1>7

(* ... the function for "rejected", or has thrown an exception that counts *)
LEMMA HearThrown ==
  ASSUME NEW h, NEW rest, NEW e, CanHear(h, rest, e), NEW v \in Value,
         NEW x, x = << "rejected", v >>, MaySay(h, first, e, maxDepth[e], x),
         Said(e, maxDepth[e], "rejected", v), NEW k, Counts(e, k), Thrown(h, e, k, v, rest)
  PROVE  Heard(h, rest, e)
<1>1. /\ e \in Deferreds /\ FirstOK(first) /\ maxDepth[e] \in Nat /\ "rejected" \in Arm
  BY DEF CanHear, Arm
<1>2. Told(first, first', e, maxDepth[e], << "rejected", v >>)
  BY <1>1, SaidTold
<1>3. Settle(h, e, "rejected", v) /\ stack' = rest /\ UNCHANGED << functions, maxDepth >>
  BY DEF Thrown
<1>4. ~ Defers(e, << "rejected", v >>) /\ Verdict(e, << "rejected", v >>) = << "rejected", v >>
  BY DEF Defers, Verdict, IsSelf
<1>5. MaySay(h, first, e, maxDepth[e], << "rejected", v >>)
  BY Zenon
<1>6. QED
  BY <1>1, <1>2, <1>3, <1>4, <1>5, HearSettling

-----------------------------------------------------------------------------
(* What the steps leave as it was *)

LEMMA HeardNothing ==
  ASSUME NEW h, NEW rest, NEW e, World(h, rest, functions, maxDepth, first, source),
         FirstOK(first), maxDepth \in [Deferreds -> Nat],
         functions \in [Foreign -> Seq(Given)], rest \in Seq(Frame),
         WhenOK(whens, h.state, made),
         Becomes(h), stack' = rest, UNCHANGED << whens, functions, maxDepth, first >>
  PROVE  Heard(h, rest, e)
<1>1. Heap' = h
  <2>1. IsHeap(h)
    BY HeapIs DEF World, Tokens, IsHeap
  <2>2. QED
    BY <2>1, BecomesIs
<1>2. /\ stack' = rest /\ functions' = functions /\ maxDepth' = maxDepth /\ first' = first
      /\ whens' = whens
  OBVIOUS
<1>3. World(Heap', stack', functions', maxDepth', first', source)
  BY <1>1, <1>2, Zenon
<1>4. Moved(h, whens, e, h, whens, made)
  BY MovedNot
<1>5. Moved(h, whens, e, Heap', whens', made)
  BY <1>1, <1>2, <1>4, Zenon
<1>6. \E k \in Int : Shifted(rest, stack', k, ByWhen)
  <2>1. Shifted(rest, rest, 0, ByWhen)
    BY UnshiftedFrames
  <2>2. Shifted(rest, stack', 0, ByWhen)
    BY <1>2, <2>1, Zenon
  <2>3. 0 \in Int
    OBVIOUS
  <2>4. QED
    BY <2>2, <2>3, Zenon
<1>7. QED
  BY <1>2, <1>3, <1>5, <1>6 DEF Heard, SameForWhen

LEMMA HearPassOn ==
  ASSUME NEW h, NEW rest, NEW e, CanHear(h, rest, e), NEW v \in Value, NEW arm \in Arm,
         NEW k \in Nat, k <= maxDepth[e],
         NEW x, x = << arm, v >>, MaySay(h, first, e, k, x), PassOn(h, e, k, arm, v, rest)
  PROVE  Heard(h, rest, e)
<1>1. CASE Stale(e, k)
  <2>1. Becomes(h) /\ stack' = rest /\ UNCHANGED << whens, functions, maxDepth, first >>
    BY <1>1 DEF PassOn
  <2>2. /\ World(h, rest, functions, maxDepth, first, source)
        /\ FirstOK(first) /\ maxDepth \in [Deferreds -> Nat]
        /\ functions \in [Foreign -> Seq(Given)] /\ rest \in Seq(Frame)
        /\ WhenOK(whens, h.state, made)
    BY DEF CanHear
  <2>3. QED
    BY <2>1, <2>2, HeardNothing
<1>2. CASE ~ Stale(e, k)
  <2>1. k = maxDepth[e]
    BY <1>2 DEF Stale, CanHear
  <2>2. MaySay(h, first, e, maxDepth[e], x)
    BY <2>1, Zenon
  <2>3. CASE arm = "resolved"
    <3>1. Said(e, k, "resolved", v) /\ Returned(h, e, k, v, rest)
      BY <1>2, <2>3 DEF PassOn
    <3>2. Said(e, maxDepth[e], "resolved", v) /\ Returned(h, e, maxDepth[e], v, rest)
      BY <2>1, <3>1, Zenon
    <3>3. x = << "resolved", v >>
      BY <2>3, Zenon
    <3>4. QED
      BY <2>2, <3>2, <3>3, HearReturned
  <2>4. CASE arm = "rejected"
    <3>1. Said(e, k, "rejected", v) /\ Thrown(h, e, k, v, rest)
      BY <1>2, <2>4 DEF PassOn
    <3>2. Said(e, maxDepth[e], "rejected", v)
      BY <2>1, <3>1, Zenon
    <3>3. x = << "rejected", v >>
      BY <2>4, Zenon
    <3>4. Counts(e, k)
      BY <2>1 DEF Counts, CanHear
    <3>5. QED
      BY <2>2, <3>1, <3>2, <3>3, <3>4, HearThrown
  <2>5. QED
    BY <2>3, <2>4 DEF Arm
<1>3. QED
  BY <1>1, <1>2

LEMMA PrimaryIs ==
  ASSUME NEW w, NEW sts, NEW ms \in 1 .. MaxMade, WhenOK(w, sts, ms)
  PROVE  w # None => /\ w \in When /\ w.primary \in Deferreds /\ w.primary > 1
                     /\ w.primary <= ms /\ Len(w.args) \in 1 .. 2
<1> SUFFICES ASSUME w # None
             PROVE  /\ w \in When /\ w.primary \in Deferreds /\ w.primary > 1
                    /\ w.primary <= ms /\ Len(w.args) \in 1 .. 2
  OBVIOUS
<1>1. /\ w \in When /\ Len(w.args) \in 1 .. 2
      /\ w.primary > 1 /\ w.primary + 2 - Len(w.args) <= ms
  BY DEF WhenOK
<1>2. w.primary \in Deferreds
  BY <1>1 DEF When
<1> DEFINE n == Len(w.args)
           p == w.primary
<1>3. p \in Int /\ n \in 1 .. 2 /\ p + 2 - n <= ms /\ ms \in Int
  BY <1>1, <1>2, Constants
<1> HIDE DEF n, p
<1>4. p <= ms
  BY <1>3
<1>5. QED
  BY <1>1, <1>2, <1>4 DEF p

LEMMA OwnMoved ==
  ASSUME NEW h, NEW w, NEW ms \in 1 .. MaxMade, NEW os, NEW src, NEW g, NEW u,
         NEW d \in Deferreds, WhenOK(w, h.state, ms), Own(w, ms, os, h.state, src),
         Moved(h, w, d, g, u, ms), ~ Unused(w, ms, d)
  PROVE  Own(u, ms, os, g.state, src)
<1>1. /\ \A x \in Deferreds :
           x # d /\ (w # None => x # w.primary) => g.state[x] = h.state[x]
      /\ SameCall(w, u)
  BY DEF Moved
<1>2. w # None => /\ w.primary \in Deferreds /\ w.primary > 1 /\ w.primary <= ms
                  /\ Len(w.args) \in 1 .. 2
  BY PrimaryIs
<1>3. \A e \in Deferreds : Unused(u, ms, e) <=> Unused(w, ms, e)
  BY <1>1 DEF Unused, SameCall
<1>4. ASSUME NEW e \in Deferreds, Unused(w, ms, e)
      PROVE  e # d /\ (w # None => e # w.primary)
  BY <1>2, <1>4, Constants DEF Unused
<1>5. ASSUME NEW e \in Deferreds, Unused(u, ms, e)
      PROVE  src[e] = 0 /\ g.state[e] = "pending" /\ e \notin os
  <2>1. Unused(w, ms, e)
    BY <1>3, <1>5
  <2>2. src[e] = 0 /\ h.state[e] = "pending" /\ e \notin os
    BY <2>1 DEF Own
  <2>3. QED
    BY <1>1, <1>4, <2>1, <2>2
<1>6. ASSUME NEW e \in Deferreds, e = readyList \/ e \in os \/ (u # None /\ e = u.primary)
      PROVE  src[e] = 0
  BY <1>1, <1>6 DEF Own, SameCall
<1>7. os \subseteq 2 .. ms /\ (u # None => u.primary \notin os)
  BY <1>1 DEF Own, SameCall
<1>8. QED
  BY <1>5, <1>6, <1>7 DEF Own

LEMMA ReadyMoved ==
  ASSUME NEW h, NEW w, NEW ms \in 1 .. MaxMade, NEW g, NEW u, NEW d, WhenOK(w, h.state, ms),
         Moved(h, w, d, g, u, ms), d # readyList
  PROVE  g.state[readyList] = h.state[readyList] /\ g.value[readyList] = h.value[readyList]
<1>1. w # None => w.primary # readyList
  BY PrimaryIs DEF readyList
<1>2. QED
  BY <1>1, Constants DEF Moved

LEMMA SameShift ==
  ASSUME NEW s \in Seq(Frame), NEW i \in 1 .. Len(s), NEW j \in 1 .. Len(s), NEW k \in Int,
         i + k = j + k
  PROVE  i = j
OBVIOUS

LEMMA TwoShifts ==
  ASSUME NEW s \in Seq(Frame), NEW i \in 1 .. Len(s), NEW j \in Int, NEW k \in Int
  PROVE  (i + j) + k = i + (j + k) /\ j + k \in Int
OBVIOUS

LEMMA ShiftedTwice ==
  ASSUME NEW a, NEW b, NEW c \in Seq(Frame), NEW j \in Int, NEW k \in Int, NEW W,
         Shifted(a, b, k, W), Shifted(b, c, j, W)
  PROVE  j + k \in Int /\ Shifted(a, c, j + k, W)
<1>1. ASSUME NEW i \in 1 .. Len(c), c[i].what \in W
      PROVE  i + (j + k) \in 1 .. Len(a) /\ a[i + (j + k)] = c[i]
  <2>1. i + j \in 1 .. Len(b) /\ b[i + j] = c[i]
    BY <1>1 DEF Shifted
  <2>2. (i + j) + k \in 1 .. Len(a) /\ a[(i + j) + k] = b[i + j]
    BY <1>1, <2>1 DEF Shifted
  <2>3. (i + j) + k = i + (j + k)
    BY TwoShifts
  <2>4. QED
    BY <2>1, <2>2, <2>3
<1>2. QED
  BY <1>1 DEF Shifted

LEMMA WhenFramesMoved ==
  ASSUME NEW st, NEW su \in Seq(Frame), NEW k, k \in Int,
         Shifted(st, su, k, ByWhen), NEW w, NEW u, SameCall(w, u), NEW fs, NEW gs, WhenFrames(w, st, fs), SameForWhen(fs, gs)
  PROVE  WhenFrames(u, su, gs)
<1>1. \A i \in 1 .. Len(su) : su[i].what = "when" \/ su[i].what = "when then" =>
        i + k \in 1 .. Len(st) /\ st[i + k] = su[i]
  BY DEF Shifted, ByWhen
<1>2. w # None => u # None /\ u.args = w.args /\ u.returned = w.returned
  BY DEF SameCall
<1>3. ASSUME NEW i \in 1 .. Len(su), su[i].what = "when"
      PROVE  /\ u # None /\ u.returned = 0 /\ su[i].i \in 0 .. Len(u.args)
             /\ \A j \in 1 .. Len(su) : su[j].what = "when" => i = j
  <2>1. i + k \in 1 .. Len(st) /\ st[i + k] = su[i]
    BY <1>1, <1>3
  <2>2. /\ w # None /\ w.returned = 0 /\ su[i].i \in 0 .. Len(w.args)
        /\ \A j \in 1 .. Len(st) : st[j].what = "when" => i + k = j
    BY <1>3, <2>1 DEF WhenFrames
  <2>3. ASSUME NEW j \in 1 .. Len(su), su[j].what = "when"
        PROVE  i = j
    <3>1. j + k \in 1 .. Len(st) /\ st[j + k] = su[j]
      BY <1>1, <2>3
    <3>2. i + k = j + k
      BY <2>2, <2>3, <3>1
    <3>3. QED
      BY <3>2, SameShift, Zenon
  <2>4. QED
    BY <1>2, <2>2, <2>3
<1>4. ASSUME NEW i \in 1 .. Len(su), su[i].what = "when then"
      PROVE  u # None /\ su[i].i \in 1 .. Len(u.args)
  <2>1. i + k \in 1 .. Len(st) /\ st[i + k] = su[i]
    BY <1>1, <1>4
  <2>2. w # None /\ su[i].i \in 1 .. Len(w.args)
    BY <1>4, <2>1 DEF WhenFrames
  <2>3. QED
    BY <1>2, <2>2
<1>5. ASSUME NEW f \in Foreign, NEW i \in 1 .. Len(gs[f]), gs[f][i].to = 0
      PROVE  u # None /\ gs[f][i].depth \in 1 .. Len(u.args)
  BY <1>2, <1>5 DEF WhenFrames, SameForWhen
<1>6. QED
  BY <1>3, <1>4, <1>5 DEF WhenFrames

LEMMA HeapState == Heap.state = state /\ Heap.value = value
BY DEF Heap

LEMMA ShiftedFrames ==
  ASSUME Inv, NEW rest \in Seq(Frame), NEW k, k \in Int, Shifted(stack, rest, k, ByWhen)
  PROVE  WhenFrames(whens, rest, functions)
<1>1. WhenFrames(whens, stack, functions) /\ SameForWhen(functions, functions)
  BY DEF Inv, SameForWhen
<1>2. SameCall(whens, whens)
  BY SameItself
<1>3. QED
  BY <1>1, <1>2, WhenFramesMoved

\* the invariant after a step, from its parts
LEMMA PartsInv ==
  ASSUME Inv, NEW h, h.state = state, h.value = value,
         NEW e \in Deferreds, ~ Unused(whens, made, e),
         World(Heap', stack', functions', maxDepth', first', source'),
         FirstOK(first'), maxDepth' \in [Deferreds -> Nat],
         functions' \in [Foreign -> Seq(Given)], stack' \in Seq(Frame),
         Moved(h, whens, e, Heap', whens', made), WhenFrames(whens', stack', functions'),
         UNCHANGED << made, ours, source >>, ReadyOK', ReadyTypes'
  PROVE  Inv'
<1>1. /\ Types /\ WhenOK(whens, h.state, made) /\ Own(whens, made, ours, h.state, source)
      /\ made \in 1 .. MaxMade
  BY DEF Inv, Types
<1> DEFINE g == Heap'
           u == whens'
<1>2. g.state = state' /\ g.value = value'
  BY DEF Heap
<1>3. Moved(h, whens, e, g, u, made)
  OBVIOUS
<1> HIDE DEF g, u
<1>4. Own(u, made, ours, g.state, source)
  BY <1>1, <1>3, OwnMoved
<1>5. WhenOK(u, g.state, made)
  BY <1>3 DEF Moved
<1>6. WhenOK(whens', state', made') /\ Own(whens', made', ours', state', source')
  <2>1. made' = made /\ ours' = ours /\ source' = source
    OBVIOUS
  <2>2. QED
    BY <1>2, <1>4, <1>5, <2>1, Zenon DEF u
<1>7. Types'
  BY <1>1 DEF Types, FirstOK
<1>8. QED
  BY <1>6, <1>7 DEF Inv

LEMMA MovedInv ==
  ASSUME Inv, NEW h, h.state = state, h.value = value, NEW rest \in Seq(Frame),
         WhenFrames(whens, rest, functions),
         NEW e \in Deferreds, ~ Unused(whens, made, e), Heard(h, rest, e),
         UNCHANGED << made, ours, source >>, ReadyOK', ReadyTypes'
  PROVE  Inv'
<1> DEFINE u == whens'
           su == stack'
           gs == functions'
<1>1. /\ World(Heap', stack', functions', maxDepth', first', source)
      /\ FirstOK(first') /\ maxDepth' \in [Deferreds -> Nat]
      /\ functions' \in [Foreign -> Seq(Given)] /\ stack' \in Seq(Frame)
      /\ Moved(h, whens, e, Heap', whens', made)
      /\ SameCall(whens, u)
      /\ \E j \in Int : Shifted(rest, su, j, ByWhen)
      /\ SameForWhen(functions, gs)
  BY DEF Heard, Moved
<1>2. World(Heap', stack', functions', maxDepth', first', source')
  <2>1. source' = source
    OBVIOUS
  <2>2. QED
    BY <1>1, <2>1, Zenon
<1>3. su \in Seq(Frame)
  BY <1>1
<1> HIDE DEF u, su, gs
<1>4. WhenFrames(u, su, gs)
  <2>1. PICK j \in Int : Shifted(rest, su, j, ByWhen)
    BY <1>1
  <2>2. QED
    BY <1>1, <1>3, <2>1, WhenFramesMoved
<1>5. WhenFrames(whens', stack', functions')
  BY <1>4 DEF u, su, gs
<1>6. QED
  BY <1>1, <1>2, <1>5, PartsInv

LEMMA HeardInv ==
  ASSUME Inv, NEW h, h.state = state, h.value = value, NEW rest \in Seq(Frame), NEW k, k \in Int,
         Shifted(stack, rest, k, ByWhen),
         NEW e \in Deferreds, source[e] # 0, Heard(h, rest, e),
         UNCHANGED << made, ours, source, isReady, readyWait, document >>
  PROVE  Inv'
<1>1. /\ Types /\ WhenOK(whens, h.state, made) /\ Own(whens, made, ours, h.state, source)
      /\ ReadyOK
  BY DEF Inv
<1>2. made \in 1 .. MaxMade /\ ~ Unused(whens, made, e) /\ e # readyList
  BY <1>1 DEF Types, Own
<1> DEFINE g == Heap'
           u == whens'
<1>3. Moved(h, whens, e, g, u, made)
  BY DEF Heard
<1>4. g.state = state'
  BY DEF Heap
<1> HIDE DEF g, u
<1>5. g.state[readyList] = h.state[readyList]
  BY <1>1, <1>2, <1>3, ReadyMoved
<1>6. ReadyOK'
  <2>1. state'[readyList] = state[readyList]
    BY <1>4, <1>5
  <2>2. QED
    BY <1>1, <2>1 DEF ReadyOK
<1>7. ReadyTypes'
  BY <1>1 DEF Types, ReadyTypes
<1>8. WhenFrames(whens, rest, functions)
  BY ShiftedFrames
<1>9. QED
  BY <1>2, <1>6, <1>7, <1>8, MovedInv

-----------------------------------------------------------------------------
(* The steps of process() *)

LEMMA InvHears ==
  ASSUME Inv, NEW h, h.state = state, h.value = value, NEW rest \in Seq(Frame),
         Tokens(h, rest, functions, maxDepth, first, source),
         NEW e \in Deferreds, source[e] # 0, maxDepth[e] = 0 => NoZero(h, rest, e)
  PROVE  CanHear(h, rest, e)
<1>1. /\ Types /\ WhenOK(whens, h.state, made) /\ Own(whens, made, ours, state, source)
      /\ AllOutcomes(Heap, maxDepth, first, source)
  BY DEF Inv, World
<1>2. FirstOK(first) /\ made \in 1 .. MaxMade
  BY <1>1 DEF Types, FirstOK
<1>3. AllOutcomes(h, maxDepth, first, source)
  <2>1. Later(Heap, h) /\ \A y \in Deferreds : source[y] # 0 =>
           h.state[y] = Heap.state[y] /\ h.value[y] = Heap.value[y]
    BY HeapState DEF Later
  <2>2. QED
    BY <1>1, <1>2, <2>1, SameOutcomes
<1>4. whens # None => source[whens.primary] = 0
  BY <1>1, <1>2, PrimaryIs DEF Own
<1>5. /\ maxDepth \in [Deferreds -> Nat] /\ functions \in [Foreign -> Seq(Given)]
  BY <1>1 DEF Types
<1>6. World(h, rest, functions, maxDepth, first, source)
  BY <1>3 DEF World
<1>7. QED
  BY <1>1, <1>2, <1>4, <1>5, <1>6 DEF CanHear

LEMMA ValuesIn ==
  ASSUME Inv
  PROVE  /\ \A v \in Values : v \in Value /\ (v.k = "deferred" => v.id \in Known)
         /\ \A p \in Plain : PlainValue(p) \in Value
         /\ \A d \in Known : d \in Deferreds /\ d <= made
<1>1. \A d \in Known : d \in Deferreds /\ d <= made
  <2>1. made \in 1 .. MaxMade /\ MaxMade \in Nat
    BY DeferredAssumption DEF Inv, Types
  <2>2. Known \subseteq 1 .. made
    BY DEF Known
  <2>3. QED
    BY <2>1, <2>2 DEF Deferreds
<1>2. \A p \in Plain : PlainValue(p) \in Value
  BY DEF PlainValue, Value
<1>3. ASSUME NEW v \in Values
      PROVE  v \in Value /\ (v.k = "deferred" => v.id \in Known)
  <2>1. CASE v \in {PlainValue(p) : p \in Plain}
    <3>1. PICK p \in Plain : v = PlainValue(p)
      BY <2>1
    <3>2. v.k = "plain"
      BY <3>1 DEF PlainValue
    <3>3. QED
      BY <1>2, <3>1, <3>2
  <2>2. CASE v \in [k : {"deferred"}, id : Known]
    <3>1. v = [k |-> "deferred", id |-> v.id] /\ v.id \in Known
      BY <2>2
    <3>2. v.id \in Deferreds
      BY <1>1, <3>1
    <3>3. QED
      BY <3>1, <3>2 DEF Value
  <2>3. CASE v \in [k : {"foreign"}, id : Foreign]
    BY <2>3 DEF Value
  <2>4. QED
    BY <2>1, <2>2, <2>3 DEF Values
<1>4. QED
  BY <1>1, <1>2, <1>3

LEMMA TokensNow ==
  ASSUME Inv
  PROVE  /\ Tokens(Heap, stack, functions, maxDepth, first, source)
         /\ AllOutcomes(Heap, maxDepth, first, source)
         /\ Fine(Heap) /\ FirstOK(first) /\ stack \in Seq(Frame)
         /\ maxDepth \in [Deferreds -> Nat] /\ functions \in [Foreign -> Seq(Given)]
         /\ WhenOK(whens, Heap.state, made) /\ made \in 1 .. MaxMade
         /\ World(Heap, stack, functions, maxDepth, first, source)
BY HeapState DEF Inv, World, Tokens, Types, FirstOK

\* the innermost call comes back
LEMMA PoppedTokens ==
  ASSUME Inv, stack # << >>
  PROVE  /\ Tokens(Heap, Tail(stack), functions, maxDepth, first, source)
         /\ FramesOK(stack, maxDepth, first, source)
<1>1. /\ Tail(stack) \in Seq(Frame) /\ stack[1] \in Frame /\ 1 \in 1 .. Len(stack)
      /\ \A i \in 1 .. Len(Tail(stack)) : i + 1 \in 1 .. Len(stack) /\ Tail(stack)[i] = stack[i + 1]
  BY TokensNow, PoppedFrame
<1>2. FramesOK(stack, maxDepth, first, source)
  BY TokensNow DEF Tokens
<1>3. FramesOK(Tail(stack), maxDepth, first, source)
  BY <1>1, <1>2 DEF FramesOK
<1>4. \A i \in 1 .. Len(Tail(stack)) : Tail(stack)[i].what = "handler" =>
        /\ i + 1 \in 1 .. Len(stack) /\ stack[i + 1].what = "handler"
        /\ stack[i + 1].to = Tail(stack)[i].to
  BY <1>1
<1>5. 1 \in Int
  OBVIOUS
<1>6. QED
  BY <1>2, <1>3, <1>4, <1>5, TokensNow, StackTokens

LEMMA PassOnInv ==
  ASSUME Inv, NEW f \in Foreign, NEW i \in 1 .. Len(functions[f]), functions[f][i].to # 0,
         NEW arm \in Arm, NEW v \in Value,
         PassOn(Heap, functions[f][i].to, functions[f][i].depth, arm, v, stack),
         UNCHANGED << made, ours, source, isReady, readyWait, document >>
  PROVE  Inv'
<1> DEFINE e == functions[f][i].to
           k == functions[f][i].depth
<1>1. /\ Tokens(Heap, stack, functions, maxDepth, first, source)
      /\ stack \in Seq(Frame) /\ maxDepth \in [Deferreds -> Nat]
      /\ functions \in [Foreign -> Seq(Given)]
  BY TokensNow
<1>2. e \in Deferreds
  <2>1. \A y \in Given : y.to \in 0 .. MaxMade
    BY DEF Given
  <2>2. functions[f][i] \in Given
    BY <1>1
  <2>3. e \in 0 .. MaxMade /\ e # 0
    BY <2>1, <2>2
  <2> HIDE DEF e
  <2>4. QED
    BY <2>3, DeferredAssumption DEF Deferreds
<1>3. /\ source[e] # 0 /\ k \in 1 .. maxDepth[e]
      /\ PutOff(first, e, k) => first[e][k][2].k = "foreign"
  BY <1>1 DEF Tokens, FunctionsOK
<1>4. PassOn(Heap, e, k, arm, v, stack)
  OBVIOUS
<1> HIDE DEF e, k
<1>5. k \in Nat /\ k <= maxDepth[e] /\ maxDepth[e] # 0
  BY <1>1, <1>2, <1>3
<1>6. CanHear(Heap, stack, e)
  BY <1>1, <1>2, <1>3, <1>5, HeapState, InvHears
<1>7. PICK x : x = << arm, v >>
  OBVIOUS
<1>8. MaySay(Heap, first, e, k, x)
  BY <1>3 DEF MaySay
<1>9. Heard(Heap, stack, e)
  BY <1>4, <1>5, <1>6, <1>7, <1>8, HearPassOn
<1>10. Shifted(stack, stack, 0, ByWhen)
  BY <1>1, UnshiftedFrames
<1>11. 0 \in Int
  OBVIOUS
<1>12. QED
  BY <1>1, <1>2, <1>3, <1>9, <1>10, <1>11, HeapState, HeardInv

\* the handler has ended
LEMMA HandlerDone ==
  ASSUME Inv, In("handler")
  PROVE  /\ stack[1].to \in Deferreds /\ source[stack[1].to] # 0
         /\ first[stack[1].to] = << >> /\ maxDepth[stack[1].to] = 0
         /\ CanHear(Heap, Tail(stack), stack[1].to)
         /\ Tail(stack) \in Seq(Frame)
         /\ Shifted(stack, Tail(stack), 1, ByWhen) /\ 1 \in Int
<1> DEFINE e == stack[1].to
           st == Tail(stack)
<1>1. stack # << >> /\ stack[1].what = "handler"
  BY DEF In
<1>2. /\ st \in Seq(Frame) /\ stack[1] \in Frame /\ 1 \in 1 .. Len(stack)
      /\ Shifted(stack, st, 1, ByWhen)
  BY <1>1, TokensNow, PoppedFrame
<1>0. 1 \in Int
  OBVIOUS
<1>3. Tokens(Heap, st, functions, maxDepth, first, source)
      /\ FramesOK(stack, maxDepth, first, source)
  BY <1>1, PoppedTokens
<1>4. e \in Deferreds /\ source[e] # 0
  <2>1. e \in Deferreds
    BY <1>1, <1>2 DEF Frame
  <2>2. QED
    BY <1>1, <1>2, <1>3, <2>1 DEF FramesOK
<1>5. NoZero(Heap, st, e) /\ first[e] = << >> /\ maxDepth[e] = 0
  BY <1>1, <1>4, TokensNow, HandlerEnded
<1> HIDE DEF e, st
<1>6. CanHear(Heap, st, e)
  BY <1>2, <1>3, <1>4, <1>5, HeapState, InvHears
<1>7. QED
  BY <1>0, <1>2, <1>4, <1>5, <1>6 DEF e, st

LEMMA HandlerReturnsInv ==
  ASSUME Inv, HandlerReturns
  PROVE  Inv'
<1> DEFINE e == stack[1].to
           st == Tail(stack)
<1>1. PICK v \in Values : Said(e, 0, "resolved", v) /\ Returned(Heap, e, 0, v, st)
  BY DEF HandlerReturns
<1>2. UNCHANGED << made, ours, source, isReady, readyWait, document >>
  BY DEF HandlerReturns, userVars, readyVars
<1>3. /\ e \in Deferreds /\ source[e] # 0 /\ first[e] = << >> /\ maxDepth[e] = 0
      /\ CanHear(Heap, st, e) /\ st \in Seq(Frame)
      /\ Shifted(stack, st, 1, ByWhen) /\ 1 \in Int
  BY HandlerDone DEF HandlerReturns
<1> HIDE DEF e, st
<1>4. v \in Value
  BY ValuesIn
<1>5. Said(e, maxDepth[e], "resolved", v) /\ Returned(Heap, e, maxDepth[e], v, st)
  BY <1>1, <1>3, Zenon
<1>6. PICK x : x = << "resolved", v >>
  OBVIOUS
<1>7. MaySay(Heap, first, e, maxDepth[e], x)
  <2>1. ~ PutOff(first, e, maxDepth[e])
    BY <1>3 DEF PutOff
  <2>2. QED
    BY <2>1 DEF MaySay
<1>8. Heard(Heap, st, e)
  BY <1>3, <1>4, <1>5, <1>6, <1>7, HearReturned
<1>9. QED
  BY <1>2, <1>3, <1>8, HeapState, HeardInv

LEMMA HandlerThrowsInv ==
  ASSUME Inv, HandlerThrows
  PROVE  Inv'
<1> DEFINE e == stack[1].to
           st == Tail(stack)
<1>1. PICK p \in Plain : /\ Said(e, 0, "rejected", PlainValue(p))
                         /\ Thrown(Heap, e, 0, PlainValue(p), st)
  BY DEF HandlerThrows
<1>2. UNCHANGED << made, ours, source, isReady, readyWait, document >>
  BY DEF HandlerThrows, userVars, readyVars
<1>3. /\ e \in Deferreds /\ source[e] # 0 /\ first[e] = << >> /\ maxDepth[e] = 0
      /\ CanHear(Heap, st, e) /\ st \in Seq(Frame)
      /\ Shifted(stack, st, 1, ByWhen) /\ 1 \in Int
  BY HandlerDone DEF HandlerThrows
<1> HIDE DEF e, st
<1> DEFINE v == PlainValue(p)
<1>4. v \in Value
  BY ValuesIn
<1>5. Said(e, maxDepth[e], "rejected", v) /\ Thrown(Heap, e, 0, v, st)
  BY <1>1, <1>3, Zenon
<1>6. PICK x : x = << "rejected", v >>
  OBVIOUS
<1> HIDE DEF v
<1>7. MaySay(Heap, first, e, maxDepth[e], x) /\ Counts(e, 0)
  <2>1. ~ PutOff(first, e, maxDepth[e]) /\ Counts(e, 0)
    BY <1>3 DEF PutOff, Counts
  <2>2. QED
    BY <2>1 DEF MaySay
<1>8. Heard(Heap, st, e)
  BY <1>3, <1>4, <1>5, <1>6, <1>7, HearThrown
<1>9. QED
  BY <1>2, <1>3, <1>8, HeapState, HeardInv

\* the innermost call has come back, and nothing else has happened
LEMMA ThenReturnsInv ==
  ASSUME Inv, ThenReturns
  PROVE  Inv'
<1> DEFINE st == Tail(stack)
<1>1. stack # << >> /\ stack' = st /\ UNCHANGED << heapVars, userVars, functions, maxDepth, first >>
  BY DEF ThenReturns, In
<1>2. UNCHANGED << made, ours, source, isReady, readyWait, document, state, value, thens, timers,
                   whens, functions, maxDepth, first >>
  BY <1>1 DEF heapVars, userVars, readyVars
<1>3. Becomes(Heap)
  BY <1>2 DEF Becomes, Heap
<1>4. st \in Seq(Frame) /\ Shifted(stack, st, 1, ByWhen)
  BY <1>1, TokensNow, PoppedFrame
<1>5. World(Heap, st, functions, maxDepth, first, source)
  BY <1>1, PoppedTokens, TokensNow DEF World
<1>6. Heard(Heap, st, readyList)
  BY <1>1, <1>2, <1>3, <1>4, <1>5, TokensNow, HeardNothing
<1>7. readyList \in Deferreds /\ ~ Unused(whens, made, readyList)
  <2>1. made \in 1 .. MaxMade /\ WhenOK(whens, state, made)
    BY DEF Inv, Types
  <2>2. whens # None => whens.primary > 1 /\ whens.primary \in Deferreds
    BY <2>1, PrimaryIs
  <2>3. QED
    BY <2>1, <2>2, Constants DEF Unused, readyList
<1>8. ReadyOK' /\ ReadyTypes'
  BY <1>2 DEF Inv, Types, ReadyOK, ReadyTypes
<1>9. 1 \in Int
  OBVIOUS
<1> HIDE DEF st
<1>10. WhenFrames(whens, st, functions)
  BY <1>4, <1>9, ShiftedFrames
<1>11. QED
  BY <1>2, <1>4, <1>6, <1>7, <1>8, <1>10, HeapState, MovedInv

LEMMA ThenThrowsInv ==
  ASSUME Inv, ThenThrows
  PROVE  Inv'
<1> DEFINE e == stack[1].to
           k == stack[1].depth
           st == Tail(stack)
<1>1. PICK p \in Plain : /\ Said(e, k + 1, "rejected", PlainValue(p))
                         /\ Thrown(Heap, e, k, PlainValue(p), st)
  BY DEF ThenThrows
<1>2. /\ UNCHANGED << made, ours, source, isReady, readyWait, document >>
      /\ stack # << >> /\ stack[1].what = "then"
  BY DEF ThenThrows, userVars, readyVars, In
<1>3. /\ st \in Seq(Frame) /\ stack[1] \in Frame /\ 1 \in 1 .. Len(stack)
      /\ Shifted(stack, st, 1, ByWhen)
  BY <1>2, TokensNow, PoppedFrame
<1>4. Tokens(Heap, st, functions, maxDepth, first, source)
      /\ FramesOK(stack, maxDepth, first, source)
  BY <1>2, PoppedTokens
<1>5. e \in Deferreds /\ k \in Nat
  BY <1>2, <1>3 DEF Frame
<1>6. /\ source[e] # 0 /\ k + 1 <= maxDepth[e]
      /\ PutOff(first, e, k + 1) => first[e][k + 1][2].k = "foreign"
  BY <1>2, <1>3, <1>4 DEF FramesOK
<1> HIDE DEF e, k, st
<1>7. maxDepth[e] \in Nat /\ maxDepth[e] # 0
  BY <1>5, <1>6, TokensNow
<1>8. CanHear(Heap, st, e)
  BY <1>3, <1>4, <1>5, <1>6, <1>7, HeapState, InvHears
<1> DEFINE v == PlainValue(p)
<1>9. v \in Value
  BY ValuesIn
<1>10. Said(e, k + 1, "rejected", v) /\ Thrown(Heap, e, k, v, st)
  BY <1>1
<1> HIDE DEF v
<1>11. ASSUME maxDepth[e] = k + 1 PROVE Heard(Heap, st, e)
  <2>1. Said(e, maxDepth[e], "rejected", v)
    BY <1>10, <1>11, Zenon
  <2>2. PICK x : x = << "rejected", v >>
    OBVIOUS
  <2>3. MaySay(Heap, first, e, maxDepth[e], x)
    <3>1. PutOff(first, e, maxDepth[e]) => first[e][maxDepth[e]][2].k = "foreign"
      BY <1>6, <1>11, Zenon
    <3>2. QED
      BY <3>1 DEF MaySay
  <2>4. Counts(e, k)
    BY <1>5, <1>7, <1>11 DEF Counts
  <2>5. Thrown(Heap, e, k, v, st)
    BY <1>10
  <2>6. QED
    BY <1>8, <1>9, <2>1, <2>2, <2>3, <2>4, <2>5, HearThrown
<1>12. ASSUME maxDepth[e] # k + 1 PROVE Heard(Heap, st, e)
  <2>1. ~ Counts(e, k)
    BY <1>5, <1>6, <1>7, <1>12 DEF Counts
  <2>2. Becomes(Heap) /\ stack' = st /\ UNCHANGED << whens, functions, maxDepth >>
    BY <1>10, <2>1 DEF Thrown
  <2>3. Len(first[e]) > k + 1
    <3>1. OutcomeOK(Heap, maxDepth, first, e)
      BY <1>5, <1>6, TokensNow DEF AllOutcomes
    <3>2. Len(first[e]) \in Nat /\ maxDepth[e] <= Len(first[e])
      BY <1>5, <3>1, TokensNow, Firsts DEF OutcomeOK
    <3>3. QED
      BY <1>5, <1>6, <1>7, <1>12, <3>2
  <2>4. first' = first
    <3>1. first \in [Deferreds -> Seq(Arm \X Value)]
      BY TokensNow DEF FirstOK
    <3>2. first' = [first EXCEPT ![e] = first[e]]
      BY <1>10, <2>3 DEF Said
    <3>3. QED
      BY <3>1, <3>2
  <2>5. World(Heap, st, functions, maxDepth, first, source)
    BY <1>4, TokensNow DEF World
  <2>6. Becomes(Heap) /\ stack' = st /\ UNCHANGED << whens, functions, maxDepth, first >>
    BY <2>2, <2>4
  <2>7. QED
    BY <1>3, <2>5, <2>6, TokensNow, HeardNothing
<1>13. Heard(Heap, st, e)
  BY <1>11, <1>12
<1>14. 1 \in Int
  OBVIOUS
<1>15. QED
  BY <1>2, <1>3, <1>5, <1>6, <1>13, <1>14, HeapState, HeardInv

LEMMA RunTimerInv ==
  ASSUME Inv, RunTimer
  PROVE  Inv'
<1> DEFINE t == Head(timers)
           h == [Heap EXCEPT !.timers = Tail(@)]
           e == t.l.to
           k == t.l.depth
<1>1. /\ stack = << >> /\ timers # << >>
      /\ UNCHANGED << made, ours, source, isReady, readyWait, document >>
      /\ IF t.arm \in t.l.cb
         THEN /\ stack' = << [what |-> "handler", to |-> e, depth |-> k] >>
              /\ Becomes(h) /\ UNCHANGED << whens, functions, maxDepth, first >>
         ELSE PassOn(h, e, k, t.arm, t.v, << >>)
  BY DEF RunTimer, userVars, readyVars
<1>2. Heap.timers = timers /\ t = Heap.timers[1] /\ h = WithoutTimer(Heap)
  BY DEF Heap, WithoutTimer
<1>3. Tokens(Heap, << >>, functions, maxDepth, first, source) /\ Heap.timers # << >>
  BY <1>1, <1>2, TokensNow
<1>4. << >> \in Seq(Frame)
  OBVIOUS
<1> HIDE DEF h, t
<1>5. /\ Tokens(h, << >>, functions, maxDepth, first, source)
      /\ h.state = state /\ h.value = value
      /\ t \in TaskSet /\ 1 \in 1 .. Len(Heap.timers)
      /\ k = 0 => NoZero(h, << >>, e) /\ first[e] = << >> /\ maxDepth[e] = 0
  BY <1>2, <1>3, HeapState, TimerTokens
<1>6. t.l \in Listener /\ t.arm \in Arm /\ t.v \in Value
  BY <1>5 DEF TaskSet
<1>7. e \in Deferreds /\ k \in Nat
  BY <1>6, Listeners
<1>8. /\ source[e] # 0 /\ k <= maxDepth[e] /\ (k > 0 => t.l.cb = {})
      /\ PutOff(first, e, k) =>
           /\ first[e][k][2].k = "deferred"
           /\ state[first[e][k][2].id] = t.arm /\ value[first[e][k][2].id] = t.v
  BY <1>2, <1>3, <1>5, HeapState DEF Tokens, TimersOK, ListenerOK
<1> HIDE DEF e, k
<1>9. maxDepth[e] = 0 => NoZero(h, << >>, e)
  BY <1>5, <1>7, <1>8, TokensNow
<1>10. CanHear(h, << >>, e)
  BY <1>4, <1>5, <1>7, <1>8, <1>9, InvHears
<1>11. CASE t.arm \in t.l.cb
  <2> DEFINE f == [what |-> "handler", to |-> e, depth |-> 0]
             su == << f >>
  <2>1. k = 0
    BY <1>7, <1>8, <1>11
  <2>2. /\ stack' = << [what |-> "handler", to |-> e, depth |-> k] >>
        /\ Becomes(h) /\ UNCHANGED << whens, functions, maxDepth, first >>
    BY <1>1, <1>11
  <2>3. stack' = su
    BY <2>1, <2>2, Zenon
  <2>4. Tokens(h, su, functions, maxDepth, first, source)
    BY <1>5, <1>7, <1>8, <2>1, HandlerTokens
  <2>5. World(h, su, functions, maxDepth, first, source)
    BY <1>10, <2>4 DEF CanHear, World
  <2>6. f \in Frame /\ f.what \notin ByWhen
    BY <1>7 DEF Frame, ByWhen
  <2>7. su \in Seq(Frame) /\ Len(su) = 1 /\ su[1] = f
    BY <2>6
  <2> HIDE DEF su, f
  <2>8. Heard(h, su, e)
    <3>1. WhenOK(whens, h.state, made)
      BY <1>10 DEF CanHear
    <3>2. QED
      BY <2>2, <2>3, <2>5, <2>7, <3>1, TokensNow, HeardNothing
  <2>9. Shifted(stack, su, -1, ByWhen)
    <3>1. ASSUME NEW i \in 1 .. Len(su) PROVE su[i].what \notin ByWhen
      BY <2>6, <2>7
    <3>2. QED
      BY <3>1 DEF Shifted
  <2>10. -1 \in Int
    OBVIOUS
  <2>11. QED
    BY <1>1, <1>5, <1>7, <1>8, <2>7, <2>8, <2>9, <2>10, HeardInv
<1>12. CASE t.arm \notin t.l.cb
  <2>1. PassOn(h, e, k, t.arm, t.v, << >>)
    BY <1>1, <1>12
  <2>2. PICK x : x = << t.arm, t.v >>
    OBVIOUS
  <2>3. MaySay(h, first, e, k, x)
    BY <1>5, <1>8, <2>2 DEF MaySay
  <2>4. Heard(h, << >>, e)
    BY <1>6, <1>7, <1>8, <1>10, <2>1, <2>2, <2>3, HearPassOn
  <2>5. Shifted(stack, << >>, 0, ByWhen)
    BY <1>1, <1>4, UnshiftedFrames
  <2>6. 0 \in Int
    OBVIOUS
  <2>7. QED
    BY <1>1, <1>4, <1>5, <1>7, <1>8, <2>4, <2>5, <2>6, HeardInv
<1>13. QED
  BY <1>11, <1>12

-----------------------------------------------------------------------------
(* The steps of when() *)

\* the arguments I of when() have come
LEMMA WhenUpdates ==
  ASSUME Inv, whens # None, NEW I \in SUBSET (1 .. Len(whens.args)), NEW arm \in Arm,
         NEW v \in Value, Becomes(Update(Heap, whens, I, arm, v)),
         whens' = Counted(whens, I, arm), UNCHANGED << functions, maxDepth, first >>,
         NEW st \in Seq(Frame), Tokens(Heap, st, functions, maxDepth, first, source),
         stack' = st
  PROVE  /\ Heard(Heap, st, whens.primary)
         /\ whens.primary \in Deferreds /\ ~ Unused(whens, made, whens.primary)
         /\ ReadyOK /\ UNCHANGED << isReady, readyWait, document >> => ReadyOK'
<1> DEFINE x == Update(Heap, whens, I, arm, v)
           u == Counted(whens, I, arm)
           p == whens.primary
<1>1. /\ Fine(Heap) /\ made \in 1 .. MaxMade /\ WhenOK(whens, Heap.state, made)
      /\ AllOutcomes(Heap, maxDepth, first, source) /\ FirstOK(first)
      /\ maxDepth \in [Deferreds -> Nat] /\ functions \in [Foreign -> Seq(Given)]
  BY TokensNow
<1>2. p \in Deferreds /\ p > 1 /\ p <= made
  BY <1>1, PrimaryIs
<1>3. /\ x = Heap \/ (Heap.state[p] = "pending" /\ \E y \in Value : Settled(Heap, x, p, arm, y))
      /\ WhenOK(u, x.state, made) /\ SameCall(whens, u)
  BY <1>1, UpdateWhen
<1> HIDE DEF x
<1>4. Tokens(x, st, functions, maxDepth, first, source) /\ Moved(Heap, whens, p, x, u, made)
  <2>1. CASE x = Heap
    BY <1>3, <2>1 DEF Moved, Later
  <2>2. ASSUME NEW y \in Value, Settled(Heap, x, p, arm, y), Heap.state[p] = "pending"
        PROVE  Tokens(x, st, functions, maxDepth, first, source) /\ Moved(Heap, whens, p, x, u, made)
    <3>1. Tokens(x, st, functions, maxDepth, first, source)
      BY <1>2, <2>2, SettledTokens
    <3>2. Later(Heap, x)
      BY <1>2, <2>2, SettledLater
    <3>3. \A d \in Deferreds : d # p => x.state[d] = Heap.state[d] /\ x.value[d] = Heap.value[d]
      BY <2>2 DEF Settled
    <3>4. QED
      BY <1>3, <3>1, <3>2, <3>3 DEF Moved
  <2>3. QED
    BY <1>3, <2>1, <2>2
<1>5. Heap' = x
  <2>1. IsHeap(x)
    <3>1. IsHeap(Heap)
      BY <1>1, HeapIs DEF IsHeap
    <3>2. QED
      BY <3>1, UpdatedHeap DEF x
  <2>2. Becomes(x)
    BY DEF x
  <2>3. QED
    BY <2>1, <2>2, BecomesIs
<1>6. AllOutcomes(x, maxDepth, first, source)
  <2>1. source[p] = 0
    BY <1>2 DEF Inv, Own
  <2>2. Later(Heap, x) /\ \A y \in Deferreds : source[y] # 0 =>
           x.state[y] = Heap.state[y] /\ x.value[y] = Heap.value[y]
    BY <1>4, <2>1 DEF Moved
  <2>3. QED
    BY <1>1, <2>2, SameOutcomes
<1> HIDE DEF u, p
<1>7. /\ whens' = u /\ functions' = functions /\ maxDepth' = maxDepth /\ first' = first
      /\ stack' = st
  BY DEF u
<1>8. World(Heap', stack', functions', maxDepth', first', source)
  <2>1. World(x, st, functions, maxDepth, first, source)
    BY <1>4, <1>6 DEF World
  <2>2. QED
    BY <1>5, <1>7, <2>1, Zenon
<1>9. Moved(Heap, whens, p, Heap', whens', made)
  BY <1>4, <1>5, <1>7, Zenon
<1>10. \E k \in Int : Shifted(st, stack', k, ByWhen)
  <2>1. Shifted(st, st, 0, ByWhen)
    BY UnshiftedFrames
  <2>2. Shifted(st, stack', 0, ByWhen)
    BY <1>7, <2>1, Zenon
  <2>3. 0 \in Int
    OBVIOUS
  <2>4. QED
    BY <2>2, <2>3, Zenon
<1>11. Heard(Heap, st, p)
  BY <1>1, <1>7, <1>8, <1>9, <1>10 DEF Heard, SameForWhen
<1>12. ~ Unused(whens, made, p)
  BY <1>1, <1>2, Constants DEF Unused, p
<1>13. ReadyOK /\ UNCHANGED << isReady, readyWait, document >> => ReadyOK'
  <2>1. p # readyList
    BY <1>2 DEF readyList
  <2>2. x.state[readyList] = Heap.state[readyList]
    BY <1>1, <1>4, <2>1, ReadyMoved
  <2>3. state'[readyList] = state[readyList]
    BY <1>5, <2>2 DEF Heap
  <2>4. QED
    BY <2>3 DEF ReadyOK
<1>14. QED
  BY <1>2, <1>11, <1>12, <1>13 DEF p

LEMMA CallFunctionInv ==
  ASSUME Inv, CallFunction
  PROVE  Inv'
<1>0. PICK f \in Foreign, arm \in Arm, v \in Values : \E i \in 1 .. Len(functions[f]) :
        IF functions[f][i].to = 0
        THEN /\ Becomes(Update(Heap, whens, {functions[f][i].depth}, arm, v))
             /\ whens' = Counted(whens, {functions[f][i].depth}, arm)
             /\ UNCHANGED << stack, functions, maxDepth, first >>
        ELSE PassOn(Heap, functions[f][i].to, functions[f][i].depth, arm, v, stack)
  BY DEF CallFunction
<1>1. PICK i \in 1 .. Len(functions[f]) :
        IF functions[f][i].to = 0
        THEN /\ Becomes(Update(Heap, whens, {functions[f][i].depth}, arm, v))
             /\ whens' = Counted(whens, {functions[f][i].depth}, arm)
             /\ UNCHANGED << stack, functions, maxDepth, first >>
        ELSE PassOn(Heap, functions[f][i].to, functions[f][i].depth, arm, v, stack)
  BY <1>0
<1>2. UNCHANGED << made, ours, source, isReady, readyWait, document >>
  BY DEF CallFunction, readyVars
<1>3. v \in Value
  BY ValuesIn
<1>4. CASE functions[f][i].to # 0
  BY <1>1, <1>2, <1>3, <1>4, PassOnInv
<1>5. CASE functions[f][i].to = 0
  <2> DEFINE j == functions[f][i].depth
  <2>1. whens # None /\ j \in 1 .. Len(whens.args)
    BY <1>5 DEF Inv, WhenFrames
  <2>2. /\ Becomes(Update(Heap, whens, {j}, arm, v)) /\ whens' = Counted(whens, {j}, arm)
        /\ UNCHANGED << stack, functions, maxDepth, first >>
    BY <1>1, <1>5
  <2> HIDE DEF j
  <2>3. {j} \in SUBSET (1 .. Len(whens.args))
    BY <2>1
  <2>4. /\ Heard(Heap, stack, whens.primary)
        /\ whens.primary \in Deferreds /\ ~ Unused(whens, made, whens.primary)
        /\ ReadyOK /\ UNCHANGED << isReady, readyWait, document >> => ReadyOK'
    BY <1>3, <2>1, <2>2, <2>3, TokensNow, WhenUpdates
  <2>5. ReadyOK' /\ ReadyTypes' /\ WhenFrames(whens, stack, functions)
    BY <1>2, <2>4 DEF Inv, Types, ReadyTypes
  <2>6. QED
    BY <1>2, <2>4, <2>5, TokensNow, HeapState, MovedInv
<1>6. QED
  BY <1>4, <1>5

LEMMA WhenThenThrowsInv ==
  ASSUME Inv, WhenThenThrows
  PROVE  Inv'
<1> DEFINE i == stack[1].i
           st == Tail(stack)
<1>1. PICK p \in Plain : /\ Becomes(Update(Heap, whens, {i}, "rejected", PlainValue(p)))
                         /\ whens' = Counted(whens, {i}, "rejected")
  BY DEF WhenThenThrows
<1>2. /\ UNCHANGED << made, ours, source, isReady, readyWait, document, functions, maxDepth,
                      first >>
      /\ stack # << >> /\ stack[1].what = "when then" /\ stack' = st
  BY DEF WhenThenThrows, userVars, readyVars, In
<1>3. /\ st \in Seq(Frame) /\ 1 \in 1 .. Len(stack) /\ Shifted(stack, st, 1, ByWhen)
  BY <1>2, TokensNow, PoppedFrame
<1>4. whens # None /\ i \in 1 .. Len(whens.args)
  BY <1>2, <1>3 DEF Inv, WhenFrames
<1>5. Tokens(Heap, st, functions, maxDepth, first, source)
  BY <1>2, PoppedTokens
<1>6. PlainValue(p) \in Value /\ "rejected" \in Arm
  BY ValuesIn DEF Arm
<1> HIDE DEF i, st
<1>7. {i} \in SUBSET (1 .. Len(whens.args))
  BY <1>4
<1>8. /\ Heard(Heap, st, whens.primary)
      /\ whens.primary \in Deferreds /\ ~ Unused(whens, made, whens.primary)
      /\ ReadyOK /\ UNCHANGED << isReady, readyWait, document >> => ReadyOK'
  BY <1>1, <1>2, <1>3, <1>4, <1>5, <1>6, <1>7, WhenUpdates
<1>9. ReadyOK' /\ ReadyTypes'
  BY <1>2, <1>8 DEF Inv, Types, ReadyTypes
<1>10. 1 \in Int
  OBVIOUS
<1>11. WhenFrames(whens, st, functions)
  BY <1>3, <1>10, ShiftedFrames
<1>12. QED
  BY <1>2, <1>3, <1>8, <1>9, <1>11, HeapState, MovedInv

LEMMA InPlaceTokens ==
  ASSUME Inv, NEW st \in Seq(Frame), FramesOK(st, maxDepth, first, source),
         \A j \in 1 .. Len(st) : st[j].what = "handler" =>
            j \in 1 .. Len(stack) /\ st[j] = stack[j]
  PROVE  Tokens(Heap, st, functions, maxDepth, first, source)
<1>1. \A j \in 1 .. Len(st) : st[j].what = "handler" =>
        /\ j + 0 \in 1 .. Len(stack) /\ stack[j + 0].what = "handler"
        /\ stack[j + 0].to = st[j].to
  OBVIOUS
<1>2. Tokens(Heap, stack, functions, maxDepth, first, source) /\ 0 \in Int
  BY TokensNow
<1>3. QED
  BY <1>1, <1>2, StackTokens

\* when() has looked at its argument number i: st is the stack after it
LEMMA WhenLooks ==
  ASSUME Inv, In("when"), stack[1].i > 0, NEW st, st = [stack EXCEPT ![1].i = stack[1].i - 1]
  PROVE  /\ whens # None /\ whens \in When /\ stack[1].i \in 1 .. Len(whens.args)
         /\ Len(whens.args) \in 1 .. 2 /\ whens.args[stack[1].i] \in Value
         /\ whens.returned = 0
         /\ st \in Seq(Frame) /\ WhenFrames(whens, st, functions)
         /\ Tokens(Heap, st, functions, maxDepth, first, source)
<1> DEFINE i == stack[1].i
           f == [what |-> "when", i |-> i - 1]
<1>1. stack # << >> /\ stack[1].what = "when" /\ stack \in Seq(Frame)
  BY TokensNow DEF In
<1>2. stack[1] \in Frame /\ 1 \in 1 .. Len(stack) /\ Len(stack) \in Nat
  BY <1>1, PoppedFrame
<1>3. /\ whens # None /\ whens.returned = 0 /\ i \in 0 .. Len(whens.args)
      /\ \A j \in 1 .. Len(stack) : stack[j].what = "when" => j = 1
  BY <1>1, <1>2 DEF Inv, WhenFrames
<1>4. whens \in When /\ Len(whens.args) \in 1 .. 2
  BY <1>3 DEF Inv, WhenOK
<1>5. i \in 1 .. Len(whens.args) /\ i - 1 \in 0 .. Len(whens.args) /\ i \in 0 .. 2
  <2> DEFINE n == Len(whens.args)
  <2>1. i > 0 /\ n \in 1 .. 2 /\ i \in 0 .. n
    BY <1>3, <1>4
  <2> HIDE DEF i, n
  <2>2. i \in 1 .. n /\ i - 1 \in 0 .. n /\ i \in 0 .. 2
    BY <2>1
  <2>3. QED
    BY <2>2 DEF n
<1>6. whens.args[i] \in Value
  <2>1. whens.args \in Seq(Value)
    BY <1>4 DEF When
  <2> HIDE DEF i
  <2>2. QED
    BY <1>5, <2>1
<1>7. stack[1] = [what |-> "when", i |-> i]
  BY <1>1, <1>2 DEF Frame
<1>8. f \in Frame /\ f.what = "when" /\ f.i = i - 1
  <2> HIDE DEF i
  <2>1. i - 1 \in 0 .. 2
    BY <1>4, <1>5
  <2>2. QED
    BY <2>1 DEF Frame
<1>9. st = [stack EXCEPT ![1] = f]
  <2>1. st = [stack EXCEPT ![1] = [stack[1] EXCEPT !.i = i - 1]]
    OBVIOUS
  <2>2. [stack[1] EXCEPT !.i = i - 1] = f
    <3> HIDE DEF i
    <3>1. QED
      BY <1>7
  <2>3. QED
    BY <2>1, <2>2, Zenon
<1> HIDE DEF f
<1>10. st \in Seq(Frame) /\ Len(st) = Len(stack) /\ st[1] = f
       /\ \A j \in 1 .. Len(st) : j = 1 \/ st[j] = stack[j]
  BY <1>1, <1>2, <1>8, <1>9
<1>11. WhenFrames(whens, st, functions)
  <2>1. ASSUME NEW j \in 1 .. Len(st)
        PROVE  /\ st[j].what = "when" => /\ whens # None /\ whens.returned = 0
                                         /\ st[j].i \in 0 .. Len(whens.args)
                                         /\ \A m \in 1 .. Len(st) : st[m].what = "when" => j = m
               /\ st[j].what = "when then" => whens # None /\ st[j].i \in 1 .. Len(whens.args)
    <3>1. \A m \in 1 .. Len(st) : st[m].what = "when" => m = 1
      BY <1>3, <1>10
    <3>2. CASE j = 1
      BY <1>3, <1>5, <1>8, <1>10, <3>1, <3>2
    <3>3. CASE st[j] = stack[j] /\ j # 1
      BY <1>10, <3>1, <3>3 DEF Inv, WhenFrames
    <3>4. QED
      BY <1>10, <3>2, <3>3
  <2>2. QED
    BY <2>1 DEF Inv, WhenFrames
<1>12. Tokens(Heap, st, functions, maxDepth, first, source)
  <2>1. FramesOK(stack, maxDepth, first, source)
    BY TokensNow DEF Tokens
  <2>2. \A j \in 1 .. Len(st) : st[j].what = "handler" \/ st[j].what = "then" =>
          j \in 1 .. Len(stack) /\ st[j] = stack[j]
    BY <1>8, <1>10
  <2>3. FramesOK(st, maxDepth, first, source)
    BY <2>1, <2>2 DEF FramesOK
  <2>4. \A j \in 1 .. Len(st) : st[j].what = "handler" =>
          j \in 1 .. Len(stack) /\ st[j] = stack[j]
    BY <2>2
  <2>5. QED
    BY <1>10, <2>3, <2>4, InPlaceTokens
<1>13. QED
  BY <1>3, <1>4, <1>5, <1>6, <1>10, <1>11, <1>12

\* an argument that has come
LEMMA ArgumentInv ==
  ASSUME Inv, whens # None, NEW i \in 1 .. Len(whens.args), NEW arm \in Arm, NEW v \in Value,
         Becomes(Update(Heap, whens, {i}, arm, v)), whens' = Counted(whens, {i}, arm),
         NEW st \in Seq(Frame), Tokens(Heap, st, functions, maxDepth, first, source),
         WhenFrames(whens, st, functions), stack' = st,
         UNCHANGED << functions, maxDepth, first, made, ours, source, isReady, readyWait,
                      document >>
  PROVE  Inv'
<1>1. {i} \in SUBSET (1 .. Len(whens.args))
  OBVIOUS
<1>2. UNCHANGED << functions, maxDepth, first >> /\ UNCHANGED << isReady, readyWait, document >>
  OBVIOUS
<1>3. /\ Heard(Heap, st, whens.primary)
      /\ whens.primary \in Deferreds /\ ~ Unused(whens, made, whens.primary)
      /\ ReadyOK /\ UNCHANGED << isReady, readyWait, document >> => ReadyOK'
  BY <1>1, <1>2, WhenUpdates
<1>4. ReadyOK' /\ ReadyTypes'
  BY <1>2, <1>3 DEF Inv, Types, ReadyTypes
<1>5. UNCHANGED << made, ours, source >>
  OBVIOUS
<1>6. QED
  BY <1>3, <1>4, <1>5, HeapState, MovedInv

\* an argument that is waited for
LEMMA WaitsInv ==
  ASSUME Inv, whens # None, NEW i \in 1 .. Len(whens.args), NEW d \in Deferreds,
         whens' = [whens EXCEPT !.waits = @ \cup {<< d, i >>}],
         NEW st \in Seq(Frame), Tokens(Heap, st, functions, maxDepth, first, source),
         WhenFrames(whens, st, functions), stack' = st,
         UNCHANGED << state, value, thens, timers, functions, maxDepth, first, made, ours,
                      source, isReady, readyWait, document >>
  PROVE  Inv'
<1> DEFINE p == whens.primary
           u == [whens EXCEPT !.waits = @ \cup {<< d, i >>}]
<1>1. /\ WhenOK(whens, state, made) /\ made \in 1 .. MaxMade /\ whens \in When
      /\ Len(whens.args) \in 1 .. 2 /\ p \in Deferreds /\ p > 1 /\ p <= made
  BY PrimaryIs DEF Inv, Types
<1>2. i \in 1 .. 2
  <2> DEFINE n == Len(whens.args)
  <2>1. n \in 1 .. 2 /\ i \in 1 .. n
    BY <1>1
  <2> HIDE DEF n
  <2>2. QED
    BY <2>1
<1>3. /\ u \in When /\ u.waits = whens.waits \cup {<< d, i >>}
      /\ u.primary = p /\ u.args = whens.args /\ u.remaining = whens.remaining
      /\ u.said = whens.said /\ u.returned = whens.returned
      /\ u.failed = whens.failed /\ u.again = whens.again
  BY <1>1, <1>2 DEF When
<1> HIDE DEF u
<1>4. u # None
  BY <1>3, NoneAssumption
<1>5. WhenOK(u, state, made)
  <2>1. \A x \in u.waits : x[2] \in 1 .. Len(u.args)
    <3>1. ASSUME NEW x \in u.waits PROVE x[2] \in 1 .. Len(u.args)
      <4>1. x \in whens.waits \/ x[2] = i
        BY <1>3
      <4>2. \A y \in whens.waits : y[2] \in 1 .. Len(whens.args)
        BY <1>1 DEF WhenOK
      <4>3. QED
        BY <1>3, <4>1, <4>2
    <3>2. QED
      BY <3>1
  <2>2. QED
    BY <1>1, <1>3, <1>4, <2>1 DEF WhenOK
<1>6. SameCall(whens, u)
  BY <1>3, <1>4 DEF SameCall
<1>7. Heap' = Heap /\ whens' = u /\ stack' = st /\ functions' = functions /\ maxDepth' = maxDepth
      /\ first' = first /\ source' = source
  BY DEF Heap, u
<1>8. Moved(Heap, whens, p, Heap, u, made)
  BY <1>5, <1>6, HeapState DEF Moved, Later
<1>9. Moved(Heap, whens, p, Heap', whens', made)
  BY <1>7, <1>8, Zenon
<1>10. World(Heap', stack', functions', maxDepth', first', source')
  <2>1. World(Heap, st, functions, maxDepth, first, source)
    BY TokensNow DEF World
  <2>2. QED
    BY <1>7, <2>1, Zenon
<1>11. WhenFrames(whens', stack', functions')
  <2>1. WhenFrames(u, st, functions)
    <3>1. SameForWhen(functions, functions) /\ Shifted(st, st, 0, ByWhen)
      BY UnshiftedFrames DEF SameForWhen
    <3>2. 0 \in Int
      OBVIOUS
    <3>3. QED
      BY <1>6, <3>1, <3>2, WhenFramesMoved
  <2>2. QED
    BY <1>7, <2>1, Zenon
<1>12. /\ FirstOK(first') /\ maxDepth' \in [Deferreds -> Nat]
       /\ functions' \in [Foreign -> Seq(Given)] /\ stack' \in Seq(Frame)
  BY <1>7, TokensNow
<1>13. ~ Unused(whens, made, p)
  BY <1>1, Constants DEF Unused, p
<1>14. ReadyOK' /\ ReadyTypes'
  BY DEF Inv, Types, ReadyTypes, ReadyOK
<1>15. p \in Deferreds /\ UNCHANGED << made, ours, source >>
  BY <1>1
<1> HIDE DEF p
<1>16. QED
  BY <1>9, <1>10, <1>11, <1>12, <1>13, <1>14, <1>15, HeapState, PartsInv

\* when() calls a function
LEMMA PushedTokens ==
  ASSUME NEW h, NEW st \in Seq(Frame), NEW fs, NEW md, NEW fi, NEW src,
         Tokens(h, st, fs, md, fi, src), NEW f \in Frame, f.what \in ByWhen,
         NEW su, su = << f >> \o st
  PROVE  Tokens(h, su, fs, md, fi, src) /\ su \in Seq(Frame)
<1>1. /\ su \in Seq(Frame) /\ Len(su) = Len(st) + 1 /\ su[1] = f /\ Len(st) \in Nat
      /\ \A i \in 1 .. Len(su) : i = 1 \/ (i - 1 \in 1 .. Len(st) /\ su[i] = st[i - 1])
  BY PushedFrame
<1>2. FramesOK(st, md, fi, src)
  BY DEF Tokens
<1>3. f.what # "handler" /\ f.what # "then"
  BY DEF ByWhen
<1>4. \A i \in 1 .. Len(su) : su[i].what = "handler" \/ su[i].what = "then" =>
        i - 1 \in 1 .. Len(st) /\ su[i] = st[i - 1]
  BY <1>1, <1>3
<1>5. FramesOK(su, md, fi, src)
  BY <1>2, <1>4 DEF FramesOK
<1>6. \A i \in 1 .. Len(su) : su[i].what = "handler" =>
        /\ i + (-1) \in 1 .. Len(st) /\ st[i + (-1)].what = "handler"
        /\ st[i + (-1)].to = su[i].to
  <2>1. ASSUME NEW i \in 1 .. Len(su), su[i].what = "handler"
        PROVE  /\ i + (-1) \in 1 .. Len(st) /\ st[i + (-1)].what = "handler"
               /\ st[i + (-1)].to = su[i].to
    <3>1. i - 1 \in 1 .. Len(st) /\ su[i] = st[i - 1] /\ i + (-1) = i - 1
      BY <1>1, <1>4, <2>1
    <3>2. QED
      BY <2>1, <3>1
  <2>2. QED
    BY <2>1
<1>7. -1 \in Int
  OBVIOUS
<1>8. QED
  BY <1>1, <1>5, <1>6, <1>7, StackTokens

\* su is st with the frame f on top
Pushed(st, f, su) ==
    /\ su \in Seq(Frame) /\ Len(su) = Len(st) + 1 /\ su[1] = f
    /\ Len(st) \in Nat /\ Len(su) \in Nat
    /\ \A j \in 1 .. Len(su) : j = 1 \/ (j - 1 \in 1 .. Len(st) /\ su[j] = st[j - 1])

LEMMA PushedWhen ==
  ASSUME NEW st \in Seq(Frame), NEW f \in Frame
  PROVE  Pushed(st, f, << f >> \o st)
<1> DEFINE su == << f >> \o st
<1> HIDE DEF su
<1>1. /\ su \in Seq(Frame) /\ Len(su) = Len(st) + 1 /\ su[1] = f
      /\ \A i \in 1 .. Len(su) : i = 1 \/ (i - 1 \in 1 .. Len(st) /\ su[i] = st[i - 1])
  BY PushedFrame DEF su
<1>2. Pushed(st, f, su)
  BY <1>1 DEF Pushed
<1>3. QED
  BY <1>2 DEF su

LEMMA SameBefore ==
  ASSUME NEW n \in Nat, NEW i \in 1 .. n, NEW j \in 1 .. n, i - 1 = j - 1
  PROVE  i = j
OBVIOUS

LEMMA ArgumentIndex ==
  ASSUME NEW n \in 1 .. 2, NEW i \in 1 .. n
  PROVE  i \in 1 .. 2
OBVIOUS

LEMMA WhenThenFrame ==
  ASSUME NEW i \in 1 .. 2
  PROVE  /\ [what |-> "when then", i |-> i] \in Frame
         /\ [what |-> "when then", i |-> i].what = "when then"
         /\ [what |-> "when then", i |-> i].i = i
         /\ [what |-> "when then", i |-> i].what \in ByWhen
         /\ [to |-> 0, depth |-> i] \in Given
         /\ [to |-> 0, depth |-> i].to = 0 /\ [to |-> 0, depth |-> i].depth = i
<1>1. i \in Nat /\ i \in 0 .. 2
  OBVIOUS
<1>2. [to |-> 0, depth |-> i] \in Given
  BY <1>1, DeferredAssumption DEF Given
<1>3. [what |-> "when then", i |-> i] \in Frame
  BY <1>1 DEF Frame
<1>4. [what |-> "when then", i |-> i].what \in ByWhen
  BY DEF ByWhen
<1>5. QED
  BY <1>2, <1>3, <1>4

LEMMA PrimaryUsed ==
  ASSUME Inv, whens # None
  PROVE  whens.primary \in Deferreds /\ ~ Unused(whens, made, whens.primary)
<1>1. /\ made \in 1 .. MaxMade /\ whens.primary \in Deferreds
      /\ whens.primary > 1 /\ whens.primary <= made
  BY TokensNow, PrimaryIs
<1>2. QED
  BY <1>1, Constants DEF Unused

\* when() calls the then of a foreign thenable, its argument number i
LEMMA WhenThenFrames ==
  ASSUME NEW st \in Seq(Frame), NEW fs, NEW w, WhenFrames(w, st, fs), w # None,
         NEW i \in 1 .. Len(w.args), NEW gs, NEW x \in Foreign, NEW fn, fn.to = 0, fn.depth = i,
         FunctionGiven(fs, gs, x, fn), NEW f \in Frame, f.what = "when then", f.i = i,
         NEW su, su = << f >> \o st
  PROVE  WhenFrames(w, su, gs)
<1>1. /\ su \in Seq(Frame) /\ Len(su) = Len(st) + 1 /\ su[1] = f /\ Len(su) \in Nat
      /\ \A j \in 1 .. Len(su) : j = 1 \/ (j - 1 \in 1 .. Len(st) /\ su[j] = st[j - 1])
  <2>1. Pushed(st, f, su)
    BY PushedWhen, Zenon
  <2>2. QED
    BY <2>1 DEF Pushed
<1>2. ASSUME NEW j \in 1 .. Len(su), su[j].what = "when"
      PROVE  /\ w.returned = 0 /\ su[j].i \in 0 .. Len(w.args)
             /\ \A m \in 1 .. Len(su) : su[m].what = "when" => j = m
  <2>1. j - 1 \in 1 .. Len(st) /\ su[j] = st[j - 1]
    BY <1>1, <1>2
  <2>2. /\ w.returned = 0 /\ su[j].i \in 0 .. Len(w.args)
        /\ \A m \in 1 .. Len(st) : st[m].what = "when" => j - 1 = m
    BY <1>2, <2>1 DEF WhenFrames
  <2>3. ASSUME NEW m \in 1 .. Len(su), su[m].what = "when"
        PROVE  j = m
    <3>1. m - 1 \in 1 .. Len(st) /\ su[m] = st[m - 1]
      BY <1>1, <2>3
    <3>2. j - 1 = m - 1
      BY <2>2, <2>3, <3>1
    <3>3. QED
      BY <1>1, <3>2, SameBefore
  <2>4. QED
    BY <2>2, <2>3
<1>3. ASSUME NEW j \in 1 .. Len(su), su[j].what = "when then"
      PROVE  su[j].i \in 1 .. Len(w.args)
  <2>1. CASE j = 1
    BY <1>1, <2>1
  <2>2. CASE j - 1 \in 1 .. Len(st) /\ su[j] = st[j - 1]
    BY <1>3, <2>2 DEF WhenFrames
  <2>3. QED
    BY <1>1, <2>1, <2>2
<1>4. ASSUME NEW y \in Foreign, NEW j \in 1 .. Len(gs[y]), gs[y][j].to = 0
      PROVE  gs[y][j].depth \in 1 .. Len(w.args)
  <2>1. CASE j \in 1 .. Len(fs[y]) /\ gs[y][j] = fs[y][j]
    BY <1>4, <2>1 DEF WhenFrames
  <2>2. CASE gs[y][j] = fn
    BY <2>2
  <2>3. QED
    BY <2>1, <2>2 DEF FunctionGiven
<1>5. QED
  BY <1>2, <1>3, <1>4 DEF WhenFrames

\* a foreign argument
LEMMA ForeignInv ==
  ASSUME Inv, whens # None, NEW i \in 1 .. Len(whens.args), NEW x \in Foreign,
         functions' = [functions EXCEPT ![x] = Append(@, [to |-> 0, depth |-> i])],
         NEW st \in Seq(Frame), Tokens(Heap, st, functions, maxDepth, first, source),
         WhenFrames(whens, st, functions),
         stack' = << [what |-> "when then", i |-> i] >> \o st,
         UNCHANGED << heapVars, maxDepth, first, made, ours, source, isReady, readyWait,
                      document >>
  PROVE  Inv'
<1> DEFINE p == whens.primary
           fn == [to |-> 0, depth |-> i]
           f == [what |-> "when then", i |-> i]
           gs == [functions EXCEPT ![x] = Append(@, fn)]
           su == << f >> \o st
<1>1. /\ WhenOK(whens, Heap.state, made) /\ made \in 1 .. MaxMade
      /\ Len(whens.args) \in 1 .. 2 /\ p \in Deferreds /\ p > 1 /\ p <= made
  BY TokensNow, PrimaryIs
<1>2. i \in 1 .. 2
  BY <1>1, ArgumentIndex
<1>3. f \in Frame /\ f.what = "when then" /\ f.i = i /\ f.what \in ByWhen
  BY <1>2, WhenThenFrame
<1>4. fn \in Given /\ fn.to = 0 /\ fn.depth = i
  BY <1>2, WhenThenFrame
<1>5. /\ whens' = whens /\ stack' = su /\ functions' = gs /\ maxDepth' = maxDepth
      /\ first' = first /\ source' = source /\ Heap' = Heap
  BY DEF heapVars, Heap
<1> HIDE DEF fn, f
<1>6. FunctionGiven(functions, gs, x, fn)
  BY <1>4, TokensNow, GivesFunction
<1>7. gs \in [Foreign -> Seq(Given)]
  BY <1>6 DEF FunctionGiven
<1> HIDE DEF gs
<1>8. Tokens(Heap, st, gs, maxDepth, first, source)
  BY <1>4, <1>6, GivenTokens
<1>9. Tokens(Heap, su, gs, maxDepth, first, source) /\ su \in Seq(Frame)
  BY <1>3, <1>8, PushedTokens
<1>10. WhenFrames(whens, su, gs)
  BY <1>3, <1>4, <1>6, WhenThenFrames
<1> HIDE DEF su
<1>11. World(Heap', stack', functions', maxDepth', first', source')
  <2>1. World(Heap, su, gs, maxDepth, first, source)
    BY <1>9, TokensNow DEF World
  <2>2. QED
    BY <1>5, <2>1, Zenon
<1>12. WhenFrames(whens', stack', functions')
  BY <1>5, <1>10, Zenon
<1>13. /\ FirstOK(first') /\ maxDepth' \in [Deferreds -> Nat]
       /\ functions' \in [Foreign -> Seq(Given)] /\ stack' \in Seq(Frame)
  BY <1>5, <1>7, <1>9, TokensNow
<1>14. Moved(Heap, whens, p, Heap', whens', made)
  <2>1. Moved(Heap, whens, p, Heap, whens, made)
    BY <1>1, MovedNot
  <2>2. QED
    BY <1>5, <2>1, Zenon
<1>15. ~ Unused(whens, made, p)
  BY PrimaryUsed
<1>16. ReadyOK' /\ ReadyTypes'
  BY DEF Inv, Types, ReadyTypes, ReadyOK, heapVars
<1>17. p \in Deferreds /\ UNCHANGED << made, ours, source >>
  BY <1>1
<1> HIDE DEF p
<1>18. QED
  BY <1>11, <1>12, <1>13, <1>14, <1>15, <1>16, <1>17, HeapState, PartsInv

LEMMA WhenStepInv ==
  ASSUME Inv, WhenStep
  PROVE  Inv'
<1> DEFINE i == stack[1].i
           v == whens.args[i]
           st == [stack EXCEPT ![1].i = i - 1]
<1>1. /\ UNCHANGED << maxDepth, first >>
      /\ UNCHANGED << made, ours, source, isReady, readyWait, document >>
      /\ In("when") /\ i > 0
  BY DEF WhenStep, userVars, readyVars
<1>2. /\ whens # None /\ i \in 1 .. Len(whens.args) /\ v \in Value
      /\ st \in Seq(Frame) /\ WhenFrames(whens, st, functions)
      /\ Tokens(Heap, st, functions, maxDepth, first, source)
  BY <1>1, WhenLooks
<1>3. \/ /\ v.k = "plain"
         /\ Becomes(Update(Heap, whens, {i}, "resolved", v))
         /\ whens' = Counted(whens, {i}, "resolved")
         /\ stack' = st /\ functions' = functions
      \/ /\ v.k = "deferred" /\ state[v.id] = "pending"
         /\ whens' = [whens EXCEPT !.waits = @ \cup {<< v.id, i >>}]
         /\ stack' = st
         /\ UNCHANGED << state, value, thens, timers, functions >>
      \/ /\ v.k = "deferred" /\ state[v.id] # "pending"
         /\ Becomes(Update(Heap, whens, {i}, state[v.id], value[v.id]))
         /\ whens' = Counted(whens, {i}, state[v.id])
         /\ stack' = st /\ functions' = functions
      \/ /\ v.k = "foreign"
         /\ functions' = [functions EXCEPT ![v.id] = Append(@, [to |-> 0, depth |-> i])]
         /\ stack' = << [what |-> "when then", i |-> i] >> \o st
         /\ UNCHANGED heapVars
  <2>1. v.k \in {"plain", "deferred", "foreign"}
    BY <1>2 DEF Value
  <2> HIDE DEF v, i, st
  <2>2. QED
    BY <2>1 DEF WhenStep, v, i, st
<1> HIDE DEF st, i
<1>4. /\ v.k = "deferred" => v.id \in Deferreds
      /\ v.k = "foreign" => v.id \in Foreign
  BY <1>2 DEF Value
<1> HIDE DEF v
<1>5. CASE /\ v.k = "plain"
           /\ Becomes(Update(Heap, whens, {i}, "resolved", v))
           /\ whens' = Counted(whens, {i}, "resolved")
           /\ stack' = st /\ functions' = functions
  <2>1. "resolved" \in Arm
    BY DEF Arm
  <2>2. QED
    BY <1>1, <1>2, <1>5, <2>1, ArgumentInv
<1>6. CASE /\ v.k = "deferred" /\ state[v.id] = "pending"
           /\ whens' = [whens EXCEPT !.waits = @ \cup {<< v.id, i >>}]
           /\ stack' = st
           /\ UNCHANGED << state, value, thens, timers, functions >>
  BY <1>1, <1>2, <1>4, <1>6, WaitsInv
<1>7. CASE /\ v.k = "deferred" /\ state[v.id] # "pending"
           /\ Becomes(Update(Heap, whens, {i}, state[v.id], value[v.id]))
           /\ whens' = Counted(whens, {i}, state[v.id])
           /\ stack' = st /\ functions' = functions
  <2>1. state[v.id] \in Arm /\ value[v.id] \in Value
    <3>1. Fine(Heap) /\ Heap.state = state /\ Heap.value = value
      BY TokensNow, HeapState
    <3>2. state[v.id] \in {"pending"} \cup Arm
      BY <1>4, <1>7, <3>1, HeapIs
    <3>3. value[v.id] \in Value
      BY <1>4, <1>7, <3>1 DEF Fine
    <3>4. QED
      BY <1>7, <3>2, <3>3
  <2>2. QED
    BY <1>1, <1>2, <1>7, <2>1, ArgumentInv
<1>8. CASE /\ v.k = "foreign"
           /\ functions' = [functions EXCEPT ![v.id] = Append(@, [to |-> 0, depth |-> i])]
           /\ stack' = << [what |-> "when then", i |-> i] >> \o st
           /\ UNCHANGED heapVars
  BY <1>1, <1>2, <1>4, <1>8, ForeignInv
<1>9. QED
  BY <1>3, <1>5, <1>6, <1>7, <1>8

-----------------------------------------------------------------------------
(* The ends of when(), and then() *)

LEMMA SourceTokens ==
  ASSUME NEW h, NEW st \in Seq(Frame), NEW fs \in [Foreign -> Seq(Given)], NEW md, NEW fi,
         NEW src, Tokens(h, st, fs, md, fi, src),
         NEW src2, \A x \in Deferreds : src[x] # 0 => src2[x] # 0
  PROVE  Tokens(h, st, fs, md, fi, src2)
<1>1. /\ Fine(h) /\ ThensOK(h, md, fi, src) /\ TimersOK(h, md, fi, src)
      /\ FunctionsOK(fs, md, fi, src) /\ FramesOK(st, md, fi, src) /\ ZeroOK(h, st, md, fi)
  BY DEF Tokens
<1>2. ASSUME NEW l \in Listener, ListenerOK(l, md, src)
      PROVE  ListenerOK(l, md, src2)
  BY <1>2, Listeners DEF ListenerOK
<1>3. ThensOK(h, md, fi, src2)
  <2>1. ASSUME NEW d \in Deferreds, NEW i \in 1 .. Len(h.thens[d])
        PROVE  h.thens[d][i] \in Listener /\ ListenerOK(h.thens[d][i], md, src)
    BY <1>1, HeapIs DEF ThensOK
  <2>2. QED
    BY <1>1, <1>2, <2>1 DEF ThensOK
<1>4. TimersOK(h, md, fi, src2)
  <2>1. ASSUME NEW i \in 1 .. Len(h.timers)
        PROVE  h.timers[i].l \in Listener /\ ListenerOK(h.timers[i].l, md, src)
    BY <1>1, HeapIs DEF TimersOK
  <2>2. QED
    BY <1>1, <1>2, <2>1 DEF TimersOK
<1>5. FunctionsOK(fs, md, fi, src2)
  <2>1. ASSUME NEW f \in Foreign, NEW i \in 1 .. Len(fs[f]), fs[f][i].to # 0
        PROVE  fs[f][i].to \in Deferreds
    <3>1. fs[f][i] \in Given
      OBVIOUS
    <3>2. fs[f][i].to \in 0 .. MaxMade
      BY <3>1 DEF Given
    <3>3. QED
      BY <2>1, <3>2, DeferredAssumption DEF Deferreds
  <2>2. QED
    BY <1>1, <2>1 DEF FunctionsOK
<1>6. FramesOK(st, md, fi, src2)
  <2>1. ASSUME NEW i \in 1 .. Len(st), st[i].what = "handler" \/ st[i].what = "then"
        PROVE  st[i].to \in Deferreds
    <3>1. st[i] \in Frame
      OBVIOUS
    <3>2. QED
      BY <2>1, <3>1 DEF Frame
  <2>2. QED
    BY <1>1, <2>1 DEF FramesOK
<1>7. QED
  BY <1>1, <1>3, <1>4, <1>5, <1>6 DEF Tokens

\* a Deferred that no then() has made is told nothing
LEMMA FreshNoZero ==
  ASSUME NEW h, NEW st, NEW fs, NEW md, NEW fi, NEW src, Tokens(h, st, fs, md, fi, src),
         NEW e \in Deferreds, src[e] = 0
  PROVE  NoZero(h, st, e)
<1>1. ASSUME NEW a \in -1 .. MaxMade, NEW i \in Nat, Zero(h, st, a, i, e)
      PROVE  FALSE
  <2>1. CASE a \in Deferreds /\ i \in 1 .. Len(h.thens[a]) /\ h.thens[a][i].to = e
    BY <2>1 DEF Tokens, ThensOK, ListenerOK
  <2>2. CASE i \in 1 .. Len(h.timers) /\ h.timers[i].l.to = e
    BY <2>2 DEF Tokens, TimersOK, ListenerOK
  <2>3. CASE i \in 1 .. Len(st) /\ st[i].what = "handler" /\ st[i].to = e
    BY <2>3 DEF Tokens, FramesOK
  <2>4. QED
    BY <1>1, <2>1, <2>2, <2>3 DEF Zero
<1>2. QED
  BY <1>1 DEF NoZero

\* h has become g when then() of d has made e
Made(h, g, st, fs, md, fi, src2) ==
    World(g, st, fs, md, fi, src2) /\ IsHeap(g) /\ g.state = h.state /\ g.value = h.value

LEMMA MadeWorld ==
  ASSUME NEW h, NEW st \in Seq(Frame), NEW fs \in [Foreign -> Seq(Given)],
         NEW md \in [Deferreds -> Nat], NEW fi, FirstOK(fi),
         NEW src \in [Deferreds -> 0 .. MaxMade], World(h, st, fs, md, fi, src),
         NEW e \in Deferreds, src[e] = 0, h.state[e] = "pending", NEW d \in Deferreds,
         NEW cb \in SUBSET Arm, NEW src2, src2 = [src EXCEPT ![e] = d]
  PROVE  Made(h, Listen(h, d, [to |-> e, depth |-> 0, cb |-> cb]), st, fs, md, fi, src2)
<1> DEFINE l == [to |-> e, depth |-> 0, cb |-> cb]
           g == Listen(h, d, l)
<1>1. Tokens(h, st, fs, md, fi, src) /\ Fine(h) /\ AllOutcomes(h, md, fi, src)
  BY DEF World, Tokens
<1>2. fi[e] = << >> /\ md[e] = 0
  BY <1>1 DEF AllOutcomes
<1>3. src2[e] = d /\ src2[e] # 0 /\ \A x \in Deferreds : x # e => src2[x] = src[x]
  BY Constants
<1>4. Tokens(h, st, fs, md, fi, src2)
  <2>1. \A x \in Deferreds : src[x] # 0 => src2[x] # 0
    BY <1>3
  <2> HIDE DEF g, l
  <2>2. QED
    BY <1>1, <2>1, SourceTokens
<1>5. NoZero(h, st, e)
  BY <1>1, FreshNoZero
<1>6. l \in Listener /\ l.to = e /\ l.depth = 0
  BY DEF Listener
<1> HIDE DEF l
<1>7. ListenerOK(l, md, src2) /\ ~ PutOff(fi, l.to, l.depth)
  BY <1>2, <1>3, <1>6 DEF ListenerOK, PutOff
<1>8. Listened(h, g, d, l)
  BY <1>1, <1>6, ListenListens
<1> HIDE DEF g
<1>9. Tokens(g, st, fs, md, fi, src2)
  BY <1>2, <1>4, <1>5, <1>6, <1>7, <1>8, ListenTokens
<1>10. g.state = h.state /\ g.value = h.value /\ IsHeap(g)
  BY <1>8, HeapIs DEF Listened, IsHeap
<1>11. AllOutcomes(g, md, fi, src2)
  <2>1. AllOutcomes(g, md, fi, src)
    BY <1>1, <1>10, SameOutcomes DEF Later
  <2>2. OutcomeOK(g, md, fi, e)
    BY <1>2, <1>10 DEF OutcomeOK
  <2>3. QED
    BY <1>3, <2>1, <2>2 DEF AllOutcomes
<1>12. Made(h, g, st, fs, md, fi, src2)
  BY <1>9, <1>10, <1>11 DEF Made, World
<1>13. QED
  BY <1>12 DEF g, l

LEMMA WhenIsReturned ==
  ASSUME Inv, whens # None, NEW r \in Deferreds
  PROVE  LET u == [whens EXCEPT !.returned = r]
         IN /\ u \in When /\ u # None /\ u.primary = whens.primary /\ u.args = whens.args
            /\ u.returned = r /\ WhenOK(u, state, made)
<1> DEFINE u == [whens EXCEPT !.returned = r]
<1>1. WhenOK(whens, state, made) /\ whens \in When
  BY DEF Inv, WhenOK
<1>2. /\ u \in When /\ u.waits = whens.waits
      /\ u.primary = whens.primary /\ u.args = whens.args /\ u.remaining = whens.remaining
      /\ u.said = whens.said /\ u.returned = r
      /\ u.failed = whens.failed /\ u.again = whens.again
  BY <1>1 DEF When
<1> HIDE DEF u
<1>3. u # None
  BY <1>2, NoneAssumption
<1>4. WhenOK(u, state, made)
  BY <1>1, <1>2, <1>3 DEF WhenOK
<1>5. QED
  BY <1>2, <1>3, <1>4 DEF u

\* when() is about to return
LEMMA WhenEnds ==
  ASSUME Inv, In("when"), stack[1].i = 0
  PROVE  /\ whens # None /\ whens.returned = 0 /\ whens \in When
         /\ Tail(stack) \in Seq(Frame)
         /\ Tokens(Heap, Tail(stack), functions, maxDepth, first, source)
         /\ \A u : u # None /\ u.args = whens.args => WhenFrames(u, Tail(stack), functions)
<1> DEFINE st == Tail(stack)
<1>1. stack # << >> /\ stack[1].what = "when" /\ stack \in Seq(Frame)
  BY TokensNow DEF In
<1>2. /\ st \in Seq(Frame) /\ 1 \in 1 .. Len(stack) /\ Len(st) \in Nat
      /\ \A i \in 1 .. Len(st) : i + 1 \in 1 .. Len(stack) /\ st[i] = stack[i + 1]
  BY <1>1, PoppedFrame
<1>3. WhenFrames(whens, stack, functions) /\ WhenOK(whens, state, made)
  BY DEF Inv
<1>4. /\ whens # None /\ whens.returned = 0
      /\ \A j \in 1 .. Len(stack) : stack[j].what = "when" => 1 = j
  BY <1>1, <1>2, <1>3 DEF WhenFrames
<1>5. whens \in When
  BY <1>3, <1>4 DEF WhenOK
<1>6. Tokens(Heap, st, functions, maxDepth, first, source)
  BY <1>1, PoppedTokens
<1> HIDE DEF st
<1>7. ASSUME NEW u, u # None /\ u.args = whens.args
      PROVE  WhenFrames(u, st, functions)
  <2>1. ASSUME NEW i \in 1 .. Len(st)
        PROVE  st[i].what # "when"
    <3>1. i \in Int /\ i > 0
      BY <1>2
    <3>2. i + 1 # 1
      BY <3>1
    <3>3. QED
      BY <1>2, <1>4, <3>2
  <2>2. ASSUME NEW i \in 1 .. Len(st), st[i].what = "when then"
        PROVE  st[i].i \in 1 .. Len(u.args)
    BY <1>2, <1>3, <1>7, <2>2 DEF WhenFrames
  <2>3. ASSUME NEW f \in Foreign, NEW i \in 1 .. Len(functions[f]), functions[f][i].to = 0
        PROVE  functions[f][i].depth \in 1 .. Len(u.args)
    BY <1>3, <1>7, <2>3 DEF WhenFrames
  <2>4. QED
    BY <1>7, <2>1, <2>2, <2>3 DEF WhenFrames
<1>8. QED
  BY <1>2, <1>4, <1>5, <1>6, <1>7 DEF st

LEMMA OwnReturned ==
  ASSUME NEW w, NEW ms, NEW os, NEW sts, NEW src, Own(w, ms, os, sts, src),
         NEW u, w # None, u # None, u.primary = w.primary, u.args = w.args, u.returned # 0,
         NEW src2,
         \A e \in Deferreds :
            src2[e] = src[e] \/ (Unused(w, ms, e) /\ e # readyList /\ e # w.primary
                                 /\ ~ Unused(u, ms, e))
  PROVE  Own(u, ms, os, sts, src2)
<1>1. ASSUME NEW e \in Deferreds, Unused(u, ms, e)
      PROVE  src2[e] = 0 /\ sts[e] = "pending" /\ e \notin os
  <2>1. Unused(w, ms, e)
    BY <1>1 DEF Unused
  <2>2. QED
    BY <1>1, <2>1 DEF Own
<1>2. ASSUME NEW e \in Deferreds, e = readyList \/ e \in os \/ e = u.primary
      PROVE  src2[e] = 0
  <2>1. src[e] = 0
    BY <1>2 DEF Own
  <2>2. Unused(w, ms, e) => e \notin os
    BY DEF Own
  <2>3. QED
    BY <1>2, <2>1, <2>2
<1>3. QED
  BY <1>1, <1>2 DEF Own

LEMMA WhenReturnsInv ==
  ASSUME Inv, WhenReturns
  PROVE  Inv'
<1> DEFINE p == whens.primary
           u == [whens EXCEPT !.returned = p]
           st == Tail(stack)
<1>1. /\ In("when") /\ stack[1].i = 0 /\ whens' = u /\ Heap' = Heap /\ ReadyOK'
      /\ UNCHANGED << state, made, ours, source, maxDepth, first, isReady, readyWait, document >>
  BY DEF WhenReturns, userVars, readyVars, Heap, ReadyOK, Inv
<1>2. \/ \E x \in Foreign :
           /\ functions' = [functions EXCEPT ![x] = Append(@, [to |-> 0, depth |-> 1])]
           /\ stack' = << [what |-> "when then", i |-> 1] >> \o st
           /\ Len(whens.args) = 1
      \/ functions' = functions /\ stack' = st
  <2>1. CASE Len(whens.args) = 1 /\ whens.args[1].k = "foreign"
    <3>1. whens.args[1].id \in Foreign
      <4>1. whens.args \in Seq(Value)
        BY <1>1, WhenEnds DEF When
      <4>2. whens.args[1] \in Value
        BY <2>1, <4>1
      <4>3. QED
        BY <2>1, <4>2, Values3
    <3>2. QED
      BY <2>1, <3>1 DEF WhenReturns
  <2>2. CASE ~ (Len(whens.args) = 1 /\ whens.args[1].k = "foreign")
    BY <2>2 DEF WhenReturns
  <2>3. QED
    BY <2>1, <2>2
<1>3. /\ whens # None /\ whens \in When /\ st \in Seq(Frame)
      /\ Tokens(Heap, st, functions, maxDepth, first, source)
      /\ u # None /\ u.args = whens.args => WhenFrames(u, st, functions)
  BY <1>1, WhenEnds
<1>4. p \in Deferreds
  BY <1>3, PrimaryUsed
<1>5. /\ u # None /\ u.primary = p /\ u.args = whens.args /\ u.returned = p
      /\ WhenOK(u, state, made)
  BY <1>3, <1>4, WhenIsReturned
<1> HIDE DEF u, st
<1>6. WhenFrames(u, st, functions)
  BY <1>3, <1>5
<1>7. /\ Tokens(Heap, stack', functions', maxDepth, first, source)
      /\ WhenFrames(u, stack', functions') /\ stack' \in Seq(Frame)
      /\ functions' \in [Foreign -> Seq(Given)]
  <2>1. CASE functions' = functions /\ stack' = st
    <3>1. /\ Tokens(Heap, st, functions, maxDepth, first, source)
          /\ WhenFrames(u, st, functions) /\ st \in Seq(Frame)
          /\ functions \in [Foreign -> Seq(Given)]
      BY <1>3, <1>6, TokensNow
    <3>2. QED
      BY <2>1, <3>1, Zenon
  <2>2. ASSUME NEW x \in Foreign,
               functions' = [functions EXCEPT ![x] = Append(@, [to |-> 0, depth |-> 1])],
               stack' = << [what |-> "when then", i |-> 1] >> \o st,
               Len(whens.args) = 1
        PROVE  /\ Tokens(Heap, stack', functions', maxDepth, first, source)
               /\ WhenFrames(u, stack', functions') /\ stack' \in Seq(Frame)
               /\ functions' \in [Foreign -> Seq(Given)]
    <3> DEFINE fn == [to |-> 0, depth |-> 1]
               f == [what |-> "when then", i |-> 1]
               gs == [functions EXCEPT ![x] = Append(@, fn)]
               su == << f >> \o st
    <3>1. 1 \in 1 .. 2 /\ 1 \in 1 .. Len(u.args)
      <4> DEFINE n == Len(u.args)
      <4>1. n = 1
        BY <1>5, <2>2, Zenon
      <4> HIDE DEF n
      <4>2. 1 \in 1 .. 2 /\ 1 \in 1 .. n
        BY <4>1
      <4>3. QED
        BY <4>2 DEF n
    <3>2. f \in Frame /\ f.what = "when then" /\ f.i = 1 /\ f.what \in ByWhen
      BY <3>1, WhenThenFrame
    <3>3. fn \in Given /\ fn.to = 0 /\ fn.depth = 1
      BY <3>1, WhenThenFrame
    <3>4. functions' = gs /\ stack' = su
      BY <2>2
    <3> HIDE DEF fn, f
    <3>5. FunctionGiven(functions, gs, x, fn)
      BY <3>3, TokensNow, GivesFunction
    <3> HIDE DEF gs
    <3>6. gs \in [Foreign -> Seq(Given)]
      BY <3>5 DEF FunctionGiven
    <3>7. Tokens(Heap, su, gs, maxDepth, first, source) /\ su \in Seq(Frame)
      <4>1. Tokens(Heap, st, gs, maxDepth, first, source)
        BY <1>3, <3>3, <3>5, GivenTokens
      <4>2. QED
        BY <1>3, <3>2, <4>1, PushedTokens
    <3>8. WhenFrames(u, su, gs)
      BY <1>3, <1>5, <1>6, <3>1, <3>2, <3>3, <3>5, WhenThenFrames
    <3> HIDE DEF su
    <3>9. QED
      BY <3>4, <3>6, <3>7, <3>8, Zenon
  <2>3. QED
    BY <1>2, <2>1, <2>2
<1>8. World(Heap', stack', functions', maxDepth', first', source')
  <2>1. World(Heap, stack', functions', maxDepth, first, source)
    BY <1>7, TokensNow DEF World
  <2>2. maxDepth' = maxDepth /\ first' = first /\ source' = source
    BY <1>1
  <2>3. QED
    BY <1>1, <2>1, <2>2, Zenon
<1>9. Own(u, made, ours, state, source)
  <2>1. Own(whens, made, ours, state, source) /\ u.returned # 0
    BY <1>4, <1>5, Constants DEF Inv
  <2>2. QED
    BY <1>3, <1>5, <2>1, OwnReturned
<1>10. /\ WhenOK(whens', state', made') /\ Own(whens', made', ours', state', source')
       /\ WhenFrames(whens', stack', functions')
  <2>1. state' = state /\ made' = made /\ ours' = ours /\ source' = source
    BY <1>1
  <2>2. QED
    BY <1>1, <1>5, <1>7, <1>9, <2>1, Zenon
<1>11. Types'
  BY <1>1, <1>7 DEF Inv, Types, ReadyTypes
<1>12. QED
  BY <1>1, <1>8, <1>10, <1>11 DEF Inv

LEMMA WhenUnwrapsInv ==
  ASSUME Inv, WhenUnwraps
  PROVE  Inv'
<1> DEFINE p == whens.primary
           e == p + 1
           u == [whens EXCEPT !.returned = e]
           st == Tail(stack)
           src2 == [source EXCEPT ![e] = p]
           g == Listen(Heap, p, [to |-> e, depth |-> 0, cb |-> {}])
<1>1. /\ In("when") /\ stack[1].i = 0 /\ Len(whens.args) = 1
      /\ whens' = u /\ stack' = st /\ source' = src2 /\ Becomes(g)
      /\ UNCHANGED << made, ours, functions, maxDepth, first, isReady, readyWait, document >>
  BY DEF WhenUnwraps, ToUnwrap, readyVars
<1>2. /\ whens # None /\ whens.returned = 0 /\ st \in Seq(Frame)
      /\ Tokens(Heap, st, functions, maxDepth, first, source)
      /\ u # None /\ u.args = whens.args => WhenFrames(u, st, functions)
  BY <1>1, WhenEnds
<1>3. p \in Deferreds /\ p > 1 /\ p + 2 - Len(whens.args) <= made /\ made \in 1 .. MaxMade
  BY <1>2, TokensNow, PrimaryUsed DEF WhenOK
<1>4. e \in Deferreds /\ e # readyList /\ e # p /\ e <= made /\ e # 0
  <2>1. p \in Int /\ p + 2 - 1 <= made /\ p > 1
    BY <1>1, <1>3, Constants
  <2> HIDE DEF p
  <2>2. e \in Int /\ e <= made /\ e > 2 /\ e # p
    BY <1>3, <2>1
  <2> HIDE DEF e
  <2>3. QED
    BY <1>3, <2>2, DeferredAssumption DEF Deferreds, readyList
<1>5. Unused(whens, made, e)
  BY <1>1, <1>2 DEF Unused
<1>6. source[e] = 0 /\ state[e] = "pending"
  BY <1>4, <1>5 DEF Inv, Own
<1>7. /\ u # None /\ u.primary = p /\ u.args = whens.args /\ u.returned = e
      /\ WhenOK(u, state, made)
  BY <1>2, <1>4, WhenIsReturned
<1> HIDE DEF u, st
<1>8. Made(Heap, g, st, functions, maxDepth, first, src2)
  <2>1. World(Heap, st, functions, maxDepth, first, source)
    BY <1>2, TokensNow DEF World
  <2>2. source \in [Deferreds -> 0 .. MaxMade]
    BY DEF Inv, Types
  <2>3. {} \in SUBSET Arm
    OBVIOUS
  <2> HIDE DEF e, p
  <2>4. QED
    BY <1>2, <1>3, <1>4, <1>6, <2>1, <2>2, <2>3, TokensNow, HeapState, MadeWorld
<1> HIDE DEF g
<1>9. Heap' = g
  BY <1>1, <1>8, BecomesIs DEF Made
<1>10. state' = state /\ value' = value
  BY <1>8, <1>9 DEF Made, Heap
<1>11. src2 \in [Deferreds -> 0 .. MaxMade] /\ \A x \in Deferreds : x # e => src2[x] = source[x]
  <2>1. source \in [Deferreds -> 0 .. MaxMade] /\ p \in 0 .. MaxMade
    BY <1>3 DEF Inv, Types, Deferreds
  <2> HIDE DEF e, p
  <2>2. QED
    BY <2>1
<1> HIDE DEF src2
<1>12. World(Heap', stack', functions', maxDepth', first', source')
  <2>1. World(g, st, functions, maxDepth, first, src2)
    BY <1>8 DEF Made
  <2>2. functions' = functions /\ maxDepth' = maxDepth /\ first' = first
    BY <1>1
  <2>3. QED
    BY <1>1, <1>9, <2>1, <2>2, Zenon
<1>13. Own(u, made, ours, state, src2)
  <2>1. Own(whens, made, ours, state, source) /\ u.returned # 0
    BY <1>4, <1>7 DEF Inv
  <2>2. ~ Unused(u, made, e)
    <3> HIDE DEF e
    <3>1. ~ (e > made)
      BY <1>3, <1>4, Constants
    <3>2. QED
      BY <2>1, <3>1 DEF Unused
  <2> HIDE DEF e, p
  <2>3. \A x \in Deferreds :
          src2[x] = source[x] \/ (Unused(whens, made, x) /\ x # readyList /\ x # p
                                   /\ ~ Unused(u, made, x))
    BY <1>4, <1>5, <1>11, <2>2
  <2>4. QED
    BY <1>2, <1>7, <2>1, <2>3, OwnReturned DEF p
<1>14. WhenFrames(u, st, functions)
  BY <1>2, <1>7
<1>15. /\ WhenOK(whens', state', made') /\ Own(whens', made', ours', state', source')
       /\ WhenFrames(whens', stack', functions')
  <2>1. made' = made /\ ours' = ours /\ functions' = functions
    BY <1>1
  <2>2. QED
    BY <1>1, <1>7, <1>10, <1>13, <1>14, <2>1, Zenon
<1>16. Types'
  <2>1. source' \in [Deferreds -> 0 .. MaxMade] /\ stack' \in Seq(Frame)
    BY <1>1, <1>2, <1>11
  <2>2. QED
    BY <1>1, <2>1 DEF Inv, Types, ReadyTypes
<1>17. ReadyOK'
  BY <1>1, <1>10 DEF Inv, ReadyOK
<1>18. QED
  BY <1>12, <1>15, <1>16, <1>17 DEF Inv

\* one more Deferred, which is not the user's
LEMMA MoreMade ==
  ASSUME NEW w, NEW ms \in 1 .. MaxMade, NEW os, NEW sts, WhenOK(w, sts, ms),
         NEW mt \in 1 .. MaxMade, mt >= ms
  PROVE  /\ WhenOK(w, sts, mt)
         /\ \A e \in Deferreds : Unused(w, mt, e) => Unused(w, ms, e)
         /\ \A e \in Deferreds : e > ms /\ e <= mt => ~ Unused(w, mt, e)
<1>1. ms \in Int /\ mt \in Int /\ \A e \in Deferreds : e \in Int
  BY Constants
<1>2. CASE w = None
  BY <1>1, <1>2 DEF WhenOK, Unused
<1>3. CASE w # None
  <2> DEFINE p == w.primary
             n == Len(w.args)
  <2>1. p + 2 - n <= ms /\ n \in 1 .. 2 /\ p \in Int
    BY <1>3, PrimaryIs, Constants DEF WhenOK
  <2> HIDE DEF p, n
  <2>2. p + 2 - n <= mt /\ (n = 1 => p + 1 <= ms)
    BY <1>1, <2>1
  <2>3. WhenOK(w, sts, mt)
    BY <1>3, <2>2 DEF WhenOK, p, n
  <2>4. ASSUME NEW e \in Deferreds, Unused(w, mt, e)
        PROVE  Unused(w, ms, e)
    BY <1>1, <2>4 DEF Unused
  <2>5. ASSUME NEW e \in Deferreds, e > ms, e <= mt
        PROVE  ~ Unused(w, mt, e)
    BY <1>1, <1>3, <2>1, <2>2, <2>5 DEF Unused, p, n
  <2>6. QED
    BY <2>3, <2>4, <2>5
<1>4. QED
  BY <1>2, <1>3

LEMMA ThenInv ==
  ASSUME Inv, NEW d \in Deferreds, Then(d)
  PROVE  Inv'
<1> DEFINE e == made + 1
           src2 == [source EXCEPT ![e] = d]
<1>1. PICK cb \in HandlerSets : Becomes(Listen(Heap, d, [to |-> made', depth |-> 0, cb |-> cb]))
  BY DEF Then
<1> DEFINE g == Listen(Heap, d, [to |-> e, depth |-> 0, cb |-> cb])
<1>2. /\ made < MaxMade /\ made' = e /\ source' = src2 /\ Becomes(g)
      /\ UNCHANGED << ours, whens, stack, functions, maxDepth, first, isReady, readyWait,
                      document >>
  BY <1>1 DEF Then, readyVars
<1>3. made \in 1 .. MaxMade /\ WhenOK(whens, state, made) /\ Own(whens, made, ours, state, source)
      /\ source \in [Deferreds -> 0 .. MaxMade] /\ WhenFrames(whens, stack, functions)
  BY DEF Inv, Types
<1>4. e \in Deferreds /\ e \in 1 .. MaxMade /\ e > made /\ e # readyList /\ e >= made /\ e <= e
  BY <1>2, <1>3, DeferredAssumption DEF Deferreds, readyList
<1>5. Unused(whens, made, e)
  BY <1>4 DEF Unused
<1>6. source[e] = 0 /\ state[e] = "pending" /\ e \notin ours
  BY <1>3, <1>4, <1>5 DEF Own
<1>7. cb \in SUBSET Arm
  BY DeferredAssumption
<1> HIDE DEF e
<1>8. Made(Heap, g, stack, functions, maxDepth, first, src2)
  BY <1>3, <1>4, <1>6, <1>7, TokensNow, HeapState, MadeWorld
<1> HIDE DEF g
<1>9. Heap' = g
  BY <1>2, <1>8, BecomesIs DEF Made
<1>10. state' = state /\ value' = value
  BY <1>8, <1>9 DEF Made, Heap
<1>11. src2 \in [Deferreds -> 0 .. MaxMade] /\ \A x \in Deferreds : x # e => src2[x] = source[x]
  <2>1. d \in 0 .. MaxMade
    BY DEF Deferreds
  <2>2. QED
    BY <1>3, <2>1
<1> HIDE DEF src2
<1>12. World(Heap', stack', functions', maxDepth', first', source')
  <2>1. World(g, stack, functions, maxDepth, first, src2)
    BY <1>8 DEF Made
  <2>2. functions' = functions /\ maxDepth' = maxDepth /\ first' = first /\ stack' = stack
    BY <1>2
  <2>3. QED
    BY <1>2, <1>9, <2>1, <2>2, Zenon
<1>13. /\ WhenOK(whens, state, e)
       /\ \A x \in Deferreds : Unused(whens, e, x) => Unused(whens, made, x)
       /\ ~ Unused(whens, e, e)
  BY <1>3, <1>4, MoreMade
<1>14. Own(whens, e, ours, state, src2)
  <2>1. ASSUME NEW x \in Deferreds, Unused(whens, e, x)
        PROVE  src2[x] = 0 /\ state[x] = "pending" /\ x \notin ours
    <3>1. x # e /\ Unused(whens, made, x)
      BY <1>13, <2>1
    <3>2. QED
      BY <1>3, <1>11, <3>1 DEF Own
  <2>2. ASSUME NEW x \in Deferreds, x = readyList \/ x \in ours \/ (whens # None /\ x = whens.primary)
        PROVE  src2[x] = 0
    <3>1. x # e
      <4>1. whens # None => ~ Unused(whens, made, whens.primary)
        BY PrimaryUsed
      <4>2. QED
        BY <1>4, <1>5, <1>6, <2>2, <4>1
    <3>2. QED
      BY <1>3, <1>11, <2>2, <3>1 DEF Own
  <2>3. ours \subseteq 2 .. e /\ (whens # None => whens.primary \notin ours)
    BY <1>3, <1>4 DEF Own
  <2>4. QED
    BY <2>1, <2>2, <2>3 DEF Own
<1>15. /\ WhenOK(whens', state', made') /\ Own(whens', made', ours', state', source')
       /\ WhenFrames(whens', stack', functions')
  <2>1. whens' = whens /\ stack' = stack /\ ours' = ours /\ functions' = functions
    BY <1>2
  <2>2. QED
    BY <1>2, <1>3, <1>10, <1>13, <1>14, <2>1, Zenon
<1>16. Types'
  <2>1. source' \in [Deferreds -> 0 .. MaxMade] /\ made' \in 1 .. MaxMade
    BY <1>2, <1>4, <1>11
  <2>2. QED
    BY <1>2, <2>1 DEF Inv, Types, ReadyTypes
<1>17. ReadyOK'
  BY <1>2, <1>10 DEF Inv, ReadyOK
<1>18. QED
  BY <1>12, <1>15, <1>16, <1>17 DEF Inv

-----------------------------------------------------------------------------
(* What the user does, and jQuery.ready *)

LEMMA NewInv ==
  ASSUME Inv, New
  PROVE  Inv'
<1> DEFINE e == made + 1
<1>1. /\ made < MaxMade /\ made' = e /\ ours' = ours \cup {e}
      /\ UNCHANGED << state, value, thens, timers, whens, stack, functions, source, maxDepth, first,
                      isReady, readyWait, document >>
  BY DEF New, readyVars, heapVars
<1>2. made \in 1 .. MaxMade /\ WhenOK(whens, state, made) /\ Own(whens, made, ours, state, source)
      /\ WhenFrames(whens, stack, functions)
  BY DEF Inv, Types
<1>3. /\ e \in Deferreds /\ e \in 1 .. MaxMade /\ e > made /\ e # readyList /\ e >= made
      /\ e <= e /\ e \in 2 .. e /\ made \in Nat
  BY <1>1, <1>2, DeferredAssumption DEF Deferreds, readyList
<1>4. Unused(whens, made, e)
  BY <1>3 DEF Unused
<1>5. source[e] = 0
  BY <1>2, <1>3, <1>4 DEF Own
<1> HIDE DEF e
<1>6. /\ WhenOK(whens, state, e)
      /\ \A x \in Deferreds : Unused(whens, e, x) => Unused(whens, made, x)
      /\ ~ Unused(whens, e, e)
  BY <1>2, <1>3, MoreMade
<1>7. Own(whens, e, ours \cup {e}, state, source)
  <2>1. ASSUME NEW x \in Deferreds, Unused(whens, e, x)
        PROVE  source[x] = 0 /\ state[x] = "pending" /\ x \notin ours \cup {e}
    BY <1>2, <1>6, <2>1 DEF Own
  <2>2. ASSUME NEW x \in Deferreds,
               x = readyList \/ x \in ours \cup {e} \/ (whens # None /\ x = whens.primary)
        PROVE  source[x] = 0
    BY <1>2, <1>5, <2>2 DEF Own
  <2>3. ours \cup {e} \subseteq 2 .. e
    BY <1>2, <1>3 DEF Own
  <2>4. whens # None => whens.primary \notin ours \cup {e}
    <3>1. whens # None => ~ Unused(whens, made, whens.primary)
      BY PrimaryUsed
    <3>2. QED
      BY <1>2, <1>4, <3>1 DEF Own
  <2>5. QED
    BY <2>1, <2>2, <2>3, <2>4 DEF Own
<1>8. /\ WhenOK(whens', state', made') /\ Own(whens', made', ours', state', source')
      /\ WhenFrames(whens', stack', functions')
  <2>1. whens' = whens /\ stack' = stack /\ functions' = functions /\ state' = state
        /\ source' = source
    BY <1>1
  <2>2. QED
    BY <1>1, <1>2, <1>6, <1>7, <2>1, Zenon
<1>9. World(Heap', stack', functions', maxDepth', first', source')
  BY <1>1 DEF Inv, Heap
<1>10. Types' /\ ReadyOK'
  BY <1>1, <1>3 DEF Inv, Types, ReadyTypes, ReadyOK
<1>11. QED
  BY <1>8, <1>9, <1>10 DEF Inv

LEMMA holdReadyInv ==
  ASSUME Inv, holdReady
  PROVE  Inv'
<1>1. /\ readyWait' = readyWait + 1
      /\ document' = [[document EXCEPT !.held = @ + 1] EXCEPT
                        !.due = @ \/ ([document EXCEPT !.held = @ + 1].ready
                                      /\ [document EXCEPT !.held = @ + 1].held = 0)]
      /\ UNCHANGED << state, value, thens, timers, whens, stack, functions, source, maxDepth, first,
                      isReady, made, ours >>
  BY DEF holdReady, heapVars, Watch
<1>2. /\ document \in [ready : BOOLEAN, held : Nat, over : BOOLEAN, due : BOOLEAN]
      /\ readyWait \in Int /\ isReady \in BOOLEAN
  BY DEF Inv, Types, ReadyTypes
<1>3. /\ document'.ready = document.ready /\ document'.held = document.held + 1
      /\ document'.over = document.over /\ (document'.due <=> document.due)
      /\ document' \in [ready : BOOLEAN, held : Nat, over : BOOLEAN, due : BOOLEAN]
  <2> DEFINE b == document.due \/ (document.ready /\ document.held + 1 = 0)
  <2>1. document' = [ready |-> document.ready, held |-> document.held + 1,
                     over |-> document.over, due |-> b]
    BY <1>1, <1>2
  <2>2. b \in BOOLEAN /\ (b <=> document.due) /\ document.held + 1 \in Nat
    BY <1>2
  <2> HIDE DEF b
  <2>3. QED
    BY <1>2, <2>1, <2>2
<1>4. ReadyTypes'
  BY <1>1, <1>2, <1>3 DEF ReadyTypes
<1>5. ReadyOK'
  <2> SUFFICES ASSUME ~ document'.over
               PROVE  /\ readyWait' = document'.held + (IF document'.ready THEN 0 ELSE 1)
                      /\ isReady' <=> document'.ready
                      /\ document'.due => document'.ready
                      /\ document'.ready /\ document'.held = 0 => document'.due
                      /\ state'[readyList] = "resolved" <=> document'.due
                      /\ state'[readyList] # "rejected"
    BY DEF ReadyOK
  <2>1. /\ readyWait = document.held + (IF document.ready THEN 0 ELSE 1)
        /\ isReady <=> document.ready
        /\ document.due => document.ready
        /\ state[readyList] = "resolved" <=> document.due
        /\ state[readyList] # "rejected"
    BY <1>3 DEF Inv, ReadyOK
  <2>2. document.held \in Nat
    BY <1>2
  <2>3. QED
    BY <1>1, <1>2, <1>3, <2>1, <2>2
<1>6. QED
  BY <1>1, <1>4, <1>5 DEF Inv, Types, Heap

LEMMA NoneOfSome ==
  ASSUME NEW n \in 1 .. 2
  PROVE  {} # 1 .. n /\ n = n - 0 /\ {} \subseteq 1 .. n
<1>1. 1 \in 1 .. n
  OBVIOUS
<1>2. QED
  BY <1>1

LEMMA StartWhenInv ==
  ASSUME Inv, StartWhen
  PROVE  Inv'
<1>1. PICK n \in 1 .. 2 : \E args \in [1 .. n -> WhenValues] :
        /\ made' = made + 3 - n
        /\ made' <= MaxMade
        /\ whens' = [primary |-> made + 1, remaining |-> n, args |-> args, waits |-> {},
                     said |-> {}, returned |-> 0, failed |-> FALSE, again |-> FALSE]
        /\ stack' = << [what |-> "when", i |-> n] >> \o stack
  BY DEF StartWhen
<1>2. PICK args \in [1 .. n -> WhenValues] :
        /\ made' = made + 3 - n
        /\ made' <= MaxMade
        /\ whens' = [primary |-> made + 1, remaining |-> n, args |-> args, waits |-> {},
                     said |-> {}, returned |-> 0, failed |-> FALSE, again |-> FALSE]
        /\ stack' = << [what |-> "when", i |-> n] >> \o stack
  BY <1>1
<1> DEFINE p == made + 1
           mt == made + 3 - n
           u == [primary |-> p, remaining |-> n, args |-> args, waits |-> {},
                 said |-> {}, returned |-> 0, failed |-> FALSE, again |-> FALSE]
           f == [what |-> "when", i |-> n]
           su == << f >> \o stack
<1>3. /\ whens = None /\ made' = mt /\ whens' = u /\ stack' = su /\ Heap' = Heap /\ mt <= MaxMade
      /\ UNCHANGED << state, value, thens, timers, functions, source, maxDepth, first,
                      ours, isReady, readyWait, document >>
  BY <1>2 DEF StartWhen, readyVars, Heap
<1>4. made \in 1 .. MaxMade /\ Own(None, made, ours, state, source)
      /\ WhenFrames(None, stack, functions) /\ stack \in Seq(Frame)
  BY <1>3 DEF Inv, Types
<1>5. /\ p \in Deferreds /\ p > 1 /\ p > made /\ mt \in 1 .. MaxMade /\ made \in Nat
      /\ mt \in Nat /\ p + 2 - n <= mt /\ (n = 1 => mt = p + 1)  /\ mt >= made /\ p <= mt
      /\ p # readyList
  BY <1>3, <1>4, DeferredAssumption DEF Deferreds, readyList
<1>6. args \in Seq(Value) /\ Len(args) = n
  <2>1. WhenValues \subseteq Value
    BY ValuesIn DEF WhenValues
  <2>2. args \in [1 .. n -> Value] /\ n \in Nat
    BY <2>1
  <2>3. args \in Seq(Value)
    BY <2>2, SeqDef
  <2>4. QED
    BY <2>2, <2>3
<1>7. f \in Frame /\ f.what = "when" /\ f.i = n /\ f.what \in ByWhen
  BY DEF Frame, ByWhen
<1> HIDE DEF p, mt, f
<1>8. /\ u \in When /\ u.primary = p /\ u.remaining = n /\ u.args = args /\ u.waits = {}
      /\ u.said = {} /\ u.returned = 0 /\ u.failed = FALSE /\ u.again = FALSE
  BY <1>5, <1>6 DEF When
<1> HIDE DEF u
<1>9. u # None
  BY <1>8, NoneAssumption
<1>10. Unused(None, made, p) /\ state[p] = "pending" /\ source[p] = 0 /\ p \notin ours
  BY <1>4, <1>5 DEF Own, Unused
<1>11. WhenOK(u, state, mt)
  <2>1. {} # 1 .. n /\ n = n - 0 /\ {} \subseteq 1 .. n
    BY NoneOfSome
  <2>2. Cardinality({}) = 0
    BY FS_EmptySet
  <2>3. u.remaining = Len(u.args) - Cardinality(u.said)
    BY <1>6, <1>8, <2>1, <2>2
  <2>4. u.said \subseteq 1 .. Len(u.args) /\ u.said # 1 .. Len(u.args)
    BY <1>6, <1>8, <2>1
  <2>5. Len(u.args) \in 1 .. 2 /\ u.primary > 1 /\ u.primary + 2 - Len(u.args) <= mt
    BY <1>5, <1>6, <1>8
  <2>6. state[u.primary] # "resolved" /\ state[u.primary] # "rejected"
    BY <1>8, <1>10
  <2>7. QED
    BY <1>8, <2>3, <2>4, <2>5, <2>6 DEF WhenOK
<1>12. Pushed(stack, f, su)
  BY <1>4, <1>7, PushedWhen
<1>13. Tokens(Heap, su, functions, maxDepth, first, source) /\ su \in Seq(Frame)
  BY <1>4, <1>7, TokensNow, PushedTokens
<1> HIDE DEF su
<1>14. WhenFrames(u, su, functions)
  <2>1. ASSUME NEW i \in 1 .. Len(su)
        PROVE  i = 1 \/ (su[i].what # "when" /\ su[i].what # "when then")
    BY <1>4, <1>12 DEF Pushed, WhenFrames
  <2>2. su[1] = f /\ n \in 0 .. n
    BY <1>12 DEF Pushed
  <2>3. ASSUME NEW i \in 1 .. Len(su)
        PROVE  /\ su[i].what = "when" => /\ su[i].i \in 0 .. Len(u.args)
                                         /\ \A j \in 1 .. Len(su) : su[j].what = "when" => i = j
               /\ su[i].what # "when then"
    <3>1. CASE i = 1
      BY <1>6, <1>7, <1>8, <2>1, <2>2, <3>1
    <3>2. CASE i # 1
      BY <2>1, <3>2
    <3>3. QED
      BY <3>1, <3>2
  <2>4. QED
    BY <1>4, <1>8, <1>9, <2>3 DEF WhenFrames
<1>15. Own(u, mt, ours, state, source)
  <2>1. ASSUME NEW e \in Deferreds, Unused(u, mt, e)
        PROVE  Unused(None, made, e)
    <3>1. e > mt \/ (n = 1 /\ e = p + 1)
      BY <1>6, <1>8, <2>1 DEF Unused
    <3>2. e > made
      BY <1>5, <3>1, Constants
    <3>3. QED
      BY <3>2 DEF Unused
  <2>2. ours \subseteq 2 .. mt
    BY <1>4, <1>5 DEF Own
  <2>3. QED
    BY <1>4, <1>8, <1>10, <2>1, <2>2 DEF Own
<1>16. World(Heap', stack', functions', maxDepth', first', source')
  <2>1. World(Heap, su, functions, maxDepth, first, source)
    BY <1>13, TokensNow DEF World
  <2>2. functions' = functions /\ maxDepth' = maxDepth /\ first' = first /\ source' = source
    BY <1>3
  <2>3. QED
    BY <1>3, <2>1, <2>2, Zenon
<1>17. /\ WhenOK(whens', state', made') /\ Own(whens', made', ours', state', source')
       /\ WhenFrames(whens', stack', functions')
  <2>1. state' = state /\ ours' = ours /\ functions' = functions /\ source' = source
    BY <1>3
  <2>2. QED
    BY <1>3, <1>11, <1>14, <1>15, <2>1, Zenon
<1>18. Types' /\ ReadyOK'
  BY <1>3, <1>5, <1>13 DEF Inv, Types, ReadyTypes, ReadyOK
<1>19. QED
  BY <1>16, <1>17, <1>18 DEF Inv

\* a Deferred that no then() and no when() has made is settled
LEMMA SettleSourceless ==
  ASSUME Inv, NEW d \in Deferreds, source[d] = 0, whens # None => d # whens.primary,
         NEW s \in Arm, NEW v \in Value, Settle(Heap, d, s, v),
         UNCHANGED << stack, functions, maxDepth, first >>
  PROVE  /\ Heard(Heap, stack, d)
         /\ state'[d] = IF state[d] = "pending" THEN s ELSE state[d]
         /\ d # readyList => state'[readyList] = state[readyList]
<1>1. /\ Tokens(Heap, stack, functions, maxDepth, first, source)
      /\ AllOutcomes(Heap, maxDepth, first, source)
      /\ FirstOK(first) /\ stack \in Seq(Frame)
      /\ maxDepth \in [Deferreds -> Nat] /\ functions \in [Foreign -> Seq(Given)]
      /\ WhenOK(whens, Heap.state, made) /\ made \in 1 .. MaxMade
  BY TokensNow
<1> DEFINE g == Heap'
           u == whens'
<1>2. /\ Tokens(g, stack, functions, maxDepth, first, source)
      /\ Moved(Heap, whens, d, g, u, made)
      /\ Heap.state[d] = "pending" => g.state[d] = s /\ g.value[d] = v
      /\ Heap.state[d] # "pending" => g = Heap /\ u = whens
  BY <1>1, Settles
<1>3. g.state = state' /\ g.value = value'
  BY DEF Heap
<1> HIDE DEF g, u
<1>4. AllOutcomes(g, maxDepth, first, source)
  <2>1. whens # None => source[whens.primary] = 0
    BY PrimaryUsed DEF Inv, Own
  <2>2. Later(Heap, g) /\ \A y \in Deferreds : source[y] # 0 =>
          g.state[y] = Heap.state[y] /\ g.value[y] = Heap.value[y]
    BY <1>2, <2>1 DEF Moved
  <2>3. QED
    BY <1>1, <2>2, SameOutcomes
<1>5. World(Heap', stack', functions', maxDepth', first', source)
  <2>1. World(g, stack, functions, maxDepth, first, source)
    BY <1>2, <1>4 DEF World
  <2>2. Heap' = g /\ stack' = stack /\ functions' = functions /\ maxDepth' = maxDepth
        /\ first' = first
    BY DEF g
  <2>3. QED
    BY <2>1, <2>2, Zenon
<1>6. Moved(Heap, whens, d, Heap', whens', made)
  BY <1>2 DEF g, u
<1>7. \E k \in Int : Shifted(stack, stack', k, ByWhen)
  <2>1. Shifted(stack, stack, 0, ByWhen)
    BY <1>1, UnshiftedFrames
  <2>2. stack' = stack
    OBVIOUS
  <2>3. Shifted(stack, stack', 0, ByWhen)
    BY <2>1, <2>2, Zenon
  <2>4. 0 \in Int
    OBVIOUS
  <2>5. QED
    BY <2>3, <2>4, Zenon
<1>8. Heard(Heap, stack, d)
  BY <1>1, <1>5, <1>6, <1>7 DEF Heard, SameForWhen
<1>9. d # readyList => g.state[readyList] = Heap.state[readyList]
  BY <1>1, <1>2, ReadyMoved
<1>10. state'[d] = IF state[d] = "pending" THEN s ELSE state[d]
  BY <1>2, <1>3, HeapState
<1>11. QED
  BY <1>3, <1>8, <1>9, <1>10, HeapState

LEMMA SettleOursInv ==
  ASSUME Inv, NEW d \in Deferreds, SettleOurs(d)
  PROVE  Inv'
<1>1. PICK arm \in Arm, v \in Values : Settle(Heap, d, arm, v)
  BY DEF SettleOurs
<1>2. /\ d \in ours /\ UNCHANGED << stack, functions, maxDepth, first >>
      /\ UNCHANGED << made, ours, source >> /\ UNCHANGED << isReady, readyWait, document >>
  BY DEF SettleOurs, userVars, readyVars
<1>3. Own(whens, made, ours, state, source)
  BY DEF Inv
<1>4. source[d] = 0 /\ (whens # None => d # whens.primary) /\ ~ Unused(whens, made, d)
  BY <1>2, <1>3 DEF Own
<1>5. d # readyList
  BY <1>2, <1>3, TokensNow DEF Own, readyList
<1>6. v \in Value
  BY ValuesIn
<1>7. Heard(Heap, stack, d) /\ state'[readyList] = state[readyList]
  BY <1>1, <1>2, <1>4, <1>5, <1>6, SettleSourceless
<1>8. ReadyOK' /\ ReadyTypes'
  BY <1>2, <1>7 DEF Inv, Types, ReadyTypes, ReadyOK
<1>9. WhenFrames(whens, stack, functions) /\ stack \in Seq(Frame)
  BY DEF Inv, Types
<1>10. QED
  BY <1>2, <1>4, <1>7, <1>8, <1>9, HeapState, MovedInv

\* what ready(wait) does to the functions that wait
LEMMA ReadyHeard ==
  ASSUME Inv, NEW wait \in BOOLEAN, ready(wait), UNCHANGED << stack, functions, maxDepth, first >>,
         UNCHANGED << made, ours, source >>
  PROVE  /\ state'[readyList] = IF Opens(wait) /\ state[readyList] = "pending" THEN "resolved"
                                ELSE state[readyList]
         /\ ReadyOK' /\ ReadyTypes' => Inv'
<1>1. /\ Own(whens, made, ours, state, source) /\ made \in 1 .. MaxMade
      /\ whens # None => whens.primary > 1
      /\ World(Heap, stack, functions, maxDepth, first, source)
      /\ FirstOK(first) /\ stack \in Seq(Frame) /\ WhenFrames(whens, stack, functions)
      /\ maxDepth \in [Deferreds -> Nat] /\ functions \in [Foreign -> Seq(Given)]
      /\ WhenOK(whens, Heap.state, made)
  BY TokensNow DEF Inv, WhenOK
<1>2. /\ readyList \in Deferreds /\ source[readyList] = 0
      /\ whens # None => readyList # whens.primary
  BY <1>1, Constants DEF Own, readyList
<1>3. ~ Unused(whens, made, readyList)
  <2>1. ~ (readyList > made)
    BY <1>1 DEF readyList
  <2>2. ASSUME whens # None
        PROVE  readyList # whens.primary + 1
    <3>1. whens.primary \in Int
      BY <2>2, PrimaryUsed, Constants
    <3>2. QED
      BY <1>1, <2>2, <3>1 DEF readyList
  <2>3. QED
    BY <2>1, <2>2 DEF Unused
<1>4. /\ Heard(Heap, stack, readyList)
      /\ state'[readyList] = IF Opens(wait) /\ state[readyList] = "pending" THEN "resolved"
                             ELSE state[readyList]
  <2>1. CASE Opens(wait)
    <3>1. Settle(Heap, readyList, "resolved", PlainValue(jQuery))
      BY <2>1 DEF ready
    <3>2. PlainValue(jQuery) \in Value /\ "resolved" \in Arm
      BY DEF PlainValue, Value, Arm
    <3>3. QED
      BY <1>2, <2>1, <3>1, <3>2, SettleSourceless
  <2>2. CASE ~ Opens(wait)
    <3>1. Becomes(Heap) /\ whens' = whens
      BY <2>2 DEF ready
    <3>2. Heard(Heap, stack, readyList)
      BY <1>1, <3>1, HeardNothing
    <3>3. state' = state
      BY <3>1 DEF Becomes, Heap
    <3>4. QED
      BY <2>2, <3>2, <3>3
  <2>3. QED
    BY <2>1, <2>2
<1>5. ReadyOK' /\ ReadyTypes' => Inv'
  BY <1>1, <1>2, <1>3, <1>4, HeapState, MovedInv
<1>6. QED
  BY <1>4, <1>5

LEMMA completedInv ==
  ASSUME Inv, completed
  PROVE  Inv'
<1>1. /\ ready(FALSE) /\ ~ document.ready
      /\ document' = [[document EXCEPT !.ready = TRUE] EXCEPT
                        !.due = @ \/ ([document EXCEPT !.ready = TRUE].ready
                                      /\ [document EXCEPT !.ready = TRUE].held = 0)]
      /\ UNCHANGED << stack, functions, maxDepth, first >> /\ UNCHANGED << made, ours, source >>
  BY DEF completed, Watch
<1>2. /\ document \in [ready : BOOLEAN, held : Nat, over : BOOLEAN, due : BOOLEAN]
      /\ readyWait \in Int /\ isReady \in BOOLEAN
  BY DEF Inv, Types, ReadyTypes
<1>3. /\ document'.ready = TRUE /\ document'.held = document.held
      /\ document'.over = document.over
      /\ document'.due <=> document.due \/ document.held = 0
      /\ document' \in [ready : BOOLEAN, held : Nat, over : BOOLEAN, due : BOOLEAN]
  <2> DEFINE b == document.due \/ (TRUE /\ document.held = 0)
  <2>1. document' = [ready |-> TRUE, held |-> document.held, over |-> document.over, due |-> b]
    BY <1>1, <1>2
  <2>2. b \in BOOLEAN /\ (b <=> document.due \/ document.held = 0)
    BY <1>2
  <2> HIDE DEF b
  <2>3. QED
    BY <1>2, <2>1, <2>2
<1>4. /\ readyWait' = IF ~ isReady THEN readyWait - 1 ELSE readyWait
      /\ isReady' = TRUE
      /\ Opens(FALSE) <=> readyWait <= 1 /\ ~ isReady
  BY <1>1, <1>2 DEF ready, Opens
<1>5. /\ state'[readyList] = IF Opens(FALSE) /\ state[readyList] = "pending" THEN "resolved"
                             ELSE state[readyList]
      /\ ReadyOK' /\ ReadyTypes' => Inv'
  BY <1>1, ReadyHeard
<1>6. ReadyTypes'
  BY <1>2, <1>3, <1>4 DEF ReadyTypes
<1>7. state[readyList] \in {"pending", "resolved", "rejected"}
  BY TokensNow, HeapState, HeapIs, Constants
<1>8. ReadyOK'
  <2> SUFFICES ASSUME ~ document'.over
               PROVE  /\ readyWait' = document'.held + (IF document'.ready THEN 0 ELSE 1)
                      /\ isReady' <=> document'.ready
                      /\ document'.due => document'.ready
                      /\ document'.ready /\ document'.held = 0 => document'.due
                      /\ state'[readyList] = "resolved" <=> document'.due
                      /\ state'[readyList] # "rejected"
    BY DEF ReadyOK
  <2>1. /\ readyWait = document.held + 1
        /\ ~ isReady /\ ~ document.due
        /\ state[readyList] # "resolved"
        /\ state[readyList] # "rejected"
    BY <1>1, <1>3 DEF Inv, ReadyOK
  <2>2. document.held \in Nat
    BY <1>2
  <2>3. state[readyList] = "pending" /\ (Opens(FALSE) <=> document.held = 0)
    <3>1. state[readyList] = "pending"
      BY <1>7, <2>1
    <3>2. readyWait <= 1 /\ ~ isReady <=> document.held = 0
      BY <2>1, <2>2
    <3>3. QED
      BY <1>4, <3>1, <3>2, Zenon
  <2>4. state'[readyList] = IF document.held = 0 THEN "resolved" ELSE "pending"
    BY <1>5, <2>3
  <2>5. readyWait' = document.held
    BY <1>4, <2>1, <2>2
  <2>6. QED
    BY <1>3, <1>4, <2>1, <2>2, <2>4, <2>5
<1>9. QED
  BY <1>5, <1>6, <1>8

LEMMA releaseReadyInv ==
  ASSUME Inv, releaseReady
  PROVE  Inv'
<1>1. /\ ready(TRUE) /\ ~ document.over
      /\ UNCHANGED << stack, functions, maxDepth, first >> /\ UNCHANGED << made, ours, source >>
  BY DEF releaseReady
<1>2. /\ document \in [ready : BOOLEAN, held : Nat, over : BOOLEAN, due : BOOLEAN]
      /\ readyWait \in Int /\ isReady \in BOOLEAN /\ document.held \in Nat
  BY DEF Inv, Types, ReadyTypes
<1>3. /\ readyWait' = readyWait - 1
      /\ isReady' = (isReady \/ readyWait = 1)
      /\ Opens(TRUE) <=> readyWait = 1
  BY <1>1, <1>2 DEF ready, Opens
<1>4. /\ state'[readyList] = IF Opens(TRUE) /\ state[readyList] = "pending" THEN "resolved"
                             ELSE state[readyList]
      /\ ReadyOK' /\ ReadyTypes' => Inv'
  BY <1>1, ReadyHeard
<1>5. CASE document.held = 0
  <2> DEFINE b == document.due \/ (document.ready /\ document.held = 0)
  <2>1. document' = [[document EXCEPT !.over = TRUE] EXCEPT
                       !.due = @ \/ ([document EXCEPT !.over = TRUE].ready
                                     /\ [document EXCEPT !.over = TRUE].held = 0)]
    BY <1>5 DEF releaseReady, Watch
  <2>2. document' = [ready |-> document.ready, held |-> document.held, over |-> TRUE, due |-> b]
    BY <1>2, <2>1
  <2>3. b \in BOOLEAN
    BY <1>2
  <2> HIDE DEF b
  <2>4. /\ document'.over
        /\ document' \in [ready : BOOLEAN, held : Nat, over : BOOLEAN, due : BOOLEAN]
    BY <1>2, <2>2, <2>3
  <2>5. ReadyOK' /\ ReadyTypes'
    BY <1>2, <1>3, <2>4 DEF ReadyOK, ReadyTypes
  <2>6. QED
    BY <1>4, <2>5
<1>6. CASE document.held # 0
  <2> DEFINE m == document.held - 1
             b == document.due \/ (document.ready /\ m = 0)
  <2>1. document' = [[document EXCEPT !.held = @ - 1] EXCEPT
                       !.due = @ \/ ([document EXCEPT !.held = @ - 1].ready
                                     /\ [document EXCEPT !.held = @ - 1].held = 0)]
    BY <1>6 DEF releaseReady, Watch
  <2>2. document' = [ready |-> document.ready, held |-> m, over |-> document.over, due |-> b]
    BY <1>2, <2>1
  <2>3. b \in BOOLEAN /\ m \in Nat /\ document.held = m + 1
        /\ (b <=> document.due \/ (document.ready /\ m = 0))
    BY <1>2, <1>6
  <2> HIDE DEF b, m
  <2>4. /\ document'.over = document.over /\ document'.ready = document.ready
        /\ document'.held = m /\ document'.due = b
        /\ document' \in [ready : BOOLEAN, held : Nat, over : BOOLEAN, due : BOOLEAN]
    BY <1>2, <2>2, <2>3
  <2>5. /\ readyWait = m + 1 + (IF document.ready THEN 0 ELSE 1)
        /\ isReady <=> document.ready
        /\ document.due => document.ready
        /\ state[readyList] = "resolved" <=> document.due
        /\ state[readyList] # "rejected"
    BY <1>1, <2>3 DEF Inv, ReadyOK
  <2>6. readyWait = 1 <=> document.ready /\ m = 0
    BY <2>3, <2>5
  <2>7. readyWait' = m + (IF document.ready THEN 0 ELSE 1)
    BY <1>3, <2>3, <2>5
  <2>8. state[readyList] \in {"pending", "resolved", "rejected"}
    BY TokensNow, HeapState, HeapIs, Constants
  <2>9. state'[readyList] = "resolved" <=> b
    BY <1>3, <1>4, <2>3, <2>5, <2>6, <2>8
  <2>10. state'[readyList] # "rejected"
    BY <1>4, <2>5
  <2>11. isReady' <=> document.ready
    BY <1>2, <1>3, <2>5, <2>6
  <2>12. ReadyOK'
    BY <1>1, <2>3, <2>4, <2>5, <2>7, <2>9, <2>10, <2>11 DEF ReadyOK
  <2>13. ReadyTypes'
    BY <1>2, <1>3, <2>4 DEF ReadyTypes
  <2>14. QED
    BY <1>4, <2>12, <2>13
<1>7. QED
  BY <1>5, <1>6

-----------------------------------------------------------------------------
(* The theorems *)

LEMMA InitInv ==
  ASSUME Init
  PROVE  Inv
<1>1. /\ made = 1 /\ ours = {} /\ stack = << >> /\ whens = None
      /\ state = [d \in Deferreds |-> "pending"]
      /\ value = [d \in Deferreds |-> None]
      /\ thens = [d \in Deferreds |-> << >>]
      /\ maxDepth = [d \in Deferreds |-> 0]
      /\ timers = << >> /\ functions = [f \in Foreign |-> << >>]
      /\ source = [d \in Deferreds |-> 0]
      /\ first = [d \in Deferreds |-> << >>]
      /\ isReady = FALSE /\ readyWait = 1
      /\ document = [ready |-> FALSE, held |-> 0, over |-> FALSE, due |-> FALSE]
  BY DEF Init, readyList
<1>2. ReadyOK /\ ReadyTypes
  <2>1. state[readyList] = "pending"
    BY <1>1, Constants
  <2>2. /\ document.ready = FALSE /\ document.held = 0 /\ document.due = FALSE
        /\ document \in [ready : BOOLEAN, held : Nat, over : BOOLEAN, due : BOOLEAN]
    BY <1>1
  <2>3. ReadyOK
    BY <1>1, <2>1, <2>2 DEF ReadyOK
  <2>4. ReadyTypes
    <3>1. readyWait \in Int
      <4>1. readyWait = 1
        BY <1>1, Zenon
      <4>2. 1 \in Int
        OBVIOUS
      <4>3. QED
        BY <4>1, <4>2, Zenon
    <3>2. isReady \in BOOLEAN
      BY <1>1
    <3>3. QED
      BY <2>2, <3>1, <3>2, Zenon DEF ReadyTypes
  <2>5. QED
    BY <2>3, <2>4
<1>3. /\ << >> \in Seq(Frame) /\ << >> \in Seq(Given) /\ << >> \in Seq(Listener)
      /\ << >> \in Seq(TaskSet) /\ << >> \in Seq(Arm \X Value)
  OBVIOUS
<1>4. Types
  <2>1. 1 \in 1 .. MaxMade /\ 0 \in 0 .. MaxMade
    BY DeferredAssumption
  <2>2. source \in [Deferreds -> 0 .. MaxMade]
    BY <1>1, <2>1
  <2>3. functions \in [Foreign -> Seq(Given)] /\ first \in [Deferreds -> Seq(Arm \X Value)]
    BY <1>1, <1>3
  <2>4. maxDepth \in [Deferreds -> Nat]
    BY <1>1
  <2>5. QED
    BY <1>1, <1>2, <1>3, <2>1, <2>2, <2>3, <2>4 DEF Types
<1>5. Fine(Heap)
  <2>1. state \in [Deferreds -> {"pending"} \cup Arm] /\ value \in [Deferreds -> Value \cup {None}]
    BY <1>1
  <2>2. thens \in [Deferreds -> Seq(Listener)] /\ timers \in Seq(TaskSet)
    BY <1>1, <1>3
  <2>3. QED
    BY <1>1, <2>1, <2>2 DEF Fine, Heap, HeapSet
<1>6. Tokens(Heap, stack, functions, maxDepth, first, source)
  <2>1. Len(stack) = 0 /\ Len(Heap.timers) = 0 /\ \A d \in Deferreds : Len(Heap.thens[d]) = 0
    BY <1>1 DEF Heap
  <2>2. \A f \in Foreign : Len(functions[f]) = 0
    BY <1>1
  <2>3. ThensOK(Heap, maxDepth, first, source) /\ TimersOK(Heap, maxDepth, first, source)
    BY <2>1 DEF ThensOK, TimersOK
  <2>4. FunctionsOK(functions, maxDepth, first, source)
    BY <2>2 DEF FunctionsOK
  <2>5. FramesOK(stack, maxDepth, first, source)
    BY <2>1 DEF FramesOK
  <2>6. ZeroOK(Heap, stack, maxDepth, first)
    BY <2>1 DEF ZeroOK, Zero
  <2>7. QED
    BY <1>5, <2>3, <2>4, <2>5, <2>6 DEF Tokens
<1>7. AllOutcomes(Heap, maxDepth, first, source)
  BY <1>1 DEF AllOutcomes
<1>8. WhenOK(whens, state, made)
  BY <1>1 DEF WhenOK
<1>9. WhenFrames(whens, stack, functions)
  <2>1. Len(stack) = 0 /\ \A f \in Foreign : Len(functions[f]) = 0
    BY <1>1
  <2>2. QED
    BY <2>1 DEF WhenFrames
<1>10. Own(whens, made, ours, state, source)
  BY <1>1 DEF Own
<1>11. QED
  BY <1>2, <1>4, <1>6, <1>7, <1>8, <1>9, <1>10 DEF Inv, World

LEMMA SameInv ==
  ASSUME Inv, UNCHANGED vars
  PROVE  Inv'
<1>1. /\ UNCHANGED << state, value, thens, timers, whens >>
      /\ UNCHANGED << made, ours, source, isReady, readyWait, document >>
      /\ UNCHANGED << stack, functions, maxDepth, first >>
  BY DEF vars, heapVars, userVars, readyVars
<1>2. Heap' = Heap
  BY <1>1 DEF Heap
<1>3. World(Heap', stack', functions', maxDepth', first', source')
  <2>1. World(Heap, stack, functions, maxDepth, first, source)
    BY DEF Inv
  <2>2. /\ stack' = stack /\ functions' = functions /\ maxDepth' = maxDepth /\ first' = first
        /\ source' = source
    BY <1>1
  <2>3. QED
    BY <1>2, <2>1, <2>2, Zenon
<1>4. /\ WhenOK(whens', state', made') /\ Own(whens', made', ours', state', source')
      /\ WhenFrames(whens', stack', functions')
  <2>1. WhenOK(whens, state, made) /\ Own(whens, made, ours, state, source)
        /\ WhenFrames(whens, stack, functions)
    BY DEF Inv
  <2>2. /\ whens' = whens /\ state' = state /\ made' = made /\ ours' = ours /\ source' = source
        /\ stack' = stack /\ functions' = functions
    BY <1>1
  <2>3. QED
    BY <2>1, <2>2, Zenon
<1>5. Types' /\ ReadyOK'
  BY <1>1 DEF Inv, Types, ReadyTypes, ReadyOK
<1>6. QED
  BY <1>3, <1>4, <1>5 DEF Inv

LEMMA NextInv ==
  ASSUME Inv, [Next]_vars
  PROVE  Inv'
<1>1. CASE RunTimer
  BY <1>1, RunTimerInv
<1>2. CASE WhenGoesOn
  BY <1>2, WhenStepInv, WhenUnwrapsInv, WhenReturnsInv DEF WhenGoesOn
<1>3. CASE completed \/ holdReady \/ releaseReady
  BY <1>3, completedInv, holdReadyInv, releaseReadyInv
<1>4. CASE HandlerEnds
  BY <1>4, HandlerReturnsInv, HandlerThrowsInv DEF HandlerEnds
<1>5. CASE ThenEnds
  BY <1>5, ThenReturnsInv, ThenThrowsInv, WhenThenThrowsInv DEF ThenEnds
<1>6. CASE CallFunction
  BY <1>6, CallFunctionInv
<1>7. CASE New \/ StartWhen
  BY <1>7, NewInv, StartWhenInv
<1>8. CASE \E d \in Deferreds : SettleOurs(d) \/ Then(d)
  BY <1>8, SettleOursInv, ThenInv
<1>9. CASE UNCHANGED vars
  BY <1>9, SameInv
<1>10. QED
  BY <1>1, <1>2, <1>3, <1>4, <1>5, <1>6, <1>7, <1>8, <1>9 DEF Next

LEMMA NeitherBefore ==
  ASSUME NEW n \in Nat, NEW i \in 1 .. n, NEW j \in 1 .. n, i \notin 1 .. j - 1, j \notin 1 .. i - 1
  PROVE  j = i
OBVIOUS

LEMMA InvOutcome ==
  ASSUME Inv
  PROVE  OutcomeIsFirst
<1> SUFFICES ASSUME NEW e \in 1 .. made, source[e] # 0
             PROVE  /\ state[e] = "pending" <=> Deciding(e) = {}
                    /\ \A i \in Deciding(e) :
                         << state[e], value[e] >> = Verdict(e, first[e][i])
                    /\ \A i \in 1 .. Len(first[e]) - 1 :
                         Defers(e, first[e][i]) /\ first[e][i][2].k = "deferred" =>
                            first[e][i + 1] =
                               << state[first[e][i][2].id], value[first[e][i][2].id] >>
  BY DEF OutcomeIsFirst
<1>1. e \in Deferreds
  <2>1. made \in 1 .. MaxMade
    BY TokensNow
  <2>2. QED
    BY <2>1, DeferredAssumption DEF Deferreds
<1>2. OutcomeOK(Heap, maxDepth, first, e) /\ Heap.state = state /\ Heap.value = value
  BY <1>1, TokensNow, HeapState DEF AllOutcomes
<1>3. Len(first[e]) \in Nat
  BY <1>1, TokensNow, Firsts
<1>4. CASE state[e] = "pending"
  BY <1>2, <1>4 DEF OutcomeOK, Deciding
<1>5. CASE state[e] # "pending"
  <2>1. PICK i \in 1 .. Len(first[e]) :
          /\ ~ Defers(e, first[e][i]) /\ \A j \in 1 .. i - 1 : Defers(e, first[e][j])
          /\ << state[e], value[e] >> = Verdict(e, first[e][i])
    BY <1>2, <1>5 DEF OutcomeOK
  <2>2. i \in Deciding(e)
    BY <2>1 DEF Deciding
  <2>3. ASSUME NEW j \in Deciding(e)
        PROVE  j = i
    <3>1. /\ j \in 1 .. Len(first[e]) /\ ~ Defers(e, first[e][j])
          /\ \A m \in 1 .. j - 1 : Defers(e, first[e][m])
      BY DEF Deciding
    <3>2. i \notin 1 .. j - 1 /\ j \notin 1 .. i - 1
      BY <2>1, <3>1
    <3>3. QED
      BY <1>3, <3>1, <3>2, NeitherBefore
  <2>4. QED
    BY <1>2, <1>5, <2>1, <2>2, <2>3 DEF OutcomeOK
<1>6. QED
  BY <1>4, <1>5

LEMMA InvWhen ==
  ASSUME Inv
  PROVE  WhenWaits
<1>1. WhenCounts
  <2> SUFFICES ASSUME whens # None, ~ whens.again
               PROVE  /\ state[whens.primary] = "resolved" <=>
                           whens.said = DOMAIN whens.args /\ ~ whens.failed
                      /\ state[whens.primary] = "rejected" <=> whens.failed
    BY DEF WhenCounts
  <2>1. WhenOK(whens, state, made)
    BY DEF Inv
  <2>2. whens.args \in Seq(Value)
    BY <2>1 DEF WhenOK, When
  <2>3. DOMAIN whens.args = 1 .. Len(whens.args)
    BY <2>2
  <2>4. QED
    BY <2>1, <2>3 DEF WhenOK
<1>2. ReadyCounts
  BY DEF Inv, ReadyOK, ReadyCounts
<1>3. QED
  BY <1>1, <1>2 DEF WhenWaits

LEMMA DeferredInvariant == Spec => []Inv
<1>1. Init => Inv
  BY InitInv
<1>2. Inv /\ [Next]_vars => Inv'
  BY NextInv
<1>3. QED
  BY <1>1, <1>2, PTL DEF Spec

(* The outcome of a then() is what its handler says first, or what the     *)
(* thenable says first to which the handler has put it off, and so on,     *)
(* whoever calls the functions of process() how often and in what order.   *)
\* jquery-3.6.1.js:3766-3904
THEOREM OutcomeIsFirstHolds == Spec => []OutcomeIsFirst
<1>1. Inv => OutcomeIsFirst
  BY InvOutcome
<1>2. QED
  BY <1>1, DeferredInvariant, PTL

(* when() counts its arguments as they come, and ready() the holds and the *)
(* document: neither ends too early or too late.                           *)
\* jquery-3.6.1.js:3990-4040, 4085-4121, 10817-10823
THEOREM WhenWaitsHolds == Spec => []WhenWaits
<1>1. Inv => WhenWaits
  BY InvWhen
<1>2. QED
  BY <1>1, DeferredInvariant, PTL
=============================================================================
