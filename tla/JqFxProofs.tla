----------------------------- MODULE JqFxProofs -----------------------------
(***************************************************************************)
(* Proofs about JqFx, for any kinds and numbers of animations and calls:   *)
(* the original style comes back, animations go on, the sentinel tells the *)
(* truth, and the promise is kept.                                         *)
(***************************************************************************)
EXTENDS JqFx, SequenceTheorems, FiniteSetTheorems, TLAPS

IsTick(f) == f.kind \in {"tick", "ticked"}
IsLoop(f) == f.kind \in {"stop", "finish"}

Loop ==
    [kind : {"stop"}, i : Nat, toEnd : BOOLEAN, dequeue : BOOLEAN]
        \cup [kind : {"finish"}, i : Nat, old : Seq(Item \cup {Sentinel})]

Call == [kind : {"launch", "complete"}, of : Item]

Tick ==
    [kind : {"tick"}, i : Nat \ {0}] \cup [kind : {"ticked"}, i : Nat \ {0}, of : Item]

Frame == Loop \cup Call \cup Tick \cup [kind : {"splice"}]

Fields == {"state", "left", "halted", "hidden", "orig", "end"}

\* the sentinel stands nowhere but at the head
QueueOK(q) ==
    /\ q \in Seq(Item \cup {Sentinel})
    /\ \A k \in 2 .. Len(q) : q[k] # Sentinel

(* The frames never run within each other, only while they are in          *)
(* progress; and what is to be taken out is known to the loop below.       *)
StackOK(s, on) ==
    /\ s \in Seq(Frame)
    /\ \A k, l \in 1 .. Len(s) : IsTick(s[k]) /\ IsTick(s[l]) => k = l
    /\ \A k \in 1 .. Len(s) : IsTick(s[k]) => on
    /\ \A k \in 1 .. Len(s) :
          s[k].kind = "splice" => k < Len(s) /\ IsLoop(s[k + 1]) /\ s[k + 1].i > 0

Waiting ==
    /\ QueueOK(queue)
    /\ kinds \in Seq(Kinds) /\ Len(kinds) <= MaxItems

Structure ==
    /\ timers \in Seq(Item)
    /\ inProgress \in BOOLEAN
    /\ loops \in Nat
    /\ inProgress => loops > 0
    /\ timers # << >> => inProgress
    /\ DOMAIN item = Item
    /\ \A i \in Item : DOMAIN item[i] = Fields
    /\ \A i \in Item : item[i].halted => ~ Running(i)
    /\ StackOK(stack, inProgress)

\* its timer has said that it is done, and its callbacks are called
IsTicked(s, i) == \E k \in 1 .. Len(s) : s[k].kind = "ticked" /\ s[k].of = i

\* its last frame would restore nothing
Ended(i) == Styles(i) /\ ~ Running(i) /\ ~ item[i].halted

\* the original style, or, after an animation was stopped, its number
Original(v) == v = "full" \/ (v = "fixed" /\ interrupted)

(* Strengthens OriginalComesBack.                                          *)
StyleInv ==
    ~ spoilt =>
        /\ \/ fxshow = None /\ Original(value)
           \/ fxshow \in [value : {"fixed"}, hidden : BOOLEAN \cup {None}]
        /\ fxshow # None => interrupted \/ \E i \in Item : Running(i) /\ Styles(i)
        /\ \A i \in Item : Styles(i) => Original(item[i].orig)
        /\ \A i \in Item : Running(i) /\ Styles(i) => fxshow # None
        /\ \A i, j \in Item : Running(i) /\ Styles(i) /\ Running(j) /\ Styles(j) => i = j
        /\ \A k \in 1 .. Len(timers) : Ended(timers[k]) => IsTicked(stack, timers[k])

Runners == {i \in Item : Running(i)}

\* to take out i at k loses no animation that runs
SafeIn(k, i, seq, R) ==
    /\ k <= Len(seq)
    /\ i \in R => \E m \in 1 .. Len(seq) : m # k /\ seq[m] = i

GoStack(s, seq, R) ==
    /\ \A k \in 1 .. Len(s) : IsLoop(s[k]) => k = Len(s)
    /\ \A k \in 1 .. Len(s) : s[k].kind = "splice" =>
          /\ SafeIn(s[k + 1].i, seq[s[k + 1].i], seq, R)
          /\ \A l \in 1 .. Len(s) : ~ IsTick(s[l])
    /\ \A k \in 1 .. Len(s) : s[k].kind = "ticked" => SafeIn(s[k].i, s[k].of, seq, R)

(* Strengthens AnimationsGoOn.                                             *)
GoOn(s) ==
    /\ GoStack(s, timers, Runners)
    /\ \A i \in Runners : \E k \in 1 .. Len(timers) : timers[k] = i

GoInv == ~ meddled => GoOn(stack)

Inv == Waiting /\ Structure /\ StyleInv /\ GoInv

Awaits(q, i) == \E k \in 1 .. Len(q) : q[k] = i

\* finish() has it yet to make
Remains(s, i) == \E k \in 1 .. Len(s) : s[k].kind = "finish" /\ Awaits(s[k].old, i)

Once(q) == \A k, l \in 1 .. Len(q) : q[k] \in Item /\ q[k] = q[l] => k = l

Parted(s) ==
    /\ \A k \in 1 .. Len(s) : s[k].kind = "finish" => Once(s[k].old)
    /\ \A k, l \in 1 .. Len(s) : \A i \in Item :
          /\ s[k].kind = "finish" /\ Awaits(s[k].old, i)
          /\ s[l].kind = "finish" /\ Awaits(s[l].old, i)
          => k = l

(* Of n that were made, those of R run; what waits in the queue q, or in   *)
(* the loops of finish() on the stack s, waits at one place and has not    *)
(* been started.                                                           *)
Fresh(q, s, n, R) ==
    /\ Once(q)
    /\ Parted(s)
    /\ \A i \in Item : Awaits(q, i) => ~ Remains(s, i)
    /\ \A i \in Item : Awaits(q, i) \/ Remains(s, i) => i <= n /\ i \notin R
    /\ \A i \in R : i <= n

FreshInv == Fresh(queue, stack, Len(kinds), Runners)

-----------------------------------------------------------------------------
(* Sequences *)

LEMMA PushShape ==
  ASSUME NEW S, NEW x \in S, NEW s \in Seq(S)
  PROVE  /\ << x >> \o s \in Seq(S)
         /\ Len(<< x >> \o s) = Len(s) + 1
         /\ (<< x >> \o s)[1] = x
         /\ \A k \in 2 .. Len(s) + 1 : (<< x >> \o s)[k] = s[k - 1]
<1>1. << x >> \in Seq(S) /\ Len(<< x >>) = 1 /\ << x >>[1] = x
  OBVIOUS
<1>2. QED
  BY <1>1, ConcatProperties

LEMMA TailShape ==
  ASSUME NEW S, NEW s \in Seq(S), s # << >>
  PROVE  /\ Tail(s) \in Seq(S)
         /\ Len(s) \in Nat \ {0}
         /\ Len(Tail(s)) = Len(s) - 1
         /\ \A k \in 1 .. Len(s) - 1 : Tail(s)[k] = s[k + 1]
  BY HeadTailProperties, EmptySeq, LenProperties

\* what is left without the item at k is the others
LEMMA WithoutShape ==
  ASSUME NEW S, NEW seq \in Seq(S), NEW k \in Nat \ {0}
  PROVE  /\ Without(seq, k) \in Seq(S)
         /\ \A m \in 1 .. Len(Without(seq, k)) :
               \E l \in 1 .. Len(seq) : l # k /\ Without(seq, k)[m] = seq[l]
         /\ \A l \in 1 .. Len(seq) : l # k =>
               \E m \in 1 .. Len(Without(seq, k)) : Without(seq, k)[m] = seq[l]
         /\ k <= Len(seq) => /\ Len(Without(seq, k)) = Len(seq) - 1
                             /\ \A m \in 1 .. k - 1 : Without(seq, k)[m] = seq[m]
<1>1. Len(seq) \in Nat
  BY LenProperties
<1>2. CASE k > Len(seq)
  BY <1>1, <1>2 DEF Without
<1>3. CASE k <= Len(seq)
  <2> DEFINE a == SubSeq(seq, 1, k - 1)
             b == SubSeq(seq, k + 1, Len(seq))
  <2>1. a \in Seq(S) /\ Len(a) = k - 1 /\ \A m \in 1 .. k - 1 : a[m] = seq[m]
    BY <1>1, <1>3, SubSeqProperties
  <2>2. /\ b \in Seq(S) /\ Len(b) = Len(seq) - k
        /\ \A m \in 1 .. Len(seq) - k : b[m] = seq[k + m]
    <3>1. CASE k = Len(seq)
      <4>1. b = << >>
        BY <1>1, <3>1, SubSeqEmpty
      <4>2. QED
        BY <1>1, <3>1, <4>1
    <3>2. CASE k < Len(seq)
      <4>1. /\ b \in Seq(S) /\ Len(b) = Len(seq) - (k + 1) + 1
            /\ \A m \in 1 .. Len(seq) - (k + 1) + 1 : b[m] = seq[k + 1 + m - 1]
        BY <1>1, <3>2, SubSeqProperties
      <4> HIDE DEF b
      <4>2. QED
        BY <1>1, <3>2, <4>1
    <3>3. QED
      BY <1>1, <1>3, <3>1, <3>2
  <2>3. Without(seq, k) = a \o b
    <3>1. ~ (k > Len(seq))
      BY <1>1, <1>3
    <3>2. QED
      BY <3>1, Zenon DEF Without
  <2> HIDE DEF a, b
  <2>4. /\ a \o b \in Seq(S) /\ Len(a \o b) = Len(seq) - 1
        /\ \A m \in 1 .. k - 1 : (a \o b)[m] = seq[m]
        /\ \A m \in k .. Len(seq) - 1 : (a \o b)[m] = seq[m + 1]
    <3>1. /\ a \o b \in Seq(S) /\ Len(a \o b) = Len(a) + Len(b)
          /\ \A m \in 1 .. Len(a) + Len(b) :
                (a \o b)[m] = IF m <= Len(a) THEN a[m] ELSE b[m - Len(a)]
      BY <2>1, <2>2, ConcatProperties
    <3>2. Len(a) = k - 1 /\ Len(b) = Len(seq) - k
      BY <2>1, <2>2
    <3>3. ASSUME NEW m \in 1 .. k - 1  PROVE (a \o b)[m] = seq[m]
      <4>1. m \in 1 .. Len(a) + Len(b) /\ m <= Len(a)
        BY <1>1, <1>3, <3>2
      <4>2. QED
        BY <2>1, <3>1, <4>1
    <3>4. ASSUME NEW m \in k .. Len(seq) - 1  PROVE (a \o b)[m] = seq[m + 1]
      <4>1. m \in 1 .. Len(a) + Len(b) /\ ~ (m <= Len(a))
        BY <1>1, <1>3, <3>2
      <4>2. (a \o b)[m] = b[m - Len(a)]
        BY <3>1, <4>1
      <4>3. m - Len(a) \in 1 .. Len(seq) - k /\ k + (m - Len(a)) = m + 1
        BY <1>1, <1>3, <3>2
      <4>4. b[m - Len(a)] = seq[k + (m - Len(a))]
        BY <2>2, <4>3
      <4>5. QED
        BY <4>2, <4>3, <4>4
    <3>5. Len(a \o b) = Len(seq) - 1
      BY <1>1, <1>3, <3>1, <3>2
    <3>6. QED
      BY <3>1, <3>3, <3>4, <3>5
  <2>5. ASSUME NEW m \in 1 .. Len(a \o b)
        PROVE  \E l \in 1 .. Len(seq) : l # k /\ (a \o b)[m] = seq[l]
    <3>1. CASE m < k
      <4>1. m \in 1 .. Len(seq) /\ m # k /\ (a \o b)[m] = seq[m]
        BY <1>1, <1>3, <2>4, <3>1
      <4>2. QED
        BY <4>1
    <3>2. CASE m >= k
      <4>1. m + 1 \in 1 .. Len(seq) /\ m + 1 # k /\ (a \o b)[m] = seq[m + 1]
        BY <1>1, <1>3, <2>4, <3>2
      <4>2. QED
        BY <4>1
    <3>3. QED
      BY <1>1, <2>4, <3>1, <3>2
  <2>6. ASSUME NEW l \in 1 .. Len(seq), l # k
        PROVE  \E m \in 1 .. Len(a \o b) : (a \o b)[m] = seq[l]
    <3>1. CASE l < k
      <4>1. l \in 1 .. Len(a \o b) /\ (a \o b)[l] = seq[l]
        BY <1>1, <1>3, <2>4, <3>1
      <4>2. QED
        BY <4>1
    <3>2. CASE l > k
      <4>1. l - 1 \in k .. Len(seq) - 1 /\ l - 1 \in 1 .. Len(a \o b) /\ l - 1 + 1 = l
        BY <1>1, <1>3, <2>4, <3>2
      <4>2. (a \o b)[l - 1] = seq[l]
        BY <2>4, <4>1
      <4>3. QED
        BY <4>1, <4>2
    <3>3. QED
      BY <1>1, <2>6, <3>1, <3>2
  <2>7. QED
    BY <2>3, <2>4, <2>5, <2>6
<1>4. QED
  BY <1>1, <1>2, <1>3

-----------------------------------------------------------------------------
(* The stack *)

LEMMA FrameParts ==
  ASSUME NEW f \in Frame
  PROVE  /\ IsTick(f) <=> f \in Tick
         /\ IsLoop(f) <=> f \in Loop
         /\ f.kind \in {"launch", "complete"} <=> f \in Call
         /\ f.kind = "splice" => ~ IsTick(f) /\ ~ IsLoop(f)
  BY DEF Frame, IsTick, IsLoop, Tick, Loop, Call

\* a frame is put on the stack
LEMMA Pushed ==
  ASSUME NEW s, NEW on \in BOOLEAN, NEW now \in BOOLEAN, StackOK(s, on), NEW f \in Frame,
         on => now,
         f.kind = "splice" => s # << >> /\ IsLoop(s[1]) /\ s[1].i > 0,
         IsTick(f) => now /\ ~ on
  PROVE  /\ StackOK(<< f >> \o s, now)
         /\ << f >> \o s # << >>
         /\ \A i \in Item :
               IsTicked(<< f >> \o s, i) <=> IsTicked(s, i) \/ (f.kind = "ticked" /\ f.of = i)
<1> DEFINE t == << f >> \o s
<1>1. s \in Seq(Frame) /\ Len(s) \in Nat
  BY LenProperties DEF StackOK
<1>2. /\ t \in Seq(Frame) /\ Len(t) = Len(s) + 1 /\ t[1] = f
      /\ \A k \in 2 .. Len(s) + 1 : t[k] = s[k - 1]
  BY <1>1, PushShape
<1> HIDE DEF t
<1>3. \A k \in 1 .. Len(t) : k = 1 \/ (k - 1 \in 1 .. Len(s) /\ t[k] = s[k - 1])
  BY <1>1, <1>2
<1>4. ASSUME NEW k \in 1 .. Len(s)
      PROVE  k + 1 \in 1 .. Len(t) /\ t[k + 1] = s[k]
  <2>1. k + 1 \in 2 .. Len(s) + 1 /\ k + 1 - 1 = k
    BY <1>1
  <2>2. t[k + 1] = s[k + 1 - 1]
    BY <1>2, <2>1
  <2>3. QED
    BY <1>1, <1>2, <2>1, <2>2
<1>5. \A k, l \in 1 .. Len(t) : IsTick(t[k]) /\ IsTick(t[l]) => k = l
  <2> SUFFICES ASSUME NEW k \in 1 .. Len(t), NEW l \in 1 .. Len(t),
                      IsTick(t[k]), IsTick(t[l])
               PROVE  k = l
    OBVIOUS
  <2>1. CASE k = 1 \/ l = 1
    BY <1>2, <1>3, <2>1 DEF StackOK
  <2>2. CASE k # 1 /\ l # 1
    <3>1. k - 1 = l - 1
      BY <1>3, <2>2 DEF StackOK
    <3>2. QED
      BY <3>1
  <2>3. QED
    BY <2>1, <2>2
<1>6. \A k \in 1 .. Len(t) : IsTick(t[k]) => now
  BY <1>2, <1>3 DEF StackOK
<1>7. ASSUME NEW k \in 1 .. Len(t), t[k].kind = "splice"
      PROVE  k < Len(t) /\ IsLoop(t[k + 1]) /\ t[k + 1].i > 0
  <2>1. k \in 1 .. Len(s) /\ IsLoop(s[k]) /\ s[k].i > 0
    <3>1. CASE k = 1
      <4>1. 1 \in 1 .. Len(s)
        BY <1>1, <1>2, <1>7, <3>1, EmptySeq
      <4>2. QED
        BY <1>2, <1>7, <3>1, <4>1
    <3>2. CASE k # 1
      <4>1. k - 1 \in 1 .. Len(s) /\ s[k - 1].kind = "splice"
        BY <1>3, <1>7, <3>2
      <4>2. k - 1 < Len(s) /\ IsLoop(s[k - 1 + 1]) /\ s[k - 1 + 1].i > 0
        BY <4>1 DEF StackOK
      <4>3. k - 1 + 1 = k
        OBVIOUS
      <4>4. QED
        BY <1>1, <4>1, <4>2, <4>3
    <3>3. QED
      BY <3>1, <3>2
  <2>2. t[k + 1] = s[k]
    BY <1>4, <2>1
  <2>3. QED
    BY <1>1, <1>2, <2>1, <2>2
<1>8. ASSUME NEW i \in Item
      PROVE  IsTicked(t, i) <=> IsTicked(s, i) \/ (f.kind = "ticked" /\ f.of = i)
  <2>1. ASSUME IsTicked(t, i)  PROVE IsTicked(s, i) \/ (f.kind = "ticked" /\ f.of = i)
    BY <1>2, <1>3, <2>1 DEF IsTicked
  <2>2. ASSUME IsTicked(s, i)  PROVE IsTicked(t, i)
    <3>1. PICK k \in 1 .. Len(s) : s[k].kind = "ticked" /\ s[k].of = i
      BY <2>2 DEF IsTicked
    <3>2. k + 1 \in 1 .. Len(t) /\ t[k + 1] = s[k]
      BY <1>4
    <3>3. QED
      BY <3>1, <3>2 DEF IsTicked
  <2>3. ASSUME f.kind = "ticked", f.of = i  PROVE IsTicked(t, i)
    <3>1. 1 \in 1 .. Len(t)
      BY <1>1, <1>2
    <3>2. QED
      BY <1>2, <2>3, <3>1 DEF IsTicked
  <2>4. QED
    BY <2>1, <2>2, <2>3
<1>9. t # << >>
  BY <1>1, <1>2
<1>10. QED
  BY <1>2, <1>5, <1>6, <1>7, <1>8, <1>9 DEF StackOK, t

\* the innermost frame is done
LEMMA Popped ==
  ASSUME NEW s, NEW on \in BOOLEAN, StackOK(s, on), s # << >>
  PROVE  /\ s[1] \in Frame
         /\ StackOK(Tail(s), on)
         /\ IsTick(s[1]) => on /\ StackOK(Tail(s), FALSE)
         /\ \A i \in Item :
               IsTicked(s, i) <=> IsTicked(Tail(s), i) \/ (s[1].kind = "ticked" /\ s[1].of = i)
         /\ IsTick(s[1]) => \A i \in Item : ~ IsTicked(Tail(s), i)
<1> DEFINE t == Tail(s)
<1>1. /\ s \in Seq(Frame) /\ t \in Seq(Frame) /\ Len(s) \in Nat \ {0}
      /\ Len(t) = Len(s) - 1
      /\ \A k \in 1 .. Len(s) - 1 : t[k] = s[k + 1]
  BY TailShape DEF StackOK
<1> HIDE DEF t
<1>2. 1 \in 1 .. Len(s) /\ s[1] \in Frame
  BY <1>1, ElementOfSeq
<1>3. \A k \in 1 .. Len(t) : k + 1 \in 1 .. Len(s) /\ t[k] = s[k + 1]
  BY <1>1
<1>4. \A k \in 1 .. Len(s) : k = 1 \/ (k - 1 \in 1 .. Len(t) /\ t[k - 1] = s[k])
  BY <1>1
<1>5. ASSUME NEW k \in 1 .. Len(t), NEW l \in 1 .. Len(t), IsTick(t[k]), IsTick(t[l])
      PROVE  k = l
  <2>1. k + 1 = l + 1
    BY <1>3, <1>5 DEF StackOK
  <2>2. QED
    BY <2>1
<1>6. ASSUME NEW k \in 1 .. Len(t), IsTick(t[k])
      PROVE  on /\ ~ IsTick(s[1])
  <2>1. k + 1 \in 1 .. Len(s) /\ k + 1 # 1 /\ IsTick(s[k + 1])
    BY <1>3, <1>6
  <2>2. QED
    BY <1>2, <2>1 DEF StackOK
<1>7. ASSUME NEW k \in 1 .. Len(t), t[k].kind = "splice"
      PROVE  k < Len(t) /\ IsLoop(t[k + 1]) /\ t[k + 1].i > 0
  <2>1. k + 1 \in 1 .. Len(s) /\ s[k + 1].kind = "splice"
    BY <1>3, <1>7
  <2>2. k + 1 < Len(s) /\ IsLoop(s[k + 1 + 1]) /\ s[k + 1 + 1].i > 0
    BY <2>1 DEF StackOK
  <2>3. k + 1 \in 1 .. Len(t) /\ t[k + 1] = s[k + 1 + 1]
    BY <1>1, <1>3, <2>1, <2>2
  <2>4. QED
    BY <1>1, <2>2, <2>3
<1>8. ASSUME NEW i \in Item
      PROVE  /\ IsTicked(s, i) <=> IsTicked(t, i) \/ (s[1].kind = "ticked" /\ s[1].of = i)
             /\ IsTick(s[1]) => ~ IsTicked(t, i)
  <2>1. ASSUME IsTicked(t, i)  PROVE IsTicked(s, i) /\ ~ IsTick(s[1])
    <3>1. PICK k \in 1 .. Len(t) : t[k].kind = "ticked" /\ t[k].of = i
      BY <2>1 DEF IsTicked
    <3>2. k + 1 \in 1 .. Len(s) /\ t[k] = s[k + 1]
      BY <1>3
    <3>3. IsTick(t[k])
      BY <3>1 DEF IsTick
    <3>4. QED
      BY <1>6, <3>1, <3>2, <3>3 DEF IsTicked
  <2>2. ASSUME IsTicked(s, i)
        PROVE  IsTicked(t, i) \/ (s[1].kind = "ticked" /\ s[1].of = i)
    BY <1>4, <2>2 DEF IsTicked
  <2>3. ASSUME s[1].kind = "ticked", s[1].of = i  PROVE IsTicked(s, i)
    BY <1>2, <2>3 DEF IsTicked
  <2>4. QED
    BY <2>1, <2>2, <2>3
<1>9. IsTick(s[1]) => on
  BY <1>2 DEF StackOK
<1>10. QED
  BY <1>1, <1>2, <1>5, <1>6, <1>7, <1>8, <1>9 DEF StackOK, t

LEMMA StackEmpty ==
  ASSUME NEW on \in BOOLEAN
  PROVE  StackOK(<< >>, on) /\ \A i \in Item : ~ IsTicked(<< >>, i)
  BY DEF StackOK, IsTicked

\* what holds while no frame runs
LEMMA StackWeaken ==
  ASSUME NEW s, NEW on \in BOOLEAN, NEW now \in BOOLEAN, StackOK(s, on),
         on => now
  PROVE  StackOK(s, now)
  BY DEF StackOK

LEMMA GoPushed ==
  ASSUME NEW s, NEW on, StackOK(s, on), NEW f \in Frame, NEW seq, NEW R,
         GoStack(s, seq, R),
         IsLoop(f) => s = << >>,
         IsTick(f) => \A k \in 1 .. Len(s) : s[k].kind # "splice",
         f.kind = "ticked" => SafeIn(f.i, f.of, seq, R),
         f.kind = "splice" =>
             /\ s # << >>
             /\ SafeIn(s[1].i, seq[s[1].i], seq, R)
             /\ \A k \in 1 .. Len(s) : ~ IsTick(s[k])
  PROVE  GoStack(<< f >> \o s, seq, R)
<1> DEFINE t == << f >> \o s
<1>1. s \in Seq(Frame) /\ Len(s) \in Nat
  BY LenProperties DEF StackOK
<1>2. /\ t \in Seq(Frame) /\ Len(t) = Len(s) + 1 /\ t[1] = f
      /\ \A k \in 2 .. Len(s) + 1 : t[k] = s[k - 1]
  BY <1>1, PushShape
<1> HIDE DEF t
<1>3. \A k \in 1 .. Len(t) : k = 1 \/ (k - 1 \in 1 .. Len(s) /\ t[k] = s[k - 1])
  BY <1>1, <1>2
<1>4. \A k \in 1 .. Len(s) : k + 1 \in 1 .. Len(t) /\ t[k + 1] = s[k]
  BY <1>1, <1>2
<1>5. ASSUME NEW k \in 1 .. Len(t), IsLoop(t[k])
      PROVE  k = Len(t)
  <2>1. CASE k = 1
    <3>1. s = << >>
      BY <1>2, <1>5, <2>1
    <3>2. QED
      BY <1>2, <2>1, <3>1
  <2>2. CASE k # 1
    <3>1. k - 1 = Len(s)
      BY <1>3, <1>5, <2>2 DEF GoStack
    <3>2. QED
      BY <1>1, <1>2, <3>1
  <2>3. QED
    BY <2>1, <2>2
<1>6. ASSUME NEW k \in 1 .. Len(t), t[k].kind = "splice"
      PROVE  /\ SafeIn(t[k + 1].i, seq[t[k + 1].i], seq, R)
             /\ \A l \in 1 .. Len(t) : ~ IsTick(t[l])
  <2>1. CASE k = 1
    <3>1. s # << >> /\ 1 \in 1 .. Len(s)
      BY <1>1, <1>2, <1>6, <2>1, EmptySeq
    <3>2. t[k + 1] = s[1]
      BY <1>4, <2>1, <3>1
    <3>3. ASSUME NEW l \in 1 .. Len(t)  PROVE ~ IsTick(t[l])
      BY <1>2, <1>3, <1>6, <2>1 DEF IsTick
    <3>4. QED
      BY <1>2, <1>6, <2>1, <3>2, <3>3
  <2>2. CASE k # 1
    <3>1. k - 1 \in 1 .. Len(s) /\ s[k - 1].kind = "splice"
      BY <1>3, <1>6, <2>2
    <3>2. /\ SafeIn(s[k - 1 + 1].i, seq[s[k - 1 + 1].i], seq, R)
          /\ \A l \in 1 .. Len(s) : ~ IsTick(s[l])
      BY <3>1 DEF GoStack
    <3>3. ~ IsTick(f)
      BY <3>1
    <3>4. k - 1 + 1 = k
      OBVIOUS
    <3>5. k \in 1 .. Len(s)
      BY <1>1, <3>1 DEF StackOK
    <3>6. t[k + 1] = s[k]
      BY <1>4, <3>5
    <3>7. QED
      BY <1>2, <1>3, <3>2, <3>3, <3>4, <3>6
  <2>3. QED
    BY <2>1, <2>2
<1>7. ASSUME NEW k \in 1 .. Len(t), t[k].kind = "ticked"
      PROVE  SafeIn(t[k].i, t[k].of, seq, R)
  BY <1>2, <1>3, <1>7 DEF GoStack
<1>8. QED
  BY <1>5, <1>6, <1>7 DEF GoStack, t

LEMMA GoPopped ==
  ASSUME NEW s, NEW on, StackOK(s, on), s # << >>, NEW seq, NEW R, GoStack(s, seq, R)
  PROVE  /\ GoStack(Tail(s), seq, R)
         /\ IsTick(s[1]) => \A k \in 1 .. Len(Tail(s)) : Tail(s)[k].kind # "splice"
         /\ IsLoop(s[1]) => Tail(s) = << >>
<1> DEFINE t == Tail(s)
<1>1. /\ t \in Seq(Frame) /\ Len(s) \in Nat \ {0} /\ Len(t) = Len(s) - 1
      /\ \A k \in 1 .. Len(s) - 1 : t[k] = s[k + 1]
  BY TailShape DEF StackOK
<1> HIDE DEF t
<1>2. \A k \in 1 .. Len(t) : k + 1 \in 1 .. Len(s) /\ t[k] = s[k + 1]
  BY <1>1
<1>3. 1 \in 1 .. Len(s)
  BY <1>1
<1>4. ASSUME NEW k \in 1 .. Len(t), IsLoop(t[k])
      PROVE  k = Len(t)
  <2>1. k + 1 = Len(s)
    BY <1>2, <1>4 DEF GoStack
  <2>2. QED
    BY <1>1, <2>1
<1>5. ASSUME NEW k \in 1 .. Len(t), t[k].kind = "splice"
      PROVE  /\ SafeIn(t[k + 1].i, seq[t[k + 1].i], seq, R)
             /\ \A l \in 1 .. Len(s) : ~ IsTick(s[l])
  <2>1. k + 1 \in 1 .. Len(s) /\ s[k + 1].kind = "splice"
    BY <1>2, <1>5
  <2>2. k + 1 < Len(s)
    BY <2>1 DEF StackOK
  <2>3. k + 1 \in 1 .. Len(t) /\ t[k + 1] = s[k + 1 + 1]
    BY <1>1, <1>2, <2>2
  <2>4. QED
    BY <2>1, <2>3 DEF GoStack
<1>6. ASSUME NEW k \in 1 .. Len(t), t[k].kind = "ticked"
      PROVE  SafeIn(t[k].i, t[k].of, seq, R)
  BY <1>2, <1>6 DEF GoStack
<1>7. IsLoop(s[1]) => t = << >>
  <2> SUFFICES ASSUME IsLoop(s[1]) PROVE t = << >>
    OBVIOUS
  <2>1. 1 = Len(s)
    BY <1>3 DEF GoStack
  <2>2. Len(t) = 1 - 1
    BY <1>1, <2>1, Zenon
  <2>3. QED
    BY <1>1, <2>2, EmptySeq
<1>8. IsTick(s[1]) => \A k \in 1 .. Len(t) : t[k].kind # "splice"
  BY <1>3, <1>5
<1>9. \A k \in 1 .. Len(t) : t[k].kind = "splice" => \A l \in 1 .. Len(t) : ~ IsTick(t[l])
  BY <1>2, <1>5
<1>10. QED
  BY <1>4, <1>5, <1>6, <1>7, <1>8, <1>9 DEF GoStack, t

LEMMA GoEmpty ==
  ASSUME NEW seq, NEW R
  PROVE  GoStack(<< >>, seq, R)
  BY DEF GoStack

\* a timer is added, and no other begins to run
LEMMA GoGrown ==
  ASSUME NEW s, NEW on, StackOK(s, on), NEW seq \in Seq(Item), NEW R, NEW i \in Item,
         NEW Q, Q \subseteq R \cup {i},
         GoStack(s, seq, R)
  PROVE  GoStack(s, Append(seq, i), Q)
<1>1. s \in Seq(Frame) /\ Len(s) \in Nat /\ Len(seq) \in Nat
  BY LenProperties DEF StackOK
<1> DEFINE longer == Append(seq, i)
<1>2. /\ Len(longer) = Len(seq) + 1 /\ longer[Len(seq) + 1] = i
      /\ \A m \in 1 .. Len(seq) : longer[m] = seq[m]
  BY AppendProperties
<1> HIDE DEF longer
<1>3. ASSUME NEW k \in Nat \ {0}, NEW j, SafeIn(k, j, seq, R)
      PROVE  SafeIn(k, j, longer, Q)
  <2>1. k \in 1 .. Len(seq) /\ k <= Len(longer)
    BY <1>1, <1>2, <1>3 DEF SafeIn
  <2>2. CASE j = i
    <3>1. Len(seq) + 1 \in 1 .. Len(longer) /\ Len(seq) + 1 # k
      BY <1>1, <1>2, <2>1
    <3>2. QED
      BY <1>2, <2>1, <2>2, <3>1 DEF SafeIn
  <2>3. CASE j # i /\ j \in Q
    <3>1. PICK m \in 1 .. Len(seq) : m # k /\ seq[m] = j
      BY <1>3, <2>3 DEF SafeIn
    <3>2. m \in 1 .. Len(longer) /\ longer[m] = j
      BY <1>1, <1>2, <3>1
    <3>3. QED
      BY <2>1, <3>1, <3>2 DEF SafeIn
  <2>4. CASE j \notin Q
    BY <2>1, <2>4 DEF SafeIn
  <2>5. QED
    BY <2>2, <2>3, <2>4
<1>4. ASSUME NEW k \in 1 .. Len(s), s[k].kind = "splice"
      PROVE  SafeIn(s[k + 1].i, longer[s[k + 1].i], longer, Q)
  <2>1. k + 1 \in 1 .. Len(s) /\ IsLoop(s[k + 1]) /\ s[k + 1].i > 0
    BY <1>1, <1>4 DEF StackOK
  <2>2. s[k + 1] \in Frame
    BY <1>1, <2>1, ElementOfSeq
  <2>3. s[k + 1].i \in Nat \ {0}
    <3>1. s[k + 1] \in Loop
      BY <2>1, <2>2, FrameParts
    <3>2. s[k + 1].i \in Nat
      BY <3>1 DEF Loop
    <3>3. QED
      BY <2>1, <3>2
  <2>4. SafeIn(s[k + 1].i, seq[s[k + 1].i], seq, R)
    BY <1>4 DEF GoStack
  <2>5. longer[s[k + 1].i] = seq[s[k + 1].i]
    <3>1. s[k + 1].i \in 1 .. Len(seq)
      BY <1>1, <2>3, <2>4 DEF SafeIn
    <3>2. QED
      BY <1>2, <3>1
  <2>6. QED
    BY <1>3, <2>3, <2>4, <2>5
<1>5. ASSUME NEW k \in 1 .. Len(s), s[k].kind = "ticked"
      PROVE  SafeIn(s[k].i, s[k].of, longer, Q)
  <2>1. s[k] \in Frame /\ IsTick(s[k])
    BY <1>1, <1>5, ElementOfSeq DEF IsTick
  <2>2. s[k] \in Tick
    BY <2>1, FrameParts
  <2>3. s[k].i \in Nat \ {0}
    BY <2>2 DEF Tick
  <2>4. QED
    BY <1>3, <1>5, <2>3 DEF GoStack
<1>6. QED
  BY <1>4, <1>5 DEF GoStack, longer

\* timers that do not run any more may be taken out
LEMMA GoFewer ==
  ASSUME NEW s, NEW seq, NEW R, NEW Q, Q \subseteq R, GoStack(s, seq, R)
  PROVE  GoStack(s, seq, Q)
  BY DEF GoStack, SafeIn

-----------------------------------------------------------------------------
(* An animation is started *)

LEMMA TimersGrow ==
  ASSUME timers \in Seq(Item), NEW i \in Item, timers' = Append(timers, i)
  PROVE  /\ timers' \in Seq(Item)
         /\ Len(timers) \in Nat /\ Len(timers') = Len(timers) + 1
         /\ timers'[Len(timers')] = i
         /\ \A k \in 1 .. Len(timers) : timers'[k] = timers[k]
  BY AppendProperties, LenProperties

LEMMA DrivenStack ==
  ASSUME NEW i \in Item, NEW rest, Structure, StackOK(rest, inProgress),
         Driven(i, << [kind |-> "launch", of |-> i] >> \o rest)
  PROVE  /\ StackOK(stack', inProgress')
         /\ \A j \in Item : IsTicked(stack', j) <=> IsTicked(rest, j)
         /\ inProgress' = TRUE
         /\ loops' \in Nat /\ loops' > 0
<1> DEFINE launch == [kind |-> "launch", of |-> i]
           tick == [kind |-> "tick", i |-> 1]
           called == << launch >> \o rest
<1>1. /\ launch \in Frame /\ launch.kind = "launch" /\ ~ IsTick(launch)
      /\ tick \in Frame /\ tick.kind = "tick" /\ IsTick(tick)
  BY DEF Frame, Call, Tick, IsTick
<1>2. inProgress \in BOOLEAN /\ loops \in Nat /\ (inProgress => loops > 0)
  BY DEF Structure
<1>3. /\ inProgress' = TRUE
      /\ loops' = IF inProgress THEN loops ELSE loops + 1
      /\ stack' = (IF inProgress THEN << >> ELSE << tick >>) \o called
  BY DEF Driven
<1> HIDE DEF launch, tick
<1>4. /\ StackOK(called, inProgress)
      /\ \A j \in Item : IsTicked(called, j) <=> IsTicked(rest, j)
  BY <1>1, <1>2, Pushed
<1>5. loops' \in Nat /\ loops' > 0
  BY <1>2, <1>3
<1> HIDE DEF called
<1>6. CASE inProgress
  <2>1. called \in Seq(Frame)
    BY <1>4 DEF StackOK
  <2>2. stack' = called
    BY <1>3, <1>6, <2>1, ConcatEmptySeq
  <2>3. StackOK(stack', TRUE)
    BY <1>2, <1>4, <2>2, StackWeaken
  <2>4. QED
    BY <1>3, <1>4, <1>5, <2>2, <2>3
<1>7. CASE ~ inProgress
  <2>1. stack' = << tick >> \o called
    BY <1>3, <1>7
  <2>2. StackOK(called, FALSE) /\ tick.kind # "splice" /\ tick.kind # "ticked"
    <3>1. inProgress = FALSE
      BY <1>2, <1>7
    <3>2. QED
      BY <1>1, <1>4, <3>1
  <2>3. /\ StackOK(stack', TRUE)
        /\ \A j \in Item : IsTicked(stack', j) <=> IsTicked(called, j)
    BY <1>1, <2>1, <2>2, Pushed
  <2>4. QED
    BY <1>3, <1>4, <1>5, <2>3
<1>8. QED
  BY <1>6, <1>7

LEMMA DrivenGo ==
  ASSUME NEW i \in Item, NEW rest, Structure, StackOK(rest, inProgress),
         GoStack(rest, timers, Runners),
         NEW Q, Q \subseteq Runners \cup {i},
         Driven(i, << [kind |-> "launch", of |-> i] >> \o rest)
  PROVE  GoStack(stack', timers', Q)
<1> DEFINE launch == [kind |-> "launch", of |-> i]
           tick == [kind |-> "tick", i |-> 1]
           called == << launch >> \o rest
<1>1. /\ launch \in Frame /\ launch.kind = "launch" /\ ~ IsTick(launch) /\ ~ IsLoop(launch)
      /\ tick \in Frame /\ tick.kind = "tick" /\ ~ IsLoop(tick)
  BY DEF Frame, Call, Tick, IsTick, IsLoop
<1>2. inProgress \in BOOLEAN /\ timers \in Seq(Item) /\ (timers # << >> => inProgress)
  BY DEF Structure
<1>3. /\ timers' = Append(timers, i)
      /\ stack' = (IF inProgress THEN << >> ELSE << tick >>) \o called
  BY DEF Driven
<1> HIDE DEF launch, tick
<1>4. StackOK(called, inProgress)
  BY <1>1, <1>2, Pushed
<1>5. GoStack(called, timers, Runners)
  BY <1>1, GoPushed
<1> HIDE DEF called
<1>6. CASE inProgress
  <2>1. called \in Seq(Frame)
    BY <1>4 DEF StackOK
  <2>2. stack' = called
    BY <1>3, <1>6, <2>1, ConcatEmptySeq
  <2>3. QED
    BY <1>2, <1>3, <1>4, <1>5, <2>2, GoGrown
<1>7. CASE ~ inProgress
  <2>1. stack' = << tick >> \o called
    BY <1>3, <1>7
  <2>2. ASSUME NEW k \in 1 .. Len(called), called[k].kind = "splice"
        PROVE  FALSE
    <3>1. called \in Seq(Frame) /\ k + 1 \in 1 .. Len(called) /\ called[k + 1].i > 0
          /\ IsLoop(called[k + 1])
      BY <1>4, <2>2, LenProperties DEF StackOK
    <3>2. called[k + 1] \in Frame
      BY <3>1, ElementOfSeq
    <3>3. called[k + 1].i \in Nat
      <4>1. called[k + 1] \in Loop
        BY <3>1, <3>2, FrameParts
      <4>2. QED
        BY <4>1 DEF Loop
    <3>4. SafeIn(called[k + 1].i, timers[called[k + 1].i], timers, Runners)
      BY <1>5, <2>2 DEF GoStack
    <3>5. called[k + 1].i <= Len(timers)
      BY <3>4 DEF SafeIn
    <3>6. timers = << >>
      BY <1>2, <1>7
    <3>7. Len(timers) = 0
      BY <3>6
    <3>8. QED
      BY <3>1, <3>3, <3>5, <3>7
  <2>3. GoStack(stack', timers, Runners)
    BY <1>1, <1>4, <1>5, <2>1, <2>2, GoPushed
  <2>4. StackOK(stack', TRUE)
    <3>1. IsTick(tick)
      BY <1>1 DEF IsTick
    <3>2. StackOK(called, FALSE) /\ tick.kind # "splice"
      <4>1. inProgress = FALSE
        BY <1>2, <1>7
      <4>2. QED
        BY <1>1, <1>4, <4>1
    <3>3. QED
      BY <1>1, <2>1, <3>1, <3>2, Pushed
  <2>5. QED
    BY <1>2, <1>3, <2>3, <2>4, GoGrown
<1>8. QED
  BY <1>6, <1>7

LEMMA PrefilteredItems ==
  ASSUME NEW i \in Item, Structure, Prefiltered(i)
  PROVE  /\ DOMAIN item' = Item
         /\ DOMAIN item'[i] = Fields
         /\ ~ item'[i].halted
         /\ item'[i].state = "running"
         /\ \A j \in Item : j # i => item'[j] = item[j]
<1>1. DOMAIN item = Item
  BY DEF Structure
<1>2. CASE item' = [item EXCEPT ![i] =
                       [NoItem EXCEPT !.state = "running", !.left = item'[i].left]]
  BY <1>1, <1>2 DEF Fields, NoItem
<1>3. CASE item' = [item EXCEPT ![i] =
                       [state |-> "running", left |-> item'[i].left, halted |-> FALSE,
                        hidden |-> item'[i].hidden, orig |-> item'[i].orig,
                        end |-> item'[i].end]]
  BY <1>1, <1>3 DEF Fields
<1>4. QED
  BY <1>1, <1>2, <1>3 DEF Prefiltered, NoItem

LEMMA LaunchedStructure ==
  ASSUME NEW i \in Item, NEW rest, Structure, StackOK(rest, inProgress),
         Launched(i, rest)
  PROVE  /\ Structure'
         /\ \A j \in Item : IsTicked(stack', j) <=> IsTicked(rest, j)
<1>1. /\ Prefiltered(i)
      /\ Driven(i, << [kind |-> "launch", of |-> i] >> \o rest)
  BY DEF Launched
<1>2. /\ StackOK(stack', inProgress')
      /\ \A j \in Item : IsTicked(stack', j) <=> IsTicked(rest, j)
      /\ inProgress' = TRUE
      /\ loops' \in Nat /\ loops' > 0
  BY <1>1, DrivenStack
<1>3. timers' \in Seq(Item)
  <2>1. timers \in Seq(Item) /\ timers' = Append(timers, i)
    BY <1>1 DEF Driven, Structure
  <2>2. QED
    BY <2>1, AppendProperties
<1>4. ASSUME NEW j \in Item
      PROVE  DOMAIN item'[j] = Fields /\ (item'[j].halted => item'[j].state # "running")
  BY <1>1, PrefilteredItems DEF Structure, Running
<1>5. DOMAIN item' = Item
  BY <1>1, PrefilteredItems
<1>6. QED
  BY <1>2, <1>3, <1>4, <1>5 DEF Structure, Running

LEMMA LaunchedStyle ==
  ASSUME NEW i \in Item, NEW rest, Structure, StackOK(rest, inProgress), StyleInv,
         \A j \in Item : IsTicked(stack, j) => IsTicked(rest, j),
         ~ Running(i), Launched(i, rest), UNCHANGED interrupted
  PROVE  StyleInv'
<1> SUFFICES ASSUME ~ spoilt'
             PROVE  /\ \/ fxshow' = None /\ Original(value)'
                       \/ fxshow' \in [value : {"fixed"}, hidden : BOOLEAN \cup {None}]
                    /\ fxshow' # None =>
                          interrupted' \/ \E j \in Item : Running(j)' /\ Styles(j)'
                    /\ \A j \in Item : Styles(j)' => Original(item[j].orig)'
                    /\ \A j \in Item : Running(j)' /\ Styles(j)' => fxshow' # None
                    /\ \A j, k \in Item :
                          Running(j)' /\ Styles(j)' /\ Running(k)' /\ Styles(k)' => j = k
                    /\ \A k \in 1 .. Len(timers') :
                          Ended(timers[k])' => IsTicked(stack', timers'[k])
  BY DEF StyleInv
<1>1. /\ Prefiltered(i)
      /\ Driven(i, << [kind |-> "launch", of |-> i] >> \o rest)
  BY DEF Launched
<1>2. /\ DOMAIN item' = Item
      /\ item'[i].state = "running"
      /\ \A j \in Item : j # i => item'[j] = item[j]
  BY <1>1, PrefilteredItems
<1>3. ASSUME NEW k \in 1 .. Len(timers'), Ended(timers[k])', ~ spoilt
      PROVE  IsTicked(stack', timers'[k])
  <2>1. /\ timers' \in Seq(Item) /\ Len(timers) \in Nat /\ Len(timers') = Len(timers) + 1
        /\ timers'[Len(timers')] = i
        /\ \A m \in 1 .. Len(timers) : timers'[m] = timers[m]
    BY <1>1, TimersGrow DEF Driven, Structure
  <2>2. timers'[k] # i
    BY <1>2, <1>3 DEF Ended, Running
  <2>3. k \in 1 .. Len(timers) /\ timers'[k] = timers[k] /\ timers'[k] \in Item
    BY <2>1, <2>2, ElementOfSeq
  <2>4. Ended(timers[k])
    BY <1>2, <1>3, <2>2, <2>3 DEF Ended, Running, Styles
  <2>5. IsTicked(stack, timers[k])
    BY <1>3, <2>3, <2>4 DEF StyleInv
  <2>6. QED
    BY <2>3, <2>5, LaunchedStructure
<1>4. CASE /\ item' = [item EXCEPT ![i] =
                          [NoItem EXCEPT !.state = "running", !.left = item'[i].left]]
           /\ UNCHANGED << style, spoilt >>
  <2>1. ~ Styles(i)'
    BY <1>2, <1>4 DEF Styles, NoItem, Structure
  <2>2. ~ spoilt
    BY <1>4
  <2>3. \A j \in Item : j # i => (Styles(j)' <=> Styles(j)) /\ (Running(j)' <=> Running(j))
    BY <1>2 DEF Styles, Running
  <2>4. /\ \/ fxshow' = None /\ Original(value)'
           \/ fxshow' \in [value : {"fixed"}, hidden : BOOLEAN \cup {None}]
        /\ fxshow' = fxshow
    BY <1>4, <2>2 DEF StyleInv, style, Original
  <2>5. \A j \in Item : Styles(j)' => Original(item[j].orig)'
    BY <1>2, <2>1, <2>2, <2>3 DEF StyleInv, Original
  <2>6. \A j \in Item : Running(j)' /\ Styles(j)' => fxshow' # None
    BY <1>4, <2>1, <2>2, <2>3 DEF StyleInv, style
  <2>7. \A j, k \in Item : Running(j)' /\ Styles(j)' /\ Running(k)' /\ Styles(k)' => j = k
    BY <2>1, <2>2, <2>3 DEF StyleInv
  <2>8. fxshow' # None => interrupted' \/ \E j \in Item : Running(j)' /\ Styles(j)'
    <3> SUFFICES ASSUME fxshow' # None, ~ interrupted
                 PROVE  \E j \in Item : Running(j)' /\ Styles(j)'
      OBVIOUS
    <3>1. PICK j \in Item : Running(j) /\ Styles(j)
      BY <2>2, <2>4 DEF StyleInv
    <3>2. j # i
      BY <3>1
    <3>3. QED
      BY <2>3, <3>1, <3>2
  <2>9. QED
    BY <1>3, <2>2, <2>4, <2>5, <2>6, <2>7, <2>8
<1>5. CASE \E hidden, now \in BOOLEAN :
              /\ item'[i].orig = OrigOf(fxshow)
              /\ fxshow' = [value |-> KeptOf(fxshow),
                            hidden |-> IF now THEN hidden
                                       ELSE IF fxshow = None THEN None ELSE fxshow.hidden]
              /\ spoilt' = (spoilt \/ \E j \in Item : Running(j) /\ Styles(j))
  <2>1. PICK hidden \in BOOLEAN, now \in BOOLEAN :
              /\ item'[i].orig = OrigOf(fxshow)
              /\ fxshow' = [value |-> KeptOf(fxshow),
                            hidden |-> IF now THEN hidden
                                       ELSE IF fxshow = None THEN None ELSE fxshow.hidden]
              /\ spoilt' = (spoilt \/ \E j \in Item : Running(j) /\ Styles(j))
    BY <1>5
  <2>2. ~ spoilt /\ \A j \in Item : ~ (Running(j) /\ Styles(j))
    BY <2>1
  <2>3. /\ \/ fxshow = None /\ Original(value)
           \/ fxshow \in [value : {"fixed"}, hidden : BOOLEAN \cup {None}]
        /\ fxshow # None => interrupted
    BY <2>2 DEF StyleInv
  <2>4. /\ KeptOf(fxshow) = "fixed"
        /\ Original(OrigOf(fxshow))
        /\ OrigOf(fxshow) # None
    BY <2>3, FxAssumption DEF OrigOf, KeptOf, cur, Original, Kept, Style
  <2>5. fxshow' \in [value : {"fixed"}, hidden : BOOLEAN \cup {None}]
    BY <2>1, <2>3, <2>4
  <2>6. fxshow' # None
    BY <2>5, FxAssumption DEF Kept, Style
  <2>7. \A j \in Item : j # i => (Styles(j)' <=> Styles(j)) /\ (Running(j)' <=> Running(j))
    BY <1>2 DEF Styles, Running
  <2>8. \A j \in Item : Styles(j)' => Original(item[j].orig)'
    BY <1>2, <2>1, <2>2, <2>4, <2>7 DEF StyleInv, Original
  <2>9. /\ \A j \in Item : Running(j)' /\ Styles(j)' => j = i
        /\ Running(i)' /\ Styles(i)'
    BY <1>2, <2>1, <2>2, <2>4, <2>7 DEF Running, Styles
  <2>10. QED
    BY <1>3, <2>2, <2>5, <2>6, <2>8, <2>9
<1> DEFINE what == kinds'[i].what
           again == what = "show" /\ ~ isHiddenWithinTree /\ fxshow # None
           noop == \/ what = "empty"
                   \/ what = (IF isHiddenWithinTree THEN "hide" ELSE "show") /\ ~ again
           seems == again \/ isHiddenWithinTree
           hidden == IF fxshow # None /\ fxshow.hidden # None
                       THEN fxshow.hidden = TRUE ELSE seems
<1>6. DOMAIN item = Item
  BY DEF Structure
<1>7. CASE what = "plain" \/ noop
  <2>1. /\ item' = [item EXCEPT ![i] =
                       [NoItem EXCEPT !.state = "running",
                                      !.left = IF noop THEN 0 ELSE kinds'[i].duration]]
        /\ UNCHANGED << style, spoilt >>
    BY <1>1, <1>7 DEF Prefiltered
  <2>2. item'[i].left = IF noop THEN 0 ELSE kinds'[i].duration
    BY <1>6, <2>1 DEF NoItem
  <2>3. QED
    BY <1>4, <2>1, <2>2
<1>8. CASE ~ (what = "plain" \/ noop)
  <2>1. /\ item' = [item EXCEPT ![i] =
                       [state |-> "running", left |-> kinds'[i].duration, halted |-> FALSE,
                        hidden |-> hidden, orig |-> OrigOf(fxshow),
                        end |-> createTween(hidden, KeptOf(fxshow))]]
        /\ fxshow' = [value |-> KeptOf(fxshow),
                      hidden |-> IF what = "toggle" THEN ~ hidden
                                 ELSE IF fxshow = None THEN None ELSE fxshow.hidden]
        /\ spoilt' = (spoilt \/ \E j \in Item : Running(j) /\ Styles(j))
    BY <1>1, <1>8 DEF Prefiltered
  <2>2. item'[i].orig = OrigOf(fxshow)
    BY <1>6, <2>1
  <2>3. (~ hidden) \in BOOLEAN /\ (what = "toggle") \in BOOLEAN
    BY DEF isHiddenWithinTree
  <2> HIDE DEF hidden, what
  <2>4. QED
    BY <1>5, <2>1, <2>2, <2>3
<1>9. QED
  BY <1>7, <1>8

LEMMA LaunchedGo ==
  ASSUME NEW i \in Item, NEW rest, Structure, StackOK(rest, inProgress), GoOn(rest),
         Launched(i, rest)
  PROVE  GoOn(stack)'
<1>1. /\ Prefiltered(i)
      /\ Driven(i, << [kind |-> "launch", of |-> i] >> \o rest)
  BY DEF Launched
<1>2. \A j \in Item : j # i => item'[j] = item[j]
  BY <1>1, PrefilteredItems
<1>3. Runners' \subseteq Runners \cup {i}
  BY <1>2 DEF Runners, Running
<1>4. GoStack(stack', timers', Runners')
  BY <1>1, <1>3, DrivenGo DEF GoOn
<1>5. /\ Len(timers) \in Nat /\ Len(timers') = Len(timers) + 1
      /\ timers'[Len(timers')] = i
      /\ \A m \in 1 .. Len(timers) : timers'[m] = timers[m]
  BY <1>1, TimersGrow DEF Driven, Structure
<1>6. ASSUME NEW j \in Runners'
      PROVE  \E k \in 1 .. Len(timers') : timers'[k] = j
  <2>1. CASE j = i
    <3>1. Len(timers') \in 1 .. Len(timers')
      BY <1>5
    <3>2. QED
      BY <1>5, <2>1, <3>1
  <2>2. CASE j \in Runners
    <3>1. PICK k \in 1 .. Len(timers) : timers[k] = j
      BY <2>2 DEF GoOn
    <3>2. k \in 1 .. Len(timers') /\ timers'[k] = j
      BY <1>5, <3>1
    <3>3. QED
      BY <3>2
  <2>3. QED
    BY <1>3, <2>1, <2>2
<1>7. QED
  BY <1>4, <1>6 DEF GoOn

-----------------------------------------------------------------------------
(* The queue moves on *)

LEMMA SentinelTaken ==
  ASSUME NEW q, QueueOK(q)
  PROVE  WithoutSentinel(q) \in Seq(Item)
<1>1. q \in Seq(Item \cup {Sentinel}) /\ Len(q) \in Nat
  BY LenProperties DEF QueueOK
<1>2. CASE q # << >> /\ Head(q) = Sentinel
  <2>1. /\ Tail(q) \in Seq(Item \cup {Sentinel}) /\ Len(Tail(q)) = Len(q) - 1
        /\ \A k \in 1 .. Len(q) - 1 : Tail(q)[k] = q[k + 1]
    BY <1>1, <1>2, TailShape
  <2>2. ASSUME NEW k \in 1 .. Len(Tail(q))  PROVE Tail(q)[k] \in Item
    <3>1. k + 1 \in 2 .. Len(q) /\ Tail(q)[k] = q[k + 1]
      BY <1>1, <2>1
    <3>2. Tail(q)[k] # Sentinel
      BY <3>1 DEF QueueOK
    <3>3. Tail(q)[k] \in Item \cup {Sentinel}
      BY <2>1, ElementOfSeq
    <3>4. QED
      BY <3>2, <3>3
  <2>3. ASSUME NEW t \in Seq(Item \cup {Sentinel}), \A k \in 1 .. Len(t) : t[k] \in Item
        PROVE  t \in Seq(Item)
    BY <2>3
  <2>4. Tail(q) \in Seq(Item)
    BY <2>1, <2>2, <2>3
  <2>5. QED
    BY <1>2, <2>4 DEF WithoutSentinel
<1>3. CASE ~ (q # << >> /\ Head(q) = Sentinel)
  <2>1. ASSUME NEW k \in 1 .. Len(q)  PROVE q[k] \in Item
    <3>1. q[k] \in Item \cup {Sentinel}
      BY <1>1, ElementOfSeq
    <3>2. q[k] # Sentinel
      <4>1. CASE k = 1
        <5>1. q # << >> /\ Head(q) = q[1]
          BY <1>1, <2>1
        <5>2. QED
          BY <1>3, <4>1, <5>1
      <4>2. CASE k # 1
        BY <1>1, <4>2 DEF QueueOK
      <4>3. QED
        BY <4>1, <4>2
    <3>3. QED
      BY <3>1, <3>2
  <2>2. q \in Seq(Item)
    BY <1>1, <2>1
  <2>3. QED
    BY <1>3, <2>2 DEF WithoutSentinel
<1>4. QED
  BY <1>2, <1>3

LEMMA SentinelPut ==
  ASSUME NEW q \in Seq(Item), q # << >>
  PROVE  Head(q) \in Item /\ QueueOK(<< Sentinel >> \o Tail(q))
<1>1. Head(q) \in Item /\ Tail(q) \in Seq(Item) /\ Tail(q) \in Seq(Item \cup {Sentinel})
  BY HeadTailProperties
<1> DEFINE p == << Sentinel >> \o Tail(q)
<1>2. /\ p \in Seq(Item \cup {Sentinel}) /\ Len(p) = Len(Tail(q)) + 1
      /\ \A k \in 2 .. Len(Tail(q)) + 1 : p[k] = Tail(q)[k - 1]
  BY <1>1, PushShape
<1> HIDE DEF p
<1>3. ASSUME NEW k \in 2 .. Len(p)  PROVE p[k] # Sentinel
  <2>1. k - 1 \in 1 .. Len(Tail(q)) /\ p[k] = Tail(q)[k - 1]
    BY <1>1, <1>2, LenProperties
  <2>2. p[k] \in Item
    BY <1>1, <2>1, ElementOfSeq
  <2>3. QED
    BY <2>2 DEF Item, Sentinel
<1>4. QED
  BY <1>1, <1>2, <1>3 DEF QueueOK, p

LEMMA QueueEmpty == QueueOK(<< >>)
  BY DEF QueueOK

LEMMA QueueAppended ==
  ASSUME NEW q, QueueOK(q), NEW i \in Item
  PROVE  QueueOK(Append(q, i))
<1>1. q \in Seq(Item \cup {Sentinel}) /\ Len(q) \in Nat /\ i \in Item \cup {Sentinel}
  BY LenProperties DEF QueueOK
<1> DEFINE p == Append(q, i)
<1>2. /\ p \in Seq(Item \cup {Sentinel}) /\ Len(p) = Len(q) + 1 /\ p[Len(q) + 1] = i
      /\ \A k \in 1 .. Len(q) : p[k] = q[k]
  BY <1>1, AppendProperties
<1> HIDE DEF p
<1>3. ASSUME NEW k \in 2 .. Len(p)  PROVE p[k] # Sentinel
  <2>1. CASE k = Len(q) + 1
    BY <1>2, <2>1 DEF Item, Sentinel
  <2>2. CASE k # Len(q) + 1
    <3>1. k \in 2 .. Len(q) /\ p[k] = q[k]
      BY <1>1, <1>2, <2>2
    <3>2. QED
      BY <3>1 DEF QueueOK
  <2>3. QED
    BY <2>1, <2>2
<1>4. QED
  BY <1>2, <1>3 DEF QueueOK, p

LEMMA StructureKept ==
  ASSUME Structure, UNCHANGED << engine, item >>, StackOK(stack', inProgress)
  PROVE  Structure'
<1>1. UNCHANGED << timers, inProgress, loops, item >>
  BY DEF engine
<1>2. QED
  BY <1>1 DEF Structure, Running

\* as long as the callbacks that are called are the same
LEMMA StyleKept ==
  ASSUME StyleInv, timers \in Seq(Item),
         UNCHANGED << timers, item, value, fxshow, interrupted >>,
         spoilt => spoilt',
         \A j \in Item : IsTicked(stack, j) => IsTicked(stack', j)
  PROVE  StyleInv'
<1>1. \A j \in Item : /\ Running(j)' <=> Running(j)
                      /\ Styles(j)' <=> Styles(j)
                      /\ Ended(j)' <=> Ended(j)
  BY DEF Running, Styles, Ended
<1>2. ASSUME NEW k \in 1 .. Len(timers'), Ended(timers[k])', ~ spoilt
      PROVE  IsTicked(stack', timers'[k])
  <2>1. k \in 1 .. Len(timers) /\ timers'[k] = timers[k] /\ timers[k] \in Item
    BY ElementOfSeq
  <2>2. Ended(timers[k])
    BY <1>2, <2>1 DEF Running, Styles, Ended
  <2>3. QED
    BY <1>2, <2>1, <2>2 DEF StyleInv
<1>3. QED
  BY <1>1, <1>2 DEF StyleInv, Original

LEMMA GoKept ==
  ASSUME UNCHANGED << timers, item >>, GoOn(stack')
  PROVE  GoOn(stack)'
<1>1. Runners' = Runners
  BY DEF Runners, Running
<1>2. QED
  BY <1>1 DEF GoOn

\* the next one has waited
LEMMA NextAwaits ==
  ASSUME NEW q, QueueOK(q), WithoutSentinel(q) # << >>
  PROVE  Awaits(q, Head(WithoutSentinel(q)))
<1>1. q \in Seq(Item \cup {Sentinel}) /\ Len(q) \in Nat
  BY LenProperties DEF QueueOK
<1>2. CASE q # << >> /\ Head(q) = Sentinel
  <2>1. /\ Tail(q) \in Seq(Item \cup {Sentinel}) /\ Len(Tail(q)) = Len(q) - 1
        /\ \A k \in 1 .. Len(q) - 1 : Tail(q)[k] = q[k + 1]
    BY <1>1, <1>2, TailShape
  <2>2. Tail(q) # << >> /\ WithoutSentinel(q) = Tail(q)
    BY <1>2 DEF WithoutSentinel
  <2>3. Len(Tail(q)) # 0
    BY <2>1, <2>2, EmptySeq
  <2>4. Head(Tail(q)) = Tail(q)[1]
    BY <2>1, <2>2
  <2>5. 1 \in 1 .. Len(q) - 1 /\ 2 \in 1 .. Len(q) /\ 1 + 1 = 2
    BY <1>1, <2>1, <2>3
  <2>6. Tail(q)[1] = q[1 + 1]
    BY <2>1, <2>5
  <2>7. QED
    BY <2>2, <2>4, <2>5, <2>6 DEF Awaits
<1>3. CASE ~ (q # << >> /\ Head(q) = Sentinel)
  <2>1. WithoutSentinel(q) = q /\ q # << >>
    BY <1>3 DEF WithoutSentinel
  <2>2. Head(q) = q[1] /\ 1 \in 1 .. Len(q)
    BY <1>1, <2>1, EmptySeq
  <2>3. QED
    BY <2>1, <2>2 DEF Awaits
<1>4. QED
  BY <1>2, <1>3

LEMMA DequeuedKeeps ==
  ASSUME Structure, StyleInv, NEW q, QueueOK(q), NEW d, NEW rest,
         StackOK(rest, inProgress),
         \A j \in Item : IsTicked(stack, j) => IsTicked(rest, j),
         \A j \in Item : Awaits(q, j) => ~ Running(j),
         Dequeued(q, d, rest), UNCHANGED interrupted
  PROVE  /\ QueueOK(queue')
         /\ Structure'
         /\ StyleInv'
         /\ GoOn(rest) => GoOn(stack)'
<1> DEFINE left == WithoutSentinel(q)
<1>1. left \in Seq(Item)
  BY SentinelTaken
<1>2. ASSUME stack' = rest, UNCHANGED << engine, item, style, spoilt >>
      PROVE  /\ Structure'
             /\ StyleInv'
             /\ GoOn(rest) => GoOn(stack)'
  <2>1. UNCHANGED << timers, item, value, fxshow >> /\ timers \in Seq(Item)
    BY <1>2 DEF engine, style, Structure
  <2>2. QED
    BY <1>2, <2>1, StructureKept, StyleKept, GoKept
<1>3. CASE left = << >>
  <2>1. queue' = << >> /\ stack' = rest /\ UNCHANGED << engine, item, style, spoilt >>
    BY <1>3 DEF Dequeued
  <2>2. QED
    BY <1>2, <2>1, QueueEmpty
<1>4. CASE left # << >>
  <2>1. queue' = << Sentinel >> \o Tail(left)
    BY <1>4 DEF Dequeued
  <2>2. Head(left) \in Item /\ QueueOK(queue')
    BY <1>1, <1>4, <2>1, SentinelPut
  <2>3. CASE kinds'[Head(left)] = Delay
    <3>1. stack' = rest /\ UNCHANGED << engine, item, style, spoilt >>
      BY <1>4, <2>3 DEF Dequeued
    <3>2. QED
      BY <1>2, <2>2, <3>1
  <2>4. CASE kinds'[Head(left)] # Delay
    <3>1. Launched(Head(left), rest)
      BY <1>4, <2>4 DEF Dequeued
    <3>2. ~ Running(Head(left))
      BY <1>4, <2>2, NextAwaits
    <3>3. QED
      BY <2>2, <3>1, <3>2, LaunchedStructure, LaunchedStyle, LaunchedGo
  <2>5. QED
    BY <2>3, <2>4
<1>5. QED
  BY <1>3, <1>4

-----------------------------------------------------------------------------
(* The steps that may start an animation *)

\* the frames below, when no timer is at its callbacks
LEMMA Below ==
  ASSUME Structure, stack # << >>, Top.kind # "ticked"
  PROVE  /\ Top \in Frame
         /\ StackOK(Rest, inProgress)
         /\ \A j \in Item : IsTicked(stack, j) <=> IsTicked(Rest, j)
         /\ GoOn(stack) => GoOn(Rest)
<1>1. StackOK(stack, inProgress) /\ inProgress \in BOOLEAN
  BY DEF Structure
<1>2. QED
  BY <1>1, Popped, GoPopped DEF Top, Rest, GoOn

\* a step in which the queue moves on, or not, with the frames rest
LEMMA DequeuedStep ==
  ASSUME Inv, NEW q, QueueOK(q), NEW d, NEW rest, StackOK(rest, inProgress),
         \A j \in Item : IsTicked(stack, j) => IsTicked(rest, j),
         ~ meddled' => ~ meddled /\ (GoOn(stack) => GoOn(rest)),
         kinds' \in Seq(Kinds) /\ Len(kinds') <= MaxItems,
         \A j \in Item : Awaits(q, j) => ~ Running(j),
         Dequeued(q, d, rest), UNCHANGED interrupted
  PROVE  Inv'
<1>1. /\ QueueOK(queue') /\ Structure' /\ StyleInv'
      /\ GoOn(rest) => GoOn(stack)'
  BY DequeuedKeeps DEF Inv
<1>2. GoInv'
  BY <1>1 DEF Inv, GoInv
<1>3. QED
  BY <1>1, <1>2 DEF Inv, Waiting

LEMMA LaunchedStep ==
  ASSUME Inv, NEW i \in Item, NEW rest, StackOK(rest, inProgress),
         \A j \in Item : IsTicked(stack, j) => IsTicked(rest, j),
         ~ meddled' => ~ meddled /\ (GoOn(stack) => GoOn(rest)),
         Waiting',
         ~ Running(i), Launched(i, rest), UNCHANGED interrupted
  PROVE  Inv'
<1>1. Structure' /\ StyleInv' /\ (GoOn(rest) => GoOn(stack)')
  BY LaunchedStructure, LaunchedStyle, LaunchedGo DEF Inv
<1>2. QED
  BY <1>1 DEF Inv, GoInv

\* a step that leaves the timers and the style alone, and puts no frame of the
\* ticking on the stack
LEMMA QuietStep ==
  ASSUME Inv, UNCHANGED << engine, item, value, fxshow, interrupted >>,
         spoilt => spoilt',
         Waiting',
         StackOK(stack', inProgress),
         \A j \in Item : IsTicked(stack, j) => IsTicked(stack', j),
         ~ meddled' => ~ meddled /\ (GoOn(stack) => GoOn(stack'))
  PROVE  Inv'
<1>1. timers' = timers /\ timers \in Seq(Item)
  BY DEF engine, Inv, Structure
<1>2. Structure'
  BY StructureKept DEF Inv
<1>3. StyleInv'
  BY <1>1, StyleKept DEF Inv
<1>4. GoInv'
  BY <1>1, GoKept DEF Inv, GoInv
<1>5. QED
  BY <1>2, <1>3, <1>4 DEF Inv

LEMMA KindAppended ==
  ASSUME Waiting, NEW kind \in Kinds, Len(kinds) < MaxItems,
         kinds' = Append(kinds, kind)
  PROVE  /\ kinds' \in Seq(Kinds) /\ Len(kinds') <= MaxItems
         /\ Len(kinds') \in Item
<1>1. /\ kinds \in Seq(Kinds) /\ Len(kinds) \in Nat /\ MaxItems \in Nat
  BY LenProperties, FxAssumption DEF Waiting
<1>2. kinds' \in Seq(Kinds) /\ Len(kinds') = Len(kinds) + 1
  BY <1>1, AppendProperties
<1>3. QED
  BY <1>1, <1>2 DEF Item

\* what is new does not run
LEMMA NewIsFresh ==
  ASSUME Inv, FreshInv, NEW kind \in Kinds, Len(kinds) < MaxItems,
         kinds' = Append(kinds, kind)
  PROVE  /\ ~ Running(Len(kinds'))
         /\ \A j \in Item : Awaits(Append(queue, Len(kinds')), j) => ~ Running(j)
<1>1. Len(kinds) \in Nat /\ Len(kinds') = Len(kinds) + 1 /\ Len(kinds') \in Item
  BY KindAppended, AppendProperties, LenProperties DEF Inv, Waiting
<1> DEFINE n == Len(kinds')
<1>2. ~ (n <= Len(kinds)) /\ n \in Item
  BY <1>1
<1>3. queue \in Seq(Item \cup {Sentinel}) /\ n \in Item \cup {Sentinel}
  BY <1>1 DEF Inv, Waiting, QueueOK
<1> HIDE DEF n
<1>4. ~ Running(n)
  BY <1>2 DEF FreshInv, Fresh, Runners
<1>5. ASSUME NEW j \in Item, Awaits(Append(queue, n), j)
      PROVE  j = n \/ Awaits(queue, j)
  <2>1. /\ Len(Append(queue, n)) = Len(queue) + 1 /\ Len(queue) \in Nat
        /\ Append(queue, n)[Len(queue) + 1] = n
        /\ \A k \in 1 .. Len(queue) : Append(queue, n)[k] = queue[k]
    BY <1>3, AppendProperties, LenProperties
  <2>2. PICK k \in 1 .. Len(queue) + 1 : Append(queue, n)[k] = j
    BY <1>5, <2>1 DEF Awaits
  <2>3. k = Len(queue) + 1 \/ k \in 1 .. Len(queue)
    BY <2>1
  <2>4. QED
    BY <2>1, <2>2, <2>3 DEF Awaits
<1>6. \A j \in Item : Awaits(queue, j) => ~ Running(j)
  BY DEF FreshInv, Fresh, Runners
<1>7. QED
  BY <1>4, <1>5, <1>6 DEF n

LEMMA EnqueueStep ==
  ASSUME Inv, FreshInv, NEW kind \in Kinds, Enqueue(kind)
  PROVE  Inv'
<1>1. /\ kinds' \in Seq(Kinds) /\ Len(kinds') <= MaxItems
      /\ Len(kinds') \in Item
  BY KindAppended DEF Enqueue, Inv
<1>2. QueueOK(Append(queue, Len(kinds')))
  BY <1>1, QueueAppended DEF Inv, Waiting
<1>3. (~ meddled' => ~ meddled) /\ UNCHANGED interrupted
  BY DEF Enqueue
<1>4. StackOK(stack, inProgress)
  BY DEF Inv, Structure
<1>5. CASE queue # << >> /\ Head(queue) = Sentinel
  <2>1. /\ queue' = Append(queue, Len(kinds'))
        /\ UNCHANGED << engine, item, style, stack, spoilt >>
    BY <1>5 DEF Enqueue
  <2>2. Waiting'
    BY <1>1, <1>2, <2>1 DEF Waiting
  <2>3. QED
    BY <1>3, <1>4, <2>1, <2>2, QuietStep DEF style
<1>6. CASE ~ (queue # << >> /\ Head(queue) = Sentinel)
  <2>1. Dequeued(Append(queue, Len(kinds')), delays, stack)
    BY <1>6 DEF Enqueue
  <2>2. \A j \in Item : Awaits(Append(queue, Len(kinds')), j) => ~ Running(j)
    BY NewIsFresh DEF Enqueue
  <2>3. QED
    BY <1>1, <1>2, <1>3, <1>4, <2>1, <2>2, DequeuedStep
<1>7. QED
  BY <1>5, <1>6

LEMMA SkipStep ==
  ASSUME Inv, FreshInv, NEW kind \in Kinds, Skip(kind)
  PROVE  Inv'
<1>1. /\ kinds' \in Seq(Kinds) /\ Len(kinds') <= MaxItems
      /\ Len(kinds') \in Item
  BY KindAppended DEF Skip, Inv
<1>2. Launched(Len(kinds'), stack) /\ UNCHANGED << queue, meddled, interrupted >>
  BY DEF Skip
<1>3. Waiting'
  BY <1>1, <1>2 DEF Waiting, Inv
<1>4. StackOK(stack, inProgress)
  BY DEF Inv, Structure
<1>5. ~ Running(Len(kinds'))
  BY NewIsFresh DEF Skip
<1>6. QED
  BY <1>1, <1>2, <1>3, <1>4, <1>5, LaunchedStep

LEMMA QueueIsFresh ==
  ASSUME FreshInv
  PROVE  \A j \in Item : Awaits(queue, j) => ~ Running(j)
  BY DEF FreshInv, Fresh, Runners

LEMMA ReturnStep ==
  ASSUME Inv, FreshInv, Return
  PROVE  Inv'
<1>1. /\ stack # << >> /\ Top.kind = "complete"
      /\ UNCHANGED << kinds, meddled, interrupted >>
  BY DEF Return, TopIs
<1>2. /\ StackOK(Rest, inProgress)
      /\ \A j \in Item : IsTicked(stack, j) <=> IsTicked(Rest, j)
      /\ GoOn(stack) => GoOn(Rest)
  BY <1>1, Below DEF Inv
<1>3. QueueOK(queue) /\ kinds' \in Seq(Kinds) /\ Len(kinds') <= MaxItems
  BY <1>1 DEF Inv, Waiting
<1>4. CASE Queued(Top.of)
  <2>1. Dequeued(queue, delays, Rest)
    BY <1>4 DEF Return
  <2>2. QED
    BY <1>1, <1>2, <1>3, <2>1, QueueIsFresh, DequeuedStep
<1>5. CASE ~ Queued(Top.of)
  <2>1. stack' = Rest /\ UNCHANGED << queue, engine, item, style, spoilt >>
    BY <1>5 DEF Return
  <2>2. Waiting'
    BY <1>1, <2>1 DEF Inv, Waiting
  <2>3. QED
    BY <1>1, <1>2, <2>1, <2>2, QuietStep DEF style
<1>6. QED
  BY <1>4, <1>5

LEMMA TimeoutStep ==
  ASSUME Inv, FreshInv, NEW i \in Item, Timeout(i)
  PROVE  Inv'
<1>1. /\ Dequeued(queue, delays \ {i}, << >>)
      /\ UNCHANGED << kinds, meddled, interrupted >>
      /\ stack = << >>
  BY DEF Timeout
<1>2. QueueOK(queue) /\ kinds' \in Seq(Kinds) /\ Len(kinds') <= MaxItems
  BY <1>1 DEF Inv, Waiting
<1>3. StackOK(stack, inProgress)
  BY DEF Inv, Structure
<1>4. QED
  BY <1>1, <1>2, <1>3, QueueIsFresh, DequeuedStep

LEMMA StopEndsStep ==
  ASSUME Inv, FreshInv, StopEnds
  PROVE  Inv'
<1>1. /\ stack # << >> /\ Top.kind = "stop" /\ UNCHANGED << kinds, meddled, interrupted >>
  BY DEF StopEnds, TopIs
<1>2. /\ StackOK(Rest, inProgress)
      /\ \A j \in Item : IsTicked(stack, j) <=> IsTicked(Rest, j)
      /\ GoOn(stack) => GoOn(Rest)
  BY <1>1, Below DEF Inv
<1>3. QueueOK(queue) /\ kinds' \in Seq(Kinds) /\ Len(kinds') <= MaxItems
  BY <1>1 DEF Inv, Waiting
<1>4. CASE MovesOn(Top)
  <2>1. Dequeued(queue, delays, Rest)
    BY <1>4 DEF StopEnds
  <2>2. QED
    BY <1>1, <1>2, <1>3, <2>1, QueueIsFresh, DequeuedStep
<1>5. CASE ~ MovesOn(Top)
  <2>1. stack' = Rest /\ UNCHANGED << queue, engine, item, style, spoilt >>
    BY <1>5 DEF StopEnds
  <2>2. Waiting'
    BY <1>1, <2>1 DEF Inv, Waiting
  <2>3. QED
    BY <1>1, <1>2, <2>1, <2>2, QuietStep DEF style
<1>6. QED
  BY <1>4, <1>5

-----------------------------------------------------------------------------
(* The loops *)

LEMMA LoopSteps ==
  ASSUME NEW f \in Loop, f.i > 0
  PROVE  [f EXCEPT !.i = @ - 1] \in Loop
<1>1. f.i - 1 \in Nat
  BY DEF Loop
<1> DEFINE n == f.i - 1
<1> HIDE DEF n
<1>2. CASE f \in [kind : {"stop"}, i : Nat, toEnd : BOOLEAN, dequeue : BOOLEAN]
  <2>1. [f EXCEPT !.i = n] \in [kind : {"stop"}, i : Nat, toEnd : BOOLEAN, dequeue : BOOLEAN]
    BY <1>1, <1>2 DEF n
  <2>2. QED
    BY <2>1 DEF Loop, n
<1>3. CASE f \in [kind : {"finish"}, i : Nat, old : Seq(Item \cup {Sentinel})]
  <2>1. [f EXCEPT !.i = n] \in [kind : {"finish"}, i : Nat, old : Seq(Item \cup {Sentinel})]
    BY <1>1, <1>3 DEF n
  <2>2. QED
    BY <2>1 DEF Loop, n
<1>4. QED
  BY <1>2, <1>3 DEF Loop

\* the loop goes on
LEMMA LoopReplaced ==
  ASSUME Structure, stack # << >>, IsLoop(Top), NEW f \in Loop
  PROVE  /\ StackOK(<< f >> \o Rest, inProgress)
         /\ \A j \in Item : IsTicked(stack, j) <=> IsTicked(<< f >> \o Rest, j)
         /\ << f >> \o Rest # << >>
         /\ GoOn(stack) => GoOn(<< f >> \o Rest)
<1>1. f \in Frame /\ IsLoop(f) /\ ~ IsTick(f) /\ f.kind # "splice" /\ f.kind # "ticked"
  BY DEF Frame, Loop, IsLoop, IsTick
<1>2. Top.kind # "ticked"
  BY DEF IsLoop
<1>3. inProgress \in BOOLEAN /\ StackOK(stack, inProgress)
  BY DEF Structure
<1>4. /\ StackOK(Rest, inProgress)
      /\ \A j \in Item : IsTicked(stack, j) <=> IsTicked(Rest, j)
      /\ GoOn(stack) => GoOn(Rest)
  BY <1>2, Below
<1>5. /\ StackOK(<< f >> \o Rest, inProgress)
      /\ << f >> \o Rest # << >>
      /\ \A j \in Item : IsTicked(<< f >> \o Rest, j) <=> IsTicked(Rest, j)
  BY <1>1, <1>3, <1>4, Pushed
<1>6. ASSUME GoOn(stack)  PROVE GoOn(<< f >> \o Rest)
  <2>1. Rest = << >>
    BY <1>3, <1>6, GoPopped DEF GoOn, Rest, Top
  <2>2. GoStack(Rest, timers, Runners)
    BY <1>4, <1>6 DEF GoOn
  <2>3. GoStack(<< f >> \o Rest, timers, Runners)
    BY <1>1, <1>4, <2>1, <2>2, GoPushed
  <2>4. QED
    BY <1>6, <2>3 DEF GoOn
<1>7. QED
  BY <1>4, <1>5, <1>6

LEMMA FinishOldStep ==
  ASSUME Inv, FreshInv, FinishOld
  PROVE  Inv'
<1> DEFINE i == Head(Top.old)
           f == [Top EXCEPT !.old = Tail(@)]
           on == << f >> \o Rest
<1>1. /\ stack # << >> /\ Top.kind = "finish" /\ IsLoop(Top)
      /\ Top.old # << >>
      /\ UNCHANGED << queue, kinds, meddled, interrupted >>
  BY DEF FinishOld, TopIs, IsLoop
<1>2. Top \in Loop
  BY <1>1, Below, FrameParts DEF Inv
<1>3. Top \in [kind : {"finish"}, i : Nat, old : Seq(Item \cup {Sentinel})]
  BY <1>1, <1>2 DEF Loop
<1>4. i \in Item \cup {Sentinel} /\ Tail(Top.old) \in Seq(Item \cup {Sentinel})
  BY <1>1, <1>3, HeadTailProperties
<1>5. f \in Loop
  BY <1>3, <1>4 DEF Loop
<1>6. Waiting'
  BY <1>1 DEF Inv, Waiting
<1>7. IF i = Sentinel \/ kinds[i] = Delay
        THEN stack' = on /\ UNCHANGED << engine, item, style, spoilt >>
        ELSE Launched(i, on)
  BY DEF FinishOld
<1> HIDE DEF f, i
<1>8. /\ StackOK(on, inProgress)
      /\ \A j \in Item : IsTicked(stack, j) <=> IsTicked(on, j)
      /\ GoOn(stack) => GoOn(on)
  BY <1>1, <1>5, LoopReplaced DEF Inv
<1> HIDE DEF on
<1>9. CASE i = Sentinel \/ kinds[i] = Delay
  BY <1>1, <1>6, <1>7, <1>8, <1>9, QuietStep DEF style
<1>10. CASE ~ (i = Sentinel \/ kinds[i] = Delay)
  <2>1. i \in Item /\ Launched(i, on)
    BY <1>4, <1>7, <1>10
  <2>2. Awaits(Top.old, i)
    <3>1. Top.old \in Seq(Item \cup {Sentinel})
      BY <1>3
    <3>2. i = Top.old[1] /\ 1 \in 1 .. Len(Top.old)
      BY <1>1, <3>1, EmptySeq, LenProperties DEF i
    <3>3. QED
      BY <3>2 DEF Awaits
  <2>3. Remains(stack, i)
    <3>1. 1 \in 1 .. Len(stack)
      BY <1>1, EmptySeq, LenProperties DEF Inv, Structure, StackOK
    <3>2. QED
      BY <1>1, <2>2, <3>1 DEF Remains, Top
  <2>4. ~ Running(i)
    BY <2>1, <2>3 DEF FreshInv, Fresh, Runners
  <2>5. QED
    BY <1>1, <1>6, <1>8, <2>1, <2>4, LaunchedStep
<1>11. QED
  BY <1>9, <1>10

LEMMA FinishEndsStep ==
  ASSUME Inv, FinishEnds
  PROVE  Inv'
<1>1. /\ stack # << >> /\ Top.kind = "finish" /\ stack' = Rest
      /\ UNCHANGED << queue, engine, kinds, item, style, history >>
  BY DEF FinishEnds, TopIs
<1>2. /\ StackOK(Rest, inProgress)
      /\ \A j \in Item : IsTicked(stack, j) <=> IsTicked(Rest, j)
      /\ GoOn(stack) => GoOn(Rest)
  BY <1>1, Below DEF Inv
<1>3. Waiting'
  BY <1>1 DEF Inv, Waiting
<1>4. QED
  BY <1>1, <1>2, <1>3, QuietStep DEF style, history

LEMMA PassTimerStep ==
  ASSUME Inv, PassTimer
  PROVE  Inv'
<1>1. /\ stack # << >> /\ IsLoop(Top) /\ Top.i > 0 /\ stack' = << Stepped >> \o Rest
      /\ UNCHANGED << queue, engine, kinds, item, style, history >>
  BY DEF PassTimer, Looping, TopIs, IsLoop
<1>2. Top \in Loop
  <2>1. Top.kind # "ticked"
    BY <1>1 DEF IsLoop
  <2>2. QED
    BY <1>1, <2>1, Below, FrameParts DEF Inv
<1>3. Stepped \in Loop
  BY <1>1, <1>2, LoopSteps DEF Stepped
<1>4. /\ StackOK(stack', inProgress)
      /\ \A j \in Item : IsTicked(stack, j) <=> IsTicked(stack', j)
      /\ GoOn(stack) => GoOn(stack')
  BY <1>1, <1>3, LoopReplaced DEF Inv
<1>5. Waiting'
  BY <1>1 DEF Inv, Waiting
<1>6. QED
  BY <1>1, <1>4, <1>5, QuietStep DEF style, history

\* a loop begins, or is begun by the user's code within another
LEMMA LoopPushed ==
  ASSUME Structure, NEW f \in Loop
  PROVE  /\ StackOK(<< f >> \o stack, inProgress)
         /\ \A j \in Item : IsTicked(stack, j) <=> IsTicked(<< f >> \o stack, j)
         /\ stack = << >> /\ GoOn(stack) => GoOn(<< f >> \o stack)
<1>1. f \in Frame /\ IsLoop(f) /\ ~ IsTick(f) /\ f.kind # "splice" /\ f.kind # "ticked"
  BY DEF Frame, Loop, IsLoop, IsTick
<1>2. inProgress \in BOOLEAN /\ StackOK(stack, inProgress)
  BY DEF Structure
<1>3. /\ StackOK(<< f >> \o stack, inProgress)
      /\ \A j \in Item : IsTicked(<< f >> \o stack, j) <=> IsTicked(stack, j)
  BY <1>1, <1>2, Pushed
<1>4. ASSUME stack = << >>, GoOn(stack)  PROVE GoOn(<< f >> \o stack)
  BY <1>1, <1>2, <1>4, GoPushed DEF GoOn
<1>5. QED
  BY <1>3, <1>4

LEMMA StopStep ==
  ASSUME Inv, NEW clear \in BOOLEAN, NEW toEnd \in BOOLEAN, Stop(clear, toEnd)
  PROVE  Inv'
<1> DEFINE f == [kind |-> "stop", i |-> Len(timers), toEnd |-> toEnd, dequeue |-> TRUE]
<1>1. /\ stack' = << f >> \o stack
      /\ UNCHANGED << engine, kinds, item, style, interrupted, spoilt >>
      /\ queue' = queue \/ queue' = << >>
  BY DEF Stop, QueueCleared
<1>2. ~ meddled' => ~ meddled /\ stack = << >>
  BY DEF Stop, Meddle
<1>3. f \in Loop
  BY LenProperties DEF Inv, Structure, Loop
<1> HIDE DEF f
<1>4. Waiting'
  BY <1>1, QueueEmpty DEF Inv, Waiting
<1>5. QED
  BY <1>1, <1>2, <1>3, <1>4, LoopPushed, QuietStep DEF style, Inv

LEMMA FinishStep ==
  ASSUME Inv, Finish
  PROVE  Inv'
<1> DEFINE f == [kind |-> "finish", i |-> Len(timers), old |-> queue]
<1>1. /\ stack' = << f >> \o stack
      /\ UNCHANGED << engine, kinds, item, style, interrupted, spoilt >>
      /\ queue' = << >>
  BY DEF Finish
<1>2. ~ meddled' => ~ meddled /\ stack = << >>
  BY DEF Finish, Meddle
<1>3. f \in Loop
  BY LenProperties DEF Inv, Structure, Waiting, QueueOK, Loop
<1> HIDE DEF f
<1>4. Waiting'
  BY <1>1, QueueEmpty DEF Inv, Waiting
<1>5. QED
  BY <1>1, <1>2, <1>3, <1>4, LoopPushed, QuietStep DEF style, Inv

LEMMA ClearQueueStep ==
  ASSUME Inv, ClearQueue
  PROVE  Inv'
<1>1. /\ UNCHANGED << engine, kinds, item, style, stack, interrupted, spoilt >>
      /\ queue' = << >> /\ meddled'
  BY DEF ClearQueue, QueueCleared, Meddle
<1>2. Waiting'
  BY <1>1, QueueEmpty DEF Inv, Waiting
<1>3. StackOK(stack, inProgress)
  BY DEF Inv, Structure
<1>4. QED
  BY <1>1, <1>2, <1>3, QuietStep DEF style

LEMMA ShowHideStep ==
  ASSUME Inv, NEW show, ShowHide(show) \/ AskPromise
  PROVE  Inv'
<1>1. UNCHANGED << queue, engine, kinds, item, value, fxshow, stack, meddled, interrupted,
                    spoilt >>
  BY DEF ShowHide, AskPromise, style, history
<1>2. Waiting'
  BY <1>1 DEF Inv, Waiting
<1>3. StackOK(stack, inProgress)
  BY DEF Inv, Structure
<1>4. QED
  BY <1>1, <1>2, <1>3, QuietStep

LEMMA BrokenOff ==
  ASSUME Inv, Throw \/ Crash
  PROVE  Inv'
<1>1. /\ stack' = << >> /\ spoilt' = TRUE
      /\ UNCHANGED << queue, engine, kinds, item, style >>
      /\ meddled' \/ meddled' = meddled
  BY DEF Throw, Crash
<1>2. Waiting'
  BY <1>1 DEF Inv, Waiting
<1>3. Structure'
  <2>1. inProgress \in BOOLEAN
    BY DEF Inv, Structure
  <2>2. QED
    BY <1>1, <2>1, StackEmpty, StructureKept DEF Inv
<1>4. StyleInv'
  BY <1>1 DEF StyleInv
<1>5. ASSUME GoOn(stack)  PROVE GoOn(stack)'
  <2>1. GoOn(stack')
    BY <1>1, <1>5, GoEmpty DEF GoOn
  <2>2. timers' = timers
    BY <1>1 DEF engine
  <2>3. QED
    BY <1>1, <2>1, <2>2, GoKept
<1>6. QED
  BY <1>1, <1>2, <1>3, <1>4, <1>5 DEF Inv, GoInv

LEMMA ScheduleStep ==
  ASSUME Inv, Schedule
  PROVE  Inv'
<1> DEFINE tick == [kind |-> "tick", i |-> 1]
<1>1. /\ stack = << >> /\ loops > 0
      /\ IF inProgress THEN stack' = << tick >> /\ loops' = loops
                       ELSE stack' = stack /\ loops' = loops - 1
      /\ UNCHANGED << queue, timers, inProgress, kinds, item, style, history >>
  BY DEF Schedule
<1>2. Waiting'
  BY <1>1 DEF Inv, Waiting
<1>3. /\ timers \in Seq(Item) /\ inProgress \in BOOLEAN /\ loops \in Nat
      /\ StackOK(stack, inProgress)
  BY DEF Inv, Structure
<1>4. CASE inProgress
  <2>1. /\ tick \in Frame /\ ~ IsLoop(tick)
        /\ tick.kind # "ticked" /\ tick.kind # "splice"
    BY DEF Frame, Tick, IsLoop
  <2> HIDE DEF tick
  <2>2. stack' = << tick >> \o << >> /\ stack' = << tick >> \o stack
    BY <1>1, <1>4
  <2>3. StackOK(stack, FALSE)
    BY <1>1, StackEmpty
  <2>4. /\ StackOK(stack', TRUE)
        /\ \A j \in Item : IsTicked(stack', j) <=> IsTicked(stack, j)
    <3>1. stack' = << tick >> \o stack
      BY <2>2
    <3>2. FALSE \in BOOLEAN /\ TRUE \in BOOLEAN
      OBVIOUS
    <3>3. /\ StackOK(<< tick >> \o stack, TRUE)
          /\ \A j \in Item : IsTicked(<< tick >> \o stack, j) <=> IsTicked(stack, j)
      BY <2>1, <2>3, <3>2, Pushed
    <3>4. QED
      BY <3>1, <3>3
  <2>5. ASSUME GoOn(stack)  PROVE GoOn(stack')
    <3>1. GoStack(stack', timers, Runners)
      <4>1. \A k \in 1 .. Len(stack) : FALSE
        BY <1>1
      <4>2. GoStack(stack, timers, Runners)
        BY <2>5 DEF GoOn
      <4>3. QED
        BY <1>3, <2>1, <2>2, <4>1, <4>2, GoPushed
    <3>2. QED
      BY <2>5, <3>1 DEF GoOn
  <2>6. engine' = engine
    BY <1>1, <1>4 DEF engine
  <2>7. StackOK(stack', inProgress)
    BY <1>3, <1>4, <2>4
  <2>8. QED
    BY <1>1, <1>2, <2>4, <2>5, <2>6, <2>7, QuietStep DEF style, history
<1>5. CASE ~ inProgress
  <2>1. /\ stack' = stack /\ loops' = loops - 1
        /\ UNCHANGED << timers, inProgress, item, value, fxshow, interrupted, spoilt,
                        meddled >>
    BY <1>1, <1>5 DEF style, history
  <2>2. Structure'
    BY <1>1, <1>3, <1>5, <2>1 DEF Inv, Structure, Running
  <2>3. StyleInv'
    BY <1>3, <2>1, StyleKept DEF Inv
  <2>4. GoInv'
    BY <2>1, GoKept DEF Inv, GoInv
  <2>5. QED
    BY <1>2, <2>2, <2>3, <2>4 DEF Inv
<1>6. QED
  BY <1>4, <1>5

-----------------------------------------------------------------------------
(* An animation ends *)

LEMMA ResolvedStructure ==
  ASSUME Structure, NEW i \in Item, NEW halted \in BOOLEAN, NEW rest,
         StackOK(rest, inProgress),
         Resolved(i, halted, rest), UNCHANGED engine
  PROVE  /\ Structure'
         /\ \A j \in Item : IsTicked(stack', j) <=> IsTicked(rest, j)
         /\ DOMAIN item' = Item
         /\ \A j \in Item : j # i => item'[j] = item[j]
         /\ item'[i].orig = item[i].orig
         /\ item'[i].halted = halted
         /\ ~ Running(i)'
<1>1. /\ item' = [item EXCEPT ![i].halted = halted,
                              ![i].state = IF Running(i) THEN "resolved" ELSE @]
      /\ stack' = (IF Running(i) THEN << [kind |-> "complete", of |-> i] >>
                                 ELSE << >>) \o rest
      /\ UNCHANGED << timers, inProgress, loops >>
  BY DEF Resolved, engine
<1>2. DOMAIN item = Item /\ DOMAIN item[i] = Fields
  BY DEF Structure
<1>3. /\ DOMAIN item' = Item
      /\ \A j \in Item : j # i => item'[j] = item[j]
      /\ DOMAIN item'[i] = Fields
      /\ item'[i].orig = item[i].orig
      /\ item'[i].halted = halted
      /\ item'[i].state = IF Running(i) THEN "resolved" ELSE item[i].state
  BY <1>1, <1>2 DEF Fields
<1>4. ~ Running(i)'
  BY <1>3 DEF Running
<1>5. inProgress \in BOOLEAN /\ rest \in Seq(Frame)
  BY DEF Structure, StackOK
<1>6. /\ StackOK(stack', inProgress)
      /\ \A j \in Item : IsTicked(stack', j) <=> IsTicked(rest, j)
  <2>1. CASE Running(i)
    <3> DEFINE f == [kind |-> "complete", of |-> i]
    <3>1. f \in Frame /\ ~ IsTick(f) /\ f.kind = "complete"
      BY DEF Frame, Call, IsTick
    <3>2. stack' = << f >> \o rest
      BY <1>1, <2>1
    <3> HIDE DEF f
    <3>3. QED
      BY <1>5, <3>1, <3>2, Pushed
  <2>2. CASE ~ Running(i)
    <3>1. stack' = rest
      BY <1>1, <1>5, <2>2, ConcatEmptySeq
    <3>2. QED
      BY <3>1
  <2>3. QED
    BY <2>1, <2>2
<1>7. \A j \in Item : /\ DOMAIN item'[j] = Fields
                      /\ item'[j].halted => ~ Running(j)'
  BY <1>3, <1>4 DEF Structure, Running
<1>8. Structure'
  BY <1>1, <1>3, <1>6, <1>7 DEF Structure
<1>9. QED
  BY <1>3, <1>4, <1>6, <1>8

\* the last frame has restored the style, or is none of the style's
LEMMA ResolvedStyle ==
  ASSUME Structure, StyleInv, NEW i \in Item, NEW halted \in BOOLEAN, NEW rest,
         StackOK(rest, inProgress),
         \A j \in Item : IsTicked(stack, j) => IsTicked(rest, j),
         ~ halted => IsTicked(rest, i),
         ~ spoilt' => ~ spoilt /\ (Running(i) \/ ~ Styles(i)),
         Resolved(i, halted, rest), UNCHANGED << engine, interrupted >>
  PROVE  StyleInv'
<1> SUFFICES ASSUME ~ spoilt'
             PROVE  /\ \/ fxshow' = None /\ Original(value)'
                       \/ fxshow' \in [value : {"fixed"}, hidden : BOOLEAN \cup {None}]
                    /\ fxshow' # None =>
                          interrupted' \/ \E j \in Item : Running(j)' /\ Styles(j)'
                    /\ \A j \in Item : Styles(j)' => Original(item[j].orig)'
                    /\ \A j \in Item : Running(j)' /\ Styles(j)' => fxshow' # None
                    /\ \A j, k \in Item :
                          Running(j)' /\ Styles(j)' /\ Running(k)' /\ Styles(k)' => j = k
                    /\ \A k \in 1 .. Len(timers') :
                          Ended(timers[k])' => IsTicked(stack', timers'[k])
  BY DEF StyleInv
<1>1. ~ spoilt /\ (Running(i) \/ ~ Styles(i))
  OBVIOUS
<1>2. /\ \A j \in Item : IsTicked(stack', j) <=> IsTicked(rest, j)
      /\ DOMAIN item' = Item
      /\ \A j \in Item : j # i => item'[j] = item[j]
      /\ item'[i].orig = item[i].orig
      /\ item'[i].halted = halted
      /\ ~ Running(i)'
  BY ResolvedStructure
<1>3. \A j \in Item : Styles(j)' <=> Styles(j)
  BY <1>2 DEF Styles
<1>4. \A j \in Item : Running(j)' => j # i /\ Running(j)
  BY <1>2 DEF Running
<1>5. \A j \in Item : Styles(j)' => Original(item[j].orig)'
  BY <1>1, <1>2, <1>3 DEF StyleInv, Original
<1>6. \A j, k \in Item : Running(j)' /\ Styles(j)' /\ Running(k)' /\ Styles(k)' => j = k
  BY <1>1, <1>3, <1>4 DEF StyleInv
<1>7. ASSUME NEW k \in 1 .. Len(timers'), Ended(timers[k])'
      PROVE  IsTicked(stack', timers'[k])
  <2>1. timers' = timers /\ timers \in Seq(Item)
    BY DEF engine, Structure
  <2>2. k \in 1 .. Len(timers) /\ timers'[k] = timers[k] /\ timers[k] \in Item
    BY <2>1, ElementOfSeq
  <2>3. CASE timers[k] = i
    <3>1. ~ halted
      BY <1>2, <1>7, <2>2, <2>3 DEF Ended
    <3>2. QED
      BY <1>2, <2>2, <2>3, <3>1
  <2>4. CASE timers[k] # i
    <3>1. Ended(timers[k])
      BY <1>2, <1>7, <2>2, <2>4 DEF Ended, Running, Styles
    <3>2. IsTicked(stack, timers[k])
      BY <1>1, <2>2, <3>1 DEF StyleInv
    <3>3. QED
      BY <1>2, <2>2, <3>2
  <2>5. QED
    BY <2>3, <2>4
<1>8. CASE Styles(i)
  <2>1. value' = item[i].orig /\ fxshow' = None
    BY <1>1, <1>8 DEF Resolved, RanToEnd
  <2>2. Original(value)'
    BY <1>1, <1>8, <2>1 DEF StyleInv, Original
  <2>3. \A j \in Item : ~ (Running(j)' /\ Styles(j)')
    BY <1>1, <1>3, <1>4, <1>8 DEF StyleInv
  <2>4. QED
    BY <1>5, <1>6, <1>7, <2>1, <2>2, <2>3
<1>9. CASE ~ Styles(i)
  <2>1. UNCHANGED << value, fxshow >>
    BY <1>9 DEF Resolved, RanToEnd, style
  <2>2. \/ fxshow' = None /\ Original(value)'
        \/ fxshow' \in [value : {"fixed"}, hidden : BOOLEAN \cup {None}]
    BY <1>1, <2>1 DEF StyleInv, Original
  <2>3. \A j \in Item : Running(j)' /\ Styles(j)' => fxshow' # None
    BY <1>1, <1>3, <1>4, <2>1 DEF StyleInv
  <2>4. \A j \in Item : Running(j) /\ Styles(j) => Running(j)' /\ Styles(j)'
    BY <1>2, <1>3, <1>9 DEF Running
  <2>5. fxshow' # None => interrupted' \/ \E j \in Item : Running(j)' /\ Styles(j)'
    BY <1>1, <2>1, <2>4 DEF StyleInv
  <2>6. QED
    BY <1>5, <1>6, <1>7, <2>2, <2>3, <2>5
<1>10. QED
  BY <1>8, <1>9

LEMMA ResolvedGo ==
  ASSUME Structure, NEW i \in Item, NEW halted \in BOOLEAN, NEW rest,
         StackOK(rest, inProgress),
         GoStack(rest, timers, Runners \ {i}), GoOn(stack),
         Resolved(i, halted, rest), UNCHANGED engine
  PROVE  GoOn(stack)'
<1>1. /\ \A j \in Item : j # i => item'[j] = item[j]
      /\ ~ Running(i)'
  BY ResolvedStructure
<1>2. Runners' = Runners \ {i}
  BY <1>1 DEF Runners, Running
<1>3. timers' = timers /\ rest \in Seq(Frame)
  BY DEF engine, StackOK
<1>4. GoStack(stack', timers, Runners \ {i})
  <2>1. CASE Running(i)
    <3> DEFINE f == [kind |-> "complete", of |-> i]
    <3>1. f \in Frame /\ ~ IsTick(f) /\ ~ IsLoop(f) /\ f.kind = "complete"
      BY DEF Frame, Call, IsTick, IsLoop
    <3>2. stack' = << f >> \o rest
      BY <2>1 DEF Resolved
    <3> HIDE DEF f
    <3>3. QED
      BY <3>1, <3>2, GoPushed
  <2>2. CASE ~ Running(i)
    <3>1. stack' = << >> \o rest
      BY <2>2 DEF Resolved
    <3>2. stack' = rest
      BY <1>3, <3>1, ConcatEmptySeq
    <3>3. QED
      BY <3>2
  <2>3. QED
    BY <2>1, <2>2
<1>5. \A j \in Runners \ {i} : \E k \in 1 .. Len(timers) : timers[k] = j
  BY DEF GoOn
<1>6. QED
  BY <1>2, <1>3, <1>4, <1>5 DEF GoOn

-----------------------------------------------------------------------------
(* The frames *)

LEMMA TickReplaced ==
  ASSUME Structure, stack # << >>, IsTick(Top), NEW f \in Tick
  PROVE  /\ Top \in Tick
         /\ inProgress
         /\ StackOK(Rest, FALSE)
         /\ StackOK(<< f >> \o Rest, inProgress)
         /\ \A j \in Item : IsTicked(<< f >> \o Rest, j) <=> (f.kind = "ticked" /\ f.of = j)
         /\ Top.kind = "tick" => \A j \in Item : ~ IsTicked(stack, j)
<1>1. inProgress \in BOOLEAN /\ StackOK(stack, inProgress)
  BY DEF Structure
<1>2. /\ Top \in Frame
      /\ inProgress /\ StackOK(Rest, FALSE)
      /\ \A j \in Item : ~ IsTicked(Rest, j)
      /\ Top.kind = "tick" => \A j \in Item : ~ IsTicked(stack, j)
  BY <1>1, Popped DEF Top, Rest
<1>3. f \in Frame /\ f.kind # "splice"
  BY DEF Frame, Tick
<1>4. FALSE \in BOOLEAN /\ inProgress = TRUE /\ TRUE \in BOOLEAN
  BY <1>1, <1>2
<1>5. /\ StackOK(<< f >> \o Rest, TRUE)
      /\ \A j \in Item : IsTicked(<< f >> \o Rest, j)
                             <=> IsTicked(Rest, j) \/ (f.kind = "ticked" /\ f.of = j)
  BY <1>2, <1>3, <1>4, Pushed
<1>6. Top \in Tick
  BY <1>2, FrameParts
<1>7. QED
  BY <1>2, <1>4, <1>5, <1>6

\* nothing else is at its callbacks, nor to be taken out
LEMMA TickReplacedGo ==
  ASSUME Structure, stack # << >>, IsTick(Top), GoOn(stack),
         NEW f \in Tick, NEW seq, NEW R,
         f.kind = "ticked" => SafeIn(f.i, f.of, seq, R)
  PROVE  GoStack(<< f >> \o Rest, seq, R)
<1>1. StackOK(stack, inProgress) /\ GoStack(stack, timers, Runners)
  BY DEF Structure, GoOn
<1>2. StackOK(Rest, FALSE)
  BY TickReplaced
<1>3. /\ GoStack(Rest, timers, Runners)
      /\ \A k \in 1 .. Len(Rest) : Rest[k].kind # "splice"
  BY <1>1, GoPopped DEF Top, Rest
<1>4. \A k \in 1 .. Len(Rest) : Rest[k].kind # "ticked"
  BY <1>2 DEF StackOK, IsTick
<1>5. GoStack(Rest, seq, R)
  BY <1>3, <1>4 DEF GoStack
<1>6. f \in Frame /\ f.kind # "splice" /\ ~ IsLoop(f)
  BY DEF Frame, Tick, IsLoop
<1>7. QED
  BY <1>2, <1>3, <1>5, <1>6, GoPushed

LEMMA TickCurrent ==
  ASSUME Structure, Ticking
  PROVE  /\ stack # << >> /\ IsTick(Top) /\ Top.kind = "tick"
         /\ Top \in [kind : {"tick"}, i : Nat \ {0}]
         /\ Top.i \in 1 .. Len(timers)
         /\ Current \in Item
         /\ \A j \in Item : ~ IsTicked(stack, j)
<1>1. stack # << >> /\ Top.kind = "tick" /\ IsTick(Top) /\ Top.i <= Len(timers)
  BY DEF Ticking, TopIs, IsTick
<1>2. [kind |-> "tick", i |-> 1] \in Tick
  BY DEF Tick
<1>3. Top \in Tick /\ \A j \in Item : ~ IsTicked(stack, j)
  BY <1>1, <1>2, TickReplaced
<1>4. Top \in [kind : {"tick"}, i : Nat \ {0}]
  BY <1>1, <1>3 DEF Tick
<1>5. timers \in Seq(Item) /\ Len(timers) \in Nat
  BY LenProperties DEF Structure
<1>6. Top.i \in 1 .. Len(timers)
  BY <1>1, <1>4, <1>5
<1>7. QED
  BY <1>1, <1>3, <1>4, <1>5, <1>6, ElementOfSeq DEF Current

\* what is at its last frame runs, or has no part in the style
LEMMA StillRuns ==
  ASSUME Structure, StyleInv, ~ spoilt, Ticking, ~ item[Current].halted, Styles(Current)
  PROVE  Running(Current)
<1>1. Top.i \in 1 .. Len(timers) /\ Current \in Item
      /\ \A j \in Item : ~ IsTicked(stack, j)
  BY TickCurrent
<1>2. Ended(Current) => IsTicked(stack, Current)
  BY <1>1 DEF StyleInv, Current
<1>3. QED
  BY <1>1, <1>2 DEF Ended

LEMMA TickOnStep ==
  ASSUME Inv, TickOn
  PROVE  Inv'
<1> DEFINE c == Current
           f == [Top EXCEPT !.i = @ + 1]
<1>1. /\ Ticking /\ ~ item[c].halted
      /\ item' = [item EXCEPT ![c].left = @ - 1]
      /\ value' = Ran(c)
      /\ stack' = << f >> \o Rest
      /\ UNCHANGED << queue, engine, kinds, fxshow, history >>
  BY DEF TickOn
<1>2. /\ stack # << >> /\ IsTick(Top)
      /\ Top \in [kind : {"tick"}, i : Nat \ {0}]
      /\ c \in Item
      /\ \A j \in Item : ~ IsTicked(stack, j)
  BY <1>1, TickCurrent DEF Inv
<1>3. f \in Tick /\ f.kind # "ticked"
  BY <1>2 DEF Tick
<1> HIDE DEF c, f
<1>4. StackOK(stack', inProgress)
  BY <1>1, <1>2, <1>3, TickReplaced DEF Inv
<1>5. UNCHANGED << timers, inProgress, loops, spoilt, meddled, interrupted >>
  BY <1>1 DEF engine, history
<1>6. /\ DOMAIN item' = Item
      /\ \A j \in Item : /\ DOMAIN item'[j] = Fields
                         /\ item'[j].state = item[j].state
                         /\ item'[j].halted = item[j].halted
                         /\ item'[j].orig = item[j].orig
  <2>1. DOMAIN item = Item /\ \A j \in Item : DOMAIN item[j] = Fields
    BY DEF Inv, Structure
  <2>2. QED
    BY <1>1, <1>2, <2>1 DEF Fields
<1>7. \A j \in Item : /\ Running(j)' <=> Running(j)
                      /\ Styles(j)' <=> Styles(j)
  BY <1>6 DEF Running, Styles
<1>8. Structure'
  BY <1>4, <1>5, <1>6, <1>7 DEF Inv, Structure
<1>9. ASSUME ~ spoilt'  PROVE StyleInv'
  <2>1. ~ spoilt
    BY <1>5, <1>9
  <2>2. ASSUME Styles(c)  PROVE value' = "part" /\ fxshow # None
    <3>1. Running(c)
      BY <1>1, <2>1, <2>2, StillRuns DEF Inv, c
    <3>2. QED
      BY <1>1, <1>2, <2>1, <2>2, <3>1 DEF Inv, StyleInv, Ran
  <2>3. ASSUME ~ Styles(c)  PROVE value' = value
    BY <1>1, <2>3 DEF Ran
  <2>4. \/ fxshow' = None /\ Original(value)'
        \/ fxshow' \in [value : {"fixed"}, hidden : BOOLEAN \cup {None}]
    BY <1>1, <1>5, <2>1, <2>2, <2>3 DEF Inv, StyleInv, Original
  <2>5. ASSUME NEW k \in 1 .. Len(timers'), Ended(timers[k])'
        PROVE  FALSE
    <3>1. timers[k] \in Item /\ k \in 1 .. Len(timers) /\ timers'[k] = timers[k]
      BY <1>5, ElementOfSeq DEF Inv, Structure
    <3>2. Ended(timers[k])
      BY <1>6, <2>5, <3>1 DEF Ended, Running, Styles
    <3>3. QED
      BY <1>2, <2>1, <3>1, <3>2 DEF Inv, StyleInv
  <2>6. \A j \in Item : Styles(j)' => Original(item[j].orig)'
    BY <1>5, <1>6, <1>7, <2>1 DEF Inv, StyleInv, Original
  <2>7. /\ \A j \in Item : Running(j)' /\ Styles(j)' => fxshow' # None
        /\ fxshow' # None => interrupted' \/ \E j \in Item : Running(j)' /\ Styles(j)'
    BY <1>1, <1>5, <1>7, <2>1 DEF Inv, StyleInv
  <2>8. \A j, k \in Item :
           Running(j)' /\ Styles(j)' /\ Running(k)' /\ Styles(k)' => j = k
    BY <1>7, <2>1 DEF Inv, StyleInv
  <2>9. QED
    BY <2>4, <2>5, <2>6, <2>7, <2>8 DEF StyleInv
<1>10. StyleInv'
  BY <1>9 DEF StyleInv
<1>11. ASSUME GoOn(stack)  PROVE GoOn(stack)'
  <2>1. Runners' = Runners
    BY <1>7 DEF Runners
  <2>2. GoStack(stack', timers, Runners)
    BY <1>1, <1>2, <1>3, <1>11, TickReplacedGo DEF Inv
  <2>3. QED
    BY <1>5, <1>11, <2>1, <2>2 DEF GoOn
<1>12. Waiting'
  BY <1>1 DEF Inv, Waiting
<1>13. QED
  BY <1>5, <1>8, <1>10, <1>11, <1>12 DEF Inv, GoInv

LEMMA TickLastStep ==
  ASSUME Inv, TickLast
  PROVE  Inv'
<1> DEFINE c == Current
           f == [kind |-> "ticked", i |-> Top.i, of |-> c]
           rest == << f >> \o Rest
<1>1. /\ Ticking
      /\ IF item[c].halted
           THEN stack' = rest /\ UNCHANGED << item, style >>
           ELSE Resolved(c, FALSE, rest)
      /\ UNCHANGED << queue, engine, kinds, history >>
  BY DEF TickLast
<1>2. /\ stack # << >> /\ IsTick(Top)
      /\ Top \in [kind : {"tick"}, i : Nat \ {0}]
      /\ Top.i \in 1 .. Len(timers)
      /\ c \in Item
      /\ \A j \in Item : ~ IsTicked(stack, j)
  BY <1>1, TickCurrent DEF Inv
<1>3. f \in Tick /\ f.kind = "ticked" /\ f.i = Top.i /\ f.of = c
  BY <1>2 DEF Tick
<1> HIDE DEF f
<1>4. /\ StackOK(rest, inProgress)
      /\ \A j \in Item : IsTicked(rest, j) <=> c = j
  BY <1>2, <1>3, TickReplaced DEF Inv
<1>5. ASSUME GoOn(stack), NEW R, c \notin R  PROVE GoStack(rest, timers, R)
  <2>1. SafeIn(f.i, f.of, timers, R)
    BY <1>2, <1>3, <1>5, LenProperties DEF SafeIn, Inv, Structure
  <2>2. QED
    BY <1>2, <1>3, <1>5, <2>1, TickReplacedGo DEF Inv
<1> HIDE DEF c, rest
<1>6. /\ ~ meddled' => ~ meddled
      /\ spoilt' = spoilt /\ interrupted' = interrupted
  BY <1>1 DEF history
<1>7. Waiting'
  BY <1>1 DEF Inv, Waiting
<1>8. CASE item[c].halted
  <2>1. c \notin Runners
    BY <1>2, <1>8 DEF Inv, Structure, Runners
  <2>2. ASSUME GoOn(stack)  PROVE GoOn(stack')
    BY <1>1, <1>5, <1>8, <2>1, <2>2 DEF GoOn
  <2>3. QED
    BY <1>1, <1>2, <1>4, <1>6, <1>7, <1>8, <2>2, QuietStep DEF style
<1>9. CASE ~ item[c].halted
  <2>1. Resolved(c, FALSE, rest) /\ UNCHANGED engine
    BY <1>1, <1>9
  <2>2. FALSE \in BOOLEAN
    OBVIOUS
  <2>3. Structure'
    BY <1>2, <1>4, <2>1, <2>2, ResolvedStructure DEF Inv
  <2>4. ~ spoilt' => ~ spoilt /\ (Running(c) \/ ~ Styles(c))
    BY <1>1, <1>6, <1>9, StillRuns DEF Inv, c
  <2>5. StyleInv'
    BY <1>2, <1>4, <1>6, <2>1, <2>2, <2>4, ResolvedStyle DEF Inv
  <2>6. ASSUME GoOn(stack)  PROVE GoOn(stack)'
    BY <1>2, <1>4, <1>5, <2>1, <2>2, <2>6, ResolvedGo DEF Inv
  <2>7. QED
    BY <1>6, <1>7, <2>3, <2>5, <2>6 DEF Inv, GoInv
<1>10. QED
  BY <1>8, <1>9

\* a timer is taken out, and those that are left go on
LEMMA TakenOut ==
  ASSUME Structure, NEW k \in Nat \ {0}, timers' = Without(timers, k),
         UNCHANGED << inProgress, loops, item >>
  PROVE  /\ StackOK(stack', inProgress) => Structure'
         /\ \A m \in 1 .. Len(timers') :
               \E l \in 1 .. Len(timers) : l # k /\ timers'[m] = timers[l]
         /\ SafeIn(k, timers[k], timers, Runners) /\ GoOn(stack) =>
               \A i \in Runners' : \E m \in 1 .. Len(timers') : timers'[m] = i
<1>1. timers \in Seq(Item)
  BY DEF Structure
<1>2. /\ timers' \in Seq(Item)
      /\ \A m \in 1 .. Len(timers') :
            \E l \in 1 .. Len(timers) : l # k /\ timers'[m] = timers[l]
      /\ \A l \in 1 .. Len(timers) : l # k =>
            \E m \in 1 .. Len(timers') : timers'[m] = timers[l]
  <2> DEFINE fewer == Without(timers, k)
  <2>1. /\ fewer \in Seq(Item)
        /\ \A m \in 1 .. Len(fewer) :
              \E l \in 1 .. Len(timers) : l # k /\ fewer[m] = timers[l]
        /\ \A l \in 1 .. Len(timers) : l # k =>
              \E m \in 1 .. Len(fewer) : fewer[m] = timers[l]
    BY <1>1, WithoutShape, Zenon
  <2>2. timers' = fewer
    OBVIOUS
  <2> HIDE DEF fewer
  <2>3. QED
    BY <2>1, <2>2
<1>3. Runners' = Runners
  BY DEF Runners, Running
<1>4. timers' # << >> => timers # << >>
  <2> SUFFICES ASSUME timers' # << >>, timers = << >> PROVE FALSE
    OBVIOUS
  <2>1. 1 \in 1 .. Len(timers')
    BY <1>2, EmptySeq, LenProperties
  <2>2. QED
    BY <1>2, <2>1
<1>5. StackOK(stack', inProgress) => Structure'
  BY <1>2, <1>4 DEF Structure, Running
<1>6. ASSUME SafeIn(k, timers[k], timers, Runners), GoOn(stack), NEW i \in Runners
      PROVE  \E m \in 1 .. Len(timers') : timers'[m] = i
  <2>1. PICK l \in 1 .. Len(timers) : timers[l] = i
    BY <1>6 DEF GoOn
  <2>2. \E n \in 1 .. Len(timers) : n # k /\ timers[n] = i
    BY <1>6, <2>1 DEF SafeIn
  <2>3. QED
    BY <1>2, <2>2
<1>7. QED
  BY <1>2, <1>3, <1>5, <1>6

\* fewer timers, where those that have ended and are left are at their callbacks
LEMMA StyleFewer ==
  ASSUME Structure, StyleInv, UNCHANGED << item, value, fxshow, interrupted >>,
         spoilt => spoilt',
         \A m \in 1 .. Len(timers') : \E l \in 1 .. Len(timers) : timers'[m] = timers[l],
         \A m \in 1 .. Len(timers') :
             ~ spoilt' /\ ~ item[timers'[m]].halted /\ IsTicked(stack, timers'[m])
                 => IsTicked(stack', timers'[m])
  PROVE  StyleInv'
<1>1. \A j \in Item : /\ Running(j)' <=> Running(j)
                      /\ Styles(j)' <=> Styles(j)
  BY DEF Running, Styles
<1>2. ASSUME NEW m \in 1 .. Len(timers'), Ended(timers[m])', ~ spoilt'
      PROVE  IsTicked(stack', timers'[m])
  <2>1. PICK l \in 1 .. Len(timers) : timers'[m] = timers[l]
    OBVIOUS
  <2>2. Ended(timers[l]) /\ ~ item[timers'[m]].halted
    BY <1>2, <2>1 DEF Running, Styles, Ended
  <2>3. IsTicked(stack, timers[l])
    BY <1>2, <2>2 DEF StyleInv
  <2>4. QED
    BY <1>2, <2>1, <2>2, <2>3
<1>3. QED
  BY <1>1, <1>2 DEF StyleInv, Original

LEMMA TickedStep ==
  ASSUME Inv, Ticked
  PROVE  Inv'
<1> DEFINE k == Top.i
           i == Top.of
           f == [kind |-> "tick", i |-> IF Spliced(k, i) THEN k ELSE k + 1]
<1>1. /\ stack # << >> /\ Top.kind = "ticked" /\ IsTick(Top)
      /\ timers' = IF Spliced(k, i) THEN Without(timers, k) ELSE timers
      /\ stack' = << f >> \o Rest
      /\ spoilt' = (spoilt \/ LeftBehind(i, timers'))
      /\ UNCHANGED << queue, inProgress, loops, kinds, item, style, meddled, interrupted >>
  BY DEF Ticked, TopIs, IsTick
<1>2. /\ Top \in Tick
      /\ StackOK(stack, inProgress)
  <2>1. [kind |-> "tick", i |-> 1] \in Tick
    BY DEF Tick
  <2>2. QED
    BY <1>1, <2>1, TickReplaced DEF Inv, Structure
<1>3. k \in Nat \ {0} /\ i \in Item
  BY <1>1, <1>2 DEF Tick
<1>4. f \in Tick /\ f.kind # "ticked"
  <2>1. (IF Spliced(k, i) THEN k ELSE k + 1) \in Nat \ {0}
    BY <1>3
  <2>2. QED
    BY <2>1 DEF Tick
<1>5. timers \in Seq(Item) /\ Len(timers) \in Nat
  BY LenProperties DEF Inv, Structure
<1>6. \A j \in Item : IsTicked(stack, j) => j = i
  <2>1. StackOK(stack, inProgress) /\ inProgress \in BOOLEAN
    BY <1>2 DEF Inv, Structure
  <2>2. QED
    BY <1>1, <2>1, Popped DEF Top
<1> HIDE DEF f, k, i
<1>7. StackOK(stack', inProgress)
  BY <1>1, <1>4, TickReplaced DEF Inv
<1>8. Waiting'
  BY <1>1 DEF Inv, Waiting
<1>9. ASSUME NEW m \in 1 .. Len(timers'), ~ spoilt', ~ item[timers'[m]].halted,
             timers'[m] \in Item
      PROVE  ~ IsTicked(stack, timers'[m])
  <2>1. ~ LeftBehind(i, timers')
    BY <1>1, <1>9
  <2>2. timers'[m] # i
    BY <1>9, <2>1 DEF LeftBehind
  <2>3. QED
    BY <1>6, <1>9, <2>2
<1>10. spoilt => spoilt'
  BY <1>1
<1>11. UNCHANGED << item, value, fxshow, interrupted >>
  BY <1>1 DEF style
<1>12. ASSUME GoOn(stack), NEW seq, NEW R  PROVE GoStack(stack', seq, R)
  BY <1>1, <1>4, <1>12, TickReplacedGo DEF Inv
<1>13. CASE Spliced(k, i)
  <2>1. timers' = Without(timers, k)
    BY <1>1, <1>13
  <2>2. \A m \in 1 .. Len(timers') :
           \E l \in 1 .. Len(timers) : l # k /\ timers'[m] = timers[l]
    BY <1>1, <1>3, <2>1, TakenOut DEF Inv
  <2>3. Structure'
    BY <1>1, <1>3, <1>7, <2>1, TakenOut DEF Inv
  <2>4. \A m \in 1 .. Len(timers') : timers'[m] \in Item
    BY <1>5, <2>2, ElementOfSeq
  <2>5. StyleInv'
    BY <1>9, <1>10, <1>11, <2>2, <2>4, StyleFewer DEF Inv
  <2>6. ASSUME GoOn(stack)
        PROVE  \A j \in Runners' : \E m \in 1 .. Len(timers') : timers'[m] = j
    <3>1. SafeIn(Top.i, Top.of, timers, Runners)
      <4>1. 1 \in 1 .. Len(stack)
        BY <1>1, <1>2, EmptySeq, LenProperties DEF StackOK
      <4>2. QED
        BY <1>1, <2>6, <4>1 DEF GoOn, GoStack, Top
    <3>2. SafeIn(k, timers[k], timers, Runners)
      BY <1>13, <3>1 DEF Spliced, k, i
    <3>3. QED
      BY <1>1, <1>3, <2>1, <2>6, <3>2, TakenOut DEF Inv
  <2>7. QED
    BY <1>1, <1>8, <1>12, <2>3, <2>5, <2>6 DEF Inv, GoInv, GoOn
<1>14. CASE ~ Spliced(k, i)
  <2>1. timers' = timers
    BY <1>1, <1>14
  <2>2. engine' = engine
    BY <1>1, <2>1 DEF engine
  <2>3. Structure'
    BY <1>1, <1>7, <2>2, StructureKept DEF Inv
  <2>4. \A m \in 1 .. Len(timers') : timers'[m] \in Item
    BY <1>5, <2>1, ElementOfSeq
  <2>5. StyleInv'
    BY <1>9, <1>10, <1>11, <2>1, <2>4, StyleFewer DEF Inv
  <2>6. ASSUME GoOn(stack)  PROVE GoOn(stack)'
    <3>1. GoOn(stack')
      BY <1>12, <2>6 DEF GoOn
    <3>2. QED
      BY <1>11, <2>1, <3>1, GoKept
  <2>7. QED
    BY <1>1, <1>8, <2>3, <2>5, <2>6 DEF Inv, GoInv
<1>15. QED
  BY <1>13, <1>14

LEMMA TickEndsStep ==
  ASSUME Inv, TickEnds
  PROVE  Inv'
<1>1. /\ stack # << >> /\ Top.kind = "tick" /\ IsTick(Top)
      /\ inProgress' = (inProgress /\ timers # << >>)
      /\ stack' = Rest
      /\ UNCHANGED << queue, timers, loops, kinds, item, style, history >>
  BY DEF TickEnds, TopIs, IsTick
<1>2. StackOK(Rest, FALSE)
  <2>1. [kind |-> "tick", i |-> 1] \in Tick
    BY DEF Tick
  <2>2. QED
    BY <1>1, <2>1, TickReplaced DEF Inv
<1>3. /\ \A j \in Item : IsTicked(stack, j) <=> IsTicked(Rest, j)
      /\ GoOn(stack) => GoOn(Rest)
  BY <1>1, Below DEF Inv
<1>4. inProgress' \in BOOLEAN /\ StackOK(stack', inProgress')
  BY <1>1, <1>2, StackWeaken
<1>5. Structure'
  BY <1>1, <1>4 DEF Inv, Structure, Running
<1>6. UNCHANGED << timers, item, value, fxshow, interrupted, spoilt, meddled >>
  BY <1>1 DEF style, history
<1>7. StyleInv'
  <2>1. timers \in Seq(Item)
    BY DEF Inv, Structure
  <2>2. QED
    BY <1>1, <1>3, <1>6, <2>1, StyleKept DEF Inv
<1>8. GoInv'
  BY <1>1, <1>3, <1>6, GoKept DEF Inv, GoInv
<1>9. Waiting'
  BY <1>1 DEF Inv, Waiting
<1>10. QED
  BY <1>5, <1>7, <1>8, <1>9 DEF Inv

LEMMA LaunchStep ==
  ASSUME Inv, Launch
  PROVE  Inv'
<1> DEFINE i == Top.of
<1>1. /\ stack # << >> /\ Top.kind = "launch"
      /\ IF EndsAtOnce(i)
           THEN Resolved(i, TRUE, Rest)
           ELSE stack' = Rest /\ UNCHANGED << item, style >>
      /\ spoilt' = (spoilt \/ (EndsAtOnce(i) /\ Styles(i) /\ ~ Running(i)))
      /\ UNCHANGED << queue, engine, kinds, meddled, interrupted >>
  BY DEF Launch, TopIs
<1>2. /\ Top \in Frame
      /\ StackOK(Rest, inProgress)
      /\ \A j \in Item : IsTicked(stack, j) <=> IsTicked(Rest, j)
      /\ GoOn(stack) => GoOn(Rest)
  BY <1>1, Below DEF Inv
<1>3. i \in Item
  <2>1. Top \in Call
    BY <1>1, <1>2, FrameParts
  <2>2. QED
    BY <2>1 DEF Call
<1>4. Waiting'
  BY <1>1 DEF Inv, Waiting
<1> HIDE DEF i
<1>5. CASE EndsAtOnce(i)
  <2>1. Resolved(i, TRUE, Rest) /\ UNCHANGED << engine, interrupted >> /\ TRUE \in BOOLEAN
    BY <1>1, <1>5
  <2>2. Structure'
    BY <1>2, <1>3, <2>1, ResolvedStructure DEF Inv
  <2>3. StyleInv'
    BY <1>1, <1>2, <1>3, <1>5, <2>1, ResolvedStyle DEF Inv
  <2>4. ASSUME GoOn(stack)  PROVE GoOn(stack)'
    <3>1. GoStack(Rest, timers, Runners \ {i})
      BY <1>2, <2>4, GoFewer DEF GoOn
    <3>2. QED
      BY <1>2, <1>3, <2>1, <2>4, <3>1, ResolvedGo DEF Inv
  <2>5. QED
    BY <1>1, <1>4, <2>2, <2>3, <2>4 DEF Inv, GoInv
<1>6. CASE ~ EndsAtOnce(i)
  BY <1>1, <1>2, <1>4, <1>6, QuietStep DEF style
<1>7. QED
  BY <1>5, <1>6

-----------------------------------------------------------------------------
(* What stop() and finish() do with a timer *)

LEMMA LoopCurrent ==
  ASSUME Structure, Looping, Top.i <= Len(timers)
  PROVE  /\ stack # << >> /\ IsLoop(Top) /\ Top.i > 0
         /\ Top \in Loop
         /\ Top.i \in 1 .. Len(timers)
         /\ Current \in Item
         /\ Noted \in Loop /\ Noted.i = Top.i
<1>1. stack # << >> /\ IsLoop(Top) /\ Top.kind # "ticked" /\ Top.i > 0
  BY DEF Looping, TopIs, IsLoop
<1>2. Top \in Loop
  BY <1>1, Below, FrameParts
<1>3. Top.i \in Nat /\ Noted \in Loop /\ Noted.i = Top.i
  BY <1>2 DEF Loop, Noted
<1>4. timers \in Seq(Item) /\ Len(timers) \in Nat
  BY LenProperties DEF Structure
<1>5. Top.i \in 1 .. Len(timers)
  BY <1>1, <1>3, <1>4
<1>6. QED
  BY <1>1, <1>2, <1>3, <1>4, <1>5, ElementOfSeq DEF Current

\* the timer will be taken out after the callbacks
LEMMA SpliceStacked ==
  ASSUME Structure, Looping, Top.i <= Len(timers)
  PROVE  LET rest == << [kind |-> "splice"], Noted >> \o Rest
         IN /\ StackOK(rest, inProgress)
            /\ \A j \in Item : IsTicked(stack, j) <=> IsTicked(rest, j)
            /\ GoOn(stack) => GoStack(rest, timers, Runners \ {Current})
<1> DEFINE f == [kind |-> "splice"]
           on == << Noted >> \o Rest
           rest == << f >> \o on
<1>1. /\ stack # << >> /\ IsLoop(Top) /\ Top.i > 0
      /\ Top.i \in 1 .. Len(timers)
      /\ Current \in Item
      /\ Noted \in Loop /\ Noted.i = Top.i
  BY LoopCurrent
<1>2. /\ StackOK(on, inProgress)
      /\ \A j \in Item : IsTicked(stack, j) <=> IsTicked(on, j)
      /\ on # << >>
      /\ GoOn(stack) => GoOn(on)
  BY <1>1, LoopReplaced
<1>3. /\ f \in Frame /\ f.kind = "splice" /\ ~ IsTick(f) /\ ~ IsLoop(f)
  BY DEF Frame, IsTick, IsLoop
<1>4. inProgress \in BOOLEAN /\ StackOK(stack, inProgress)
  BY DEF Structure
<1>5. StackOK(Rest, inProgress) /\ Rest \in Seq(Frame) /\ Noted \in Frame /\ IsLoop(Noted)
  BY <1>1, <1>4, Popped DEF Rest, StackOK, Frame, Loop, IsLoop
<1>6. on[1] = Noted /\ Len(on) = Len(Rest) + 1
  BY <1>5, PushShape
<1>7. rest = << f, Noted >> \o Rest
  <2> DEFINE s == Rest
  <2>1. s \in Seq(Frame)
    BY <1>5
  <2> HIDE DEF s, f
  <2>2. << f >> \o (<< Noted >> \o s) = << f, Noted >> \o s
    BY <1>3, <1>5, <2>1
  <2>3. QED
    BY <2>2 DEF s
<1> HIDE DEF f, on
<1>8. /\ StackOK(rest, inProgress)
      /\ \A j \in Item : IsTicked(rest, j) <=> IsTicked(on, j)
  BY <1>1, <1>2, <1>3, <1>4, <1>5, <1>6, Pushed
<1>9. ASSUME GoOn(stack)  PROVE GoStack(rest, timers, Runners \ {Current})
  <2>1. GoStack(on, timers, Runners \ {Current})
    BY <1>2, <1>9, GoFewer DEF GoOn
  <2>2. Rest = << >>
    BY <1>1, <1>4, <1>9, GoPopped DEF GoOn, Rest, Top
  <2>3. ASSUME NEW k \in 1 .. Len(on)  PROVE ~ IsTick(on[k])
    <3>1. k = 1
      BY <1>6, <2>2
    <3>2. QED
      BY <1>5, <1>6, <3>1 DEF IsLoop, IsTick
  <2>4. SafeIn(on[1].i, timers[on[1].i], timers, Runners \ {Current})
    <3>1. Len(timers) \in Nat
      BY LenProperties DEF Structure
    <3>2. QED
      BY <1>1, <1>6, <3>1 DEF SafeIn, Current
  <2>5. QED
    BY <1>2, <1>3, <2>1, <2>3, <2>4, GoPushed
<1>10. QED
  BY <1>2, <1>7, <1>8, <1>9 DEF f

LEMMA EndTimerStep ==
  ASSUME Inv, EndTimer
  PROVE  Inv'
<1> DEFINE rest == << [kind |-> "splice"], Noted >> \o Rest
<1>1. /\ Looping /\ Top.i <= Len(timers) /\ Running(Current)
      /\ Resolved(Current, TRUE, rest)
      /\ UNCHANGED << queue, engine, kinds, history >>
  BY DEF EndTimer, Concerned
<1>2. Current \in Item /\ TRUE \in BOOLEAN /\ Structure
  BY <1>1, LoopCurrent DEF Inv
<1>3. /\ StackOK(rest, inProgress)
      /\ \A j \in Item : IsTicked(stack, j) <=> IsTicked(rest, j)
      /\ GoOn(stack) => GoStack(rest, timers, Runners \ {Current})
  BY <1>1, SpliceStacked DEF Inv
<1> HIDE DEF rest
<1>4. Structure'
  BY <1>1, <1>2, <1>3, ResolvedStructure
<1>5. UNCHANGED << spoilt, meddled, interrupted >>
  BY <1>1 DEF history
<1>6. StyleInv'
  BY <1>1, <1>2, <1>3, <1>5, ResolvedStyle DEF Inv
<1>7. ASSUME GoOn(stack)  PROVE GoOn(stack)'
  BY <1>1, <1>2, <1>3, <1>7, ResolvedGo
<1>8. Waiting'
  BY <1>1 DEF Inv, Waiting
<1>9. QED
  BY <1>4, <1>5, <1>6, <1>7, <1>8 DEF Inv, GoInv

LEMMA BreakTimerStep ==
  ASSUME Inv, BreakTimer
  PROVE  Inv'
<1> DEFINE rest == << [kind |-> "splice"], Noted >> \o Rest
           c == Current
<1>1. /\ Looping /\ Top.i <= Len(timers)
      /\ item' = [item EXCEPT ![c].halted = TRUE, ![c].state = "rejected"]
      /\ stack' = rest
      /\ interrupted' = (interrupted \/ Styles(c))
      /\ UNCHANGED << queue, engine, kinds, style, meddled, spoilt >>
  BY DEF BreakTimer
<1>2. c \in Item
  BY <1>1, LoopCurrent DEF Inv
<1>3. /\ StackOK(rest, inProgress)
      /\ \A j \in Item : IsTicked(stack, j) <=> IsTicked(rest, j)
      /\ GoOn(stack) => GoStack(rest, timers, Runners \ {c})
  BY <1>1, SpliceStacked DEF Inv
<1> HIDE DEF rest, c
<1>4. /\ DOMAIN item' = Item
      /\ \A j \in Item : j # c => item'[j] = item[j]
      /\ DOMAIN item'[c] = Fields
      /\ item'[c].state = "rejected"
      /\ item'[c].halted
      /\ item'[c].orig = item[c].orig
  <2>1. DOMAIN item = Item /\ DOMAIN item[c] = Fields
    BY <1>2 DEF Inv, Structure
  <2>2. QED
    BY <1>1, <1>2, <2>1 DEF Fields
<1>5. UNCHANGED << timers, inProgress, loops, value, fxshow, spoilt, meddled >>
  BY <1>1 DEF engine, style
<1>6. \A j \in Item : /\ Running(j)' <=> j # c /\ Running(j)
                      /\ Styles(j)' <=> Styles(j)
                      /\ Ended(j)' => j # c /\ Ended(j)
  BY <1>2, <1>4 DEF Running, Styles, Ended
<1>7. Structure'
  <2>1. \A j \in Item : DOMAIN item'[j] = Fields /\ (item'[j].halted => ~ Running(j)')
    BY <1>2, <1>4, <1>6 DEF Inv, Structure, Running
  <2>2. QED
    BY <1>1, <1>3, <1>4, <1>5, <2>1 DEF Inv, Structure
<1>8. ASSUME ~ spoilt'  PROVE StyleInv'
  <2>1. ~ spoilt
    BY <1>5, <1>8
  <2>2. ASSUME NEW j \in Item, Styles(j)'  PROVE Original(item[j].orig)'
    <3>1. Styles(j) /\ item'[j].orig = item[j].orig
      BY <1>4, <1>6, <2>2
    <3>2. Original(item[j].orig)
      BY <2>1, <3>1 DEF Inv, StyleInv
    <3>3. QED
      BY <1>1, <3>1, <3>2 DEF Original
  <2>3. ASSUME NEW k \in 1 .. Len(timers'), Ended(timers[k])'
        PROVE  IsTicked(stack', timers'[k])
    <3>1. timers[k] \in Item /\ k \in 1 .. Len(timers) /\ timers'[k] = timers[k]
      BY <1>5, ElementOfSeq DEF Inv, Structure
    <3>2. timers[k] # c
      BY <1>4, <2>3, <3>1 DEF Ended
    <3>3. Ended(timers[k])
      BY <1>4, <2>3, <3>1, <3>2 DEF Ended, Running, Styles
    <3>4. QED
      BY <1>1, <1>3, <2>1, <3>1, <3>3 DEF Inv, StyleInv
  <2>4. /\ \/ fxshow' = None /\ Original(value)'
           \/ fxshow' \in [value : {"fixed"}, hidden : BOOLEAN \cup {None}]
        /\ \A j \in Item : Running(j)' /\ Styles(j)' => fxshow' # None
        /\ \A j, k \in Item :
              Running(j)' /\ Styles(j)' /\ Running(k)' /\ Styles(k)' => j = k
    BY <1>1, <1>5, <1>6, <2>1 DEF Inv, StyleInv, Original
  <2>5. fxshow' # None => interrupted' \/ \E j \in Item : Running(j)' /\ Styles(j)'
    <3> SUFFICES ASSUME fxshow' # None, ~ interrupted'
                 PROVE  \E j \in Item : Running(j)' /\ Styles(j)'
      OBVIOUS
    <3>1. PICK j \in Item : Running(j) /\ Styles(j)
      BY <1>1, <1>5, <2>1 DEF Inv, StyleInv
    <3>2. j # c
      BY <1>1, <3>1
    <3>3. QED
      BY <1>6, <3>1, <3>2
  <2>6. QED
    BY <2>2, <2>3, <2>4, <2>5 DEF StyleInv
<1>9. StyleInv'
  BY <1>8 DEF StyleInv
<1>10. ASSUME GoOn(stack)  PROVE GoOn(stack)'
  <2>1. Runners' = Runners \ {c}
    BY <1>6 DEF Runners
  <2>2. QED
    BY <1>1, <1>3, <1>5, <1>10, <2>1 DEF GoOn
<1>11. Waiting'
  BY <1>1 DEF Inv, Waiting
<1>12. QED
  BY <1>5, <1>7, <1>9, <1>10, <1>11 DEF Inv, GoInv

LEMMA SpliceStep ==
  ASSUME Inv, Splice
  PROVE  Inv'
<1> DEFINE f == stack[2]
           k == f.i
           g == [f EXCEPT !.i = @ - 1]
<1>1. /\ stack # << >> /\ stack[1].kind = "splice"
      /\ timers' = Without(timers, k)
      /\ stack' = << g >> \o Tail(Rest)
      /\ UNCHANGED << queue, inProgress, loops, kinds, item, style, history >>
  BY DEF Splice, TopIs, Top
<1>2. /\ stack \in Seq(Frame) /\ Len(stack) \in Nat \ {0}
      /\ StackOK(stack, inProgress) /\ inProgress \in BOOLEAN
  BY <1>1, TailShape DEF Inv, Structure, StackOK
<1>3. 2 \in 1 .. Len(stack) /\ IsLoop(f) /\ f.i > 0
  <2>1. 1 \in 1 .. Len(stack)
    BY <1>2
  <2>2. 1 < Len(stack) /\ IsLoop(stack[1 + 1]) /\ stack[1 + 1].i > 0
    BY <1>1, <1>2, <2>1 DEF StackOK
  <2>3. QED
    BY <1>2, <2>2
<1>4. f \in Loop
  BY <1>2, <1>3, FrameParts, ElementOfSeq
<1>5. k \in Nat \ {0}
  BY <1>3, <1>4 DEF Loop
<1>6. g \in Loop
  BY <1>3, <1>4, LoopSteps
<1>7. /\ Rest \in Seq(Frame) /\ Rest # << >> /\ Rest[1] = f
      /\ StackOK(Rest, inProgress)
      /\ \A j \in Item : IsTicked(stack, j) <=> IsTicked(Rest, j)
  <2>1. Rest \in Seq(Frame) /\ Len(Rest) = Len(stack) - 1
        /\ \A m \in 1 .. Len(stack) - 1 : Rest[m] = stack[m + 1]
    BY <1>1, <1>2, TailShape DEF Rest
  <2>2. 1 \in 1 .. Len(stack) - 1
    BY <1>2, <1>3
  <2>3. Rest # << >>
    BY <1>2, <1>3, <2>1
  <2>4. Rest[1] = stack[2]
    BY <2>1, <2>2
  <2>5. QED
    BY <1>1, <1>2, <2>1, <2>3, <2>4, Popped DEF Rest
<1>8. /\ StackOK(Tail(Rest), inProgress)
      /\ \A j \in Item : IsTicked(Rest, j) <=> IsTicked(Tail(Rest), j)
  <2>1. Rest[1].kind # "ticked"
    BY <1>3, <1>7 DEF IsLoop
  <2> HIDE DEF f
  <2> DEFINE r == Rest
  <2>2. StackOK(r, inProgress) /\ r # << >> /\ inProgress \in BOOLEAN /\ r[1].kind # "ticked"
    BY <1>2, <1>7, <2>1
  <2> HIDE DEF r
  <2>3. /\ StackOK(Tail(r), inProgress)
        /\ \A j \in Item : IsTicked(r, j) <=> IsTicked(Tail(r), j)
    BY <2>2, Popped
  <2>4. QED
    BY <2>3 DEF r
<1>9. g \in Frame /\ IsLoop(g) /\ ~ IsTick(g) /\ g.kind # "ticked" /\ g.kind # "splice"
  BY <1>6 DEF Frame, Loop, IsLoop, IsTick
<1> HIDE DEF g, k, f
<1>10. /\ StackOK(stack', inProgress)
       /\ \A j \in Item : IsTicked(stack', j) <=> IsTicked(Tail(Rest), j)
  BY <1>1, <1>2, <1>8, <1>9, Pushed
<1>11. /\ Structure'
       /\ \A m \in 1 .. Len(timers') :
             \E l \in 1 .. Len(timers) : l # k /\ timers'[m] = timers[l]
  BY <1>1, <1>5, <1>10, TakenOut DEF Inv
<1>12. StyleInv'
  <2>1. UNCHANGED << item, value, fxshow, spoilt, interrupted >>
    BY <1>1 DEF style, history
  <2>2. timers \in Seq(Item)
    BY DEF Inv, Structure
  <2>3. \A m \in 1 .. Len(timers') : timers'[m] \in Item
    BY <1>11, <2>2, ElementOfSeq
  <2>4. \A m \in 1 .. Len(timers') :
           IsTicked(stack, timers'[m]) => IsTicked(stack', timers'[m])
    BY <1>7, <1>8, <1>10, <2>3
  <2>5. QED
    BY <1>11, <2>1, <2>4, StyleFewer DEF Inv
<1>13. ASSUME GoOn(stack)  PROVE GoOn(stack)'
  <2>1. GoStack(stack, timers, Runners)
    BY <1>13 DEF GoOn
  <2>2. SafeIn(k, timers[k], timers, Runners)
    <3>1. 1 \in 1 .. Len(stack)
      BY <1>2
    <3>2. SafeIn(stack[1 + 1].i, timers[stack[1 + 1].i], timers, Runners)
      BY <1>1, <2>1, <3>1 DEF GoStack
    <3>3. QED
      BY <3>2 DEF k, f
  <2>3. \A i \in Runners' : \E m \in 1 .. Len(timers') : timers'[m] = i
    BY <1>1, <1>5, <1>13, <2>2, TakenOut DEF Inv
  <2>4. Tail(Rest) = << >>
    <3>1. GoStack(Rest, timers, Runners)
      BY <1>1, <1>2, <2>1, GoPopped DEF Rest
    <3>2. QED
      BY <1>3, <1>7, <3>1, GoPopped
  <2>5. GoStack(stack', timers', Runners')
    <3>1. GoStack(Tail(Rest), timers', Runners')
      BY <2>4, GoEmpty
    <3>2. QED
      BY <1>1, <1>8, <1>9, <2>4, <3>1, GoPushed
  <2>6. QED
    BY <2>3, <2>5 DEF GoOn
<1>14. Waiting'
  BY <1>1 DEF Inv, Waiting
<1>15. meddled' = meddled
  BY <1>1 DEF history
<1>16. QED
  BY <1>11, <1>12, <1>13, <1>14, <1>15 DEF Inv, GoInv

-----------------------------------------------------------------------------
(* The theorems *)

LEMMA FxInit == Init => Inv
<1> SUFFICES ASSUME Init PROVE Inv
  OBVIOUS
<1>1. Waiting
  BY QueueEmpty, FxAssumption DEF Init, Waiting
<1>2. DOMAIN NoItem = Fields /\ ~ NoItem.halted /\ NoItem.state # "running"
      /\ NoItem.orig = None
  BY DEF NoItem, Fields
<1>3. \A i \in Item : ~ Running(i) /\ ~ Styles(i)
  BY <1>2 DEF Init, Running, Styles
<1>4. Structure
  <2>1. DOMAIN item = Item /\ \A i \in Item : item[i] = NoItem
    BY DEF Init
  <2>2. StackOK(stack, inProgress)
    BY StackEmpty DEF Init
  <2>3. timers \in Seq(Item) /\ timers = << >> /\ inProgress = FALSE /\ loops = 0
    BY DEF Init
  <2>4. QED
    BY <1>2, <2>1, <2>2, <2>3 DEF Structure
<1>5. StyleInv
  BY <1>3 DEF Init, StyleInv, Ended, Original
<1>6. GoInv
  BY <1>3, GoEmpty DEF Init, GoInv, GoOn, Runners
<1>7. QED
  BY <1>1, <1>4, <1>5, <1>6 DEF Inv

LEMMA FxStutter ==
  ASSUME Inv, UNCHANGED vars
  PROVE  Inv'
<1>1. UNCHANGED << queue, engine, kinds, item, style, stack, history >>
  BY DEF vars
<1>2. Waiting'
  BY <1>1 DEF Inv, Waiting
<1>3. StackOK(stack, inProgress)
  BY DEF Inv, Structure
<1>4. QED
  BY <1>1, <1>2, <1>3, QuietStep DEF style, history

LEMMA FxStep == Inv /\ FreshInv /\ [Next]_vars => Inv'
<1> SUFFICES ASSUME Inv, FreshInv, [Next]_vars PROVE Inv'
  OBVIOUS
<1>1. CASE Run
  BY <1>1, TickOnStep, TickLastStep, TickedStep, TickEndsStep, LaunchStep, PassTimerStep,
     EndTimerStep, BreakTimerStep, SpliceStep, BrokenOff, StopEndsStep, FinishOldStep,
     FinishEndsStep, Zenon DEF Run
<1>2. CASE User
  BY <1>2, EnqueueStep, SkipStep, ShowHideStep, ClearQueueStep, FinishStep, StopStep,
     BrokenOff, Zenon DEF User
<1>3. CASE Return \/ Browser
  BY <1>3, ReturnStep, ScheduleStep, TimeoutStep, Zenon DEF Browser
<1>4. CASE UNCHANGED vars
  BY <1>4, FxStutter
<1>5. QED
  BY <1>1, <1>2, <1>3, <1>4 DEF Next

-----------------------------------------------------------------------------
(* What waits has not been started *)

LEMMA FreshInit == Init => FreshInv
<1> SUFFICES ASSUME Init PROVE FreshInv
  OBVIOUS
<1>1. queue = << >> /\ stack = << >> /\ Runners = {}
  BY DEF Init, Runners, Running, NoItem
<1>2. QED
  BY <1>1 DEF FreshInv, Fresh, Once, Parted, Awaits, Remains

\* less waits, less runs, and more was made
LEMMA FreshLess ==
  ASSUME NEW q, NEW s, NEW n \in Nat, NEW R, Fresh(q, s, n, R),
         NEW p, NEW t, NEW m \in Nat, NEW S, Once(p), Parted(t), n <= m,
         R \subseteq Item, S \subseteq R,
         \A i \in Item : Awaits(p, i) => Awaits(q, i),
         \A i \in Item : Remains(t, i) => Remains(s, i)
  PROVE  Fresh(p, t, m, S)
<1>1. \A i \in Item : i \in Nat
  BY FxAssumption DEF Item
<1>2. QED
  BY <1>1 DEF Fresh

\* a frame is put on the stack
LEMMA PartedPushed ==
  ASSUME NEW s \in Seq(Frame), NEW f \in Frame, Parted(s),
         f.kind = "finish" =>
             Once(f.old) /\ \A i \in Item : Awaits(f.old, i) => ~ Remains(s, i)
  PROVE  /\ Parted(<< f >> \o s)
         /\ \A i \in Item :
               Remains(<< f >> \o s, i)
                   <=> Remains(s, i) \/ (f.kind = "finish" /\ Awaits(f.old, i))
<1> DEFINE t == << f >> \o s
<1>1. /\ t \in Seq(Frame) /\ Len(t) = Len(s) + 1 /\ t[1] = f
      /\ \A k \in 2 .. Len(s) + 1 : t[k] = s[k - 1]
      /\ Len(s) \in Nat
  BY PushShape, LenProperties
<1> HIDE DEF t
<1>2. \A k \in 1 .. Len(t) : k = 1 \/ (k - 1 \in 1 .. Len(s) /\ t[k] = s[k - 1])
  BY <1>1
<1>3. \A k \in 1 .. Len(s) : k + 1 \in 1 .. Len(t) /\ t[k + 1] = s[k]
  BY <1>1
<1>4. ASSUME NEW k \in 1 .. Len(t), t[k].kind = "finish"
      PROVE  Once(t[k].old)
  BY <1>1, <1>2, <1>4 DEF Parted
<1>5. ASSUME NEW k \in 1 .. Len(t), NEW l \in 1 .. Len(t), NEW i \in Item,
             t[k].kind = "finish", Awaits(t[k].old, i),
             t[l].kind = "finish", Awaits(t[l].old, i)
      PROVE  k = l
  <2>1. CASE k # 1 /\ l # 1
    <3>1. k - 1 = l - 1
      BY <1>2, <1>5, <2>1 DEF Parted
    <3>2. QED
      BY <3>1
  <2>2. CASE k = 1 /\ l # 1
    BY <1>1, <1>2, <1>5, <2>2 DEF Remains
  <2>3. CASE k # 1 /\ l = 1
    BY <1>1, <1>2, <1>5, <2>3 DEF Remains
  <2>4. QED
    BY <2>1, <2>2, <2>3
<1>6. ASSUME NEW i \in Item
      PROVE  Remains(t, i) <=> Remains(s, i) \/ (f.kind = "finish" /\ Awaits(f.old, i))
  <2>1. ASSUME Remains(t, i)
        PROVE  Remains(s, i) \/ (f.kind = "finish" /\ Awaits(f.old, i))
    BY <1>1, <1>2, <2>1 DEF Remains
  <2>2. ASSUME Remains(s, i)  PROVE Remains(t, i)
    BY <1>3, <2>2 DEF Remains
  <2>3. ASSUME f.kind = "finish", Awaits(f.old, i)  PROVE Remains(t, i)
    <3>1. 1 \in 1 .. Len(t)
      BY <1>1
    <3>2. QED
      BY <1>1, <2>3, <3>1 DEF Remains
  <2>4. QED
    BY <2>1, <2>2, <2>3
<1>7. QED
  BY <1>4, <1>5, <1>6 DEF Parted, t

\* the innermost frame is done
LEMMA PartedPopped ==
  ASSUME NEW s \in Seq(Frame), s # << >>, Parted(s)
  PROVE  /\ Parted(Tail(s))
         /\ \A i \in Item : Remains(Tail(s), i) => Remains(s, i)
         /\ s[1].kind = "finish" =>
               /\ Once(s[1].old)
               /\ \A i \in Item : Awaits(s[1].old, i) => Remains(s, i) /\ ~ Remains(Tail(s), i)
<1> DEFINE t == Tail(s)
<1>1. /\ t \in Seq(Frame) /\ Len(s) \in Nat \ {0} /\ Len(t) = Len(s) - 1
      /\ \A k \in 1 .. Len(s) - 1 : t[k] = s[k + 1]
  BY TailShape
<1> HIDE DEF t
<1>2. \A k \in 1 .. Len(t) : k + 1 \in 1 .. Len(s) /\ k + 1 # 1 /\ t[k] = s[k + 1]
  BY <1>1
<1>3. 1 \in 1 .. Len(s)
  BY <1>1
<1>4. ASSUME NEW k \in 1 .. Len(t), NEW l \in 1 .. Len(t), NEW i \in Item,
             t[k].kind = "finish", Awaits(t[k].old, i),
             t[l].kind = "finish", Awaits(t[l].old, i)
      PROVE  k = l
  <2>1. k + 1 = l + 1
    BY <1>2, <1>4 DEF Parted
  <2>2. QED
    BY <2>1
<1>5. Parted(t)
  BY <1>2, <1>4 DEF Parted
<1>6. \A i \in Item : Remains(t, i) => Remains(s, i)
  BY <1>2 DEF Remains
<1>7. ASSUME s[1].kind = "finish", NEW i \in Item, Awaits(s[1].old, i)
      PROVE  Remains(s, i) /\ ~ Remains(t, i)
  <2>1. ASSUME Remains(t, i)  PROVE FALSE
    <3>1. PICK k \in 1 .. Len(t) : t[k].kind = "finish" /\ Awaits(t[k].old, i)
      BY <2>1 DEF Remains
    <3>2. k + 1 = 1
      BY <1>2, <1>3, <1>7, <3>1 DEF Parted
    <3>3. QED
      BY <1>2, <3>2
  <2>2. QED
    BY <1>3, <1>7, <2>1 DEF Remains
<1>8. s[1].kind = "finish" => Once(s[1].old)
  BY <1>3 DEF Parted
<1>9. QED
  BY <1>5, <1>6, <1>7, <1>8 DEF t

LEMMA TailAwaits ==
  ASSUME NEW S, NEW q \in Seq(S), q # << >>, Once(q)
  PROVE  /\ Once(Tail(q))
         /\ \A i \in Item : Awaits(Tail(q), i) => Awaits(q, i)
         /\ Head(q) \in Item => Awaits(q, Head(q)) /\ ~ Awaits(Tail(q), Head(q))
<1> DEFINE t == Tail(q)
<1>1. /\ t \in Seq(S) /\ Len(q) \in Nat \ {0} /\ Len(t) = Len(q) - 1
      /\ \A k \in 1 .. Len(q) - 1 : t[k] = q[k + 1]
  BY TailShape
<1> HIDE DEF t
<1>2. \A k \in 1 .. Len(t) : k + 1 \in 1 .. Len(q) /\ k + 1 # 1 /\ t[k] = q[k + 1]
  BY <1>1
<1>3. 1 \in 1 .. Len(q) /\ Head(q) = q[1]
  BY <1>1
<1>4. ASSUME NEW k \in 1 .. Len(t), NEW l \in 1 .. Len(t), t[k] \in Item, t[k] = t[l]
      PROVE  k = l
  <2>1. k + 1 = l + 1
    BY <1>2, <1>4 DEF Once
  <2>2. QED
    BY <2>1
<1>5. ASSUME Head(q) \in Item, Awaits(t, Head(q))  PROVE FALSE
  <2>1. PICK k \in 1 .. Len(t) : t[k] = Head(q)
    BY <1>5 DEF Awaits
  <2>2. k + 1 = 1
    BY <1>2, <1>3, <1>5, <2>1 DEF Once
  <2>3. QED
    BY <1>2, <2>2
<1>6. Once(t)
  BY <1>4 DEF Once
<1>7. \A i \in Item : Awaits(t, i) => Awaits(q, i)
  BY <1>2 DEF Awaits
<1>8. QED
  BY <1>3, <1>5, <1>6, <1>7 DEF Awaits, t

LEMMA SentinelAwaitsNone ==
  ASSUME NEW q \in Seq(Item), Once(q)
  PROVE  /\ Once(<< Sentinel >> \o q)
         /\ \A i \in Item : Awaits(<< Sentinel >> \o q, i) => Awaits(q, i)
<1> DEFINE t == << Sentinel >> \o q
<1>1. q \in Seq(Item \cup {Sentinel}) /\ Len(q) \in Nat /\ Sentinel \in Item \cup {Sentinel}
  BY LenProperties
<1>2. /\ Len(t) = Len(q) + 1 /\ t[1] = Sentinel
      /\ \A k \in 2 .. Len(q) + 1 : t[k] = q[k - 1]
  BY <1>1, PushShape
<1> HIDE DEF t
<1>3. Sentinel \notin Item
  BY FxAssumption DEF Sentinel, Item
<1>4. \A k \in 1 .. Len(t) : t[k] \in Item => k - 1 \in 1 .. Len(q) /\ t[k] = q[k - 1]
  BY <1>1, <1>2, <1>3
<1>5. ASSUME NEW k \in 1 .. Len(t), NEW l \in 1 .. Len(t), t[k] \in Item, t[k] = t[l]
      PROVE  k = l
  <2>1. k - 1 = l - 1
    BY <1>4, <1>5 DEF Once
  <2>2. QED
    BY <2>1
<1>6. \A i \in Item : Awaits(t, i) => Awaits(q, i)
  BY <1>4 DEF Awaits
<1>7. QED
  BY <1>5, <1>6 DEF Once, t

LEMMA FreshTyped ==
  ASSUME Inv
  PROVE  /\ stack \in Seq(Frame) /\ Len(kinds) \in Nat /\ Runners \subseteq Item
         /\ queue \in Seq(Item \cup {Sentinel}) /\ QueueOK(queue)
  BY LenProperties DEF Inv, Structure, StackOK, Waiting, Runners, QueueOK

\* a step that starts nothing
LEMMA FreshKept ==
  ASSUME Inv, FreshInv, kinds' = kinds, Runners' \subseteq Runners,
         queue' = queue \/ queue' = << >>,
         Parted(stack'), \A i \in Item : Remains(stack', i) => Remains(stack, i)
  PROVE  FreshInv'
<1>1. Len(kinds) \in Nat /\ Len(kinds') = Len(kinds) /\ Runners \subseteq Item
  BY FreshTyped
<1>2. Fresh(queue, stack, Len(kinds), Runners) /\ Once(queue)
  BY DEF FreshInv, Fresh
<1>3. Once(queue') /\ \A i \in Item : Awaits(queue', i) => Awaits(queue, i)
  <2>1. CASE queue' = << >>
    BY <2>1 DEF Once, Awaits
  <2>2. CASE queue' = queue
    BY <1>2, <2>2
  <2>3. QED
    BY <2>1, <2>2
<1>4. Len(kinds) <= Len(kinds)
  BY <1>1
<1>5. Fresh(queue', stack', Len(kinds), Runners')
  BY <1>1, <1>2, <1>3, <1>4, FreshLess
<1>6. QED
  BY <1>1, <1>5 DEF FreshInv

LEMMA PartedEmpty ==
  /\ Parted(<< >>)
  /\ \A i \in Item : ~ Remains(<< >>, i)
  BY DEF Parted, Remains

LEMMA RestParted ==
  ASSUME Inv, FreshInv, stack # << >>
  PROVE  /\ Rest \in Seq(Frame)
         /\ Parted(Rest)
         /\ \A i \in Item : Remains(Rest, i) => Remains(stack, i)
         /\ Top.kind = "finish" =>
               /\ Once(Top.old)
               /\ \A i \in Item : Awaits(Top.old, i) => Remains(stack, i) /\ ~ Remains(Rest, i)
<1>1. stack \in Seq(Frame) /\ Parted(stack)
  BY FreshTyped DEF FreshInv, Fresh
<1>2. Rest \in Seq(Frame)
  BY <1>1, TailShape DEF Rest
<1>3. QED
  BY <1>1, <1>2, PartedPopped DEF Rest, Top

\* the innermost frame is another
LEMMA TopParted ==
  ASSUME Inv, FreshInv, stack # << >>, NEW f \in Frame,
         f.kind = "finish" => Top.kind = "finish" /\ f.old = Top.old
  PROVE  /\ << f >> \o Rest \in Seq(Frame)
         /\ Parted(<< f >> \o Rest)
         /\ \A i \in Item : Remains(<< f >> \o Rest, i) => Remains(stack, i)
<1>1. /\ Rest \in Seq(Frame)
      /\ Parted(Rest)
      /\ \A i \in Item : Remains(Rest, i) => Remains(stack, i)
      /\ Top.kind = "finish" =>
            /\ Once(Top.old)
            /\ \A i \in Item : Awaits(Top.old, i) => Remains(stack, i) /\ ~ Remains(Rest, i)
  BY RestParted
<1>2. f.kind = "finish" =>
          Once(f.old) /\ \A i \in Item : Awaits(f.old, i) => ~ Remains(Rest, i) /\ Remains(stack, i)
  BY <1>1
<1>3. /\ Parted(<< f >> \o Rest)
      /\ \A i \in Item : Remains(<< f >> \o Rest, i)
                             <=> Remains(Rest, i) \/ (f.kind = "finish" /\ Awaits(f.old, i))
  BY <1>1, <1>2, PartedPushed
<1>4. << f >> \o Rest \in Seq(Frame)
  BY <1>1, PushShape
<1>5. QED
  BY <1>1, <1>2, <1>3, <1>4

LEMMA DrivenParted ==
  ASSUME NEW i \in Item, NEW rest \in Seq(Frame), Parted(rest), inProgress \in BOOLEAN,
         Driven(i, << [kind |-> "launch", of |-> i] >> \o rest)
  PROVE  /\ Parted(stack')
         /\ \A j \in Item : Remains(stack', j) => Remains(rest, j)
<1> DEFINE launch == [kind |-> "launch", of |-> i]
           tick == [kind |-> "tick", i |-> 1]
           called == << launch >> \o rest
<1>1. /\ launch \in Frame /\ launch.kind = "launch"
      /\ tick \in Frame /\ tick.kind = "tick"
  BY DEF Frame, Call, Tick
<1>2. stack' = (IF inProgress THEN << >> ELSE << tick >>) \o called
  BY DEF Driven
<1> HIDE DEF launch, tick
<1>3. /\ Parted(called)
      /\ \A j \in Item : Remains(called, j) <=> Remains(rest, j)
  <2>1. launch.kind # "finish"
    BY <1>1
  <2>2. QED
    BY <1>1, <2>1, PartedPushed
<1>4. called \in Seq(Frame)
  BY <1>1, PushShape
<1> HIDE DEF called
<1>5. CASE inProgress
  <2>1. stack' = called
    BY <1>2, <1>4, <1>5, ConcatEmptySeq
  <2>2. QED
    BY <1>3, <2>1
<1>6. CASE ~ inProgress
  <2>1. stack' = << tick >> \o called /\ tick.kind # "finish"
    BY <1>1, <1>2, <1>6
  <2>2. /\ Parted(stack')
        /\ \A j \in Item : Remains(stack', j) <=> Remains(called, j)
    BY <1>1, <1>3, <1>4, <2>1, PartedPushed
  <2>3. QED
    BY <1>3, <2>2
<1>7. QED
  BY <1>5, <1>6

\* what is started waits no more
LEMMA LaunchedFresh ==
  ASSUME Structure, NEW i \in Item, NEW rest \in Seq(Frame), NEW q, NEW n \in Nat,
         Fresh(q, rest, n, Runners), ~ Awaits(q, i), ~ Remains(rest, i), i <= n,
         Launched(i, rest)
  PROVE  Fresh(q, stack', n, Runners')
<1>1. /\ Prefiltered(i)
      /\ Driven(i, << [kind |-> "launch", of |-> i] >> \o rest)
  BY DEF Launched
<1>2. \A j \in Item : j # i => item'[j] = item[j]
  BY <1>1, PrefilteredItems
<1>3. Runners' \subseteq Runners \cup {i}
  BY <1>2 DEF Runners, Running
<1>4. /\ Parted(stack')
      /\ \A j \in Item : Remains(stack', j) => Remains(rest, j)
  BY <1>1, DrivenParted DEF Structure, Fresh
<1>5. QED
  BY <1>3, <1>4 DEF Fresh

\* the queue q moves on, when the frames are rest
LEMMA DequeuedFresh ==
  ASSUME Structure, NEW q, QueueOK(q), NEW d, NEW rest \in Seq(Frame),
         Len(kinds') \in Nat, Fresh(q, rest, Len(kinds'), Runners),
         Dequeued(q, d, rest)
  PROVE  FreshInv'
<1> DEFINE left == WithoutSentinel(q)
<1>1. left \in Seq(Item) /\ q \in Seq(Item \cup {Sentinel})
  BY SentinelTaken DEF QueueOK
<1>2. Once(left) /\ \A j \in Item : Awaits(left, j) => Awaits(q, j)
  <2>1. CASE q # << >> /\ Head(q) = Sentinel
    <3>1. left = Tail(q) /\ Once(q)
      BY <2>1 DEF WithoutSentinel, Fresh
    <3>2. QED
      BY <1>1, <2>1, <3>1, TailAwaits
  <2>2. CASE ~ (q # << >> /\ Head(q) = Sentinel)
    BY <2>2 DEF WithoutSentinel, Fresh
  <2>3. QED
    BY <2>1, <2>2
<1> HIDE DEF left
<1>3. PICK n : n = Len(kinds')
  OBVIOUS
<1>4. n \in Nat /\ n <= n /\ Runners \subseteq Item /\ Parted(rest) /\ Fresh(q, rest, n, Runners)
  BY <1>3 DEF Runners, Fresh
<1>5. ASSUME item' = item  PROVE Runners' = Runners
  BY <1>5 DEF Runners, Running
<1>6. CASE left = << >>
  <2>1. queue' = << >> /\ stack' = rest /\ item' = item
    BY <1>6 DEF Dequeued, left
  <2>2. Once(<< >>) /\ \A j \in Item : Awaits(<< >>, j) => Awaits(q, j)
    BY DEF Once, Awaits
  <2>3. Fresh(<< >>, rest, n, Runners)
    BY <1>4, <2>2, FreshLess
  <2>4. QED
    BY <1>3, <1>5, <2>1, <2>3 DEF FreshInv
<1>7. CASE left # << >>
  <2>1. queue' = << Sentinel >> \o Tail(left)
    BY <1>7 DEF Dequeued, left
  <2>2. /\ Head(left) \in Item /\ Tail(left) \in Seq(Item)
    BY <1>1, <1>7, HeadTailProperties
  <2>3. /\ Once(Tail(left))
        /\ \A j \in Item : Awaits(Tail(left), j) => Awaits(left, j)
        /\ Awaits(left, Head(left)) /\ ~ Awaits(Tail(left), Head(left))
    BY <1>1, <1>2, <1>7, <2>2, TailAwaits
  <2>4. Once(queue') /\ \A j \in Item : Awaits(queue', j) => Awaits(Tail(left), j)
    BY <2>1, <2>2, <2>3, SentinelAwaitsNone
  <2>5. Fresh(queue', rest, n, Runners)
    BY <1>2, <1>4, <2>3, <2>4, FreshLess
  <2>6. CASE kinds'[Head(left)] = Delay
    <3>1. stack' = rest /\ item' = item
      BY <1>7, <2>6 DEF Dequeued, left
    <3>2. QED
      BY <1>3, <1>5, <2>5, <3>1 DEF FreshInv
  <2>7. CASE kinds'[Head(left)] # Delay
    <3>1. Launched(Head(left), rest)
      BY <1>7, <2>7 DEF Dequeued, left
    <3>2. Awaits(q, Head(left)) /\ ~ Awaits(queue', Head(left))
      BY <1>2, <2>2, <2>3, <2>4
    <3>3. ~ Remains(rest, Head(left)) /\ Head(left) <= n
      BY <1>4, <2>2, <3>2 DEF Fresh
    <3>4. PICK p : p = queue'
      OBVIOUS
    <3>5. Fresh(p, stack', n, Runners')
      BY <1>4, <2>2, <2>5, <3>1, <3>2, <3>3, <3>4, LaunchedFresh
    <3>6. QED
      BY <1>3, <3>4, <3>5 DEF FreshInv
  <2>8. QED
    BY <2>6, <2>7
<1>8. QED
  BY <1>6, <1>7

LEMMA ResolvedParted ==
  ASSUME NEW i \in Item, NEW halted \in BOOLEAN, NEW rest \in Seq(Frame), Parted(rest),
         Structure, Resolved(i, halted, rest)
  PROVE  /\ Parted(stack')
         /\ \A j \in Item : Remains(stack', j) => Remains(rest, j)
         /\ Runners' \subseteq Runners
<1>1. /\ item' = [item EXCEPT ![i].halted = halted,
                              ![i].state = IF Running(i) THEN "resolved" ELSE @]
      /\ stack' = (IF Running(i) THEN << [kind |-> "complete", of |-> i] >>
                                 ELSE << >>) \o rest
  BY DEF Resolved
<1>2. Runners' \subseteq Runners
  BY <1>1 DEF Runners, Running, Structure
<1>3. CASE Running(i)
  <2> DEFINE f == [kind |-> "complete", of |-> i]
  <2>1. f \in Frame /\ f.kind # "finish" /\ stack' = << f >> \o rest
    BY <1>1, <1>3 DEF Frame, Call
  <2> HIDE DEF f
  <2>2. QED
    BY <1>2, <2>1, PartedPushed
<1>4. CASE ~ Running(i)
  <2>1. stack' = rest
    BY <1>1, <1>4, ConcatEmptySeq
  <2>2. QED
    BY <1>2, <2>1
<1>5. QED
  BY <1>3, <1>4

\* something is added to the queue
LEMMA AppendedFresh ==
  ASSUME Inv, FreshInv, NEW kind \in Kinds, Len(kinds) < MaxItems,
         kinds' = Append(kinds, kind)
  PROVE  /\ Len(kinds') \in Nat /\ Len(kinds') \in Item
         /\ Fresh(queue, stack, Len(kinds'), Runners)
         /\ Fresh(Append(queue, Len(kinds')), stack, Len(kinds'), Runners)
         /\ ~ Awaits(queue, Len(kinds')) /\ ~ Remains(stack, Len(kinds'))
<1>1. Len(kinds) \in Nat /\ Len(kinds') = Len(kinds) + 1 /\ Len(kinds') \in Item
  BY KindAppended, AppendProperties, LenProperties DEF Inv, Waiting
<1>2. PICK n : n = Len(kinds')
  OBVIOUS
<1>3. n \in Nat /\ n \in Item /\ Len(kinds) <= n /\ ~ (n <= Len(kinds)) /\ n <= n
  BY <1>1, <1>2
<1>4. /\ queue \in Seq(Item \cup {Sentinel}) /\ n \in Item \cup {Sentinel}
      /\ Runners \subseteq Item
      /\ Fresh(queue, stack, Len(kinds), Runners)
  BY <1>3, FreshTyped DEF FreshInv
<1>5. Fresh(queue, stack, n, Runners)
  BY <1>1, <1>3, <1>4, FreshLess DEF Fresh
<1>6. ~ Awaits(queue, n) /\ ~ Remains(stack, n) /\ n \notin Runners
  BY <1>3, <1>4 DEF Fresh
<1>7. PICK p : p = Append(queue, n)
  OBVIOUS
<1>8. PICK l \in Nat : l = Len(queue)
  BY <1>4, LenProperties
<1>9. /\ Len(p) = l + 1 /\ p[l + 1] = n
      /\ \A k \in 1 .. l : p[k] = queue[k]
  BY <1>4, <1>7, <1>8, AppendProperties
<1>10. \A k \in 1 .. Len(p) : k = l + 1 \/ k \in 1 .. Len(queue)
  BY <1>8, <1>9
<1>11. Once(p)
  <2> SUFFICES ASSUME NEW k \in 1 .. Len(p), NEW m \in 1 .. Len(p), p[k] \in Item, p[k] = p[m]
               PROVE  k = m
    BY DEF Once
  <2>1. CASE k \in 1 .. Len(queue) /\ m \in 1 .. Len(queue)
    BY <1>4, <1>8, <1>9, <2>1 DEF Fresh, Once
  <2>2. CASE k = l + 1 /\ m = l + 1
    BY <2>2
  <2>3. CASE k = l + 1 /\ m \in 1 .. Len(queue)
    <3>1. queue[m] = n
      BY <1>8, <1>9, <2>3
    <3>2. QED
      BY <1>6, <2>3, <3>1 DEF Awaits
  <2>4. CASE k \in 1 .. Len(queue) /\ m = l + 1
    <3>1. queue[k] = n
      BY <1>8, <1>9, <2>4
    <3>2. QED
      BY <1>6, <2>4, <3>1 DEF Awaits
  <2>5. QED
    BY <1>10, <2>1, <2>2, <2>3, <2>4
<1>12. ASSUME NEW j \in Item, Awaits(p, j)  PROVE j = n \/ Awaits(queue, j)
  <2>1. PICK k \in 1 .. Len(p) : p[k] = j
    BY <1>12 DEF Awaits
  <2>2. CASE k = l + 1
    BY <1>9, <2>1, <2>2
  <2>3. CASE k \in 1 .. Len(queue)
    BY <1>8, <1>9, <2>1, <2>3 DEF Awaits
  <2>4. QED
    BY <1>10, <2>2, <2>3
<1>13. Fresh(p, stack, n, Runners)
  BY <1>3, <1>5, <1>6, <1>11, <1>12 DEF Fresh
<1>14. QED
  BY <1>2, <1>3, <1>5, <1>6, <1>7, <1>13

LEMMA EnqueueFresh ==
  ASSUME Inv, FreshInv, NEW kind \in Kinds, Enqueue(kind)
  PROVE  FreshInv'
<1>1. /\ Len(kinds') \in Nat /\ Len(kinds') \in Item
      /\ Fresh(Append(queue, Len(kinds')), stack, Len(kinds'), Runners)
  BY AppendedFresh DEF Enqueue
<1>2. CASE queue # << >> /\ Head(queue) = Sentinel
  <2>1. queue' = Append(queue, Len(kinds')) /\ item' = item /\ stack' = stack
    BY <1>2 DEF Enqueue
  <2>2. Runners' = Runners
    BY <2>1 DEF Runners, Running
  <2>3. QED
    BY <1>1, <2>1, <2>2 DEF FreshInv
<1>3. CASE ~ (queue # << >> /\ Head(queue) = Sentinel)
  <2>1. Dequeued(Append(queue, Len(kinds')), delays, stack)
    BY <1>3 DEF Enqueue
  <2>2. stack \in Seq(Frame) /\ QueueOK(queue) /\ Structure
    BY FreshTyped DEF Inv
  <2>3. QueueOK(Append(queue, Len(kinds')))
    BY <1>1, <2>2, QueueAppended
  <2>4. QED
    BY <1>1, <2>1, <2>2, <2>3, DequeuedFresh
<1>4. QED
  BY <1>2, <1>3

LEMMA SkipFresh ==
  ASSUME Inv, FreshInv, NEW kind \in Kinds, Skip(kind)
  PROVE  FreshInv'
<1>1. PICK n : n = Len(kinds')
  OBVIOUS
<1>2. /\ n \in Nat /\ n \in Item /\ n <= n
      /\ Fresh(queue, stack, n, Runners)
      /\ ~ Awaits(queue, n) /\ ~ Remains(stack, n)
  BY <1>1, AppendedFresh DEF Skip
<1>3. Launched(n, stack) /\ queue' = queue
  BY <1>1 DEF Skip
<1>4. Fresh(queue, stack', n, Runners')
  BY <1>2, <1>3, LaunchedFresh, FreshTyped DEF Inv
<1>5. QED
  BY <1>1, <1>3, <1>4 DEF FreshInv

\* the queue moves on for the frames that are left
LEMMA QueueMovesOn ==
  ASSUME Inv, FreshInv, kinds' = kinds, NEW d, NEW rest \in Seq(Frame), Parted(rest),
         \A i \in Item : Remains(rest, i) => Remains(stack, i),
         Dequeued(queue, d, rest)
  PROVE  FreshInv'
<1>1. Len(kinds) \in Nat /\ Len(kinds) <= Len(kinds) /\ Runners \subseteq Item /\ QueueOK(queue)
  BY FreshTyped
<1>2. Fresh(queue, stack, Len(kinds), Runners) /\ Once(queue)
  BY DEF FreshInv, Fresh
<1>3. Fresh(queue, rest, Len(kinds), Runners)
  BY <1>1, <1>2, FreshLess
<1>4. QED
  BY <1>1, <1>3, DequeuedFresh DEF Inv

LEMMA ReturnFresh ==
  ASSUME Inv, FreshInv, Return
  PROVE  FreshInv'
<1>1. stack # << >> /\ kinds' = kinds
  BY DEF Return, TopIs
<1>2. /\ Rest \in Seq(Frame) /\ Parted(Rest)
      /\ \A i \in Item : Remains(Rest, i) => Remains(stack, i)
  BY <1>1, RestParted
<1>3. CASE Queued(Top.of)
  BY <1>1, <1>2, <1>3, QueueMovesOn DEF Return
<1>4. CASE ~ Queued(Top.of)
  <2>1. stack' = Rest /\ queue' = queue /\ item' = item
    BY <1>4 DEF Return
  <2>2. Runners' = Runners
    BY <2>1 DEF Runners, Running
  <2>3. QED
    BY <1>1, <1>2, <2>1, <2>2, FreshKept
<1>5. QED
  BY <1>3, <1>4

LEMMA TimeoutFresh ==
  ASSUME Inv, FreshInv, NEW i \in Item, Timeout(i)
  PROVE  FreshInv'
<1>1. Dequeued(queue, delays \ {i}, << >>) /\ kinds' = kinds
  BY DEF Timeout
<1>2. << >> \in Seq(Frame)
  OBVIOUS
<1>3. QED
  BY <1>1, <1>2, PartedEmpty, QueueMovesOn

LEMMA StopEndsFresh ==
  ASSUME Inv, FreshInv, StopEnds
  PROVE  FreshInv'
<1>1. stack # << >> /\ kinds' = kinds
  BY DEF StopEnds, TopIs
<1>2. /\ Rest \in Seq(Frame) /\ Parted(Rest)
      /\ \A i \in Item : Remains(Rest, i) => Remains(stack, i)
  BY <1>1, RestParted
<1>3. CASE MovesOn(Top)
  BY <1>1, <1>2, <1>3, QueueMovesOn DEF StopEnds
<1>4. CASE ~ MovesOn(Top)
  <2>1. stack' = Rest /\ queue' = queue /\ item' = item
    BY <1>4 DEF StopEnds
  <2>2. Runners' = Runners
    BY <2>1 DEF Runners, Running
  <2>3. QED
    BY <1>1, <1>2, <2>1, <2>2, FreshKept
<1>5. QED
  BY <1>3, <1>4

LEMMA FinishOldFresh ==
  ASSUME Inv, FreshInv, FinishOld
  PROVE  FreshInv'
<1> DEFINE i == Head(Top.old)
           f == [Top EXCEPT !.old = Tail(@)]
           on == << f >> \o Rest
<1>1. /\ stack # << >> /\ Top.kind = "finish"
      /\ Top.old # << >>
      /\ queue' = queue /\ kinds' = kinds
      /\ IF i = Sentinel \/ kinds[i] = Delay
           THEN stack' = on /\ item' = item
           ELSE Launched(i, on)
  BY DEF FinishOld, TopIs
<1>2. /\ Rest \in Seq(Frame) /\ Parted(Rest)
      /\ \A j \in Item : Remains(Rest, j) => Remains(stack, j)
      /\ Once(Top.old)
      /\ \A j \in Item : Awaits(Top.old, j) => Remains(stack, j) /\ ~ Remains(Rest, j)
  BY <1>1, RestParted
<1>3. Top \in [kind : {"finish"}, i : Nat, old : Seq(Item \cup {Sentinel})]
  <2>1. Top \in Loop
    BY <1>1, Below, FrameParts DEF Inv, IsLoop
  <2>2. QED
    BY <1>1, <2>1 DEF Loop
<1>4. PICK o \in Seq(Item \cup {Sentinel}) : o = Top.old
  BY <1>3
<1>5. /\ Tail(o) \in Seq(Item \cup {Sentinel})
      /\ i \in Item \cup {Sentinel}
      /\ Once(Tail(o))
      /\ \A j \in Item : Awaits(Tail(o), j) => Awaits(o, j)
      /\ i \in Item => Awaits(o, i) /\ ~ Awaits(Tail(o), i)
  BY <1>1, <1>2, <1>4, HeadTailProperties, TailAwaits
<1>6. f \in Frame /\ f.old = Tail(o) /\ f.kind = "finish"
  <2>1. f = [Top EXCEPT !.old = Tail(o)]
    BY <1>3, <1>4
  <2>2. f \in [kind : {"finish"}, i : Nat, old : Seq(Item \cup {Sentinel})]
    BY <1>3, <1>5, <2>1
  <2>3. QED
    BY <1>3, <2>1, <2>2 DEF Frame, Loop
<1> HIDE DEF f, i
<1>7. /\ on \in Seq(Frame)
      /\ Parted(on)
      /\ \A j \in Item : Remains(on, j) <=> Remains(Rest, j) \/ Awaits(Tail(o), j)
  <2>1. /\ Parted(on)
        /\ \A j \in Item : Remains(on, j)
                               <=> Remains(Rest, j) \/ (f.kind = "finish" /\ Awaits(f.old, j))
    BY <1>2, <1>4, <1>5, <1>6, PartedPushed
  <2>2. on \in Seq(Frame)
    BY <1>2, <1>6, PushShape
  <2>3. QED
    BY <1>6, <2>1, <2>2
<1> HIDE DEF on
<1>8. \A j \in Item : Remains(on, j) => Remains(stack, j)
  BY <1>2, <1>4, <1>5, <1>7
<1>9. CASE i = Sentinel \/ kinds[i] = Delay
  <2>1. stack' = on /\ item' = item
    BY <1>1, <1>9
  <2>2. Runners' = Runners
    BY <2>1 DEF Runners, Running
  <2>3. QED
    BY <1>1, <1>7, <1>8, <2>1, <2>2, FreshKept
<1>10. CASE ~ (i = Sentinel \/ kinds[i] = Delay)
  <2>1. i \in Item /\ Launched(i, on)
    BY <1>1, <1>5, <1>10
  <2>2. Remains(stack, i) /\ ~ Remains(on, i)
    BY <1>2, <1>4, <1>5, <1>7, <2>1
  <2>3. PICK n \in Nat : n = Len(kinds)
    BY FreshTyped
  <2>4. Fresh(queue, stack, n, Runners) /\ n <= n /\ Runners \subseteq Item /\ Once(queue)
    BY <2>3, FreshTyped DEF FreshInv, Fresh
  <2>5. Fresh(queue, on, n, Runners)
    BY <1>7, <1>8, <2>4, FreshLess
  <2>6. ~ Awaits(queue, i) /\ i <= n
    BY <2>1, <2>2, <2>4 DEF Fresh
  <2>7. Structure
    BY DEF Inv
  <2>8. Fresh(queue, stack', n, Runners')
    BY <1>7, <2>1, <2>2, <2>5, <2>6, <2>7, LaunchedFresh
  <2>9. QED
    BY <1>1, <2>3, <2>8 DEF FreshInv
<1>11. QED
  BY <1>9, <1>10

\* loops that begin
LEMMA StopFresh ==
  ASSUME Inv, FreshInv, NEW clear \in BOOLEAN, NEW toEnd \in BOOLEAN, Stop(clear, toEnd)
  PROVE  FreshInv'
<1> DEFINE f == [kind |-> "stop", i |-> Len(timers), toEnd |-> toEnd, dequeue |-> TRUE]
<1>1. /\ stack' = << f >> \o stack
      /\ kinds' = kinds /\ item' = item
      /\ queue' = queue \/ queue' = << >>
  BY DEF Stop, QueueCleared
<1>2. f \in Frame /\ f.kind # "finish"
  BY LenProperties DEF Inv, Structure, Frame, Loop
<1> HIDE DEF f
<1>3. stack \in Seq(Frame) /\ Parted(stack)
  BY FreshTyped DEF FreshInv, Fresh
<1>4. Parted(stack') /\ \A i \in Item : Remains(stack', i) => Remains(stack, i)
  BY <1>1, <1>2, <1>3, PartedPushed
<1>5. Runners' = Runners
  BY <1>1 DEF Runners, Running
<1>6. QED
  BY <1>1, <1>4, <1>5, FreshKept

LEMMA FinishFresh ==
  ASSUME Inv, FreshInv, Finish
  PROVE  FreshInv'
<1> DEFINE f == [kind |-> "finish", i |-> Len(timers), old |-> queue]
<1>1. /\ stack' = << f >> \o stack
      /\ kinds' = kinds /\ item' = item
      /\ queue' = << >>
  BY DEF Finish
<1>2. f \in Frame /\ f.kind = "finish" /\ f.old = queue
  BY LenProperties, FreshTyped DEF Inv, Structure, Frame, Loop
<1> HIDE DEF f
<1>3. stack \in Seq(Frame) /\ Fresh(queue, stack, Len(kinds), Runners)
  BY FreshTyped DEF FreshInv
<1>4. /\ Parted(stack')
      /\ \A i \in Item : Remains(stack', i) <=> Remains(stack, i) \/ Awaits(queue, i)
  <2>1. Parted(stack) /\ Once(f.old) /\ \A i \in Item : Awaits(f.old, i) => ~ Remains(stack, i)
    BY <1>2, <1>3 DEF Fresh
  <2>2. /\ Parted(<< f >> \o stack)
        /\ \A i \in Item :
              Remains(<< f >> \o stack, i)
                  <=> Remains(stack, i) \/ (f.kind = "finish" /\ Awaits(f.old, i))
    BY <1>2, <1>3, <2>1, PartedPushed
  <2>3. QED
    BY <1>1, <1>2, <2>2
<1>5. Runners' = Runners
  BY <1>1 DEF Runners, Running
<1>6. Once(<< >>) /\ \A i \in Item : ~ Awaits(<< >>, i)
  BY DEF Once, Awaits
<1>7. Fresh(<< >>, stack', Len(kinds), Runners)
  BY <1>3, <1>4, <1>6 DEF Fresh
<1>8. QED
  BY <1>1, <1>5, <1>7 DEF FreshInv

LEMMA ScheduleFresh ==
  ASSUME Inv, FreshInv, Schedule
  PROVE  FreshInv'
<1> DEFINE f == [kind |-> "tick", i |-> 1]
<1>1. /\ stack = << >>
      /\ stack' = << f >> \/ stack' = stack
      /\ kinds' = kinds /\ item' = item /\ queue' = queue
  BY DEF Schedule
<1>2. Runners' = Runners
  BY <1>1 DEF Runners, Running
<1>3. Parted(stack') /\ \A i \in Item : ~ Remains(stack', i)
  <2>1. CASE stack' = << f >>
    <3>1. Len(stack') = 1 /\ stack'[1].kind = "tick"
      BY <2>1
    <3>2. \A k \in 1 .. Len(stack') : stack'[k].kind # "finish"
      BY <3>1
    <3>3. QED
      BY <3>2 DEF Parted, Remains
  <2>2. CASE stack' = stack
    <3>1. stack' = << >>
      BY <1>1, <2>2
    <3>2. QED
      BY <3>1, PartedEmpty
  <2>3. QED
    BY <1>1, <2>1, <2>2
<1>4. QED
  BY <1>1, <1>2, <1>3, FreshKept

\* steps with no frame more, or none at all
LEMMA PlainFresh ==
  ASSUME Inv, FreshInv,
         \/ ClearQueue \/ Throw \/ Crash \/ TickEnds \/ FinishEnds \/ AskPromise
         \/ \E show \in BOOLEAN : ShowHide(show)
  PROVE  FreshInv'
<1>1. /\ kinds' = kinds /\ item' = item /\ (queue' = queue \/ queue' = << >>)
      /\ stack' = stack \/ stack' = << >> \/ (stack # << >> /\ stack' = Rest)
  BY DEF ClearQueue, QueueCleared, Throw, Crash, TickEnds, FinishEnds, AskPromise, ShowHide, TopIs
<1>2. Runners' = Runners
  BY <1>1 DEF Runners, Running
<1>3. Parted(stack)
  BY DEF FreshInv, Fresh
<1>4. Parted(stack') /\ \A i \in Item : Remains(stack', i) => Remains(stack, i)
  BY <1>1, <1>3, PartedEmpty, RestParted
<1>5. QED
  BY <1>1, <1>2, <1>4, FreshKept

LEMMA TickOnFresh ==
  ASSUME Inv, FreshInv, TickOn
  PROVE  FreshInv'
<1> DEFINE c == Current
           f == [Top EXCEPT !.i = @ + 1]
<1>1. /\ Ticking
      /\ item' = [item EXCEPT ![c].left = @ - 1]
      /\ stack' = << f >> \o Rest
      /\ queue' = queue /\ kinds' = kinds
  BY DEF TickOn
<1>2. /\ stack # << >>
      /\ Top \in [kind : {"tick"}, i : Nat \ {0}]
      /\ c \in Item
  BY <1>1, TickCurrent DEF Inv
<1>3. f \in Frame /\ f.kind # "finish"
  BY <1>2 DEF Tick, Frame
<1> HIDE DEF c, f
<1>4. Runners' \subseteq Runners
  BY <1>1, <1>2 DEF Runners, Running, Inv, Structure, Fields
<1>5. Parted(stack') /\ \A i \in Item : Remains(stack', i) => Remains(stack, i)
  BY <1>1, <1>2, <1>3, TopParted
<1>6. QED
  BY <1>1, <1>4, <1>5, FreshKept

LEMMA TickLastFresh ==
  ASSUME Inv, FreshInv, TickLast
  PROVE  FreshInv'
<1> DEFINE c == Current
           f == [kind |-> "ticked", i |-> Top.i, of |-> c]
           rest == << f >> \o Rest
<1>1. /\ Ticking
      /\ IF item[c].halted THEN stack' = rest /\ item' = item
                           ELSE Resolved(c, FALSE, rest)
      /\ queue' = queue /\ kinds' = kinds
  BY DEF TickLast
<1>2. /\ stack # << >>
      /\ Top \in [kind : {"tick"}, i : Nat \ {0}]
      /\ c \in Item
  BY <1>1, TickCurrent DEF Inv
<1>3. f \in Frame /\ f.kind # "finish"
  BY <1>2 DEF Tick, Frame
<1> HIDE DEF c, f
<1>4. /\ rest \in Seq(Frame) /\ Parted(rest)
      /\ \A i \in Item : Remains(rest, i) => Remains(stack, i)
  BY <1>2, <1>3, TopParted
<1> HIDE DEF rest
<1>5. CASE item[c].halted
  <2>1. Runners' = Runners
    BY <1>1, <1>5 DEF Runners, Running
  <2>2. QED
    BY <1>1, <1>4, <1>5, <2>1, FreshKept
<1>6. CASE ~ item[c].halted
  <2>1. Resolved(c, FALSE, rest) /\ FALSE \in BOOLEAN /\ Structure
    BY <1>1, <1>6 DEF Inv
  <2>2. /\ Parted(stack')
        /\ \A j \in Item : Remains(stack', j) => Remains(rest, j)
        /\ Runners' \subseteq Runners
    BY <1>2, <1>4, <2>1, ResolvedParted
  <2>3. QED
    BY <1>1, <1>4, <2>2, FreshKept
<1>7. QED
  BY <1>5, <1>6

LEMMA TickedFresh ==
  ASSUME Inv, FreshInv, Ticked
  PROVE  FreshInv'
<1>1. PICK k : k = IF Spliced(Top.i, Top.of) THEN Top.i ELSE Top.i + 1
  OBVIOUS
<1> DEFINE f == [kind |-> "tick", i |-> k]
<1>2. /\ stack # << >> /\ Top.kind = "ticked"
      /\ stack' = << f >> \o Rest
      /\ item' = item /\ queue' = queue /\ kinds' = kinds
  BY <1>1 DEF Ticked, TopIs
<1>3. Top.i \in Nat \ {0}
  <2>1. Top \in Frame /\ stack \in Seq(Frame)
    BY <1>2, FreshTyped, ElementOfSeq, EmptySeq, LenProperties DEF Top
  <2>2. Top \in Tick
    BY <1>2, <2>1, FrameParts DEF IsTick
  <2>3. QED
    BY <2>2 DEF Tick
<1>4. f \in Frame /\ f.kind # "finish"
  <2>1. k \in Nat \ {0}
    BY <1>1, <1>3
  <2>2. QED
    BY <2>1 DEF Tick, Frame
<1> HIDE DEF f
<1>5. Parted(stack') /\ \A i \in Item : Remains(stack', i) => Remains(stack, i)
  BY <1>2, <1>4, TopParted
<1>6. Runners' = Runners
  BY <1>2 DEF Runners, Running
<1>7. QED
  BY <1>2, <1>5, <1>6, FreshKept

LEMMA LaunchFresh ==
  ASSUME Inv, FreshInv, Launch
  PROVE  FreshInv'
<1> DEFINE i == Top.of
<1>1. /\ stack # << >> /\ Top.kind = "launch"
      /\ IF EndsAtOnce(i) THEN Resolved(i, TRUE, Rest)
                          ELSE stack' = Rest /\ item' = item
      /\ queue' = queue /\ kinds' = kinds
  BY DEF Launch, TopIs
<1>2. i \in Item
  <2>1. Top \in Frame
    BY <1>1, FreshTyped, ElementOfSeq, EmptySeq, LenProperties DEF Top
  <2>2. Top \in Call
    BY <1>1, <2>1, FrameParts
  <2>3. QED
    BY <2>2 DEF Call
<1> HIDE DEF i
<1>3. /\ Rest \in Seq(Frame) /\ Parted(Rest)
      /\ \A j \in Item : Remains(Rest, j) => Remains(stack, j)
  BY <1>1, RestParted
<1>4. CASE EndsAtOnce(i)
  <2>1. Resolved(i, TRUE, Rest) /\ TRUE \in BOOLEAN /\ Structure
    BY <1>1, <1>4 DEF Inv
  <2>2. /\ Parted(stack')
        /\ \A j \in Item : Remains(stack', j) => Remains(Rest, j)
        /\ Runners' \subseteq Runners
    BY <1>2, <1>3, <2>1, ResolvedParted
  <2>3. QED
    BY <1>1, <1>3, <2>2, FreshKept
<1>5. CASE ~ EndsAtOnce(i)
  <2>1. Runners' = Runners
    BY <1>1, <1>5 DEF Runners, Running
  <2>2. QED
    BY <1>1, <1>3, <1>5, <2>1, FreshKept
<1>6. QED
  BY <1>4, <1>5

LEMMA PassTimerFresh ==
  ASSUME Inv, FreshInv, PassTimer
  PROVE  FreshInv'
<1>1. /\ Looping /\ Top.i <= Len(timers) /\ stack' = << Stepped >> \o Rest
      /\ item' = item /\ queue' = queue /\ kinds' = kinds
  BY DEF PassTimer
<1>2. stack # << >> /\ Top \in Loop /\ Top.i > 0
  BY <1>1, LoopCurrent DEF Inv
<1>3. /\ Stepped \in Frame
      /\ Stepped.kind = "finish" => Top.kind = "finish" /\ Stepped.old = Top.old
  <2>1. Stepped \in Loop
    BY <1>2, LoopSteps DEF Stepped
  <2>2. QED
    BY <1>2, <2>1 DEF Stepped, Loop, Frame
<1>4. Parted(stack') /\ \A i \in Item : Remains(stack', i) => Remains(stack, i)
  BY <1>1, <1>2, <1>3, TopParted
<1>5. Runners' = Runners
  BY <1>1 DEF Runners, Running
<1>6. QED
  BY <1>1, <1>4, <1>5, FreshKept

\* the timer will be taken out after the callbacks
LEMMA SpliceParted ==
  ASSUME Inv, FreshInv, Looping, Top.i <= Len(timers)
  PROVE  LET rest == << [kind |-> "splice"], Noted >> \o Rest
         IN /\ rest \in Seq(Frame) /\ Parted(rest)
            /\ \A j \in Item : Remains(rest, j) => Remains(stack, j)
<1> DEFINE f == [kind |-> "splice"]
           on == << Noted >> \o Rest
           rest == << f >> \o on
<1>1. stack # << >> /\ Top \in Loop /\ Noted \in Loop
  BY LoopCurrent DEF Inv
<1>2. /\ Noted \in Frame
      /\ Noted.kind = "finish" => Top.kind = "finish" /\ Noted.old = Top.old
  BY <1>1 DEF Noted, Loop, Frame
<1>3. /\ on \in Seq(Frame) /\ Parted(on)
      /\ \A i \in Item : Remains(on, i) => Remains(stack, i)
  BY <1>1, <1>2, TopParted
<1>4. f \in Frame /\ f.kind # "finish"
  BY DEF Frame
<1>5. rest = << f, Noted >> \o Rest
  <2> DEFINE s == Rest
  <2>1. s \in Seq(Frame)
    BY <1>1, RestParted
  <2> HIDE DEF s, f
  <2>2. << f >> \o (<< Noted >> \o s) = << f, Noted >> \o s
    BY <1>2, <1>4, <2>1
  <2>3. QED
    BY <2>2 DEF s
<1> HIDE DEF f, on
<1>6. /\ Parted(rest)
      /\ \A i \in Item : Remains(rest, i) => Remains(on, i)
      /\ rest \in Seq(Frame)
  BY <1>3, <1>4, PartedPushed, PushShape
<1>7. QED
  BY <1>3, <1>5, <1>6 DEF f

LEMMA EndTimerFresh ==
  ASSUME Inv, FreshInv, EndTimer
  PROVE  FreshInv'
<1> DEFINE rest == << [kind |-> "splice"], Noted >> \o Rest
<1>1. /\ Looping /\ Top.i <= Len(timers)
      /\ Resolved(Current, TRUE, rest)
      /\ queue' = queue /\ kinds' = kinds
  BY DEF EndTimer
<1>2. Current \in Item /\ TRUE \in BOOLEAN /\ Structure
  BY <1>1, LoopCurrent DEF Inv
<1>3. /\ rest \in Seq(Frame) /\ Parted(rest)
      /\ \A j \in Item : Remains(rest, j) => Remains(stack, j)
  BY <1>1, SpliceParted
<1> HIDE DEF rest
<1>4. /\ Parted(stack')
      /\ \A j \in Item : Remains(stack', j) => Remains(rest, j)
      /\ Runners' \subseteq Runners
  BY <1>1, <1>2, <1>3, ResolvedParted
<1>5. QED
  BY <1>1, <1>3, <1>4, FreshKept

LEMMA BreakTimerFresh ==
  ASSUME Inv, FreshInv, BreakTimer
  PROVE  FreshInv'
<1> DEFINE rest == << [kind |-> "splice"], Noted >> \o Rest
           c == Current
<1>1. /\ Looping /\ Top.i <= Len(timers)
      /\ item' = [item EXCEPT ![c].halted = TRUE, ![c].state = "rejected"]
      /\ stack' = rest
      /\ queue' = queue /\ kinds' = kinds
  BY DEF BreakTimer
<1>2. /\ Parted(rest)
      /\ \A j \in Item : Remains(rest, j) => Remains(stack, j)
  BY <1>1, SpliceParted
<1> HIDE DEF rest, c
<1>3. Runners' \subseteq Runners
  BY <1>1 DEF Runners, Running, Inv, Structure
<1>4. QED
  BY <1>1, <1>2, <1>3, FreshKept

LEMMA SpliceFresh ==
  ASSUME Inv, FreshInv, Splice
  PROVE  FreshInv'
<1>1. PICK f : f = stack[2]
  OBVIOUS
<1> DEFINE g == [f EXCEPT !.i = @ - 1]
<1>2. /\ stack # << >> /\ stack[1].kind = "splice"
      /\ stack' = << g >> \o Tail(Rest)
      /\ item' = item /\ queue' = queue /\ kinds' = kinds
  BY <1>1 DEF Splice, TopIs, Top
<1>3. /\ stack \in Seq(Frame) /\ Len(stack) \in Nat \ {0} /\ StackOK(stack, inProgress)
  BY <1>2, TailShape DEF Inv, Structure, StackOK
<1>4. f \in Loop /\ f.i > 0 /\ 2 \in 1 .. Len(stack)
  <2>1. 1 \in 1 .. Len(stack) /\ 1 + 1 = 2
    BY <1>3
  <2>2. 1 < Len(stack) /\ IsLoop(stack[2]) /\ stack[2].i > 0
    BY <1>2, <1>3, <2>1 DEF StackOK
  <2>3. 2 \in 1 .. Len(stack)
    BY <1>3, <2>2
  <2>4. stack[2] \in Frame
    BY <1>3, <2>3, ElementOfSeq
  <2>5. QED
    BY <1>1, <2>2, <2>3, <2>4, FrameParts
<1>5. g \in Frame /\ (g.kind = "finish" => f.kind = "finish" /\ g.old = f.old)
  <2>1. g \in Loop
    BY <1>4, LoopSteps
  <2>2. QED
    BY <1>4, <2>1 DEF Loop, Frame
<1> HIDE DEF g
<1>6. /\ Rest \in Seq(Frame) /\ Parted(Rest)
      /\ \A j \in Item : Remains(Rest, j) => Remains(stack, j)
  BY <1>2, RestParted
<1>7. Rest # << >> /\ Rest[1] = f
  <2>1. /\ Len(Rest) = Len(stack) - 1
        /\ \A m \in 1 .. Len(stack) - 1 : Rest[m] = stack[m + 1]
    BY <1>2, <1>3, TailShape DEF Rest
  <2>2. 1 \in 1 .. Len(stack) - 1 /\ 1 + 1 = 2
    BY <1>3, <1>4
  <2>3. Rest[1] = stack[2]
    BY <2>1, <2>2
  <2>4. Rest # << >>
    BY <2>1, <2>2
  <2>5. QED
    BY <1>1, <2>3, <2>4
<1>8. PICK r : r = Rest
  OBVIOUS
<1>9. /\ r \in Seq(Frame) /\ r # << >> /\ Parted(r) /\ r[1] = f
      /\ \A j \in Item : Remains(r, j) => Remains(stack, j)
  BY <1>6, <1>7, <1>8
<1>10. /\ Parted(Tail(r)) /\ Tail(r) \in Seq(Frame)
       /\ \A j \in Item : Remains(Tail(r), j) => Remains(r, j)
       /\ f.kind = "finish" =>
             /\ Once(f.old)
             /\ \A i \in Item : Awaits(f.old, i) => Remains(r, i) /\ ~ Remains(Tail(r), i)
  BY <1>9, PartedPopped, TailShape
<1>11. g.kind = "finish" =>
           /\ Once(g.old)
           /\ \A i \in Item : Awaits(g.old, i) => Remains(r, i) /\ ~ Remains(Tail(r), i)
  BY <1>5, <1>10
<1>12. /\ Parted(<< g >> \o Tail(r))
       /\ \A i \in Item : Remains(<< g >> \o Tail(r), i)
                              <=> Remains(Tail(r), i) \/ (g.kind = "finish" /\ Awaits(g.old, i))
  BY <1>5, <1>10, <1>11, PartedPushed
<1>13. Parted(stack') /\ \A i \in Item : Remains(stack', i) => Remains(stack, i)
  BY <1>2, <1>8, <1>9, <1>10, <1>11, <1>12
<1>14. Runners' = Runners
  BY <1>2 DEF Runners, Running
<1>15. QED
  BY <1>2, <1>13, <1>14, FreshKept

LEMMA FreshStutter ==
  ASSUME Inv, FreshInv, UNCHANGED vars
  PROVE  FreshInv'
<1>1. UNCHANGED << queue, kinds, item, stack >>
  BY DEF vars
<1>2. Runners' = Runners
  BY <1>1 DEF Runners, Running
<1>3. QED
  BY <1>1, <1>2 DEF FreshInv

LEMMA FreshStep == Inv /\ FreshInv /\ [Next]_vars => FreshInv'
<1> SUFFICES ASSUME Inv, FreshInv, [Next]_vars PROVE FreshInv'
  OBVIOUS
<1>1. CASE Run
  BY <1>1, TickOnFresh, TickLastFresh, TickedFresh, PlainFresh, LaunchFresh, PassTimerFresh,
     EndTimerFresh, BreakTimerFresh, SpliceFresh, StopEndsFresh, FinishOldFresh,
     Zenon DEF Run
<1>2. CASE User
  BY <1>2, EnqueueFresh, SkipFresh, PlainFresh, FinishFresh, StopFresh, Zenon DEF User
<1>3. CASE Return \/ Browser
  BY <1>3, ReturnFresh, ScheduleFresh, TimeoutFresh, Zenon DEF Browser
<1>4. CASE UNCHANGED vars
  BY <1>4, FreshStutter
<1>5. QED
  BY <1>1, <1>2, <1>3, <1>4 DEF Next

LEMMA FxInvHolds == Spec => [](Inv /\ FreshInv)
  BY FxInit, FreshInit, FxStep, FreshStep, PTL DEF Spec

(* Whatever is shown, hidden, toggled, stopped half way and started again, *)
(* for any number of animations, calls and nested callbacks, the size that *)
(* the original style came to is kept and comes back, and the original     *)
(* style itself if no animation was stopped half way.                      *)
\* jquery-3.6.1.js:7397-7420, 7470-7528
THEOREM OriginalComesBackHolds == Spec => []OriginalComesBack
<1>1. StyleInv => OriginalComesBack
  <2> SUFFICES ASSUME StyleInv, ~ spoilt
               PROVE  IF fxshow # None THEN fxshow.value = "fixed" ELSE Original(value)
    BY DEF OriginalComesBack, Original
  <2>1. \/ fxshow = None /\ Original(value)
        \/ fxshow \in [value : {"fixed"}, hidden : BOOLEAN \cup {None}]
    BY DEF StyleInv
  <2>2. QED
    BY <2>1, FxAssumption DEF Kept, Style
<1>2. Inv => OriginalComesBack
  BY <1>1 DEF Inv
<1>3. QED
  BY <1>2, FxInvHolds, PTL

(* As long as there are timers frames are requested, and each animation    *)
(* that runs is among them: no loop takes out one in place of another.     *)
\* jquery-3.6.1.js:7304-7325, 7841-7851, 7924-7966
THEOREM AnimationsGoOnHolds == Spec => []AnimationsGoOn
<1>1. Inv => AnimationsGoOn
  BY DEF Inv, Structure, GoInv, GoOn, Runners, AnimationsGoOn, AtRest
<1>2. QED
  BY <1>1, FxInvHolds, PTL

-----------------------------------------------------------------------------
(* The sentinel *)

\* the elements of a sequence
Members(s) == {s[k] : k \in 1 .. Len(s)}

HasSentinel(q) == q # << >> /\ Head(q) = Sentinel

\* a callback after which the queue moves on
IsCall(f, ks) == f.kind = "complete" /\ Waits(ks[f.of])
Calm(s, ks) == \A k \in 1 .. Len(s) : ~ IsCall(s[k], ks)
OneCall(s, ks) ==
    \E k \in 1 .. Len(s) :
        IsCall(s[k], ks) /\ \A l \in 1 .. Len(s) : IsCall(s[l], ks) => l = k

Single(U) == \E i \in U : U = {i}

\* animations of the queue that run
Carried == {i \in 1 .. Len(kinds) : Running(i) /\ kinds[i] # Delay /\ Waits(kinds[i])}

\* the sentinel stands for what is under way, or for its callback
Balanced(q, U, s, ks) ==
    IF HasSentinel(q) THEN (Single(U) /\ Calm(s, ks)) \/ (U = {} /\ OneCall(s, ks))
                      ELSE U = {} /\ Calm(s, ks)

Even == Balanced(queue, delays \cup Carried, stack, kinds)

\* a stop() after which the queue moves on
Moving(f) == f.kind = "stop" /\ MovesOn(f)

\* the loop g will come to i, when frames are what the stack has
Due(i, g, frames, seq) ==
    \E m \in 1 .. Len(seq) :
        /\ m <= (IF \E h \in frames : h.kind = "splice" THEN g.i - 1 ELSE g.i)
        /\ seq[m] = i

\* what is in q, but for the sentinel, was made, and for the queue
Made(q, ks) == \A i \in Members(q) : i # Sentinel => i <= Len(ks) /\ Waits(ks[i])

(* What waits, runs or is called back has been made, for the queue where it *)
(* comes from there; and the hooks know the delay that is pending.          *)
Known ==
    /\ DOMAIN hooks = {"on", "stop", "unqueued"}
    /\ Made(queue, kinds)
    /\ \A i \in Item : Running(i) => i <= Len(kinds) /\ kinds[i] # Delay
    /\ \A i \in delays : i \in Item /\ i <= Len(kinds) /\ kinds[i] = Delay
    /\ delays \subseteq {hooks.stop}
    /\ \A g \in Members(stack) :
         /\ g.kind = "complete" => g.of <= Len(kinds)
         /\ g.kind = "finish" => Made(g.old, kinds)

(* A loop that has timers to come is not within a frame, and they are there: *)
(* it never crashes.                                                        *)
LoopsFit ==
    \A g \in Members(stack) : IsLoop(g) /\ g.i > 0 =>
        g.i <= Len(timers) /\ \A h \in Members(stack) : ~ IsTick(h)

(* finish() has emptied the queue and comes to each animation of it, or    *)
(* ends it as soon as it is made.                                          *)
Finishes ==
    /\ finishing <=> \E g \in Members(stack) : g.kind = "finish"
    /\ finishing => queue = << >> /\ delays = {}
    /\ \A g \in Members(stack) : g.kind = "finish" =>
          \A i \in Carried : \/ Due(i, g, Members(stack), timers)
                             \/ \E h \in Members(stack) : h.kind = "launch" /\ h.of = i

(* A stop() that will move the queue on has stopped what was under way, or *)
(* comes to it.                                                            *)
Stops ==
    \A g \in Members(stack) : Moving(g) =>
        /\ \A h \in Members(stack) : h = g \/ h.kind = "splice"
        /\ delays = {}
        /\ \A i \in Runners : Due(i, g, Members(stack), timers)
        /\ IF HasSentinel(queue) THEN g.toEnd => Single(Carried) \/ Runners = {}
                                 ELSE Carried = {}

(* Strengthens SentinelIsTrue.                                             *)
Sent ==
    /\ Known
    /\ LoopsFit
    /\ Finishes
    /\ Stops
    /\ ~ finishing /\ (\A g \in Members(stack) : ~ Moving(g)) => Even

SentInv == ~ meddled /\ ~ hurried => Sent

-----------------------------------------------------------------------------
(* What a sequence has, and the callbacks among the frames *)

LEMMA MembersPushed ==
  ASSUME NEW S, NEW x \in S, NEW s \in Seq(S)
  PROVE  Members(<< x >> \o s) = {x} \cup Members(s)
<1> DEFINE t == << x >> \o s
<1>1. /\ Len(s) \in Nat /\ Len(t) = Len(s) + 1 /\ t[1] = x
      /\ \A k \in 2 .. Len(s) + 1 : t[k] = s[k - 1]
  BY PushShape, LenProperties
<1> HIDE DEF t
<1>2. \A k \in 1 .. Len(t) : k = 1 \/ (k - 1 \in 1 .. Len(s) /\ t[k] = s[k - 1])
  BY <1>1
<1>3. ASSUME NEW k \in 1 .. Len(s)  PROVE s[k] \in Members(t)
  <2>1. k + 1 \in 1 .. Len(t) /\ t[k + 1] = s[k + 1 - 1] /\ k + 1 - 1 = k
    BY <1>1
  <2>2. QED
    BY <2>1 DEF Members
<1>4. x \in Members(t)
  BY <1>1 DEF Members
<1>5. Members(t) \subseteq {x} \cup Members(s)
  BY <1>1, <1>2 DEF Members
<1>6. QED
  BY <1>3, <1>4, <1>5 DEF Members, t

LEMMA MembersPopped ==
  ASSUME NEW S, NEW s \in Seq(S), s # << >>
  PROVE  /\ Members(s) = {s[1]} \cup Members(Tail(s))
         /\ Head(s) = s[1]
         /\ Head(s) \in Members(s)
<1> DEFINE t == Tail(s)
<1>1. /\ Len(s) \in Nat \ {0} /\ Len(t) = Len(s) - 1
      /\ \A k \in 1 .. Len(s) - 1 : t[k] = s[k + 1]
  BY TailShape
<1>2. Head(s) = s[1]
  BY HeadTailProperties
<1> HIDE DEF t
<1>3. ASSUME NEW k \in 1 .. Len(s)  PROVE s[k] \in {s[1]} \cup Members(t)
  <2>1. CASE k # 1
    <3>1. k - 1 \in 1 .. Len(t) /\ t[k - 1] = s[k - 1 + 1] /\ k - 1 + 1 = k
      BY <1>1, <2>1
    <3>2. QED
      BY <3>1 DEF Members
  <2>2. QED
    BY <2>1
<1>4. ASSUME NEW k \in 1 .. Len(t)  PROVE t[k] \in Members(s)
  <2>1. k + 1 \in 1 .. Len(s) /\ t[k] = s[k + 1]
    BY <1>1
  <2>2. QED
    BY <2>1 DEF Members
<1>5. s[1] \in Members(s)
  BY <1>1 DEF Members
<1>6. QED
  BY <1>2, <1>3, <1>4, <1>5 DEF Members, t

LEMMA MembersEmpty == Members(<< >>) = {}
  BY DEF Members

LEMMA MembersAppended ==
  ASSUME NEW S, NEW x \in S, NEW s \in Seq(S)
  PROVE  Members(Append(s, x)) = Members(s) \cup {x}
<1> DEFINE t == Append(s, x)
<1>1. /\ Len(s) \in Nat /\ Len(t) = Len(s) + 1 /\ t[Len(s) + 1] = x
      /\ \A k \in 1 .. Len(s) : t[k] = s[k]
  BY AppendProperties, LenProperties
<1> HIDE DEF t
<1>2. ASSUME NEW k \in 1 .. Len(t)  PROVE t[k] \in Members(s) \cup {x}
  <2>1. k = Len(s) + 1 \/ k \in 1 .. Len(s)
    BY <1>1
  <2>2. QED
    BY <1>1, <2>1 DEF Members
<1>3. ASSUME NEW k \in 1 .. Len(s)  PROVE s[k] \in Members(t)
  <2>1. k \in 1 .. Len(t) /\ t[k] = s[k]
    BY <1>1
  <2>2. QED
    BY <2>1 DEF Members
<1>4. x \in Members(t)
  <2>1. Len(s) + 1 \in 1 .. Len(t)
    BY <1>1
  <2>2. QED
    BY <1>1, <2>1 DEF Members
<1>5. QED
  BY <1>2, <1>3, <1>4 DEF Members, t

LEMMA MembersTyped ==
  ASSUME NEW S, NEW s \in Seq(S)
  PROVE  Members(s) \subseteq S
  BY ElementOfSeq DEF Members

LEMMA CalmSet ==
  ASSUME NEW s, NEW ks
  PROVE  /\ Calm(s, ks) <=> \A g \in Members(s) : ~ IsCall(g, ks)
         /\ Calm(s, ks) => ~ OneCall(s, ks)
  BY DEF Calm, Members, OneCall

LEMMA CallPushed ==
  ASSUME NEW S, NEW f \in S, NEW s \in Seq(S), NEW ks
  PROVE  /\ ~ IsCall(f, ks) => /\ Calm(s, ks) => Calm(<< f >> \o s, ks)
                               /\ OneCall(s, ks) => OneCall(<< f >> \o s, ks)
         /\ IsCall(f, ks) /\ Calm(s, ks) => OneCall(<< f >> \o s, ks)
<1> DEFINE t == << f >> \o s
<1>1. /\ Len(s) \in Nat /\ Len(t) = Len(s) + 1 /\ t[1] = f
      /\ \A k \in 2 .. Len(s) + 1 : t[k] = s[k - 1]
  BY PushShape, LenProperties
<1> HIDE DEF t
<1>2. \A k \in 1 .. Len(t) : k = 1 \/ (k - 1 \in 1 .. Len(s) /\ t[k] = s[k - 1])
  BY <1>1
<1>3. ~ IsCall(f, ks) /\ Calm(s, ks) => Calm(t, ks)
  BY <1>1, <1>2 DEF Calm
<1>4. ASSUME ~ IsCall(f, ks), OneCall(s, ks)  PROVE OneCall(t, ks)
  <2>1. PICK k \in 1 .. Len(s) :
           IsCall(s[k], ks) /\ \A l \in 1 .. Len(s) : IsCall(s[l], ks) => l = k
    BY <1>4 DEF OneCall
  <2>2. k + 1 \in 1 .. Len(t) /\ t[k + 1] = s[k + 1 - 1] /\ k + 1 - 1 = k
    BY <1>1
  <2>3. ASSUME NEW l \in 1 .. Len(t), IsCall(t[l], ks)  PROVE l = k + 1
    <3>1. l # 1
      BY <1>1, <1>4, <2>3
    <3>2. l - 1 \in 1 .. Len(s) /\ IsCall(s[l - 1], ks)
      BY <1>2, <2>3, <3>1
    <3>3. l - 1 = k
      BY <2>1, <3>2
    <3>4. QED
      BY <3>3
  <2>4. IsCall(t[k + 1], ks)
    BY <2>1, <2>2
  <2>5. QED
    BY <2>2, <2>3, <2>4 DEF OneCall
<1>5. ASSUME IsCall(f, ks), Calm(s, ks)  PROVE OneCall(t, ks)
  <2>1. 1 \in 1 .. Len(t) /\ IsCall(t[1], ks)
    BY <1>1, <1>5
  <2>2. \A l \in 1 .. Len(t) : IsCall(t[l], ks) => l = 1
    BY <1>2, <1>5 DEF Calm
  <2>3. QED
    BY <2>1, <2>2 DEF OneCall
<1>6. QED
  BY <1>3, <1>4, <1>5 DEF t

LEMMA CallPopped ==
  ASSUME NEW S, NEW s \in Seq(S), s # << >>, NEW ks
  PROVE  /\ Calm(s, ks) => Calm(Tail(s), ks)
         /\ OneCall(s, ks) => IF IsCall(s[1], ks) THEN Calm(Tail(s), ks)
                                                  ELSE OneCall(Tail(s), ks)
<1> DEFINE t == Tail(s)
<1>1. /\ Len(s) \in Nat \ {0} /\ Len(t) = Len(s) - 1
      /\ \A k \in 1 .. Len(s) - 1 : t[k] = s[k + 1]
  BY TailShape
<1> HIDE DEF t
<1>2. \A k \in 1 .. Len(t) : k + 1 \in 1 .. Len(s) /\ t[k] = s[k + 1]
  BY <1>1
<1>3. Calm(s, ks) => Calm(t, ks)
  BY <1>2 DEF Calm
<1>4. ASSUME OneCall(s, ks), IsCall(s[1], ks)  PROVE Calm(t, ks)
  <2>1. \A l \in 1 .. Len(s) : IsCall(s[l], ks) => l = 1
    BY <1>1, <1>4 DEF OneCall
  <2>2. ASSUME NEW k \in 1 .. Len(t), IsCall(t[k], ks)  PROVE FALSE
    <3>1. k + 1 = 1
      BY <1>2, <2>1, <2>2
    <3>2. QED
      BY <3>1
  <2>3. QED
    BY <2>2 DEF Calm
<1>5. ASSUME OneCall(s, ks), ~ IsCall(s[1], ks)  PROVE OneCall(t, ks)
  <2>1. PICK k \in 1 .. Len(s) :
           IsCall(s[k], ks) /\ \A l \in 1 .. Len(s) : IsCall(s[l], ks) => l = k
    BY <1>5 DEF OneCall
  <2>2. k # 1
    BY <1>5, <2>1
  <2>3. k - 1 \in 1 .. Len(t) /\ t[k - 1] = s[k - 1 + 1] /\ k - 1 + 1 = k
    BY <1>1, <2>2
  <2>4. ASSUME NEW l \in 1 .. Len(t), IsCall(t[l], ks)  PROVE l = k - 1
    <3>1. l + 1 = k
      BY <1>2, <2>1, <2>4
    <3>2. QED
      BY <3>1
  <2>5. IsCall(t[k - 1], ks)
    BY <2>1, <2>3
  <2>6. QED
    BY <2>3, <2>4, <2>5 DEF OneCall
<1>6. QED
  BY <1>3, <1>4, <1>5 DEF t

LEMMA BalancedPushed ==
  ASSUME NEW S, NEW f \in S, NEW s \in Seq(S), NEW ks, NEW q, NEW U,
         ~ IsCall(f, ks), Balanced(q, U, s, ks)
  PROVE  Balanced(q, U, << f >> \o s, ks)
  BY CallPushed DEF Balanced

LEMMA BalancedPopped ==
  ASSUME NEW S, NEW s \in Seq(S), s # << >>, NEW ks, NEW q, NEW U,
         ~ IsCall(s[1], ks), Balanced(q, U, s, ks)
  PROVE  Balanced(q, U, Tail(s), ks)
  BY CallPopped DEF Balanced

LEMMA BalancedEmpty ==
  ASSUME NEW ks, NEW q, NEW U
  PROVE  Balanced(q, U, << >>, ks) <=> IF HasSentinel(q) THEN Single(U) ELSE U = {}
  BY DEF Balanced, Calm, OneCall

\* what runs ends, and its callback is called
LEMMA BalancedEnded ==
  ASSUME NEW S, NEW f \in S, NEW s \in Seq(S), NEW ks, NEW q, NEW U, NEW i \in U,
         IsCall(f, ks), Balanced(q, U, s, ks)
  PROVE  U = {i} /\ Balanced(q, {}, << f >> \o s, ks)
<1>1. HasSentinel(q) /\ Single(U) /\ Calm(s, ks)
  BY DEF Balanced
<1>2. OneCall(<< f >> \o s, ks)
  BY <1>1, CallPushed
<1>3. U = {i}
  BY <1>1 DEF Single
<1>4. QED
  BY <1>1, <1>2, <1>3 DEF Balanced

-----------------------------------------------------------------------------
(* What of the queue runs *)

LEMMA CarriedIs ==
  ASSUME Waiting, Known
  PROVE  Carried = {i \in Item : Running(i) /\ Waits(kinds[i])}
<1>1. Len(kinds) \in Nat /\ Len(kinds) <= MaxItems /\ MaxItems \in Nat
  BY LenProperties, FxAssumption DEF Waiting
<1>2. 1 .. Len(kinds) \subseteq Item
  BY <1>1 DEF Item
<1>3. \A i \in Item : Running(i) => i \in 1 .. Len(kinds) /\ kinds[i] # Delay
  BY <1>1 DEF Known, Item
<1>4. QED
  BY <1>2, <1>3 DEF Carried

LEMMA DelaysAreNotCarried ==
  ASSUME Known
  PROVE  delays \cap Carried = {}
  BY DEF Known, Carried

LEMMA CarriedShrinks ==
  ASSUME kinds' = kinds, Waiting, \A i \in Item : Running(i)' => Running(i)
  PROVE  Carried' \subseteq Carried
<1>1. Len(kinds) \in Nat /\ Len(kinds) <= MaxItems /\ MaxItems \in Nat
  BY LenProperties, FxAssumption DEF Waiting
<1>2. 1 .. Len(kinds) \subseteq Item
  BY <1>1 DEF Item
<1>3. QED
  BY <1>2 DEF Carried

LEMMA StackMembers ==
  ASSUME Structure, stack # << >>
  PROVE  /\ stack \in Seq(Frame) /\ Rest \in Seq(Frame)
         /\ Top \in Frame /\ Top \in Members(stack)
         /\ Members(stack) = {Top} \cup Members(Rest)
         /\ Members(stack) \subseteq Frame
<1>1. stack \in Seq(Frame)
  BY DEF Structure, StackOK
<1>2. Rest \in Seq(Frame)
  BY <1>1, TailShape DEF Rest
<1>3. Members(stack) = {Top} \cup Members(Rest) /\ Top \in Members(stack)
  BY <1>1, MembersPopped DEF Rest, Top
<1>4. QED
  BY <1>1, <1>2, <1>3, MembersTyped

\* no stop() is about to move the queue on while another call is under way
LEMMA NoneMoves ==
  ASSUME Stops, stack # << >>, Structure, ~ Moving(Top), Top.kind # "splice"
  PROVE  \A g \in Members(stack) : ~ Moving(g)
  BY StackMembers DEF Stops

LEMMA LoopsNatural ==
  ASSUME NEW g \in Frame, IsLoop(g)
  PROVE  g.i \in Nat
<1>1. g \in Loop
  BY FrameParts
<1>2. QED
  BY <1>1 DEF Loop

LEMMA NotDue ==
  ASSUME NEW g \in Frame, IsLoop(g), g.i = 0, NEW frames, NEW seq, NEW i
  PROVE  ~ Due(i, g, frames, seq)
  BY DEF Due

-----------------------------------------------------------------------------
(* The sentinel: the frames *)

LEMMA TickSent ==
  ASSUME Structure, Waiting, Sent, stack # << >>, IsTick(Top),
         Members(Rest) \subseteq Members(stack'),
         \A h \in Members(stack') : \/ h \in Members(Rest)
                                    \/ h.kind \in {"tick", "ticked"}
                                    \/ h.kind = "complete" /\ h.of <= Len(kinds),
         \A i \in Item : Running(i)' => Running(i),
         UNCHANGED << queue, delays, finishing, kinds, hooks >>,
         Balanced(queue, delays \cup Carried, Rest, kinds) => Even'
  PROVE  Sent'
<1>1. /\ stack \in Seq(Frame) /\ Top \in Members(stack)
      /\ Members(stack) = {Top} \cup Members(Rest)
      /\ Members(stack) \subseteq Frame
  BY StackMembers
<1>2. Top.kind \in {"tick", "ticked"} /\ Known /\ LoopsFit /\ Finishes /\ Stops
  BY DEF IsTick, Sent
<1>3. \A g \in Members(stack) : IsLoop(g) => g.i = 0
  BY <1>1, <1>2, LoopsNatural DEF LoopsFit
<1>4. \A g \in Members(stack) : ~ Moving(g)
  BY <1>2, NoneMoves DEF Moving
<1>5. Carried' \subseteq Carried
  BY CarriedShrinks
<1>6. Known'
  <2>1. \A g \in Members(stack') :
         /\ g.kind = "complete" => g.of <= Len(kinds)
         /\ g.kind = "finish" => Made(g.old, kinds)
    BY <1>1, <1>2 DEF Known
  <2>2. QED
    BY <1>2, <2>1 DEF Known
<1>7. \A g \in Members(stack') : IsLoop(g) => g.i = 0 /\ g \in Members(Rest)
  BY <1>1, <1>3 DEF IsLoop
<1>8. \A g \in Members(stack') : ~ Moving(g)
  BY <1>1, <1>4 DEF Moving
<1>9. LoopsFit'
  BY <1>7 DEF LoopsFit
<1>10. Finishes'
  <2>1. \A g \in Members(stack') : g.kind = "finish" => g \in Members(Rest)
    BY <1>7 DEF IsLoop
  <2>2. finishing' <=> \E g \in Members(stack') : g.kind = "finish"
    BY <1>1, <1>2, <2>1 DEF Finishes
  <2>3. ASSUME NEW g \in Members(stack'), g.kind = "finish", NEW i \in Carried'
        PROVE  \E h \in Members(stack') : h.kind = "launch" /\ h.of = i
    <3>1. g \in Members(stack) /\ IsLoop(g) /\ g.i = 0 /\ g \in Frame
      BY <1>1, <1>7, <2>3 DEF IsLoop
    <3>2. ~ Due(i, g, Members(stack), timers)
      BY <3>1, NotDue
    <3>3. i \in Carried
      BY <1>5, <2>3
    <3>4. PICK h \in Members(stack) : h.kind = "launch" /\ h.of = i
      BY <1>2, <2>3, <3>1, <3>2, <3>3 DEF Finishes
    <3>5. h \in Members(stack')
      BY <1>1, <1>2, <3>4
    <3>6. QED
      BY <3>4, <3>5
  <2>4. finishing' => queue' = << >> /\ delays' = {}
    BY <1>2 DEF Finishes
  <2>5. QED
    BY <2>2, <2>3, <2>4 DEF Finishes
<1>11. Stops'
  BY <1>8 DEF Stops
<1>12. ~ finishing => Even'
  <2>1. SUFFICES ASSUME ~ finishing  PROVE Balanced(queue, delays \cup Carried, Rest, kinds)
    OBVIOUS
  <2>2. Even
    BY <1>4, <2>1 DEF Sent
  <2>3. QED
    BY <1>1, <1>2, <2>2, BalancedPopped DEF Even, IsCall, Top, Rest
<1>13. QED
  BY <1>6, <1>9, <1>10, <1>11, <1>12 DEF Sent

\* the end of an animation, in a frame or by a loop
LEMMA ResolvedCarried ==
  ASSUME Structure, Waiting, Known, NEW i \in Item, NEW halted \in BOOLEAN, NEW rest,
         Resolved(i, halted, rest), kinds' = kinds
  PROVE  /\ Carried' = Carried \ {i}
         /\ Runners' = Runners \ {i}
         /\ \A j \in Item : Running(j)' => Running(j)
         /\ IF Running(i) THEN stack' = << [kind |-> "complete", of |-> i] >> \o rest
                          ELSE stack' = rest
         /\ Running(i) /\ Waits(kinds[i]) => i \in Carried
         /\ Running(i) => i <= Len(kinds)
<1>1. /\ DOMAIN item = Item /\ DOMAIN item[i] = Fields
  BY DEF Structure
<1>2. item' = [item EXCEPT ![i].halted = halted,
                              ![i].state = IF Running(i) THEN "resolved" ELSE @]
  BY DEF Resolved
<1>3. /\ \A j \in Item : j # i => item'[j] = item[j]
      /\ item'[i].state # "running"
  BY <1>1, <1>2 DEF Running, Fields
<1>4. Runners' = Runners \ {i} /\ \A j \in Item : Running(j)' => Running(j)
  BY <1>3 DEF Runners, Running
<1>5. Carried = {j \in Item : Running(j) /\ Waits(kinds[j])}
  BY CarriedIs
<1>6. Len(kinds) \in Nat /\ Len(kinds) <= MaxItems /\ MaxItems \in Nat
  BY LenProperties, FxAssumption DEF Waiting
<1>7. 1 .. Len(kinds) \subseteq Item
  BY <1>6 DEF Item
<1>8. Carried' = Carried \ {i}
  BY <1>3, <1>7 DEF Carried, Running
<1>9. IF Running(i) THEN stack' = << [kind |-> "complete", of |-> i] >> \o rest
                          ELSE stack' = rest
  <2>1. CASE Running(i)
    BY <2>1 DEF Resolved
  <2>2. CASE ~ Running(i)
    <3>1. stack' = << >> \o rest
      BY <2>2 DEF Resolved
    <3>2. QED
      BY <2>2, <3>1
  <2>3. QED
    BY <2>1, <2>2
<1>10. QED
  BY <1>4, <1>5, <1>8, <1>9 DEF Known

LEMMA ResolvedEven ==
  ASSUME Structure, Waiting, Known, NEW i \in Item, NEW halted \in BOOLEAN, NEW rest \in Seq(Frame),
         Resolved(i, halted, rest), UNCHANGED << queue, delays, kinds >>,
         Balanced(queue, delays \cup Carried, rest, kinds)
  PROVE  Even'
<1> DEFINE f == [kind |-> "complete", of |-> i]
<1>1. /\ Carried' = Carried \ {i}
      /\ IF Running(i) THEN stack' = << f >> \o rest ELSE stack' = rest
      /\ Running(i) /\ Waits(kinds[i]) => i \in Carried
  BY ResolvedCarried
<1>2. f \in Frame /\ (IsCall(f, kinds) <=> Waits(kinds[i]))
  BY DEF Frame, Call, IsCall
<1>3. ~ Running(i) => i \notin Carried
  BY DEF Carried
<1>4. ~ Waits(kinds[i]) => i \notin Carried
  BY DEF Carried
<1> HIDE DEF f
<1>5. CASE ~ Running(i)
  <2>1. Carried' = Carried /\ stack' = rest
    BY <1>1, <1>3, <1>5
  <2>2. QED
    BY <2>1 DEF Even
<1>6. CASE Running(i) /\ ~ Waits(kinds[i])
  <2>1. Carried' = Carried /\ stack' = << f >> \o rest
    BY <1>1, <1>4, <1>6
  <2>2. Balanced(queue, delays \cup Carried, << f >> \o rest, kinds)
    BY <1>2, <1>6, BalancedPushed
  <2>3. QED
    BY <2>1, <2>2 DEF Even
<1>7. CASE Running(i) /\ Waits(kinds[i])
  <2>1. i \in delays \cup Carried
    BY <1>1, <1>7
  <2>2. /\ delays \cup Carried = {i}
        /\ Balanced(queue, {}, << f >> \o rest, kinds)
    BY <1>2, <1>7, <2>1, BalancedEnded
  <2>3. i \notin delays
    BY <1>1, <1>7, DelaysAreNotCarried
  <2>4. delays' \cup Carried' = {} /\ stack' = << f >> \o rest
    BY <1>1, <1>7, <2>2, <2>3
  <2>5. QED
    BY <2>2, <2>4 DEF Even
<1>8. QED
  BY <1>5, <1>6, <1>7

LEMMA TickOnSent ==
  ASSUME Structure, Waiting, Sent, TickOn
  PROVE  Sent'
<1> DEFINE f == [Top EXCEPT !.i = @ + 1]
<1>1. /\ stack # << >> /\ IsTick(Top) /\ Top \in [kind : {"tick"}, i : Nat \ {0}]
      /\ Current \in Item
  BY TickCurrent DEF TickOn
<1>2. f.kind = "tick" /\ f \in Frame
  BY <1>1 DEF Frame, Tick
<1>3. /\ stack' = << f >> \o Rest
      /\ item' = [item EXCEPT ![Current].left = @ - 1]
      /\ UNCHANGED << queue, delays, finishing, kinds, hooks, timers >>
  BY DEF TickOn, engine
<1>4. \A i \in Item : Running(i)' <=> Running(i)
  <2>1. DOMAIN item = Item /\ DOMAIN item[Current] = Fields
    BY <1>1 DEF Structure
  <2>2. QED
    BY <1>1, <1>3, <2>1 DEF Running, Fields
<1> HIDE DEF f
<1>5. Rest \in Seq(Frame)
  BY <1>1, StackMembers
<1>6. Members(stack') = {f} \cup Members(Rest)
  BY <1>2, <1>3, <1>5, MembersPushed
<1>7. Carried' = Carried
  <2>1. Len(kinds) \in Nat /\ Len(kinds) <= MaxItems /\ MaxItems \in Nat
    BY LenProperties, FxAssumption DEF Waiting
  <2>2. 1 .. Len(kinds) \subseteq Item
    BY <2>1 DEF Item
  <2>3. QED
    BY <1>3, <1>4, <2>2 DEF Carried
<1>8. Balanced(queue, delays \cup Carried, Rest, kinds) => Even'
  <2>1. ~ IsCall(f, kinds)
    BY <1>2 DEF IsCall
  <2>2. QED
    BY <1>2, <1>3, <1>5, <1>7, <2>1, BalancedPushed DEF Even
<1>9. QED
  BY <1>1, <1>2, <1>3, <1>4, <1>6, <1>8, TickSent

LEMMA TickLastSent ==
  ASSUME Structure, Waiting, Sent, TickLast
  PROVE  Sent'
<1> DEFINE f == [kind |-> "ticked", i |-> Top.i, of |-> Current]
           ticked == << f >> \o Rest
           g == [kind |-> "complete", of |-> Current]
<1>1. /\ stack # << >> /\ IsTick(Top) /\ Top \in [kind : {"tick"}, i : Nat \ {0}]
      /\ Current \in Item
  BY TickCurrent DEF TickLast
<1>2. f.kind = "ticked" /\ f \in Frame /\ g \in Frame /\ g.kind = "complete" /\ g.of = Current
  BY <1>1 DEF Frame, Tick, Call
<1>3. /\ IF item[Current].halted THEN stack' = ticked /\ item' = item
                                 ELSE Resolved(Current, FALSE, ticked)
      /\ UNCHANGED << queue, delays, finishing, kinds, hooks, timers >>
  BY DEF TickLast, engine
<1> HIDE DEF f, g
<1>4. Rest \in Seq(Frame)
  BY <1>1, StackMembers
<1>5. ticked \in Seq(Frame) /\ Members(ticked) = {f} \cup Members(Rest)
  BY <1>2, <1>4, MembersPushed, PushShape
<1>6. Balanced(queue, delays \cup Carried, Rest, kinds)
        => Balanced(queue, delays \cup Carried, ticked, kinds)
  <2>1. ~ IsCall(f, kinds)
    BY <1>2 DEF IsCall
  <2>2. QED
    BY <1>2, <1>4, <2>1, BalancedPushed
<1> HIDE DEF ticked
<1>7. CASE item[Current].halted
  <2>1. stack' = ticked /\ item' = item
    BY <1>3, <1>7
  <2>2. Carried' = Carried /\ \A i \in Item : Running(i)' => Running(i)
    BY <1>3, <2>1 DEF Carried, Running
  <2>3. Balanced(queue, delays \cup Carried, Rest, kinds) => Even'
    BY <1>3, <1>6, <2>1, <2>2 DEF Even
  <2>4. Members(stack') = {f} \cup Members(Rest)
    BY <1>5, <2>1
  <2>5. QED
    BY <1>1, <1>2, <1>3, <2>2, <2>3, <2>4, TickSent
<1>8. CASE ~ item[Current].halted
  <2>1. Resolved(Current, FALSE, ticked) /\ Known
    BY <1>3, <1>8 DEF Sent
  <2>2. /\ \A i \in Item : Running(i)' => Running(i)
        /\ IF Running(Current) THEN stack' = << g >> \o ticked ELSE stack' = ticked
        /\ Running(Current) => Current <= Len(kinds)
    BY <1>1, <1>3, <2>1, ResolvedCarried DEF g
  <2>3. Balanced(queue, delays \cup Carried, Rest, kinds) => Even'
    BY <1>1, <1>3, <1>5, <1>6, <2>1, ResolvedEven
  <2>4. /\ Members(Rest) \subseteq Members(stack')
        /\ \A h \in Members(stack') : \/ h \in Members(Rest)
                                      \/ h.kind \in {"tick", "ticked"}
                                      \/ h.kind = "complete" /\ h.of <= Len(kinds)
    <3>1. CASE Running(Current)
      <4>1. stack' = << g >> \o ticked
        BY <2>2, <3>1
      <4>2. Members(<< g >> \o ticked) = {g} \cup Members(ticked)
        BY <1>2, <1>5, MembersPushed
      <4>3. Members(stack') = {g, f} \cup Members(Rest)
        BY <1>5, <4>1, <4>2
      <4>4. QED
        BY <1>2, <2>2, <3>1, <4>3
    <3>2. CASE ~ Running(Current)
      <4>1. Members(stack') = {f} \cup Members(Rest)
        BY <1>5, <2>2, <3>2
      <4>2. QED
        BY <1>2, <4>1
    <3>3. QED
      BY <3>1, <3>2
  <2>5. QED
    BY <1>1, <1>3, <2>2, <2>3, <2>4, TickSent
<1>9. QED
  BY <1>7, <1>8

LEMMA TickedSent ==
  ASSUME Structure, Waiting, Sent, Ticked
  PROVE  Sent'
<1> DEFINE f == [kind |-> "tick", i |-> IF Spliced(Top.i, Top.of) THEN Top.i ELSE Top.i + 1]
<1>1. /\ stack # << >> /\ IsTick(Top) /\ Top.kind = "ticked"
      /\ stack' = << f >> \o Rest
      /\ UNCHANGED << queue, delays, finishing, kinds, hooks, item >>
  BY DEF Ticked, TopIs, IsTick
<1>2. Top \in Frame /\ Rest \in Seq(Frame)
  BY <1>1, StackMembers
<1>3. Top.i \in Nat \ {0}
  <2>1. Top \in Tick
    BY <1>1, <1>2, FrameParts
  <2>2. QED
    BY <2>1 DEF Tick
<1>4. f.kind = "tick" /\ f \in Frame
  BY <1>3 DEF Frame, Tick
<1> HIDE DEF f
<1>5. Members(stack') = {f} \cup Members(Rest)
  BY <1>1, <1>2, <1>4, MembersPushed
<1>6. Carried' = Carried /\ \A i \in Item : Running(i)' => Running(i)
  BY <1>1 DEF Carried, Running
<1>7. Balanced(queue, delays \cup Carried, Rest, kinds) => Even'
  <2>1. ~ IsCall(f, kinds)
    BY <1>4 DEF IsCall
  <2>2. QED
    BY <1>1, <1>2, <1>4, <1>6, <2>1, BalancedPushed DEF Even
<1>8. QED
  BY <1>1, <1>4, <1>5, <1>6, <1>7, TickSent

LEMMA TickEndsSent ==
  ASSUME Structure, Waiting, Sent, TickEnds
  PROVE  Sent'
<1>1. /\ stack # << >> /\ IsTick(Top)
      /\ stack' = Rest
      /\ UNCHANGED << queue, delays, finishing, kinds, hooks, item >>
  BY DEF TickEnds, TopIs, IsTick
<1>2. Members(stack') = {} \cup Members(Rest)
  BY <1>1
<1>3. Carried' = Carried /\ \A i \in Item : Running(i)' => Running(i)
  BY <1>1 DEF Carried, Running
<1>4. Balanced(queue, delays \cup Carried, Rest, kinds) => Even'
  BY <1>1, <1>3 DEF Even
<1>5. QED
  BY <1>1, <1>2, <1>3, <1>4, TickSent

-----------------------------------------------------------------------------
(* The sentinel: the loops of stop() and finish() *)

LEMMA LoopAlone ==
  ASSUME Structure, GoOn(stack), stack # << >>, IsLoop(Top)
  PROVE  /\ Top \in Loop
         /\ Rest = << >>
         /\ Members(stack) = {Top}
<1>1. Top \in Frame /\ Members(stack) = {Top} \cup Members(Rest)
  BY StackMembers
<1>2. StackOK(stack, inProgress) /\ GoStack(stack, timers, Runners)
  BY DEF Structure, GoOn
<1>3. Rest = << >>
  BY <1>2, GoPopped DEF Rest, Top
<1>4. QED
  BY <1>1, <1>3, MembersEmpty, FrameParts

LEMMA SpliceAlone ==
  ASSUME Structure, GoOn(stack), TopIs("splice")
  PROVE  /\ stack[2] \in Loop /\ stack[2].i > 0
         /\ Tail(Rest) = << >>
         /\ Members(Rest) = {stack[2]}
         /\ Members(stack) = {Top, stack[2]}
<1>1. /\ stack # << >> /\ Top.kind = "splice"
      /\ StackOK(stack, inProgress) /\ GoStack(stack, timers, Runners)
      /\ inProgress \in BOOLEAN
  BY DEF Structure, GoOn, TopIs
<1>2. /\ stack \in Seq(Frame) /\ Rest \in Seq(Frame)
      /\ Members(stack) = {Top} \cup Members(Rest)
  BY <1>1, StackMembers
<1>3. /\ Len(stack) \in Nat \ {0} /\ Len(Rest) = Len(stack) - 1
      /\ \A k \in 1 .. Len(stack) - 1 : Rest[k] = stack[k + 1]
  BY <1>1, <1>2, TailShape DEF Rest
<1>4. 1 < Len(stack) /\ IsLoop(stack[2]) /\ stack[2].i > 0
  BY <1>1, <1>3 DEF StackOK, Top
<1>5. Rest[1] = stack[2] /\ Rest # << >>
  BY <1>3, <1>4
<1>6. StackOK(Rest, inProgress)
  BY <1>1, Popped DEF Rest
<1>7. GoStack(Rest, timers, Runners)
  BY <1>1, GoPopped DEF Rest
<1>8. Tail(Rest) = << >>
  BY <1>4, <1>5, <1>6, <1>7, GoPopped
<1>9. Members(Rest) = {stack[2]}
  <2>1. Members(Rest) = {Rest[1]} \cup Members(Tail(Rest))
    BY <1>2, <1>5, MembersPopped
  <2>2. QED
    BY <1>5, <1>8, <2>1, MembersEmpty
<1>10. stack[2] \in Loop
  <2>1. stack[2] \in Frame
    BY <1>2, <1>9, MembersTyped
  <2>2. QED
    BY <1>4, <2>1, FrameParts
<1>11. QED
  BY <1>2, <1>4, <1>8, <1>9, <1>10

\* a step of the loop g, which is f after it
LEMMA LoopSent ==
  ASSUME Structure, Waiting, Sent, NEW g \in Loop, NEW f \in Loop,
         g \in Members(stack), \A h \in Members(stack) : h = g \/ h.kind = "splice",
         f \in Members(stack'),
         \A h \in Members(stack') : \/ h = f
                                    \/ h.kind = "splice"
                                    \/ h.kind = "complete" /\ h.of <= Len(kinds) /\ ~ Moving(f),
         f.kind = g.kind, f.kind = "finish" => f.old = g.old,
         f.kind = "stop" => f.toEnd = g.toEnd,
         Moving(f) => Moving(g),
         Moving(f) /\ f.toEnd => item' = item,
         f.kind = "stop" /\ ~ Moving(f) => Even',
         f.i > 0 => f.i <= Len(timers'),
         \A i \in Item : Running(i)' => Running(i),
         UNCHANGED << queue, delays, finishing, kinds >>,
         DOMAIN hooks' = {"on", "stop", "unqueued"}, delays \subseteq {hooks'.stop},
         \A i \in Item :
            /\ Running(i)' /\ (g.kind = "finish" => Queued(i))
            /\ Due(i, g, Members(stack), timers)
            => Due(i, f, Members(stack'), timers')
  PROVE  Sent'
<1>1. /\ Known /\ LoopsFit /\ Finishes /\ Stops
      /\ f.kind \in {"stop", "finish"}
  BY DEF Sent, Loop
<1>2. Carried' \subseteq Carried
  BY CarriedShrinks
<1>3. \A i \in Carried' : i \in Item /\ Running(i)' /\ Waits(kinds[i])
  <2>1. Len(kinds) \in Nat /\ Len(kinds) <= MaxItems /\ MaxItems \in Nat
    BY LenProperties, FxAssumption DEF Waiting
  <2>2. 1 .. Len(kinds) \subseteq Item
    BY <2>1 DEF Item
  <2>3. QED
    BY <2>2 DEF Carried
<1>4. Known'
  <2>1. \A h \in Members(stack') :
         /\ h.kind = "complete" => h.of <= Len(kinds)
         /\ h.kind = "finish" => Made(h.old, kinds)
    BY <1>1 DEF Known
  <2>2. QED
    BY <1>1, <2>1 DEF Known
<1>5. LoopsFit'
  BY <1>1 DEF LoopsFit, IsLoop, IsTick
<1>6. Finishes'
  <2>1. finishing <=> g.kind = "finish"
    BY <1>1 DEF Finishes
  <2>2. ASSUME NEW h \in Members(stack'), h.kind = "finish", NEW i \in Carried'
        PROVE  h = f /\ Due(i, f, Members(stack'), timers')
    <3>1. h = f
      BY <2>2
    <3>2. Due(i, g, Members(stack), timers)
      BY <1>1, <1>2, <2>2, <3>1 DEF Finishes
    <3>3. Running(i)' /\ Queued(i)
      BY <1>3, <2>2 DEF Waits, Queued
    <3>4. QED
      BY <1>3, <2>2, <3>1, <3>2, <3>3
  <2>3. finishing' <=> \E h \in Members(stack') : h.kind = "finish"
    BY <1>1, <2>1
  <2>4. QED
    BY <1>1, <2>2, <2>3 DEF Finishes
<1>7. Stops'
  <2>1. SUFFICES ASSUME Moving(f)
                 PROVE  /\ delays = {}
                        /\ \A i \in Runners' : Due(i, f, Members(stack'), timers')
                        /\ IF HasSentinel(queue)
                             THEN f.toEnd => Single(Carried') \/ Runners' = {}
                             ELSE Carried' = {}
    BY <1>1 DEF Stops, Moving, MovesOn
  <2>2. /\ delays = {}
        /\ \A i \in Runners : Due(i, g, Members(stack), timers)
        /\ IF HasSentinel(queue) THEN g.toEnd => Single(Carried) \/ Runners = {}
                                 ELSE Carried = {}
    BY <1>1, <2>1 DEF Stops
  <2>3. g.kind = "stop"
    BY <2>1 DEF Moving
  <2>4. \A i \in Runners' : Due(i, f, Members(stack'), timers')
    BY <2>2, <2>3 DEF Runners
  <2>5. CASE HasSentinel(queue) /\ f.toEnd
    <3>1. Carried' = Carried /\ Runners' = Runners
      BY <2>1, <2>5 DEF Carried, Runners, Running
    <3>2. QED
      BY <2>2, <2>3, <2>4, <2>5, <3>1
  <2>6. CASE HasSentinel(queue) /\ ~ f.toEnd
    BY <2>2, <2>4, <2>6
  <2>7. CASE ~ HasSentinel(queue)
    BY <1>2, <2>2, <2>4, <2>7
  <2>8. QED
    BY <2>5, <2>6, <2>7
<1>8. ~ finishing' /\ (\A h \in Members(stack') : ~ Moving(h)') => Even'
  <2>1. SUFFICES ASSUME ~ finishing, ~ Moving(f)  PROVE f.kind = "stop"
    BY DEF Moving, MovesOn
  <2>2. QED
    BY <1>1, <2>1 DEF Finishes
<1>9. QED
  BY <1>4, <1>5, <1>6, <1>7, <1>8 DEF Sent

LEMMA LoopStepped ==
  ASSUME NEW g \in Loop, g.i > 0, NEW f, f = [g EXCEPT !.i = @ - 1]
  PROVE  /\ f \in Loop /\ f.i = g.i - 1 /\ f.kind = g.kind
         /\ f.kind = "stop" => f.toEnd = g.toEnd /\ f.dequeue = g.dequeue
         /\ f.kind = "finish" => f.old = g.old
         /\ Moving(f) <=> Moving(g)
<1>1. f \in Loop
  BY LoopSteps
<1>2. CASE g.kind = "stop"
  <2>1. g \in [kind : {"stop"}, i : Nat, toEnd : BOOLEAN, dequeue : BOOLEAN]
    BY <1>2 DEF Loop
  <2>2. f.i = g.i - 1 /\ f.kind = "stop" /\ f.toEnd = g.toEnd /\ f.dequeue = g.dequeue
    BY <2>1
  <2>3. QED
    BY <1>1, <1>2, <2>2 DEF Moving, MovesOn
<1>3. CASE g.kind = "finish"
  <2>1. g \in [kind : {"finish"}, i : Nat, old : Seq(Item \cup {Sentinel})]
    BY <1>3 DEF Loop
  <2>2. f.i = g.i - 1 /\ f.kind = "finish" /\ f.old = g.old
    BY <2>1
  <2>3. QED
    BY <1>1, <1>3, <2>2 DEF Moving
<1>4. QED
  BY <1>2, <1>3 DEF Loop

LEMMA LoopNoted ==
  ASSUME Top \in Loop
  PROVE  /\ Noted \in Loop /\ Noted.i = Top.i /\ Noted.kind = Top.kind
         /\ Noted.kind = "stop" => Noted.toEnd = Top.toEnd /\ Noted.dequeue = FALSE
         /\ Noted.kind = "finish" => Noted.old = Top.old
         /\ Moving(Noted) <=> Top.kind = "stop" /\ ~ Top.toEnd
<1>1. CASE Top.kind = "stop"
  <2>1. Top \in [kind : {"stop"}, i : Nat, toEnd : BOOLEAN, dequeue : BOOLEAN]
    BY <1>1 DEF Loop
  <2>2. Noted = [Top EXCEPT !.dequeue = FALSE]
    BY <1>1 DEF Noted
  <2>3. /\ Noted \in [kind : {"stop"}, i : Nat, toEnd : BOOLEAN, dequeue : BOOLEAN]
        /\ Noted.i = Top.i /\ Noted.kind = "stop" /\ Noted.toEnd = Top.toEnd
        /\ Noted.dequeue = FALSE
    BY <2>1, <2>2
  <2>4. QED
    BY <1>1, <2>3 DEF Moving, MovesOn, Loop
<1>2. CASE Top.kind = "finish"
  <2>1. Noted = Top
    BY <1>2 DEF Noted
  <2>2. QED
    BY <1>2, <2>1 DEF Moving
<1>3. QED
  BY <1>1, <1>2 DEF Loop

LEMMA DueBare ==
  ASSUME NEW frames, \A h \in frames : h.kind # "splice", NEW g, NEW seq, NEW i
  PROVE  Due(i, g, frames, seq) <=> \E m \in 1 .. Len(seq) : m <= g.i /\ seq[m] = i
  BY DEF Due

LEMMA DueSpliced ==
  ASSUME NEW frames, NEW x \in frames, x.kind = "splice", NEW g, NEW seq, NEW i
  PROVE  Due(i, g, frames, seq) <=> \E m \in 1 .. Len(seq) : m <= g.i - 1 /\ seq[m] = i
  BY DEF Due

LEMMA LoopTop ==
  ASSUME Structure, GoOn(stack), Looping
  PROVE  /\ stack # << >> /\ IsLoop(Top) /\ Top.i > 0 /\ Top \in Loop /\ Rest = << >>
         /\ Members(stack) = {Top}
         /\ Top.kind \in {"stop", "finish"} /\ Top.i \in Nat
<1>1. stack # << >> /\ IsLoop(Top) /\ Top.i > 0
  BY DEF Looping, TopIs, IsLoop
<1>2. Top \in Loop /\ Rest = << >> /\ Members(stack) = {Top}
  BY <1>1, LoopAlone
<1>3. QED
  BY <1>1, <1>2 DEF Loop

LEMMA LoopIsFrame == Loop \subseteq Frame
  BY DEF Frame

\* a frame of a loop is no callback
LEMMA FramePushed ==
  ASSUME NEW f \in Frame, NEW s \in Seq(Frame)
  PROVE  << f >> \o s \in Seq(Frame) /\ Members(<< f >> \o s) = {f} \cup Members(s)
  BY MembersPushed, PushShape

LEMMA EvenReplaced ==
  ASSUME Structure, stack # << >>, Even, NEW f \in Frame, Top.kind # "complete",
         f.kind # "complete"
  PROVE  Balanced(queue, delays \cup Carried, << f >> \o Rest, kinds)
<1>1. stack \in Seq(Frame) /\ Rest \in Seq(Frame)
  BY StackMembers
<1>2. ~ IsCall(Top, kinds) /\ ~ IsCall(f, kinds)
  BY DEF IsCall
<1>3. Balanced(queue, delays \cup Carried, Rest, kinds)
  BY <1>1, <1>2, BalancedPopped DEF Even, Top, Rest
<1>4. QED
  BY <1>1, <1>2, <1>3, BalancedPushed

LEMMA PassTimerSent ==
  ASSUME Structure, Waiting, GoOn(stack), Sent, PassTimer
  PROVE  Sent'
<1> DEFINE g == Top
           f == Stepped
<1>1. /\ stack # << >> /\ IsLoop(g) /\ g.i > 0 /\ g \in Loop /\ Rest = << >>
      /\ Members(stack) = {g}
      /\ g.kind \in {"stop", "finish"} /\ g.i \in Nat
  BY LoopTop DEF PassTimer
<1>2. /\ f \in Loop /\ f.i = g.i - 1 /\ f.kind = g.kind
      /\ f.kind = "stop" => f.toEnd = g.toEnd /\ f.dequeue = g.dequeue
      /\ f.kind = "finish" => f.old = g.old
      /\ Moving(f) <=> Moving(g)
  BY <1>1, LoopStepped DEF Stepped
<1>3. /\ stack' = << f >> \o Rest
      /\ UNCHANGED << queue, delays, finishing, kinds, hooks, timers, item >>
  BY DEF PassTimer, engine
<1>4. g.i <= Len(timers) /\ ~ Concerned(timers[g.i])
  BY DEF PassTimer, Current
<1>5. \A i : Running(i) /\ (g.kind = "finish" => Queued(i)) => timers[g.i] # i
  BY <1>4 DEF Concerned
<1> HIDE DEF f, g
<1>6. f \in Frame /\ Rest \in Seq(Frame)
  BY <1>1, <1>2, LoopIsFrame, StackMembers
<1>7. Members(stack') = {f}
  <2>1. Members(Rest) = {} /\ Members(<< f >> \o Rest) = {f} \cup Members(Rest)
    BY <1>1, <1>6, FramePushed, MembersEmpty
  <2>2. QED
    BY <1>3, <2>1
<1>8. Carried' = Carried /\ \A i \in Item : Running(i)' <=> Running(i)
  BY <1>3 DEF Carried, Running
<1>9. f.kind = "stop" /\ ~ Moving(f) => Even'
  <2>1. SUFFICES ASSUME f.kind = "stop", ~ Moving(f)
                 PROVE  Balanced(queue, delays \cup Carried, << f >> \o Rest, kinds)
    BY <1>3, <1>8 DEF Even
  <2>2. ~ finishing
    BY <1>1, <1>2, <2>1 DEF Sent, Finishes
  <2>3. Even
    BY <1>1, <1>2, <2>1, <2>2 DEF Sent
  <2>4. QED
    BY <1>1, <1>2, <1>6, <2>3, EvenReplaced DEF g
<1>10. ASSUME NEW i \in Item, Running(i)', g.kind = "finish" => Queued(i),
              Due(i, g, Members(stack), timers)
       PROVE  Due(i, f, Members(stack'), timers')
  <2>1. PICK m \in 1 .. Len(timers) : m <= g.i /\ timers[m] = i
    BY <1>1, <1>10, DueBare
  <2>2. m # g.i
    BY <1>5, <1>8, <1>10, <2>1
  <2>3. m <= f.i
    BY <1>1, <1>2, <2>1, <2>2
  <2>4. \A h \in Members(stack') : h.kind # "splice"
    BY <1>1, <1>2, <1>7
  <2>5. QED
    BY <1>3, <2>1, <2>3, <2>4, DueBare
<1>11. f.i > 0 => f.i <= Len(timers')
  <2>1. Len(timers) \in Nat
    BY LenProperties DEF Structure
  <2>2. QED
    BY <1>1, <1>2, <1>3, <1>4, <2>1
<1>12. DOMAIN hooks' = {"on", "stop", "unqueued"} /\ delays \subseteq {hooks'.stop}
  BY <1>3 DEF Sent, Known
<1>13. QED
  BY <1>1, <1>2, <1>3, <1>7, <1>8, <1>9, <1>10, <1>11, <1>12, LoopSent

LEMMA EndTimerSent ==
  ASSUME Structure, Waiting, GoOn(stack), Sent, EndTimer
  PROVE  Sent'
<1> DEFINE g == Top
           f == Noted
           c == Current
           splice == [kind |-> "splice"]
           call == [kind |-> "complete", of |-> c]
           rest == << splice, f >> \o Rest
<1>1. /\ stack # << >> /\ IsLoop(g) /\ g.i > 0 /\ g \in Loop /\ Rest = << >>
      /\ Members(stack) = {g}
      /\ g.kind \in {"stop", "finish"} /\ g.i \in Nat
  BY LoopTop DEF EndTimer
<1>2. /\ f \in Loop /\ f.i = g.i /\ f.kind = g.kind
      /\ f.kind = "stop" => f.toEnd = g.toEnd
      /\ f.kind = "finish" => f.old = g.old
      /\ Moving(f) <=> g.kind = "stop" /\ ~ g.toEnd
  BY <1>1, LoopNoted
<1>3. /\ g.i <= Len(timers) /\ c = timers[g.i] /\ Running(c)
      /\ g.kind = "stop" => g.toEnd
      /\ Resolved(c, TRUE, rest)
      /\ UNCHANGED << queue, delays, finishing, kinds, hooks, timers >>
  BY DEF EndTimer, engine, Current, Concerned, ToEnd
<1>4. ~ Moving(f)
  BY <1>2, <1>3
<1>5. g.i \in 1 .. Len(timers) /\ c \in Item
  <2>1. timers \in Seq(Item) /\ Len(timers) \in Nat
    BY LenProperties DEF Structure
  <2>2. g.i \in 1 .. Len(timers)
    BY <1>1, <1>3, <2>1
  <2>3. QED
    BY <1>3, <2>1, <2>2, ElementOfSeq
<1>6. splice \in Frame /\ f \in Frame /\ call \in Frame /\ call.kind = "complete" /\ call.of = c
  BY <1>2, <1>5, LoopIsFrame DEF Frame, Call
<1> HIDE DEF f, g, c
<1>7. /\ rest = << splice >> \o (<< f >> \o Rest)
      /\ << f >> \o Rest \in Seq(Frame) /\ rest \in Seq(Frame)
      /\ Members(rest) = {splice, f}
  <2>1. Rest \in Seq(Frame)
    BY <1>1, StackMembers
  <2>2. << f >> \o Rest \in Seq(Frame) /\ Members(<< f >> \o Rest) = {f}
    <3>1. Members(Rest) = {}
      BY <1>1, MembersEmpty
    <3>2. << f >> \o Rest \in Seq(Frame) /\ Members(<< f >> \o Rest) = {f} \cup Members(Rest)
      BY <1>6, <2>1, FramePushed
    <3>3. QED
      BY <3>1, <3>2
  <2>3. rest = << splice >> \o (<< f >> \o Rest)
    BY <1>1, <1>6
  <2> DEFINE t == << f >> \o Rest
  <2> HIDE DEF splice, t
  <2>4. << splice >> \o t \in Seq(Frame) /\ Members(<< splice >> \o t) = {splice} \cup Members(t)
    <3>1. splice \in Frame /\ t \in Seq(Frame)
      BY <1>6, <2>2 DEF t
    <3>2. QED
      BY <3>1, FramePushed
  <2>5. QED
    BY <2>2, <2>3, <2>4 DEF t
<1>8. Known /\ Finishes /\ Stops
  BY DEF Sent
<1>9. /\ \A j \in Item : Running(j)' => Running(j)
      /\ Runners' = Runners \ {c}
      /\ stack' = << call >> \o rest
      /\ c <= Len(kinds)
  <2>1. Resolved(c, TRUE, rest) /\ kinds' = kinds /\ Running(c)
    BY <1>3
  <2> HIDE DEF rest
  <2>2. QED
    BY <1>5, <1>8, <2>1, ResolvedCarried
<1> HIDE DEF rest
<1>10. Members(stack') = {call, splice, f}
  <2>1. Members(<< call >> \o rest) = {call} \cup Members(rest)
    <3>1. call \in Frame /\ rest \in Seq(Frame)
      BY <1>6, <1>7
    <3> HIDE DEF call
    <3>2. QED
      BY <3>1, FramePushed
  <2>2. QED
    BY <1>7, <1>9, <2>1
<1>11. splice.kind = "splice"
  OBVIOUS
<1> HIDE DEF splice, call
<1>12. f.kind = "stop" => Even'
  <2>1. SUFFICES ASSUME f.kind = "stop"  PROVE Even'
    OBVIOUS
  <2>2. ~ finishing
    BY <1>1, <1>2, <1>8, <2>1 DEF Finishes
  <2>3. Balanced(queue, delays \cup Carried, << f >> \o Rest, kinds)
    <3>1. CASE Moving(g)
      <4>1. /\ delays = {}
            /\ IF HasSentinel(queue) THEN g.toEnd => Single(Carried) \/ Runners = {}
                                     ELSE Carried = {}
        BY <1>1, <1>8, <3>1 DEF Stops
      <4>2. c \in Runners
        BY <1>3, <1>5 DEF Runners
      <4>3. IF HasSentinel(queue) THEN Single(delays \cup Carried)
                                  ELSE delays \cup Carried = {}
        BY <1>2, <1>3, <2>1, <4>1, <4>2
      <4>4. Balanced(queue, delays \cup Carried, Rest, kinds)
        BY <1>1, <4>3, BalancedEmpty
      <4>5. ~ IsCall(f, kinds) /\ Rest \in Seq(Frame)
        BY <1>1, <2>1, StackMembers DEF IsCall
      <4>6. QED
        BY <1>6, <4>4, <4>5, BalancedPushed
    <3>2. CASE ~ Moving(g)
      <4>1. Even
        BY <1>1, <2>2, <3>2 DEF Sent
      <4>2. QED
        BY <1>1, <1>2, <1>6, <2>1, <4>1, EvenReplaced DEF g
    <3>3. QED
      BY <3>1, <3>2
  <2>4. ~ IsCall(splice, kinds)
    BY <1>11 DEF IsCall
  <2>5. Balanced(queue, delays \cup Carried, rest, kinds)
    BY <1>6, <1>7, <2>3, <2>4, BalancedPushed
  <2>6. QED
    BY <1>3, <1>5, <1>7, <1>8, <2>5, ResolvedEven
<1>13. ASSUME NEW i \in Item, Running(i)', Due(i, g, Members(stack), timers)
       PROVE  Due(i, f, Members(stack'), timers')
  <2>1. PICK m \in 1 .. Len(timers) : m <= g.i /\ timers[m] = i
    <3>1. \A h \in Members(stack) : h.kind # "splice"
      BY <1>1
    <3>2. QED
      BY <1>13, <3>1, DueBare
  <2>2. i # c
    BY <1>5, <1>9, <1>13 DEF Runners
  <2>3. m # g.i
    BY <1>3, <2>1, <2>2
  <2>4. m <= f.i - 1
    BY <1>1, <1>2, <2>1, <2>3
  <2>5. splice \in Members(stack')
    BY <1>10
  <2>6. QED
    BY <1>3, <1>11, <2>1, <2>4, <2>5, DueSpliced
<1>14. DOMAIN hooks' = {"on", "stop", "unqueued"} /\ delays \subseteq {hooks'.stop}
  BY <1>3, <1>8 DEF Known
<1>15. f \in Members(stack')
  BY <1>10
<1>16. \A h \in Members(stack') : \/ h = f
                                  \/ h.kind = "splice"
                                  \/ h.kind = "complete" /\ h.of <= Len(kinds) /\ ~ Moving(f)
  BY <1>4, <1>6, <1>9, <1>10, <1>11
<1>17. QED
  BY <1>1, <1>2, <1>3, <1>4, <1>9, <1>12, <1>13, <1>14, <1>15, <1>16, LoopSent

LEMMA CountedHooks ==
  ASSUME Known, NEW i, Counted(i)
  PROVE  /\ DOMAIN hooks' = {"on", "stop", "unqueued"}
         /\ hooks'.stop = hooks.stop \/ queue = << >>
<1> DEFINE h == [hooks EXCEPT !.unqueued = @ - 1]
<1>1. DOMAIN hooks = {"on", "stop", "unqueued"}
  BY DEF Known
<1>2. DOMAIN h = {"on", "stop", "unqueued"} /\ h.stop = hooks.stop
  BY <1>1
<1>3. DOMAIN NoHooks = {"on", "stop", "unqueued"}
  BY DEF NoHooks
<1>4. hooks' = hooks \/ hooks' = h \/ (hooks' = NoHooks /\ queue = << >>)
  BY DEF Counted, Fired
<1> HIDE DEF h
<1>5. QED
  BY <1>1, <1>2, <1>3, <1>4

LEMMA BreakTimerSent ==
  ASSUME Structure, Waiting, GoOn(stack), Sent, BreakTimer
  PROVE  Sent'
<1> DEFINE g == Top
           f == Noted
           c == Current
           splice == [kind |-> "splice"]
<1>1. /\ stack # << >> /\ IsLoop(g) /\ g.i > 0 /\ g \in Loop /\ Rest = << >>
      /\ Members(stack) = {g}
      /\ g.kind \in {"stop", "finish"} /\ g.i \in Nat
  BY LoopTop DEF BreakTimer
<1>2. /\ f \in Loop /\ f.i = g.i /\ f.kind = g.kind
      /\ f.kind = "stop" => f.toEnd = g.toEnd
      /\ f.kind = "finish" => f.old = g.old
      /\ Moving(f) <=> g.kind = "stop" /\ ~ g.toEnd
  BY <1>1, LoopNoted
<1>3. /\ g.i <= Len(timers) /\ c = timers[g.i] /\ Running(c)
      /\ g.kind = "stop" /\ ~ g.toEnd
      /\ item' = [item EXCEPT ![c].halted = TRUE, ![c].state = "rejected"]
      /\ Counted(c)
      /\ stack' = << splice, f >> \o Rest
      /\ UNCHANGED << queue, delays, finishing, kinds, timers >>
  BY DEF BreakTimer, engine, Current, Concerned, ToEnd
<1>4. Moving(f) /\ Moving(g) /\ ~ f.toEnd
  BY <1>2, <1>3 DEF Moving, MovesOn
<1>5. g.i \in 1 .. Len(timers) /\ c \in Item
  <2>1. timers \in Seq(Item) /\ Len(timers) \in Nat
    BY LenProperties DEF Structure
  <2>2. g.i \in 1 .. Len(timers)
    BY <1>1, <1>3, <2>1
  <2>3. QED
    BY <1>3, <2>1, <2>2, ElementOfSeq
<1>6. splice \in Frame /\ f \in Frame /\ splice.kind = "splice"
  BY <1>2, LoopIsFrame DEF Frame
<1> HIDE DEF f, g, c, splice
<1>7. Members(stack') = {splice, f}
  <2>1. Rest \in Seq(Frame) /\ Members(Rest) = {}
    BY <1>1, StackMembers, MembersEmpty
  <2> DEFINE t == << f >> \o Rest
  <2>2. t \in Seq(Frame) /\ Members(t) = {f} \cup Members(Rest)
    BY <1>6, <2>1, FramePushed
  <2>3. stack' = << splice >> \o t
    BY <1>1, <1>3, <1>6
  <2> HIDE DEF t
  <2>4. Members(<< splice >> \o t) = {splice} \cup Members(t)
    BY <1>6, <2>2, FramePushed
  <2>5. QED
    BY <2>1, <2>2, <2>3, <2>4
<1>8. Known /\ Stops
  BY DEF Sent
<1>9. \A j \in Item : Running(j)' => Running(j) /\ j # c
  <2>1. DOMAIN item = Item /\ DOMAIN item[c] = Fields
    BY <1>5 DEF Structure
  <2>2. item'[c].state = "rejected" /\ \A j \in Item : j # c => item'[j] = item[j]
    BY <1>3, <1>5, <2>1 DEF Fields
  <2>3. QED
    BY <2>2 DEF Running
<1>10. delays = {}
  BY <1>1, <1>4, <1>8 DEF Stops
<1>11. DOMAIN hooks' = {"on", "stop", "unqueued"}
  BY <1>3, <1>8, CountedHooks
<1>12. ASSUME NEW i \in Item, Running(i)', Due(i, g, Members(stack), timers)
       PROVE  Due(i, f, Members(stack'), timers')
  <2>1. PICK m \in 1 .. Len(timers) : m <= g.i /\ timers[m] = i
    <3>1. \A h \in Members(stack) : h.kind # "splice"
      BY <1>1
    <3>2. QED
      BY <1>12, <3>1, DueBare
  <2>2. i # c
    BY <1>9, <1>12
  <2>3. m # g.i
    BY <1>3, <2>1, <2>2
  <2>4. m <= f.i - 1
    BY <1>1, <1>2, <2>1, <2>3
  <2>5. splice \in Members(stack')
    BY <1>7
  <2>6. QED
    BY <1>3, <1>6, <2>1, <2>4, <2>5, DueSpliced
<1>13. f \in Members(stack') /\ \A h \in Members(stack') : h = f \/ h.kind = "splice"
  BY <1>6, <1>7
<1>14. QED
  BY <1>1, <1>2, <1>3, <1>4, <1>9, <1>10, <1>11, <1>12, <1>13, LoopSent

LEMMA SpliceSent ==
  ASSUME Structure, Waiting, GoOn(stack), Sent, Splice
  PROVE  Sent'
<1> DEFINE g == stack[2]
           f == [g EXCEPT !.i = @ - 1]
<1>1. /\ g \in Loop /\ g.i > 0
      /\ Tail(Rest) = << >>
      /\ Members(Rest) = {g}
      /\ Members(stack) = {Top, g}
      /\ Top.kind = "splice" /\ stack # << >>
  BY SpliceAlone DEF Splice, TopIs
<1>2. /\ f \in Loop /\ f.i = g.i - 1 /\ f.kind = g.kind
      /\ f.kind = "stop" => f.toEnd = g.toEnd /\ f.dequeue = g.dequeue
      /\ f.kind = "finish" => f.old = g.old
      /\ Moving(f) <=> Moving(g)
  BY <1>1, LoopStepped
<1>3. /\ timers' = Without(timers, g.i)
      /\ stack' = << f >> \o Tail(Rest)
      /\ UNCHANGED << queue, delays, finishing, kinds, hooks, item >>
  BY DEF Splice
<1> HIDE DEF f, g
<1>4. g.i \in Nat /\ g.kind \in {"stop", "finish"} /\ f \in Frame /\ IsLoop(g)
  BY <1>1, <1>2, LoopIsFrame DEF Loop, IsLoop
<1>5. g.i <= Len(timers)
  BY <1>1, <1>4 DEF Sent, LoopsFit
<1>6. /\ timers \in Seq(Item) /\ Len(timers) \in Nat
      /\ Len(timers') = Len(timers) - 1
      /\ \A m \in 1 .. g.i - 1 : timers'[m] = timers[m]
  <2>1. timers \in Seq(Item) /\ Len(timers) \in Nat
    BY LenProperties DEF Structure
  <2>2. g.i \in Nat \ {0}
    BY <1>1, <1>4
  <2>3. QED
    BY <1>3, <1>5, <2>1, <2>2, WithoutShape
<1>7. Tail(Rest) \in Seq(Frame) /\ Members(stack') = {f}
  <2>1. << >> \in Seq(Frame) /\ Members(<< >>) = {}
    BY MembersEmpty
  <2>2. Tail(Rest) \in Seq(Frame) /\ Members(Tail(Rest)) = {}
    BY <1>1, <2>1
  <2>3. Members(<< f >> \o Tail(Rest)) = {f} \cup Members(Tail(Rest))
    BY <1>4, <2>2, FramePushed
  <2>4. QED
    BY <1>3, <2>2, <2>3
<1>8. Carried' = Carried /\ \A i \in Item : Running(i)' <=> Running(i)
  BY <1>3 DEF Carried, Running
<1>9. f.kind = "stop" /\ ~ Moving(f) => Even'
  <2>1. SUFFICES ASSUME f.kind = "stop", ~ Moving(f)
                 PROVE  Balanced(queue, delays \cup Carried, << f >> \o Tail(Rest), kinds)
    BY <1>3, <1>8 DEF Even
  <2>2. ~ finishing
    BY <1>1, <1>2, <2>1 DEF Sent, Finishes
  <2>3. Even
    <3>1. ~ Moving(Top)
      BY <1>1 DEF Moving
    <3>2. QED
      BY <1>1, <1>2, <2>1, <2>2, <3>1 DEF Sent
  <2>4. /\ stack \in Seq(Frame) /\ Rest \in Seq(Frame) /\ Rest # << >>
    BY <1>1, StackMembers, MembersEmpty
  <2>5. Balanced(queue, delays \cup Carried, Rest, kinds)
    <3>1. ~ IsCall(stack[1], kinds)
      BY <1>1 DEF IsCall, Top
    <3>2. QED
      BY <1>1, <2>3, <2>4, <3>1, BalancedPopped DEF Even, Rest
  <2>6. Balanced(queue, delays \cup Carried, Tail(Rest), kinds)
    <3>1. Rest[1] \in Members(Rest)
      BY <2>4, MembersPopped
    <3>2. ~ IsCall(Rest[1], kinds)
      BY <1>1, <1>4, <3>1 DEF IsCall
    <3>3. QED
      BY <2>4, <2>5, <3>2, BalancedPopped
  <2>7. ~ IsCall(f, kinds)
    BY <2>1 DEF IsCall
  <2>8. QED
    BY <1>4, <1>7, <2>6, <2>7, BalancedPushed
<1>10. ASSUME NEW i \in Item, Due(i, g, Members(stack), timers)
       PROVE  Due(i, f, Members(stack'), timers')
  <2>1. PICK m \in 1 .. Len(timers) : m <= g.i - 1 /\ timers[m] = i
    <3>1. Top \in Members(stack) /\ Top.kind = "splice"
      BY <1>1
    <3>2. QED
      BY <1>10, <3>1, DueSpliced
  <2>2. m \in 1 .. g.i - 1 /\ m \in 1 .. Len(timers') /\ m <= f.i
    BY <1>2, <1>4, <1>5, <1>6, <2>1
  <2>3. timers'[m] = i
    BY <1>6, <2>1, <2>2
  <2>4. \A h \in Members(stack') : h.kind # "splice"
    BY <1>2, <1>4, <1>7
  <2>5. QED
    BY <2>2, <2>3, <2>4, DueBare
<1>11. f.i > 0 => f.i <= Len(timers')
  BY <1>2, <1>4, <1>5, <1>6
<1>12. DOMAIN hooks' = {"on", "stop", "unqueued"} /\ delays \subseteq {hooks'.stop}
  BY <1>3 DEF Sent, Known
<1>13. /\ g \in Members(stack) /\ \A h \in Members(stack) : h = g \/ h.kind = "splice"
       /\ f \in Members(stack') /\ \A h \in Members(stack') : h = f \/ h.kind = "splice"
  BY <1>1, <1>7
<1>14. QED
  BY <1>1, <1>2, <1>3, <1>8, <1>9, <1>10, <1>11, <1>12, <1>13, LoopSent

LEMMA NeverCrashes ==
  ASSUME Structure, Sent, Crash
  PROVE  FALSE
<1>1. stack # << >> /\ IsLoop(Top) /\ Top.i > 0 /\ Top.i > Len(timers)
  BY DEF Crash, Looping, TopIs, IsLoop
<1>2. Top \in Members(stack) /\ Top \in Frame
  BY <1>1, StackMembers
<1>3. Top.i \in Nat /\ Len(timers) \in Nat
  BY <1>1, <1>2, LoopsNatural, LenProperties DEF Structure
<1>4. Top.i <= Len(timers)
  BY <1>1, <1>2 DEF Sent, LoopsFit
<1>5. QED
  BY <1>1, <1>3, <1>4

-----------------------------------------------------------------------------
(* The sentinel: callbacks, and the rest of a start *)

LEMMA CallSent ==
  ASSUME Structure, Waiting, Sent, stack # << >>, Top.kind \in {"launch", "complete"},
         Members(Rest) \subseteq Members(stack'),
         \A h \in Members(stack') : \/ h \in Members(Rest)
                                    \/ h.kind = "complete" /\ h.of <= Len(kinds),
         \A i \in Item : Running(i)' => Running(i),
         UNCHANGED << queue, delays, finishing, kinds, timers >>,
         DOMAIN hooks' = {"on", "stop", "unqueued"}, delays \subseteq {hooks'.stop},
         finishing /\ Top.kind = "launch" => item'[Top.of].state # "running",
         ~ finishing /\ Even => Even'
  PROVE  Sent'
<1>1. /\ stack \in Seq(Frame) /\ Top \in Members(stack)
      /\ Members(stack) = {Top} \cup Members(Rest)
      /\ Members(stack) \subseteq Frame
  BY StackMembers
<1>2. Known /\ LoopsFit /\ Finishes /\ Stops
  BY DEF Sent
<1>3. \A g \in Members(stack) : ~ Moving(g)
  BY <1>2, NoneMoves DEF Moving
<1>4. Carried' \subseteq Carried
  BY CarriedShrinks
<1>5. Known'
  <2>1. \A g \in Members(stack') :
         /\ g.kind = "complete" => g.of <= Len(kinds)
         /\ g.kind = "finish" => Made(g.old, kinds)
    BY <1>1, <1>2 DEF Known
  <2>2. QED
    BY <1>2, <2>1 DEF Known
<1>6. \A g \in Members(stack') : IsLoop(g) \/ IsTick(g) \/ g.kind \in {"launch", "splice"}
                                   => g \in Members(Rest)
  BY DEF IsLoop, IsTick
<1>7. \A g \in Members(stack') : ~ Moving(g)
  BY <1>1, <1>3 DEF Moving
<1>8. LoopsFit'
  BY <1>1, <1>2, <1>6 DEF LoopsFit
<1>9. Finishes'
  <2>1. finishing' <=> \E g \in Members(stack') : g.kind = "finish"
    BY <1>1, <1>2, <1>6 DEF Finishes, IsLoop
  <2>2. ASSUME NEW g \in Members(stack'), g.kind = "finish", NEW i \in Carried'
        PROVE  \/ Due(i, g, Members(stack'), timers')
               \/ \E h \in Members(stack') : h.kind = "launch" /\ h.of = i
    <3>1. g \in Members(stack) /\ i \in Carried /\ finishing
      BY <1>1, <1>2, <1>4, <1>6, <2>1, <2>2 DEF IsLoop
    <3>2. CASE Due(i, g, Members(stack), timers)
      <4>1. (\E h \in Members(stack) : h.kind = "splice")
              <=> \E h \in Members(stack') : h.kind = "splice"
        BY <1>1, <1>6
      <4>2. Due(i, g, Members(stack'), timers)
        BY <3>2, <4>1 DEF Due
      <4>3. QED
        BY <4>2
    <3>3. CASE \E h \in Members(stack) : h.kind = "launch" /\ h.of = i
      <4>1. PICK h \in Members(stack) : h.kind = "launch" /\ h.of = i
        BY <3>3
      <4>2. item'[i].state = "running"
        BY <2>2 DEF Carried, Running
      <4>3. h # Top
        BY <3>1, <4>1, <4>2
      <4>4. h \in Members(stack')
        BY <1>1, <4>1, <4>3
      <4>5. QED
        BY <4>1, <4>4
    <3>4. QED
      BY <1>2, <2>2, <3>1, <3>2, <3>3 DEF Finishes
  <2>3. finishing' => queue' = << >> /\ delays' = {}
    BY <1>2 DEF Finishes
  <2>4. QED
    BY <2>1, <2>2, <2>3 DEF Finishes
<1>10. Stops'
  BY <1>7 DEF Stops
<1>11. ~ finishing => Even'
  BY <1>3 DEF Sent
<1>12. QED
  BY <1>5, <1>8, <1>9, <1>10, <1>11 DEF Sent

LEMMA LaunchSent ==
  ASSUME Structure, Waiting, Sent, Launch
  PROVE  Sent'
<1>0. PICK x : x = Top.of
  OBVIOUS
<1> DEFINE f == [kind |-> "complete", of |-> x]
<1>1. /\ stack # << >> /\ Top.kind = "launch"
      /\ IF EndsAtOnce(x) THEN Resolved(x, TRUE, Rest)
                          ELSE stack' = Rest /\ item' = item
      /\ UNCHANGED << queue, delays, finishing, kinds, timers, hooks >>
  BY <1>0 DEF Launch, TopIs, engine
<1>2. stack \in Seq(Frame) /\ Rest \in Seq(Frame) /\ Top \in Frame
  BY <1>1, StackMembers
<1>3. x \in Item
  <2>1. Top \in Call
    BY <1>1, <1>2, FrameParts
  <2>2. QED
    BY <1>0, <2>1 DEF Call
<1>4. DOMAIN hooks' = {"on", "stop", "unqueued"} /\ delays \subseteq {hooks'.stop} /\ Known
  BY <1>1 DEF Sent, Known
<1>5. Even => Balanced(queue, delays \cup Carried, Rest, kinds)
  <2>1. ~ IsCall(stack[1], kinds)
    BY <1>1 DEF IsCall, Top
  <2>2. QED
    BY <1>1, <1>2, <2>1, BalancedPopped DEF Even, Rest
<1>6. CASE EndsAtOnce(x)
  <2>1. /\ Resolved(x, TRUE, Rest) /\ kinds' = kinds
    BY <1>1, <1>6
  <2>2. /\ \A j \in Item : Running(j)' => Running(j)
        /\ Runners' = Runners \ {x}
        /\ IF Running(x) THEN stack' = << f >> \o Rest ELSE stack' = Rest
        /\ Running(x) => x <= Len(kinds)
    BY <1>3, <1>4, <2>1, ResolvedCarried
  <2>3. ~ Running(x)'
    BY <1>3, <2>2 DEF Runners
  <2>4. f \in Frame /\ f.kind = "complete" /\ f.of = x
    BY <1>3 DEF Frame, Call
  <2> HIDE DEF f
  <2>5. /\ Members(Rest) \subseteq Members(stack')
        /\ \A h \in Members(stack') : \/ h \in Members(Rest)
                                      \/ h.kind = "complete" /\ h.of <= Len(kinds)
    <3>1. CASE Running(x)
      <4>1. Members(<< f >> \o Rest) = {f} \cup Members(Rest)
        BY <1>2, <2>4, FramePushed
      <4>2. QED
        BY <2>2, <2>4, <3>1, <4>1
    <3>2. CASE ~ Running(x)
      BY <2>2, <3>2
    <3>3. QED
      BY <3>1, <3>2
  <2>6. QED
    <3>1. Even => Even'
      BY <1>1, <1>2, <1>3, <1>4, <1>5, <2>1, ResolvedEven
    <3>2. QED
      BY <1>0, <1>1, <1>4, <1>6, <2>2, <2>3, <2>5, <3>1, CallSent DEF Running
<1>7. CASE ~ EndsAtOnce(x)
  <2>1. stack' = Rest /\ item' = item
    BY <1>1, <1>7
  <2>2. Carried' = Carried /\ \A i \in Item : Running(i)' <=> Running(i)
    BY <1>1, <2>1 DEF Carried, Running
  <2>3. finishing => ~ Running(x)'
    BY <1>3, <1>7, <2>2 DEF Structure, EndsAtOnce
  <2>4. Even => Even'
    BY <1>1, <1>5, <2>1, <2>2 DEF Even
  <2>5. QED
    BY <1>0, <1>1, <1>4, <2>1, <2>2, <2>3, <2>4, CallSent DEF Running
<1>8. QED
  BY <1>6, <1>7

-----------------------------------------------------------------------------
(* The sentinel: calls return *)

\* the outermost call has returned
LEMMA EmptySent ==
  ASSUME Sent, stack' = << >>, ~ finishing',
         UNCHANGED << queue, delays, kinds, item, hooks >>,
         Even'
  PROVE  Sent'
<1>1. Members(stack') = {}
  BY MembersEmpty
<1>2. Known'
  BY <1>1 DEF Sent, Known, Running
<1>3. LoopsFit' /\ Stops' /\ Finishes'
  BY <1>1 DEF LoopsFit, Stops, Finishes
<1>4. QED
  BY <1>2, <1>3 DEF Sent

LEMMA FinishEndsSent ==
  ASSUME Structure, GoOn(stack), Sent, FinishEnds
  PROVE  Sent'
<1>1. /\ stack # << >> /\ IsLoop(Top) /\ Top.kind = "finish" /\ Top.i = 0
      /\ finishing' = FALSE /\ stack' = Rest
      /\ UNCHANGED << queue, delays, kinds, item, hooks >>
  BY DEF FinishEnds, TopIs, IsLoop
<1>2. Rest = << >> /\ Members(stack) = {Top} /\ Top \in Frame
  BY <1>1, LoopAlone, LoopIsFrame
<1>3. queue = << >> /\ delays = {}
  BY <1>1, <1>2 DEF Sent, Finishes
<1>4. Carried = {}
  <2>1. \A i \in Carried : Due(i, Top, Members(stack), timers)
    BY <1>1, <1>2 DEF Sent, Finishes
  <2>2. QED
    BY <1>1, <1>2, <2>1, NotDue
<1>5. Carried' = Carried
  BY <1>1 DEF Carried, Running
<1>6. Balanced(queue, {}, << >>, kinds)
  BY <1>3, BalancedEmpty DEF HasSentinel
<1>7. Even'
  BY <1>1, <1>2, <1>3, <1>4, <1>5, <1>6 DEF Even
<1>8. QED
  BY <1>1, <1>2, <1>7, EmptySent

\* stop() that leaves the queue alone
LEMMA StopEndsQuietly ==
  ASSUME Structure, GoOn(stack), Sent, StopEnds, ~ MovesOn(Top)
  PROVE  Sent'
<1>1. /\ stack # << >> /\ IsLoop(Top) /\ Top.kind = "stop"
      /\ stack' = Rest
      /\ UNCHANGED << queue, delays, kinds, item, hooks, finishing >>
  BY DEF StopEnds, TopIs, IsLoop
<1>2. Rest = << >> /\ Members(stack) = {Top}
  BY <1>1, LoopAlone
<1>3. ~ finishing
  BY <1>1, <1>2 DEF Sent, Finishes
<1>4. Even
  BY <1>2, <1>3 DEF Sent, Moving
<1>5. Balanced(queue, delays \cup Carried, Rest, kinds)
  <2>1. stack \in Seq(Frame) /\ ~ IsCall(stack[1], kinds)
    BY <1>1, StackMembers DEF IsCall, Top
  <2>2. QED
    BY <1>1, <1>4, <2>1, BalancedPopped DEF Even, Rest
<1>6. Carried' = Carried
  BY <1>1 DEF Carried, Running
<1>7. Even'
  BY <1>1, <1>5, <1>6 DEF Even
<1>8. QED
  BY <1>1, <1>2, <1>3, <1>7, EmptySent

LEMMA QuietSent ==
  ASSUME Sent, NEW show, ShowHide(show) \/ AskPromise
  PROVE  Sent'
<1>1. UNCHANGED << queue, hooks, timers, delays, finishing, kinds, item, stack >>
  BY DEF ShowHide, AskPromise, engine
<1>2. Carried' = Carried /\ Runners' = Runners /\ \A i : Running(i)' <=> Running(i)
  BY <1>1 DEF Carried, Runners, Running
<1>3. Known' /\ LoopsFit' /\ Finishes' /\ Stops'
  BY <1>1, <1>2 DEF Sent, Known, LoopsFit, Finishes, Stops, Moving, MovesOn
<1>4. QED
  BY <1>1, <1>2, <1>3 DEF Sent, Even, Moving, MovesOn

LEMMA ScheduleSent ==
  ASSUME Sent, Schedule
  PROVE  Sent'
<1> DEFINE tick == [kind |-> "tick", i |-> 1]
<1>1. /\ stack = << >> /\ (stack' = << tick >> \/ stack' = stack)
      /\ UNCHANGED << queue, hooks, timers, delays, finishing, kinds, item >>
  BY DEF Schedule
<1>2. Carried' = Carried /\ \A i : Running(i)' <=> Running(i)
  BY <1>1 DEF Carried, Running
<1>3. Members(stack) = {} /\ Members(stack') \subseteq {tick}
  BY <1>1 DEF Members
<1>4. tick.kind = "tick"
  OBVIOUS
<1>5. ~ finishing /\ Even
  BY <1>3 DEF Sent, Finishes
<1>6. Even'
  <2>1. Balanced(queue, delays \cup Carried, << >>, kinds)
    BY <1>1, <1>5 DEF Even
  <2>2. Calm(stack', kinds)
    BY <1>1, <1>4 DEF Calm, IsCall
  <2>3. QED
    BY <1>1, <1>2, <2>1, <2>2, BalancedEmpty DEF Even, Balanced
<1> HIDE DEF tick
<1>7. Known'
  BY <1>1, <1>2, <1>3, <1>4 DEF Sent, Known
<1>8. LoopsFit' /\ Finishes' /\ Stops'
  BY <1>1, <1>3, <1>4, <1>5 DEF LoopsFit, Finishes, Stops, IsLoop, Moving
<1>9. QED
  BY <1>6, <1>7, <1>8 DEF Sent

LEMMA StopSent ==
  ASSUME Structure, Waiting, GoOn(stack), Sent,
         NEW clear \in BOOLEAN, NEW toEnd \in BOOLEAN, Stop(clear, toEnd), ~ meddled'
  PROVE  Sent'
<1> DEFINE f == [kind |-> "stop", i |-> Len(timers), toEnd |-> toEnd, dequeue |-> TRUE]
<1>1. ~ clear /\ stack = << >> /\ ~ (toEnd /\ delays # {} /\ \E i \in Item : Running(i))
  BY DEF Stop, Meddle
<1>2. /\ hooks' = [hooks EXCEPT !.stop = None]
      /\ delays' = delays \ {hooks.stop}
      /\ stack' = << f >> \o stack
      /\ UNCHANGED << queue, timers, finishing, kinds, item >>
  BY <1>1 DEF Stop, engine
<1>3. Known /\ Finishes
  BY DEF Sent
<1>4. f \in Frame /\ timers \in Seq(Item) /\ Len(timers) \in Nat
  BY LenProperties DEF Frame, Loop, Structure
<1>5. f.kind = "stop" /\ f.i = Len(timers) /\ f.toEnd = toEnd /\ Moving(f)
  BY DEF Moving, MovesOn
<1> HIDE DEF f
<1>6. Members(stack) = {} /\ Members(stack') = {f}
  <2>1. Members(stack) = {} /\ stack \in Seq(Frame)
    BY <1>1, MembersEmpty
  <2>2. QED
    BY <1>2, <1>4, <2>1, FramePushed
<1>7. delays' = {} /\ ~ finishing /\ DOMAIN hooks' = {"on", "stop", "unqueued"}
  BY <1>2, <1>3, <1>6 DEF Known, Finishes
<1>8. Carried' = Carried /\ Runners' = Runners /\ \A i : Running(i)' <=> Running(i)
  BY <1>2 DEF Carried, Runners, Running
<1>9. Balanced(queue, delays \cup Carried, << >>, kinds)
  BY <1>1, <1>6, <1>7 DEF Sent, Even
<1>10. Known'
  <2>1. Made(queue', kinds')
    BY <1>2, <1>3 DEF Known
  <2>2. \A i \in Item : Running(i)' => i <= Len(kinds') /\ kinds'[i] # Delay
    BY <1>2, <1>3, <1>8 DEF Known
  <2>3. QED
    BY <1>5, <1>6, <1>7, <2>1, <2>2 DEF Known
<1>11. LoopsFit'
  BY <1>2, <1>4, <1>5, <1>6 DEF LoopsFit, IsTick
<1>12. Finishes'
  BY <1>2, <1>5, <1>6, <1>7 DEF Finishes
<1>13. Stops'
  <2>1. ASSUME NEW i \in Runners  PROVE Due(i, f, Members(stack'), timers')
    <3>1. PICK k \in 1 .. Len(timers) : timers[k] = i
      BY <2>1 DEF GoOn
    <3>2. \A h \in Members(stack') : h.kind # "splice"
      BY <1>5, <1>6
    <3>3. k <= f.i
      BY <1>4, <1>5, <3>1
    <3>4. QED
      BY <1>2, <3>1, <3>2, <3>3, DueBare
  <2>2. IF HasSentinel(queue) THEN f.toEnd => Single(Carried) \/ Runners = {}
                              ELSE Carried = {}
    <3>1. CASE HasSentinel(queue)
      <4>1. Single(delays \cup Carried)
        BY <1>9, <3>1, BalancedEmpty
      <4>2. f.toEnd => delays = {} \/ Runners = {}
        BY <1>1, <1>5 DEF Runners
      <4>3. delays = {} => Single(Carried)
        BY <4>1
      <4>4. QED
        BY <3>1, <4>2, <4>3
    <3>2. CASE ~ HasSentinel(queue)
      BY <1>9, <3>2, BalancedEmpty
    <3>3. QED
      BY <3>1, <3>2
  <2>3. QED
    BY <1>2, <1>6, <1>7, <1>8, <2>1, <2>2 DEF Stops, Moving, MovesOn
<1>14. \E g \in Members(stack') : Moving(g)
  BY <1>5, <1>6
<1>15. QED
  BY <1>10, <1>11, <1>12, <1>13, <1>14 DEF Sent, Moving, MovesOn

LEMMA FinishSent ==
  ASSUME Structure, Waiting, GoOn(stack), Sent, Finish, ~ meddled'
  PROVE  Sent'
<1> DEFINE f == [kind |-> "finish", i |-> Len(timers), old |-> queue]
<1>1. stack = << >>
  BY DEF Finish, Meddle
<1>2. /\ finishing' = TRUE
      /\ queue' = << >>
      /\ delays' = delays \ {hooks.stop}
      /\ stack' = << f >> \o stack
      /\ UNCHANGED << hooks, timers, kinds, item >>
  BY DEF Finish, engine
<1>3. Known
  BY DEF Sent
<1>4. f \in Frame /\ timers \in Seq(Item) /\ Len(timers) \in Nat
  BY LenProperties DEF Frame, Loop, Structure, Waiting, QueueOK
<1>5. f.kind = "finish" /\ f.i = Len(timers) /\ f.old = queue /\ ~ Moving(f)
  BY DEF Moving
<1> HIDE DEF f
<1>6. Members(stack') = {f}
  <2>1. Members(stack) = {} /\ stack \in Seq(Frame)
    BY <1>1, MembersEmpty
  <2>2. QED
    BY <1>2, <1>4, <2>1, FramePushed
<1>7. delays' = {}
  BY <1>2, <1>3 DEF Known
<1>8. Carried' = Carried /\ Runners' = Runners /\ \A i : Running(i)' <=> Running(i)
  BY <1>2 DEF Carried, Runners, Running
<1>9. Known'
  <2>1. Made(queue, kinds)
    BY <1>3 DEF Known
  <2>2. Made(queue', kinds')
    BY <1>2, MembersEmpty DEF Made
  <2>3. \A i \in Item : Running(i)' => i <= Len(kinds') /\ kinds'[i] # Delay
    BY <1>2, <1>3, <1>8 DEF Known
  <2>4. \A g \in Members(stack') :
         /\ g.kind # "complete"
         /\ Made(g.old, kinds')
    BY <1>2, <1>5, <1>6, <2>1
  <2>5. DOMAIN hooks' = {"on", "stop", "unqueued"}
    BY <1>2, <1>3 DEF Known
  <2>6. QED
    BY <1>7, <2>2, <2>3, <2>4, <2>5 DEF Known
<1>10. LoopsFit'
  BY <1>2, <1>4, <1>5, <1>6 DEF LoopsFit, IsTick
<1>11. Finishes'
  <2>1. ASSUME NEW i \in Carried  PROVE Due(i, f, Members(stack'), timers')
    <3>1. i \in Runners
      <4>1. Carried \subseteq Item
        BY <1>3, CarriedIs
      <4>2. QED
        BY <2>1, <4>1 DEF Runners, Carried
    <3>2. PICK k \in 1 .. Len(timers) : timers[k] = i
      BY <3>1 DEF GoOn
    <3>3. \A h \in Members(stack') : h.kind # "splice"
      BY <1>5, <1>6
    <3>4. k <= f.i
      BY <1>4, <1>5, <3>2
    <3>5. QED
      BY <1>2, <3>2, <3>3, <3>4, DueBare
  <2>2. QED
    BY <1>2, <1>5, <1>6, <1>7, <1>8, <2>1 DEF Finishes
<1>12. Stops'
  BY <1>5, <1>6 DEF Stops, Moving
<1>13. QED
  BY <1>2, <1>9, <1>10, <1>11, <1>12 DEF Sent

-----------------------------------------------------------------------------
(* The sentinel: animations are started *)

LEMMA LaunchedFrames ==
  ASSUME Structure, NEW i \in Item, NEW rest \in Seq(Frame), Launched(i, rest)
  PROVE  /\ Members(rest) \subseteq Members(stack')
         /\ \E h \in Members(stack') : h.kind = "launch" /\ h.of = i
         /\ \A h \in Members(stack') : \/ h \in Members(rest)
                                       \/ h.kind = "launch"
                                       \/ h.kind = "tick" /\ ~ inProgress
         /\ \A ks, q, U : Balanced(q, U, rest, ks) => Balanced(q, U, stack', ks)
         /\ timers' = Append(timers, i)
         /\ \A j \in Item : Running(j)' <=> Running(j) \/ j = i
<1> DEFINE launch == [kind |-> "launch", of |-> i]
           tick == [kind |-> "tick", i |-> 1]
           called == << launch >> \o rest
<1>1. /\ Prefiltered(i)
      /\ timers' = Append(timers, i)
      /\ stack' = (IF inProgress THEN << >> ELSE << tick >>) \o called
  BY DEF Launched, Driven
<1>2. /\ launch \in Frame /\ launch.kind = "launch" /\ launch.of = i
      /\ tick \in Frame /\ tick.kind = "tick"
  BY DEF Frame, Call, Tick
<1> HIDE DEF launch, tick
<1>3. called \in Seq(Frame) /\ Members(called) = {launch} \cup Members(rest)
  BY <1>2, FramePushed
<1>4. \A ks, q, U : Balanced(q, U, rest, ks) => Balanced(q, U, called, ks)
  <2>1. \A ks : ~ IsCall(launch, ks)
    BY <1>2 DEF IsCall
  <2>2. QED
    BY <1>2, <2>1, BalancedPushed
<1> HIDE DEF called
<1>5. \A j \in Item : Running(j)' <=> Running(j) \/ j = i
  BY <1>1, PrefilteredItems DEF Running
<1>6. CASE inProgress
  <2>1. stack' = called
    BY <1>1, <1>3, <1>6
  <2>2. QED
    BY <1>1, <1>2, <1>3, <1>4, <1>5, <2>1
<1>7. CASE ~ inProgress
  <2>1. stack' = << tick >> \o called
    BY <1>1, <1>7
  <2>2. Members(stack') = {tick} \cup Members(called)
    BY <1>2, <1>3, <2>1, FramePushed
  <2>3. \A ks, q, U : Balanced(q, U, called, ks) => Balanced(q, U, << tick >> \o called, ks)
    <3>1. \A ks : ~ IsCall(tick, ks)
      BY <1>2 DEF IsCall
    <3>2. QED
      BY <1>2, <1>3, <3>1, BalancedPushed
  <2>4. QED
    BY <1>1, <1>2, <1>3, <1>4, <1>5, <1>7, <2>1, <2>2, <2>3
<1>8. QED
  BY <1>6, <1>7

LEMMA LaunchedFit ==
  ASSUME Structure, NEW i \in Item, NEW rest \in Seq(Frame), Launched(i, rest),
         \A g \in Members(rest) : IsLoop(g) /\ g.i > 0 =>
             g.i <= Len(timers) /\ \A h \in Members(rest) : ~ IsTick(h)
  PROVE  LoopsFit'
<1>1. /\ \A h \in Members(stack') : \/ h \in Members(rest)
                                    \/ h.kind = "launch"
                                    \/ h.kind = "tick" /\ ~ inProgress
      /\ timers' = Append(timers, i)
  BY LaunchedFrames
<1>2. Len(timers) \in Nat /\ Len(timers') = Len(timers) + 1
  BY <1>1, TimersGrow DEF Structure
<1>3. ASSUME NEW g \in Members(stack'), IsLoop(g), g.i > 0
      PROVE  g.i <= Len(timers') /\ \A h \in Members(stack') : ~ IsTick(h)
  <2>1. g \in Members(rest) /\ g \in Frame
    BY <1>1, <1>3, MembersTyped DEF IsLoop
  <2>2. g.i \in Nat
    BY <1>3, <2>1, LoopsNatural
  <2>3. g.i <= Len(timers) /\ \A h \in Members(rest) : ~ IsTick(h)
    BY <1>3, <2>1
  <2>4. timers # << >>
    BY <1>2, <1>3, <2>2, <2>3
  <2>5. inProgress
    BY <2>4 DEF Structure
  <2>6. QED
    BY <1>1, <1>2, <2>2, <2>3, <2>5 DEF IsTick
<1>4. QED
  BY <1>3 DEF LoopsFit

-----------------------------------------------------------------------------
(* The sentinel: the queue moves on *)

LEMMA NextCarriedIs ==
  ASSUME Waiting', Known'
  PROVE  Carried' = {i \in Item : Running(i)' /\ Waits(kinds'[i])}
<1>1. Len(kinds') \in Nat /\ Len(kinds') <= MaxItems /\ MaxItems \in Nat
  BY LenProperties, FxAssumption DEF Waiting
<1>2. 1 .. Len(kinds') \subseteq Item
  BY <1>1 DEF Item
<1>3. \A i \in Item : Running(i)' => i \in 1 .. Len(kinds') /\ kinds'[i] # Delay
  BY <1>1 DEF Known, Item
<1>4. QED
  BY <1>2, <1>3 DEF Carried

\* the kinds of the animations there are stay
KindsGrow ==
    /\ Len(kinds) <= Len(kinds')
    /\ \A i \in Item : i <= Len(kinds) => kinds'[i] = kinds[i]

LEMMA DequeuedSent ==
  ASSUME Structure, Waiting, Waiting', Sent, KindsGrow,
         NEW q, QueueOK(q), NEW rest \in Seq(Frame), Members(rest) \subseteq Members(stack),
         \A g \in Members(rest) : ~ Moving(g),
         Calm(rest, kinds'), Carried = {}, ~ finishing, finishing' = finishing,
         Made(q, kinds'),
         Dequeued(q, {}, rest)
  PROVE  Sent'
<1> DEFINE left == WithoutSentinel(q)
           h == Head(left)
<1>1. Known /\ LoopsFit /\ Finishes
  BY DEF Sent
<1>2. Len(kinds) \in Nat /\ Len(kinds') \in Nat /\ Len(kinds) <= Len(kinds')
  BY LenProperties DEF Waiting, KindsGrow
<1>3. \A i \in Item : Running(i) => /\ i <= Len(kinds) /\ kinds'[i] = kinds[i]
                                    /\ i <= Len(kinds') /\ kinds'[i] # Delay /\ ~ Waits(kinds'[i])
  <2>1. \A i \in Item : Running(i) => ~ Waits(kinds[i])
    BY <1>1, CarriedIs
  <2>2. QED
    BY <1>1, <1>2, <2>1 DEF Known, KindsGrow, Item
<1>4. \A g \in Members(rest) :
         /\ g \in Frame /\ g.kind # "finish"
         /\ g.kind = "complete" => g.of <= Len(kinds')
  <2>1. \A g \in Members(rest) : g \in Frame /\ g.kind # "finish"
    BY <1>1, MembersTyped DEF Finishes
  <2>2. ASSUME NEW g \in Members(rest), g.kind = "complete"  PROVE g.of <= Len(kinds')
    <3>1. g \in Call /\ g.of <= Len(kinds)
      BY <1>1, <2>1, <2>2, FrameParts DEF Known
    <3>2. g.of \in Nat
      BY <3>1 DEF Call, Item
    <3>3. QED
      BY <1>2, <3>1, <3>2
  <2>3. QED
    BY <2>1, <2>2
<1>5. left \in Seq(Item) /\ Members(left) \subseteq Members(q)
  <2>1. left \in Seq(Item)
    BY SentinelTaken
  <2>2. q \in Seq(Item \cup {Sentinel})
    BY DEF QueueOK
  <2>3. Members(left) \subseteq Members(q)
    <3>1. CASE q # << >> /\ Head(q) = Sentinel
      <4>1. left = Tail(q)
        BY <3>1 DEF WithoutSentinel
      <4>2. QED
        BY <2>2, <3>1, <4>1, MembersPopped
    <3>2. CASE ~ (q # << >> /\ Head(q) = Sentinel)
      BY <3>2, Zenon DEF WithoutSentinel
    <3>3. QED
      BY <3>1, <3>2
  <2>4. QED
    BY <2>1, <2>3
<1>6. \A i \in Members(left) : i \in Item /\ i <= Len(kinds') /\ Waits(kinds'[i])
  <2>1. Members(left) \subseteq Item
    BY <1>5, MembersTyped
  <2>2. \A i \in Item : i # Sentinel
    BY DEF Item, Sentinel
  <2> HIDE DEF left
  <2>3. QED
    BY <1>5, <2>1, <2>2 DEF Made
<1>7. Balanced(<< >>, {}, rest, kinds')
  BY DEF Balanced, HasSentinel
<1>8. CASE left = << >>
  <2>1. /\ queue' = << >> /\ hooks' = Fired(hooks) /\ delays' = {} /\ stack' = rest
        /\ UNCHANGED << timers, item >>
    BY <1>8 DEF Dequeued, engine
  <2>2. DOMAIN hooks' = {"on", "stop", "unqueued"}
    BY <1>1, <2>1 DEF Known, Fired, NoHooks
  <2>3. \A i \in Item : Running(i)' <=> Running(i)
    BY <2>1 DEF Running
  <2>4. Known'
    <3>1. Made(queue', kinds')
      BY <2>1, MembersEmpty DEF Made
    <3>2. QED
      BY <1>3, <1>4, <2>1, <2>2, <2>3, <3>1 DEF Known
  <2>5. Carried' = {}
    BY <1>3, <2>3, <2>4, NextCarriedIs
  <2>6. LoopsFit' /\ Finishes' /\ Stops'
    BY <1>1, <1>4, <2>1 DEF LoopsFit, Finishes, Stops, Moving, MovesOn
  <2>7. Even'
    BY <1>7, <2>1, <2>5 DEF Even
  <2>8. QED
    BY <2>4, <2>6, <2>7 DEF Sent
<1>9. CASE left # << >>
  <2>1. /\ h \in Members(left) /\ h \in Item /\ h <= Len(kinds') /\ Waits(kinds'[h])
        /\ Members(Tail(left)) \subseteq Members(left)
    BY <1>5, <1>6, <1>9, MembersPopped
  <2>2. queue' = << Sentinel >> \o Tail(left)
    BY <1>9 DEF Dequeued
  <2> HIDE DEF left, h
  <2>3. /\ HasSentinel(queue')
        /\ Made(queue', kinds')
    <3>1. Tail(left) \in Seq(Item \cup {Sentinel})
      <4>1. Tail(left) \in Seq(Item)
        BY <1>5, <1>9, TailShape
      <4>2. QED
        BY <4>1
    <3>2. Sentinel \in Item \cup {Sentinel}
      OBVIOUS
    <3>3. Members(queue') = {Sentinel} \cup Members(Tail(left))
      BY <2>2, <3>1, <3>2, MembersPushed
    <3>4. /\ queue' \in Seq(Item \cup {Sentinel}) /\ Len(queue') = Len(Tail(left)) + 1
          /\ queue'[1] = Sentinel
      BY <2>2, <3>1, <3>2, PushShape
    <3>5. queue' # << >> /\ Head(queue') = queue'[1]
      <4>1. Len(Tail(left)) \in Nat
        BY <3>1, LenProperties
      <4>2. queue' # << >>
        BY <3>4, <4>1
      <4>3. QED
        BY <3>4, <4>2, HeadTailProperties
    <3>6. QED
      BY <1>6, <2>1, <3>3, <3>4, <3>5 DEF HasSentinel, Made
  <2>4. Single({h})
    BY DEF Single
  <2>5. CASE kinds'[h] = Delay
    <3>1. /\ delays' = {h} /\ stack' = rest
          /\ hooks' = [hooks EXCEPT !.on = TRUE, !.stop = h]
          /\ UNCHANGED << timers, item >>
      BY <1>9, <2>5 DEF Dequeued, engine, left, h
    <3>2. DOMAIN hooks' = {"on", "stop", "unqueued"} /\ hooks'.stop = h
      BY <1>1, <3>1 DEF Known
    <3>3. \A i \in Item : Running(i)' <=> Running(i)
      BY <3>1 DEF Running
    <3>4. Known'
      BY <1>3, <1>4, <2>1, <2>3, <2>5, <3>1, <3>2, <3>3 DEF Known
    <3>5. Carried' = {}
      BY <1>3, <3>3, <3>4, NextCarriedIs
    <3>6. LoopsFit' /\ Finishes' /\ Stops'
      BY <1>1, <1>4, <3>1 DEF LoopsFit, Finishes, Stops, Moving, MovesOn
    <3>7. Even'
      BY <2>3, <2>4, <3>1, <3>5 DEF Even, Balanced
    <3>8. QED
      BY <3>4, <3>6, <3>7 DEF Sent
  <2>6. CASE kinds'[h] # Delay
    <3>1. /\ Launched(h, rest) /\ delays' = {}
          /\ hooks' = [hooks EXCEPT !.on = TRUE, !.stop = None]
      BY <1>9, <2>6 DEF Dequeued, left, h
    <3>2. DOMAIN hooks' = {"on", "stop", "unqueued"}
      BY <1>1, <3>1 DEF Known
    <3>3. /\ \A g \in Members(stack') : \/ g \in Members(rest)
                                        \/ g.kind = "launch"
                                        \/ g.kind = "tick" /\ ~ inProgress
          /\ Balanced(queue', {h}, rest, kinds') => Balanced(queue', {h}, stack', kinds')
          /\ \A j \in Item : Running(j)' <=> Running(j) \/ j = h
      BY <2>1, <3>1, LaunchedFrames
    <3>4. Known'
      BY <1>3, <1>4, <2>1, <2>3, <2>6, <3>1, <3>2, <3>3 DEF Known
    <3>5. Carried' = {h}
      BY <1>3, <2>1, <3>3, <3>4, NextCarriedIs
    <3>6. LoopsFit'
      <4>1. \A g \in Members(rest) : IsLoop(g) /\ g.i > 0 =>
              g.i <= Len(timers) /\ \A x \in Members(rest) : ~ IsTick(x)
        BY <1>1 DEF LoopsFit
      <4>2. QED
        BY <2>1, <3>1, <4>1, LaunchedFit
    <3>7. Finishes'
      BY <1>4, <3>3 DEF Finishes
    <3>8. Stops'
      BY <3>3 DEF Stops, Moving, MovesOn
    <3>9. Even'
      <4>1. Balanced(queue', {h}, rest, kinds')
        BY <2>3, <2>4 DEF Balanced
      <4>2. QED
        BY <3>1, <3>3, <3>5, <4>1 DEF Even
    <3>10. QED
      BY <3>4, <3>6, <3>7, <3>8, <3>9 DEF Sent
  <2>7. QED
    BY <2>5, <2>6
<1>10. QED
  BY <1>8, <1>9

-----------------------------------------------------------------------------
(* The sentinel: what the user puts into the queue, or starts *)

LEMMA KindsAppended ==
  ASSUME Waiting, NEW kind \in Kinds, Len(kinds) < MaxItems, kinds' = Append(kinds, kind)
  PROVE  /\ KindsGrow /\ Len(kinds) \in Nat
         /\ Len(kinds') = Len(kinds) + 1 /\ Len(kinds') \in Item
         /\ kinds'[Len(kinds')] = kind
<1>1. kinds \in Seq(Kinds) /\ Len(kinds) \in Nat
  BY LenProperties DEF Waiting
<1>2. /\ Len(kinds') = Len(kinds) + 1 /\ kinds'[Len(kinds) + 1] = kind
      /\ \A i \in 1 .. Len(kinds) : kinds'[i] = kinds[i]
  BY <1>1, AppendProperties
<1>3. Len(kinds') \in Item
  BY KindAppended
<1>4. QED
  BY <1>1, <1>2, <1>3 DEF KindsGrow, Item

\* new animations change nothing for the callbacks
LEMMA BalancedGrown ==
  ASSUME Structure, Known, KindsGrow, NEW q, NEW p, HasSentinel(p) <=> HasSentinel(q),
         NEW U, Balanced(q, U, stack, kinds)
  PROVE  Balanced(p, U, stack, kinds')
<1>1. stack \in Seq(Frame)
  BY DEF Structure, StackOK
<1>2. ASSUME NEW k \in 1 .. Len(stack)
      PROVE  IsCall(stack[k], kinds') <=> IsCall(stack[k], kinds)
  <2>1. stack[k] \in Members(stack) /\ stack[k] \in Frame
    BY <1>1, ElementOfSeq DEF Members
  <2>2. ASSUME stack[k].kind = "complete"  PROVE kinds'[stack[k].of] = kinds[stack[k].of]
    <3>1. stack[k].of \in Item
      <4>1. stack[k] \in Call
        BY <2>1, <2>2, FrameParts
      <4>2. QED
        BY <4>1 DEF Call
    <3>2. stack[k].of <= Len(kinds)
      BY <2>1, <2>2 DEF Known
    <3>3. QED
      BY <3>1, <3>2 DEF KindsGrow
  <2>3. QED
    BY <2>2 DEF IsCall
<1>3. Calm(stack, kinds) => Calm(stack, kinds')
  BY <1>2 DEF Calm
<1>4. OneCall(stack, kinds) => OneCall(stack, kinds')
  BY <1>2 DEF OneCall
<1>5. QED
  BY <1>3, <1>4 DEF Balanced

\* while the user's code runs no stop() is about to move the queue on
LEMMA UserSees ==
  ASSUME Structure, Sent, UserRuns
  PROVE  \A g \in Members(stack) : ~ Moving(g)
<1>1. CASE stack = << >>
  BY <1>1, MembersEmpty
<1>2. CASE stack # << >>
  <2>1. Top.kind = "complete"
    BY <1>2 DEF UserRuns, TopIs
  <2>2. QED
    BY <1>2, <2>1, NoneMoves DEF Sent, Moving
<1>3. QED
  BY <1>1, <1>2

\* what was made stays so
LEMMA MadeGrows ==
  ASSUME Waiting, KindsGrow, Len(kinds') \in Nat,
         NEW q \in Seq(Item \cup {Sentinel}), Made(q, kinds)
  PROVE  Made(q, kinds')
<1>1. Len(kinds) \in Nat /\ Members(q) \subseteq Item \cup {Sentinel}
  BY LenProperties, MembersTyped DEF Waiting
<1>2. ASSUME NEW i \in Members(q), i # Sentinel  PROVE i <= Len(kinds') /\ Waits(kinds'[i])
  <2>1. i \in Item /\ i <= Len(kinds) /\ Waits(kinds[i])
    BY <1>1, <1>2 DEF Made
  <2>2. i \in Nat
    BY <2>1 DEF Item
  <2>3. QED
    BY <1>1, <2>1, <2>2 DEF KindsGrow
<1>3. QED
  BY <1>2 DEF Made

LEMMA MadeAppended ==
  ASSUME Waiting, Known, NEW kind \in Kinds, Len(kinds) < MaxItems, Waits(kind),
         kinds' = Append(kinds, kind)
  PROVE  /\ QueueOK(Append(queue, Len(kinds')))
         /\ Made(Append(queue, Len(kinds')), kinds')
<1> DEFINE n == Len(kinds')
<1>1. /\ KindsGrow /\ n \in Item /\ n \in Nat /\ Waits(kinds'[n])
  BY KindsAppended DEF Item
<1>2. QueueOK(queue) /\ queue \in Seq(Item \cup {Sentinel}) /\ Made(queue, kinds)
  BY DEF Waiting, QueueOK, Known
<1>3. QueueOK(Append(queue, n)) /\ Members(Append(queue, n)) = Members(queue) \cup {n}
  BY <1>1, <1>2, QueueAppended, MembersAppended
<1>4. Made(queue, kinds')
  BY <1>1, <1>2, MadeGrows
<1> HIDE DEF n
<1>5. ASSUME NEW i \in Members(Append(queue, n)), i # Sentinel
      PROVE  i <= n /\ Waits(kinds'[i])
  <2>1. CASE i = n
    <3>1. i <= n
      BY <1>1, <2>1
    <3>2. Waits(kinds'[i])
      BY <1>1, <2>1, Zenon
    <3>3. QED
      BY <3>1, <3>2
  <2>2. CASE i # n
    BY <1>3, <1>4, <1>5, <2>2 DEF Made, n
  <2>3. QED
    BY <2>1, <2>2
<1>6. QED
  BY <1>3, <1>5 DEF Made, n

LEMMA EnqueueSent ==
  ASSUME Structure, Waiting, Waiting', Sent, NEW kind \in Kinds, Enqueue(kind), ~ meddled'
  PROVE  Sent'
<1> DEFINE n == Len(kinds')
<1>1. /\ UserRuns /\ ~ finishing /\ finishing' = finishing
      /\ Len(kinds) < MaxItems /\ kinds' = Append(kinds, kind)
      /\ Waits(kind)
  BY DEF Enqueue
<1>2. /\ KindsGrow /\ Len(kinds) \in Nat /\ n = Len(kinds) + 1 /\ n \in Item
      /\ kinds'[n] = kind /\ Waits(kinds'[n])
  BY <1>1, KindsAppended
<1>3. Known /\ LoopsFit /\ Finishes /\ \A g \in Members(stack) : ~ Moving(g)
  BY <1>1, UserSees DEF Sent
<1>4. Even
  BY <1>1, <1>3 DEF Sent
<1>5. stack \in Seq(Frame) /\ QueueOK(queue) /\ queue \in Seq(Item \cup {Sentinel})
  BY DEF Structure, StackOK, Waiting, QueueOK
<1>6. QueueOK(Append(queue, n)) /\ Made(Append(queue, n), kinds')
  BY <1>1, <1>2, <1>3, MadeAppended
<1>8. CASE HasSentinel(queue)
  <2>1. /\ queue' = Append(queue, n)
        /\ hooks' = [hooks EXCEPT !.on = TRUE]
        /\ UNCHANGED << delays, timers, item, stack >>
    BY <1>8 DEF Enqueue, HasSentinel, engine
  <2>2. HasSentinel(queue')
    <3>1. Len(queue) \in Nat \ {0} /\ Len(queue') = Len(queue) + 1 /\ queue'[1] = queue[1]
      <4>1. queue # << >> /\ n \in Item \cup {Sentinel}
        BY <1>2, <1>8 DEF HasSentinel
      <4>2. Len(queue) \in Nat \ {0}
        BY <1>5, <4>1, EmptySeq, LenProperties
      <4>3. QED
        BY <1>5, <2>1, <4>1, <4>2, AppendProperties
    <3>2. queue' \in Seq(Item \cup {Sentinel}) /\ queue' # << >>
      BY <1>6, <2>1, <3>1 DEF QueueOK
    <3>3. Head(queue') = queue'[1] /\ Head(queue) = queue[1]
      BY <1>5, <1>8, <3>2, HeadTailProperties DEF HasSentinel
    <3>4. QED
      BY <1>8, <3>1, <3>2, <3>3 DEF HasSentinel
  <2>3. \A i \in Item : /\ Running(i)' <=> Running(i)
                        /\ Running(i) => i <= n /\ kinds'[i] = kinds[i]
    <3>1. \A i \in Item : Running(i)' <=> Running(i)
      BY <2>1 DEF Running
    <3>2. QED
      BY <1>2, <1>3, <3>1 DEF Known, KindsGrow, Item
  <2>4. Known'
    <3>1. DOMAIN hooks' = {"on", "stop", "unqueued"} /\ hooks'.stop = hooks.stop
      BY <1>3, <2>1 DEF Known
    <3>2. Made(queue', kinds')
      BY <1>6, <2>1
    <3>3. \A i \in delays : i \in Item /\ i <= n /\ kinds'[i] = Delay
      BY <1>2, <1>3 DEF Known, KindsGrow, Item
    <3>4. \A i \in Item : Running(i)' => i <= n /\ kinds'[i] # Delay
      BY <1>3, <2>3 DEF Known
    <3>5. ASSUME NEW g \in Members(stack)
          PROVE  /\ g.kind = "complete" => g.of <= n
                 /\ g.kind = "finish" => Made(g.old, kinds')
      <4>1. g \in Frame /\ g.kind # "finish"
        BY <1>1, <1>3, <1>5, MembersTyped DEF Finishes
      <4>2. g.kind = "complete" => g \in Call /\ g.of <= Len(kinds)
        BY <1>3, <3>5, <4>1, FrameParts DEF Known
      <4>3. g.kind = "complete" => g.of \in Nat
        BY <4>2 DEF Call, Item
      <4>4. QED
        BY <1>2, <4>1, <4>2, <4>3
    <3>6. delays \subseteq {hooks.stop}
      BY <1>3 DEF Known
    <3>7. QED
      BY <2>1, <3>1, <3>2, <3>3, <3>4, <3>5, <3>6 DEF Known
  <2>5. Carried' = Carried
    <3>1. /\ Carried = {i \in Item : Running(i) /\ Waits(kinds[i])}
          /\ Carried' = {i \in Item : Running(i)' /\ Waits(kinds'[i])}
      BY <1>3, <2>4, CarriedIs, NextCarriedIs
    <3>2. QED
      BY <2>3, <3>1
  <2>6. LoopsFit' /\ Finishes' /\ Stops'
    BY <1>1, <1>3, <2>1 DEF LoopsFit, Finishes, Stops, Moving, MovesOn
  <2>7. Even'
    <3>1. Balanced(queue', delays \cup Carried, stack, kinds')
      BY <1>2, <1>3, <1>4, <1>8, <2>2, BalancedGrown DEF Even
    <3>2. QED
      BY <2>1, <2>5, <3>1 DEF Even
  <2>8. QED
    BY <2>4, <2>6, <2>7 DEF Sent
<1>9. CASE ~ HasSentinel(queue)
  <2>1. Dequeued(Append(queue, n), delays, stack)
    BY <1>9 DEF Enqueue, HasSentinel
  <2>2. delays = {} /\ Carried = {}
    BY <1>4, <1>9 DEF Even, Balanced
  <2>3. Calm(stack, kinds')
    <3>1. Balanced(queue, {}, stack, kinds')
      BY <1>2, <1>3, <1>4, <2>2, BalancedGrown DEF Even
    <3>2. QED
      BY <1>9, <3>1 DEF Balanced
  <2>4. Dequeued(Append(queue, n), {}, stack)
    BY <2>1, <2>2
  <2>5. QED
    BY <1>1, <1>2, <1>3, <1>5, <1>6, <2>2, <2>3, <2>4, DequeuedSent
<1>10. QED
  BY <1>8, <1>9

LEMMA SkipSent ==
  ASSUME Structure, Waiting, Waiting', Sent, NEW kind \in Kinds, Skip(kind), ~ meddled'
  PROVE  Sent'
<1> DEFINE n == Len(kinds')
<1>1. /\ UserRuns /\ Len(kinds) < MaxItems /\ kinds' = Append(kinds, kind)
      /\ kind # Delay /\ ~ Waits(kind)
      /\ hooks' = IF kind.queue THEN hooks
                                ELSE [hooks EXCEPT !.on = TRUE, !.unqueued = @ + 1]
      /\ Launched(n, stack)
      /\ UNCHANGED << queue, delays, finishing >>
  BY DEF Skip, Waits, Delay
<1>2. /\ KindsGrow /\ Len(kinds) \in Nat /\ n = Len(kinds) + 1 /\ n \in Item
      /\ kinds'[n] # Delay /\ ~ Waits(kinds'[n])
  BY <1>1, KindsAppended
<1>3. Known /\ LoopsFit /\ Finishes /\ \A g \in Members(stack) : ~ Moving(g)
  BY <1>1, UserSees DEF Sent
<1>4. stack \in Seq(Frame) /\ queue \in Seq(Item \cup {Sentinel})
  BY DEF Structure, StackOK, Waiting, QueueOK
<1>5. /\ Members(stack) \subseteq Members(stack')
      /\ \A h \in Members(stack') : \/ h \in Members(stack)
                                    \/ h.kind = "launch"
                                    \/ h.kind = "tick"
      /\ \A ks, q, U : Balanced(q, U, stack, ks) => Balanced(q, U, stack', ks)
      /\ timers' = Append(timers, n)
      /\ \A j \in Item : Running(j)' <=> Running(j) \/ j = n
  BY <1>1, <1>2, <1>4, LaunchedFrames
<1>6. \A i \in Item : Running(i) => i <= n /\ kinds'[i] = kinds[i]
  BY <1>2, <1>3 DEF Known, KindsGrow, Item
<1>7. Known'
  <2>1. DOMAIN hooks' = {"on", "stop", "unqueued"} /\ hooks'.stop = hooks.stop
    BY <1>1, <1>3 DEF Known
  <2>2. Made(queue, kinds')
    BY <1>2, <1>3, <1>4, MadeGrows DEF Known
  <2>3. \A i \in delays : i \in Item /\ i <= n /\ kinds'[i] = Delay
    BY <1>2, <1>3 DEF Known, KindsGrow, Item
  <2>4. \A i \in Item : Running(i)' => i <= n /\ kinds'[i] # Delay
    BY <1>2, <1>3, <1>5, <1>6 DEF Known, Item
  <2>5. ASSUME NEW g \in Members(stack')
        PROVE  /\ g.kind = "complete" => g.of <= n
               /\ g.kind = "finish" => Made(g.old, kinds')
    <3>1. CASE g.kind = "complete"
      <4>1. g \in Members(stack) /\ g \in Frame
        BY <1>4, <1>5, <2>5, <3>1, MembersTyped
      <4>2. g \in Call /\ g.of <= Len(kinds)
        BY <1>3, <3>1, <4>1, FrameParts DEF Known
      <4>3. g.of \in Nat
        BY <4>2 DEF Call, Item
      <4>4. QED
        BY <1>2, <3>1, <4>2, <4>3
    <3>2. CASE g.kind = "finish"
      <4>1. g \in Members(stack) /\ g \in Frame
        BY <1>4, <1>5, <2>5, <3>2, MembersTyped
      <4>2. g \in Loop
        BY <3>2, <4>1, FrameParts DEF IsLoop
      <4>3. g.old \in Seq(Item \cup {Sentinel})
        BY <3>2, <4>2 DEF Loop, QueueOK
      <4>4. Made(g.old, kinds)
        BY <1>3, <3>2, <4>1 DEF Known
      <4>5. Made(g.old, kinds')
        BY <1>2, <4>3, <4>4, MadeGrows
      <4>6. QED
        BY <3>2, <4>5
    <3>3. QED
      BY <3>1, <3>2
  <2>6. delays \subseteq {hooks.stop}
    BY <1>3 DEF Known
  <2>7. QED
    BY <1>1, <2>1, <2>2, <2>3, <2>4, <2>5, <2>6 DEF Known
<1>8. Carried' = Carried
  <2>1. /\ Carried = {i \in Item : Running(i) /\ Waits(kinds[i])}
        /\ Carried' = {i \in Item : Running(i)' /\ Waits(kinds'[i])}
    BY <1>3, <1>7, CarriedIs, NextCarriedIs
  <2>2. Running(n) => n <= Len(kinds)
    BY <1>2, <1>3 DEF Known
  <2>3. QED
    BY <1>2, <1>5, <1>6, <2>1, <2>2
<1>9. LoopsFit'
  BY <1>1, <1>2, <1>3, <1>4, LaunchedFit DEF LoopsFit
<1>10. Finishes'
  <2>1. finishing' <=> \E g \in Members(stack') : g.kind = "finish"
    BY <1>1, <1>3, <1>5 DEF Finishes
  <2>2. finishing' => queue' = << >> /\ delays' = {}
    BY <1>1, <1>3 DEF Finishes
  <2>3. (\E h \in Members(stack') : h.kind = "splice")
           <=> \E h \in Members(stack) : h.kind = "splice"
    BY <1>5
  <2>4. /\ Len(timers) \in Nat /\ Len(timers') = Len(timers) + 1
        /\ \A k \in 1 .. Len(timers) : timers'[k] = timers[k]
    BY <1>2, <1>5, TimersGrow DEF Structure
  <2>5. \A i, g : Due(i, g, Members(stack), timers) => Due(i, g, Members(stack'), timers')
    <3>1. 1 .. Len(timers) \subseteq 1 .. Len(timers')
      BY <2>4
    <3>2. QED
      BY <2>3, <2>4, <3>1 DEF Due
  <2>6. \A g \in Members(stack') : g.kind = "finish" => g \in Members(stack)
    BY <1>5
  <2>7. QED
    BY <1>3, <1>5, <1>8, <2>1, <2>2, <2>5, <2>6 DEF Finishes
<1>11. \A g \in Members(stack') : ~ Moving(g)
  BY <1>3, <1>5 DEF Moving
<1>12. Stops'
  BY <1>11 DEF Stops, Moving, MovesOn
<1>13. ~ finishing' => Even'
  <2>1. SUFFICES ASSUME ~ finishing  PROVE Even'
    BY <1>1
  <2>2. Even
    BY <1>3, <2>1 DEF Sent
  <2>3. Balanced(queue, delays \cup Carried, stack, kinds')
    BY <1>2, <1>3, <2>2, BalancedGrown DEF Even
  <2>4. Balanced(queue, delays \cup Carried, stack', kinds')
    BY <1>5, <2>3
  <2>5. QED
    BY <1>1, <1>8, <2>4 DEF Even
<1>14. QED
  BY <1>7, <1>9, <1>10, <1>12, <1>13 DEF Sent

-----------------------------------------------------------------------------
(* The sentinel: what has ended lets the queue move on *)

LEMMA SameKinds ==
  ASSUME Waiting, kinds' = kinds, Known
  PROVE  /\ KindsGrow
         /\ QueueOK(queue)
         /\ Made(queue, kinds')
<1>1. Len(kinds) \in Nat
  BY LenProperties DEF Waiting
<1>2. QED
  BY <1>1 DEF KindsGrow, Waiting, Known

\* what calls jQuery.dequeue() has ended, and nothing else of the queue runs
LEMMA ReturnAlone ==
  ASSUME Structure, Sent, stack # << >>, Top.kind = "complete", Waits(kinds[Top.of]), ~ finishing
  PROVE  delays = {} /\ Carried = {} /\ Calm(Rest, kinds)
<1>1. \A g \in Members(stack) : ~ Moving(g)
  BY NoneMoves DEF Sent, Moving
<1>2. stack \in Seq(Frame) /\ Top \in Members(stack)
  BY StackMembers
<1>3. IsCall(Top, kinds) /\ ~ Calm(stack, kinds)
  <2>1. IsCall(Top, kinds)
    BY DEF IsCall
  <2>2. QED
    BY <1>2, <2>1, CalmSet
<1>4. delays \cup Carried = {} /\ OneCall(stack, kinds)
  BY <1>1, <1>3 DEF Sent, Even, Balanced
<1>5. QED
  BY <1>2, <1>3, <1>4, CallPopped DEF Top, Rest

LEMMA TimeoutAlone ==
  ASSUME Structure, Sent, stack = << >>, NEW i \in delays
  PROVE  ~ finishing /\ delays \ {i} = {} /\ Carried = {}
<1>1. Members(stack) = {}
  BY MembersEmpty
<1>2. Known /\ ~ finishing /\ Even
  BY <1>1 DEF Sent, Finishes
<1>3. Single(delays \cup Carried)
  <2>1. Balanced(queue, delays \cup Carried, << >>, kinds)
    BY <1>2 DEF Even
  <2>2. QED
    BY <2>1, BalancedEmpty
<1>4. delays \cup Carried = {i}
  BY <1>3 DEF Single
<1>5. delays \cap Carried = {}
  BY <1>2, DelaysAreNotCarried
<1>6. QED
  BY <1>2, <1>4, <1>5

LEMMA StopEndsAlone ==
  ASSUME Structure, Waiting, GoOn(stack), Sent, stack # << >>, Top.kind = "stop", Top.i = 0,
         MovesOn(Top)
  PROVE  Rest = << >> /\ ~ finishing /\ delays = {} /\ Carried = {}
<1>1. IsLoop(Top) /\ Rest = << >> /\ Members(stack) = {Top} /\ Top \in Frame
  BY LoopAlone, LoopIsFrame DEF IsLoop
<1>2. Moving(Top) /\ Known /\ Stops
  BY DEF Moving, Sent
<1>3. ~ finishing
  BY <1>1 DEF Sent, Finishes
<1>4. delays = {} /\ \A i \in Runners : Due(i, Top, Members(stack), timers)
  BY <1>1, <1>2 DEF Stops
<1>5. Runners = {}
  BY <1>1, <1>4, NotDue
<1>6. Carried = {}
  BY <1>2, <1>5, CarriedIs DEF Runners
<1>7. QED
  BY <1>1, <1>3, <1>4, <1>6

LEMMA ReturnSent ==
  ASSUME Structure, Waiting, Waiting', Sent, Return, ~ hurried'
  PROVE  Sent'
<1>1. /\ stack # << >> /\ Top.kind = "complete"
      /\ UNCHANGED << finishing, kinds >>
  BY DEF Return, TopIs
<1>2. /\ Known /\ LoopsFit /\ Finishes
      /\ \A g \in Members(stack) : ~ Moving(g)
  BY <1>1, NoneMoves DEF Sent, Moving
<1>3. /\ stack \in Seq(Frame) /\ Rest \in Seq(Frame)
      /\ Members(stack) = {Top} \cup Members(Rest)
  BY <1>1, StackMembers
<1>4. ~ finishing => Even
  BY <1>2 DEF Sent
<1>5. CASE ~ Queued(Top.of)
  <2>1. /\ Counted(Top.of) /\ stack' = Rest
        /\ UNCHANGED << queue, timers, delays, item >>
    BY <1>5 DEF Return, engine
  <2>2. queue = << >> => delays = {}
    BY <1>2, <1>4 DEF Finishes, Even, Balanced, HasSentinel
  <2>3. DOMAIN hooks' = {"on", "stop", "unqueued"} /\ delays \subseteq {hooks'.stop}
    <3>1. /\ DOMAIN hooks' = {"on", "stop", "unqueued"}
          /\ hooks'.stop = hooks.stop \/ queue = << >>
      BY <1>2, <2>1, CountedHooks
    <3>2. delays \subseteq {hooks.stop}
      BY <1>2 DEF Known
    <3>3. QED
      BY <2>2, <3>1, <3>2
  <2>4. Carried' = Carried /\ \A i \in Item : Running(i)' <=> Running(i)
    BY <1>1, <2>1 DEF Carried, Running
  <2>5. Even => Even'
    <3>1. ~ IsCall(stack[1], kinds)
      BY <1>5 DEF IsCall, Top, Queued, Waits
    <3>2. Even => Balanced(queue, delays \cup Carried, Rest, kinds)
      BY <1>1, <1>3, <3>1, BalancedPopped DEF Even, Rest
    <3>3. QED
      BY <1>1, <2>1, <2>4, <3>2 DEF Even
  <2>6. QED
    BY <1>1, <2>1, <2>3, <2>4, <2>5, CallSent
<1>6. CASE Waits(kinds[Top.of]) /\ ~ finishing
  <2>1. Dequeued(queue, delays, Rest)
    BY <1>6 DEF Return, Queued, Waits
  <2>2. delays = {} /\ Carried = {} /\ Calm(Rest, kinds')
    BY <1>1, <1>6, ReturnAlone
  <2>3. Dequeued(queue, {}, Rest)
    BY <2>1, <2>2
  <2>4. QED
    BY <1>1, <1>2, <1>3, <1>6, <2>2, <2>3, SameKinds, DequeuedSent
<1>7. CASE Queued(Top.of) /\ (finishing \/ ~ Waits(kinds[Top.of]))
  <2>1. queue = << >>
    <3>1. CASE finishing
      BY <1>2, <3>1 DEF Finishes
    <3>2. CASE ~ Waits(kinds[Top.of])
      BY <1>7, <3>2 DEF Return, Hurries
    <3>3. QED
      BY <1>7, <3>1, <3>2
  <2>2. delays = {}
    BY <1>2, <1>4, <2>1 DEF Finishes, Even, Balanced, HasSentinel
  <2>3. Dequeued(<< >>, {}, Rest)
    <3>1. Dequeued(queue, delays, Rest)
      BY <1>7 DEF Return
    <3>2. QED
      BY <2>1, <2>2, <3>1
  <2>4. WithoutSentinel(<< >>) = << >>
    BY DEF WithoutSentinel
  <2>5. /\ queue' = << >> /\ hooks' = Fired(hooks) /\ delays' = {} /\ stack' = Rest
        /\ UNCHANGED << timers, item >>
    BY <2>3, <2>4 DEF Dequeued, engine
  <2>6. DOMAIN hooks' = {"on", "stop", "unqueued"}
    BY <1>2, <2>5 DEF Known, Fired, NoHooks
  <2>7. Carried' = Carried /\ \A i \in Item : Running(i)' <=> Running(i)
    BY <1>1, <2>5 DEF Carried, Running
  <2>8. ~ finishing /\ Even => Even'
    <3>1. SUFFICES ASSUME ~ finishing, Even  PROVE Even'
      OBVIOUS
    <3>2. ~ IsCall(stack[1], kinds)
      BY <1>7, <3>1 DEF IsCall, Top
    <3>3. Balanced(queue, delays \cup Carried, Rest, kinds)
      BY <1>1, <1>3, <3>1, <3>2, BalancedPopped DEF Even, Rest
    <3>4. QED
      BY <1>1, <2>1, <2>2, <2>5, <2>7, <3>3 DEF Even
  <2>9. QED
    BY <1>1, <2>1, <2>2, <2>5, <2>6, <2>7, <2>8, CallSent
<1>8. QED
  BY <1>5, <1>6, <1>7 DEF Queued, Waits

LEMMA TimeoutSent ==
  ASSUME Structure, Waiting, Waiting', Sent, NEW i \in Item, Timeout(i)
  PROVE  Sent'
<1>1. /\ stack = << >> /\ i \in delays
      /\ Dequeued(queue, delays \ {i}, << >>)
      /\ UNCHANGED << finishing, kinds >>
  BY DEF Timeout
<1>2. ~ finishing /\ delays \ {i} = {} /\ Carried = {} /\ Known
  BY <1>1, TimeoutAlone DEF Sent
<1>3. Dequeued(queue, {}, << >>)
  BY <1>1, <1>2
<1>4. Calm(<< >>, kinds') /\ << >> \in Seq(Frame)
  BY DEF Calm
<1>5. QED
  BY <1>1, <1>2, <1>3, <1>4, SameKinds, MembersEmpty, DequeuedSent

LEMMA StopEndsSent ==
  ASSUME Structure, Waiting, Waiting', GoOn(stack), Sent, StopEnds
  PROVE  Sent'
<1>1. CASE ~ MovesOn(Top)
  BY <1>1, StopEndsQuietly
<1>2. CASE MovesOn(Top)
  <2>1. /\ stack # << >> /\ IsLoop(Top) /\ Top.kind = "stop" /\ Top.i = 0
        /\ Dequeued(queue, delays, Rest)
        /\ UNCHANGED << finishing, kinds >>
    BY <1>2 DEF StopEnds, TopIs, IsLoop
  <2>2. Rest = << >> /\ ~ finishing /\ delays = {} /\ Carried = {} /\ Known
    BY <1>2, <2>1, StopEndsAlone DEF Sent
  <2>3. Dequeued(queue, {}, << >>)
    BY <2>1, <2>2
  <2>4. Calm(<< >>, kinds') /\ << >> \in Seq(Frame)
    BY DEF Calm
  <2>5. QED
    BY <2>1, <2>2, <2>3, <2>4, SameKinds, MembersEmpty, DequeuedSent
<1>3. QED
  BY <1>1, <1>2

LEMMA FinishOldSent ==
  ASSUME Structure, Waiting, Waiting', GoOn(stack), Sent, FinishOld
  PROVE  Sent'
<1> DEFINE i == Head(Top.old)
           f == [Top EXCEPT !.old = Tail(@)]
           on == << f >> \o Rest
<1>1. /\ stack # << >> /\ Top.kind = "finish" /\ IsLoop(Top)
      /\ Top.i = 0 /\ Top.old # << >>
      /\ UNCHANGED << queue, hooks, delays, finishing, kinds >>
  BY DEF FinishOld, TopIs, IsLoop
<1>2. Top \in Loop /\ Top \in Frame /\ Rest = << >> /\ Members(stack) = {Top}
  BY <1>1, LoopAlone, LoopIsFrame
<1>3. Top \in [kind : {"finish"}, i : Nat, old : Seq(Item \cup {Sentinel})]
  BY <1>1, <1>2 DEF Loop
<1>4. i \in Item \cup {Sentinel} /\ Tail(Top.old) \in Seq(Item \cup {Sentinel})
  BY <1>1, <1>3, HeadTailProperties
<1>5. /\ f \in Loop /\ f \in Frame /\ f.kind = "finish" /\ f.i = 0
      /\ f.old = Tail(Top.old)
  BY <1>1, <1>3, <1>4 DEF Loop, Frame
<1>6. IF i = Sentinel \/ kinds[i] = Delay
        THEN stack' = on /\ UNCHANGED << timers, item >>
        ELSE Launched(i, on)
  BY DEF FinishOld, engine
<1>7. Known /\ finishing /\ queue = << >> /\ delays = {}
  BY <1>1, <1>2 DEF Sent, Finishes
<1>8. i \in Members(Top.old) /\ Members(f.old) \subseteq Members(Top.old)
  BY <1>1, <1>3, <1>5, MembersPopped
<1>9. Made(f.old, kinds) /\ (i # Sentinel => i <= Len(kinds))
  BY <1>1, <1>2, <1>7, <1>8 DEF Known, Made
<1>10. Carried = {}
  <2>1. \A j \in Carried : Due(j, Top, Members(stack), timers)
    BY <1>1, <1>2 DEF Sent, Finishes
  <2>2. QED
    BY <1>1, <1>2, <2>1, NotDue
<1> HIDE DEF f, i
<1>11. on \in Seq(Frame) /\ Members(on) = {f}
  <2>1. Rest \in Seq(Frame) /\ Members(Rest) = {}
    BY <1>2, MembersEmpty
  <2>2. QED
    BY <1>5, <2>1, FramePushed
<1> HIDE DEF on
<1>12. Made(queue', kinds')
  BY <1>1, <1>7, MembersEmpty DEF Made
<1>13. CASE i = Sentinel \/ kinds[i] = Delay
  <2>1. stack' = on /\ UNCHANGED << timers, item >>
    BY <1>6, <1>13
  <2>2. Members(stack') = {f}
    BY <1>11, <2>1
  <2>3. Carried' = {} /\ \A j \in Item : Running(j)' <=> Running(j)
    BY <1>1, <1>10, <2>1 DEF Carried, Running
  <2>4. Known'
    BY <1>1, <1>5, <1>7, <1>9, <1>12, <2>2, <2>3 DEF Known
  <2>5. LoopsFit'
    BY <1>5, <2>2 DEF LoopsFit
  <2>6. Finishes'
    BY <1>1, <1>5, <1>7, <2>2, <2>3 DEF Finishes
  <2>7. Stops'
    BY <1>5, <2>2 DEF Stops, Moving
  <2>8. QED
    BY <1>1, <1>7, <2>4, <2>5, <2>6, <2>7 DEF Sent
<1>14. CASE ~ (i = Sentinel \/ kinds[i] = Delay)
  <2>1. Launched(i, on) /\ i \in Item
    BY <1>4, <1>6, <1>14
  <2>2. /\ {f} \subseteq Members(stack')
        /\ \E h \in Members(stack') : h.kind = "launch" /\ h.of = i
        /\ \A h \in Members(stack') : h = f \/ h.kind = "launch" \/ h.kind = "tick"
        /\ \A j \in Item : Running(j)' <=> Running(j) \/ j = i
    BY <1>11, <2>1, LaunchedFrames
  <2>3. Known'
    <3>1. \A j \in Item : Running(j)' => j <= Len(kinds') /\ kinds'[j] # Delay
      BY <1>1, <1>7, <1>9, <1>14, <2>2 DEF Known
    <3>2. QED
      BY <1>1, <1>5, <1>7, <1>9, <1>12, <2>2, <3>1 DEF Known
  <2>4. Carried' \subseteq {i}
    <3>1. Carried = {j \in Item : Running(j) /\ Waits(kinds[j])}
      BY <1>7, CarriedIs
    <3>2. Carried' = {j \in Item : Running(j)' /\ Waits(kinds'[j])}
      BY <2>3, NextCarriedIs
    <3>3. QED
      BY <1>1, <1>10, <2>2, <3>1, <3>2
  <2>5. LoopsFit'
    <3>1. \A g \in Members(on) : IsLoop(g) /\ g.i > 0 =>
             g.i <= Len(timers) /\ \A h \in Members(on) : ~ IsTick(h)
      BY <1>5, <1>11
    <3>2. QED
      BY <1>11, <2>1, <3>1, LaunchedFit
  <2>6. Finishes'
    BY <1>1, <1>5, <1>7, <2>2, <2>4 DEF Finishes
  <2>7. Stops'
    BY <1>5, <2>2 DEF Stops, Moving
  <2>8. QED
    BY <1>1, <1>7, <2>3, <2>5, <2>6, <2>7 DEF Sent
<1>15. QED
  BY <1>13, <1>14

-----------------------------------------------------------------------------
(* The sentinel: the theorem *)

LEMMA SentInit == Init => SentInv
<1> SUFFICES ASSUME Init  PROVE Sent
  BY DEF SentInv
<1>1. /\ queue = << >> /\ stack = << >> /\ kinds = << >> /\ delays = {}
      /\ ~ finishing /\ hooks = NoHooks /\ \A i \in Item : ~ Running(i)
  BY DEF Init, Running, NoItem
<1>2. Made(queue, kinds) /\ Members(stack) = {}
  BY <1>1, MembersEmpty DEF Made
<1>3. Known
  BY <1>1, <1>2 DEF Known, NoHooks
<1>4. Carried = {}
  BY <1>1 DEF Carried
<1>5. Even
  <2>1. Balanced(<< >>, {}, << >>, kinds)
    BY BalancedEmpty DEF HasSentinel
  <2>2. QED
    BY <1>1, <1>4, <2>1 DEF Even
<1>6. LoopsFit /\ Finishes /\ Stops
  BY <1>1, <1>2 DEF LoopsFit, Finishes, Stops
<1>7. QED
  BY <1>3, <1>5, <1>6 DEF Sent

LEMMA SentStutter ==
  ASSUME Sent, UNCHANGED vars
  PROVE  Sent'
<1>1. UNCHANGED << queue, hooks, timers, delays, finishing, kinds, item, stack >>
  BY DEF vars, engine
<1>2. Carried' = Carried /\ Runners' = Runners /\ \A i : Running(i)' <=> Running(i)
  BY <1>1 DEF Carried, Runners, Running
<1>3. Known' /\ LoopsFit' /\ Finishes' /\ Stops'
  BY <1>1, <1>2 DEF Sent, Known, LoopsFit, Finishes, Stops, Moving, MovesOn
<1>4. QED
  BY <1>1, <1>2, <1>3 DEF Sent, Even, Moving, MovesOn

\* who has meddled has done so for good
LEMMA MeddledStays ==
  ASSUME [Next]_vars, meddled
  PROVE  meddled'
<1>1. CASE UNCHANGED vars
  BY <1>1 DEF vars, history
<1>2. CASE Run
  BY <1>2 DEF Run, TickOn, TickLast, Ticked, TickEnds, Launch, PassTimer, EndTimer, BreakTimer,
              Splice, Crash, StopEnds, FinishOld, FinishEnds, history
<1>3. CASE User
  BY <1>3 DEF User, Enqueue, Skip, ShowHide, AskPromise, ClearQueue, Finish, Stop, Throw, Meddle,
              history
<1>4. CASE Return \/ Browser
  BY <1>4 DEF Return, Browser, Schedule, Timeout, history
<1>5. QED
  BY <1>1, <1>2, <1>3, <1>4 DEF Next

\* and so has what was hurried
LEMMA HurriedStays ==
  ASSUME [Next]_vars, hurried
  PROVE  hurried'
<1>1. CASE UNCHANGED vars
  BY <1>1 DEF vars, history
<1>2. CASE Run
  BY <1>2 DEF Run, TickOn, TickLast, Ticked, TickEnds, Launch, PassTimer, EndTimer, BreakTimer,
              Splice, Crash, StopEnds, FinishOld, FinishEnds, history
<1>3. CASE User
  BY <1>3 DEF User, Enqueue, Skip, ShowHide, AskPromise, ClearQueue, Finish, Stop, Throw, history
<1>4. CASE Return \/ Browser
  BY <1>4 DEF Return, Browser, Schedule, Timeout, history
<1>5. QED
  BY <1>1, <1>2, <1>3, <1>4 DEF Next

LEMMA SentStep ==
  ASSUME Inv, Inv', SentInv, [Next]_vars
  PROVE  SentInv'
<1> SUFFICES ASSUME ~ meddled', ~ hurried'  PROVE Sent'
  BY DEF SentInv
<1>1. ~ meddled /\ ~ hurried
  BY MeddledStays, HurriedStays
<1>2. Structure /\ Waiting /\ Waiting' /\ GoOn(stack) /\ Sent
  BY <1>1 DEF Inv, GoInv, SentInv
<1>3. CASE UNCHANGED vars
  BY <1>2, <1>3, SentStutter
<1>4. CASE TickOn \/ TickLast \/ Ticked \/ TickEnds \/ Launch
  BY <1>2, <1>4, TickOnSent, TickLastSent, TickedSent, TickEndsSent, LaunchSent
<1>5. CASE PassTimer \/ EndTimer \/ BreakTimer \/ Splice \/ Crash
  BY <1>2, <1>5, PassTimerSent, EndTimerSent, BreakTimerSent, SpliceSent, NeverCrashes
<1>6. CASE StopEnds \/ FinishOld \/ FinishEnds
  BY <1>2, <1>6, StopEndsSent, FinishOldSent, FinishEndsSent
<1>7. ASSUME NEW kind \in Kinds, Enqueue(kind) \/ Skip(kind)  PROVE Sent'
  BY <1>2, <1>7, EnqueueSent, SkipSent
<1>8. ASSUME NEW show \in BOOLEAN, ShowHide(show) \/ AskPromise  PROVE Sent'
  BY <1>2, <1>8, QuietSent
<1>9. CASE AskPromise
  <2>1. TRUE \in BOOLEAN
    OBVIOUS
  <2>2. QED
    BY <1>8, <1>9, <2>1
<1>10. ASSUME NEW clear \in BOOLEAN, NEW toEnd \in BOOLEAN, Stop(clear, toEnd)  PROVE Sent'
  BY <1>2, <1>10, StopSent
<1>11. CASE Finish
  BY <1>2, <1>11, FinishSent
<1>12. CASE ClearQueue \/ Throw
  BY <1>12 DEF ClearQueue, Throw, Meddle
<1>13. CASE Return
  BY <1>2, <1>13, ReturnSent
<1>14. CASE Schedule
  BY <1>2, <1>14, ScheduleSent
<1>15. ASSUME NEW i \in Item, Timeout(i)  PROVE Sent'
  BY <1>2, <1>15, TimeoutSent
<1>16. CASE Run
  BY <1>4, <1>5, <1>6, <1>16 DEF Run
<1>17. CASE User
  BY <1>7, <1>8, <1>9, <1>10, <1>11, <1>12, <1>17 DEF User
<1>18. QED
  BY <1>3, <1>13, <1>14, <1>15, <1>16, <1>17 DEF Next, Browser

LEMMA SentInvHolds == Spec => []SentInv
<1>1. Inv /\ Inv' /\ SentInv /\ [Next]_vars => SentInv'
  BY SentStep
<1>2. QED
  BY <1>1, SentInit, FxInvHolds, PTL DEF Spec

(* The sentinel stands at the head of the queue exactly while one          *)
(* animation or delay of the queue is under way, whatever was started,     *)
(* stopped and finished, by whom and in what order: so the queue neither   *)
(* hangs nor runs two at a time.  (Unless the user has meddled, or an      *)
(* empty animation has moved the queue on.)                                *)
\* jquery-3.6.1.js:4577-4609, 7768-7772, 7809-7862
THEOREM SentinelIsTrueHolds == Spec => []SentinelIsTrue
<1>1. SentInv => SentinelIsTrue
  <2> SUFFICES ASSUME Sent, stack = << >>
               PROVE  Cardinality(UnderWay) = IF HasSentinel(queue) THEN 1 ELSE 0
    BY DEF SentInv, SentinelIsTrue, AtRest, HasSentinel
  <2>1. Even
    <3>1. Members(stack) = {}
      BY MembersEmpty
    <3>2. QED
      BY <3>1 DEF Sent, Finishes
  <2>2. UnderWay = delays \cup Carried
    BY DEF UnderWay, Carried
  <2>3. IF HasSentinel(queue) THEN Single(UnderWay) ELSE UnderWay = {}
    BY <2>1, <2>2, BalancedEmpty DEF Even
  <2>4. CASE HasSentinel(queue)
    <3>1. PICK i : UnderWay = {i}
      BY <2>3, <2>4 DEF Single
    <3>2. Cardinality(UnderWay) = 1
      BY <3>1, FS_Singleton
    <3>3. QED
      BY <2>4, <3>2
  <2>5. CASE ~ HasSentinel(queue)
    BY <2>3, <2>5, FS_EmptySet
  <2>6. QED
    BY <2>4, <2>5
<1>2. QED
  BY <1>1, SentInvHolds, PTL

-----------------------------------------------------------------------------
(* Empty animations run at no time but in the step that starts them *)

NoneHasty == \A i \in Item : Running(i) => kinds[i].what # "empty"

\* i was just started, and is about to be ended: by its first frame, if there
\* was none before, or by doAnimation()
Started(i) ==
    /\ stack # << >>
    /\ \/ Top.kind = "launch" /\ Top.of = i
       \/ Top.kind = "tick" /\ Top.i = 1 /\ timers = << i >> /\ item[i].left = 0

HastyInv == \A i \in Item : Running(i) /\ kinds[i].what = "empty" => Started(i)

LEMMA NoneIsHasty ==
  ASSUME HastyInv, stack = << >> \/ Top.kind \notin {"launch", "tick"}
  PROVE  NoneHasty
  BY DEF HastyInv, NoneHasty, Started

LEMMA LaunchedHasty ==
  ASSUME Structure, NEW x \in Item, NEW rest \in Seq(Frame), Launched(x, rest),
         \A i \in Item : Running(i) => kinds'[i].what # "empty"
  PROVE  HastyInv'
<1> DEFINE launch == [kind |-> "launch", of |-> x]
           tick == [kind |-> "tick", i |-> 1]
           called == << launch >> \o rest
<1>1. /\ Prefiltered(x)
      /\ timers' = Append(timers, x)
      /\ stack' = (IF inProgress THEN << >> ELSE << tick >>) \o called
  BY DEF Launched, Driven
<1>2. /\ launch \in Frame /\ launch.kind = "launch" /\ launch.of = x
      /\ tick \in Frame /\ tick.kind = "tick" /\ tick.i = 1
  BY DEF Frame, Call, Tick
<1> HIDE DEF launch, tick
<1>3. called \in Seq(Frame) /\ called # << >> /\ called[1] = launch
  <2>1. /\ called \in Seq(Frame) /\ Len(called) = Len(rest) + 1 /\ called[1] = launch
        /\ Len(rest) \in Nat
    BY <1>2, PushShape, LenProperties
  <2> HIDE DEF called
  <2>2. QED
    BY <2>1
<1> HIDE DEF called
<1>4. \A j \in Item : j # x => item'[j] = item[j]
  BY <1>1, PrefilteredItems
<1>5. \A j \in Item : Running(j)' => Running(j) \/ j = x
  BY <1>4 DEF Running
<1>6. ASSUME kinds'[x].what = "empty"  PROVE Started(x)'
  <2>1. CASE inProgress
    <3>1. stack' = called
      BY <1>1, <1>3, <2>1
    <3>2. QED
      BY <1>2, <1>3, <3>1 DEF Started, Top
  <2>2. CASE ~ inProgress
    <3>1. stack' = << tick >> \o called
      BY <1>1, <2>2
    <3>2. stack'[1] = tick /\ Len(stack') = Len(called) + 1 /\ Len(called) \in Nat
      BY <1>2, <1>3, <3>1, PushShape, LenProperties
    <3>3. stack' # << >>
      BY <3>2
    <3>4. timers' = << x >>
      <4>1. timers = << >>
        BY <2>2 DEF Structure
      <4>2. QED
        BY <1>1, <4>1
    <3>5. item'[x].left = 0
      <4>1. item' = [item EXCEPT ![x] = [NoItem EXCEPT !.state = "running", !.left = 0]]
        BY <1>1, <1>6 DEF Prefiltered
      <4>2. DOMAIN item = Item
        BY DEF Structure
      <4>3. QED
        BY <4>1, <4>2 DEF NoItem
    <3>6. QED
      BY <1>2, <3>2, <3>3, <3>4, <3>5 DEF Started, Top
  <2>3. QED
    BY <2>1, <2>2
<1>7. QED
  BY <1>5, <1>6 DEF HastyInv

\* whatever runs no more, or still does, is as empty as it was
LEMMA StillNoneHasty ==
  ASSUME NoneHasty, kinds' = kinds, \A i \in Item : Running(i)' => Running(i)
  PROVE  HastyInv'
  BY DEF NoneHasty, HastyInv

LEMMA SameHasty ==
  ASSUME NoneHasty, UNCHANGED << item, kinds >>
  PROVE  HastyInv'
<1>1. \A i \in Item : Running(i)' => Running(i)
  BY DEF Running
<1>2. QED
  BY <1>1, StillNoneHasty

LEMMA DequeuedHasty ==
  ASSUME Structure, NEW q, QueueOK(q), NEW d, NEW rest \in Seq(Frame), Dequeued(q, d, rest),
         \A i \in Item : Running(i) => kinds'[i].what # "empty"
  PROVE  HastyInv'
<1> DEFINE left == WithoutSentinel(q)
           h == Head(left)
<1>1. left \in Seq(Item)
  BY SentinelTaken
<1>2. CASE left # << >> /\ kinds'[h] # Delay
  <2>1. Launched(h, rest)
    BY <1>2 DEF Dequeued
  <2>2. h \in Item
    <3> HIDE DEF left
    <3>1. QED
      BY <1>1, <1>2, HeadTailProperties
  <2> HIDE DEF left, h
  <2>3. QED
    BY <2>1, <2>2, LaunchedHasty
<1>3. CASE ~ (left # << >> /\ kinds'[h] # Delay)
  <2>1. item' = item
    BY <1>3 DEF Dequeued
  <2>2. QED
    BY <2>1 DEF HastyInv, Running
<1>4. QED
  BY <1>2, <1>3

\* what runs was made before
LEMMA KindsStay ==
  ASSUME Waiting, FreshInv, NoneHasty, KindsGrow
  PROVE  \A i \in Item : Running(i) => kinds'[i].what # "empty"
  BY DEF FreshInv, Fresh, Runners, KindsGrow, NoneHasty

LEMMA ResolvedRuns ==
  ASSUME Structure, NEW i \in Item, NEW halted \in BOOLEAN, NEW rest, Resolved(i, halted, rest)
  PROVE  \A j \in Item : Running(j)' => Running(j) /\ j # i
<1>1. /\ DOMAIN item = Item /\ DOMAIN item[i] = Fields
  BY DEF Structure
<1>2. item' = [item EXCEPT ![i].halted = halted,
                           ![i].state = IF Running(i) THEN "resolved" ELSE @]
  BY DEF Resolved
<1>3. /\ \A j \in Item : j # i => item'[j] = item[j]
      /\ item'[i].state # "running"
  BY <1>1, <1>2 DEF Running, Fields
<1>4. QED
  BY <1>3 DEF Running

LEMMA TickHasty ==
  ASSUME Structure, HastyInv, TickOn \/ TickLast \/ TickEnds
  PROVE  HastyInv'
<1>1. stack # << >> /\ Top.kind = "tick" /\ kinds' = kinds
  BY DEF TickOn, TickLast, TickEnds, Ticking, TopIs
<1>2. \A i \in Item : Running(i) /\ kinds[i].what = "empty" =>
          Top.i = 1 /\ timers = << i >> /\ item[i].left = 0 /\ ~ item[i].halted
  BY <1>1 DEF HastyInv, Started, Structure
<1>3. CASE TickOn
  <2>1. Top.i <= Len(timers) /\ item[Current].left > 0
    BY <1>3 DEF TickOn, Ticking
  <2>2. ASSUME NEW i \in Item, Running(i), kinds[i].what = "empty"  PROVE FALSE
    <3>1. Top.i = 1 /\ timers = << i >> /\ item[i].left = 0
      BY <1>2, <2>2
    <3>2. Current = i
      BY <3>1 DEF Current
    <3>3. QED
      BY <2>1, <3>1, <3>2
  <2>3. \A i \in Item : Running(i)' => Running(i)
    <3>1. DOMAIN item = Item /\ \A i \in Item : DOMAIN item[i] = Fields
      BY DEF Structure
    <3>2. item' = [item EXCEPT ![Current].left = @ - 1]
      BY <1>3 DEF TickOn
    <3>3. QED
      BY <3>1, <3>2 DEF Running, Fields
  <2>4. QED
    BY <1>1, <2>2, <2>3, StillNoneHasty DEF NoneHasty
<1>4. CASE TickLast
  <2>1. Top.i <= Len(timers) /\ Current \in Item
    <3>1. Top.i <= Len(timers)
      BY <1>4 DEF TickLast, Ticking
    <3>2. Top \in Tick
      BY <1>1, StackMembers, FrameParts DEF IsTick
    <3>3. Top.i \in 1 .. Len(timers) /\ timers \in Seq(Item)
      BY <1>1, <3>1, <3>2, LenProperties DEF Tick, Structure
    <3>4. QED
      BY <3>1, <3>3, ElementOfSeq DEF Current
  <2>2. ASSUME NEW i \in Item, Running(i), kinds[i].what = "empty"
        PROVE  Current = i /\ ~ item[Current].halted
    <3>1. Top.i = 1 /\ timers = << i >> /\ ~ item[i].halted
      BY <1>2, <2>2
    <3>2. QED
      BY <3>1 DEF Current
  <2>3. CASE item[Current].halted
    <3>1. item' = item
      BY <1>4, <2>3 DEF TickLast
    <3>2. QED
      BY <1>1, <2>2, <2>3, <3>1, SameHasty DEF NoneHasty
  <2>4. CASE ~ item[Current].halted
    <3>1. PICK rest : Resolved(Current, FALSE, rest)
      BY <1>4, <2>4 DEF TickLast
    <3>2. \A j \in Item : Running(j)' => Running(j) /\ j # Current
      BY <2>1, <3>1, ResolvedRuns
    <3>3. QED
      BY <1>1, <2>2, <3>2 DEF HastyInv
  <2>5. QED
    BY <2>3, <2>4
<1>5. CASE TickEnds
  <2>1. Top.i > Len(timers) /\ item' = item
    BY <1>5 DEF TickEnds
  <2>2. NoneHasty
    <3>1. \A i : Len(<< i >>) = 1
      OBVIOUS
    <3>2. QED
      BY <1>2, <2>1, <3>1 DEF NoneHasty
  <2>3. QED
    BY <1>1, <2>1, <2>2, SameHasty
<1>6. QED
  BY <1>3, <1>4, <1>5

LEMMA LaunchHasty ==
  ASSUME Structure, HastyInv, Launch
  PROVE  HastyInv'
<1>1. stack # << >> /\ Top.kind = "launch" /\ kinds' = kinds
  BY DEF Launch, TopIs
<1>2. PICK x : x = Top.of
  OBVIOUS
<1>3. x \in Item
  <2>1. Top \in Call
    BY <1>1, StackMembers, FrameParts
  <2>2. QED
    BY <1>2, <2>1 DEF Call
<1>4. \A i \in Item : Running(i) /\ kinds[i].what = "empty" => i = x /\ EndsAtOnce(x)
  BY <1>1, <1>2 DEF HastyInv, Started, Structure, EndsAtOnce
<1>5. CASE EndsAtOnce(x)
  <2>1. Resolved(x, TRUE, Rest)
    BY <1>2, <1>5 DEF Launch
  <2>2. \A j \in Item : Running(j)' => Running(j) /\ j # x
    BY <1>3, <2>1, ResolvedRuns
  <2>3. QED
    BY <1>1, <1>4, <2>2 DEF HastyInv
<1>6. CASE ~ EndsAtOnce(x)
  <2>1. item' = item
    BY <1>2, <1>6 DEF Launch
  <2>2. QED
    BY <1>1, <1>4, <1>6, <2>1, SameHasty DEF NoneHasty
<1>7. QED
  BY <1>5, <1>6

LEMMA UserHasty ==
  ASSUME Inv, FreshInv, NoneHasty, NEW kind \in Kinds, Enqueue(kind) \/ Skip(kind)
  PROVE  HastyInv'
<1> DEFINE n == Len(kinds')
<1>1. Structure /\ Waiting /\ stack \in Seq(Frame) /\ QueueOK(queue)
  BY DEF Inv, Structure, StackOK, Waiting
<1>2. Len(kinds) < MaxItems /\ kinds' = Append(kinds, kind)
  BY DEF Enqueue, Skip
<1>3. KindsGrow /\ n \in Item
  BY <1>1, <1>2, KindsAppended
<1>4. \A i \in Item : Running(i) => kinds'[i].what # "empty"
  BY <1>1, <1>3, KindsStay
<1>5. CASE Skip(kind)
  <2>1. Launched(n, stack)
    BY <1>5 DEF Skip
  <2> HIDE DEF n
  <2>2. QED
    BY <1>1, <1>3, <1>4, <2>1, LaunchedHasty
<1>6. CASE Enqueue(kind)
  <2>1. CASE Dequeued(Append(queue, n), delays, stack)
    <3>1. QueueOK(Append(queue, n))
      BY <1>1, <1>3, QueueAppended
    <3>2. PICK q : q = Append(queue, n)
      OBVIOUS
    <3>3. QED
      BY <1>1, <1>4, <2>1, <3>1, <3>2, DequeuedHasty
  <2>2. CASE item' = item
    BY <1>4, <2>2 DEF HastyInv, Running
  <2>3. QED
    BY <1>6, <2>1, <2>2 DEF Enqueue
<1>7. QED
  BY <1>5, <1>6

LEMMA QueueHasty ==
  ASSUME Inv, NoneHasty, Return \/ StopEnds \/ \E i \in Item : Timeout(i)
  PROVE  HastyInv'
<1>1. Structure /\ Waiting /\ stack \in Seq(Frame) /\ QueueOK(queue) /\ kinds' = kinds
  BY DEF Inv, Structure, StackOK, Waiting, Return, StopEnds, Timeout
<1>2. \A i \in Item : Running(i) => kinds'[i].what # "empty"
  BY <1>1 DEF NoneHasty
<1>3. << >> \in Seq(Frame) /\ (stack # << >> => Rest \in Seq(Frame))
  BY <1>1, StackMembers
<1>4. ASSUME NEW d, Dequeued(queue, d, Rest), stack # << >>  PROVE HastyInv'
  BY <1>1, <1>2, <1>3, <1>4, DequeuedHasty
<1>5. ASSUME NEW d, Dequeued(queue, d, << >>)  PROVE HastyInv'
  BY <1>1, <1>2, <1>3, <1>5, DequeuedHasty
<1>6. item' = item => HastyInv'
  BY <1>1, SameHasty
<1>7. CASE Return
  BY <1>4, <1>6, <1>7 DEF Return, TopIs
<1>8. CASE StopEnds
  BY <1>4, <1>6, <1>8 DEF StopEnds, TopIs
<1>9. CASE \E i \in Item : Timeout(i)
  BY <1>5, <1>9 DEF Timeout
<1>10. QED
  BY <1>7, <1>8, <1>9

LEMMA LoopHasty ==
  ASSUME Structure, NoneHasty, EndTimer \/ BreakTimer
  PROVE  HastyInv'
<1>1. Looping /\ Top.i <= Len(timers) /\ kinds' = kinds
  BY DEF EndTimer, BreakTimer
<1>2. Current \in Item
  BY <1>1, LoopCurrent
<1>3. CASE EndTimer
  <2>1. PICK rest : Resolved(Current, TRUE, rest)
    BY <1>3 DEF EndTimer
  <2>2. \A j \in Item : Running(j)' => Running(j)
    BY <1>2, <2>1, ResolvedRuns
  <2>3. QED
    BY <1>1, <2>2, StillNoneHasty
<1>4. CASE BreakTimer
  <2>1. item' = [item EXCEPT ![Current].halted = TRUE, ![Current].state = "rejected"]
    BY <1>4 DEF BreakTimer
  <2>2. DOMAIN item = Item /\ \A i \in Item : DOMAIN item[i] = Fields
    BY DEF Structure
  <2>3. \A j \in Item : Running(j)' => Running(j)
    BY <2>1, <2>2 DEF Running, Fields
  <2>4. QED
    BY <1>1, <2>3, StillNoneHasty
<1>5. QED
  BY <1>3, <1>4

LEMMA FinishOldHasty ==
  ASSUME Structure, NoneHasty, FinishOld
  PROVE  HastyInv'
<1> DEFINE i == Head(Top.old)
           f == [Top EXCEPT !.old = Tail(@)]
           on == << f >> \o Rest
<1>1. /\ stack # << >> /\ Top.kind = "finish" /\ Top.old # << >> /\ kinds' = kinds
      /\ IF i = Sentinel \/ kinds[i] = Delay THEN item' = item ELSE Launched(i, on)
  BY DEF FinishOld, TopIs
<1>2. Top \in [kind : {"finish"}, i : Nat, old : Seq(Item \cup {Sentinel})] /\ Rest \in Seq(Frame)
  <2>1. Top \in Loop /\ Rest \in Seq(Frame)
    BY <1>1, StackMembers, FrameParts DEF IsLoop
  <2>2. QED
    BY <1>1, <2>1 DEF Loop
<1>3. i \in Item \cup {Sentinel} /\ Tail(Top.old) \in Seq(Item \cup {Sentinel})
  BY <1>1, <1>2, HeadTailProperties
<1>4. f \in Frame
  BY <1>2, <1>3 DEF Loop, Frame
<1> HIDE DEF f, i
<1>5. on \in Seq(Frame)
  BY <1>2, <1>4, FramePushed
<1> HIDE DEF on
<1>6. CASE i = Sentinel \/ kinds[i] = Delay
  BY <1>1, <1>6, SameHasty
<1>7. CASE ~ (i = Sentinel \/ kinds[i] = Delay)
  <2>1. Launched(i, on) /\ i \in Item
    BY <1>1, <1>3, <1>7
  <2>2. QED
    BY <1>1, <1>5, <2>1, LaunchedHasty DEF NoneHasty
<1>8. QED
  BY <1>6, <1>7

LEMMA HastyStep ==
  ASSUME Inv, FreshInv, HastyInv, [Next]_vars
  PROVE  HastyInv'
<1>1. Structure
  BY DEF Inv
<1>2. CASE UNCHANGED vars
  <2>1. UNCHANGED << stack, timers, item, kinds >>
    BY <1>2 DEF vars, engine
  <2>2. QED
    BY <2>1 DEF HastyInv, Started, Top, Running
<1>3. CASE TickOn \/ TickLast \/ TickEnds
  BY <1>1, <1>3, TickHasty
<1>4. CASE Launch
  BY <1>1, <1>4, LaunchHasty
<1>5. CASE Ticked \/ PassTimer \/ Splice \/ Crash \/ FinishEnds
  <2>1. NoneHasty
    BY <1>5, NoneIsHasty DEF Ticked, PassTimer, Splice, Crash, FinishEnds, Looping, TopIs
  <2>2. UNCHANGED << item, kinds >>
    BY <1>5 DEF Ticked, PassTimer, Splice, Crash, FinishEnds
  <2>3. QED
    BY <2>1, <2>2, SameHasty
<1>6. CASE EndTimer \/ BreakTimer
  <2>1. NoneHasty
    BY <1>6, NoneIsHasty DEF EndTimer, BreakTimer, Looping, TopIs
  <2>2. QED
    BY <1>1, <1>6, <2>1, LoopHasty
<1>7. CASE StopEnds \/ Return \/ \E i \in Item : Timeout(i)
  <2>1. NoneHasty
    BY <1>7, NoneIsHasty DEF StopEnds, Return, Timeout, TopIs
  <2>2. QED
    BY <1>7, <2>1, QueueHasty
<1>8. CASE FinishOld
  <2>1. NoneHasty
    BY <1>8, NoneIsHasty DEF FinishOld, TopIs
  <2>2. QED
    BY <1>1, <1>8, <2>1, FinishOldHasty
<1>9. ASSUME NEW kind \in Kinds, Enqueue(kind) \/ Skip(kind)  PROVE HastyInv'
  <2>1. NoneHasty
    BY <1>9, NoneIsHasty DEF Enqueue, Skip, UserRuns, TopIs
  <2>2. QED
    BY <1>9, <2>1, UserHasty
<1>10. CASE \/ AskPromise \/ ClearQueue \/ Finish \/ Throw \/ Schedule
            \/ \E show \in BOOLEAN : ShowHide(show)
            \/ \E clear, toEnd \in BOOLEAN : Stop(clear, toEnd)
  <2>1. NoneHasty
    BY <1>10, NoneIsHasty DEF AskPromise, ClearQueue, Finish, Throw, Schedule, ShowHide, Stop,
                              UserRuns, TopIs
  <2>2. UNCHANGED << item, kinds >>
    BY <1>10 DEF AskPromise, ClearQueue, Finish, Throw, Schedule, ShowHide, Stop
  <2>3. QED
    BY <2>1, <2>2, SameHasty
<1>11. CASE Run
  BY <1>3, <1>4, <1>5, <1>6, <1>7, <1>8, <1>11 DEF Run
<1>12. CASE User
  BY <1>9, <1>10, <1>12 DEF User
<1>13. QED
  BY <1>2, <1>7, <1>10, <1>11, <1>12 DEF Next, Browser

LEMMA HastyInvHolds == Spec => []HastyInv
<1>1. Init => HastyInv
  BY DEF Init, HastyInv, Running, NoItem
<1>2. Inv /\ FreshInv /\ HastyInv /\ [Next]_vars => HastyInv'
  BY HastyStep
<1>3. QED
  BY <1>1, <1>2, FxInvHolds, PTL DEF Spec

-----------------------------------------------------------------------------
(* The promise *)

Called(s, i) == \E g \in Members(s) : g.kind = "complete" /\ g.of = i

\* the callbacks of an animation outside of the queue are called once
Apart(s, ks) ==
    \A k, l \in 1 .. Len(s) :
        /\ s[k].kind = "complete" /\ s[l].kind = "complete"
        /\ s[k].of = s[l].of /\ ~ ks[s[k].of].queue
        => k = l

\* those outside of the queue that run, or whose callbacks are called
Held(s, R, ks) == {i \in 1 .. Len(ks) : ~ ks[i].queue /\ (i \in R \/ Called(s, i))}

(* The hooks count what is outside of the queue, from its start until its  *)
(* callbacks are through.                                                  *)
Booked(s, R, ks, n) ==
    /\ Apart(s, ks)
    /\ \A i \in R : ~ ks[i].queue => ~ Called(s, i)
    /\ n = Cardinality(Held(s, R, ks))

(* Strengthens PromiseIsKept.                                              *)
Count == hooks.unqueued \in Nat /\ Booked(stack, Runners, kinds, hooks.unqueued)

CountInv == ~ meddled /\ ~ hurried => Count

-----------------------------------------------------------------------------

LEMMA HeldFinite ==
  ASSUME NEW ks, Len(ks) \in Nat, NEW s, NEW R
  PROVE  IsFiniteSet(Held(s, R, ks)) /\ Cardinality(Held(s, R, ks)) \in Nat
<1>1. IsFiniteSet(1 .. Len(ks))
  BY FS_Interval
<1>2. Held(s, R, ks) \subseteq 1 .. Len(ks)
  BY DEF Held
<1>3. QED
  BY <1>1, <1>2, FS_Subset, FS_CardinalityType

LEMMA CalledPushed ==
  ASSUME NEW f \in Frame, NEW s \in Seq(Frame)
  PROVE  \A i : Called(<< f >> \o s, i) <=> Called(s, i) \/ (f.kind = "complete" /\ f.of = i)
<1>1. Members(<< f >> \o s) = {f} \cup Members(s)
  BY FramePushed
<1>2. QED
  BY <1>1 DEF Called

LEMMA CalledPopped ==
  ASSUME NEW s \in Seq(Frame), s # << >>
  PROVE  \A i : Called(s, i) <=> Called(Tail(s), i) \/ (s[1].kind = "complete" /\ s[1].of = i)
<1>1. Members(s) = {s[1]} \cup Members(Tail(s))
  BY MembersPopped
<1>2. QED
  BY <1>1 DEF Called

LEMMA ApartPushed ==
  ASSUME NEW f \in Frame, NEW s \in Seq(Frame), NEW ks, Apart(s, ks),
         f.kind = "complete" /\ ~ ks[f.of].queue => ~ Called(s, f.of)
  PROVE  Apart(<< f >> \o s, ks)
<1> DEFINE t == << f >> \o s
<1>1. /\ Len(s) \in Nat /\ Len(t) = Len(s) + 1 /\ t[1] = f
      /\ \A k \in 2 .. Len(s) + 1 : t[k] = s[k - 1]
  BY PushShape, LenProperties
<1> HIDE DEF t
<1>2. ASSUME NEW k \in 1 .. Len(t), k # 1
      PROVE  k - 1 \in 1 .. Len(s) /\ t[k] = s[k - 1] /\ s[k - 1] \in Members(s)
  <2>1. k - 1 \in 1 .. Len(s) /\ t[k] = s[k - 1]
    BY <1>1, <1>2
  <2>2. QED
    BY <2>1 DEF Members
<1>3. ASSUME NEW k \in 1 .. Len(t), NEW l \in 1 .. Len(t),
             t[k].kind = "complete", t[l].kind = "complete", t[k].of = t[l].of,
             ~ ks[t[k].of].queue
      PROVE  k = l
  <2>1. CASE k # 1 /\ l # 1
    <3>1. /\ k - 1 \in 1 .. Len(s) /\ t[k] = s[k - 1]
          /\ l - 1 \in 1 .. Len(s) /\ t[l] = s[l - 1]
      BY <1>2, <2>1
    <3>2. k - 1 = l - 1
      BY <1>3, <3>1 DEF Apart
    <3>3. QED
      BY <3>2
  <2>2. CASE k = 1 /\ l # 1
    BY <1>1, <1>2, <1>3, <2>2 DEF Called
  <2>3. CASE k # 1 /\ l = 1
    BY <1>1, <1>2, <1>3, <2>3 DEF Called
  <2>4. QED
    BY <2>1, <2>2, <2>3
<1>4. QED
  BY <1>3 DEF Apart, t

LEMMA ApartPopped ==
  ASSUME NEW s \in Seq(Frame), s # << >>, NEW ks, Apart(s, ks)
  PROVE  /\ Apart(Tail(s), ks)
         /\ s[1].kind = "complete" /\ ~ ks[s[1].of].queue => ~ Called(Tail(s), s[1].of)
<1> DEFINE t == Tail(s)
<1>1. /\ Len(s) \in Nat \ {0} /\ Len(t) = Len(s) - 1
      /\ \A k \in 1 .. Len(s) - 1 : t[k] = s[k + 1]
  BY TailShape
<1> HIDE DEF t
<1>2. \A k \in 1 .. Len(t) : k + 1 \in 1 .. Len(s) /\ t[k] = s[k + 1]
  BY <1>1
<1>3. ASSUME NEW k \in 1 .. Len(t), NEW l \in 1 .. Len(t),
             t[k].kind = "complete", t[l].kind = "complete", t[k].of = t[l].of,
             ~ ks[t[k].of].queue
      PROVE  k = l
  <2>1. k + 1 = l + 1
    BY <1>2, <1>3 DEF Apart
  <2>2. QED
    BY <2>1
<1>4. ASSUME s[1].kind = "complete", ~ ks[s[1].of].queue, Called(t, s[1].of)  PROVE FALSE
  <2>1. PICK k \in 1 .. Len(t) : t[k].kind = "complete" /\ t[k].of = s[1].of
    BY <1>4 DEF Called, Members
  <2>2. 1 \in 1 .. Len(s) /\ k + 1 \in 1 .. Len(s) /\ t[k] = s[k + 1]
    BY <1>1, <1>2
  <2>3. 1 = k + 1
    BY <1>4, <2>1, <2>2 DEF Apart
  <2>4. QED
    BY <2>3
<1>5. QED
  BY <1>3, <1>4 DEF Apart, t

LEMMA BookedPushed ==
  ASSUME NEW f \in Frame, f.kind # "complete", NEW s \in Seq(Frame), NEW R, NEW ks, NEW n,
         Booked(s, R, ks, n)
  PROVE  Booked(<< f >> \o s, R, ks, n)
<1> DEFINE t == << f >> \o s
<1>1. Apart(t, ks) /\ \A i : Called(t, i) <=> Called(s, i)
  BY ApartPushed, CalledPushed DEF Booked
<1> HIDE DEF t
<1>2. Held(t, R, ks) = Held(s, R, ks)
  BY <1>1 DEF Held
<1>3. QED
  BY <1>1, <1>2 DEF Booked, t

LEMMA BookedPopped ==
  ASSUME NEW s \in Seq(Frame), s # << >>, NEW R, NEW ks, NEW n, Booked(s, R, ks, n),
         s[1].kind = "complete" => ks[s[1].of].queue
  PROVE  Booked(Tail(s), R, ks, n)
<1> DEFINE t == Tail(s)
<1>1. /\ Apart(t, ks)
      /\ \A i : Called(s, i) <=> Called(t, i) \/ (s[1].kind = "complete" /\ s[1].of = i)
  BY ApartPopped, CalledPopped DEF Booked
<1> HIDE DEF t
<1>2. Held(t, R, ks) = Held(s, R, ks)
  BY <1>1 DEF Held
<1>3. QED
  BY <1>1, <1>2 DEF Booked, t

\* an animation ends, and its callbacks are called
LEMMA BookedEnded ==
  ASSUME NEW f \in Frame, f.kind = "complete", NEW s \in Seq(Frame), NEW R, NEW ks, NEW n,
         Booked(s, R, ks, n), f.of \in R
  PROVE  Booked(<< f >> \o s, R \ {f.of}, ks, n)
<1> DEFINE t == << f >> \o s
<1>1. Apart(t, ks) /\ \A i : Called(t, i) <=> Called(s, i) \/ f.of = i
  BY ApartPushed, CalledPushed DEF Booked
<1> HIDE DEF t
<1>2. Held(t, R \ {f.of}, ks) = Held(s, R, ks)
  BY <1>1 DEF Held
<1>3. \A i \in R \ {f.of} : ~ ks[i].queue => ~ Called(t, i)
  BY <1>1 DEF Booked
<1>4. QED
  BY <1>1, <1>2, <1>3 DEF Booked, t

\* the callbacks of one outside of the queue are through
LEMMA BookedReturned ==
  ASSUME NEW s \in Seq(Frame), s # << >>, NEW R, NEW ks, Len(ks) \in Nat, NEW n,
         Booked(s, R, ks, n),
         s[1].kind = "complete", ~ ks[s[1].of].queue, s[1].of \in 1 .. Len(ks)
  PROVE  n - 1 \in Nat /\ Booked(Tail(s), R, ks, n - 1)
<1> DEFINE t == Tail(s)
           x == s[1].of
<1>1. /\ Apart(t, ks) /\ ~ Called(t, x)
      /\ \A i : Called(s, i) <=> Called(t, i) \/ x = i
  BY ApartPopped, CalledPopped DEF Booked
<1> HIDE DEF t
<1>2. x \notin R
  BY <1>1 DEF Booked
<1>3. x \in Held(s, R, ks) /\ Held(t, R, ks) = Held(s, R, ks) \ {x}
  BY <1>1, <1>2 DEF Held
<1>4. IsFiniteSet(Held(s, R, ks)) /\ IsFiniteSet(Held(t, R, ks))
      /\ Cardinality(Held(t, R, ks)) \in Nat /\ Cardinality(Held(s, R, ks)) \in Nat
  BY HeldFinite
<1>5. Cardinality(Held(t, R, ks)) = Cardinality(Held(s, R, ks)) - 1
  BY <1>3, <1>4, FS_RemoveElement
<1>6. QED
  BY <1>1, <1>4, <1>5 DEF Booked, t

\* one outside of the queue is stopped half way
LEMMA BookedBroken ==
  ASSUME NEW s, NEW R, NEW ks, Len(ks) \in Nat, NEW n, Booked(s, R, ks, n),
         NEW i \in R, i \in 1 .. Len(ks), ~ ks[i].queue
  PROVE  n - 1 \in Nat /\ Booked(s, R \ {i}, ks, n - 1)
<1>1. ~ Called(s, i)
  BY DEF Booked
<1>2. i \in Held(s, R, ks) /\ Held(s, R \ {i}, ks) = Held(s, R, ks) \ {i}
  BY <1>1 DEF Held
<1>3. IsFiniteSet(Held(s, R, ks))
      /\ Cardinality(Held(s, R \ {i}, ks)) \in Nat /\ Cardinality(Held(s, R, ks)) \in Nat
  BY HeldFinite
<1>4. Cardinality(Held(s, R \ {i}, ks)) = Cardinality(Held(s, R, ks)) - 1
  BY <1>2, <1>3, FS_RemoveElement
<1>5. QED
  BY <1>3, <1>4 DEF Booked

\* what is in the queue does not count
LEMMA BookedQueued ==
  ASSUME NEW s, NEW R, NEW ks, NEW n, Booked(s, R, ks, n),
         NEW Q, \A i : ~ ks[i].queue => (i \in Q <=> i \in R)
  PROVE  Booked(s, Q, ks, n)
<1>1. Held(s, Q, ks) = Held(s, R, ks)
  BY DEF Held
<1>2. QED
  BY <1>1 DEF Booked

LEMMA NoneBooked ==
  ASSUME NEW s, NEW R, NEW ks, Len(ks) \in Nat, Booked(s, R, ks, 0)
  PROVE  \A i \in R : i \in 1 .. Len(ks) => ks[i].queue
<1>1. Held(s, R, ks) = {}
  BY HeldFinite, FS_EmptySet DEF Booked
<1>2. QED
  BY <1>1 DEF Held

LEMMA BookedGrown ==
  ASSUME Structure, Known, KindsGrow, Len(kinds) \in Nat, Len(kinds') = Len(kinds) + 1,
         NEW n \in Nat, Booked(stack, Runners, kinds, n)
  PROVE  IF kinds'[Len(kinds')].queue
           THEN Booked(stack, Runners, kinds', n)
           ELSE Booked(stack, Runners \cup {Len(kinds')}, kinds', n + 1)
<1> DEFINE x == Len(kinds')
<1>1. stack \in Seq(Frame)
  BY DEF Structure, StackOK
<1>2. ASSUME NEW g \in Members(stack), g.kind = "complete"
      PROVE  g.of \in Item /\ g.of <= Len(kinds) /\ kinds'[g.of] = kinds[g.of]
  <2>1. g \in Frame
    BY <1>1, MembersTyped
  <2>2. g.of \in Item
    <3>1. g \in Call
      BY <1>2, <2>1, FrameParts
    <3>2. QED
      BY <3>1 DEF Call
  <2>3. g.of <= Len(kinds)
    BY <1>2 DEF Known
  <2>4. QED
    BY <2>2, <2>3 DEF KindsGrow
<1>3. Apart(stack, kinds')
  <2>1. \A k \in 1 .. Len(stack) : stack[k] \in Members(stack)
    BY DEF Members
  <2>2. QED
    BY <1>2, <2>1 DEF Booked, Apart
<1>4. ~ Called(stack, x) /\ x \notin Runners
  <2>1. ~ Called(stack, x)
    BY <1>2 DEF Called
  <2>2. x \notin Runners
    BY DEF Runners, Known
  <2>3. QED
    BY <2>1, <2>2
<1>5. \A i \in Runners : i \in Item /\ i <= Len(kinds) /\ kinds'[i] = kinds[i]
  BY DEF Runners, Known, KindsGrow
<1>6. \A i \in Runners : ~ kinds'[i].queue => ~ Called(stack, i)
  BY <1>5 DEF Booked
<1>7. \A i \in 1 .. x : \/ i = x
                        \/ i \in 1 .. Len(kinds)
  OBVIOUS
<1>8. \A i \in 1 .. Len(kinds) : i \in 1 .. x /\ i # x
                                 /\ (i \in Runners \/ Called(stack, i) => kinds'[i] = kinds[i])
  BY <1>2, <1>5 DEF Called
<1>9. x \in 1 .. x
  OBVIOUS
<1> DEFINE H == Held(stack, Runners, kinds)
<1>10. IsFiniteSet(H) /\ n = Cardinality(H) /\ x \notin H
  BY <1>8, HeldFinite DEF Booked, Held
<1> HIDE DEF x
<1>11. CASE kinds'[x].queue
  <2>1. Held(stack, Runners, kinds') = H
    BY <1>4, <1>7, <1>8, <1>11 DEF Held, x
  <2>2. QED
    BY <1>3, <1>6, <1>10, <1>11, <2>1 DEF Booked, x
<1>12. CASE ~ kinds'[x].queue
  <2>1. Held(stack, Runners \cup {x}, kinds') = H \cup {x}
    BY <1>4, <1>7, <1>8, <1>9, <1>12 DEF Held, x
  <2>2. Cardinality(H \cup {x}) = n + 1
    BY <1>10, FS_AddElement
  <2>3. \A i \in Runners \cup {x} : ~ kinds'[i].queue => ~ Called(stack, i)
    BY <1>4, <1>6
  <2>4. QED
    BY <1>3, <1>12, <2>1, <2>2, <2>3 DEF Booked, x
<1>13. QED
  BY <1>11, <1>12 DEF x

LEMMA LaunchedBooked ==
  ASSUME Structure, NEW i \in Item, NEW rest \in Seq(Frame), Launched(i, rest),
         NEW R, NEW ks, NEW n, Booked(rest, R, ks, n)
  PROVE  Booked(stack', R, ks, n) /\ Runners' = Runners \cup {i}
<1> DEFINE launch == [kind |-> "launch", of |-> i]
           tick == [kind |-> "tick", i |-> 1]
           called == << launch >> \o rest
<1>1. stack' = (IF inProgress THEN << >> ELSE << tick >>) \o called
  BY DEF Launched, Driven
<1>2. launch \in Frame /\ launch.kind # "complete" /\ tick \in Frame /\ tick.kind # "complete"
  BY DEF Frame, Call, Tick
<1> HIDE DEF launch, tick
<1>3. called \in Seq(Frame) /\ Booked(called, R, ks, n)
  BY <1>2, FramePushed, BookedPushed
<1> HIDE DEF called
<1>4. Booked(<< tick >> \o called, R, ks, n)
  BY <1>2, <1>3, BookedPushed
<1>5. Booked(stack', R, ks, n)
  <2>1. CASE inProgress
    <3>1. stack' = called
      BY <1>1, <1>3, <2>1
    <3>2. QED
      BY <1>3, <3>1
  <2>2. CASE ~ inProgress
    BY <1>1, <1>4, <2>2
  <2>3. QED
    BY <2>1, <2>2
<1>6. \A j \in Item : Running(j)' <=> Running(j) \/ j = i
  BY LaunchedFrames
<1>7. QED
  BY <1>5, <1>6 DEF Runners

\* the promise is resolved when nothing is under way
Nothing ==
    promise = "waiting" /\ promise' = "resolved" =>
        queue' = << >> /\ \A i \in Item : item'[i].state # "running"

LEMMA DequeuedCount ==
  ASSUME Structure, Waiting, Waiting', Known, KindsGrow, hooks.unqueued \in Nat,
         NEW q, QueueOK(q), NEW d, NEW rest \in Seq(Frame),
         Booked(rest, Runners, kinds', hooks.unqueued),
         Made(q, kinds'),
         Dequeued(q, d, rest)
  PROVE  Count' /\ (Carried = {} /\ NoneHasty => Nothing)
<1> DEFINE left == WithoutSentinel(q)
           h == Head(left)
           n == hooks.unqueued
<1>1. Len(kinds') \in Nat /\ DOMAIN hooks = {"on", "stop", "unqueued"}
  BY LenProperties DEF Waiting, Known
<1>2. CASE left = << >>
  <2>1. /\ queue' = << >> /\ hooks' = Fired(hooks) /\ stack' = rest
        /\ promise' = Told(hooks) /\ item' = item
    BY <1>2 DEF Dequeued
  <2>2. hooks'.unqueued = n
    BY <2>1 DEF Fired, NoHooks
  <2>3. Runners' = Runners /\ \A i \in Item : item'[i].state = "running" => i \in Runners
    BY <2>1 DEF Runners, Running
  <2>4. Count'
    BY <2>1, <2>2, <2>3 DEF Count
  <2>5. ASSUME promise = "waiting", promise' = "resolved", Carried = {}, NoneHasty
        PROVE  Runners = {}
    <3>1. n = 0
      BY <2>1, <2>5 DEF Told
    <3>2. \A i \in Runners : i \in 1 .. Len(kinds') => kinds'[i].queue
      BY <1>1, <3>1, NoneBooked
    <3>3. ASSUME NEW i \in Runners  PROVE FALSE
      <4>1. /\ i \in Item /\ Running(i) /\ i <= Len(kinds) /\ kinds'[i] = kinds[i]
            /\ Len(kinds) <= Len(kinds') /\ Len(kinds) \in Nat
        BY <3>3, LenProperties DEF Runners, Known, KindsGrow, Waiting
      <4>2. i \in 1 .. Len(kinds')
        BY <1>1, <4>1 DEF Item
      <4>3. i \in Carried
        BY <2>5, <3>2, <3>3, <4>1, <4>2, CarriedIs DEF NoneHasty, Waits
      <4>4. QED
        BY <2>5, <4>3
    <3>4. QED
      BY <3>3
  <2>6. QED
    BY <2>1, <2>3, <2>4, <2>5 DEF Nothing
<1>3. CASE left # << >>
  <2>1. left \in Seq(Item)
    BY SentinelTaken
  <2>2. h \in Members(left) /\ h \in Item
    BY <1>3, <2>1, MembersPopped, HeadTailProperties
  <2>3. kinds'[h].queue
    <3>1. Members(left) \subseteq Members(q)
      <4>1. q \in Seq(Item \cup {Sentinel})
        BY DEF QueueOK
      <4>2. left = q \/ (q # << >> /\ left = Tail(q))
        BY DEF WithoutSentinel
      <4> HIDE DEF left
      <4>3. QED
        BY <4>1, <4>2, MembersPopped
    <3>2. h # Sentinel
      BY <2>2 DEF Item, Sentinel
    <3>3. QED
      BY <2>2, <3>1, <3>2 DEF Made, Waits
  <2>4. promise' = promise
    BY <1>3 DEF Dequeued
  <2> HIDE DEF left
  <2>5. CASE kinds'[h] = Delay
    <3>1. /\ stack' = rest /\ item' = item
          /\ hooks' = [hooks EXCEPT !.on = TRUE, !.stop = h]
      BY <1>3, <2>5 DEF Dequeued, left
    <3>2. hooks'.unqueued = n
      BY <1>1, <3>1
    <3>3. Runners' = Runners
      BY <3>1 DEF Runners, Running
    <3>4. QED
      BY <2>4, <3>1, <3>2, <3>3 DEF Count, Nothing
  <2>6. CASE kinds'[h] # Delay
    <3>1. /\ Launched(h, rest)
          /\ hooks' = [hooks EXCEPT !.on = TRUE, !.stop = None]
      BY <1>3, <2>6 DEF Dequeued, left
    <3>2. hooks'.unqueued = n
      BY <1>1, <3>1
    <3> HIDE DEF h
    <3>3. Booked(stack', Runners, kinds', n) /\ Runners' = Runners \cup {h}
      BY <2>2, <3>1, LaunchedBooked
    <3>4. Booked(stack', Runners', kinds', n)
      BY <2>3, <3>3, BookedQueued
    <3>5. QED
      BY <2>4, <3>2, <3>4 DEF Count, Nothing
  <2>7. QED
    BY <2>5, <2>6
<1>4. QED
  BY <1>2, <1>3

LEMMA ResolvedCount ==
  ASSUME Structure, Waiting, Known, NEW i \in Item, NEW halted \in BOOLEAN,
         NEW rest \in Seq(Frame), Booked(rest, Runners, kinds, hooks.unqueued),
         hooks.unqueued \in Nat,
         Resolved(i, halted, rest), UNCHANGED << kinds, hooks >>
  PROVE  Count'
<1> DEFINE f == [kind |-> "complete", of |-> i]
<1>1. /\ Runners' = Runners \ {i}
      /\ IF Running(i) THEN stack' = << f >> \o rest ELSE stack' = rest
  BY ResolvedCarried
<1>2. f \in Frame /\ f.kind = "complete" /\ f.of = i
  BY DEF Frame, Call
<1> HIDE DEF f
<1>3. CASE Running(i)
  <2>1. i \in Runners
    BY <1>3 DEF Runners
  <2>2. Booked(<< f >> \o rest, Runners \ {i}, kinds, hooks.unqueued)
    BY <1>2, <2>1, BookedEnded
  <2>3. QED
    BY <1>1, <1>3, <2>2 DEF Count
<1>4. CASE ~ Running(i)
  <2>1. Runners' = Runners
    BY <1>1, <1>4 DEF Runners
  <2>2. QED
    BY <1>1, <1>4, <2>1 DEF Count
<1>5. QED
  BY <1>3, <1>4

\* the frames below, when the top one is no callback
LEMMA BookedBelow ==
  ASSUME Structure, Count, stack # << >>, Top.kind # "complete"
  PROVE  /\ Rest \in Seq(Frame) /\ hooks.unqueued \in Nat
         /\ Booked(Rest, Runners, kinds, hooks.unqueued)
         /\ \A f \in Frame : f.kind # "complete" =>
               /\ << f >> \o Rest \in Seq(Frame)
               /\ Booked(<< f >> \o Rest, Runners, kinds, hooks.unqueued)
<1>1. stack \in Seq(Frame) /\ Rest \in Seq(Frame)
  BY StackMembers
<1>2. Booked(Rest, Runners, kinds, hooks.unqueued)
  BY <1>1, BookedPopped DEF Count, Rest, Top
<1>3. QED
  BY <1>1, <1>2, BookedPushed, FramePushed DEF Count

LEMMA SameCount ==
  ASSUME Count, UNCHANGED << kinds, hooks >>, \A i \in Item : Running(i)' <=> Running(i),
         Booked(stack', Runners, kinds, hooks.unqueued)
  PROVE  Count'
<1>1. Runners' = Runners
  BY DEF Runners
<1>2. QED
  BY <1>1 DEF Count

LEMMA TickOnCount ==
  ASSUME Structure, Count, TickOn
  PROVE  Count'
<1> DEFINE f == [Top EXCEPT !.i = @ + 1]
<1>1. /\ stack # << >> /\ Top \in [kind : {"tick"}, i : Nat \ {0}] /\ Current \in Item
  BY TickCurrent DEF TickOn
<1>2. f.kind = "tick" /\ f \in Frame /\ Top.kind = "tick"
  BY <1>1 DEF Frame, Tick
<1>3. /\ stack' = << f >> \o Rest
      /\ item' = [item EXCEPT ![Current].left = @ - 1]
      /\ UNCHANGED << kinds, hooks >>
  BY DEF TickOn
<1>4. \A i \in Item : Running(i)' <=> Running(i)
  <2>1. DOMAIN item = Item /\ DOMAIN item[Current] = Fields
    BY <1>1 DEF Structure
  <2>2. QED
    BY <1>1, <1>3, <2>1 DEF Running, Fields
<1> HIDE DEF f
<1>5. Booked(<< f >> \o Rest, Runners, kinds, hooks.unqueued)
  BY <1>1, <1>2, BookedBelow
<1>6. QED
  BY <1>3, <1>4, <1>5, SameCount

LEMMA TickLastCount ==
  ASSUME Structure, Waiting, Known, Count, TickLast
  PROVE  Count'
<1> DEFINE f == [kind |-> "ticked", i |-> Top.i, of |-> Current]
           ticked == << f >> \o Rest
<1>1. /\ stack # << >> /\ Top \in [kind : {"tick"}, i : Nat \ {0}] /\ Current \in Item
  BY TickCurrent DEF TickLast
<1>2. f.kind = "ticked" /\ f \in Frame /\ Top.kind = "tick"
  BY <1>1 DEF Frame, Tick
<1>3. /\ IF item[Current].halted THEN stack' = ticked /\ item' = item
                                 ELSE Resolved(Current, FALSE, ticked)
      /\ UNCHANGED << kinds, hooks >>
  BY DEF TickLast
<1> HIDE DEF f
<1>4. /\ ticked \in Seq(Frame) /\ hooks.unqueued \in Nat
      /\ Booked(ticked, Runners, kinds, hooks.unqueued)
  BY <1>1, <1>2, BookedBelow
<1> HIDE DEF ticked
<1>5. CASE item[Current].halted
  <2>1. \A i \in Item : Running(i)' <=> Running(i)
    BY <1>3, <1>5 DEF Running
  <2>2. QED
    BY <1>3, <1>4, <1>5, <2>1, SameCount
<1>6. CASE ~ item[Current].halted
  BY <1>1, <1>3, <1>4, <1>6, ResolvedCount
<1>7. QED
  BY <1>5, <1>6

LEMMA TickedCount ==
  ASSUME Structure, Count, Ticked \/ TickEnds
  PROVE  Count'
<1>1. /\ stack # << >> /\ Top.kind \in {"tick", "ticked"}
      /\ UNCHANGED << kinds, hooks, item >>
  BY DEF Ticked, TickEnds, TopIs
<1>2. \A i \in Item : Running(i)' <=> Running(i)
  BY <1>1 DEF Running
<1>3. CASE TickEnds
  <2>1. stack' = Rest
    BY <1>3 DEF TickEnds
  <2>2. QED
    BY <1>1, <1>2, <2>1, BookedBelow, SameCount
<1>4. CASE Ticked
  <2> DEFINE f == [kind |-> "tick", i |-> IF Spliced(Top.i, Top.of) THEN Top.i ELSE Top.i + 1]
  <2>1. Top.kind = "ticked" /\ stack' = << f >> \o Rest
    BY <1>4 DEF Ticked, TopIs
  <2>2. Top.i \in Nat \ {0}
    <3>1. Top \in Tick
      BY <1>1, <2>1, StackMembers, FrameParts DEF IsTick
    <3>2. QED
      BY <3>1 DEF Tick
  <2>3. f.kind = "tick" /\ f \in Frame
    BY <2>2 DEF Frame, Tick
  <2> HIDE DEF f
  <2>4. Booked(<< f >> \o Rest, Runners, kinds, hooks.unqueued)
    BY <1>1, <2>3, BookedBelow
  <2>5. QED
    BY <1>1, <1>2, <2>1, <2>4, SameCount
<1>5. QED
  BY <1>3, <1>4

LEMMA LaunchCount ==
  ASSUME Structure, Waiting, Known, Count, Launch
  PROVE  Count'
<1>0. PICK x : x = Top.of
  OBVIOUS
<1>1. /\ stack # << >> /\ Top.kind = "launch"
      /\ IF EndsAtOnce(x) THEN Resolved(x, TRUE, Rest)
                          ELSE stack' = Rest /\ item' = item
      /\ UNCHANGED << kinds, hooks >>
  BY <1>0 DEF Launch, TopIs
<1>2. /\ Rest \in Seq(Frame) /\ hooks.unqueued \in Nat
      /\ Booked(Rest, Runners, kinds, hooks.unqueued)
  BY <1>1, BookedBelow
<1>3. x \in Item
  <2>1. Top \in Call
    BY <1>1, StackMembers, FrameParts
  <2>2. QED
    BY <1>0, <2>1 DEF Call
<1>4. CASE EndsAtOnce(x)
  BY <1>1, <1>2, <1>3, <1>4, ResolvedCount
<1>5. CASE ~ EndsAtOnce(x)
  <2>1. \A i \in Item : Running(i)' <=> Running(i)
    BY <1>1, <1>5 DEF Running
  <2>2. QED
    BY <1>1, <1>2, <1>5, <2>1, SameCount
<1>6. QED
  BY <1>4, <1>5

-----------------------------------------------------------------------------

LEMMA PassTimerCount ==
  ASSUME Structure, GoOn(stack), Count, PassTimer
  PROVE  Count'
<1>1. /\ stack # << >> /\ Top \in Loop /\ Top.i > 0
      /\ Top.kind \in {"stop", "finish"}
  BY LoopTop DEF PassTimer
<1>2. Stepped \in Frame /\ Stepped.kind # "complete"
  BY <1>1, LoopStepped, LoopIsFrame DEF Stepped
<1>3. stack' = << Stepped >> \o Rest /\ UNCHANGED << kinds, hooks, item >>
  BY DEF PassTimer
<1>4. Booked(<< Stepped >> \o Rest, Runners, kinds, hooks.unqueued)
  BY <1>1, <1>2, BookedBelow
<1>5. \A i \in Item : Running(i)' <=> Running(i)
  BY <1>3 DEF Running
<1>6. QED
  BY <1>3, <1>4, <1>5, SameCount

\* the loop that has stopped a timer, and will take it out
LEMMA SpliceBooked ==
  ASSUME Structure, GoOn(stack), Count, Looping, Top.i <= Len(timers)
  PROVE  /\ << [kind |-> "splice"], Noted >> \o Rest \in Seq(Frame)
         /\ Booked(<< [kind |-> "splice"], Noted >> \o Rest, Runners, kinds, hooks.unqueued)
         /\ hooks.unqueued \in Nat
         /\ Current \in Item
<1> DEFINE splice == [kind |-> "splice"]
           t == << Noted >> \o Rest
<1>1. /\ stack # << >> /\ Top \in Loop /\ Top.i > 0 /\ Top.i \in Nat /\ Rest = << >>
      /\ Top.kind \in {"stop", "finish"}
  BY LoopTop
<1>2. Noted \in Frame /\ Noted.kind # "complete" /\ splice \in Frame
      /\ splice.kind # "complete"
  BY <1>1, LoopNoted, LoopIsFrame DEF Frame
<1>3. t \in Seq(Frame) /\ Booked(t, Runners, kinds, hooks.unqueued) /\ hooks.unqueued \in Nat
  BY <1>1, <1>2, BookedBelow
<1>4. << [kind |-> "splice"], Noted >> \o Rest = << splice >> \o t
  BY <1>1, <1>2
<1> HIDE DEF splice, t
<1>5. << splice >> \o t \in Seq(Frame)
      /\ Booked(<< splice >> \o t, Runners, kinds, hooks.unqueued)
  BY <1>2, <1>3, FramePushed, BookedPushed
<1>6. Current \in Item
  <2>1. timers \in Seq(Item) /\ Len(timers) \in Nat
    BY LenProperties DEF Structure
  <2>2. Top.i \in 1 .. Len(timers)
    BY <1>1, <2>1
  <2>3. QED
    BY <2>1, <2>2, ElementOfSeq DEF Current
<1>7. QED
  BY <1>3, <1>4, <1>5, <1>6

LEMMA EndTimerCount ==
  ASSUME Structure, Waiting, GoOn(stack), Known, Count, EndTimer
  PROVE  Count'
<1> DEFINE rest == << [kind |-> "splice"], Noted >> \o Rest
<1>1. /\ rest \in Seq(Frame) /\ Booked(rest, Runners, kinds, hooks.unqueued)
      /\ hooks.unqueued \in Nat /\ Current \in Item
  BY SpliceBooked DEF EndTimer
<1>2. Resolved(Current, TRUE, rest) /\ UNCHANGED << kinds, hooks >>
  BY DEF EndTimer
<1> HIDE DEF rest
<1>3. QED
  BY <1>1, <1>2, ResolvedCount

\* callbacks count what is outside of the queue for the last time
LEMMA CountedCount ==
  ASSUME Known, Waiting, kinds' = kinds, UNCHANGED queue, NEW i, ~ Queued(i), Counted(i),
         hooks.unqueued - 1 \in Nat,
         Booked(stack', Runners', kinds, hooks.unqueued - 1),
         \A j \in Item : Running(j)' => Running(j)
  PROVE  Count' /\ ((queue = << >> => Carried = {}) /\ NoneHasty => Nothing)
<1> DEFINE h == [hooks EXCEPT !.unqueued = @ - 1]
<1>1. DOMAIN hooks = {"on", "stop", "unqueued"} /\ Len(kinds) \in Nat
  BY LenProperties DEF Known, Waiting
<1>2. h.unqueued = hooks.unqueued - 1
  BY <1>1
<1>3. /\ hooks' = IF queue = << >> THEN Fired(h) ELSE h
      /\ promise' = IF queue = << >> THEN Told(h) ELSE promise
  BY DEF Counted
<1> HIDE DEF h
<1>4. hooks'.unqueued = hooks.unqueued - 1
  BY <1>2, <1>3 DEF Fired, NoHooks
<1>5. Count'
  BY <1>4 DEF Count
<1>6. ASSUME promise = "waiting", promise' = "resolved", queue = << >> => Carried = {},
             NoneHasty
      PROVE  queue' = << >> /\ \A j \in Item : item'[j].state # "running"
  <2>1. queue = << >> /\ hooks.unqueued - 1 = 0
    BY <1>2, <1>3, <1>6 DEF Told
  <2>2. \A j \in Runners' : j \in 1 .. Len(kinds) => kinds[j].queue
    BY <1>1, <2>1, NoneBooked
  <2>3. ASSUME NEW j \in Item, Running(j)'  PROVE FALSE
    <3>1. Running(j) /\ j \in 1 .. Len(kinds)
      BY <1>1, <2>3 DEF Known, Item
    <3>2. j \in Carried
      BY <1>6, <2>2, <2>3, <3>1, CarriedIs DEF NoneHasty, Waits, Runners
    <3>3. QED
      BY <1>6, <2>1, <3>2
  <2>4. QED
    BY <2>1, <2>3 DEF Running
<1>7. QED
  BY <1>5, <1>6 DEF Nothing

LEMMA BreakTimerCount ==
  ASSUME Structure, Waiting, GoOn(stack), Sent, Count, NoneHasty, BreakTimer
  PROVE  Count' /\ Nothing
<1> DEFINE c == Current
           rest == << [kind |-> "splice"], Noted >> \o Rest
           n == hooks.unqueued
<1>1. /\ rest \in Seq(Frame) /\ Booked(rest, Runners, kinds, n)
      /\ n \in Nat /\ c \in Item
  BY SpliceBooked DEF BreakTimer
<1>2. /\ Running(c) /\ Top.kind = "stop" /\ ~ Top.toEnd
      /\ item' = [item EXCEPT ![c].halted = TRUE, ![c].state = "rejected"]
      /\ Counted(c)
      /\ stack' = rest
      /\ UNCHANGED << queue, kinds >>
  BY DEF BreakTimer, Concerned, ToEnd
<1>3. Known /\ Stops
  BY DEF Sent
<1> HIDE DEF c, rest
<1>4. /\ \A j \in Item : Running(j)' <=> Running(j) /\ j # c
  <2>1. DOMAIN item = Item /\ DOMAIN item[c] = Fields
    BY <1>1 DEF Structure
  <2>2. QED
    BY <1>1, <1>2, <2>1 DEF Running, Fields
<1>5. Runners' = Runners \ {c} /\ c \in Runners /\ c \in 1 .. Len(kinds)
  <2>1. Len(kinds) \in Nat /\ c <= Len(kinds)
    BY <1>1, <1>2, <1>3, LenProperties DEF Known, Waiting
  <2>2. QED
    BY <1>1, <1>2, <1>4, <2>1 DEF Runners, Item
<1>6. CASE Queued(c)
  <2>1. UNCHANGED << hooks, promise >>
    BY <1>2, <1>6 DEF Counted
  <2>2. Booked(rest, Runners', kinds, n)
    BY <1>1, <1>5, <1>6, BookedQueued DEF Queued
  <2>3. QED
    BY <1>1, <1>2, <2>1, <2>2 DEF Count, Nothing
<1>7. CASE ~ Queued(c)
  <2>1. Len(kinds) \in Nat
    BY LenProperties DEF Waiting
  <2>2. n - 1 \in Nat /\ Booked(rest, Runners \ {c}, kinds, n - 1)
    BY <1>1, <1>5, <1>7, <2>1, BookedBroken DEF Queued
  <2>3. queue = << >> => Carried = {}
    <3>1. Top \in Members(stack) /\ Moving(Top)
      BY <1>2, LoopTop DEF BreakTimer, Moving, MovesOn
    <3>2. QED
      BY <1>3, <3>1 DEF Stops, HasSentinel
  <2>4. Booked(stack', Runners', kinds, n - 1)
    BY <1>2, <1>5, <2>2
  <2>5. \A j \in Item : Running(j)' => Running(j)
    BY <1>4
  <2>6. QED
    BY <1>2, <1>3, <1>7, <2>2, <2>3, <2>4, <2>5, CountedCount
<1>8. QED
  BY <1>6, <1>7

LEMMA SpliceCount ==
  ASSUME Structure, GoOn(stack), Count, Splice
  PROVE  Count'
<1> DEFINE f == [stack[2] EXCEPT !.i = @ - 1]
<1>1. /\ stack[2] \in Loop /\ stack[2].i > 0 /\ Members(Rest) = {stack[2]}
      /\ Top.kind = "splice" /\ stack # << >>
  BY SpliceAlone DEF Splice, TopIs
<1>2. f \in Loop
  BY <1>1, LoopStepped
<1>3. stack' = << f >> \o Tail(Rest) /\ UNCHANGED << kinds, hooks, item >>
  BY DEF Splice
<1>4. f \in Frame /\ f.kind # "complete" /\ stack[2].kind # "complete"
  BY <1>1, <1>2, LoopIsFrame DEF Loop
<1> HIDE DEF f
<1>5. Rest \in Seq(Frame) /\ Booked(Rest, Runners, kinds, hooks.unqueued)
  BY <1>1, BookedBelow
<1>6. Rest # << >> /\ Rest[1] = stack[2]
  <2>1. Rest # << >>
    BY <1>1, MembersEmpty
  <2>2. stack \in Seq(Frame) /\ Len(Rest) = Len(stack) - 1 /\ Len(stack) \in Nat
        /\ \A k \in 1 .. Len(stack) - 1 : Rest[k] = stack[k + 1]
    BY <1>1, StackMembers, TailShape DEF Rest
  <2>3. Len(Rest) \in Nat \ {0}
    BY <1>5, <2>1, TailShape
  <2>4. QED
    BY <2>1, <2>2, <2>3
<1>7. Tail(Rest) \in Seq(Frame) /\ Booked(Tail(Rest), Runners, kinds, hooks.unqueued)
  BY <1>4, <1>5, <1>6, BookedPopped, TailShape
<1>8. Booked(<< f >> \o Tail(Rest), Runners, kinds, hooks.unqueued)
  BY <1>4, <1>7, BookedPushed
<1>9. \A i \in Item : Running(i)' <=> Running(i)
  BY <1>3 DEF Running
<1>10. QED
  BY <1>3, <1>8, <1>9, SameCount

\* the outer calls, which leave the running animations alone
LEMMA CallsCount ==
  ASSUME Structure, Waiting, Count,
         \/ \E clear, toEnd \in BOOLEAN : Stop(clear, toEnd) /\ ~ clear
         \/ Finish
         \/ FinishEnds
         \/ StopEnds /\ ~ MovesOn(Top)
         \/ Schedule
         \/ AskPromise
         \/ \E show \in BOOLEAN : ShowHide(show),
         DOMAIN hooks = {"on", "stop", "unqueued"}
  PROVE  Count'
<1>1. /\ UNCHANGED << kinds, item >>
      /\ hooks' = hooks \/ hooks' = [hooks EXCEPT !.stop = None]
  BY DEF Stop, Finish, FinishEnds, StopEnds, Schedule, AskPromise, ShowHide
<1>2. hooks'.unqueued = hooks.unqueued
  BY <1>1
<1>3. Runners' = Runners
  BY <1>1 DEF Runners, Running
<1>4. stack \in Seq(Frame) /\ Booked(stack, Runners, kinds, hooks.unqueued)
  BY DEF Structure, StackOK, Count
<1>5. Booked(stack', Runners, kinds, hooks.unqueued)
  <2>1. CASE \E clear, toEnd \in BOOLEAN : Stop(clear, toEnd) /\ ~ clear
    <3>1. PICK toEnd \in BOOLEAN :
             stack' = << [kind |-> "stop", i |-> Len(timers), toEnd |-> toEnd,
                          dequeue |-> TRUE] >> \o stack
      BY <2>1 DEF Stop
    <3> DEFINE f == [kind |-> "stop", i |-> Len(timers), toEnd |-> toEnd, dequeue |-> TRUE]
    <3>2. f \in Frame /\ f.kind # "complete"
      BY LenProperties DEF Frame, Loop, Structure
    <3>3. stack' = << f >> \o stack
      BY <3>1
    <3> HIDE DEF f
    <3>4. QED
      BY <1>4, <3>2, <3>3, BookedPushed
  <2>2. CASE Finish
    <3> DEFINE f == [kind |-> "finish", i |-> Len(timers), old |-> queue]
    <3>1. stack' = << f >> \o stack
      BY <2>2 DEF Finish
    <3>2. queue \in Seq(Item \cup {Sentinel})
      BY DEF Waiting, QueueOK
    <3>3. f \in Frame /\ f.kind # "complete"
      BY <3>2, LenProperties DEF Frame, Loop, Structure
    <3> HIDE DEF f
    <3>4. QED
      BY <1>4, <3>1, <3>3, BookedPushed
  <2>3. CASE FinishEnds \/ (StopEnds /\ ~ MovesOn(Top))
    <3>1. stack # << >> /\ Top.kind \in {"stop", "finish"} /\ stack' = Rest
      BY <2>3 DEF FinishEnds, StopEnds, TopIs
    <3>2. QED
      BY <3>1, BookedBelow
  <2>4. CASE Schedule
    <3> DEFINE f == [kind |-> "tick", i |-> 1]
    <3>1. stack = << >> /\ (stack' = << f >> \/ stack' = stack)
      BY <2>4 DEF Schedule
    <3>2. f \in Frame /\ f.kind # "complete"
      BY DEF Frame, Tick
    <3>3. << f >> \o << >> = << f >>
      OBVIOUS
    <3> HIDE DEF f
    <3>4. Booked(<< f >> \o << >>, Runners, kinds, hooks.unqueued)
      BY <1>4, <3>1, <3>2, BookedPushed
    <3>5. QED
      BY <1>4, <3>1, <3>3, <3>4
  <2>5. CASE AskPromise \/ \E show \in BOOLEAN : ShowHide(show)
    <3>1. stack' = stack
      BY <2>5 DEF AskPromise, ShowHide
    <3>2. QED
      BY <1>4, <3>1
  <2>6. QED
    BY <2>1, <2>2, <2>3, <2>4, <2>5
<1>6. QED
  BY <1>1, <1>2, <1>3, <1>5 DEF Count

LEMMA FinishOldCount ==
  ASSUME Structure, GoOn(stack), Sent, Count, FinishOld
  PROVE  Count'
<1> DEFINE i == Head(Top.old)
           f == [Top EXCEPT !.old = Tail(@)]
           on == << f >> \o Rest
<1>1. /\ stack # << >> /\ Top.kind = "finish" /\ IsLoop(Top) /\ Top.old # << >>
      /\ UNCHANGED << hooks, kinds >>
  BY DEF FinishOld, TopIs, IsLoop
<1>2. Top \in Loop /\ Members(stack) = {Top}
  BY <1>1, LoopAlone
<1>3. Top \in [kind : {"finish"}, i : Nat, old : Seq(Item \cup {Sentinel})]
  BY <1>1, <1>2 DEF Loop
<1>4. /\ i \in Item \cup {Sentinel} /\ i \in Members(Top.old)
      /\ Tail(Top.old) \in Seq(Item \cup {Sentinel})
  BY <1>1, <1>3, HeadTailProperties, MembersPopped
<1>5. f \in Frame /\ f.kind # "complete"
  BY <1>3, <1>4 DEF Loop, Frame
<1>6. IF i = Sentinel \/ kinds[i] = Delay
        THEN stack' = on /\ item' = item
        ELSE Launched(i, on)
  BY DEF FinishOld
<1>7. i # Sentinel => kinds[i].queue
  BY <1>1, <1>2, <1>4 DEF Sent, Known, Made, Waits
<1> HIDE DEF f, i
<1>8. on \in Seq(Frame) /\ Booked(on, Runners, kinds, hooks.unqueued)
  BY <1>1, <1>5, BookedBelow
<1> HIDE DEF on
<1>9. CASE i = Sentinel \/ kinds[i] = Delay
  <2>1. \A j \in Item : Running(j)' <=> Running(j)
    BY <1>6, <1>9 DEF Running
  <2>2. QED
    BY <1>1, <1>6, <1>8, <1>9, <2>1, SameCount
<1>10. CASE ~ (i = Sentinel \/ kinds[i] = Delay)
  <2>1. Launched(i, on) /\ i \in Item /\ kinds[i].queue
    BY <1>4, <1>6, <1>7, <1>10
  <2>2. Booked(stack', Runners, kinds, hooks.unqueued) /\ Runners' = Runners \cup {i}
    BY <1>8, <2>1, LaunchedBooked
  <2>3. Booked(stack', Runners', kinds, hooks.unqueued)
    BY <2>1, <2>2, BookedQueued
  <2>4. QED
    BY <1>1, <2>3 DEF Count
<1>11. QED
  BY <1>9, <1>10

-----------------------------------------------------------------------------
(* The promise: what may resolve it *)

LEMMA EnqueueCount ==
  ASSUME Structure, Waiting, Waiting', Sent, Count, NoneHasty, NEW kind \in Kinds,
         Enqueue(kind), ~ meddled'
  PROVE  Count' /\ Nothing
<1> DEFINE x == Len(kinds')
<1>1. /\ UserRuns /\ ~ finishing
      /\ Len(kinds) < MaxItems /\ kinds' = Append(kinds, kind)
      /\ Waits(kind) /\ kind.queue
  BY DEF Enqueue, Waits
<1>2. /\ KindsGrow /\ Len(kinds) \in Nat /\ x = Len(kinds) + 1 /\ kinds'[x].queue
  BY <1>1, KindsAppended
<1>3. Known /\ Even
  BY <1>1, UserSees DEF Sent
<1>4. /\ hooks.unqueued \in Nat
      /\ Booked(stack, Runners, kinds', hooks.unqueued)
  BY <1>2, <1>3, BookedGrown DEF Count
<1>5. CASE HasSentinel(queue)
  <2>1. /\ hooks' = [hooks EXCEPT !.on = TRUE]
        /\ UNCHANGED << item, stack, promise >>
    BY <1>5 DEF Enqueue, HasSentinel
  <2>2. hooks'.unqueued = hooks.unqueued
    BY <1>3, <2>1 DEF Known
  <2>3. Runners' = Runners
    BY <2>1 DEF Runners, Running
  <2>4. QED
    BY <1>4, <2>1, <2>2, <2>3 DEF Count, Nothing
<1>6. CASE ~ HasSentinel(queue)
  <2>1. Dequeued(Append(queue, x), delays, stack)
    BY <1>6 DEF Enqueue, HasSentinel
  <2>2. Carried = {}
    BY <1>3, <1>6 DEF Even, Balanced
  <2>3. QueueOK(Append(queue, x)) /\ Made(Append(queue, x), kinds')
    BY <1>1, <1>3, MadeAppended
  <2>4. stack \in Seq(Frame)
    BY DEF Structure, StackOK
  <2>5. QED
    BY <1>2, <1>3, <1>4, <2>1, <2>2, <2>3, <2>4, DequeuedCount
<1>7. QED
  BY <1>5, <1>6

LEMMA SkipCount ==
  ASSUME Structure, Waiting, Sent, Count, NEW kind \in Kinds, Skip(kind)
  PROVE  Count'
<1> DEFINE x == Len(kinds')
           n == hooks.unqueued
<1>1. /\ Len(kinds) < MaxItems /\ kinds' = Append(kinds, kind)
      /\ hooks' = IF kind.queue THEN hooks ELSE [hooks EXCEPT !.on = TRUE, !.unqueued = @ + 1]
      /\ Launched(x, stack)
  BY DEF Skip
<1>2. /\ KindsGrow /\ Len(kinds) \in Nat /\ x = Len(kinds) + 1 /\ x \in Item
      /\ kinds'[x] = kind
  BY <1>1, KindsAppended
<1>3. Known /\ n \in Nat /\ stack \in Seq(Frame)
  BY DEF Sent, Count, Structure, StackOK
<1>4. IF kinds'[x].queue THEN Booked(stack, Runners, kinds', n)
                         ELSE Booked(stack, Runners \cup {x}, kinds', n + 1)
  BY <1>2, <1>3, BookedGrown DEF Count
<1>5. Launched(x, stack) /\ x \in Item
  BY <1>1, <1>2
<1> HIDE DEF x
<1>6. CASE ~ kind.queue
  <2>1. hooks'.unqueued = n + 1
    BY <1>1, <1>3, <1>6 DEF Known
  <2>2. Booked(stack, Runners \cup {x}, kinds', n + 1)
    BY <1>2, <1>4, <1>6
  <2>3. /\ Booked(stack', Runners \cup {x}, kinds', n + 1)
        /\ Runners' = Runners \cup {x}
    BY <1>3, <1>5, <2>2, LaunchedBooked
  <2>4. QED
    BY <1>3, <2>1, <2>3 DEF Count
<1>7. CASE kind.queue
  <2>1. hooks' = hooks
    BY <1>1, <1>7
  <2>2. Booked(stack, Runners, kinds', n)
    BY <1>2, <1>4, <1>7
  <2>3. Booked(stack', Runners, kinds', n) /\ Runners' = Runners \cup {x}
    BY <1>3, <1>5, <2>2, LaunchedBooked
  <2>4. \A i : ~ kinds'[i].queue => (i \in Runners' <=> i \in Runners)
    BY <1>2, <1>7, <2>3
  <2>5. Booked(stack', Runners', kinds', n)
    <3>1. PICK Q : Q = Runners'
      OBVIOUS
    <3>2. PICK R : R = Runners
      OBVIOUS
    <3>3. Booked(stack', Q, kinds', n)
      BY <2>3, <2>4, <3>1, <3>2, BookedQueued
    <3>4. QED
      BY <3>1, <3>3
  <2>6. QED
    BY <1>3, <2>1, <2>5 DEF Count
<1>8. QED
  BY <1>6, <1>7

LEMMA ReturnCount ==
  ASSUME Structure, Waiting, Waiting', Sent, Count, NoneHasty, Return, ~ hurried'
  PROVE  Count' /\ (finishing \/ Nothing)
<1>0. PICK x : x = Top.of
  OBVIOUS
<1>1. /\ stack # << >> /\ Top.kind = "complete" /\ kinds' = kinds
      /\ IF Queued(x) THEN Dequeued(queue, delays, Rest)
                      ELSE Counted(x) /\ stack' = Rest /\ UNCHANGED << queue, item >>
  BY <1>0 DEF Return, TopIs
<1>2. Known /\ Len(kinds) \in Nat /\ hooks.unqueued \in Nat
      /\ Booked(stack, Runners, kinds, hooks.unqueued)
  BY LenProperties DEF Sent, Waiting, Count
<1>3. stack \in Seq(Frame) /\ Rest \in Seq(Frame) /\ Top \in Members(stack) /\ Top \in Frame
  BY <1>1, StackMembers
<1>4. CASE Queued(x)
  <2>1. Booked(Rest, Runners, kinds, hooks.unqueued)
    BY <1>0, <1>1, <1>2, <1>3, <1>4, BookedPopped DEF Top, Rest, Queued
  <2>2. Dequeued(queue, delays, Rest)
    BY <1>1, <1>4
  <2>3. ASSUME ~ finishing  PROVE Carried = {}
    <3>1. CASE Waits(kinds[x])
      BY <1>0, <1>1, <2>3, <3>1, ReturnAlone
    <3>2. CASE ~ Waits(kinds[x])
      <4>1. queue = << >>
        BY <1>0, <1>4, <3>2 DEF Return, Hurries
      <4>2. Even
        BY <1>1, <2>3, NoneMoves DEF Sent, Moving
      <4>3. QED
        BY <4>1, <4>2 DEF Even, Balanced, HasSentinel
    <3>3. QED
      BY <3>1, <3>2
  <2>4. QED
    BY <1>1, <1>2, <1>3, <2>1, <2>2, <2>3, SameKinds, DequeuedCount
<1>5. CASE ~ Queued(x)
  <2>1. x \in 1 .. Len(kinds)
    <3>1. Top \in Call /\ x <= Len(kinds)
      BY <1>0, <1>1, <1>2, <1>3, FrameParts DEF Known
    <3>2. QED
      BY <1>0, <1>2, <3>1 DEF Call, Item
  <2>2. hooks.unqueued - 1 \in Nat /\ Booked(Rest, Runners, kinds, hooks.unqueued - 1)
    BY <1>0, <1>1, <1>2, <1>3, <1>5, <2>1, BookedReturned DEF Top, Rest, Queued
  <2>3. ~ finishing => (queue = << >> => Carried = {})
    <3>1. ~ finishing => Even
      BY <1>1, NoneMoves DEF Sent, Moving
    <3>2. QED
      BY <3>1 DEF Even, Balanced, HasSentinel
  <2>4. Runners' = Runners /\ \A j \in Item : Running(j)' => Running(j)
    BY <1>1, <1>5 DEF Runners, Running
  <2>5. Booked(stack', Runners', kinds, hooks.unqueued - 1)
    BY <1>1, <1>5, <2>2, <2>4
  <2>6. QED
    BY <1>1, <1>2, <1>5, <2>2, <2>3, <2>4, <2>5, CountedCount
<1>6. QED
  BY <1>4, <1>5

LEMMA TimeoutCount ==
  ASSUME Structure, Waiting, Waiting', Sent, Count, NoneHasty, NEW i \in Item, Timeout(i)
  PROVE  Count' /\ Nothing
<1>1. /\ stack = << >> /\ i \in delays /\ kinds' = kinds
      /\ Dequeued(queue, delays \ {i}, << >>)
  BY DEF Timeout
<1>2. Known /\ hooks.unqueued \in Nat /\ Booked(<< >>, Runners, kinds, hooks.unqueued)
      /\ << >> \in Seq(Frame)
  BY <1>1 DEF Sent, Count
<1>3. Carried = {}
  BY <1>1, TimeoutAlone
<1>4. QED
  BY <1>1, <1>2, <1>3, SameKinds, DequeuedCount

LEMMA StopMovesOnCount ==
  ASSUME Structure, Waiting, Waiting', GoOn(stack), Sent, Count, NoneHasty, StopEnds,
         MovesOn(Top)
  PROVE  Count' /\ Nothing
<1>1. /\ stack # << >> /\ Top.kind = "stop" /\ Top.i = 0 /\ kinds' = kinds
      /\ Dequeued(queue, delays, Rest)
  BY DEF StopEnds, TopIs
<1>2. Carried = {} /\ Known
  BY <1>1, StopEndsAlone DEF Sent
<1>3. Rest \in Seq(Frame) /\ hooks.unqueued \in Nat
      /\ Booked(Rest, Runners, kinds, hooks.unqueued)
  BY <1>1, BookedBelow
<1>4. QED
  BY <1>1, <1>2, <1>3, SameKinds, DequeuedCount

-----------------------------------------------------------------------------
(* The promise: the theorem *)

LEMMA CountInit == Init => CountInv
<1> SUFFICES ASSUME Init  PROVE Count
  BY DEF CountInv
<1>1. stack = << >> /\ kinds = << >> /\ hooks.unqueued = 0 /\ \A i \in Item : ~ Running(i)
  BY DEF Init, NoHooks, Running, NoItem
<1>2. Held(stack, Runners, kinds) = {}
  BY <1>1 DEF Held
<1>3. Apart(stack, kinds) /\ Runners = {}
  BY <1>1 DEF Apart, Runners
<1>4. Booked(stack, Runners, kinds, 0)
  BY <1>2, <1>3, FS_EmptySet DEF Booked
<1>5. QED
  BY <1>1, <1>4 DEF Count

LEMMA CountStutter ==
  ASSUME Count, UNCHANGED vars
  PROVE  Count' /\ promise' = promise
<1>1. UNCHANGED << hooks, kinds, item, stack, promise >>
  BY DEF vars
<1>2. \A i \in Item : Running(i)' <=> Running(i)
  BY <1>1 DEF Running
<1>3. QED
  BY <1>1, <1>2, SameCount DEF Count

\* whatever step is taken, the count is right, and the promise kept
LEMMA CountStep ==
  ASSUME Inv, Inv', SentInv, HastyInv, CountInv, [Next]_vars, ~ meddled', ~ hurried'
  PROVE  Count' /\ (finishing \/ Nothing)
<1>1. ~ meddled /\ ~ hurried
  BY MeddledStays, HurriedStays
<1>2. /\ Structure /\ Waiting /\ Waiting' /\ GoOn(stack) /\ Sent /\ Count
      /\ Known /\ DOMAIN hooks = {"on", "stop", "unqueued"}
  BY <1>1 DEF Inv, GoInv, SentInv, CountInv, Sent, Known
<1>3. promise' = promise => Nothing
  BY DEF Nothing
<1>4. CASE UNCHANGED vars
  BY <1>2, <1>3, <1>4, CountStutter
<1>5. CASE TickOn \/ TickLast \/ Ticked \/ TickEnds \/ Launch
  <2>1. promise' = promise
    BY <1>5 DEF TickOn, TickLast, Ticked, TickEnds, Launch
  <2>2. QED
    BY <1>2, <1>3, <1>5, <2>1, TickOnCount, TickLastCount, TickedCount, LaunchCount
<1>6. CASE PassTimer \/ EndTimer \/ Splice
  <2>1. promise' = promise
    BY <1>6 DEF PassTimer, EndTimer, Splice
  <2>2. QED
    BY <1>2, <1>3, <1>6, <2>1, PassTimerCount, EndTimerCount, SpliceCount
<1>7. CASE BreakTimer \/ Crash
  <2>1. BreakTimer => NoneHasty
    BY NoneIsHasty DEF BreakTimer, Looping, TopIs
  <2>2. QED
    BY <1>2, <1>7, <2>1, BreakTimerCount, NeverCrashes
<1>8. CASE StopEnds
  <2>1. CASE MovesOn(Top)
    <3>1. NoneHasty
      BY <1>8, NoneIsHasty DEF StopEnds, TopIs
    <3>2. QED
      BY <1>2, <1>8, <2>1, <3>1, StopMovesOnCount
  <2>2. CASE ~ MovesOn(Top)
    <3>1. promise' = promise
      BY <1>8, <2>2 DEF StopEnds
    <3>2. QED
      BY <1>2, <1>3, <1>8, <2>2, <3>1, CallsCount
  <2>3. QED
    BY <2>1, <2>2
<1>9. CASE FinishOld
  <2>1. promise' = promise
    BY <1>9 DEF FinishOld
  <2>2. QED
    BY <1>2, <1>3, <1>9, <2>1, FinishOldCount
<1>10. CASE FinishEnds \/ Finish \/ Schedule \/ \E show \in BOOLEAN : ShowHide(show)
  <2>1. promise' = promise
    BY <1>10 DEF FinishEnds, Finish, Schedule, ShowHide
  <2>2. QED
    BY <1>2, <1>3, <1>10, <2>1, CallsCount
<1>11. CASE AskPromise
  <2>1. Nothing
    BY <1>11 DEF AskPromise, Nothing
  <2>2. QED
    BY <1>2, <1>11, <2>1, CallsCount
<1>12. ASSUME NEW clear \in BOOLEAN, NEW toEnd \in BOOLEAN, Stop(clear, toEnd)
       PROVE  Count' /\ Nothing
  <2>1. ~ clear
    BY <1>12 DEF Stop, Meddle
  <2>2. promise' = promise
    BY <1>12, <2>1 DEF Stop
  <2>3. QED
    BY <1>2, <1>3, <1>12, <2>1, <2>2, CallsCount
<1>13. CASE ClearQueue \/ Throw
  BY <1>13 DEF ClearQueue, Throw, Meddle
<1>14. ASSUME NEW kind \in Kinds, Enqueue(kind)
       PROVE  Count' /\ Nothing
  <2>1. NoneHasty
    BY <1>14, NoneIsHasty DEF Enqueue, UserRuns, TopIs
  <2>2. QED
    BY <1>2, <1>14, <2>1, EnqueueCount
<1>15. ASSUME NEW kind \in Kinds, Skip(kind)
       PROVE  Count' /\ Nothing
  <2>1. promise' = promise
    BY <1>15 DEF Skip
  <2>2. QED
    BY <1>2, <1>3, <1>15, <2>1, SkipCount
<1>16. CASE Return
  <2>1. NoneHasty
    BY <1>16, NoneIsHasty DEF Return, TopIs
  <2>2. QED
    BY <1>2, <1>16, <2>1, ReturnCount
<1>17. ASSUME NEW i \in Item, Timeout(i)
       PROVE  Count' /\ Nothing
  <2>1. NoneHasty
    BY <1>17, NoneIsHasty DEF Timeout
  <2>2. QED
    BY <1>2, <1>17, <2>1, TimeoutCount
<1>18. CASE Run
  BY <1>5, <1>6, <1>7, <1>8, <1>9, <1>10, <1>18 DEF Run
<1>19. CASE User
  BY <1>10, <1>11, <1>12, <1>13, <1>14, <1>15, <1>19 DEF User
<1>20. QED
  BY <1>4, <1>10, <1>16, <1>17, <1>18, <1>19 DEF Next, Browser

(* When the promise is resolved the queue is empty and no animation runs,  *)
(* of the queue or outside of it, whatever was started and stopped, by     *)
(* whom and in what order: the hooks count every animation outside of the  *)
(* queue until its callbacks are through.  (Unless the user has meddled,   *)
(* an empty animation has moved the queue on, or finish() is under way.)   *)
\* jquery-3.6.1.js:4660-4690, 7367-7395
THEOREM PromiseIsKeptHolds == Spec => PromiseIsKept
<1>1. Inv /\ Inv' /\ SentInv /\ HastyInv /\ CountInv /\ [Next]_vars => CountInv'
  BY CountStep DEF CountInv
<1>2. Inv /\ Inv' /\ SentInv /\ HastyInv /\ CountInv /\ [Next]_vars
        => [promise = "waiting" /\ promise' = "resolved" =>
               \/ meddled' \/ hurried' \/ finishing
               \/ queue' = << >> /\ \A i \in Item : item'[i].state # "running"]_vars
  BY CountStep DEF Nothing
<1>3. QED
  BY <1>1, <1>2, CountInit, SentInvHolds, HastyInvHolds, FxInvHolds, PTL DEF Spec, PromiseIsKept
=============================================================================
