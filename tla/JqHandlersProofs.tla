-------------------------- MODULE JqHandlersProofs --------------------------
(***************************************************************************)
(* Proofs about the two parts of jQuery that keep lists of functions of    *)
(* the user and call them while these functions change the lists.          *)
(*                                                                         *)
(* JqCallbacks, for any lists, callbacks, options and any depth of calls:  *)
(* what the frames on the stack, the queue and the indices of a list say   *)
(* of each other (Inv).                                                    *)
(*                                                                         *)
(* JqEvents, for any tree of nodes, any functions and gestures and any     *)
(* depth of dispatches: what the lists of handlers, the private data, the  *)
(* calls under way and their copies of the lists say of each other         *)
(* (EventsIInv).                                                           *)
(*                                                                         *)
(* Both need what Only leaves of a sequence, and that comes first.         *)
(***************************************************************************)
EXTENDS JqCallbacks, JqEvents, FiniteSetTheorems, SequenceTheorems, TLAPS

(* A set of numbers that is not empty has a smallest one: initial segments *)
(* of Nat are finite sets, and inclusion is well-founded on these.         *)
LEMMA SmallestIn ==
  ASSUME NEW T \in SUBSET Nat, T # {}
  PROVE  \E m \in T : \A k \in T : m <= k
<1> DEFINE F == {0 .. k : k \in T}
<1>1. F \subseteq FiniteSubsetsOf(Nat) /\ F # {}
  <2>1. ASSUME NEW k \in T PROVE 0 .. k \in SUBSET Nat /\ IsFiniteSet(0 .. k)
    BY FS_Interval
  <2>2. QED
    BY <2>1 DEF FiniteSubsetsOf
<1>2. PICK x \in F : \A y \in F : ~ (<< y, x >> \in StrictSubsetOrdering(Nat))
  BY <1>1, FS_StrictSubsetOrderingWellFounded, WFMin
<1>3. PICK m \in T : x = 0 .. m
  BY <1>2
<1>4. ASSUME NEW k \in T, k < m PROVE FALSE
  <2>1. 0 .. k \in F /\ 0 .. k \subseteq x /\ 0 .. k # x /\ x \in SUBSET Nat /\ 0 .. k \in SUBSET Nat
    BY <1>3, <1>4
  <2>2. QED
    BY <1>2, <2>1 DEF StrictSubsetOrdering
<1>5. QED
  BY <1>3, <1>4

(* Induction, over the set of the numbers that have the property.          *)
LEMMA AllNumbers ==
  ASSUME NEW T \in SUBSET Nat, 0 \in T, \A n \in T : n + 1 \in T
  PROVE  T = Nat
<1>1. ASSUME Nat \ T # {} PROVE FALSE
  <2>1. PICK m \in Nat \ T : \A k \in Nat \ T : m <= k
    BY <1>1, SmallestIn
  <2>2. m - 1 \in Nat /\ m - 1 \notin Nat \ T
    BY <2>1
  <2>3. QED
    BY <2>1, <2>2
<1>2. QED
  BY <1>1

-----------------------------------------------------------------------------
(* What Only leaves of a sequence *)

OnlyStep(F, seq, S) ==
    [k \in 0 .. Len(seq) |->
        IF k = 0 THEN << >>
        ELSE IF seq[k] \in S THEN Append(F[k - 1], seq[k]) ELSE F[k - 1]]

\* F has the values of Only for the first n items
Filters(F, n, seq, S) ==
    /\ DOMAIN F = 0 .. n
    /\ F[0] = << >>
    /\ \A k \in 1 .. n :
         F[k] = IF seq[k] \in S THEN Append(F[k - 1], seq[k]) ELSE F[k - 1]

LEMMA FilterExists ==
  ASSUME NEW seq, NEW S, NEW n \in Nat
  PROVE  \E F : Filters(F, n, seq, S)
<1> DEFINE T == {k \in Nat : \E F : Filters(F, k, seq, S)}
<1>1. 0 \in T
  <2>1. Filters([k \in 0 .. 0 |-> << >>], 0, seq, S)
    BY DEF Filters
  <2>2. QED
    BY <2>1
<1>2. ASSUME NEW k \in T PROVE k + 1 \in T
  <2>1. PICK F : Filters(F, k, seq, S)
    OBVIOUS
  <2> DEFINE G == [j \in 0 .. k + 1 |-> IF j <= k THEN F[j]
                     ELSE IF seq[k + 1] \in S THEN Append(F[k], seq[k + 1]) ELSE F[k]]
  <2>2. Filters(G, k + 1, seq, S)
    <3>1. DOMAIN G = 0 .. k + 1 /\ G[0] = << >>
      BY <2>1 DEF Filters
    <3>2. ASSUME NEW j \in 1 .. k + 1
          PROVE G[j] = IF seq[j] \in S THEN Append(G[j - 1], seq[j]) ELSE G[j - 1]
      <4>1. CASE j <= k
        <5>1. j \in 1 .. k /\ G[j] = F[j] /\ G[j - 1] = F[j - 1]
          BY <4>1
        <5>2. QED
          BY <5>1, <2>1 DEF Filters
      <4>2. CASE j = k + 1
        BY <4>2
      <4>3. QED
        BY <4>1, <4>2
    <3>3. QED
      BY <3>1, <3>2 DEF Filters
  <2>3. QED
    BY <2>2
<1>3. T = Nat
  <2> HIDE DEF T
  <2>1. T \subseteq Nat
    BY DEF T
  <2>2. QED
    BY <1>1, <1>2, <2>1, AllNumbers
<1>4. QED
  BY <1>3

LEMMA OnlyIsFilter ==
  ASSUME NEW X, NEW seq \in Seq(X), NEW S
  PROVE  \E F : Filters(F, Len(seq), seq, S) /\ Only(seq, S) = F[Len(seq)]
<1>1. Len(seq) \in Nat
  OBVIOUS
<1>2. PICK F0 : Filters(F0, Len(seq), seq, S)
  BY <1>1, FilterExists
<1>3. DOMAIN F0 = 0 .. Len(seq) /\ \A k \in 0 .. Len(seq) : F0[k] = OnlyStep(F0, seq, S)[k]
  <2>1. ASSUME NEW k \in 1 .. Len(seq) PROVE F0[k] = OnlyStep(F0, seq, S)[k]
    <3>1. F0[k] = IF seq[k] \in S THEN Append(F0[k - 1], seq[k]) ELSE F0[k - 1]
      BY <1>2 DEF Filters
    <3>2. k \in 0 .. Len(seq) /\ k # 0
      OBVIOUS
    <3>3. QED
      BY <3>1, <3>2 DEF OnlyStep
  <2>2. F0[0] = OnlyStep(F0, seq, S)[0] /\ DOMAIN F0 = 0 .. Len(seq)
    BY <1>1, <1>2 DEF Filters, OnlyStep
  <2>3. \A k \in 0 .. Len(seq) : k = 0 \/ k \in 1 .. Len(seq)
    BY <1>1
  <2>4. QED
    BY <2>1, <2>2, <2>3
<1> DEFINE G0 == [k \in 0 .. Len(seq) |-> F0[k]]
<1>4. G0 = OnlyStep(G0, seq, S)
  <2>1. \A k \in 0 .. Len(seq) : OnlyStep(G0, seq, S)[k] = OnlyStep(F0, seq, S)[k]
    BY DEF OnlyStep
  <2>2. \A k \in 0 .. Len(seq) : G0[k] = OnlyStep(G0, seq, S)[k]
    BY <1>3, <2>1
  <2>3. QED
    BY <2>2 DEF OnlyStep
<1> HIDE DEF G0
<1> DEFINE G == CHOOSE F : F = OnlyStep(F, seq, S)
<1>5. \E F : F = OnlyStep(F, seq, S)
  BY <1>4
<1>6. G = OnlyStep(G, seq, S)
  BY <1>5
<1>7. Only(seq, S) = G[Len(seq)]
  BY Zenon DEF Only, OnlyStep
<1> HIDE DEF G
<1>8. Filters(G, Len(seq), seq, S)
  <2>1. \A k \in 0 .. Len(seq) : G[k] = OnlyStep(G, seq, S)[k]
    BY <1>6
  <2>2. DOMAIN G = 0 .. Len(seq)
    BY <1>6, Zenon DEF OnlyStep
  <2>3. G[0] = << >>
    BY <2>1, <1>1 DEF OnlyStep
  <2>4. ASSUME NEW k \in 1 .. Len(seq)
        PROVE G[k] = IF seq[k] \in S THEN Append(G[k - 1], seq[k]) ELSE G[k - 1]
    <3>1. k \in 0 .. Len(seq) /\ k # 0
      OBVIOUS
    <3>2. QED
      BY <2>1, <3>1 DEF OnlyStep
  <2>5. QED
    BY <2>2, <2>3, <2>4 DEF Filters
<1>9. QED
  BY <1>7, <1>8

\* which of the first n items are left out
Left(seq, S, n) == {j \in 1 .. Len(seq) : j <= n /\ seq[j] \notin S}

LEMMA LeftCounts ==
  ASSUME NEW X, NEW seq \in Seq(X), NEW S, NEW n \in Nat
  PROVE  /\ Cardinality(Left(seq, S, n)) \in 0 .. n
         /\ n = 0 => Cardinality(Left(seq, S, n)) = 0
         /\ n + 1 > Len(seq) => Left(seq, S, n + 1) = Left(seq, S, n)
         /\ n + 1 <= Len(seq) =>
              Cardinality(Left(seq, S, n + 1)) =
                Cardinality(Left(seq, S, n)) + IF seq[n + 1] \in S THEN 0 ELSE 1
<1> DEFINE L == Left(seq, S, n)
<1>1. IsFiniteSet(1 .. n) /\ Cardinality(1 .. n) = n
  <2>1. 1 <= n => n - 1 + 1 = n
    OBVIOUS
  <2>2. QED
    BY <2>1, FS_Interval
<1>2. L \subseteq 1 .. n
  BY DEF Left
<1>3. IsFiniteSet(L) /\ Cardinality(L) \in Nat /\ Cardinality(L) <= n
  BY <1>1, <1>2, FS_Subset, FS_CardinalityType
<1>4. n = 0 => L = {}
  BY <1>2
<1>5. n + 1 > Len(seq) => Left(seq, S, n + 1) = L
  BY DEF Left
<1>6. CASE n + 1 <= Len(seq)
  <2>1. CASE seq[n + 1] \in S
    <3>1. Left(seq, S, n + 1) = L
      BY <2>1 DEF Left
    <3>2. QED
      BY <1>3, <1>4, <1>5, <1>6, <2>1, <3>1, FS_EmptySet
  <2>2. CASE seq[n + 1] \notin S
    <3>1. Left(seq, S, n + 1) = L \cup {n + 1} /\ n + 1 \notin L
      BY <1>6, <2>2 DEF Left
    <3>2. Cardinality(L \cup {n + 1}) = Cardinality(L) + 1
      BY <1>3, <3>1, FS_AddElement
    <3>3. Cardinality(Left(seq, S, n + 1)) = Cardinality(L) + 1
      BY <3>1, <3>2
    <3>4. n = 0 => Cardinality(L) = 0
      BY <1>4, FS_EmptySet
    <3> HIDE DEF L
    <3>5. L = Left(seq, S, n)
      BY DEF L
    <3>6. QED
      BY <1>3, <1>6, <2>2, <3>3, <3>4, <3>5
  <2>3. QED
    BY <2>1, <2>2
<1>7. QED
  BY <1>3, <1>4, <1>5, <1>6, FS_EmptySet

\* t are those of the first n items that are in S: the k-th comes to place c[k]
Shape(c, t, n, seq, S) ==
    /\ \A k \in 0 .. n : c[k] \in Nat /\ c[k] = k - Cardinality(Left(seq, S, k))
    /\ \A j, k \in 0 .. n : j < k => c[j] <= c[k] /\ (seq[k] \in S => c[j] < c[k])
    /\ Len(t) = c[n]
    /\ \A k \in 1 .. n : seq[k] \in S => c[k] \in 1 .. Len(t) /\ t[c[k]] = seq[k]
    /\ \A i \in 1 .. Len(t) : \E k \in 1 .. n : seq[k] \in S /\ c[k] = i /\ t[i] = seq[k]

(* One more item: it is appended, or nothing changes.                      *)
LEMMA ShapeStep ==
  ASSUME NEW X, NEW seq \in Seq(X), NEW S, NEW n \in 0 .. Len(seq) - 1,
         NEW c, NEW t \in Seq(X), Shape(c, t, n, seq, S), NEW u,
         u = IF seq[n + 1] \in S THEN Append(t, seq[n + 1]) ELSE t,
         c[n + 1] = Len(u)
  PROVE  u \in Seq(X) /\ Shape(c, u, n + 1, seq, S)
<1> DEFINE m == n + 1
<1>1. n \in Nat /\ m \in 1 .. Len(seq) /\ seq[m] \in X /\ Len(t) \in Nat
  OBVIOUS
<1>2. /\ u \in Seq(X) /\ Len(u) = Len(t) + (IF seq[m] \in S THEN 1 ELSE 0)
      /\ \A i \in 1 .. Len(t) : u[i] = t[i]
      /\ seq[m] \in S => u[Len(t) + 1] = seq[m]
  BY <1>1
<1>3. /\ \A k \in 0 .. n : c[k] \in Nat /\ c[k] = k - Cardinality(Left(seq, S, k))
      /\ \A j, k \in 0 .. n : j < k => c[j] <= c[k] /\ (seq[k] \in S => c[j] < c[k])
      /\ Len(t) = c[n]
  BY DEF Shape
<1>4. c[m] = m - Cardinality(Left(seq, S, m)) /\ c[m] \in Nat
  <2>1. c[n] \in Nat /\ c[n] = n - Cardinality(Left(seq, S, n))
    BY <1>1, <1>3
  <2>2. /\ Cardinality(Left(seq, S, n)) \in 0 .. n
        /\ Cardinality(Left(seq, S, m)) =
             Cardinality(Left(seq, S, n)) + IF seq[m] \in S THEN 0 ELSE 1
    BY <1>1, LeftCounts
  <2> HIDE DEF m
  <2>3. m = n + 1
    BY DEF m
  <2>4. QED
    BY <1>1, <1>2, <1>3, <2>1, <2>2, <2>3
<1>5. \A j \in 0 .. n : c[j] <= c[n] /\ c[j] \in Nat
  BY <1>1, <1>3
<1>6. c[n] \in Nat /\ c[m] = c[n] + (IF seq[m] \in S THEN 1 ELSE 0)
  BY <1>1, <1>2, <1>3
<1>7. ASSUME NEW j \in 0 .. m, NEW k \in 0 .. m, j < k
      PROVE  c[j] <= c[k] /\ (seq[k] \in S => c[j] < c[k])
  <2>1. CASE k = m
    <3>1. j \in 0 .. n
      BY <1>1, <1>7, <2>1
    <3>2. c[j] <= c[n] /\ c[j] \in Nat
      BY <1>5, <3>1
    <3>3. QED
      BY <1>6, <2>1, <3>2
  <2>2. CASE k # m
    BY <1>1, <1>3, <1>7, <2>2
  <2>3. QED
    BY <2>1, <2>2
<1>8. ASSUME NEW k \in 1 .. m, seq[k] \in S
      PROVE  c[k] \in 1 .. Len(u) /\ u[c[k]] = seq[k]
  <2>1. CASE k = m
    BY <1>1, <1>2, <1>6, <1>8, <2>1
  <2>2. CASE k # m
    <3>1. k \in 1 .. n
      BY <1>1, <2>2
    <3>2. c[k] \in 1 .. Len(t) /\ t[c[k]] = seq[k]
      BY <3>1, <1>8 DEF Shape
    <3>3. QED
      BY <1>1, <1>2, <3>2
  <2>3. QED
    BY <2>1, <2>2
<1>9. ASSUME NEW i \in 1 .. Len(u)
      PROVE  \E k \in 1 .. m : seq[k] \in S /\ c[k] = i /\ u[i] = seq[k]
  <2>1. CASE i \in 1 .. Len(t)
    <3>1. PICK k \in 1 .. n : seq[k] \in S /\ c[k] = i /\ t[i] = seq[k]
      BY <2>1 DEF Shape
    <3>2. k \in 1 .. m /\ u[i] = seq[k]
      BY <1>1, <1>2, <2>1, <3>1
    <3>3. QED
      BY <3>1, <3>2
  <2>2. CASE i \notin 1 .. Len(t)
    <3>1. i = Len(t) + 1 /\ seq[m] \in S
      BY <1>1, <1>2, <2>2
    <3>2. m \in 1 .. m
      BY <1>1
    <3>3. c[m] = i /\ u[i] = seq[m]
      BY <1>2, <1>3, <1>6, <3>1
    <3>4. QED
      BY <3>1, <3>2, <3>3
  <2>3. QED
    BY <2>1, <2>2
<1>10. \A k \in 0 .. m : c[k] \in Nat /\ c[k] = k - Cardinality(Left(seq, S, k))
  <2>1. \A k \in 0 .. m : k \in 0 .. n \/ k = m
    BY <1>1
  <2>2. QED
    BY <1>3, <1>4, <2>1
<1>11. Len(u) = c[m]
  OBVIOUS
<1>12. QED
  BY <1>2, <1>7, <1>8, <1>9, <1>10, <1>11 DEF Shape

LEMMA OnlyShape ==
  ASSUME NEW X, NEW seq \in Seq(X), NEW S
  PROVE  /\ Only(seq, S) \in Seq(X)
         /\ \E c : Shape(c, Only(seq, S), Len(seq), seq, S)
<1>1. PICK F : Filters(F, Len(seq), seq, S) /\ Only(seq, S) = F[Len(seq)]
  BY OnlyIsFilter
<1> DEFINE c == [k \in 0 .. Len(seq) |-> Len(F[k])]
           T == {n \in Nat : n <= Len(seq) => F[n] \in Seq(X) /\ Shape(c, F[n], n, seq, S)}
<1>2. Len(seq) \in Nat
  OBVIOUS
<1>3. 0 \in T
  <2>1. F[0] = << >> /\ c[0] = 0 /\ Cardinality(Left(seq, S, 0)) = 0
    BY <1>1, <1>2, LeftCounts DEF Filters
  <2> HIDE DEF c
  <2>2. F[0] \in Seq(X) /\ Shape(c, F[0], 0, seq, S)
    BY <2>1 DEF Shape
  <2>3. QED
    BY <2>2
<1>4. ASSUME NEW n \in T PROVE n + 1 \in T
  <2>1. SUFFICES ASSUME n + 1 <= Len(seq)
                 PROVE  F[n + 1] \in Seq(X) /\ Shape(c, F[n + 1], n + 1, seq, S)
    OBVIOUS
  <2>2. n \in 0 .. Len(seq) - 1 /\ F[n] \in Seq(X) /\ Shape(c, F[n], n, seq, S)
    BY <1>2, <2>1
  <2>3. F[n + 1] = IF seq[n + 1] \in S THEN Append(F[n], seq[n + 1]) ELSE F[n]
    <3>1. n + 1 \in 1 .. Len(seq) /\ n + 1 - 1 = n
      BY <2>2
    <3>2. QED
      BY <1>1, <3>1 DEF Filters
  <2>4. c[n + 1] = Len(F[n + 1])
    BY <2>2
  <2> HIDE DEF c, T
  <2>5. QED
    BY <2>2, <2>3, <2>4, ShapeStep
<1>5. T = Nat
  <2> HIDE DEF T
  <2>1. T \subseteq Nat
    BY DEF T
  <2>2. QED
    BY <1>3, <1>4, <2>1, AllNumbers
<1>6. F[Len(seq)] \in Seq(X) /\ Shape(c, F[Len(seq)], Len(seq), seq, S)
  <2>1. Len(seq) \in T
    <3> HIDE DEF T
    <3>1. QED
      BY <1>2, <1>5
  <2>2. QED
    BY <2>1
<1>7. QED
  <2> HIDE DEF c
  <2>1. QED
    BY <1>1, <1>6

-----------------------------------------------------------------------------
(* The invariant *)

Place == {"outer", "inner", "call"}

Frame == [of : Lists, at : Place]

\* a list is not fired by two calls of fire(); all but the innermost call wait
\* for the callback that they have called
StackOK ==
    /\ stack \in Seq(Frame)
    /\ \A i, j \in 1 .. Len(stack) : stack[i].of = stack[j].of => i = j
    /\ \A k \in 1 .. Len(stack) : firing[stack[k].of] /\ (k > 1 => stack[k].at = "call")

\* where l is in its loops
IsAt(l, place) == \E k \in 1 .. Len(stack) : stack[k].of = l /\ stack[k].at = place

\* the places of the other lists stay
OthersStay(l) ==
    \A m \in Lists, q \in Place : m # l => (IsAt(m, q)' <=> IsAt(m, q))

(* The innermost call goes to another place.                               *)
LEMMA AtMoves ==
  ASSUME StackOK, NEW l \in Lists, NEW q \in Place, Top(l, q), NEW p \in Place, At(p),
         firing' = firing
  PROVE  /\ StackOK'
         /\ \A x \in Place : IsAt(l, x) <=> x = q
         /\ \A x \in Place : IsAt(l, x)' <=> x = p
         /\ OthersStay(l)
<1>1. /\ stack \in Seq(Frame) /\ Len(stack) \in Nat /\ 1 \in 1 .. Len(stack)
      /\ stack[1].of = l /\ stack[1].at = q
  BY DEF StackOK, Top
<1>2. \A k \in 1 .. Len(stack) : stack[k] \in Frame
  BY <1>1
<1> DEFINE f == [stack[1] EXCEPT !.at = p]
<1>3. f \in Frame /\ f.of = l /\ f.at = p
  BY <1>1, <1>2 DEF Frame
<1>4. stack' = [stack EXCEPT ![1] = f]
  BY DEF At
<1> HIDE DEF f
<1>5. /\ stack' \in Seq(Frame) /\ Len(stack') = Len(stack) /\ stack'[1] = f
      /\ \A k \in 1 .. Len(stack) : k # 1 => stack'[k] = stack[k]
  BY <1>1, <1>3, <1>4
<1>6. \A k \in 1 .. Len(stack) : stack'[k].of = stack[k].of
  BY <1>1, <1>3, <1>5
<1>7. \A k \in 1 .. Len(stack) : stack[k].of = l => k = 1
  BY <1>1 DEF StackOK
<1>8. StackOK'
  <2>1. \A k \in 1 .. Len(stack') : k > 1 => stack'[k].at = "call"
    BY <1>1, <1>5 DEF StackOK
  <2>2. \A k \in 1 .. Len(stack') : firing'[stack'[k].of]
    BY <1>5, <1>6 DEF StackOK
  <2>3. \A i, j \in 1 .. Len(stack') : stack'[i].of = stack'[j].of => i = j
    BY <1>5, <1>6 DEF StackOK
  <2>4. QED
    BY <1>5, <2>1, <2>2, <2>3 DEF StackOK
<1>9. \A x \in Place : IsAt(l, x) <=> x = q
  BY <1>1, <1>7 DEF IsAt
<1>10. \A x \in Place : IsAt(l, x)' <=> x = p
  BY <1>1, <1>3, <1>5, <1>6, <1>7 DEF IsAt
<1>11. OthersStay(l)
  <2>1. ASSUME NEW m \in Lists, NEW x \in Place, m # l PROVE IsAt(m, x)' <=> IsAt(m, x)
    BY <1>1, <1>3, <1>5, <1>6, <1>7, <2>1 DEF IsAt
  <2>2. QED
    BY <2>1 DEF OthersStay
<1>12. QED
  BY <1>8, <1>9, <1>10, <1>11

(* A call of fire() begins, out of code of the user.                       *)
LEMMA PushMoves ==
  ASSUME StackOK, UserRuns, NEW l \in Lists, ~ firing[l],
         stack' = << [of |-> l, at |-> "outer"] >> \o stack,
         firing \in [Lists -> BOOLEAN], firing' = [firing EXCEPT ![l] = TRUE]
  PROVE  /\ StackOK'
         /\ \A x \in Place : ~ IsAt(l, x)
         /\ \A x \in Place : IsAt(l, x)' <=> x = "outer"
         /\ OthersStay(l)
<1> DEFINE f == [of |-> l, at |-> "outer"]
<1>1. f \in Frame /\ f.of = l /\ f.at = "outer"
  BY DEF Frame, Place
<1>2. stack \in Seq(Frame) /\ Len(stack) \in Nat
  BY DEF StackOK
<1> HIDE DEF f
<1>3. /\ stack' \in Seq(Frame) /\ Len(stack') = Len(stack) + 1 /\ stack'[1] = f
      /\ \A k \in 1 .. Len(stack) : stack'[k + 1] = stack[k]
  <2>1. stack' = << f >> \o stack
    BY DEF f
  <2>2. << f >> \in Seq(Frame) /\ Len(<< f >>) = 1 /\ << f >>[1] = f
    BY <1>1
  <2>3. QED
    BY <1>2, <2>1, <2>2
<1>4. \A k \in 2 .. Len(stack') : k - 1 \in 1 .. Len(stack) /\ stack'[k] = stack[k - 1]
  BY <1>2, <1>3
<1>5. \A k \in 1 .. Len(stack) : stack[k].of # l /\ stack[k].of \in Lists
  <2>1. \A k \in 1 .. Len(stack) : stack[k] \in Frame
    BY <1>2
  <2>2. \A k \in 1 .. Len(stack) : firing[stack[k].of]
    BY DEF StackOK
  <2>3. QED
    BY <2>1, <2>2 DEF Frame
<1>6. \A k \in 1 .. Len(stack) : stack[k].at = "call"
  BY <1>2 DEF StackOK, UserRuns
<1>7. StackOK'
  <2>1. \A k \in 1 .. Len(stack') : k > 1 => stack'[k].at = "call"
    BY <1>2, <1>3, <1>4, <1>6
  <2>2. \A k \in 1 .. Len(stack') : firing'[stack'[k].of]
    <3>1. \A k \in 1 .. Len(stack) : firing[stack[k].of]
      BY DEF StackOK
    <3>2. firing'[l] /\ \A m \in Lists : firing[m] => firing'[m]
      OBVIOUS
    <3>3. QED
      BY <1>1, <1>2, <1>3, <1>4, <1>5, <3>1, <3>2
  <2>3. \A i, j \in 1 .. Len(stack') : stack'[i].of = stack'[j].of => i = j
    <3>1. \A i, j \in 1 .. Len(stack) : stack[i].of = stack[j].of => i = j
      BY DEF StackOK
    <3>2. \A k \in 1 .. Len(stack') : k = 1 \/ k \in 2 .. Len(stack')
      BY <1>2, <1>3
    <3>3. \A k \in 2 .. Len(stack') : stack'[k].of # l
      BY <1>4, <1>5
    <3>4. ASSUME NEW i \in 1 .. Len(stack'), NEW j \in 1 .. Len(stack'),
                 stack'[i].of = stack'[j].of
          PROVE  i = j
      <4>1. CASE i = 1 \/ j = 1
        BY <1>1, <1>3, <3>2, <3>3, <3>4, <4>1
      <4>2. CASE i \in 2 .. Len(stack') /\ j \in 2 .. Len(stack')
        <5>1. i - 1 = j - 1
          BY <1>4, <3>1, <3>4, <4>2
        <5>2. QED
          BY <4>2, <5>1
      <4>3. QED
        BY <3>2, <4>1, <4>2
    <3>5. QED
      BY <3>4
  <2>4. QED
    BY <1>3, <2>1, <2>2, <2>3 DEF StackOK
<1>8. \A x \in Place : ~ IsAt(l, x)
  BY <1>5 DEF IsAt
<1>9. \A x \in Place : IsAt(l, x)' <=> x = "outer"
  <2>1. 1 \in 1 .. Len(stack') /\ \A k \in 1 .. Len(stack') : k = 1 \/ k \in 2 .. Len(stack')
    BY <1>2, <1>3
  <2>2. \A k \in 1 .. Len(stack') : stack'[k].of = l => k = 1
    BY <1>4, <1>5, <2>1
  <2>3. QED
    BY <1>1, <1>3, <2>1, <2>2 DEF IsAt
<1>10. OthersStay(l)
  <2>1. ASSUME NEW m \in Lists, NEW x \in Place, m # l PROVE IsAt(m, x)' <=> IsAt(m, x)
    <3>1. ASSUME NEW k \in 1 .. Len(stack'), stack'[k].of = m, stack'[k].at = x
          PROVE  IsAt(m, x)
      BY <1>1, <1>2, <1>3, <1>4, <2>1, <3>1 DEF IsAt
    <3>2. ASSUME NEW k \in 1 .. Len(stack), stack[k].of = m, stack[k].at = x
          PROVE  IsAt(m, x)'
      <4>1. k + 1 \in 1 .. Len(stack')
        BY <1>2, <1>3
      <4>2. QED
        BY <1>3, <3>2, <4>1 DEF IsAt
    <3>3. QED
      BY <3>1, <3>2 DEF IsAt
  <2>2. QED
    BY <2>1 DEF OthersStay
<1>11. QED
  BY <1>7, <1>8, <1>9, <1>10

(* The innermost call is left.                                             *)
LEMMA PopMoves ==
  ASSUME StackOK, NEW l \in Lists, NEW q \in Place, Top(l, q), stack' = Tail(stack),
         \A m \in Lists : m # l => firing'[m] = firing[m]
  PROVE  /\ StackOK'
         /\ \A x \in Place : IsAt(l, x) <=> x = q
         /\ \A x \in Place : ~ IsAt(l, x)'
         /\ OthersStay(l)
<1>1. /\ stack \in Seq(Frame) /\ Len(stack) \in Nat /\ 1 \in 1 .. Len(stack)
      /\ stack[1].of = l /\ stack[1].at = q
  BY DEF StackOK, Top
<1>2. /\ stack' \in Seq(Frame) /\ Len(stack') = Len(stack) - 1
      /\ \A k \in 1 .. Len(stack') : stack'[k] = stack[k + 1]
  BY <1>1
<1>3. \A k \in 1 .. Len(stack) : stack[k].of = l => k = 1
  BY <1>1 DEF StackOK
<1>4. \A k \in 1 .. Len(stack') : /\ k + 1 \in 1 .. Len(stack) /\ k + 1 > 1
                                  /\ stack[k + 1].of # l /\ stack[k + 1].of \in Lists
  <2>1. \A k \in 1 .. Len(stack) : stack[k] \in Frame
    BY <1>1
  <2>2. \A k \in 1 .. Len(stack') : k + 1 \in 1 .. Len(stack) /\ k + 1 > 1 /\ k + 1 # 1
    BY <1>1, <1>2
  <2>3. QED
    BY <1>3, <2>1, <2>2 DEF Frame
<1>5. StackOK'
  <2>1. \A k \in 1 .. Len(stack') : k > 1 => stack'[k].at = "call"
    BY <1>2, <1>4 DEF StackOK
  <2>2. \A k \in 1 .. Len(stack') : firing'[stack'[k].of]
    BY <1>2, <1>4 DEF StackOK
  <2>3. \A i, j \in 1 .. Len(stack') : stack'[i].of = stack'[j].of => i = j
    <3>1. \A i, j \in 1 .. Len(stack) : stack[i].of = stack[j].of => i = j
      BY DEF StackOK
    <3>2. QED
      BY <1>1, <1>2, <1>4, <3>1
  <2>4. QED
    BY <1>2, <2>1, <2>2, <2>3 DEF StackOK
<1>6. \A x \in Place : IsAt(l, x) <=> x = q
  BY <1>1, <1>3 DEF IsAt
<1>7. \A x \in Place : ~ IsAt(l, x)'
  BY <1>2, <1>4 DEF IsAt
<1>8. OthersStay(l)
  <2>1. ASSUME NEW m \in Lists, NEW x \in Place, m # l PROVE IsAt(m, x)' <=> IsAt(m, x)
    <3>1. ASSUME NEW k \in 1 .. Len(stack), stack[k].of = m, stack[k].at = x
          PROVE  IsAt(m, x)'
      <4>1. k # 1 /\ k - 1 \in 1 .. Len(stack') /\ (k - 1) + 1 = k
        BY <1>1, <1>2, <2>1, <3>1
      <4>2. stack'[k - 1] = stack[k]
        BY <1>2, <4>1
      <4>3. QED
        BY <3>1, <4>1, <4>2 DEF IsAt
    <3>2. QED
      BY <1>2, <1>4, <3>1 DEF IsAt
  <2>2. QED
    BY <2>1 DEF OthersStay
<1>9. QED
  BY <1>5, <1>6, <1>7, <1>8

(* The stack stays as it is.                                               *)
LEMMA StackStays ==
  ASSUME StackOK, stack' = stack, firing' = firing, NEW l \in Lists
  PROVE  /\ StackOK'
         /\ \A x \in Place : IsAt(l, x)' <=> IsAt(l, x)
         /\ OthersStay(l)
BY DEF StackOK, IsAt, OthersStay

(* A list that is in the middle of its loops is firing.                    *)
LEMMA PlaceFires ==
  ASSUME StackOK, NEW l \in Lists, NEW x \in Place, IsAt(l, x)
  PROVE  firing[l] /\ \A y \in Place : IsAt(l, y) => y = x
BY DEF StackOK, IsAt

Numbers(l) == {list[l][k].nr : k \in 1 .. Len(list[l])}

\* the memory is announced to who has come late
Again(l) == memory[l] # None /\ queue[l] = << memory[l] >> /\ IsAt(l, "outer")

\* what is queued has not been announced
New(l) ==
    \A k \in 1 .. Len(queue[l]) :
        queue[l][k] > last[l] /\ (memory[l] # None => queue[l][k] > memory[l])

\* a value is being announced
Telling(l) == memory[l] # None /\ (IsAt(l, "inner") \/ IsAt(l, "call") \/ Again(l))

\* what the histories count
Counted(l) ==
    /\ told[l] \subseteq 1 .. adds[l]
    /\ kept[l] \subseteq 1 .. adds[l]
    /\ last[l] <= fires[l]
    /\ memory[l] # None => memory[l] \in 1 .. fires[l]
    /\ \A k \in 1 .. Len(queue[l]) : queue[l][k] \in 1 .. fires[l]

\* the callbacks stand in the order of their additions
Sorted(l) ==
    /\ \A i, j \in 1 .. Len(list[l]) : i < j => list[l][i].nr < list[l][j].nr
    /\ \A k \in 1 .. Len(list[l]) : list[l][k].nr \in kept[l]

\* the values come one after the other
Queued(l) ==
    /\ \A i, j \in 1 .. Len(queue[l]) : i < j => queue[l][i] < queue[l][j]
    /\ New(l) \/ Again(l)
    /\ New(l) /\ IsAt(l, "outer") => firingIndex[l] = 0
    /\ memory[l] # None => last[l] <= memory[l]

Idle(l) == ~ firing[l] => queue[l] = << >> /\ firingIndex[l] = 0

\* what a list is when it is spent, and that "once" is kept
Spent(l) ==
    /\ ~ live[l] => list[l] = << >> /\ queue[l] = << >> /\ memory[l] = None /\ locked[l]
    /\ "once" \in options[l] /\ (fires[l] > 0 \/ firing[l]) => locked[l]

\* who is called is called with a value
Value(l) ==
    /\ IsAt(l, "inner") /\ firingIndex[l] < Len(list[l]) => memory[l] # None
    /\ IsAt(l, "call") /\ live[l] => memory[l] # None

\* those after the index come after all who were told
InOrder(l) ==
    Telling(l) /\ last[l] = memory[l] =>
        \A k \in 1 .. Len(list[l]) : k > firingIndex[l] => \A j \in told[l] : j < list[l][k].nr

\* those before the index have been told
Reached(l) ==
    Telling(l) =>
        /\ firingIndex[l] <= Len(list[l])
        /\ \A k \in 1 .. firingIndex[l] : last[l] = memory[l] /\ list[l][k].nr \in told[l]

AllTold(l) == kept[l] # {} => last[l] = memory[l] /\ kept[l] \subseteq told[l]

\* who is not in the list, though not removed, was told of the last value
Stray(l) ==
    ~ (kept[l] \subseteq Numbers(l)) =>
        /\ locked[l]
        /\ queue[l] = << >> \/ Again(l)
        /\ memory[l] # None => last[l] = memory[l] /\ kept[l] \ Numbers(l) \subseteq told[l]

Done(l) ==
    /\ ~ firing[l] /\ memory[l] # None => AllTold(l)
    /\ IsAt(l, "outer") /\ queue[l] = << >> /\ memory[l] # None => AllTold(l)

Whole(l) ==
    /\ Counted(l) /\ Sorted(l) /\ Queued(l) /\ Idle(l) /\ Spent(l) /\ Value(l) /\ InOrder(l)
    /\ ~ emptied[l] => Reached(l) /\ Stray(l) /\ Done(l)

Inv == TypeOK /\ StackOK /\ \A l \in Lists : Whole(l)

\* nothing happens to m
Same(m) ==
    /\ options'[m] = options[m] /\ list'[m] = list[m] /\ live'[m] = live[m]
    /\ queue'[m] = queue[m] /\ firingIndex'[m] = firingIndex[m]
    /\ firing'[m] = firing[m] /\ memory'[m] = memory[m] /\ locked'[m] = locked[m]
    /\ adds'[m] = adds[m] /\ fires'[m] = fires[m] /\ kept'[m] = kept[m]
    /\ last'[m] = last[m] /\ told'[m] = told[m] /\ emptied'[m] = emptied[m]

LEMMA SameWhole ==
  ASSUME NEW m \in Lists, Same(m), Whole(m), \A x \in Place : IsAt(m, x)' <=> IsAt(m, x)
  PROVE  Whole(m)'
<1>1. /\ IsAt(m, "outer")' <=> IsAt(m, "outer")
      /\ IsAt(m, "inner")' <=> IsAt(m, "inner")
      /\ IsAt(m, "call")' <=> IsAt(m, "call")
  BY DEF Place
<1>2. (Again(m)' <=> Again(m)) /\ (New(m)' <=> New(m)) /\ Numbers(m)' = Numbers(m)
  BY <1>1 DEF Same, Again, New, Numbers
<1>3. (Telling(m)' <=> Telling(m)) /\ (AllTold(m)' <=> AllTold(m))
  BY <1>1, <1>2 DEF Same, Telling, AllTold
<1>4. Counted(m)' /\ Sorted(m)'
  BY DEF Same, Whole, Counted, Sorted
<1>5. Queued(m)' /\ Idle(m)' /\ Spent(m)' /\ Value(m)'
  BY <1>1, <1>2 DEF Same, Whole, Queued, Idle, Spent, Value
<1>6. InOrder(m)'
  BY <1>3 DEF Same, Whole, InOrder
<1>7. ~ emptied[m] => Reached(m)' /\ Stray(m)' /\ Done(m)'
  BY <1>1, <1>2, <1>3 DEF Same, Whole, Reached, Stray, Done
<1>8. emptied'[m] = emptied[m]
  BY DEF Same
<1>9. QED
  BY <1>4, <1>5, <1>6, <1>7, <1>8 DEF Whole

(* It is enough to look at the list that acts.                             *)
LEMMA OneList ==
  ASSUME Inv, NEW l \in Lists, \A m \in Lists : m # l => Same(m), OthersStay(l),
         TypeOK', StackOK', Whole(l)'
  PROVE  Inv'
<1>1. ASSUME NEW m \in Lists PROVE Whole(m)'
  <2>1. CASE m # l
    <3>1. Whole(m) /\ Same(m)
      BY <2>1 DEF Inv
    <3>2. \A x \in Place : IsAt(m, x)' <=> IsAt(m, x)
      BY <2>1 DEF OthersStay
    <3>3. QED
      BY <3>1, <3>2, SameWhole
  <2>2. CASE m = l
    BY <2>2
  <2>3. QED
    BY <2>1, <2>2
<1>2. QED
  BY <1>1 DEF Inv

LEMMA InitInv == Init => Inv
<1> SUFFICES ASSUME Init PROVE Inv
  OBVIOUS
<1>1. TypeOK
  BY CallbacksAssumption DEF Init, TypeOK
<1>2. StackOK
  BY DEF Init, StackOK
<1>3. ASSUME NEW l \in Lists PROVE Whole(l)
  <2>1. \A x : ~ IsAt(l, x)
    BY DEF Init, IsAt
  <2>2. /\ list[l] = << >> /\ queue[l] = << >> /\ firingIndex[l] = 0 /\ ~ firing[l]
        /\ memory[l] = None /\ live[l] /\ kept[l] = {} /\ told[l] = {} /\ last[l] = 0
        /\ fires[l] = 0
    BY DEF Init
  <2>3. ~ Telling(l) /\ New(l)
    BY <2>2 DEF Telling, New
  <2>4. Counted(l) /\ Sorted(l) /\ Queued(l) /\ Idle(l) /\ Spent(l) /\ Value(l) /\ InOrder(l)
    BY <2>1, <2>2, <2>3 DEF Counted, Sorted, Queued, Idle, Spent, Value, InOrder
  <2>5. Reached(l) /\ Stray(l) /\ Done(l)
    BY <2>1, <2>2, <2>3 DEF Reached, Stray, Done
  <2>6. QED
    BY <2>4, <2>5 DEF Whole
<1>4. QED
  BY <1>1, <1>2, <1>3 DEF Inv

-----------------------------------------------------------------------------
(* The steps of fire() *)

LEMMA Typed ==
  ASSUME TypeOK, NEW l \in Lists
  PROVE  /\ list[l] \in Seq(Item) /\ Len(list[l]) \in Nat
         /\ \A k \in 1 .. Len(list[l]) : list[l][k] \in Item /\ list[l][k].nr \in Nat
         /\ queue[l] \in Seq(Nat) /\ Len(queue[l]) \in Nat
         /\ \A k \in 1 .. Len(queue[l]) : queue[l][k] \in Nat
         /\ firingIndex[l] \in Nat
         /\ memory[l] # None => memory[l] \in Nat
         /\ firing[l] \in BOOLEAN /\ locked[l] \in BOOLEAN /\ live[l] \in BOOLEAN
         /\ emptied[l] \in BOOLEAN
         /\ adds[l] \in Nat /\ fires[l] \in Nat /\ last[l] \in Nat
         /\ kept[l] \in SUBSET Nat /\ told[l] \in SUBSET Nat
         /\ \A x \in Nat : x # None
<1>1. list[l] \in Seq(Item) /\ queue[l] \in Seq(Nat) /\ MaxAdds \in Nat /\ MaxFires \in Nat
  BY CallbacksAssumption DEF TypeOK
<1>2. \A k \in 1 .. Len(list[l]) : list[l][k] \in Item /\ list[l][k].nr \in Nat
  <2>1. \A k \in 1 .. Len(list[l]) : list[l][k] \in Item
    BY <1>1
  <2>2. QED
    BY <2>1 DEF Item
<1>3. firingIndex[l] \in Nat /\ (memory[l] # None => memory[l] \in Nat)
  BY DEF TypeOK
<1>4. /\ firing[l] \in BOOLEAN /\ locked[l] \in BOOLEAN /\ live[l] \in BOOLEAN
      /\ emptied[l] \in BOOLEAN
  BY DEF TypeOK
<1>5. /\ adds[l] \in Nat /\ fires[l] \in Nat /\ last[l] \in Nat
      /\ kept[l] \in SUBSET Nat /\ told[l] \in SUBSET Nat
  BY <1>1 DEF TypeOK
<1>6. QED
  BY <1>1, <1>2, <1>3, <1>4, <1>5, CallbacksAssumption

LEMMA ShiftKeeps ==
  ASSUME Inv, NEW l \in Lists, Shift(l)
  PROVE  Inv'
<1>1. TypeOK /\ StackOK /\ Whole(l)
  BY DEF Inv
<1>2. /\ StackOK' /\ OthersStay(l)
      /\ IsAt(l, "outer") /\ ~ IsAt(l, "inner") /\ ~ IsAt(l, "call")
      /\ ~ IsAt(l, "outer")' /\ IsAt(l, "inner")' /\ ~ IsAt(l, "call")'
  <2>1. Top(l, "outer") /\ At("inner") /\ firing' = firing
    BY DEF Shift
  <2>2. "outer" \in Place /\ "inner" \in Place /\ "call" \in Place
    BY DEF Place
  <2>3. QED
    BY <1>1, <2>1, <2>2, AtMoves
<1>3. /\ queue[l] \in Seq(Nat) /\ queue[l] # << >> /\ Len(queue[l]) \in Nat /\ Len(queue[l]) > 0
      /\ 1 \in 1 .. Len(queue[l])
  <2>1. queue[l] \in Seq(Nat) /\ queue[l] # << >>
    BY <1>1, Typed DEF Shift
  <2>2. QED
    BY <2>1
<1>4. /\ memory' = [memory EXCEPT ![l] = queue[l][1]]
      /\ queue' = [queue EXCEPT ![l] = Tail(queue[l])]
  BY DEF Shift
<1>5. /\ memory'[l] = queue[l][1] /\ queue[l][1] \in Nat
      /\ queue'[l] \in Seq(Nat) /\ Len(queue'[l]) = Len(queue[l]) - 1
      /\ \A k \in 1 .. Len(queue'[l]) : k + 1 \in 1 .. Len(queue[l]) /\ queue'[l][k] = queue[l][k + 1]
  BY <1>1, <1>3, <1>4 DEF TypeOK
<1>6. TypeOK'
  <2>1. queue' \in [Lists -> Seq(Nat)]
    BY <1>1, <1>4, <1>5 DEF TypeOK
  <2>2. memory' \in [Lists -> Nat \cup {None}]
    BY <1>1, <1>4, <1>5 DEF TypeOK
  <2>3. stack' \in Seq([of : Lists, at : {"outer", "inner", "call"}])
    BY <1>2 DEF StackOK, Frame, Place
  <2>4. QED
    BY <1>1, <2>1, <2>2, <2>3 DEF TypeOK, Shift, history
<1>7. \A m \in Lists : m # l => Same(m)
  BY <1>1, <1>4 DEF TypeOK, Same, Shift, history
<1>8. /\ options'[l] = options[l] /\ list'[l] = list[l] /\ live'[l] = live[l]
      /\ firingIndex'[l] = firingIndex[l]
      /\ firing'[l] = firing[l] /\ locked'[l] = locked[l]
      /\ adds'[l] = adds[l] /\ fires'[l] = fires[l] /\ kept'[l] = kept[l]
      /\ last'[l] = last[l] /\ told'[l] = told[l] /\ emptied'[l] = emptied[l]
  BY DEF Shift, history
<1>9. firing[l] /\ live[l] /\ memory'[l] # None /\ last[l] \in Nat
  BY <1>1, <1>2, <1>3, <1>5, Typed, PlaceFires DEF Place, Whole, Spent
<1>10. CASE New(l)
  <2>1. firingIndex[l] = 0
    BY <1>1, <1>2, <1>10 DEF Whole, Queued
  <2>2. last[l] < memory'[l]
    BY <1>3, <1>5, <1>10 DEF New
  <2>3. \A k \in 1 .. Len(queue'[l]) : queue'[l][k] > last[l] /\ queue'[l][k] > memory'[l]
    <3>1. ASSUME NEW k \in 1 .. Len(queue'[l]) PROVE queue'[l][k] > last[l] /\ queue'[l][k] > memory'[l]
      <4>1. 1 < k + 1 /\ k + 1 \in 1 .. Len(queue[l]) /\ queue'[l][k] = queue[l][k + 1]
        BY <1>5
      <4>2. queue[l][1] < queue[l][k + 1] /\ queue[l][k + 1] > last[l] /\ queue[l][k + 1] \in Nat
        BY <1>1, <1>3, <1>10, <4>1, Typed DEF Whole, Queued, New
      <4>3. QED
        BY <1>5, <4>1, <4>2
    <3>2. QED
      BY <3>1
  <2>4. Counted(l)' /\ Sorted(l)'
    BY <1>1, <1>3, <1>5, <1>8 DEF Whole, Counted, Sorted
  <2>5. Queued(l)'
    <3>1. New(l)'
      BY <1>8, <2>3 DEF New
    <3>2. ASSUME NEW i \in 1 .. Len(queue'[l]), NEW j \in 1 .. Len(queue'[l]), i < j
          PROVE  queue'[l][i] < queue'[l][j]
      <4>1. \A a, b \in 1 .. Len(queue[l]) : a < b => queue[l][a] < queue[l][b]
        BY <1>1 DEF Whole, Queued
      <4>2. i + 1 \in 1 .. Len(queue[l]) /\ j + 1 \in 1 .. Len(queue[l]) /\ i + 1 < j + 1
        BY <1>5, <3>2
      <4>3. queue'[l][i] = queue[l][i + 1] /\ queue'[l][j] = queue[l][j + 1]
        BY <1>5
      <4>4. QED
        BY <4>1, <4>2, <4>3
    <3>3. last'[l] <= memory'[l]
      BY <1>5, <1>8, <1>9, <2>2
    <3>4. QED
      BY <1>2, <3>1, <3>2, <3>3 DEF Queued
  <2>6. Idle(l)' /\ Spent(l)' /\ Value(l)'
    BY <1>1, <1>2, <1>8, <1>9 DEF Whole, Idle, Spent, Value
  <2>7. InOrder(l)' /\ Reached(l)'
    <3>1. last'[l] # memory'[l]
      BY <1>5, <1>8, <1>9, <2>2
    <3>2. firingIndex'[l] <= Len(list'[l])
      BY <1>1, <1>8, <2>1, Typed
    <3>3. QED
      BY <1>8, <2>1, <3>1, <3>2 DEF InOrder, Reached
  <2>8. ~ emptied[l] => Stray(l)' /\ Done(l)'
    <3>1. ~ Again(l) \/ last[l] < memory[l]
      BY <1>3, <1>10 DEF Again, New
    <3>2. ASSUME ~ emptied[l] PROVE kept[l] \subseteq Numbers(l)
      BY <1>1, <1>3, <1>9, <1>10, <3>1, <3>2, Typed DEF Whole, Stray, Again, New
    <3>3. Numbers(l)' = Numbers(l)
      BY <1>8 DEF Numbers
    <3>4. QED
      BY <1>2, <1>8, <1>9, <3>2, <3>3 DEF Stray, Done
  <2>9. Whole(l)'
    BY <1>8, <2>4, <2>5, <2>6, <2>7, <2>8 DEF Whole
  <2>10. QED
    BY <1>2, <1>6, <1>7, <2>9, OneList
<1>11. CASE Again(l)
  <2>1. queue[l] = << memory[l] >>
    BY <1>11 DEF Again
  <2>2. memory'[l] = memory[l] /\ queue'[l] = << >>
    BY <1>5, <2>1
  <2>3. Telling(l) /\ Telling(l)'
    BY <1>2, <1>9, <1>11 DEF Telling, Again
  <2>4. New(l)' /\ Numbers(l)' = Numbers(l)
    BY <1>8, <2>2 DEF New, Numbers
  <2>5. Counted(l)' /\ Sorted(l)' /\ Queued(l)' /\ Idle(l)' /\ Spent(l)' /\ Value(l)'
    BY <1>1, <1>2, <1>8, <1>9, <2>2, <2>4
       DEF Whole, Counted, Sorted, Queued, Idle, Spent, Value
  <2>6. InOrder(l)' /\ (~ emptied[l] => Reached(l)')
    BY <1>1, <1>8, <2>2, <2>3 DEF Whole, InOrder, Reached
  <2>7. ~ emptied[l] => Stray(l)' /\ Done(l)'
    BY <1>1, <1>2, <1>8, <1>9, <2>2, <2>4 DEF Whole, Stray, Done
  <2>8. Whole(l)'
    BY <1>8, <2>5, <2>6, <2>7 DEF Whole
  <2>9. QED
    BY <1>2, <1>6, <1>7, <2>8, OneList
<1>12. QED
  BY <1>1, <1>10, <1>11 DEF Whole, Queued

LEMMA CallKeeps ==
  ASSUME Inv, NEW l \in Lists, Call(l)
  PROVE  Inv'
<1>1. TypeOK /\ StackOK /\ Whole(l)
  BY DEF Inv
<1>2. /\ StackOK' /\ OthersStay(l)
      /\ ~ IsAt(l, "outer") /\ IsAt(l, "inner") /\ ~ IsAt(l, "call")
      /\ ~ IsAt(l, "outer")' /\ ~ IsAt(l, "inner")' /\ IsAt(l, "call")'
  <2>1. /\ Top(l, "inner") /\ At("call")
        /\ firing' = firing
    BY <1>1 DEF Call, TypeOK, listVars
  <2>2. "outer" \in Place /\ "inner" \in Place /\ "call" \in Place
    BY DEF Place
  <2>3. QED
    BY <1>1, <2>1, <2>2, AtMoves
<1>3. firing[l] /\ stack' \in Seq([of : Lists, at : {"outer", "inner", "call"}])
  BY <1>1, <1>2, PlaceFires DEF StackOK, Frame, Place
<1> DEFINE n == firingIndex[l] + 1
           nr == list[l][n].nr
<1>4. /\ n \in 1 .. Len(list[l]) /\ nr \in Nat /\ nr \in kept[l] /\ memory[l] # None
      /\ firingIndex[l] \in Nat /\ last[l] \in Nat /\ memory[l] \in Nat
      /\ adds[l] \in 0 .. MaxAdds /\ fires[l] \in 0 .. MaxFires /\ MaxAdds \in Nat /\ MaxFires \in Nat
  <2>1. firingIndex[l] < Len(list[l])
    BY DEF Call
  <2>2. n \in 1 .. Len(list[l])
    BY <1>1, <2>1, Typed
  <2>3. memory[l] # None
    BY <1>1, <1>2, <2>1 DEF Whole, Value
  <2> HIDE DEF n
  <2>4. QED
    BY <1>1, <2>2, <2>3, Typed, CallbacksAssumption DEF Whole, Sorted, TypeOK
<1>5. /\ nr \in 1 .. adds[l] /\ nr \in 1 .. MaxAdds
      /\ memory[l] \in 1 .. fires[l] /\ memory[l] \in 0 .. MaxFires
  <2> HIDE DEF nr
  <2>1. QED
    BY <1>1, <1>4 DEF Whole, Counted
<1> DEFINE T == IF memory[l] = last[l] THEN told[l] \cup {nr} ELSE {nr}
<1>6. /\ firingIndex' = [firingIndex EXCEPT ![l] = n]
      /\ told' = [told EXCEPT ![l] = T]
      /\ last' = [last EXCEPT ![l] = memory[l]]
  <2>1. firingIndex' = [firingIndex EXCEPT ![l] = n]
    BY DEF Call
  <2>2. firingIndex'[l] = n
    BY <1>1, <2>1 DEF TypeOK
  <2>3. QED
    BY <2>1, <2>2 DEF Call
<1>7. T \subseteq 1 .. adds[l] /\ T \subseteq 1 .. MaxAdds /\ nr \in T
      /\ (memory[l] = last[l] => told[l] \subseteq T)
  <2> HIDE DEF nr
  <2>1. told[l] \subseteq 1 .. adds[l] /\ told[l] \subseteq 1 .. MaxAdds
    BY <1>1 DEF Whole, Counted, TypeOK
  <2>2. QED
    BY <1>5, <2>1
<1>8. firingIndex'[l] = n /\ told'[l] = T /\ last'[l] = memory[l]
  <2> HIDE DEF T, n
  <2>1. QED
    BY <1>1, <1>6 DEF TypeOK
<1>9. TypeOK'
  <2> HIDE DEF T, n
  <2>1. n \in Nat
    BY <1>4
  <2>2. firingIndex' \in [Lists -> Nat] /\ told' \in [Lists -> SUBSET (1 .. MaxAdds)]
    BY <1>1, <1>6, <1>7, <2>1 DEF TypeOK
  <2>3. last' \in [Lists -> 0 .. MaxFires]
    BY <1>1, <1>5, <1>6 DEF TypeOK
  <2>4. QED
    BY <1>1, <1>3, <2>2, <2>3 DEF TypeOK, Call
<1>10. \A m \in Lists : m # l => Same(m)
  <2> HIDE DEF T, n
  <2>1. QED
    BY <1>1, <1>6 DEF TypeOK, Same, Call
<1>11. /\ options'[l] = options[l] /\ list'[l] = list[l] /\ live'[l] = live[l]
       /\ queue'[l] = queue[l] /\ memory'[l] = memory[l]
       /\ firing'[l] = firing[l] /\ locked'[l] = locked[l]
       /\ adds'[l] = adds[l] /\ fires'[l] = fires[l] /\ kept'[l] = kept[l]
       /\ emptied'[l] = emptied[l]
  BY DEF Call
<1>12. New(l) /\ ~ Again(l) /\ ~ Again(l)'
  BY <1>1, <1>2 DEF Whole, Queued, Again
<1>13. Telling(l) /\ Numbers(l)' = Numbers(l)
  BY <1>2, <1>4, <1>11 DEF Telling, Numbers
<1> HIDE DEF T
<1>14. Counted(l)' /\ Sorted(l)'
  <2>1. last'[l] <= fires'[l]
    BY <1>4, <1>5, <1>8, <1>11
  <2>2. QED
    BY <1>1, <1>7, <1>8, <1>11, <2>1 DEF Whole, Counted, Sorted
<1>15. Queued(l)'
  <2>1. New(l)'
    BY <1>4, <1>8, <1>11, <1>12 DEF New
  <2>2. last'[l] <= memory'[l]
    BY <1>4, <1>8, <1>11
  <2>3. QED
    BY <1>1, <1>2, <1>11, <2>1, <2>2 DEF Whole, Queued
<1>16. Idle(l)' /\ Spent(l)' /\ Value(l)'
  BY <1>1, <1>2, <1>3, <1>4, <1>11 DEF Whole, Idle, Spent, Value
<1>17. InOrder(l)'
  <2>1. ASSUME NEW k \in 1 .. Len(list[l]), k > n, NEW j \in T PROVE j < list[l][k].nr
    <3>1. nr < list[l][k].nr
      BY <1>1, <1>4, <2>1 DEF Whole, Sorted
    <3>2. ASSUME memory[l] = last[l], j \in told[l] PROVE j < list[l][k].nr
      <4>1. k > firingIndex[l]
        BY <1>4, <2>1
      <4>2. QED
        BY <1>1, <1>13, <3>2, <4>1 DEF Whole, InOrder
    <3>3. QED
      BY <2>1, <3>1, <3>2 DEF T
  <2> HIDE DEF n
  <2>2. QED
    BY <1>8, <1>11, <2>1 DEF InOrder
<1>18. ~ emptied[l] => Reached(l)'
  <2>1. ASSUME ~ emptied[l], NEW k \in 1 .. n PROVE list[l][k].nr \in T
    <3>1. CASE k = n
      BY <1>7, <3>1
    <3>2. CASE k \in 1 .. firingIndex[l]
      BY <1>1, <1>7, <1>13, <2>1, <3>2 DEF Whole, Reached
    <3>3. QED
      BY <1>4, <3>1, <3>2
  <2>2. n <= Len(list[l])
    BY <1>4
  <2> HIDE DEF n
  <2>3. QED
    BY <1>8, <1>11, <2>1, <2>2 DEF Reached
<1>19. ~ emptied[l] => Stray(l)' /\ Done(l)'
  BY <1>1, <1>2, <1>3, <1>4, <1>7, <1>8, <1>11, <1>12, <1>13 DEF Whole, Stray, Done
<1>20. Whole(l)'
  BY <1>11, <1>14, <1>15, <1>16, <1>17, <1>18, <1>19 DEF Whole
<1>21. QED
  BY <1>2, <1>9, <1>10, <1>20, OneList

LEMMA AllCalledKeeps ==
  ASSUME Inv, NEW l \in Lists, AllCalled(l)
  PROVE  Inv'
<1>1. TypeOK /\ StackOK /\ Whole(l)
  BY DEF Inv
<1>2. /\ StackOK' /\ OthersStay(l)
      /\ ~ IsAt(l, "outer") /\ IsAt(l, "inner") /\ ~ IsAt(l, "call")
      /\ IsAt(l, "outer")' /\ ~ IsAt(l, "inner")' /\ ~ IsAt(l, "call")'
  <2>1. /\ Top(l, "inner") /\ At("outer")
        /\ firing' = firing
    BY <1>1 DEF AllCalled, TypeOK, listVars
  <2>2. "outer" \in Place /\ "inner" \in Place /\ "call" \in Place
    BY DEF Place
  <2>3. QED
    BY <1>1, <2>1, <2>2, AtMoves
<1>3. firing[l] /\ stack' \in Seq([of : Lists, at : {"outer", "inner", "call"}])
  BY <1>1, <1>2, PlaceFires DEF StackOK, Frame, Place
<1>4. TypeOK'
  <2>1. firingIndex' \in [Lists -> Nat]
    BY <1>1 DEF TypeOK, AllCalled
  <2>2. QED
    BY <1>1, <1>3, <2>1 DEF TypeOK, AllCalled, history
<1>5. \A m \in Lists : m # l => Same(m)
  BY <1>1 DEF TypeOK, Same, AllCalled, history
<1>6. /\ options'[l] = options[l] /\ list'[l] = list[l] /\ live'[l] = live[l]
      /\ queue'[l] = queue[l] /\ memory'[l] = memory[l] /\ firingIndex'[l] = 0
      /\ firing'[l] = firing[l] /\ locked'[l] = locked[l]
      /\ adds'[l] = adds[l] /\ fires'[l] = fires[l] /\ kept'[l] = kept[l]
      /\ last'[l] = last[l] /\ told'[l] = told[l] /\ emptied'[l] = emptied[l]
  BY <1>1 DEF AllCalled, history, TypeOK
<1>7. New(l) /\ New(l)' /\ ~ Again(l) /\ Numbers(l)' = Numbers(l)
  BY <1>1, <1>2, <1>6 DEF Whole, Queued, Again, New, Numbers
<1>8. ~ Again(l)'
  <2>1. ASSUME memory[l] # None, queue[l] = << memory[l] >> PROVE FALSE
    <3>1. memory[l] \in Nat /\ queue[l][1] = memory[l] /\ 1 \in 1 .. Len(queue[l])
      BY <1>1, <2>1, Typed
    <3>2. queue[l][1] > memory[l]
      BY <1>7, <2>1, <3>1 DEF New
    <3>3. QED
      BY <3>1, <3>2
  <2>2. QED
    BY <1>6, <2>1 DEF Again
<1>9. ~ Telling(l)'
  BY <1>2, <1>8 DEF Telling
<1>10. Counted(l)' /\ Sorted(l)' /\ Queued(l)' /\ Idle(l)' /\ Spent(l)' /\ Value(l)'
  BY <1>1, <1>2, <1>3, <1>6, <1>7 DEF Whole, Counted, Sorted, Queued, Idle, Spent, Value
<1>11. InOrder(l)' /\ Reached(l)'
  BY <1>9 DEF InOrder, Reached
<1>12. ~ emptied[l] => Stray(l)'
  BY <1>1, <1>6, <1>7 DEF Whole, Stray
<1>13. ASSUME ~ emptied[l], memory[l] # None PROVE AllTold(l)
  <2>1. SUFFICES ASSUME kept[l] # {} PROVE last[l] = memory[l] /\ kept[l] \subseteq told[l]
    BY DEF AllTold
  <2>2. /\ firingIndex[l] = Len(list[l])
        /\ \A k \in 1 .. Len(list[l]) : last[l] = memory[l] /\ list[l][k].nr \in told[l]
    <3>1. Telling(l)
      BY <1>2, <1>13 DEF Telling
    <3>2. /\ firingIndex[l] <= Len(list[l]) /\ firingIndex[l] >= Len(list[l])
          /\ \A k \in 1 .. firingIndex[l] : last[l] = memory[l] /\ list[l][k].nr \in told[l]
      BY <1>1, <1>13, <3>1 DEF Whole, Reached, AllCalled
    <3>3. firingIndex[l] = Len(list[l])
      BY <1>1, <3>2, Typed
    <3>4. QED
      BY <3>2, <3>3
  <2>3. Numbers(l) \subseteq told[l] /\ (Numbers(l) # {} => last[l] = memory[l])
    BY <2>2 DEF Numbers
  <2>4. CASE kept[l] \subseteq Numbers(l)
    BY <2>1, <2>3, <2>4
  <2>5. CASE ~ (kept[l] \subseteq Numbers(l))
    BY <1>1, <1>13, <2>3, <2>5 DEF Whole, Stray
  <2>6. QED
    BY <2>4, <2>5
<1>14. ~ emptied[l] => Done(l)'
  <2>1. AllTold(l)' <=> AllTold(l)
    BY <1>6 DEF AllTold
  <2>2. QED
    BY <1>3, <1>6, <1>13, <2>1 DEF Done
<1>15. Whole(l)'
  BY <1>6, <1>10, <1>11, <1>12, <1>14 DEF Whole
<1>16. QED
  BY <1>2, <1>4, <1>5, <1>15, OneList

LEMMA FinishKeeps ==
  ASSUME Inv, NEW l \in Lists, Finish(l)
  PROVE  Inv'
<1>1. TypeOK /\ StackOK /\ Whole(l)
  BY DEF Inv
<1>2. /\ StackOK' /\ OthersStay(l)
      /\ IsAt(l, "outer") /\ ~ IsAt(l, "inner") /\ ~ IsAt(l, "call")
      /\ ~ IsAt(l, "outer")' /\ ~ IsAt(l, "inner")' /\ ~ IsAt(l, "call")'
  <2>1. /\ Top(l, "outer") /\ stack' = Tail(stack)
        /\ \A m \in Lists : m # l => firing'[m] = firing[m]
    BY <1>1 DEF Finish, TypeOK, listVars
  <2>2. "outer" \in Place /\ "inner" \in Place /\ "call" \in Place
    BY DEF Place
  <2>3. QED
    BY <1>1, <2>1, <2>2, PopMoves
<1>3. firing[l] /\ stack' \in Seq([of : Lists, at : {"outer", "inner", "call"}])
  BY <1>1, <1>2, PlaceFires DEF StackOK, Frame, Place
<1> DEFINE M == IF "memory" \in options[l] THEN memory[l] ELSE None
<1>4. /\ memory' = [memory EXCEPT ![l] = M] /\ firing' = [firing EXCEPT ![l] = FALSE]
      /\ list' = [list EXCEPT ![l] = IF locked[l] THEN << >> ELSE list[l]]
  BY DEF Finish
<1>5. memory'[l] = M /\ M \in Nat \cup {None} /\ (M # None => M = memory[l])
  BY <1>1, <1>4 DEF TypeOK
<1>6. live' = [live EXCEPT ![l] = IF locked[l] THEN M # None ELSE live[l]]
  BY <1>5 DEF Finish
<1> HIDE DEF M
<1>7. TypeOK'
  <2>1. memory' \in [Lists -> Nat \cup {None}] /\ firing' \in [Lists -> BOOLEAN]
    BY <1>1, <1>4, <1>5 DEF TypeOK
  <2>2. list' \in [Lists -> Seq(Item)]
    <3>1. (IF locked[l] THEN << >> ELSE list[l]) \in Seq(Item)
      BY <1>1 DEF TypeOK
    <3>2. QED
      BY <1>1, <1>4, <3>1 DEF TypeOK
  <2>3. live' \in [Lists -> BOOLEAN]
    <3>1. (IF locked[l] THEN M # None ELSE live[l]) \in BOOLEAN
      BY <1>1 DEF TypeOK
    <3>2. QED
      BY <1>1, <1>6, <3>1 DEF TypeOK
  <2>4. QED
    BY <1>1, <1>3, <2>1, <2>2, <2>3 DEF TypeOK, Finish, history
<1>8. \A m \in Lists : m # l => Same(m)
  <2>1. ASSUME NEW m \in Lists, m # l
        PROVE  /\ memory'[m] = memory[m] /\ firing'[m] = firing[m] /\ list'[m] = list[m]
               /\ live'[m] = live[m]
    BY <1>1, <1>4, <1>6, <2>1 DEF TypeOK
  <2>2. QED
    BY <2>1 DEF Same, Finish, history
<1>9. /\ options'[l] = options[l] /\ queue'[l] = queue[l] /\ queue[l] = << >>
      /\ firingIndex'[l] = firingIndex[l] /\ locked'[l] = locked[l]
      /\ adds'[l] = adds[l] /\ fires'[l] = fires[l] /\ kept'[l] = kept[l]
      /\ last'[l] = last[l] /\ told'[l] = told[l] /\ emptied'[l] = emptied[l]
  BY DEF Finish, history
<1>10. /\ ~ firing'[l] /\ list'[l] = (IF locked[l] THEN << >> ELSE list[l])
       /\ (live'[l] <=> IF locked[l] THEN M # None ELSE live[l])
  BY <1>1, <1>4, <1>6 DEF TypeOK
<1>11. New(l) /\ New(l)' /\ firingIndex[l] = 0
  <2>1. Len(queue[l]) = 0
    BY <1>9
  <2>2. New(l) /\ New(l)'
    BY <1>9, <2>1 DEF New
  <2>3. QED
    BY <1>1, <1>2, <2>2 DEF Whole, Queued
<1>12. ~ Telling(l)'
  BY <1>2 DEF Telling, Again
<1>13. Counted(l)' /\ Queued(l)' /\ Idle(l)'
  BY <1>1, <1>2, <1>5, <1>9, <1>11 DEF Whole, Counted, Queued, Idle
<1>14. Sorted(l)'
  <2>1. CASE locked[l]
    BY <1>10, <2>1 DEF Sorted
  <2>2. CASE ~ locked[l]
    BY <1>1, <1>9, <1>10, <2>2 DEF Whole, Sorted
  <2>3. QED
    BY <2>1, <2>2
<1>15. Spent(l)'
  BY <1>1, <1>3, <1>5, <1>9, <1>10 DEF Whole, Spent
<1>16. Value(l)' /\ InOrder(l)' /\ Reached(l)'
  BY <1>2, <1>12 DEF Value, InOrder, Reached
<1>17. ASSUME ~ emptied[l], memory'[l] # None PROVE AllTold(l) /\ memory[l] = memory'[l]
  BY <1>1, <1>2, <1>5, <1>9, <1>17 DEF Whole, Done
<1>18. ~ emptied[l] => Stray(l)'
  <2>1. ~ locked[l] => Numbers(l)' = Numbers(l)
    BY <1>10 DEF Numbers
  <2>2. CASE locked[l]
    BY <1>9, <1>17, <2>2 DEF Stray, AllTold
  <2>3. CASE ~ locked[l]
    BY <1>1, <1>9, <2>1, <2>3 DEF Whole, Stray
  <2>4. QED
    BY <2>2, <2>3
<1>19. ~ emptied[l] => Done(l)'
  BY <1>2, <1>9, <1>17 DEF Done, AllTold
<1>20. Whole(l)'
  BY <1>9, <1>13, <1>14, <1>15, <1>16, <1>18, <1>19 DEF Whole
<1>21. QED
  BY <1>2, <1>7, <1>8, <1>20, OneList

LEMMA ReturnKeeps ==
  ASSUME Inv, NEW l \in Lists, Return(l)
  PROVE  Inv'
<1>1. TypeOK /\ StackOK /\ Whole(l)
  BY DEF Inv
<1>2. /\ StackOK' /\ OthersStay(l)
      /\ ~ IsAt(l, "outer") /\ ~ IsAt(l, "inner") /\ IsAt(l, "call")
      /\ ~ IsAt(l, "outer")' /\ IsAt(l, "inner")' /\ ~ IsAt(l, "call")'
  <2>1. /\ Top(l, "call") /\ At("inner")
        /\ firing' = firing
    BY <1>1 DEF Return, TypeOK, listVars
  <2>2. "outer" \in Place /\ "inner" \in Place /\ "call" \in Place
    BY DEF Place
  <2>3. QED
    BY <1>1, <2>1, <2>2, AtMoves
<1>3. firing[l] /\ stack' \in Seq([of : Lists, at : {"outer", "inner", "call"}])
  BY <1>1, <1>2, PlaceFires DEF StackOK, Frame, Place
<1>4. TypeOK' /\ \A m \in Lists : m # l => Same(m)
  BY <1>1, <1>3 DEF TypeOK, Same, Return, listVars, history
<1>5. /\ options'[l] = options[l] /\ list'[l] = list[l] /\ live'[l] = live[l]
      /\ queue'[l] = queue[l] /\ firing'[l] = firing[l] /\ locked'[l] = locked[l]
      /\ adds'[l] = adds[l] /\ fires'[l] = fires[l] /\ kept'[l] = kept[l]
      /\ last'[l] = last[l] /\ told'[l] = told[l] /\ emptied'[l] = emptied[l]
      /\ memory'[l] = memory[l] /\ firingIndex'[l] = firingIndex[l]
  BY DEF Return, listVars, history
<1>6. New(l) /\ New(l)' /\ ~ Again(l) /\ Numbers(l)' = Numbers(l)
  BY <1>1, <1>2, <1>5 DEF Whole, Queued, Again, New, Numbers
<1>7. Telling(l)' <=> Telling(l)
  BY <1>2, <1>5 DEF Telling, Again
<1>8. Value(l)'
  <2>1. live[l] => memory[l] # None
    BY <1>1, <1>2 DEF Whole, Value
  <2>2. ~ live[l] => Len(list[l]) = 0
    BY <1>1 DEF Whole, Spent
  <2>3. firingIndex[l] \in Nat
    BY <1>1 DEF TypeOK
  <2>4. QED
    BY <1>2, <1>5, <2>1, <2>2, <2>3 DEF Value
<1>9. Counted(l)' /\ Sorted(l)' /\ Queued(l)' /\ Idle(l)' /\ Spent(l)'
  BY <1>1, <1>2, <1>5, <1>6 DEF Whole, Counted, Sorted, Queued, Idle, Spent
<1>10. InOrder(l)' /\ (~ emptied[l] => Reached(l)' /\ Stray(l)' /\ Done(l)')
  BY <1>1, <1>2, <1>3, <1>5, <1>6, <1>7 DEF Whole, InOrder, Reached, Stray, Done
<1>11. Whole(l)'
  BY <1>5, <1>8, <1>9, <1>10 DEF Whole
<1>12. QED
  BY <1>2, <1>4, <1>11, OneList

LEMMA ReturnFalseKeeps ==
  ASSUME Inv, NEW l \in Lists, ReturnFalse(l)
  PROVE  Inv'
<1>1. TypeOK /\ StackOK /\ Whole(l)
  BY DEF Inv
<1>2. /\ StackOK' /\ OthersStay(l)
      /\ ~ IsAt(l, "outer") /\ ~ IsAt(l, "inner") /\ IsAt(l, "call")
      /\ ~ IsAt(l, "outer")' /\ IsAt(l, "inner")' /\ ~ IsAt(l, "call")'
  <2>1. /\ Top(l, "call") /\ At("inner")
        /\ firing' = firing
    BY <1>1 DEF ReturnFalse, TypeOK, listVars
  <2>2. "outer" \in Place /\ "inner" \in Place /\ "call" \in Place
    BY DEF Place
  <2>3. QED
    BY <1>1, <2>1, <2>2, AtMoves
<1>3. firing[l] /\ stack' \in Seq([of : Lists, at : {"outer", "inner", "call"}])
  BY <1>1, <1>2, PlaceFires DEF StackOK, Frame, Place
<1>4. Len(list[l]) \in Nat /\ firingIndex' = [firingIndex EXCEPT ![l] = Len(list[l])]
      /\ memory' = [memory EXCEPT ![l] = None]
  BY <1>1, Typed DEF ReturnFalse
<1>5. TypeOK'
  <2>1. firingIndex' \in [Lists -> Nat] /\ memory' \in [Lists -> Nat \cup {None}]
    BY <1>1, <1>4 DEF TypeOK
  <2>2. QED
    BY <1>1, <1>3, <2>1 DEF TypeOK, ReturnFalse, history
<1>6. \A m \in Lists : m # l => Same(m)
  BY <1>1, <1>4 DEF TypeOK, Same, ReturnFalse, history
<1>7. /\ options'[l] = options[l] /\ list'[l] = list[l] /\ live'[l] = live[l]
      /\ queue'[l] = queue[l] /\ firing'[l] = firing[l] /\ locked'[l] = locked[l]
      /\ adds'[l] = adds[l] /\ fires'[l] = fires[l] /\ kept'[l] = kept[l]
      /\ last'[l] = last[l] /\ told'[l] = told[l] /\ emptied'[l] = emptied[l]
      /\ memory'[l] = None /\ firingIndex'[l] = Len(list[l])
  BY <1>1, <1>4 DEF ReturnFalse, history, TypeOK
<1>8. New(l) /\ New(l)' /\ ~ Again(l) /\ Numbers(l)' = Numbers(l) /\ ~ Telling(l)'
  BY <1>1, <1>2, <1>7 DEF Whole, Queued, Again, New, Numbers, Telling
<1>9. Counted(l)' /\ Sorted(l)' /\ Queued(l)' /\ Idle(l)' /\ Spent(l)'
  BY <1>1, <1>2, <1>3, <1>7, <1>8 DEF Whole, Counted, Sorted, Queued, Idle, Spent
<1>10. Value(l)' /\ InOrder(l)'
  BY <1>2, <1>4, <1>7, <1>8 DEF Value, InOrder
<1>11. ~ emptied[l] => Reached(l)' /\ Stray(l)' /\ Done(l)'
  BY <1>1, <1>2, <1>3, <1>7, <1>8 DEF Whole, Reached, Stray, Done
<1>12. Whole(l)'
  BY <1>7, <1>9, <1>10, <1>11 DEF Whole
<1>13. QED
  BY <1>2, <1>5, <1>6, <1>12, OneList

LEMMA ThrowKeeps ==
  ASSUME Inv, NEW l \in Lists, Throw(l)
  PROVE  Inv'
<1>1. TypeOK /\ StackOK /\ Whole(l)
  BY DEF Inv
<1>2. /\ StackOK' /\ OthersStay(l)
      /\ ~ IsAt(l, "outer") /\ ~ IsAt(l, "inner") /\ IsAt(l, "call")
      /\ ~ IsAt(l, "outer")' /\ ~ IsAt(l, "inner")' /\ ~ IsAt(l, "call")'
  <2>1. /\ Top(l, "call") /\ stack' = Tail(stack)
        /\ \A m \in Lists : m # l => firing'[m] = firing[m]
    BY <1>1 DEF Throw, TypeOK, listVars
  <2>2. "outer" \in Place /\ "inner" \in Place /\ "call" \in Place
    BY DEF Place
  <2>3. QED
    BY <1>1, <2>1, <2>2, PopMoves
<1>3. firing[l] /\ stack' \in Seq([of : Lists, at : {"outer", "inner", "call"}])
  BY <1>1, <1>2, PlaceFires DEF StackOK, Frame, Place
<1>4. TypeOK' /\ \A m \in Lists : m # l => Same(m)
  BY <1>1, <1>3 DEF TypeOK, Same, Throw, listVars, history
<1>5. /\ options'[l] = options[l] /\ list'[l] = list[l] /\ live'[l] = live[l]
      /\ queue'[l] = queue[l] /\ firing'[l] = firing[l] /\ locked'[l] = locked[l]
      /\ adds'[l] = adds[l] /\ fires'[l] = fires[l] /\ kept'[l] = kept[l]
      /\ last'[l] = last[l] /\ told'[l] = told[l] /\ emptied'[l] = emptied[l]
      /\ memory'[l] = memory[l] /\ firingIndex'[l] = firingIndex[l]
  BY DEF Throw, listVars, history
<1>6. New(l) /\ New(l)' /\ ~ Again(l) /\ Numbers(l)' = Numbers(l) /\ ~ Telling(l)'
  BY <1>1, <1>2, <1>5 DEF Whole, Queued, Again, New, Numbers, Telling
<1>7. Counted(l)' /\ Sorted(l)' /\ Queued(l)' /\ Idle(l)' /\ Spent(l)'
  BY <1>1, <1>2, <1>3, <1>5, <1>6 DEF Whole, Counted, Sorted, Queued, Idle, Spent
<1>8. Value(l)' /\ InOrder(l)' /\ Reached(l)'
  BY <1>2, <1>6 DEF Value, InOrder, Reached
<1>9. ~ emptied[l] => Stray(l)' /\ Done(l)'
  BY <1>1, <1>2, <1>3, <1>5, <1>6 DEF Whole, Stray, Done
<1>10. Whole(l)'
  BY <1>5, <1>7, <1>8, <1>9 DEF Whole
<1>11. QED
  BY <1>2, <1>4, <1>10, OneList

-----------------------------------------------------------------------------
(* The operations of the user *)

(* While code of the user runs, all calls of fire() wait for a callback:   *)
(* no value is announced again, and what is queued is new.                 *)
LEMMA UserPlaces ==
  ASSUME StackOK, UserRuns, NEW l \in Lists
  PROVE  /\ ~ IsAt(l, "outer") /\ ~ IsAt(l, "inner") /\ ~ Again(l)
         /\ IsAt(l, "call") => firing[l]
         /\ Queued(l) => New(l)
<1>1. \A k \in 1 .. Len(stack) : stack[k].at = "call"
  <2>1. stack \in Seq(Frame) /\ Len(stack) \in Nat
    BY DEF StackOK
  <2>2. Len(stack) > 0 => stack # << >>
    BY <2>1
  <2>3. QED
    BY <2>1, <2>2 DEF StackOK, UserRuns
<1>2. ~ IsAt(l, "outer") /\ ~ IsAt(l, "inner")
  BY <1>1 DEF IsAt
<1>3. IsAt(l, "call") => firing[l]
  BY DEF IsAt, StackOK
<1>4. QED
  BY <1>2, <1>3 DEF Again, Queued

(* The beginning of fire().                                                *)
LEMMA Enters ==
  ASSUME TypeOK, StackOK, UserRuns, NEW l \in Lists, ~ firing[l], EnterFire(l)
  PROVE  /\ StackOK' /\ OthersStay(l)
         /\ IsAt(l, "outer")' /\ ~ IsAt(l, "inner")' /\ ~ IsAt(l, "call")'
         /\ firing'[l] /\ (locked'[l] <=> locked[l] \/ "once" \in options[l])
         /\ firing' \in [Lists -> BOOLEAN] /\ locked' \in [Lists -> BOOLEAN]
         /\ stack' \in Seq([of : Lists, at : {"outer", "inner", "call"}])
         /\ \A m \in Lists : m # l => firing'[m] = firing[m] /\ locked'[m] = locked[m]
<1>1. firing \in [Lists -> BOOLEAN] /\ locked \in [Lists -> BOOLEAN]
  BY DEF TypeOK
<1>2. /\ firing' = [firing EXCEPT ![l] = TRUE]
      /\ locked' = [locked EXCEPT ![l] = locked[l] \/ "once" \in options[l]]
      /\ stack' = << [of |-> l, at |-> "outer"] >> \o stack
  BY DEF EnterFire
<1>3. "outer" \in Place /\ "inner" \in Place /\ "call" \in Place
  BY DEF Place
<1>4. /\ StackOK' /\ OthersStay(l)
      /\ IsAt(l, "outer")' /\ ~ IsAt(l, "inner")' /\ ~ IsAt(l, "call")'
  BY <1>1, <1>2, <1>3, PushMoves
<1>5. stack' \in Seq([of : Lists, at : {"outer", "inner", "call"}])
  BY <1>4 DEF StackOK, Frame, Place
<1>6. /\ firing' \in [Lists -> BOOLEAN] /\ locked' \in [Lists -> BOOLEAN]
      /\ firing'[l] /\ (locked'[l] <=> locked[l] \/ "once" \in options[l])
      /\ \A m \in Lists : m # l => firing'[m] = firing[m] /\ locked'[m] = locked[m]
  BY <1>1, <1>2
<1>7. QED
  BY <1>4, <1>5, <1>6

(* A callback is added to a list that does not call it now.                *)
LEMMA AddKeeps ==
  ASSUME Inv, NEW l \in Lists, NEW f \in Fns, Add(l, f)
  PROVE  Inv'
<1>1. TypeOK /\ StackOK /\ Whole(l) /\ UserRuns /\ live[l] /\ MaxAdds \in Nat
  BY CallbacksAssumption DEF Inv, Add
<1>2. /\ ~ IsAt(l, "outer") /\ ~ IsAt(l, "inner") /\ ~ Again(l) /\ New(l)
      /\ (IsAt(l, "call") => firing[l])
  BY <1>1, UserPlaces DEF Whole
<1> DEFINE n == adds[l] + 1
           it == [fn |-> f, nr |-> n]
<1>3. /\ adds[l] \in Nat /\ n \in 1 .. MaxAdds /\ n \in Nat \ {0} /\ it \in Item
      /\ list[l] \in Seq(Item) /\ Len(list[l]) \in Nat
  <2>1. adds[l] \in 0 .. MaxAdds /\ adds[l] < MaxAdds /\ list[l] \in Seq(Item)
    BY <1>1 DEF TypeOK, Add
  <2>2. n \in 1 .. MaxAdds /\ n \in Nat \ {0} /\ adds[l] \in Nat
    BY <1>1, <2>1
  <2>3. it \in Item
    BY <2>2 DEF Item
  <2>4. QED
    BY <2>1, <2>2, <2>3
<1> DEFINE L == Append(list[l], it)
           K == kept[l] \cup {n}
<1>4. adds' = [adds EXCEPT ![l] = n] /\ adds'[l] = n
  BY <1>1 DEF TypeOK, Add
<1>5. kept' = [kept EXCEPT ![l] = K] /\ list' = [list EXCEPT ![l] = L]
  <2> HIDE DEF n
  <2>1. QED
    BY <1>4 DEF Add
<1>6. /\ L \in Seq(Item) /\ Len(L) = Len(list[l]) + 1
      /\ L[Len(list[l]) + 1].nr = n
      /\ \A k \in 1 .. Len(list[l]) : L[k] = list[l][k]
  <2>1. it.nr = n
    OBVIOUS
  <2> HIDE DEF it, n
  <2>2. QED
    BY <1>3, <2>1
<1> HIDE DEF L, it
<1>7. /\ list'[l] = L /\ kept'[l] = K /\ adds'[l] = n
      /\ options'[l] = options[l] /\ live'[l] = live[l] /\ memory'[l] = memory[l]
      /\ fires'[l] = fires[l] /\ last'[l] = last[l] /\ told'[l] = told[l]
      /\ emptied'[l] = emptied[l]
  <2> HIDE DEF n, K
  <2>1. list'[l] = L /\ kept'[l] = K /\ adds'[l] = n
    BY <1>1, <1>4, <1>5 DEF TypeOK
  <2>2. QED
    BY <2>1 DEF Add
<1>8. /\ list' \in [Lists -> Seq(Item)] /\ adds' \in [Lists -> 0 .. MaxAdds]
      /\ kept' \in [Lists -> SUBSET (1 .. MaxAdds)]
  <2>1. K \in SUBSET (1 .. MaxAdds) /\ n \in 0 .. MaxAdds
    BY <1>1, <1>3 DEF TypeOK
  <2> HIDE DEF n, K
  <2>2. QED
    BY <1>1, <1>4, <1>5, <1>6, <2>1 DEF TypeOK
<1>9. \A m \in Lists : m # l => list'[m] = list[m] /\ kept'[m] = kept[m] /\ adds'[m] = adds[m]
  <2> HIDE DEF n, K
  <2>1. QED
    BY <1>1, <1>4, <1>5 DEF TypeOK
<1>10. /\ kept[l] \subseteq 1 .. adds[l] /\ told[l] \subseteq 1 .. adds[l] /\ last[l] <= fires[l]
       /\ memory[l] # None => memory[l] \in 1 .. fires[l]
       /\ \A k \in 1 .. Len(queue[l]) : queue[l][k] \in 1 .. fires[l]
  BY <1>1 DEF Whole, Counted
<1>11. told[l] \subseteq 1 .. n /\ K \subseteq 1 .. n /\ \A j \in told[l] : j < n
  BY <1>3, <1>10
<1>12. \A k \in 1 .. Len(L) : k \in 1 .. Len(list[l]) \/ k = Len(list[l]) + 1
  BY <1>3, <1>6
<1>13. Sorted(l)'
  <2>1. \A k \in 1 .. Len(list[l]) : list[l][k].nr \in kept[l] /\ list[l][k].nr < n
    <3>1. \A k \in 1 .. Len(list[l]) : list[l][k].nr \in kept[l]
      BY <1>1 DEF Whole, Sorted
    <3>2. QED
      BY <1>3, <1>10, <3>1
  <2>2. \A k \in 1 .. Len(L) : L[k].nr \in K
    BY <1>6, <1>12, <2>1
  <2>3. ASSUME NEW i \in 1 .. Len(L), NEW j \in 1 .. Len(L), i < j PROVE L[i].nr < L[j].nr
    <3>1. i \in 1 .. Len(list[l])
      BY <1>3, <1>12, <2>3
    <3>2. CASE j \in 1 .. Len(list[l])
      BY <1>1, <1>6, <2>3, <3>1, <3>2 DEF Whole, Sorted
    <3>3. CASE j = Len(list[l]) + 1
      BY <1>6, <2>1, <3>1, <3>3
    <3>4. QED
      BY <1>12, <3>2, <3>3
  <2> HIDE DEF n, K
  <2>4. QED
    BY <1>7, <2>2, <2>3 DEF Sorted
<1>14. /\ (K \subseteq Numbers(l)') <=> (kept[l] \subseteq Numbers(l))
       /\ K \ Numbers(l)' \subseteq kept[l] \ Numbers(l)
  <2>1. Numbers(l)' = Numbers(l) \cup {n}
    <3>1. Numbers(l)' = {L[k].nr : k \in 1 .. Len(L)}
      BY <1>7 DEF Numbers
    <3>2. \A k \in 1 .. Len(list[l]) : k \in 1 .. Len(L)
      BY <1>3, <1>6
    <3>3. Len(list[l]) + 1 \in 1 .. Len(L)
      BY <1>3, <1>6
    <3>4. Numbers(l) \cup {n} \subseteq {L[k].nr : k \in 1 .. Len(L)}
      BY <1>6, <3>2, <3>3 DEF Numbers
    <3>5. {L[k].nr : k \in 1 .. Len(L)} \subseteq Numbers(l) \cup {n}
      BY <1>6, <1>12 DEF Numbers
    <3>6. QED
      BY <3>1, <3>4, <3>5
  <2>2. n \notin kept[l]
    BY <1>3, <1>10
  <2>3. QED
    BY <2>1, <2>2
<1> HIDE DEF n, K
<1>15. Spent(l)' \/ ~ (("once" \in options[l] /\ (fires[l] > 0 \/ firing'[l])) => locked'[l])
  BY <1>1, <1>7 DEF Spent
<1>16. CASE ~ Late(l)
  <2>1. /\ firingIndex' = firingIndex /\ queue' = queue /\ locked' = locked
        /\ firing' = firing /\ stack' = stack
    BY <1>16 DEF Add
  <2>2. StackOK' /\ OthersStay(l) /\ \A x \in Place : IsAt(l, x)' <=> IsAt(l, x)
    BY <1>1, <2>1, StackStays
  <2>3. ~ IsAt(l, "outer")' /\ ~ IsAt(l, "inner")' /\ (IsAt(l, "call")' <=> IsAt(l, "call"))
    BY <1>2, <2>2 DEF Place
  <2>4. TypeOK'
    BY <1>1, <1>8, <2>1 DEF TypeOK, Add
  <2>5. \A m \in Lists : m # l => Same(m)
    BY <1>9, <2>1 DEF Same, Add
  <2>6. New(l)' /\ ~ Again(l)' /\ (Telling(l)' <=> Telling(l))
    BY <1>2, <1>7, <2>1, <2>3 DEF New, Again, Telling
  <2>7. Counted(l)'
    BY <1>7, <1>10, <1>11, <2>1 DEF Counted
  <2>8. Queued(l)' /\ Idle(l)' /\ Spent(l)' /\ Value(l)'
    BY <1>1, <1>7, <2>1, <2>3, <2>6 DEF Whole, Queued, Idle, Spent, Value
  <2>9. InOrder(l)'
    BY <1>1, <1>6, <1>7, <1>11, <1>12, <2>1, <2>6 DEF Whole, InOrder
  <2>10. ~ emptied[l] => Reached(l)'
    <3>1. ASSUME ~ emptied[l], Telling(l)
          PROVE  /\ firingIndex[l] <= Len(L)
                 /\ \A k \in 1 .. firingIndex[l] : last[l] = memory[l] /\ L[k].nr \in told[l]
      <4>1. /\ firingIndex[l] <= Len(list[l]) /\ firingIndex[l] \in Nat
            /\ \A k \in 1 .. firingIndex[l] : last[l] = memory[l] /\ list[l][k].nr \in told[l]
        BY <1>1, <3>1 DEF Whole, Reached, TypeOK
      <4>2. QED
        BY <1>3, <1>6, <4>1
    <3>2. QED
      BY <1>7, <2>1, <2>6, <3>1 DEF Reached
  <2>11. ~ emptied[l] => Stray(l)' /\ Done(l)'
    BY <1>1, <1>2, <1>7, <1>14, <1>16, <2>1, <2>3 DEF Whole, Stray, Done, Late
  <2>12. Whole(l)'
    BY <1>7, <1>13, <2>7, <2>8, <2>9, <2>10, <2>11 DEF Whole
  <2>13. QED
    BY <2>2, <2>4, <2>5, <2>12, OneList
<1>17. CASE Late(l)
  <2>1. /\ firingIndex' = [firingIndex EXCEPT ![l] = Len(list[l])]
        /\ queue' = [queue EXCEPT ![l] = Append(queue[l], memory[l])]
        /\ EnterFire(l) /\ ~ firing[l] /\ memory[l] # None
    BY <1>17 DEF Add, Late, StartOf
  <2>2. /\ StackOK' /\ OthersStay(l)
        /\ IsAt(l, "outer")' /\ ~ IsAt(l, "inner")' /\ ~ IsAt(l, "call")'
        /\ firing'[l] /\ (locked'[l] <=> locked[l] \/ "once" \in options[l])
        /\ firing' \in [Lists -> BOOLEAN] /\ locked' \in [Lists -> BOOLEAN]
        /\ stack' \in Seq([of : Lists, at : {"outer", "inner", "call"}])
        /\ \A m \in Lists : m # l => firing'[m] = firing[m] /\ locked'[m] = locked[m]
    BY <1>1, <2>1, Enters
  <2>3. queue[l] = << >> /\ memory[l] \in Nat
    BY <1>1, <2>1, Typed DEF Whole, Idle
  <2>4. Append(queue[l], memory[l]) = << memory[l] >> /\ << memory[l] >> \in Seq(Nat)
    BY <2>3
  <2>5. queue' = [queue EXCEPT ![l] = << memory[l] >>]
    BY <2>1, <2>4
  <2>6. /\ firingIndex'[l] = Len(list[l]) /\ queue'[l] = << memory[l] >>
        /\ firingIndex' \in [Lists -> Nat] /\ queue' \in [Lists -> Seq(Nat)]
        /\ \A m \in Lists : m # l => firingIndex'[m] = firingIndex[m] /\ queue'[m] = queue[m]
    BY <1>1, <1>3, <2>1, <2>4, <2>5 DEF TypeOK
  <2>7. TypeOK'
    BY <1>1, <1>8, <2>2, <2>6 DEF TypeOK, Add
  <2>8. \A m \in Lists : m # l => Same(m)
    BY <1>9, <2>2, <2>6 DEF Same, Add
  <2>9. Len(queue'[l]) = 1 /\ queue'[l][1] = memory[l]
    BY <2>6
  <2>10. Again(l)' /\ Telling(l)' /\ ~ New(l)'
    <3>1. Again(l)' /\ Telling(l)'
      BY <1>7, <2>1, <2>2, <2>6 DEF Again, Telling
    <3>2. ~ New(l)'
      BY <1>7, <2>1, <2>3, <2>9 DEF New
    <3>3. QED
      BY <3>1, <3>2
  <2>11. Counted(l)'
    <3>1. \A k \in 1 .. Len(queue'[l]) : queue'[l][k] = memory[l]
      BY <2>9
    <3>2. QED
      BY <1>7, <1>10, <1>11, <2>1, <3>1 DEF Counted
  <2>12. Queued(l)'
    <3>1. \A i, j \in 1 .. Len(queue'[l]) : ~ (i < j)
      BY <2>9
    <3>2. QED
      BY <1>1, <1>7, <2>10, <3>1 DEF Whole, Queued
  <2>13. Idle(l)' /\ Spent(l)' /\ Value(l)'
    BY <1>1, <1>7, <1>15, <2>2 DEF Idle, Value, Spent
  <2>14. InOrder(l)'
    <3>1. \A k \in 1 .. Len(L) : k > Len(list[l]) => L[k].nr = n
      BY <1>3, <1>6, <1>12
    <3>2. QED
      BY <1>7, <1>11, <2>6, <3>1 DEF InOrder
  <2>15. ASSUME ~ emptied[l] PROVE AllTold(l)
    BY <1>1, <2>1, <2>15 DEF Whole, Done
  <2>16. ~ emptied[l] => Reached(l)'
    <3>1. ASSUME ~ emptied[l], NEW k \in 1 .. Len(list[l])
          PROVE  last[l] = memory[l] /\ L[k].nr \in told[l]
      BY <1>1, <1>6, <2>15, <3>1 DEF AllTold, Whole, Sorted
    <3>2. Len(list[l]) <= Len(L)
      BY <1>3, <1>6
    <3>3. QED
      BY <1>7, <2>6, <3>1, <3>2 DEF Reached
  <2>17. ~ emptied[l] => Stray(l)' /\ Done(l)'
    <3>1. queue'[l] # << >>
      BY <2>9
    <3>2. ~ emptied[l] => Stray(l)'
      BY <1>1, <1>7, <1>14, <2>1, <2>2, <2>10 DEF Whole, Stray
    <3>3. QED
      BY <2>2, <3>1, <3>2 DEF Done
  <2>18. Whole(l)'
    BY <1>7, <1>13, <2>11, <2>12, <2>13, <2>14, <2>16, <2>17 DEF Whole
  <2>19. QED
    BY <2>2, <2>7, <2>8, <2>18, OneList
<1>18. QED
  BY <1>16, <1>17

(* The memory is fired again, for a callback that is there already.        *)
LEMMA AddAgainKeeps ==
  ASSUME Inv, NEW l \in Lists, NEW f \in Fns, AddAgain(l, f)
  PROVE  Inv'
<1>1. TypeOK /\ StackOK /\ Whole(l) /\ UserRuns
  BY DEF Inv, AddAgain
<1>2. /\ ~ IsAt(l, "outer") /\ ~ IsAt(l, "inner") /\ ~ Again(l) /\ New(l)
      /\ (IsAt(l, "call") => firing[l])
  BY <1>1, UserPlaces DEF Whole
<1>3. live[l] /\ Len(list[l]) \in Nat
  BY <1>1, Typed DEF AddAgain
<1>4. /\ firingIndex' = [firingIndex EXCEPT ![l] = Len(list[l])]
      /\ queue' = [queue EXCEPT ![l] = Append(queue[l], memory[l])]
      /\ EnterFire(l) /\ ~ firing[l] /\ memory[l] # None
  BY DEF AddAgain, Late, StartOf
<1>5. /\ StackOK' /\ OthersStay(l)
      /\ IsAt(l, "outer")' /\ ~ IsAt(l, "inner")' /\ ~ IsAt(l, "call")'
      /\ firing'[l] /\ (locked'[l] <=> locked[l] \/ "once" \in options[l])
      /\ firing' \in [Lists -> BOOLEAN] /\ locked' \in [Lists -> BOOLEAN]
      /\ stack' \in Seq([of : Lists, at : {"outer", "inner", "call"}])
      /\ \A m \in Lists : m # l => firing'[m] = firing[m] /\ locked'[m] = locked[m]
  BY <1>1, <1>4, Enters
<1>6. queue[l] = << >> /\ memory[l] \in Nat
  BY <1>1, <1>4, Typed DEF Whole, Idle
<1>7. Append(queue[l], memory[l]) = << memory[l] >> /\ << memory[l] >> \in Seq(Nat)
  BY <1>6
<1>8. queue' = [queue EXCEPT ![l] = << memory[l] >>]
  BY <1>4, <1>7
<1>9. /\ firingIndex'[l] = Len(list[l]) /\ queue'[l] = << memory[l] >>
      /\ firingIndex' \in [Lists -> Nat] /\ queue' \in [Lists -> Seq(Nat)]
      /\ \A m \in Lists : m # l => firingIndex'[m] = firingIndex[m] /\ queue'[m] = queue[m]
  BY <1>1, <1>3, <1>4, <1>7, <1>8 DEF TypeOK
<1>10. TypeOK'
  BY <1>1, <1>5, <1>9 DEF TypeOK, AddAgain, history
<1>11. \A m \in Lists : m # l => Same(m)
  BY <1>5, <1>9 DEF Same, AddAgain, history
<1>12. /\ options'[l] = options[l] /\ list'[l] = list[l] /\ live'[l] = live[l]
       /\ memory'[l] = memory[l]
       /\ adds'[l] = adds[l] /\ fires'[l] = fires[l] /\ kept'[l] = kept[l]
       /\ last'[l] = last[l] /\ told'[l] = told[l] /\ emptied'[l] = emptied[l]
  BY DEF AddAgain, history
<1>13. Len(queue'[l]) = 1 /\ queue'[l][1] = memory[l] /\ queue'[l] # << >>
  BY <1>9
<1>14. Again(l)' /\ Telling(l)' /\ ~ New(l)'
  <2>1. Again(l)' /\ Telling(l)'
    BY <1>4, <1>5, <1>9, <1>12 DEF Again, Telling
  <2>2. ~ New(l)'
    BY <1>4, <1>6, <1>12, <1>13 DEF New
  <2>3. QED
    BY <2>1, <2>2
<1>15. Counted(l)' /\ Sorted(l)'
  <2>1. \A k \in 1 .. Len(queue'[l]) : queue'[l][k] = memory[l]
    BY <1>13
  <2>2. Counted(l)'
    BY <1>1, <1>4, <1>12, <2>1 DEF Whole, Counted
  <2>3. QED
    BY <1>1, <1>12, <2>2 DEF Whole, Sorted
<1>16. Queued(l)'
  <2>1. \A i, j \in 1 .. Len(queue'[l]) : ~ (i < j)
    BY <1>13
  <2>2. QED
    BY <1>1, <1>12, <1>14, <2>1 DEF Whole, Queued
<1>17. Idle(l)' /\ Spent(l)' /\ Value(l)'
  BY <1>1, <1>3, <1>5, <1>12 DEF Whole, Idle, Value, Spent
<1>18. InOrder(l)'
  <2>1. \A k \in 1 .. Len(list[l]) : ~ (k > Len(list[l]))
    BY <1>3
  <2>2. QED
    BY <1>9, <1>12, <2>1 DEF InOrder
<1>19. ASSUME ~ emptied[l] PROVE AllTold(l)
  BY <1>1, <1>4, <1>19 DEF Whole, Done
<1>20. ~ emptied[l] => Reached(l)'
  <2>1. ASSUME ~ emptied[l], NEW k \in 1 .. Len(list[l])
        PROVE  last[l] = memory[l] /\ list[l][k].nr \in told[l]
    BY <1>1, <1>19, <2>1 DEF AllTold, Whole, Sorted
  <2>2. firingIndex'[l] <= Len(list'[l])
    BY <1>3, <1>9, <1>12
  <2>3. QED
    BY <1>9, <1>12, <2>1, <2>2 DEF Reached
<1>21. ~ emptied[l] => Stray(l)' /\ Done(l)'
  <2>1. Numbers(l)' = Numbers(l)
    BY <1>12 DEF Numbers
  <2>2. ~ emptied[l] => Stray(l)'
    BY <1>1, <1>4, <1>5, <1>12, <1>14, <2>1 DEF Whole, Stray
  <2>3. QED
    BY <1>5, <1>13, <2>2 DEF Done
<1>22. Whole(l)'
  BY <1>12, <1>15, <1>16, <1>17, <1>18, <1>20, <1>21 DEF Whole
<1>23. QED
  BY <1>5, <1>10, <1>11, <1>22, OneList

\* s without the callbacks of f is t, and the index x becomes y
Spliced(s, f, x, t, y) ==
    /\ t \in Seq(Item) /\ Len(t) \in Nat
    /\ y \in Nat
    /\ x = 0 => y = 0
    /\ x > Len(s) => y >= Len(t)
    /\ x <= Len(s) => y <= Len(t)
    /\ \E c \in [0 .. Len(s) -> Nat] :
         /\ \A j, k \in 0 .. Len(s) : j < k => c[j] <= c[k] /\ (s[k] \in Others(f) => c[j] < c[k])
         /\ x <= Len(s) => c[x] = y
         /\ \A k \in 1 .. Len(s) : s[k] \in Others(f) => c[k] \in 1 .. Len(t) /\ t[c[k]] = s[k]
         /\ \A i \in 1 .. Len(t) : \E k \in 1 .. Len(s) :
              s[k] \in Others(f) /\ c[k] = i /\ t[i] = s[k]

(* All that stand for f are spliced out, and the index with them.          *)
LEMMA RemoveShape ==
  ASSUME TypeOK, NEW l \in Lists, NEW f \in Fns, Remove(l, f)
  PROVE  /\ list' = [list EXCEPT ![l] = list'[l]]
         /\ firingIndex' = [firingIndex EXCEPT ![l] = firingIndex'[l]]
         /\ Spliced(list[l], f, firingIndex[l], list'[l], firingIndex'[l])
<1> DEFINE s == list[l]
           S == Others(f)
           t == Only(s, S)
           x == firingIndex[l]
           y == x - Cardinality(Left(s, S, x))
<1>1. /\ s \in Seq(Item) /\ Len(s) \in Nat /\ x \in Nat
      /\ \A k \in 1 .. Len(s) : s[k] \in Item
  BY Typed
<1>2. Passed(l, f) = Cardinality(Left(s, S, x))
  <2>1. {k \in 1 .. Len(s) : k <= x /\ s[k].fn = f} = Left(s, S, x)
    BY <1>1 DEF Left, Others
  <2>2. QED
    BY <2>1 DEF Passed
<1>3. list'[l] = t /\ list' = [list EXCEPT ![l] = t]
  BY DEF Remove, TypeOK
<1>4. firingIndex'[l] = y /\ firingIndex' = [firingIndex EXCEPT ![l] = y]
  BY <1>2 DEF Remove, Moved, TypeOK
<1>5. t \in Seq(Item) /\ Len(t) \in Nat
  <2> HIDE DEF s, S
  <2>1. QED
    BY <1>1, OnlyShape
<1>6. PICK c : Shape(c, t, Len(s), s, S)
  <2> HIDE DEF s, S
  <2>1. QED
    BY <1>1, OnlyShape
<1>7. Cardinality(Left(s, S, x)) \in 0 .. x
  <2> HIDE DEF s, S, x
  <2>1. QED
    BY <1>1, LeftCounts
<1>8. y \in Nat /\ (x = 0 => y = 0)
  <2> HIDE DEF s, S, x
  <2>1. QED
    BY <1>1, <1>7
<1> DEFINE d == [k \in 0 .. Len(s) |-> c[k]]
<1>9. d \in [0 .. Len(s) -> Nat]
  BY <1>6 DEF Shape
<1>10. x <= Len(s) => d[x] = y /\ y <= Len(t)
  <2> HIDE DEF s, S, t
  <2>1. ASSUME x <= Len(s) PROVE d[x] = y /\ y <= Len(t)
    <3>1. x \in 0 .. Len(s) /\ Len(s) \in 0 .. Len(s)
      BY <1>1, <2>1
    <3>2. c[x] = y /\ c[x] \in Nat /\ Len(t) = c[Len(s)]
      BY <1>6, <3>1 DEF Shape
    <3>3. c[x] <= c[Len(s)]
      BY <1>1, <1>6, <2>1, <3>1, <3>2 DEF Shape
    <3>4. QED
      BY <3>1, <3>2, <3>3
  <2>2. QED
    BY <2>1
<1>11. x > Len(s) => y >= Len(t)
  <2>1. ASSUME x > Len(s) PROVE y >= Len(t)
    <3>1. Left(s, S, x) = Left(s, S, Len(s))
      BY <1>1, <2>1 DEF Left
    <3>2. Len(t) = Len(s) - Cardinality(Left(s, S, Len(s)))
      <4> HIDE DEF s, S, t
      <4>1. Len(s) \in 0 .. Len(s)
        BY <1>1
      <4>2. QED
        BY <1>6, <4>1 DEF Shape
    <3> DEFINE C == Cardinality(Left(s, S, Len(s)))
    <3>3. C \in Nat /\ y = x - C
      <4>1. C \in 0 .. x
        BY <1>7, <3>1
      <4>2. y = x - C
        BY <3>1
      <4> HIDE DEF C, x, y
      <4>3. QED
        BY <1>1, <4>1, <4>2
    <3> HIDE DEF C, s, S, t, x, y
    <3>4. Len(t) = Len(s) - C
      BY <3>2 DEF C
    <3>5. QED
      BY <1>1, <2>1, <3>3, <3>4
  <2>2. QED
    BY <2>1
<1>12. /\ \A j, k \in 0 .. Len(s) : j < k => d[j] <= d[k] /\ (s[k] \in S => d[j] < d[k])
       /\ \A k \in 1 .. Len(s) : s[k] \in S => d[k] \in 1 .. Len(t) /\ t[d[k]] = s[k]
       /\ \A i \in 1 .. Len(t) : \E k \in 1 .. Len(s) : s[k] \in S /\ d[k] = i /\ t[i] = s[k]
  <2> HIDE DEF s, S, t
  <2>1. \A k \in 1 .. Len(s) : k \in 0 .. Len(s)
    OBVIOUS
  <2>2. QED
    BY <1>6, <2>1 DEF Shape
<1> DEFINE P(e) ==
             /\ \A j, k \in 0 .. Len(s) : j < k => e[j] <= e[k] /\ (s[k] \in S => e[j] < e[k])
             /\ x <= Len(s) => e[x] = y
             /\ \A k \in 1 .. Len(s) : s[k] \in S => e[k] \in 1 .. Len(t) /\ t[e[k]] = s[k]
             /\ \A i \in 1 .. Len(t) : \E k \in 1 .. Len(s) : s[k] \in S /\ e[k] = i /\ t[i] = s[k]
<1> HIDE DEF t, d, y
<1>13. P(d)
  BY <1>10, <1>12
<1>14. \E e \in [0 .. Len(s) -> Nat] : P(e)
  <2> HIDE DEF P
  <2>1. QED
    BY <1>9, <1>13
<1>15. /\ t \in Seq(Item) /\ Len(t) \in Nat
       /\ y \in Nat
       /\ x = 0 => y = 0
       /\ x > Len(s) => y >= Len(t)
       /\ x <= Len(s) => y <= Len(t)
  BY <1>3, <1>4, <1>5, <1>8, <1>10, <1>11
<1>16. Spliced(s, f, x, t, y)
  BY <1>14, <1>15 DEF Spliced
<1> HIDE DEF s, x
<1>17. Spliced(s, f, x, list'[l], firingIndex'[l])
  BY <1>3, <1>4, <1>16
<1>18. QED
  BY <1>3, <1>4, <1>17 DEF s, x

(* A callback is removed, while the list calls it or not.                  *)
LEMMA RemoveKeeps ==
  ASSUME Inv, NEW l \in Lists, NEW f \in Fns, Remove(l, f)
  PROVE  Inv'
<1>1. TypeOK /\ StackOK /\ Whole(l) /\ UserRuns
  BY DEF Inv, Remove
<1>2. /\ ~ IsAt(l, "outer") /\ ~ IsAt(l, "inner") /\ ~ Again(l) /\ New(l)
      /\ (IsAt(l, "call") => firing[l])
  BY <1>1, UserPlaces DEF Whole
<1>3. /\ StackOK' /\ OthersStay(l)
      /\ ~ IsAt(l, "outer")' /\ ~ IsAt(l, "inner")' /\ (IsAt(l, "call")' <=> IsAt(l, "call"))
  <2>1. stack' = stack /\ firing' = firing
    BY DEF Remove, DisableList
  <2>2. StackOK' /\ OthersStay(l) /\ \A x \in Place : IsAt(l, x)' <=> IsAt(l, x)
    BY <1>1, <2>1, StackStays
  <2>3. QED
    BY <1>2, <2>2 DEF Place
<1> DEFINE s == list[l]
           t == list'[l]
           x == firingIndex[l]
           y == firingIndex'[l]
           Cut == {s[k].nr : k \in {i \in 1 .. Len(s) : s[i].fn = f}}
<1>4. /\ list' = [list EXCEPT ![l] = t] /\ t \in Seq(Item) /\ Len(t) \in Nat
      /\ firingIndex' = [firingIndex EXCEPT ![l] = y] /\ y \in Nat
      /\ x = 0 => y = 0
      /\ x > Len(s) => y >= Len(t)
      /\ x <= Len(s) => y <= Len(t)
  BY <1>1, RemoveShape DEF Spliced
<1>5. PICK c \in [0 .. Len(s) -> Nat] :
        /\ \A j, k \in 0 .. Len(s) : j < k => c[j] <= c[k] /\ (s[k] \in Others(f) => c[j] < c[k])
        /\ x <= Len(s) => c[x] = y
        /\ \A k \in 1 .. Len(s) : s[k] \in Others(f) => c[k] \in 1 .. Len(t) /\ t[c[k]] = s[k]
        /\ \A i \in 1 .. Len(t) : \E k \in 1 .. Len(s) :
             s[k] \in Others(f) /\ c[k] = i /\ t[i] = s[k]
  BY <1>1, RemoveShape DEF Spliced
<1>6. /\ s \in Seq(Item) /\ Len(s) \in Nat /\ x \in Nat
      /\ \A k \in 1 .. Len(s) : s[k] \in Item /\ s[k].nr \in Nat
  BY <1>1, Typed
<1>7. kept' = [kept EXCEPT ![l] = kept[l] \ Cut]
  BY DEF Remove
<1>8. /\ kept'[l] = kept[l] \ Cut
      /\ options'[l] = options[l] /\ live'[l] = live[l] /\ queue'[l] = queue[l]
      /\ memory'[l] = memory[l] /\ firing'[l] = firing[l] /\ locked'[l] = locked[l]
      /\ adds'[l] = adds[l] /\ fires'[l] = fires[l]
      /\ last'[l] = last[l] /\ told'[l] = told[l] /\ emptied'[l] = emptied[l]
  <2>1. kept'[l] = kept[l] \ Cut
    BY <1>1, <1>7 DEF TypeOK
  <2>2. QED
    BY <2>1 DEF Remove
<1> HIDE DEF t, y, Cut
<1>9. TypeOK'
  <2>1. list' \in [Lists -> Seq(Item)] /\ firingIndex' \in [Lists -> Nat]
    BY <1>1, <1>4 DEF TypeOK
  <2>2. kept' \in [Lists -> SUBSET (1 .. MaxAdds)]
    BY <1>1, <1>7 DEF TypeOK
  <2>3. QED
    BY <1>1, <2>1, <2>2 DEF TypeOK, Remove
<1>10. \A m \in Lists : m # l => Same(m)
  BY <1>1, <1>4, <1>7 DEF TypeOK, Same, Remove
<1>11. t = list'[l] /\ y = firingIndex'[l]
  BY DEF t, y
<1>12. s # << >> /\ live[l]
  <2>1. s # << >>
    BY <1>6 DEF Remove, Has
  <2>2. QED
    BY <1>1, <2>1 DEF Whole, Spent
\* where an item comes from
<1>13. ASSUME NEW i \in 1 .. Len(t)
       PROVE  \E k \in 1 .. Len(s) : /\ s[k] \in Others(f) /\ c[k] = i /\ t[i] = s[k]
                                     /\ i > y => k > x
                                     /\ x <= Len(s) /\ i <= y => k <= x
                                     /\ s[k].nr \notin Cut
  <2>1. PICK k \in 1 .. Len(s) : s[k] \in Others(f) /\ c[k] = i /\ t[i] = s[k]
    BY <1>5
  <2>2. k \in 0 .. Len(s) /\ c[k] \in Nat
    OBVIOUS
  <2>3. ASSUME i > y PROVE k > x
    <3>1. x <= Len(s)
      BY <1>4, <1>6, <2>3
    <3>2. x \in 0 .. Len(s) /\ c[x] = y
      BY <1>5, <1>6, <3>1
    <3>3. QED
      BY <1>5, <2>1, <2>2, <2>3, <3>2
  <2>4. ASSUME x <= Len(s), i <= y PROVE k <= x
    <3>1. x \in 0 .. Len(s) /\ c[x] = y
      BY <1>5, <1>6, <2>4
    <3>2. ASSUME k > x PROVE FALSE
      <4>1. c[x] < c[k]
        BY <1>5, <2>1, <2>2, <3>1, <3>2
      <4>2. c[x] = y /\ c[k] = i /\ y \in Nat /\ i \in Nat
        BY <1>4, <2>1, <3>1
      <4>3. QED
        BY <2>4, <4>1, <4>2
    <3>3. k \in Int /\ x \in Int
      BY <2>2, <3>1
    <3>4. QED
      BY <3>2, <3>3
  <2>5. s[k].nr \notin Cut
    <3>1. s[k].fn # f
      BY <2>1 DEF Others
    <3>2. \A j \in 1 .. Len(s) : s[j].nr = s[k].nr => j = k
      BY <1>1, <1>6 DEF Whole, Sorted
    <3>3. QED
      BY <3>1, <3>2 DEF Cut
  <2>6. QED
    BY <2>1, <2>3, <2>4, <2>5
<1>14. Sorted(l)'
  <2>1. ASSUME NEW i \in 1 .. Len(t) PROVE t[i].nr \in kept[l] \ Cut
    <3>1. PICK k \in 1 .. Len(s) : t[i] = s[k] /\ s[k].nr \notin Cut
      BY <1>13
    <3>2. QED
      BY <1>1, <3>1 DEF Whole, Sorted
  <2>2. ASSUME NEW i \in 1 .. Len(t), NEW j \in 1 .. Len(t), i < j PROVE t[i].nr < t[j].nr
    <3>1. PICK k \in 1 .. Len(s) : c[k] = i /\ t[i] = s[k]
      BY <1>13
    <3>2. PICK h \in 1 .. Len(s) : c[h] = j /\ t[j] = s[h]
      BY <1>13
    <3>3. k < h
      <4>1. k \in 0 .. Len(s) /\ h \in 0 .. Len(s)
        OBVIOUS
      <4>2. ASSUME h <= k PROVE FALSE
        BY <1>5, <2>2, <3>1, <3>2, <4>1, <4>2
      <4>3. QED
        BY <4>2
    <3>4. QED
      BY <1>1, <3>1, <3>2, <3>3 DEF Whole, Sorted
  <2>3. QED
    BY <1>8, <1>11, <2>1, <2>2 DEF Sorted
<1>15. Numbers(l) \ Cut \subseteq Numbers(l)'
  <2>1. ASSUME NEW n \in Numbers(l), n \notin Cut PROVE n \in Numbers(l)'
    <3>1. PICK k \in 1 .. Len(s) : n = s[k].nr
      BY DEF Numbers
    <3>2. s[k] \in Others(f)
      BY <1>6, <2>1, <3>1 DEF Others, Cut
    <3>3. c[k] \in 1 .. Len(t) /\ t[c[k]] = s[k]
      BY <1>5, <3>2
    <3>4. QED
      BY <1>11, <3>1, <3>3 DEF Numbers
  <2>2. QED
    BY <2>1
<1>16. New(l)' /\ ~ Again(l)' /\ (Telling(l)' <=> Telling(l))
  BY <1>2, <1>3, <1>8 DEF New, Again, Telling
<1>17. Counted(l)' /\ Queued(l)' /\ Idle(l)' /\ Spent(l)' /\ Value(l)'
  <2>1. Counted(l)'
    BY <1>1, <1>8 DEF Whole, Counted
  <2>2. Queued(l)' /\ Idle(l)'
    BY <1>1, <1>3, <1>4, <1>8, <1>11, <1>16 DEF Whole, Queued, Idle
  <2>3. Spent(l)' /\ Value(l)'
    BY <1>1, <1>3, <1>8, <1>12 DEF Whole, Spent, Value
  <2>4. QED
    BY <2>1, <2>2, <2>3
<1>18. InOrder(l)'
  <2>1. ASSUME Telling(l), last[l] = memory[l], NEW i \in 1 .. Len(t), i > y, NEW j \in told[l]
        PROVE  j < t[i].nr
    <3>1. PICK k \in 1 .. Len(s) : t[i] = s[k] /\ k > x
      BY <1>13, <2>1
    <3>2. QED
      BY <1>1, <2>1, <3>1 DEF Whole, InOrder
  <2>2. QED
    BY <1>8, <1>11, <1>16, <2>1 DEF InOrder
<1>19. ~ emptied[l] => Reached(l)'
  <2>1. ASSUME ~ emptied[l], Telling(l)
        PROVE  y <= Len(t) /\ \A i \in 1 .. y : last[l] = memory[l] /\ t[i].nr \in told[l]
    <3>1. x <= Len(s) /\ \A k \in 1 .. x : last[l] = memory[l] /\ s[k].nr \in told[l]
      BY <1>1, <2>1 DEF Whole, Reached
    <3>2. y <= Len(t)
      BY <1>4, <3>1
    <3>3. ASSUME NEW i \in 1 .. y PROVE last[l] = memory[l] /\ t[i].nr \in told[l]
      <4>1. i \in 1 .. Len(t) /\ i <= y
        BY <1>4, <3>2
      <4>2. PICK k \in 1 .. Len(s) : t[i] = s[k] /\ k <= x
        BY <1>13, <3>1, <4>1
      <4>3. QED
        BY <1>6, <3>1, <4>2
    <3>4. QED
      BY <3>2, <3>3
  <2>2. QED
    BY <1>8, <1>11, <1>16, <2>1 DEF Reached
<1>20. ~ emptied[l] => Stray(l)' /\ Done(l)'
  <2>1. /\ kept'[l] \ Numbers(l)' \subseteq kept[l] \ Numbers(l)
        /\ ~ (kept'[l] \subseteq Numbers(l)') => ~ (kept[l] \subseteq Numbers(l))
    BY <1>8, <1>15
  <2>2. ~ emptied[l] => Stray(l)'
    BY <1>1, <1>2, <1>8, <2>1 DEF Whole, Stray
  <2>3. ~ emptied[l] => Done(l)'
    BY <1>1, <1>3, <1>8 DEF Whole, Done, AllTold
  <2>4. QED
    BY <2>2, <2>3
<1>21. Whole(l)'
  BY <1>8, <1>14, <1>17, <1>18, <1>19, <1>20 DEF Whole
<1>22. QED
  BY <1>3, <1>9, <1>10, <1>21, OneList

LEMMA EmptyKeeps ==
  ASSUME Inv, NEW l \in Lists, Empty(l)
  PROVE  Inv'
<1>1. TypeOK /\ StackOK /\ Whole(l) /\ UserRuns
  BY DEF Inv, Empty
<1>2. /\ ~ IsAt(l, "outer") /\ ~ IsAt(l, "inner") /\ ~ Again(l) /\ New(l)
      /\ (IsAt(l, "call") => firing[l])
  BY <1>1, UserPlaces DEF Whole
<1>3. /\ StackOK' /\ OthersStay(l)
      /\ ~ IsAt(l, "outer")' /\ ~ IsAt(l, "inner")' /\ (IsAt(l, "call")' <=> IsAt(l, "call"))
  <2>1. stack' = stack /\ firing' = firing
    BY DEF Empty, DisableList
  <2>2. StackOK' /\ OthersStay(l) /\ \A x \in Place : IsAt(l, x)' <=> IsAt(l, x)
    BY <1>1, <2>1, StackStays
  <2>3. QED
    BY <1>2, <2>2 DEF Place
<1>4. /\ list' = [list EXCEPT ![l] = << >>] /\ kept' = [kept EXCEPT ![l] = {}]
      /\ emptied' = [emptied EXCEPT ![l] = emptied[l] \/ firing[l]] /\ live[l]
  BY DEF Empty
<1>5. TypeOK'
  <2>1. list' \in [Lists -> Seq(Item)] /\ kept' \in [Lists -> SUBSET (1 .. MaxAdds)]
    BY <1>1, <1>4 DEF TypeOK
  <2>2. emptied' \in [Lists -> BOOLEAN]
    BY <1>1, <1>4 DEF TypeOK
  <2>3. QED
    BY <1>1, <2>1, <2>2 DEF TypeOK, Empty
<1>6. \A m \in Lists : m # l => Same(m)
  BY <1>1, <1>4 DEF TypeOK, Same, Empty
<1>7. /\ list'[l] = << >> /\ Len(list'[l]) = 0 /\ kept'[l] = {}
      /\ (emptied'[l] <=> emptied[l] \/ firing[l])
      /\ options'[l] = options[l] /\ live'[l] = live[l] /\ queue'[l] = queue[l]
      /\ firingIndex'[l] = firingIndex[l]
      /\ memory'[l] = memory[l] /\ firing'[l] = firing[l] /\ locked'[l] = locked[l]
      /\ adds'[l] = adds[l] /\ fires'[l] = fires[l]
      /\ last'[l] = last[l] /\ told'[l] = told[l]
  BY <1>1, <1>4 DEF Empty, TypeOK
<1>8. New(l)'
  BY <1>2, <1>7 DEF New
<1>9. Counted(l)' /\ Sorted(l)'
  BY <1>1, <1>7 DEF Whole, Counted, Sorted
<1>10. Queued(l)' /\ Idle(l)'
  BY <1>1, <1>3, <1>7, <1>8 DEF Whole, Queued, Idle
<1>11. Spent(l)' /\ Value(l)'
  BY <1>1, <1>3, <1>4, <1>7 DEF Whole, Spent, Value
<1>12. InOrder(l)'
  BY <1>7 DEF InOrder
<1>13. ~ emptied'[l] => Reached(l)' /\ Stray(l)' /\ Done(l)'
  <2>1. ~ firing[l] => ~ Telling(l)'
    BY <1>2, <1>3 DEF Telling, Again
  <2>2. QED
    BY <1>3, <1>7, <2>1 DEF Reached, Stray, Done, AllTold
<1>14. Whole(l)'
  BY <1>9, <1>10, <1>11, <1>12, <1>13 DEF Whole
<1>15. QED
  BY <1>3, <1>5, <1>6, <1>14, OneList

LEMMA DisableKeeps ==
  ASSUME Inv, NEW l \in Lists, Disable(l)
  PROVE  Inv'
<1>1. TypeOK /\ StackOK /\ Whole(l) /\ UserRuns
  BY DEF Inv, Disable
<1>2. /\ ~ IsAt(l, "outer") /\ ~ IsAt(l, "inner") /\ ~ Again(l) /\ New(l)
      /\ (IsAt(l, "call") => firing[l])
  BY <1>1, UserPlaces DEF Whole
<1>3. /\ StackOK' /\ OthersStay(l)
      /\ ~ IsAt(l, "outer")' /\ ~ IsAt(l, "inner")' /\ (IsAt(l, "call")' <=> IsAt(l, "call"))
  <2>1. stack' = stack /\ firing' = firing
    BY DEF Disable, DisableList
  <2>2. StackOK' /\ OthersStay(l) /\ \A x \in Place : IsAt(l, x)' <=> IsAt(l, x)
    BY <1>1, <2>1, StackStays
  <2>3. QED
    BY <1>2, <2>2 DEF Place
<1>4. TypeOK'
  <2>1. list' \in [Lists -> Seq(Item)] /\ queue' \in [Lists -> Seq(Nat)]
    BY <1>1 DEF TypeOK, Disable, DisableList
  <2>2. memory' \in [Lists -> Nat \cup {None}]
    BY <1>1 DEF TypeOK, Disable, DisableList
  <2>3. locked' \in [Lists -> BOOLEAN] /\ live' \in [Lists -> BOOLEAN]
    BY <1>1 DEF TypeOK, Disable, DisableList
  <2>4. QED
    BY <1>1, <2>1, <2>2, <2>3 DEF TypeOK, Disable, history
<1>5. \A m \in Lists : m # l => Same(m)
  BY <1>1 DEF TypeOK, Same, Disable, DisableList, history
<1>6. /\ list'[l] = << >> /\ Len(list'[l]) = 0 /\ queue'[l] = << >> /\ Len(queue'[l]) = 0
      /\ memory'[l] = None /\ locked'[l] /\ ~ live'[l]
  BY <1>1 DEF TypeOK, Disable, DisableList
<1>7. /\ options'[l] = options[l] /\ firingIndex'[l] = firingIndex[l] /\ firing'[l] = firing[l]
      /\ adds'[l] = adds[l] /\ fires'[l] = fires[l] /\ kept'[l] = kept[l]
      /\ last'[l] = last[l] /\ told'[l] = told[l] /\ emptied'[l] = emptied[l]
  BY DEF Disable, history
<1>8. New(l)' /\ ~ Telling(l)'
  BY <1>6 DEF New, Telling
<1>9. Counted(l)' /\ Sorted(l)' /\ Queued(l)' /\ Idle(l)' /\ Spent(l)' /\ Value(l)'
  BY <1>1, <1>3, <1>6, <1>7, <1>8 DEF Whole, Counted, Sorted, Queued, Idle, Spent, Value
<1>10. InOrder(l)' /\ Reached(l)' /\ Stray(l)' /\ Done(l)'
  BY <1>6, <1>8 DEF InOrder, Reached, Stray, Done
<1>11. Whole(l)'
  BY <1>9, <1>10 DEF Whole
<1>12. QED
  BY <1>3, <1>4, <1>5, <1>11, OneList

LEMMA LockKeeps ==
  ASSUME Inv, NEW l \in Lists, Lock(l)
  PROVE  Inv'
<1>1. TypeOK /\ StackOK /\ Whole(l) /\ UserRuns
  BY DEF Inv, Lock
<1>2. /\ ~ IsAt(l, "outer") /\ ~ IsAt(l, "inner") /\ ~ Again(l) /\ New(l)
      /\ (IsAt(l, "call") => firing[l])
  BY <1>1, UserPlaces DEF Whole
<1>3. /\ StackOK' /\ OthersStay(l)
      /\ ~ IsAt(l, "outer")' /\ ~ IsAt(l, "inner")' /\ (IsAt(l, "call")' <=> IsAt(l, "call"))
  <2>1. stack' = stack /\ firing' = firing
    BY DEF Lock, DisableList
  <2>2. StackOK' /\ OthersStay(l) /\ \A x \in Place : IsAt(l, x)' <=> IsAt(l, x)
    BY <1>1, <2>1, StackStays
  <2>3. QED
    BY <1>2, <2>2 DEF Place
<1> DEFINE spent == memory[l] = None /\ ~ firing[l]
<1>4. /\ locked' = [locked EXCEPT ![l] = TRUE] /\ queue' = [queue EXCEPT ![l] = << >>]
      /\ list' = [list EXCEPT ![l] = IF spent THEN << >> ELSE list[l]]
      /\ live' = [live EXCEPT ![l] = live[l] /\ ~ spent]
  BY DEF Lock
<1>5. TypeOK'
  <2>1. list' \in [Lists -> Seq(Item)]
    <3>1. (IF spent THEN << >> ELSE list[l]) \in Seq(Item)
      BY <1>1 DEF TypeOK
    <3> HIDE DEF spent
    <3>2. QED
      BY <1>1, <1>4, <3>1 DEF TypeOK
  <2>2. queue' \in [Lists -> Seq(Nat)]
    BY <1>1, <1>4 DEF TypeOK
  <2>3. locked' \in [Lists -> BOOLEAN] /\ live' \in [Lists -> BOOLEAN]
    BY <1>1, <1>4 DEF TypeOK
  <2>4. QED
    BY <1>1, <2>1, <2>2, <2>3 DEF TypeOK, Lock, history
<1>6. \A m \in Lists : m # l => Same(m)
  <2>1. ASSUME NEW m \in Lists, m # l
        PROVE  list'[m] = list[m] /\ queue'[m] = queue[m] /\ locked'[m] = locked[m] /\ live'[m] = live[m]
    BY <1>1, <1>4, <2>1 DEF TypeOK
  <2>2. QED
    BY <2>1 DEF Same, Lock, history
<1>7. /\ locked'[l] /\ queue'[l] = << >> /\ Len(queue'[l]) = 0
      /\ list'[l] = (IF spent THEN << >> ELSE list[l]) /\ (live'[l] <=> live[l] /\ ~ spent)
  <2> HIDE DEF spent
  <2>1. QED
    BY <1>1, <1>4 DEF TypeOK
<1>8. /\ options'[l] = options[l] /\ firingIndex'[l] = firingIndex[l] /\ firing'[l] = firing[l]
      /\ memory'[l] = memory[l]
      /\ adds'[l] = adds[l] /\ fires'[l] = fires[l] /\ kept'[l] = kept[l]
      /\ last'[l] = last[l] /\ told'[l] = told[l] /\ emptied'[l] = emptied[l]
  BY DEF Lock, history
<1>9. New(l)' /\ ~ Again(l)' /\ (Telling(l)' <=> Telling(l))
  BY <1>2, <1>3, <1>7, <1>8 DEF New, Again, Telling
<1>10. Counted(l)' /\ Queued(l)' /\ Idle(l)'
  BY <1>1, <1>3, <1>7, <1>8, <1>9 DEF Whole, Counted, Queued, Idle
<1>11. CASE spent
  <2>1. list'[l] = << >> /\ Len(list'[l]) = 0
    BY <1>7, <1>11
  <2>2. Sorted(l)' /\ Spent(l)' /\ Value(l)'
    BY <1>3, <1>7, <1>8, <1>11, <1>2, <2>1 DEF Sorted, Spent, Value
  <2>3. ~ Telling(l)'
    BY <1>8, <1>11 DEF Telling
  <2>4. InOrder(l)' /\ Reached(l)' /\ Stray(l)' /\ Done(l)'
    BY <1>7, <1>8, <1>11, <2>3 DEF InOrder, Reached, Stray, Done
  <2>5. Whole(l)'
    BY <1>10, <2>2, <2>4 DEF Whole
  <2>6. QED
    BY <1>3, <1>5, <1>6, <2>5, OneList
<1>12. CASE ~ spent
  <2>1. list'[l] = list[l] /\ live'[l] = live[l] /\ Numbers(l)' = Numbers(l)
    <3>1. list'[l] = list[l] /\ (live'[l] <=> live[l])
      BY <1>7, <1>12
    <3>2. live'[l] \in BOOLEAN /\ live[l] \in BOOLEAN
      BY <1>1, <1>5, Typed DEF TypeOK
    <3>3. QED
      BY <3>1, <3>2 DEF Numbers
  <2>2. Sorted(l)' /\ Spent(l)' /\ Value(l)'
    BY <1>1, <1>3, <1>7, <1>8, <2>1 DEF Whole, Sorted, Spent, Value
  <2>3. InOrder(l)' /\ (~ emptied[l] => Reached(l)')
    BY <1>1, <1>8, <1>9, <2>1 DEF Whole, InOrder, Reached
  <2>4. ~ emptied[l] => Stray(l)' /\ Done(l)'
    BY <1>1, <1>3, <1>7, <1>8, <2>1 DEF Whole, Stray, Done, AllTold
  <2>5. Whole(l)'
    BY <1>8, <1>10, <2>2, <2>3, <2>4 DEF Whole
  <2>6. QED
    BY <1>3, <1>5, <1>6, <2>5, OneList
<1>13. QED
  BY <1>11, <1>12

LEMMA FireWithKeeps ==
  ASSUME Inv, NEW l \in Lists, FireWith(l)
  PROVE  Inv'
<1>1. TypeOK /\ StackOK /\ Whole(l) /\ UserRuns
  BY DEF Inv, FireWith
<1>2. /\ ~ IsAt(l, "outer") /\ ~ IsAt(l, "inner") /\ ~ Again(l) /\ New(l)
      /\ (IsAt(l, "call") => firing[l])
  BY <1>1, UserPlaces DEF Whole
<1> DEFINE n == fires[l] + 1
           q == Append(queue[l], n)
<1>3. /\ fires[l] \in Nat /\ n \in 1 .. MaxFires /\ n \in Nat /\ n > fires[l]
      /\ last[l] \in Nat /\ queue[l] \in Seq(Nat) /\ Len(queue[l]) \in Nat
  <2>1. fires[l] \in 0 .. MaxFires /\ fires[l] < MaxFires /\ MaxFires \in Nat
    BY <1>1, CallbacksAssumption DEF TypeOK, FireWith
  <2>2. n \in 1 .. MaxFires /\ n \in Nat /\ fires[l] \in Nat /\ n > fires[l]
    BY <2>1
  <2>3. QED
    BY <1>1, <2>2, Typed
<1>4. fires' = [fires EXCEPT ![l] = n] /\ fires'[l] = n
  BY <1>1 DEF TypeOK, FireWith
<1> HIDE DEF n
<1>5. queue' = [queue EXCEPT ![l] = q]
  BY <1>4 DEF FireWith
<1>6. /\ q \in Seq(Nat) /\ Len(q) = Len(queue[l]) + 1 /\ q[Len(q)] = n
      /\ \A k \in 1 .. Len(queue[l]) : q[k] = queue[l][k] /\ k < Len(q)
      /\ \A k \in 1 .. Len(q) : k \in 1 .. Len(queue[l]) \/ k = Len(q)
  BY <1>3
<1> HIDE DEF q
<1>7. /\ queue'[l] = q /\ fires'[l] = n
      /\ options'[l] = options[l] /\ list'[l] = list[l] /\ live'[l] = live[l]
      /\ firingIndex'[l] = firingIndex[l] /\ memory'[l] = memory[l]
      /\ adds'[l] = adds[l] /\ kept'[l] = kept[l]
      /\ last'[l] = last[l] /\ told'[l] = told[l] /\ emptied'[l] = emptied[l]
  BY <1>1, <1>4, <1>5 DEF FireWith, TypeOK
<1>8. /\ queue' \in [Lists -> Seq(Nat)] /\ fires' \in [Lists -> 0 .. MaxFires]
      /\ \A m \in Lists : m # l => queue'[m] = queue[m] /\ fires'[m] = fires[m]
  <2>1. n \in 0 .. MaxFires
    BY <1>3
  <2>2. QED
    BY <1>1, <1>4, <1>5, <1>6, <2>1 DEF TypeOK
<1>9. ~ locked[l] /\ live[l] /\ ("once" \in options[l] => ~ firing[l])
  BY <1>1 DEF FireWith, Whole, Spent
<1>10. /\ StackOK' /\ OthersStay(l) /\ firing'[l]
       /\ firing' \in [Lists -> BOOLEAN] /\ locked' \in [Lists -> BOOLEAN]
       /\ stack' \in Seq([of : Lists, at : {"outer", "inner", "call"}])
       /\ \A m \in Lists : m # l => firing'[m] = firing[m] /\ locked'[m] = locked[m]
       /\ ~ IsAt(l, "inner")'
       /\ firing[l] => ~ IsAt(l, "outer")' /\ (IsAt(l, "call")' <=> IsAt(l, "call"))
       /\ ~ firing[l] => ~ IsAt(l, "call")' /\ ("once" \in options[l] => locked'[l])
  <2>1. CASE firing[l]
    <3>1. locked' = locked /\ firing' = firing /\ stack' = stack
      BY <2>1 DEF FireWith
    <3>2. StackOK' /\ OthersStay(l) /\ \A x \in Place : IsAt(l, x)' <=> IsAt(l, x)
      BY <1>1, <3>1, StackStays
    <3>3. /\ ~ IsAt(l, "outer")' /\ ~ IsAt(l, "inner")'
          /\ (IsAt(l, "call")' <=> IsAt(l, "call"))
      BY <1>2, <3>2 DEF Place
    <3>4. QED
      BY <1>1, <2>1, <3>1, <3>2, <3>3 DEF TypeOK
  <2>2. CASE ~ firing[l]
    <3>1. EnterFire(l)
      BY <2>2 DEF FireWith
    <3>2. QED
      BY <1>1, <2>2, <3>1, Enters
  <2>3. QED
    BY <2>1, <2>2
<1>11. TypeOK'
  BY <1>1, <1>8, <1>10 DEF TypeOK, FireWith
<1>12. \A m \in Lists : m # l => Same(m)
  BY <1>8, <1>10 DEF Same, FireWith
<1>13. /\ last[l] <= fires[l]
       /\ memory[l] # None => memory[l] \in 1 .. fires[l]
       /\ \A k \in 1 .. Len(queue[l]) : queue[l][k] \in 1 .. fires[l]
  BY <1>1 DEF Whole, Counted
<1>14. q # << >> /\ (q # << memory[l] >> \/ memory[l] = None)
  <2>1. ASSUME memory[l] # None, q = << memory[l] >> PROVE FALSE
    <3>1. q[Len(q)] = memory[l]
      BY <2>1
    <3>2. QED
      BY <1>3, <1>6, <1>13, <2>1, <3>1
  <2>2. q # << >>
    BY <1>3, <1>6
  <2>3. QED
    BY <2>1, <2>2
<1>15. ~ Again(l)' /\ q # << >>
  BY <1>3, <1>6, <1>7, <1>14 DEF Again
<1>16. Counted(l)' /\ Sorted(l)'
  <2>1. ASSUME NEW k \in 1 .. Len(q) PROVE q[k] \in 1 .. n
    <3>1. CASE k \in 1 .. Len(queue[l])
      <4>1. q[k] \in 1 .. fires[l]
        BY <1>6, <1>13, <3>1
      <4>2. QED
        BY <1>3, <4>1
    <3>2. CASE k = Len(q)
      BY <1>3, <1>6, <3>2
    <3>3. QED
      BY <1>6, <3>1, <3>2
  <2>2. last[l] <= n /\ (memory[l] # None => memory[l] \in 1 .. n)
    BY <1>3, <1>13
  <2>3. QED
    BY <1>1, <1>7, <2>1, <2>2 DEF Whole, Counted, Sorted
<1>17. New(l)'
  <2>1. \A k \in 1 .. Len(queue[l]) :
          q[k] > last[l] /\ (memory[l] # None => q[k] > memory[l])
    BY <1>2, <1>6 DEF New
  <2>2. n > last[l] /\ (memory[l] # None => n > memory[l])
    BY <1>3, <1>13
  <2>3. \A k \in 1 .. Len(q) : q[k] > last[l] /\ (memory[l] # None => q[k] > memory[l])
    BY <1>6, <2>1, <2>2
  <2>4. QED
    BY <1>7, <2>3 DEF New
<1>18. Queued(l)'
  <2>1. ASSUME NEW i \in 1 .. Len(q), NEW j \in 1 .. Len(q), i < j PROVE q[i] < q[j]
    <3>1. i \in 1 .. Len(queue[l])
      BY <1>3, <1>6, <2>1
    <3>2. CASE j \in 1 .. Len(queue[l])
      BY <1>1, <1>6, <2>1, <3>1, <3>2 DEF Whole, Queued
    <3>3. CASE j = Len(q)
      BY <1>3, <1>6, <1>13, <3>1, <3>3
    <3>4. QED
      BY <1>6, <3>2, <3>3
  <2>2. IsAt(l, "outer")' => firingIndex[l] = 0
    BY <1>1, <1>10 DEF Whole, Idle
  <2>3. memory[l] # None => last[l] <= memory[l]
    BY <1>1 DEF Whole, Queued
  <2>4. QED
    BY <1>7, <1>17, <2>1, <2>2, <2>3 DEF Queued
<1>19. Idle(l)' /\ Spent(l)' /\ Value(l)'
  BY <1>1, <1>7, <1>9, <1>10 DEF Whole, Idle, Spent, Value
<1>20. Telling(l)' => Telling(l)
  BY <1>7, <1>10, <1>15 DEF Telling
<1>21. InOrder(l)' /\ (~ emptied[l] => Reached(l)')
  BY <1>1, <1>7, <1>20 DEF Whole, InOrder, Reached
<1>22. ~ emptied[l] => Stray(l)' /\ Done(l)'
  <2>1. Numbers(l)' = Numbers(l)
    BY <1>7 DEF Numbers
  <2>2. ~ emptied[l] => kept[l] \subseteq Numbers(l)
    BY <1>1, <1>9 DEF Whole, Stray
  <2>3. QED
    BY <1>7, <1>10, <1>15, <2>1, <2>2 DEF Stray, Done
<1>23. Whole(l)'
  BY <1>7, <1>16, <1>18, <1>19, <1>21, <1>22 DEF Whole
<1>24. QED
  BY <1>10, <1>11, <1>12, <1>23, OneList

LEMMA StutterKeeps ==
  ASSUME Inv, UNCHANGED vars
  PROVE  Inv'
<1>1. TypeOK /\ StackOK /\ \A l \in Lists : Whole(l)
  BY DEF Inv
<1>2. TypeOK' /\ \A l \in Lists : Same(l)
  BY <1>1 DEF vars, listVars, history, TypeOK, Same
<1>3. stack' = stack /\ firing' = firing
  BY DEF vars, listVars
<1>4. StackOK'
  BY <1>1, <1>3 DEF StackOK
<1>5. \A l \in Lists : \A x \in Place : IsAt(l, x)' <=> IsAt(l, x)
  BY <1>3 DEF IsAt
<1>6. \A l \in Lists : Whole(l)'
  BY <1>1, <1>2, <1>5, SameWhole
<1>7. QED
  BY <1>2, <1>4, <1>6 DEF Inv

LEMMA NextKeeps ==
  ASSUME Inv, [Next]_vars
  PROVE  Inv'
<1>1. CASE UNCHANGED vars
  BY <1>1, StutterKeeps
<1>2. ASSUME NEW l \in Lists, Fire(l) PROVE Inv'
  BY <1>2, ShiftKeeps, CallKeeps, AllCalledKeeps, FinishKeeps, ReturnKeeps, ReturnFalseKeeps,
     ThrowKeeps DEF Fire
<1>3. ASSUME NEW l \in Lists, UserStep(l) PROVE Inv'
  <2>1. ASSUME NEW f \in Fns, Add(l, f) \/ AddAgain(l, f) \/ Remove(l, f) PROVE Inv'
    BY <2>1, AddKeeps, AddAgainKeeps, RemoveKeeps
  <2>2. QED
    BY <1>3, <2>1, EmptyKeeps, DisableKeeps, LockKeeps, FireWithKeeps DEF UserStep
<1>4. QED
  BY <1>1, <1>2, <1>3 DEF Next

LEMMA InvHolds == Spec => []Inv
<1>1. Inv /\ [Next]_vars => Inv'
  BY NextKeeps
<1>2. QED
  BY InitInv, <1>1, PTL DEF Spec

-----------------------------------------------------------------------------
(* The theorems *)

(* The lists, their queues and the stack keep their types, whatever the    *)
(* callbacks do (jquery-3.6.1.js:3444-3629).                               *)
THEOREM TypeCorrect == Spec => []TypeOK
<1>1. Inv => TypeOK
  BY DEF Inv
<1>2. QED
  BY InvHolds, <1>1, PTL

(* Nobody is forgotten by a list that remembers, however callbacks came,   *)
(* went and fired while it was firing (jquery-3.6.1.js:3487-3529).         *)
THEOREM NoneForgottenHolds == Spec => []NoneForgotten
<1>1. Inv => NoneForgotten
  BY DEF Inv, Whole, Done, AllTold, NoneForgotten
<1>2. QED
  BY InvHolds, <1>1, PTL

LEMMA CallTells ==
  ASSUME Inv, NEW l \in Lists, Call(l)
  PROVE  B(l)!Tell
<1>1. TypeOK /\ StackOK /\ Whole(l)
  BY DEF Inv
<1>2. IsAt(l, "inner") /\ ~ IsAt(l, "outer")
  <2>1. Top(l, "inner") /\ stack \in Seq(Frame)
    BY <1>1 DEF Call, StackOK
  <2>2. 1 \in 1 .. Len(stack)
    BY <2>1 DEF Top
  <2>3. IsAt(l, "inner")
    BY <2>1, <2>2 DEF IsAt, Top
  <2>4. "inner" \in Place /\ "outer" \in Place
    BY DEF Place
  <2>5. QED
    BY <1>1, <2>3, <2>4, PlaceFires
<1> DEFINE n == firingIndex[l] + 1
           nr == list[l][n].nr
<1>3. /\ firingIndex[l] \in Nat /\ n \in 1 .. Len(list[l]) /\ n > firingIndex[l]
      /\ firingIndex' = [firingIndex EXCEPT ![l] = n]
  <2>1. firingIndex[l] < Len(list[l]) /\ firingIndex' = [firingIndex EXCEPT ![l] = n]
    BY DEF Call
  <2>2. QED
    BY <1>1, <2>1, Typed
<1>4. firingIndex'[l] = n
  BY <1>1, <1>3 DEF TypeOK
<1> HIDE DEF n
<1>5. memory[l] # None /\ Telling(l)
  <2>1. firingIndex[l] < Len(list[l])
    BY DEF Call
  <2>2. QED
    BY <1>1, <1>2, <2>1 DEF Whole, Value, Telling
<1>6. nr \in kept[l] /\ nr \in (1 .. adds[l]) \ Gone(l)
  BY <1>1, <1>3 DEF Whole, Sorted, Counted, Gone
<1>7. memory[l] \in 1 .. fires[l] /\ memory[l] >= last[l]
  <2>1. memory[l] \in 1 .. fires[l] /\ last[l] <= memory[l]
    BY <1>1, <1>5 DEF Whole, Counted, Queued
  <2>2. memory[l] \in Nat /\ last[l] \in Nat
    BY <1>1, <1>5, Typed
  <2>3. QED
    BY <2>1, <2>2
<1>8. memory[l] = last[l] => \A j \in told[l] : j < nr
  BY <1>1, <1>3, <1>5 DEF Whole, InOrder
<1>9. /\ last'[l] = memory[l]
      /\ told'[l] = IF memory[l] = last[l] THEN told[l] \cup {nr} ELSE {nr}
      /\ options'[l] = options[l] /\ adds'[l] = adds[l] /\ kept'[l] = kept[l]
      /\ fires'[l] = fires[l]
  BY <1>1, <1>4 DEF Call, TypeOK
<1> HIDE DEF nr
<1>10. QED
  BY <1>6, <1>7, <1>8, <1>9 DEF B!Tell, Gone

LEMMA AddRegisters ==
  ASSUME Inv, NEW l \in Lists, NEW f \in Fns, Add(l, f)
  PROVE  B(l)!Register
<1>1. TypeOK /\ Whole(l) /\ adds[l] \in Nat
  BY Typed DEF Inv
<1>2. adds'[l] = adds[l] + 1 /\ kept'[l] = kept[l] \cup {adds[l] + 1}
  BY <1>1 DEF Add, TypeOK
<1>3. Gone(l)' = Gone(l)
  BY <1>1, <1>2 DEF Gone, Whole, Counted
<1>4. options'[l] = options[l] /\ fires'[l] = fires[l] /\ last'[l] = last[l] /\ told'[l] = told[l]
  BY DEF Add
<1>5. QED
  BY <1>2, <1>3, <1>4 DEF B!Register

LEMMA RemoveWithdraws ==
  ASSUME Inv, NEW l \in Lists, Empty(l) \/ \E f \in Fns : Remove(l, f)
  PROVE  B(l)!Withdraw
<1>1. TypeOK /\ Whole(l) /\ kept[l] \subseteq 1 .. adds[l]
  BY DEF Inv, Whole, Counted
<1>2. kept'[l] \subseteq kept[l]
  <2>1. CASE Empty(l)
    BY <1>1, <2>1 DEF Empty, TypeOK
  <2>2. ASSUME NEW f \in Fns, Remove(l, f) PROVE kept'[l] \subseteq kept[l]
    BY <1>1, <2>2 DEF Remove, TypeOK
  <2>3. QED
    BY <2>1, <2>2
<1>3. /\ adds'[l] = adds[l] /\ options'[l] = options[l] /\ fires'[l] = fires[l]
      /\ last'[l] = last[l] /\ told'[l] = told[l]
  BY DEF Empty, Remove
<1> DEFINE S == kept[l] \ kept'[l]
<1>4. S \in SUBSET (1 .. adds[l]) /\ Gone(l)' = Gone(l) \cup S
  BY <1>1, <1>2, <1>3 DEF Gone
<1> HIDE DEF S
<1>5. \E T \in SUBSET (1 .. adds[l]) : Gone(l)' = Gone(l) \cup T
  BY <1>4
<1>6. QED
  BY <1>3, <1>5 DEF B!Withdraw

LEMMA FireWithAnnounces ==
  ASSUME Inv, NEW l \in Lists, FireWith(l)
  PROVE  B(l)!Announce
<1>1. TypeOK /\ Whole(l) /\ fires[l] \in Nat /\ ~ locked[l]
  BY Typed DEF Inv, FireWith
<1>2. "once" \in options[l] => fires[l] = 0
  BY <1>1 DEF Whole, Spent
<1>3. fires'[l] = fires[l] + 1
  BY <1>1 DEF FireWith, TypeOK
<1>4. /\ adds'[l] = adds[l] /\ options'[l] = options[l] /\ kept'[l] = kept[l]
      /\ last'[l] = last[l] /\ told'[l] = told[l]
  BY DEF FireWith
<1>5. QED
  BY <1>2, <1>3, <1>4 DEF B!Announce, Gone

\* what Broadcast sees of l stays
Unseen(l) ==
    /\ options'[l] = options[l] /\ adds'[l] = adds[l] /\ kept'[l] = kept[l]
    /\ fires'[l] = fires[l] /\ last'[l] = last[l] /\ told'[l] = told[l]

LEMMA UnseenStays ==
  ASSUME NEW l \in Lists, Unseen(l)
  PROVE  UNCHANGED B(l)!bvars
BY DEF Unseen, Gone, B!bvars

LEMMA OtherUnseen ==
  ASSUME TypeOK, NEW l \in Lists, NEW m \in Lists, m # l, Fire(m) \/ UserStep(m)
  PROVE  Unseen(l)
<1>1. CASE Shift(m) \/ AllCalled(m) \/ Finish(m) \/ Return(m) \/ ReturnFalse(m) \/ Throw(m)
  BY <1>1 DEF Shift, AllCalled, Finish, Return, ReturnFalse, Throw, listVars, history, Unseen
<1>2. CASE Call(m)
  BY <1>2 DEF Call, TypeOK, Unseen
<1>3. ASSUME NEW f \in Fns, Add(m, f) \/ AddAgain(m, f) \/ Remove(m, f) PROVE Unseen(l)
  BY <1>3 DEF Add, AddAgain, Remove, history, TypeOK, Unseen
<1>4. CASE Empty(m) \/ Disable(m) \/ Lock(m) \/ FireWith(m)
  BY <1>4 DEF Empty, Disable, Lock, FireWith, history, TypeOK, Unseen
<1>5. QED
  BY <1>1, <1>2, <1>3, <1>4 DEF Fire, UserStep

(* All else is not seen.                                                   *)
LEMMA StepAnnounces ==
  ASSUME Inv, [Next]_vars, NEW l \in Lists
  PROVE  [B(l)!Next]_(B(l)!bvars)
<1>1. TypeOK
  BY DEF Inv
<1>2. CASE UNCHANGED vars
  <2>1. Unseen(l)
    BY <1>2 DEF vars, listVars, history, Unseen
  <2>2. QED
    BY <2>1, UnseenStays
<1>3. ASSUME NEW m \in Lists, Fire(m) \/ UserStep(m), m # l PROVE UNCHANGED B(l)!bvars
  BY <1>1, <1>3, OtherUnseen, UnseenStays
<1>4. ASSUME Fire(l) PROVE B(l)!Next \/ UNCHANGED B(l)!bvars
  <2>1. CASE Call(l)
    BY <2>1, CallTells DEF B!Next
  <2>2. CASE Shift(l) \/ AllCalled(l) \/ Finish(l) \/ Return(l) \/ ReturnFalse(l) \/ Throw(l)
    <3>1. Unseen(l)
      BY <2>2 DEF Shift, AllCalled, Finish, Return, ReturnFalse, Throw, listVars, history, Unseen
    <3>2. QED
      BY <3>1, UnseenStays
  <2>3. QED
    BY <1>4, <2>1, <2>2 DEF Fire
<1>5. ASSUME UserStep(l) PROVE B(l)!Next \/ UNCHANGED B(l)!bvars
  <2>1. ASSUME NEW f \in Fns, Add(l, f) PROVE B(l)!Next
    BY <2>1, AddRegisters DEF B!Next
  <2>2. ASSUME NEW f \in Fns, Remove(l, f) PROVE B(l)!Next
    BY <2>2, RemoveWithdraws DEF B!Next
  <2>3. CASE Empty(l)
    BY <2>3, RemoveWithdraws DEF B!Next
  <2>4. CASE FireWith(l)
    BY <2>4, FireWithAnnounces DEF B!Next
  <2>5. ASSUME Disable(l) \/ Lock(l) \/ \E f \in Fns : AddAgain(l, f)
        PROVE  UNCHANGED B(l)!bvars
    <3>1. Unseen(l)
      BY <2>5 DEF Disable, Lock, AddAgain, history, Unseen
    <3>2. QED
      BY <3>1, UnseenStays
  <2>6. QED
    BY <1>5, <2>1, <2>2, <2>3, <2>4, <2>5 DEF UserStep
<1>6. QED
  BY <1>2, <1>3, <1>4, <1>5 DEF Next

(* A list announces its values as Broadcast says: to each callback once at *)
(* most, in the order of the additions, never an old value after a new     *)
(* one, and with "once" a single value.                                    *)
THEOREM AnnouncesHolds == Spec => Announces
<1>1. ASSUME Init, NEW l \in Lists PROVE B(l)!Init
  BY <1>1 DEF Init, Gone, B!Init
<1>2. Inv /\ [Next]_vars => [\A l \in Lists : [B(l)!Next]_(B(l)!bvars)]_vars
  BY StepAnnounces
<1>3. Init => \A l \in Lists : B(l)!Init
  BY <1>1
<1>4. QED
  BY InvHolds, <1>2, <1>3, PTL DEF Spec, Announces

-----------------------------------------------------------------------------
(* What Joined makes of sequences *)

JoinedStep(F, seqs) ==
    [k \in 0 .. Len(seqs) |-> IF k = 0 THEN << >> ELSE F[k - 1] \o seqs[k]]

\* F has the values of Joined for the first n sequences
Joins(F, n, seqs) ==
    /\ DOMAIN F = 0 .. n
    /\ F[0] = << >>
    /\ \A k \in 1 .. n : F[k] = F[k - 1] \o seqs[k]

LEMMA JoinExists ==
  ASSUME NEW seqs, NEW n \in Nat
  PROVE  \E F : Joins(F, n, seqs)
<1> DEFINE T == {k \in Nat : \E F : Joins(F, k, seqs)}
<1>1. 0 \in T
  <2>1. Joins([k \in 0 .. 0 |-> << >>], 0, seqs)
    BY DEF Joins
  <2>2. QED
    BY <2>1
<1>2. ASSUME NEW k \in T PROVE k + 1 \in T
  <2>1. PICK F : Joins(F, k, seqs)
    OBVIOUS
  <2> DEFINE G == [j \in 0 .. k + 1 |-> IF j <= k THEN F[j] ELSE F[k] \o seqs[k + 1]]
  <2>2. Joins(G, k + 1, seqs)
    <3>1. DOMAIN G = 0 .. k + 1 /\ G[0] = << >>
      BY <2>1 DEF Joins
    <3>2. ASSUME NEW j \in 1 .. k + 1 PROVE G[j] = G[j - 1] \o seqs[j]
      <4>1. CASE j <= k
        <5>1. j \in 1 .. k /\ G[j] = F[j] /\ G[j - 1] = F[j - 1]
          BY <4>1
        <5>2. QED
          BY <5>1, <2>1 DEF Joins
      <4>2. CASE j = k + 1
        BY <4>2
      <4>3. QED
        BY <4>1, <4>2
    <3>3. QED
      BY <3>1, <3>2 DEF Joins
  <2>3. QED
    BY <2>2
<1>3. T = Nat
  <2> HIDE DEF T
  <2>1. T \subseteq Nat
    BY DEF T
  <2>2. QED
    BY <1>1, <1>2, <2>1, AllNumbers
<1>4. QED
  BY <1>3

LEMMA JoinedIsJoin ==
  ASSUME NEW X, NEW seqs \in Seq(X)
  PROVE  \E F : Joins(F, Len(seqs), seqs) /\ Joined(seqs) = F[Len(seqs)]
<1>1. Len(seqs) \in Nat
  OBVIOUS
<1>2. PICK F0 : Joins(F0, Len(seqs), seqs)
  BY <1>1, JoinExists
<1>3. DOMAIN F0 = 0 .. Len(seqs) /\ \A k \in 0 .. Len(seqs) : F0[k] = JoinedStep(F0, seqs)[k]
  <2>1. ASSUME NEW k \in 1 .. Len(seqs) PROVE F0[k] = JoinedStep(F0, seqs)[k]
    <3>1. F0[k] = F0[k - 1] \o seqs[k]
      BY <1>2 DEF Joins
    <3>2. k \in 0 .. Len(seqs) /\ k # 0
      OBVIOUS
    <3>3. QED
      BY <3>1, <3>2 DEF JoinedStep
  <2>2. F0[0] = JoinedStep(F0, seqs)[0] /\ DOMAIN F0 = 0 .. Len(seqs)
    BY <1>1, <1>2 DEF Joins, JoinedStep
  <2>3. \A k \in 0 .. Len(seqs) : k = 0 \/ k \in 1 .. Len(seqs)
    BY <1>1
  <2>4. QED
    BY <2>1, <2>2, <2>3
<1> DEFINE G0 == [k \in 0 .. Len(seqs) |-> F0[k]]
<1>4. G0 = JoinedStep(G0, seqs)
  <2>1. \A k \in 0 .. Len(seqs) : JoinedStep(G0, seqs)[k] = JoinedStep(F0, seqs)[k]
    BY DEF JoinedStep
  <2>2. \A k \in 0 .. Len(seqs) : G0[k] = JoinedStep(G0, seqs)[k]
    BY <1>3, <2>1
  <2>3. QED
    BY <2>2 DEF JoinedStep
<1> HIDE DEF G0
<1> DEFINE G == CHOOSE F : F = JoinedStep(F, seqs)
<1>5. \E F : F = JoinedStep(F, seqs)
  BY <1>4
<1>6. G = JoinedStep(G, seqs)
  BY <1>5
<1>7. Joined(seqs) = G[Len(seqs)]
  BY Zenon DEF Joined, JoinedStep
<1> HIDE DEF G
<1>8. Joins(G, Len(seqs), seqs)
  <2>1. \A k \in 0 .. Len(seqs) : G[k] = JoinedStep(G, seqs)[k]
    BY <1>6
  <2>2. DOMAIN G = 0 .. Len(seqs)
    BY <1>6, Zenon DEF JoinedStep
  <2>3. G[0] = << >>
    BY <2>1, <1>1 DEF JoinedStep
  <2>4. ASSUME NEW k \in 1 .. Len(seqs) PROVE G[k] = G[k - 1] \o seqs[k]
    <3>1. k \in 0 .. Len(seqs) /\ k # 0
      OBVIOUS
    <3>2. QED
      BY <2>1, <3>1 DEF JoinedStep
  <2>5. QED
    BY <2>2, <2>3, <2>4 DEF Joins
<1>9. QED
  BY <1>7, <1>8

\* t are the first n sequences; the k-th begins after place o[k - 1]
Laid(o, t, n, seqs) ==
    /\ o[0] = 0 /\ Len(t) = o[n]
    /\ \A k \in 0 .. n : o[k] \in Nat
    /\ \A k \in 1 .. n : o[k] = o[k - 1] + Len(seqs[k])
    /\ \A k \in 1 .. n : \A i \in 1 .. Len(seqs[k]) :
          o[k - 1] + i \in 1 .. Len(t) /\ t[o[k - 1] + i] = seqs[k][i]
    /\ \A j \in 1 .. Len(t) : \E k \in 1 .. n : \E i \in 1 .. Len(seqs[k]) :
          j = o[k - 1] + i /\ t[j] = seqs[k][i]

(* One more sequence goes to the end.                                      *)
LEMMA LaidStep ==
  ASSUME NEW X, NEW seqs \in Seq(Seq(X)), NEW n \in 0 .. Len(seqs) - 1,
         NEW o, NEW t \in Seq(X), Laid(o, t, n, seqs), NEW u,
         u = t \o seqs[n + 1], o[n + 1] = Len(u)
  PROVE  u \in Seq(X) /\ Laid(o, u, n + 1, seqs)
<1> DEFINE m == n + 1
<1>1. n \in Nat /\ m \in 1 .. Len(seqs) /\ seqs[m] \in Seq(X) /\ Len(t) \in Nat
      /\ Len(seqs[m]) \in Nat
  OBVIOUS
<1>2. /\ u \in Seq(X) /\ Len(u) = Len(t) + Len(seqs[m])
      /\ \A i \in 1 .. Len(t) : u[i] = t[i]
      /\ \A i \in 1 .. Len(seqs[m]) : u[Len(t) + i] = seqs[m][i]
  BY <1>1
<1>3. /\ o[0] = 0 /\ Len(t) = o[n] /\ o[m] = o[n] + Len(seqs[m])
      /\ \A k \in 0 .. n : o[k] \in Nat
      /\ \A k \in 1 .. n : o[k] = o[k - 1] + Len(seqs[k])
  BY <1>2 DEF Laid
<1>4. \A k \in 0 .. m : k \in 0 .. n \/ k = m
  BY <1>1
<1>5. \A k \in 1 .. m : k \in 1 .. n \/ k = m
  BY <1>1
<1>6. m - 1 = n /\ m \in Nat
  BY <1>1
<1> HIDE DEF m
<1>7. \A k \in 0 .. m : o[k] \in Nat
  <2>1. o[n] \in Nat /\ Len(seqs[m]) \in Nat
    BY <1>1, <1>3
  <2>2. o[m] \in Nat
    BY <1>3, <2>1
  <2>3. QED
    BY <1>3, <1>4, <2>2
<1>8. \A k \in 1 .. m : o[k] = o[k - 1] + Len(seqs[k])
  BY <1>3, <1>5, <1>6
<1>9. ASSUME NEW k \in 1 .. m, NEW i \in 1 .. Len(seqs[k])
      PROVE  o[k - 1] + i \in 1 .. Len(u) /\ u[o[k - 1] + i] = seqs[k][i]
  <2>1. CASE k = m
    BY <1>1, <1>2, <1>3, <1>6, <2>1
  <2>2. CASE k \in 1 .. n
    <3>1. o[k - 1] + i \in 1 .. Len(t) /\ t[o[k - 1] + i] = seqs[k][i]
      BY <2>2 DEF Laid
    <3>2. QED
      BY <1>1, <1>2, <3>1
  <2>3. QED
    BY <1>5, <2>1, <2>2
<1>10. ASSUME NEW j \in 1 .. Len(u)
       PROVE  \E k \in 1 .. m : \E i \in 1 .. Len(seqs[k]) :
                 j = o[k - 1] + i /\ u[j] = seqs[k][i]
  <2>1. CASE j \in 1 .. Len(t)
    <3>1. PICK k \in 1 .. n : \E i \in 1 .. Len(seqs[k]) : j = o[k - 1] + i /\ t[j] = seqs[k][i]
      BY <2>1 DEF Laid
    <3>2. k \in 1 .. m /\ u[j] = t[j]
      BY <1>2, <1>6, <2>1
    <3>3. QED
      BY <3>1, <3>2
  <2>2. CASE j \notin 1 .. Len(t)
    <3>1. j - Len(t) \in 1 .. Len(seqs[m]) /\ j = o[m - 1] + (j - Len(t))
      BY <1>1, <1>2, <1>3, <1>6, <2>2
    <3>2. u[Len(t) + (j - Len(t))] = seqs[m][j - Len(t)]
      BY <1>2, <3>1
    <3>3. Len(t) + (j - Len(t)) = j
      BY <1>1
    <3>4. m \in 1 .. m
      BY <1>1, <1>6
    <3>5. QED
      BY <3>1, <3>2, <3>3, <3>4
  <2>3. QED
    BY <2>1, <2>2
<1>11. o[0] = 0 /\ Len(u) = o[m]
  BY <1>2, <1>3
<1>12. Laid(o, u, m, seqs)
  BY <1>7, <1>8, <1>9, <1>10, <1>11 DEF Laid
<1>13. QED
  BY <1>2, <1>12 DEF m

LEMMA JoinedShape ==
  ASSUME NEW X, NEW seqs \in Seq(Seq(X))
  PROVE  /\ Joined(seqs) \in Seq(X)
         /\ \E o : Laid(o, Joined(seqs), Len(seqs), seqs)
<1>1. PICK F : Joins(F, Len(seqs), seqs) /\ Joined(seqs) = F[Len(seqs)]
  BY JoinedIsJoin
<1> DEFINE o == [k \in 0 .. Len(seqs) |-> Len(F[k])]
           T == {n \in Nat : n <= Len(seqs) => F[n] \in Seq(X) /\ Laid(o, F[n], n, seqs)}
<1>2. Len(seqs) \in Nat
  OBVIOUS
<1>3. 0 \in T
  <2>1. F[0] = << >> /\ o[0] = 0
    BY <1>1, <1>2 DEF Joins
  <2> HIDE DEF o
  <2>2. F[0] \in Seq(X) /\ Laid(o, F[0], 0, seqs)
    BY <2>1 DEF Laid
  <2>3. QED
    BY <2>2
<1>4. ASSUME NEW n \in T PROVE n + 1 \in T
  <2>1. SUFFICES ASSUME n + 1 <= Len(seqs)
                 PROVE  F[n + 1] \in Seq(X) /\ Laid(o, F[n + 1], n + 1, seqs)
    OBVIOUS
  <2>2. n \in 0 .. Len(seqs) - 1 /\ F[n] \in Seq(X) /\ Laid(o, F[n], n, seqs)
    BY <1>2, <2>1
  <2>3. F[n + 1] = F[n] \o seqs[n + 1]
    <3>1. PICK m \in 1 .. Len(seqs) : m = n + 1 /\ m - 1 = n
      BY <2>2
    <3>2. \A k \in 1 .. Len(seqs) : F[k] = F[k - 1] \o seqs[k]
      BY <1>1, Zenon DEF Joins
    <3>3. F[m] = F[m - 1] \o seqs[m]
      BY <3>2, Zenon
    <3>4. QED
      BY <3>1, <3>3, Zenon
  <2>4. o[n + 1] = Len(F[n + 1])
    BY <2>2
  <2> HIDE DEF o, T
  <2>5. QED
    BY <2>2, <2>3, <2>4, LaidStep
<1>5. T = Nat
  <2> HIDE DEF T
  <2>1. T \subseteq Nat
    BY DEF T
  <2>2. QED
    BY <1>3, <1>4, <2>1, AllNumbers
<1>6. F[Len(seqs)] \in Seq(X) /\ Laid(o, F[Len(seqs)], Len(seqs), seqs)
  <2>1. Len(seqs) \in T
    <3> HIDE DEF T
    <3>1. QED
      BY <1>2, <1>5
  <2>2. QED
    BY <2>1
<1>7. QED
  <2> HIDE DEF o
  <2>1. QED
    BY <1>1, <1>6

(* A set of places that has with each place all before it is an interval,  *)
(* as long as it has members.                                              *)
LEMMA FrontCounts ==
  ASSUME NEW N \in Nat, NEW D \in SUBSET (1 .. N),
         \A i, j \in 1 .. N : i < j /\ j \in D => i \in D
  PROVE  /\ Cardinality(D) \in 0 .. N
         /\ \A i \in 1 .. N : i \in D <=> i <= Cardinality(D)
<1>1. CASE D = {}
  BY <1>1, FS_EmptySet
<1>2. CASE D # {}
  <2> DEFINE T == {x \in Nat : \E i \in D : x = N - i}
  <2>1. T \in SUBSET Nat
    OBVIOUS
  <2>2. T # {}
    <3>1. PICK i \in D : TRUE
      BY <1>2
    <3>2. N - i \in Nat
      OBVIOUS
    <3>3. N - i \in T
      BY <3>2
    <3>4. QED
      BY <3>3
  <2>3. PICK m \in T : \A k \in T : m <= k
    <3> HIDE DEF T
    <3>1. QED
      BY <2>1, <2>2, SmallestIn
  <2>4. PICK i \in D : m = N - i
    BY <2>3
  <2>5. i \in 1 .. N
    OBVIOUS
  <2>6. ASSUME NEW k \in D PROVE k <= i
    <3>1. k \in 1 .. N /\ N - k \in Nat
      OBVIOUS
    <3>2. N - k \in T
      BY <3>1
    <3>3. m <= N - k
      BY <2>3, <3>2
    <3> HIDE DEF T
    <3>4. QED
      BY <2>4, <2>5, <3>1, <3>3
  <2> HIDE DEF T
  <2>7. \A k : k \in D => k \in 1 .. i
    BY <2>5, <2>6
  <2>8. \A k \in 1 .. i : k \in D
    BY <2>5
  <2>9. D = 1 .. i
    BY <2>7, <2>8
  <2>10. Cardinality(1 .. i) = i
    <3>1. 1 <= i => i - 1 + 1 = i
      BY <2>5
    <3>2. QED
      BY <2>5, <3>1, FS_Interval
  <2>11. QED
    BY <2>5, <2>9, <2>10
<1>3. QED
  BY <1>1, <1>2

-----------------------------------------------------------------------------
(* The invariant of JqEvents *)

EventCall == NativeCall \cup TriggerCall \cup DispatchCall

\* a call of click() by a script
ScriptClick(a) == a.kind = "native" /\ a.script

\* a is called by b
Above(a, b) ==
    \/ /\ ScriptClick(a)
       /\ \/ b.kind = "dispatch" /\ b.at = "browser" /\ b.node = a.target
          \/ b.kind = "trigger" /\ b.at = "default" /\ b.target = a.target
          \/ b.kind = "dispatch" /\ b.at = "call"
    \/ a.kind = "dispatch" /\ a.native /\ b.kind = "native" /\ b.g = a.g
    \/ a.kind = "dispatch" /\ ~ a.native /\ b.kind = "trigger" /\ b.at = "path" /\ b.g = a.g
    \/ a.kind = "trigger" /\ b.kind = "dispatch" /\ b.at \in {"call", "refired"}

\* b waits in the controller for a click on n
Awaits(b, n) == b.kind = "dispatch" /\ b.at = "browser" /\ b.node = n /\ ~ b.native

\* ... and one of the calls from place i on does
Awaited(st, n, i) == \E j \in i .. Len(st) : Awaits(st[j], n)

\* each call was made by the one below, and a controller that a click has reached is waited for
Nested(st) ==
    /\ \A k \in 1 .. Len(st) - 1 : Above(st[k], st[k + 1])
    /\ st # << >> => st[Len(st)].kind # "dispatch"
    /\ \A k \in 1 .. Len(st) : st[k].at = "refired" => Awaited(st, st[k].node, k + 1)

\* the elements whose click() is under way
Clicks(st, cl) ==
    /\ \A n \in Nodes : n \in cl <=> \E k \in 1 .. Len(st) : ScriptClick(st[k]) /\ st[k].target = n
    /\ \A i, j \in 1 .. Len(st) :
          ScriptClick(st[i]) /\ ScriptClick(st[j]) /\ st[i].target = st[j].target => i = j

\* the listeners are silent exactly during a default action, when nobody is called
Defaults(st, tr) ==
    /\ tr <=> \E k \in 1 .. Len(st) : st[k].at = "default"
    /\ \A k \in 1 .. Len(st) : st[k].at = "default" => k <= 2

\* what the stack says of itself, of the clicks under way and of jQuery.event.triggered
Shaped(st, cl, tr) == Nested(st) /\ Clicks(st, cl) /\ Defaults(st, tr)

\* what is kept of a click is awaited
Kept(st, sv) ==
    \A n \in Nodes :
        sv[n] \in {Undefined, False}
        \/ \E j \in 1 .. Len(st) : Awaits(st[j], n) /\ (sv[n].what = "args" => st[j].g = sv[n].g)

-----------------------------------------------------------------------------
(* The stack *)

\* the same call, at another place in it
SameCall(a, b) ==
    /\ a.kind = b.kind /\ a.g = b.g
    /\ a.kind \in {"native", "trigger"} => a.target = b.target
    /\ a.kind = "native" => a.script = b.script
    /\ a.kind = "dispatch" => a.node = b.node /\ a.native = b.native

\* only the innermost call goes to another place
Reshaped(st, u) ==
    /\ u \in Seq(EventCall) /\ Len(u) = Len(st)
    /\ \A k \in 1 .. Len(st) : SameCall(u[k], st[k])
    /\ \A k \in 2 .. Len(st) : u[k].at = st[k].at

LEMMA CallParts ==
  ASSUME NEW a \in EventCall
  PROVE  /\ a.kind \in {"native", "trigger", "dispatch"} /\ a.g \in Gesture
         /\ a.kind = "native" => a \in NativeCall /\ a.at = "path" /\ a.target \in Nodes
                                 /\ a.script \in BOOLEAN /\ a.path \in Seq(Nodes) /\ a.flags \in StopFlags
         /\ a.kind = "trigger" => a \in TriggerCall /\ a.at \in {"path", "default"}
                                  /\ a.target \in Nodes /\ a.path \in Seq(Nodes)
         /\ a.kind = "dispatch" => /\ a \in DispatchCall /\ a.node \in Nodes
                                   /\ a.at \in {"next", "call", "browser", "refired"}
                                   /\ a.native \in BOOLEAN /\ a.queue \in Seq(Match)
                                   /\ a.elem \in Nodes \cup {Nil} /\ a.flags \in StopFlags
  BY DEF EventCall, NativeCall, TriggerCall, DispatchCall

\* above a default action there is at most the browser
LEMMA NoDefault ==
  ASSUME NEW st \in Seq(EventCall), Nested(st), NEW tr \in BOOLEAN, Defaults(st, tr),
         st # << >>, st[1].at # "default", st[1].kind # "native"
  PROVE  ~ tr /\ \A k \in 1 .. Len(st) : st[k].at # "default"
<1>1. \A k \in 1 .. Len(st) : st[k] \in EventCall
  OBVIOUS
<1>2. ASSUME NEW k \in 1 .. Len(st), st[k].at = "default" PROVE FALSE
  <2>1. k = 2
    BY <1>2 DEF Defaults
  <2>2. 1 \in 1 .. Len(st) - 1 /\ 1 + 1 = 2
    BY <2>1
  <2>3. Above(st[1], st[2])
    BY <2>2 DEF Nested
  <2>4. st[2].kind = "trigger"
    BY <1>1, <1>2, <2>1, CallParts
  <2>5. QED
    BY <1>2, <2>1, <2>3, <2>4 DEF Above, ScriptClick
<1>3. QED
  BY <1>2 DEF Defaults

LEMMA Reshape ==
  ASSUME NEW st \in Seq(EventCall), NEW cl, NEW tr \in BOOLEAN, Shaped(st, cl, tr),
         NEW u, Reshaped(st, u), st # << >>, st[1].at # "default",
         u[1].at = "refired" => Awaited(st, u[1].node, 2)
  PROVE  Shaped(u, cl, IF u[1].kind = "native" THEN tr ELSE u[1].at = "default")
<1>1. /\ \A k \in 1 .. Len(st) : st[k] \in EventCall /\ u[k] \in EventCall
      /\ Len(st) \in Nat /\ Len(u) = Len(st) /\ 1 \in 1 .. Len(st)
  BY DEF Reshaped
<1>2. /\ \A k \in 1 .. Len(st) : SameCall(u[k], st[k])
      /\ \A k \in 2 .. Len(st) : u[k].at = st[k].at
  BY DEF Reshaped
<1>3. \A k \in 1 .. Len(st) : ScriptClick(u[k]) <=> ScriptClick(st[k])
  BY <1>2 DEF SameCall, ScriptClick
<1>4. \A k \in 1 .. Len(st) : ScriptClick(u[k]) => u[k].target = st[k].target
  BY <1>2 DEF SameCall, ScriptClick
<1>5. \A n, i : i > 1 /\ Awaited(st, n, i) /\ i \in Int => Awaited(u, n, i)
  BY <1>1, <1>2 DEF Awaited, Awaits, SameCall
<1>6. Nested(u)
  <2>1. ASSUME NEW k \in 1 .. Len(u) - 1 PROVE Above(u[k], u[k + 1])
    <3>1. k \in 1 .. Len(st) - 1 /\ k \in 1 .. Len(st) /\ k + 1 \in 2 .. Len(st) /\ k + 1 \in 1 .. Len(st)
      BY <1>1
    <3>2. Above(st[k], st[k + 1])
      BY <3>1 DEF Shaped, Nested
    <3>3. SameCall(u[k], st[k]) /\ SameCall(u[k + 1], st[k + 1]) /\ u[k + 1].at = st[k + 1].at
      BY <1>2, <3>1
    <3>4. QED
      BY <3>2, <3>3 DEF Above, SameCall, ScriptClick
  <2>2. u[Len(u)].kind # "dispatch"
    BY <1>1, <1>2 DEF Shaped, Nested, SameCall
  <2>3. ASSUME NEW k \in 1 .. Len(u), u[k].at = "refired"
        PROVE  Awaited(u, u[k].node, k + 1)
    <3>1. k \in 1 .. Len(st) /\ u[k].kind = "dispatch" /\ u[k].node = st[k].node
      BY <1>1, <1>2, <2>3, CallParts DEF SameCall
    <3>2. Awaited(st, u[k].node, k + 1)
      <4>1. CASE k = 1
        BY <2>3, <4>1
      <4>2. CASE k # 1
        <5>1. k \in 2 .. Len(st)
          BY <3>1, <4>2
        <5>2. QED
          BY <1>2, <2>3, <3>1, <5>1 DEF Shaped, Nested
      <4>3. QED
        BY <4>1, <4>2
    <3>3. k + 1 > 1 /\ k + 1 \in Int
      OBVIOUS
    <3>4. QED
      BY <1>5, <3>2, <3>3
  <2>4. QED
    BY <2>1, <2>2, <2>3 DEF Nested
<1>7. Clicks(u, cl)
  BY <1>1, <1>3, <1>4 DEF Shaped, Clicks
<1>8. CASE u[1].kind = "native"
  <2>1. u[1].at = "path" /\ st[1].at = "path"
    BY <1>1, <1>2, <1>8, CallParts DEF SameCall
  <2>2. \A k \in 1 .. Len(st) : u[k].at = st[k].at
    <3>1. \A k \in 1 .. Len(st) : k = 1 \/ k \in 2 .. Len(st)
      BY <1>1
    <3>2. QED
      BY <1>2, <2>1, <3>1
  <2>3. Defaults(u, tr)
    BY <1>1, <2>2 DEF Shaped, Defaults
  <2>4. QED
    BY <1>6, <1>7, <1>8, <2>3 DEF Shaped
<1>9. CASE u[1].kind # "native"
  <2>1. st[1].kind # "native"
    BY <1>1, <1>2, <1>9 DEF SameCall
  <2>2. \A k \in 1 .. Len(st) : st[k].at # "default"
    BY <2>1, NoDefault DEF Shaped
  <2>3. \A k \in 1 .. Len(st) : u[k].at = "default" => k = 1
    BY <1>1, <1>2, <2>2
  <2>4. Defaults(u, u[1].at = "default")
    BY <1>1, <2>3 DEF Defaults
  <2>5. QED
    BY <1>6, <1>7, <1>9, <2>4 DEF Shaped
<1>10. QED
  BY <1>8, <1>9

\* one call more
Over(st, a, u) ==
    /\ u \in Seq(EventCall) /\ Len(u) = Len(st) + 1 /\ u[1] = a
    /\ \A k \in 1 .. Len(st) : u[k + 1] = st[k]

LEMMA OverIs ==
  ASSUME NEW st \in Seq(EventCall), NEW a \in EventCall
  PROVE  Over(st, a, << a >> \o st)
<1>1. /\ << a >> \in Seq(EventCall) /\ Len(<< a >>) = 1 /\ << a >>[1] = a
  OBVIOUS
<1>2. QED
  BY <1>1 DEF Over

LEMMA Push ==
  ASSUME NEW st \in Seq(EventCall), NEW cl, NEW tr \in BOOLEAN, Shaped(st, cl, tr),
         NEW a \in EventCall, NEW u, Over(st, a, u),
         a.at \in {"path", "next"}, a.kind = "dispatch" => st # << >>,
         st # << >> => Above(a, st[1]),
         tr => st[1].at = "default",
         ScriptClick(a) => a.target \notin cl,
         NEW cm, cm = IF ScriptClick(a) THEN cl \cup {a.target} ELSE cl
  PROVE  Shaped(u, cm, tr)
<1>1. /\ \A k \in 1 .. Len(st) : st[k] \in EventCall
      /\ \A k \in 1 .. Len(u) : u[k] \in EventCall
      /\ Len(st) \in Nat /\ Len(u) = Len(st) + 1 /\ u[1] = a
      /\ \A k \in 1 .. Len(st) : u[k + 1] = st[k]
  BY DEF Over
<1>2. \A k \in 1 .. Len(u) : k = 1 \/ (k - 1 \in 1 .. Len(st) /\ u[k] = st[k - 1])
  BY <1>1
<1>3. Nested(u)
  <2>1. ASSUME NEW k \in 1 .. Len(u) - 1 PROVE Above(u[k], u[k + 1])
    <3>1. CASE k = 1
      <4>1. 1 \in 1 .. Len(st) /\ u[1 + 1] = st[1] /\ st # << >>
        BY <1>1, <3>1
      <4>2. QED
        BY <1>1, <3>1, <4>1
    <3>2. CASE k # 1
      <4>1. k - 1 \in 1 .. Len(st) - 1 /\ u[k] = st[k - 1] /\ u[k + 1] = st[k] /\ (k - 1) + 1 = k
        BY <1>1, <1>2, <3>2
      <4>2. Above(st[k - 1], st[(k - 1) + 1])
        BY <4>1 DEF Shaped, Nested
      <4>3. QED
        BY <4>1, <4>2
    <3>3. QED
      BY <3>1, <3>2
  <2>2. u[Len(u)].kind # "dispatch"
    <3>1. CASE st = << >>
      BY <1>1, <3>1
    <3>2. CASE st # << >>
      BY <1>1, <3>2 DEF Shaped, Nested
    <3>3. QED
      BY <3>1, <3>2
  <2>3. ASSUME NEW k \in 1 .. Len(u), u[k].at = "refired"
        PROVE  Awaited(u, u[k].node, k + 1)
    <3>1. k # 1
      BY <1>1, <2>3
    <3>2. k - 1 \in 1 .. Len(st) /\ u[k] = st[k - 1]
      BY <1>2, <3>1
    <3>3. Awaited(st, u[k].node, (k - 1) + 1)
      BY <2>3, <3>2 DEF Shaped, Nested
    <3>4. PICK j \in (k - 1) + 1 .. Len(st) : Awaits(st[j], u[k].node)
      BY <3>3 DEF Awaited
    <3>5. j \in 1 .. Len(st) /\ j + 1 \in k + 1 .. Len(u) /\ u[j + 1] = st[j]
      BY <1>1, <3>2, <3>4
    <3>6. QED
      BY <3>4, <3>5 DEF Awaited
  <2>4. QED
    BY <2>1, <2>2, <2>3 DEF Nested
<1>4. Clicks(u, cm)
  <2>1. ASSUME NEW n \in Nodes
        PROVE  n \in cm <=> \E k \in 1 .. Len(u) : ScriptClick(u[k]) /\ u[k].target = n
    <3>1. (\E k \in 1 .. Len(u) : ScriptClick(u[k]) /\ u[k].target = n)
            <=> (ScriptClick(a) /\ a.target = n)
                \/ (\E k \in 1 .. Len(st) : ScriptClick(st[k]) /\ st[k].target = n)
      <4>1. ASSUME NEW k \in 1 .. Len(u), ScriptClick(u[k]), u[k].target = n
            PROVE  (ScriptClick(a) /\ a.target = n)
                   \/ (\E i \in 1 .. Len(st) : ScriptClick(st[i]) /\ st[i].target = n)
        BY <1>1, <1>2, <4>1
      <4>2. ASSUME NEW k \in 1 .. Len(st), ScriptClick(st[k]), st[k].target = n
            PROVE  \E i \in 1 .. Len(u) : ScriptClick(u[i]) /\ u[i].target = n
        <5>1. k + 1 \in 1 .. Len(u) /\ u[k + 1] = st[k]
          BY <1>1
        <5>2. QED
          BY <4>2, <5>1
      <4>3. 1 \in 1 .. Len(u)
        BY <1>1
      <4>4. QED
        BY <1>1, <4>1, <4>2, <4>3
    <3>2. n \in cl <=> \E k \in 1 .. Len(st) : ScriptClick(st[k]) /\ st[k].target = n
      BY DEF Shaped, Clicks
    <3>3. QED
      BY <3>1, <3>2
  <2>2. ASSUME NEW i \in 1 .. Len(u), NEW j \in 1 .. Len(u), ScriptClick(u[i]), ScriptClick(u[j]),
               u[i].target = u[j].target
        PROVE  i = j
    <3>1. ASSUME NEW k \in 1 .. Len(st), ScriptClick(st[k]), ScriptClick(a) PROVE a.target # st[k].target
      <4>1. st[k].target \in Nodes
        BY <1>1, <3>1, CallParts DEF ScriptClick
      <4>2. st[k].target \in cl
        BY <3>1, <4>1 DEF Shaped, Clicks
      <4>3. QED
        BY <3>1, <4>2
    <3>2. CASE i = 1 \/ j = 1
      BY <1>1, <1>2, <2>2, <3>1, <3>2
    <3>3. CASE i # 1 /\ j # 1
      <4>1. i - 1 \in 1 .. Len(st) /\ j - 1 \in 1 .. Len(st) /\ u[i] = st[i - 1] /\ u[j] = st[j - 1]
        BY <1>2, <3>3
      <4>2. i - 1 = j - 1
        BY <2>2, <4>1 DEF Shaped, Clicks
      <4>3. QED
        BY <4>2
    <3>4. QED
      BY <3>2, <3>3
  <2>3. QED
    BY <2>1, <2>2 DEF Clicks
<1>5. Defaults(u, tr)
  <2>1. ASSUME NEW k \in 1 .. Len(u), u[k].at = "default" PROVE tr /\ k <= 2
    <3>1. k - 1 \in 1 .. Len(st) /\ st[k - 1].at = "default"
      BY <1>1, <1>2, <2>1
    <3>2. tr
      BY <3>1 DEF Shaped, Defaults
    <3>3. st[1].at = "default" /\ st # << >>
      BY <1>1, <3>1, <3>2
    <3>4. CASE k - 1 = 1
      BY <3>2, <3>4
    <3>5. CASE k - 1 # 1
      <4>1. k - 1 = 2 /\ 1 \in 1 .. Len(st) - 1 /\ 1 + 1 = 2
        BY <1>1, <3>1, <3>5 DEF Shaped, Defaults
      <4>2. Above(st[1], st[2]) /\ st[2].at = "default"
        BY <3>1, <4>1 DEF Shaped, Nested
      <4>3. st[1] \in EventCall /\ st[2] \in EventCall
        BY <1>1, <3>1, <3>3, <4>1
      <4>4. st[1].kind = "trigger" /\ st[2].kind = "trigger"
        BY <3>3, <4>2, <4>3, CallParts
      <4>5. QED
        BY <4>2, <4>4 DEF Above, ScriptClick
    <3>6. QED
      BY <3>4, <3>5
  <2>2. ASSUME tr PROVE \E k \in 1 .. Len(u) : u[k].at = "default"
    <3>1. PICK k \in 1 .. Len(st) : st[k].at = "default"
      BY <2>2 DEF Shaped, Defaults
    <3>2. k + 1 \in 1 .. Len(u) /\ u[k + 1] = st[k]
      BY <1>1
    <3>3. QED
      BY <3>1, <3>2
  <2>3. QED
    BY <2>1, <2>2 DEF Defaults
<1>6. QED
  BY <1>3, <1>4, <1>5 DEF Shaped

\* the innermost calls are over, those before place k
Dropped(st, k, u) ==
    /\ u \in Seq(EventCall) /\ Len(u) = Len(st) - (k - 1)
    /\ \A j \in 1 .. Len(u) : u[j] = st[j + (k - 1)]

LEMMA OneDefault ==
  ASSUME NEW st \in Seq(EventCall), Nested(st), NEW tr, Defaults(st, tr),
         NEW k \in 2 .. Len(st), st[k].at = "default"
  PROVE  st[1].at # "default"
<1>1. k = 2 /\ 1 \in 1 .. Len(st) - 1 /\ 1 + 1 = 2 /\ 1 \in 1 .. Len(st) /\ 2 \in 1 .. Len(st)
  BY DEF Defaults
<1>2. Above(st[1], st[2]) /\ st[2].at = "default"
  BY <1>1 DEF Nested
<1>3. st[1] \in EventCall /\ st[2] \in EventCall
  BY <1>1
<1>4. ASSUME st[1].at = "default" PROVE FALSE
  <2>1. st[1].kind = "trigger" /\ st[2].kind = "trigger"
    BY <1>2, <1>3, <1>4, CallParts
  <2>2. QED
    BY <1>2, <2>1 DEF Above, ScriptClick
<1>5. QED
  BY <1>4

LEMMA Drop ==
  ASSUME NEW st \in Seq(EventCall), NEW cl, NEW tr \in BOOLEAN, Shaped(st, cl, tr),
         NEW k \in 2 .. Len(st) + 1, NEW u, Dropped(st, k, u), st # << >>,
         \A j \in 2 .. k - 1 : ~ ScriptClick(st[j]) /\ st[j].at # "default",
         NEW cm, cm = IF ScriptClick(st[1]) THEN cl \ {st[1].target} ELSE cl,
         NEW tm, tm = IF st[1].at = "default" THEN FALSE ELSE tr
  PROVE  Shaped(u, cm, tm)
<1>1. /\ \A j \in 1 .. Len(st) : st[j] \in EventCall
      /\ Len(st) \in Nat /\ Len(u) = Len(st) - (k - 1) /\ Len(u) \in Nat /\ Len(st) > 0
      /\ \A j \in 1 .. Len(u) : u[j] = st[j + (k - 1)]
  BY DEF Dropped
<1>2. \A j \in k .. Len(st) : j - (k - 1) \in 1 .. Len(u) /\ u[j - (k - 1)] = st[j]
  <2>1. ASSUME NEW j \in k .. Len(st) PROVE j - (k - 1) \in 1 .. Len(u) /\ u[j - (k - 1)] = st[j]
    <3>1. j - (k - 1) \in 1 .. Len(u) /\ (j - (k - 1)) + (k - 1) = j
      BY <1>1
    <3>2. QED
      BY <1>1, <3>1
  <2>2. QED
    BY <2>1
<1>3. Nested(u)
  <2>1. ASSUME NEW j \in 1 .. Len(u) - 1 PROVE Above(u[j], u[j + 1])
    <3>1. j + (k - 1) \in 1 .. Len(st) - 1 /\ j \in 1 .. Len(u) /\ j + 1 \in 1 .. Len(u)
          /\ (j + 1) + (k - 1) = (j + (k - 1)) + 1
      BY <1>1
    <3>2. Above(st[j + (k - 1)], st[(j + (k - 1)) + 1])
      BY <3>1 DEF Shaped, Nested
    <3>3. u[j] = st[j + (k - 1)] /\ u[j + 1] = st[(j + (k - 1)) + 1]
      BY <1>1, <3>1
    <3>4. QED
      BY <3>2, <3>3
  <2>2. ASSUME u # << >> PROVE u[Len(u)].kind # "dispatch"
    <3>1. Len(u) \in 1 .. Len(u) /\ Len(u) + (k - 1) = Len(st)
      BY <1>1, <2>2 DEF Dropped
    <3>2. u[Len(u)] = st[Len(st)]
      BY <1>1, <3>1
    <3>3. QED
      BY <3>2 DEF Shaped, Nested
  <2>3. ASSUME NEW j \in 1 .. Len(u), u[j].at = "refired"
        PROVE  Awaited(u, u[j].node, j + 1)
    <3>1. j + (k - 1) \in 1 .. Len(st) /\ u[j] = st[j + (k - 1)]
      BY <1>1
    <3>2. Awaited(st, u[j].node, (j + (k - 1)) + 1)
      BY <2>3, <3>1 DEF Shaped, Nested
    <3>3. PICK i \in (j + (k - 1)) + 1 .. Len(st) : Awaits(st[i], u[j].node)
      BY <3>2 DEF Awaited
    <3>4. i \in k .. Len(st) /\ i - (k - 1) \in j + 1 .. Len(u)
      <4>1. i \in Int /\ k \in Int /\ j \in Int /\ j >= 1 /\ i >= (j + (k - 1)) + 1 /\ i <= Len(st)
        BY <3>3
      <4>2. Len(st) \in Int /\ Len(u) = Len(st) - (k - 1)
        BY <1>1
      <4>3. QED
        BY <4>1, <4>2
    <3>5. u[i - (k - 1)] = st[i]
      BY <1>2, <3>4
    <3>6. QED
      BY <3>3, <3>4, <3>5 DEF Awaited
  <2>4. QED
    BY <2>1, <2>2, <2>3 DEF Nested
<1>4. \A j \in 1 .. Len(st) : j = 1 \/ j \in 2 .. k - 1 \/ j \in k .. Len(st)
  BY <1>1
<1>5. Clicks(u, cm)
  <2>1. ASSUME NEW n \in Nodes, n \in cm
        PROVE  \E j \in 1 .. Len(u) : ScriptClick(u[j]) /\ u[j].target = n
    <3>1. n \in cl /\ ~ (ScriptClick(st[1]) /\ st[1].target = n)
      BY <2>1
    <3>2. PICK j \in 1 .. Len(st) : ScriptClick(st[j]) /\ st[j].target = n
      BY <3>1 DEF Shaped, Clicks
    <3>3. j \in k .. Len(st)
      BY <1>4, <3>1, <3>2
    <3>4. QED
      BY <1>2, <3>2, <3>3
  <2>2. ASSUME NEW n \in Nodes, NEW j \in 1 .. Len(u), ScriptClick(u[j]), u[j].target = n
        PROVE  n \in cm
    <3>1. j + (k - 1) \in 1 .. Len(st) /\ j + (k - 1) # 1 /\ u[j] = st[j + (k - 1)] /\ 1 \in 1 .. Len(st)
      BY <1>1
    <3>2. n \in cl
      BY <2>2, <3>1 DEF Shaped, Clicks
    <3>3. ~ (ScriptClick(st[1]) /\ st[1].target = n)
      BY <2>2, <3>1 DEF Shaped, Clicks
    <3>4. QED
      BY <3>2, <3>3
  <2>3. ASSUME NEW i \in 1 .. Len(u), NEW j \in 1 .. Len(u), ScriptClick(u[i]), ScriptClick(u[j]),
               u[i].target = u[j].target
        PROVE  i = j
    <3>1. i + (k - 1) \in 1 .. Len(st) /\ j + (k - 1) \in 1 .. Len(st)
          /\ u[i] = st[i + (k - 1)] /\ u[j] = st[j + (k - 1)]
      <4>1. /\ k \in Int /\ k >= 2 /\ i \in Int /\ i >= 1 /\ i <= Len(u)
            /\ j \in Int /\ j >= 1 /\ j <= Len(u)
        BY <1>1
      <4>2. Len(st) \in Int /\ Len(u) \in Int /\ Len(u) = Len(st) - (k - 1)
        BY <1>1
      <4>3. i + (k - 1) \in 1 .. Len(st)
        BY <4>1, <4>2
      <4>4. j + (k - 1) \in 1 .. Len(st)
        BY <4>1, <4>2
      <4>5. u[i] = st[i + (k - 1)] /\ u[j] = st[j + (k - 1)]
        BY <1>1
      <4>6. QED
        BY <4>3, <4>4, <4>5
    <3>2. i + (k - 1) = j + (k - 1)
      BY <2>3, <3>1 DEF Shaped, Clicks
    <3>3. QED
      BY <3>2
  <2>4. QED
    BY <2>1, <2>2, <2>3 DEF Clicks
<1>6. Defaults(u, tm)
  <2>1. ASSUME NEW j \in 1 .. Len(u), u[j].at = "default" PROVE tm /\ j <= 2
    <3>1. j + (k - 1) \in 2 .. Len(st) /\ u[j] = st[j + (k - 1)] /\ j + (k - 1) \in 1 .. Len(st)
      <4>1. k \in Int /\ k >= 2 /\ j \in Int /\ j >= 1 /\ j <= Len(u)
        OBVIOUS
      <4>2. Len(st) \in Int /\ Len(u) = Len(st) - (k - 1)
        BY <1>1
      <4>3. j + (k - 1) \in 2 .. Len(st) /\ j + (k - 1) \in 1 .. Len(st)
        BY <4>1, <4>2
      <4>4. QED
        BY <1>1, <4>3
    <3>2. st[j + (k - 1)].at = "default"
      BY <2>1, <3>1
    <3>3. tr /\ j + (k - 1) <= 2
      BY <3>1, <3>2 DEF Shaped, Defaults
    <3>4. st[1].at # "default"
      BY <3>1, <3>2, OneDefault DEF Shaped
    <3>5. QED
      BY <3>3, <3>4
  <2>2. ASSUME tm PROVE \E j \in 1 .. Len(u) : u[j].at = "default"
    <3>1. tr /\ st[1].at # "default"
      BY <2>2
    <3>2. PICK j \in 1 .. Len(st) : st[j].at = "default"
      BY <3>1 DEF Shaped, Defaults
    <3>3. j \in k .. Len(st)
      BY <1>4, <3>1, <3>2
    <3>4. QED
      BY <1>2, <3>2, <3>3
  <2>3. tm \in BOOLEAN
    OBVIOUS
  <2>4. QED
    BY <2>1, <2>2, <2>3 DEF Defaults
<1>7. QED
  BY <1>3, <1>5, <1>6 DEF Shaped

\* what is awaited in st, of nodes whose data are the same, is awaited in u
Awaiting(st, u, n) ==
    \A j \in 1 .. Len(st) : Awaits(st[j], n) =>
        \E i \in 1 .. Len(u) : Awaits(u[i], n) /\ u[i].g = st[j].g

LEMMA Keep ==
  ASSUME NEW st, NEW sv, Kept(st, sv), NEW u, NEW sw,
         \A n \in Nodes : sw[n] \in {Undefined, False} \/ (sw[n] = sv[n] /\ Awaiting(st, u, n))
  PROVE  Kept(u, sw)
  BY DEF Kept, Awaiting

LEMMA OverAwaits ==
  ASSUME NEW st \in Seq(EventCall), NEW a, NEW u, Over(st, a, u), NEW n
  PROVE  Awaiting(st, u, n)
<1>1. ASSUME NEW j \in 1 .. Len(st), Awaits(st[j], n)
      PROVE  \E i \in 1 .. Len(u) : Awaits(u[i], n) /\ u[i].g = st[j].g
  <2>1. j + 1 \in 1 .. Len(u) /\ u[j + 1] = st[j]
    BY DEF Over
  <2>2. QED
    BY <1>1, <2>1
<1>2. QED
  BY <1>1 DEF Awaiting

LEMMA ReshapedAwaits ==
  ASSUME NEW st \in Seq(EventCall), NEW u, Reshaped(st, u), NEW n, st # << >>,
         ~ Awaits(st[1], n)
  PROVE  Awaiting(st, u, n)
<1>1. ASSUME NEW j \in 1 .. Len(st), Awaits(st[j], n)
      PROVE  Awaits(u[j], n) /\ u[j].g = st[j].g /\ j \in 1 .. Len(u)
  <2>1. j \in 2 .. Len(st) /\ j \in 1 .. Len(u)
    BY <1>1 DEF Reshaped
  <2>2. SameCall(u[j], st[j]) /\ u[j].at = st[j].at
    BY <2>1 DEF Reshaped
  <2>3. QED
    BY <1>1, <2>1, <2>2 DEF SameCall, Awaits
<1>2. QED
  BY <1>1 DEF Awaiting

LEMMA DroppedAwaits ==
  ASSUME NEW st \in Seq(EventCall), NEW k \in 2 .. Len(st) + 1, NEW u, Dropped(st, k, u), NEW n,
         \A j \in 1 .. k - 1 : ~ Awaits(st[j], n)
  PROVE  Awaiting(st, u, n)
<1>1. ASSUME NEW j \in 1 .. Len(st), Awaits(st[j], n)
      PROVE  \E i \in 1 .. Len(u) : Awaits(u[i], n) /\ u[i].g = st[j].g
  <2>1. j - (k - 1) \in 1 .. Len(u) /\ (j - (k - 1)) + (k - 1) = j
    BY <1>1 DEF Dropped
  <2>2. u[j - (k - 1)] = st[j]
    BY <2>1 DEF Dropped
  <2>3. QED
    BY <1>1, <2>1, <2>2
<1>2. QED
  BY <1>1 DEF Awaiting

-----------------------------------------------------------------------------
(* The lists of handlers *)

Entry == HandleObj \cup {Controller}

\* the first d have a selector, and no other
FrontOK(seq, d) ==
    /\ d \in 0 .. Len(seq)
    /\ \A k \in 1 .. Len(seq) : seq[k].sel # Nil <=> k <= d

\* the controller comes before all others that are not delegated
Led(seq, d) == seq # << >> => d < Len(seq) /\ seq[d + 1] = Controller

\* it is one of the items of seq
Among(seq, it) == \E k \in 1 .. Len(seq) : seq[k] = it

LEMMA ItemParts ==
  ASSUME NEW it \in Entry
  PROVE  /\ it.fn \in UserFns \cup {Nil} /\ it.sel \in Nodes \cup {Nil}
         /\ it.ns \in BOOLEAN /\ it.one \in BOOLEAN /\ it.nr \in 0 .. MaxBound
         /\ it.nr = 0 <=> it = Controller
         /\ it.one => it \in HandleObj
         /\ it \in HandleObj => it.fn \in UserFns /\ it.fn # Nil
         /\ Controller.sel = Nil /\ Controller.nr = 0 /\ Controller.fn = Nil /\ Controller.ns = FALSE
<1>1. MaxBound \in Nat /\ Nil \notin UserFns
  BY EventsAssumption DEF UserFns
<1>2. Controller.sel = Nil /\ Controller.nr = 0 /\ Controller.fn = Nil /\ Controller.ns = FALSE
      /\ Controller.one = FALSE
  BY DEF Controller
<1>3. CASE it = Controller
  <2>1. it \notin HandleObj
    BY <1>1, <1>2, <1>3 DEF HandleObj
  <2>2. it.ns \in BOOLEAN /\ it.one \in BOOLEAN /\ ~ it.one
    BY <1>2, <1>3, Zenon
  <2>3. it.fn = Nil /\ it.sel = Nil /\ it.nr = 0 /\ 0 \in 0 .. MaxBound
    BY <1>1, <1>2, <1>3
  <2>4. QED
    BY <1>2, <1>3, <2>1, <2>2, <2>3
<1>4. CASE it \in HandleObj
  <2>1. it.fn \in UserFns /\ it.sel \in Nodes \cup {Nil} /\ it.ns \in BOOLEAN /\ it.one \in BOOLEAN
        /\ it.nr \in 1 .. MaxBound
    BY <1>4 DEF HandleObj
  <2>2. it.fn # Nil /\ it.nr # 0 /\ it.nr \in 0 .. MaxBound /\ it # Controller
    BY <1>1, <1>2, <2>1
  <2>3. QED
    BY <1>2, <1>4, <2>1, <2>2
<1>5. QED
  BY <1>3, <1>4 DEF Entry

LEMMA OnlyHas ==
  ASSUME NEW seq \in Seq(Entry), NEW S
  PROVE  /\ Only(seq, S) \in Seq(Entry)
         /\ \A it : Among(Only(seq, S), it) <=> (Among(seq, it) /\ it \in S)
<1> DEFINE t == Only(seq, S)
<1>1. t \in Seq(Entry) /\ \E c : Shape(c, t, Len(seq), seq, S)
  BY OnlyShape
<1>2. PICK c : Shape(c, t, Len(seq), seq, S)
  BY <1>1
<1> HIDE DEF t
<1>3. /\ \A k \in 1 .. Len(seq) : seq[k] \in S => c[k] \in 1 .. Len(t) /\ t[c[k]] = seq[k]
      /\ \A i \in 1 .. Len(t) : \E k \in 1 .. Len(seq) : seq[k] \in S /\ c[k] = i /\ t[i] = seq[k]
  BY <1>2 DEF Shape
<1>4. ASSUME NEW it PROVE Among(t, it) <=> (Among(seq, it) /\ it \in S)
  BY <1>3 DEF Among
<1>5. QED
  BY <1>1, <1>4 DEF t

LEMMA OnlyFront ==
  ASSUME NEW seq \in Seq(Entry), NEW S, NEW d, FrontOK(seq, d), NEW e,
         NEW t, t = Only(seq, S),
         e = Cardinality({k \in 1 .. Len(t) : t[k].sel # Nil})
  PROVE  /\ FrontOK(t, e)
         /\ Led(seq, d) /\ Controller \in S => Led(t, e)
<1>1. t \in Seq(Entry) /\ \E c : Shape(c, t, Len(seq), seq, S)
  BY OnlyShape
<1>2. PICK c : Shape(c, t, Len(seq), seq, S)
  BY <1>1
<1>3. Len(t) \in Nat /\ Len(seq) \in Nat /\ d \in Nat /\ d <= Len(seq)
  BY <1>1 DEF FrontOK
<1>4. /\ \A k \in 0 .. Len(seq) : c[k] \in Nat
      /\ \A j, k \in 0 .. Len(seq) : j < k => c[j] <= c[k] /\ (seq[k] \in S => c[j] < c[k])
      /\ \A k \in 1 .. Len(seq) : seq[k] \in S => c[k] \in 1 .. Len(t) /\ t[c[k]] = seq[k]
      /\ \A i \in 1 .. Len(t) : \E k \in 1 .. Len(seq) : seq[k] \in S /\ c[k] = i /\ t[i] = seq[k]
  BY <1>2 DEF Shape
<1>5. ASSUME NEW k \in 1 .. Len(seq), NEW l \in 1 .. Len(seq), c[k] < c[l] PROVE k < l
  <2>1. k \in 0 .. Len(seq) /\ l \in 0 .. Len(seq) /\ k \in Int /\ l \in Int
    OBVIOUS
  <2>2. c[k] \in Nat /\ c[l] \in Nat
    BY <1>4, <2>1
  <2>3. ~ (l < k)
    BY <1>4, <1>5, <2>1, <2>2
  <2>4. l # k
    BY <1>5, <2>2
  <2>5. QED
    BY <2>1, <2>3, <2>4
<1> DEFINE D == {k \in 1 .. Len(t) : t[k].sel # Nil}
<1>6. ASSUME NEW i \in 1 .. Len(t), NEW j \in 1 .. Len(t), i < j, j \in D PROVE i \in D
  <2>1. PICK k \in 1 .. Len(seq) : seq[k] \in S /\ c[k] = i /\ t[i] = seq[k]
    BY <1>4
  <2>2. PICK l \in 1 .. Len(seq) : seq[l] \in S /\ c[l] = j /\ t[j] = seq[l]
    BY <1>4
  <2>3. k < l
    BY <1>5, <1>6, <2>1, <2>2
  <2>4. l <= d
    BY <1>6, <2>2 DEF FrontOK
  <2>5. k <= d
    BY <1>3, <2>3, <2>4
  <2>6. QED
    BY <2>1, <2>5 DEF FrontOK
<1>7. D \in SUBSET (1 .. Len(t))
  OBVIOUS
<1>8. e \in 0 .. Len(t) /\ \A i \in 1 .. Len(t) : i \in D <=> i <= e
  <2> HIDE DEF D
  <2>1. Cardinality(D) \in 0 .. Len(t) /\ \A i \in 1 .. Len(t) : i \in D <=> i <= Cardinality(D)
    BY <1>3, <1>6, <1>7, FrontCounts
  <2>2. e = Cardinality(D)
    BY DEF D
  <2>3. QED
    BY <2>1, <2>2
<1>9. FrontOK(t, e)
  BY <1>8 DEF FrontOK
<1>10. ASSUME Led(seq, d), Controller \in S, t # << >> PROVE e < Len(t) /\ t[e + 1] = Controller
  <2>1. 1 \in 1 .. Len(t)
    BY <1>1, <1>3, <1>10
  <2>2. seq # << >>
    BY <1>4, <2>1
  <2>3. d + 1 \in 1 .. Len(seq) /\ seq[d + 1] = Controller
    BY <1>3, <1>10, <2>2 DEF Led
  <2>4. c[d + 1] \in 1 .. Len(t) /\ t[c[d + 1]] = Controller
    BY <1>4, <1>10, <2>3
  <2>5. c[d + 1] > e
    <3>1. c[d + 1] \notin D
      BY <2>4, ItemParts DEF Entry
    <3>2. QED
      BY <1>8, <2>4, <3>1
  <2>6. ~ (c[d + 1] > e + 1)
    <3>1. SUFFICES ASSUME c[d + 1] > e + 1 PROVE FALSE
      OBVIOUS
    <3>2. e + 1 \in 1 .. Len(t)
      BY <1>3, <1>8, <2>4, <3>1
    <3>3. PICK k \in 1 .. Len(seq) : seq[k] \in S /\ c[k] = e + 1 /\ t[e + 1] = seq[k]
      BY <1>4, <3>2
    <3>4. k < d + 1
      BY <1>5, <2>3, <3>1, <3>3
    <3>5. seq[k].sel # Nil
      BY <1>3, <3>4 DEF FrontOK
    <3>6. e + 1 \in D
      BY <3>2, <3>3, <3>5
    <3>7. QED
      BY <1>8, <3>2, <3>6
  <2>7. c[d + 1] = e + 1
    BY <1>8, <2>4, <2>5, <2>6
  <2>8. QED
    BY <1>8, <2>4, <2>7
<1>11. QED
  BY <1>9, <1>10 DEF Led

LEMMA InsertParts ==
  ASSUME NEW seq \in Seq(Entry), NEW d, FrontOK(seq, d), NEW item \in HandleObj,
         NEW t, t = Insert(seq, item, d), NEW e, e = d + IF item.sel = Nil THEN 0 ELSE 1
  PROVE  /\ t \in Seq(Entry) /\ t # << >>
         /\ \A it : Among(t, it) <=> Among(seq, it) \/ it = item
         /\ FrontOK(t, e)
         /\ seq # << >> /\ Led(seq, d) => Led(t, e)
<1>1. /\ d \in Nat /\ d <= Len(seq) /\ Len(seq) \in Nat /\ item \in Entry
      /\ \A k \in 1 .. Len(seq) : seq[k].sel # Nil <=> k <= d
  BY DEF FrontOK, Entry
<1>2. CASE item.sel = Nil
  <2>1. t = Append(seq, item) /\ e = d
    BY <1>1, <1>2 DEF Insert
  <2>2. t \in Seq(Entry) /\ Len(t) = Len(seq) + 1 /\ t[Len(seq) + 1] = item
        /\ \A k \in 1 .. Len(seq) : t[k] = seq[k]
    BY <1>1, <2>1
  <2>3. \A k \in 1 .. Len(t) : k \in 1 .. Len(seq) \/ k = Len(seq) + 1
    BY <1>1, <2>2
  <2>4. FrontOK(t, e)
    <3>1. ASSUME NEW k \in 1 .. Len(t) PROVE t[k].sel # Nil <=> k <= d
      BY <1>1, <1>2, <2>2, <2>3
    <3>2. QED
      BY <1>1, <2>1, <2>2, <3>1 DEF FrontOK
  <2>5. ASSUME NEW it PROVE Among(t, it) <=> Among(seq, it) \/ it = item
    <3>1. Len(seq) + 1 \in 1 .. Len(t) /\ \A k \in 1 .. Len(seq) : k \in 1 .. Len(t)
      BY <1>1, <2>2
    <3>2. QED
      BY <2>2, <2>3, <3>1 DEF Among
  <2>6. ASSUME seq # << >>, Led(seq, d) PROVE Led(t, e)
    BY <1>1, <2>1, <2>2, <2>6 DEF Led
  <2>7. QED
    BY <1>1, <2>2, <2>4, <2>5, <2>6
<1>3. CASE item.sel # Nil
  <2> DEFINE a == SubSeq(seq, 1, d)
             b == SubSeq(seq, d + 1, Len(seq))
  <2>1. t = a \o << item >> \o b /\ e = d + 1
    BY <1>1, <1>3 DEF Insert
  <2>2. a \in Seq(Entry) /\ Len(a) = d /\ \A k \in 1 .. d : a[k] = seq[k]
    BY <1>1
  <2>3. b \in Seq(Entry) /\ Len(b) = Len(seq) - d /\ \A k \in 1 .. Len(seq) - d : b[k] = seq[d + k]
    BY <1>1
  <2> HIDE DEF a, b
  <2> DEFINE u == a \o << item >>
  <2>4. u \in Seq(Entry) /\ Len(u) = d + 1 /\ u[d + 1] = item /\ \A k \in 1 .. d : u[k] = seq[k]
    BY <1>1, <2>2
  <2>5. t = u \o b
    BY <2>1
  <2> HIDE DEF u
  <2>6. t \in Seq(Entry) /\ Len(t) = Len(seq) + 1
    BY <1>1, <2>3, <2>4, <2>5
  <2>7. \A k \in 1 .. d : t[k] = seq[k]
    BY <1>1, <2>3, <2>4, <2>5
  <2>8. t[d + 1] = item
    BY <1>1, <2>3, <2>4, <2>5
  <2>9. ASSUME NEW k \in d + 1 .. Len(seq) PROVE t[k + 1] = seq[k]
    <3>1. k - d \in 1 .. Len(b) /\ (k + 1) - (d + 1) = k - d /\ k + 1 \in d + 2 .. Len(u) + Len(b)
          /\ d + (k - d) = k
      BY <1>1, <2>3, <2>4
    <3>2. t[k + 1] = b[k - d]
      BY <1>1, <2>3, <2>4, <2>5, <3>1
    <3>3. QED
      BY <2>3, <3>1, <3>2
  <2>10. \A k \in 1 .. Len(t) : k \in 1 .. d \/ k = d + 1 \/ k - 1 \in d + 1 .. Len(seq)
    BY <1>1, <2>6
  <2>11. FrontOK(t, e)
    <3>1. ASSUME NEW k \in 1 .. Len(t) PROVE t[k].sel # Nil <=> k <= d + 1
      <4>1. CASE k \in 1 .. d
        BY <1>1, <2>7, <4>1
      <4>2. CASE k = d + 1
        BY <1>1, <1>3, <2>8, <4>2
      <4>3. CASE k - 1 \in d + 1 .. Len(seq)
        <5>1. k - 1 \in 1 .. Len(seq) /\ (k - 1) + 1 = k /\ ~ (k - 1 <= d) /\ ~ (k <= d + 1)
          BY <1>1, <4>3
        <5>2. t[k] = seq[k - 1]
          BY <2>9, <4>3, <5>1
        <5>3. QED
          BY <1>1, <5>1, <5>2
      <4>4. QED
        BY <2>10, <4>1, <4>2, <4>3
    <3>2. QED
      BY <1>1, <2>1, <2>6, <3>1 DEF FrontOK
  <2>12. ASSUME NEW it PROVE Among(t, it) <=> Among(seq, it) \/ it = item
    <3>1. ASSUME NEW k \in 1 .. Len(t), t[k] = it PROVE Among(seq, it) \/ it = item
      <4>1. CASE k \in 1 .. d
        <5>1. k \in 1 .. Len(seq)
          BY <1>1, <4>1
        <5>2. QED
          BY <2>7, <3>1, <4>1, <5>1 DEF Among
      <4>2. CASE k = d + 1
        BY <2>8, <3>1, <4>2
      <4>3. CASE k - 1 \in d + 1 .. Len(seq)
        <5>1. k - 1 \in 1 .. Len(seq) /\ (k - 1) + 1 = k
          BY <1>1, <4>3
        <5>2. t[k] = seq[k - 1]
          BY <2>9, <4>3, <5>1
        <5>3. QED
          BY <3>1, <5>1, <5>2 DEF Among
      <4>4. QED
        BY <2>10, <4>1, <4>2, <4>3
    <3>2. ASSUME NEW k \in 1 .. Len(seq), seq[k] = it PROVE Among(t, it)
      <4>1. CASE k <= d
        <5>1. k \in 1 .. d /\ k \in 1 .. Len(t)
          BY <1>1, <2>6, <4>1
        <5>2. QED
          BY <2>7, <3>2, <5>1 DEF Among
      <4>2. CASE ~ (k <= d)
        <5>1. k \in d + 1 .. Len(seq) /\ k + 1 \in 1 .. Len(t)
          BY <1>1, <2>6, <4>2
        <5>2. QED
          BY <2>9, <3>2, <5>1 DEF Among
      <4>3. QED
        BY <4>1, <4>2
    <3>3. d + 1 \in 1 .. Len(t)
      BY <1>1, <2>6
    <3>4. Among(t, item)
      BY <2>8, <3>3 DEF Among
    <3>5. QED
      BY <3>1, <3>2, <3>4 DEF Among
  <2>13. ASSUME seq # << >>, Led(seq, d) PROVE Led(t, e)
    <3>1. d + 1 \in d + 1 .. Len(seq) /\ seq[d + 1] = Controller
      BY <1>1, <2>13 DEF Led
    <3>2. t[(d + 1) + 1] = Controller
      BY <2>9, <3>1
    <3>3. QED
      BY <1>1, <2>1, <2>6, <3>1, <3>2 DEF Led
  <2>14. QED
    BY <1>1, <2>6, <2>11, <2>12, <2>13
<1>4. QED
  BY <1>2, <1>3

-----------------------------------------------------------------------------
(* The path and the queue of an event *)

LEMMA PathIs ==
  ASSUME NEW n \in Nodes
  PROVE  /\ Path(n) \in Seq(Nodes) /\ Path(n) # << >> /\ Path(n)[1] = n
         /\ \A j, k \in 1 .. Len(Path(n)) : Path(n)[j] = Path(n)[k] => j = k
<1>1. /\ Up[n] \in Seq(Nodes) /\ Len(Up[n]) \in Nat /\ Len(Up[n]) > 0 /\ Up[n][1] = n
      /\ \A j, k \in 1 .. Len(Up[n]) : Up[n][j] = Up[n][k] => j = k
  BY EventsAssumption
<1> DEFINE cuts == {k \in 1 .. Len(Up[n]) : Up[n][k] \in detached}
<1>2. CASE cuts = {}
  <2>1. Path(n) = Up[n]
    BY <1>2 DEF Path
  <2>2. QED
    BY <1>1, <2>1
<1>3. CASE cuts # {}
  <2> DEFINE m == CHOOSE k \in cuts : \A j \in cuts : k <= j
  <2>1. cuts \in SUBSET Nat
    OBVIOUS
  <2>2. \E k \in cuts : \A j \in cuts : k <= j
    <3> HIDE DEF cuts
    <3>1. QED
      BY <1>3, <2>1, SmallestIn
  <2>3. m \in cuts
    BY <2>2
  <2>4. Path(n) = SubSeq(Up[n], 1, m)
    BY <1>3 DEF Path
  <2>5. m \in 1 .. Len(Up[n])
    BY <2>3
  <2> HIDE DEF m
  <2>6. Path(n) \in Seq(Nodes) /\ Len(Path(n)) = m /\ \A k \in 1 .. m : Path(n)[k] = Up[n][k]
    BY <1>1, <2>4, <2>5
  <2>7. \A k \in 1 .. m : k \in 1 .. Len(Up[n])
    BY <1>1, <2>5
  <2>8. Path(n) # << >> /\ 1 \in 1 .. m
    BY <2>5, <2>6
  <2>9. QED
    BY <1>1, <2>6, <2>7, <2>8
<1>4. QED
  BY <1>2, <1>3

LEMMA OnlyFirst ==
  ASSUME NEW seq \in Seq(Entry), NEW S, seq # << >>, seq[1] \in S
  PROVE  Only(seq, S) \in Seq(Entry) /\ Only(seq, S) # << >> /\ Only(seq, S)[1] = seq[1]
<1> DEFINE t == Only(seq, S)
<1>1. t \in Seq(Entry) /\ \E c : Shape(c, t, Len(seq), seq, S)
  BY OnlyShape
<1>2. PICK c : Shape(c, t, Len(seq), seq, S)
  BY <1>1
<1> HIDE DEF t
<1>3. 1 \in 1 .. Len(seq) /\ Len(seq) \in Nat /\ Len(t) \in Nat
  BY <1>1
<1>4. /\ c[1] \in 1 .. Len(t) /\ t[c[1]] = seq[1]
      /\ \A i \in 1 .. Len(t) : \E k \in 1 .. Len(seq) : seq[k] \in S /\ c[k] = i /\ t[i] = seq[k]
      /\ \A k \in 1 .. Len(seq) : 1 < k => c[1] <= c[k]
  BY <1>2, <1>3 DEF Shape
<1>5. 1 \in 1 .. Len(t)
  BY <1>3, <1>4
<1>6. PICK k \in 1 .. Len(seq) : c[k] = 1 /\ t[1] = seq[k]
  BY <1>4, <1>5
<1>7. c[1] <= 1
  <2>1. CASE k = 1
    BY <1>6, <2>1
  <2>2. CASE k # 1
    BY <1>4, <1>6, <2>2
  <2>3. QED
    BY <2>1, <2>2
<1>8. c[1] = 1
  BY <1>4, <1>7
<1>9. t # << >>
  BY <1>5
<1>10. QED
  BY <1>1, <1>4, <1>8, <1>9 DEF t

LEMMA QueueIs ==
  ASSUME NEW n \in Nodes, NEW target \in Nodes, NEW ns \in BOOLEAN,
         handlers[n] \in Seq(Entry), FrontOK(handlers[n], delegateCount[n])
  PROVE  /\ Queue(n, target, ns) \in Seq(Match)
         /\ \A i \in 1 .. Len(Queue(n, target, ns)) : Among(handlers[n], Queue(n, target, ns)[i].item)
         /\ target = n /\ handlers[n] # << >> /\ Led(handlers[n], delegateCount[n]) =>
              Queue(n, target, ns) # << >> /\ Queue(n, target, ns)[1].item = Controller
<1> DEFINE hs == handlers[n]
           d == delegateCount[n]
           Wanted == {it \in HandleObj \cup {Controller} : it = Controller \/ ~ ns \/ it.ns}
           p == Path(target)
           of(m) == IF m = n THEN Only(SubSeq(hs, d + 1, Len(hs)), Wanted)
                    ELSE Only(SubSeq(hs, 1, d), {it \in Wanted : it.sel = m})
           group(m) == [k \in 1 .. Len(of(m)) |-> [elem |-> m, item |-> of(m)[k]]]
           till == CHOOSE k \in 1 .. Len(p) : p[k] = n
           ways == IF \E k \in 1 .. Len(p) : p[k] = n THEN SubSeq(p, 1, till) ELSE << n >>
           seqs == [k \in 1 .. Len(ways) |-> group(ways[k])]
<1>1. Queue(n, target, ns) = Joined(seqs)
  BY DEF Queue
<1>2. hs \in Seq(Entry) /\ d \in Nat /\ d <= Len(hs) /\ Len(hs) \in Nat
  BY DEF FrontOK
<1>3. /\ SubSeq(hs, d + 1, Len(hs)) \in Seq(Entry) /\ Len(SubSeq(hs, d + 1, Len(hs))) = Len(hs) - d
      /\ \A k \in 1 .. Len(hs) - d : SubSeq(hs, d + 1, Len(hs))[k] = hs[d + k]
  <2> HIDE DEF hs, d
  <2>1. QED
    BY <1>2
<1>4. /\ SubSeq(hs, 1, d) \in Seq(Entry) /\ Len(SubSeq(hs, 1, d)) = d
      /\ \A k \in 1 .. d : SubSeq(hs, 1, d)[k] = hs[k]
  <2> HIDE DEF hs, d
  <2>1. QED
    BY <1>2
<1>5. \A it : Among(SubSeq(hs, d + 1, Len(hs)), it) => Among(hs, it)
  <2>1. ASSUME NEW it, NEW k \in 1 .. Len(hs) - d, hs[d + k] = it PROVE Among(hs, it)
    <3>1. d + k \in 1 .. Len(hs)
      BY <1>2
    <3>2. QED
      BY <2>1, <3>1 DEF Among
  <2>2. QED
    BY <1>3, <2>1 DEF Among
<1>6. \A it : Among(SubSeq(hs, 1, d), it) => Among(hs, it)
  <2>1. \A k \in 1 .. d : k \in 1 .. Len(hs)
    BY <1>2
  <2>2. QED
    BY <1>4, <2>1 DEF Among
<1>7. ASSUME NEW m PROVE of(m) \in Seq(Entry) /\ \A it : Among(of(m), it) => Among(hs, it)
  <2>1. CASE m = n
    <3>1. of(m) = Only(SubSeq(hs, d + 1, Len(hs)), Wanted)
      BY <2>1
    <3> DEFINE q == SubSeq(hs, d + 1, Len(hs))
    <3>2. q \in Seq(Entry) /\ (\A it : Among(q, it) => Among(hs, it)) /\ of(m) = Only(q, Wanted)
      BY <1>3, <1>5, <3>1
    <3> HIDE DEF of, Wanted, q
    <3>3. Only(q, Wanted) \in Seq(Entry) /\ \A it : Among(Only(q, Wanted), it) => Among(q, it)
      BY <3>2, OnlyHas
    <3>4. QED
      BY <3>2, <3>3
  <2>2. CASE m # n
    <3> DEFINE W == {it \in Wanted : it.sel = m}
    <3>1. of(m) = Only(SubSeq(hs, 1, d), W)
      BY <2>2
    <3> DEFINE q == SubSeq(hs, 1, d)
    <3>2. q \in Seq(Entry) /\ (\A it : Among(q, it) => Among(hs, it)) /\ of(m) = Only(q, W)
      BY <1>4, <1>6, <3>1
    <3> HIDE DEF of, W, q
    <3>3. Only(q, W) \in Seq(Entry) /\ \A it : Among(Only(q, W), it) => Among(q, it)
      BY <3>2, OnlyHas
    <3>4. QED
      BY <3>2, <3>3
  <2>3. QED
    BY <2>1, <2>2
<1>8. ASSUME NEW m \in Nodes
      PROVE  /\ group(m) \in Seq(Match) /\ Len(group(m)) = Len(of(m))
             /\ \A i \in 1 .. Len(of(m)) : group(m)[i] = [elem |-> m, item |-> of(m)[i]]
             /\ \A i \in 1 .. Len(group(m)) : Among(hs, group(m)[i].item)
  <2> HIDE DEF of
  <2>1. of(m) \in Seq(Entry) /\ (\A it : Among(of(m), it) => Among(hs, it)) /\ Len(of(m)) \in Nat
    BY <1>7
  <2>2. \A k \in 1 .. Len(of(m)) : [elem |-> m, item |-> of(m)[k]] \in Match
    BY <2>1 DEF Match, Entry
  <2>3. group(m) \in Seq(Match) /\ Len(group(m)) = Len(of(m))
    BY <2>1, <2>2
  <2>4. \A i \in 1 .. Len(of(m)) : group(m)[i] = [elem |-> m, item |-> of(m)[i]]
    OBVIOUS
  <2>5. \A i \in 1 .. Len(of(m)) : Among(of(m), of(m)[i])
    BY DEF Among
  <2> HIDE DEF group
  <2>6. ASSUME NEW i \in 1 .. Len(group(m)) PROVE Among(hs, group(m)[i].item)
    <3>1. i \in 1 .. Len(of(m)) /\ group(m)[i].item = of(m)[i]
      <4>1. i \in 1 .. Len(of(m))
        BY <2>3, <2>6
      <4>2. group(m)[i] = [elem |-> m, item |-> of(m)[i]]
        BY <2>4, <4>1
      <4>3. QED
        BY <4>1, <4>2
    <3>2. QED
      BY <2>1, <2>5, <3>1
  <2>7. QED
    BY <2>3, <2>4, <2>6
<1>9. p \in Seq(Nodes) /\ p # << >> /\ p[1] = target /\ Len(p) \in Nat
      /\ \A j, k \in 1 .. Len(p) : p[j] = p[k] => j = k
  <2>1. /\ Path(target) \in Seq(Nodes) /\ Path(target) # << >> /\ Path(target)[1] = target
        /\ \A j, k \in 1 .. Len(Path(target)) : Path(target)[j] = Path(target)[k] => j = k
    BY PathIs
  <2>2. p = Path(target)
    OBVIOUS
  <2> HIDE DEF p
  <2>3. Len(p) \in Nat
    BY <2>1, <2>2
  <2>4. QED
    BY <2>1, <2>2, <2>3
<1>10. ways \in Seq(Nodes) /\ (n = target => ways = << n >>)
  <2>1. CASE \E k \in 1 .. Len(p) : p[k] = n
    <3>1. till \in 1 .. Len(p) /\ p[till] = n
      BY <2>1
    <3>2. ways = SubSeq(p, 1, till)
      BY <2>1
    <3> HIDE DEF p, till, ways
    <3>3. ways \in Seq(Nodes)
      BY <1>9, <3>1, <3>2
    <3>4. ASSUME n = target PROVE ways = << n >>
      <4>1. 1 \in 1 .. Len(p)
        BY <3>1
      <4>2. till = 1
        BY <1>9, <3>1, <3>4, <4>1
      <4>3. Len(ways) = 1 /\ ways[1] = n
        BY <1>9, <3>1, <3>2, <4>2
      <4>4. QED
        BY <3>3, <4>3
    <3>5. QED
      BY <3>3, <3>4
  <2>2. CASE ~ \E k \in 1 .. Len(p) : p[k] = n
    <3>1. ways = << n >>
      BY <2>2
    <3> HIDE DEF ways
    <3>2. << n >> \in Seq(Nodes)
      OBVIOUS
    <3>3. QED
      BY <3>1, <3>2
  <2>3. QED
    BY <2>1, <2>2
<1>11. seqs \in Seq(Seq(Match)) /\ Len(seqs) = Len(ways) /\ Len(ways) \in Nat
       /\ \A k \in 1 .. Len(ways) : seqs[k] = group(ways[k]) /\ ways[k] \in Nodes
  <2> HIDE DEF ways, group
  <2>1. \A k \in 1 .. Len(ways) : ways[k] \in Nodes
    BY <1>10
  <2>2. \A k \in 1 .. Len(ways) : group(ways[k]) \in Seq(Match)
    BY <1>8, <2>1
  <2>3. QED
    BY <1>10, <2>1, <2>2
<1> DEFINE t == Joined(seqs)
<1> HIDE DEF seqs, group, ways, t
<1>12. t \in Seq(Match) /\ \E o : Laid(o, t, Len(seqs), seqs)
  BY <1>11, JoinedShape DEF t
<1>13. PICK o : Laid(o, t, Len(seqs), seqs)
  BY <1>12
<1>14. ASSUME NEW i \in 1 .. Len(t) PROVE Among(hs, t[i].item)
  <2>1. PICK k \in 1 .. Len(seqs) : \E j \in 1 .. Len(seqs[k]) : t[i] = seqs[k][j]
    BY <1>13 DEF Laid
  <2>2. PICK j \in 1 .. Len(seqs[k]) : t[i] = seqs[k][j]
    BY <2>1
  <2>3. ways[k] \in Nodes /\ seqs[k] = group(ways[k])
    BY <1>11
  <2>4. QED
    BY <1>8, <2>2, <2>3
<1>15. ASSUME target = n, hs # << >>, Led(hs, d) PROVE t # << >> /\ t[1].item = Controller
  <2>1. ways = << n >>
    BY <1>10, <1>15
  <2>2. Len(seqs) = 1 /\ seqs[1] = group(n) /\ 1 \in 1 .. Len(seqs)
    BY <1>11, <2>1
  <2>3. hs[d + 1] = Controller /\ d < Len(hs)
    BY <1>15 DEF Led
  <2> DEFINE r == SubSeq(hs, d + 1, Len(hs))
  <2>4. r # << >> /\ r[1] = Controller /\ r \in Seq(Entry)
    <3>1. 1 \in 1 .. Len(hs) - d
      BY <1>2, <2>3
    <3>2. r \in Seq(Entry) /\ Len(r) = Len(hs) - d /\ r[1] = hs[d + 1]
      BY <1>3, <3>1
    <3> HIDE DEF r
    <3>3. QED
      BY <2>3, <3>1, <3>2
  <2>5. Controller \in Wanted
    OBVIOUS
  <2>6. of(n) = Only(r, Wanted)
    OBVIOUS
  <2> HIDE DEF r, Wanted, of
  <2>7. of(n) # << >> /\ of(n)[1] = Controller /\ of(n) \in Seq(Entry)
    BY <2>4, <2>5, <2>6, OnlyFirst
  <2>8. 1 \in 1 .. Len(of(n))
    BY <2>7
  <2>9. 1 \in 1 .. Len(seqs[1]) /\ seqs[1][1].item = Controller
    <3>1. Len(group(n)) = Len(of(n)) /\ group(n)[1] = [elem |-> n, item |-> of(n)[1]]
      BY <1>8, <2>8
    <3>2. QED
      BY <2>2, <2>7, <2>8, <3>1
  <2>10. o[0] = 0 /\ o[1 - 1] + 1 \in 1 .. Len(t) /\ t[o[1 - 1] + 1] = seqs[1][1]
    BY <1>13, <2>2, <2>9 DEF Laid
  <2>11. 1 \in 1 .. Len(t) /\ t[1] = seqs[1][1]
    BY <2>10
  <2>12. QED
    BY <2>9, <2>11
<1>16. QED
  BY <1>1, <1>12, <1>14, <1>15 DEF t

-----------------------------------------------------------------------------
(* What every call on the stack satisfies *)

\* an item that waits in a queue is in no list but that of the element, if at all
QueueOK(hs, call, bd) ==
    call.kind = "dispatch" =>
        \A i \in 1 .. Len(call.queue) :
            /\ call.queue[i].item.nr <= bd
            /\ call.queue[i].item.nr # 0 =>
                 \A m \in Nodes : \A it \in Entry :
                    Among(hs[m], it) /\ it.nr = call.queue[i].item.nr
                       => m = call.node /\ it = call.queue[i].item

QueuesOK(hs, st, bd) == \A k \in 1 .. Len(st) : QueueOK(hs, st[k], bd)

\* a call for an event that a script triggered
ByScript(call) == call.kind = "trigger" \/ (call.kind = "dispatch" /\ ~ call.native)

\* the gestures of all calls are in G, and in T if their events are triggered
Within(st, G, T) ==
    \A k \in 1 .. Len(st) : st[k].g \in G /\ (ByScript(st[k]) => st[k].g \in T)

\* all that the stack says of the rest of the state
Good(st, cl, tr, sv, hs, bd, G, T) ==
    /\ st \in Seq(EventCall) /\ Shaped(st, cl, tr) /\ Kept(st, sv)
    /\ QueuesOK(hs, st, bd) /\ Within(st, G, T)

\* the queue of a has no other items than that of b
Fewer(a, b) ==
    a.kind = "dispatch" => \A i \in 1 .. Len(a.queue) : \E j \in 1 .. Len(b.queue) : a.queue[i] = b.queue[j]

LEMMA QueueFewer ==
  ASSUME NEW a, NEW b, SameCall(a, b), Fewer(a, b), NEW hs, NEW bd, QueueOK(hs, b, bd)
  PROVE  QueueOK(hs, a, bd)
<1>1. SUFFICES ASSUME a.kind = "dispatch" PROVE QueueOK(hs, a, bd)
  BY DEF QueueOK
<1>2. b.kind = "dispatch" /\ a.node = b.node
  BY <1>1 DEF SameCall
<1>3. ASSUME NEW i \in 1 .. Len(a.queue)
      PROVE  /\ a.queue[i].item.nr <= bd
             /\ a.queue[i].item.nr # 0 =>
                  \A m \in Nodes : \A it \in Entry :
                     Among(hs[m], it) /\ it.nr = a.queue[i].item.nr
                        => m = a.node /\ it = a.queue[i].item
  <2>1. PICK j \in 1 .. Len(b.queue) : a.queue[i] = b.queue[j]
    BY <1>1 DEF Fewer
  <2>2. QED
    BY <1>2, <2>1 DEF QueueOK
<1>4. QED
  BY <1>3 DEF QueueOK

LEMMA ReshapeGood ==
  ASSUME NEW st, NEW cl, NEW tr \in BOOLEAN, NEW sv, NEW hs, NEW bd, NEW G, NEW T,
         Good(st, cl, tr, sv, hs, bd, G, T), st # << >>, st[1].at # "default",
         NEW u, Reshaped(st, u), \A k \in 1 .. Len(st) : Fewer(u[k], st[k]),
         u[1].at = "refired" => Awaited(st, u[1].node, 2),
         \A n \in Nodes : Awaits(st[1], n) => sv[n] \in {Undefined, False}
  PROVE  Good(u, cl, IF u[1].kind = "native" THEN tr ELSE u[1].at = "default", sv, hs, bd, G, T)
<1>1. st \in Seq(EventCall) /\ Shaped(st, cl, tr) /\ Kept(st, sv)
      /\ QueuesOK(hs, st, bd) /\ Within(st, G, T)
  BY DEF Good
<1>2. u \in Seq(EventCall) /\ Len(u) = Len(st) /\ \A k \in 1 .. Len(st) : SameCall(u[k], st[k])
  BY DEF Reshaped
<1>3. Shaped(u, cl, IF u[1].kind = "native" THEN tr ELSE u[1].at = "default")
  BY <1>1, Reshape
<1>4. Kept(u, sv)
  <2>1. \A n \in Nodes : Awaits(st[1], n) \/ Awaiting(st, u, n)
    BY <1>1, ReshapedAwaits
  <2>2. QED
    BY <1>1, <2>1, Keep
<1>5. QueuesOK(hs, u, bd)
  BY <1>1, <1>2, QueueFewer DEF QueuesOK
<1>6. Within(u, G, T)
  BY <1>1, <1>2 DEF Within, SameCall, ByScript
<1>7. QED
  BY <1>2, <1>3, <1>4, <1>5, <1>6 DEF Good

LEMMA SetTop ==
  ASSUME NEW st \in Seq(EventCall), st # << >>, NEW a \in EventCall, SameCall(a, st[1]), Fewer(a, st[1])
  PROVE  /\ Reshaped(st, << a >> \o Tail(st))
         /\ (<< a >> \o Tail(st))[1] = a /\ << a >> \o Tail(st) # << >>
         /\ \A k \in 1 .. Len(st) : Fewer((<< a >> \o Tail(st))[k], st[k])
<1> DEFINE u == << a >> \o Tail(st)
<1>1. u \in Seq(EventCall) /\ Len(u) = Len(st) /\ u[1] = a /\ Len(st) \in Nat /\ Len(st) > 0
  OBVIOUS
<1>2. \A k \in 2 .. Len(st) : u[k] = st[k]
  OBVIOUS
<1> HIDE DEF u
<1>3. \A k \in 1 .. Len(st) : k = 1 \/ k \in 2 .. Len(st)
  OBVIOUS
<1>4. \A k \in 1 .. Len(st) : SameCall(u[k], st[k])
  <2>1. \A k \in 2 .. Len(st) : SameCall(st[k], st[k])
    BY DEF SameCall
  <2>2. QED
    BY <1>1, <1>2, <1>3, <2>1
<1>5. \A k \in 1 .. Len(st) : Fewer(u[k], st[k])
  <2>1. \A k \in 2 .. Len(st) : Fewer(st[k], st[k])
    BY DEF Fewer
  <2>2. QED
    BY <1>1, <1>2, <1>3, <2>1
<1>6. Reshaped(st, u)
  BY <1>1, <1>2, <1>4 DEF Reshaped
<1>7. u # << >>
  BY <1>1
<1>8. QED
  BY <1>1, <1>5, <1>6, <1>7 DEF u

\* the innermost call goes on
LEMMA SetGood ==
  ASSUME NEW st, NEW cl, NEW tr \in BOOLEAN, NEW sv, NEW hs, NEW bd, NEW G, NEW T,
         Good(st, cl, tr, sv, hs, bd, G, T), st # << >>, st[1].at # "default",
         NEW a \in EventCall, SameCall(a, st[1]), Fewer(a, st[1]),
         a.at = "refired" => Awaited(st, a.node, 2),
         \A n \in Nodes : Awaits(st[1], n) => sv[n] \in {Undefined, False}
  PROVE  /\ Good(<< a >> \o Tail(st), cl, IF a.kind = "native" THEN tr ELSE a.at = "default", sv, hs, bd, G, T)
         /\ (<< a >> \o Tail(st))[1] = a /\ << a >> \o Tail(st) # << >>
<1> DEFINE u == << a >> \o Tail(st)
<1>1. st \in Seq(EventCall)
  BY DEF Good
<1>2. Reshaped(st, u) /\ u[1] = a /\ u # << >> /\ \A k \in 1 .. Len(st) : Fewer(u[k], st[k])
  BY <1>1, SetTop
<1> HIDE DEF u
<1>3. Good(u, cl, IF u[1].kind = "native" THEN tr ELSE u[1].at = "default", sv, hs, bd, G, T)
  BY <1>2, ReshapeGood
<1>4. QED
  BY <1>2, <1>3 DEF u

\* a call is made
LEMMA OverGood ==
  ASSUME NEW st, NEW cl, NEW tr \in BOOLEAN, NEW sv, NEW hs, NEW bd, NEW G, NEW T,
         Good(st, cl, tr, sv, hs, bd, G, T), NEW a \in EventCall,
         a.at \in {"path", "next"}, a.kind = "dispatch" => st # << >>,
         st # << >> => Above(a, st[1]),
         tr => st[1].at = "default",
         ScriptClick(a) => a.target \notin cl,
         NEW cm, cm = IF ScriptClick(a) THEN cl \cup {a.target} ELSE cl,
         QueueOK(hs, a, bd), a.g \in G, ByScript(a) => a.g \in T
  PROVE  /\ Good(<< a >> \o st, cm, tr, sv, hs, bd, G, T)
         /\ (<< a >> \o st)[1] = a /\ << a >> \o st # << >> /\ Over(st, a, << a >> \o st)
<1> DEFINE u == << a >> \o st
<1>1. st \in Seq(EventCall) /\ Shaped(st, cl, tr) /\ Kept(st, sv)
      /\ QueuesOK(hs, st, bd) /\ Within(st, G, T)
  BY DEF Good
<1>2. Over(st, a, u)
  BY <1>1, OverIs
<1> HIDE DEF u
<1>3. Shaped(u, cm, tr)
  BY <1>1, <1>2, Push
<1>4. Kept(u, sv)
  <2>1. \A n \in Nodes : Awaiting(st, u, n)
    BY <1>1, <1>2, OverAwaits
  <2>2. QED
    BY <1>1, <2>1, Keep
<1>5. u \in Seq(EventCall) /\ Len(u) = Len(st) + 1 /\ u[1] = a /\ Len(st) \in Nat
      /\ \A k \in 1 .. Len(st) : u[k + 1] = st[k]
  BY <1>1, <1>2 DEF Over
<1>6. \A k \in 1 .. Len(u) : u[k] = a \/ \E i \in 1 .. Len(st) : u[k] = st[i]
  <2>1. ASSUME NEW k \in 1 .. Len(u), k # 1 PROVE k - 1 \in 1 .. Len(st) /\ u[k] = st[k - 1]
    <3>1. k - 1 \in 1 .. Len(st) /\ (k - 1) + 1 = k
      BY <1>5, <2>1
    <3>2. QED
      BY <1>5, <3>1
  <2>2. QED
    BY <1>5, <2>1
<1>7. QueuesOK(hs, u, bd)
  BY <1>1, <1>6 DEF QueuesOK
<1>8. Within(u, G, T)
  BY <1>1, <1>6 DEF Within
<1>9. u # << >>
  BY <1>5
<1>10. QED
  BY <1>2, <1>3, <1>4, <1>5, <1>7, <1>8, <1>9 DEF Good, u

\* calls are over
LEMMA DropGood ==
  ASSUME NEW st, NEW cl, NEW tr \in BOOLEAN, NEW sv, NEW hs, NEW bd, NEW G, NEW T,
         Good(st, cl, tr, sv, hs, bd, G, T), st # << >>, NEW k \in 2 .. Len(st) + 1,
         NEW u, Dropped(st, k, u),
         \A j \in 2 .. k - 1 : ~ ScriptClick(st[j]) /\ st[j].at # "default",
         \A j \in 1 .. k - 1 : st[j].at # "browser",
         NEW cm, cm = IF ScriptClick(st[1]) THEN cl \ {st[1].target} ELSE cl,
         NEW tm, tm = IF st[1].at = "default" THEN FALSE ELSE tr
  PROVE  Good(u, cm, tm, sv, hs, bd, G, T)
<1>1. st \in Seq(EventCall) /\ Shaped(st, cl, tr) /\ Kept(st, sv)
      /\ QueuesOK(hs, st, bd) /\ Within(st, G, T)
  BY DEF Good
<1>2. Shaped(u, cm, tm)
  BY <1>1, Drop
<1>3. Kept(u, sv)
  <2>1. \A n \in Nodes : Awaiting(st, u, n)
    <3>1. \A n \in Nodes : \A j \in 1 .. k - 1 : ~ Awaits(st[j], n)
      BY DEF Awaits
    <3>2. QED
      BY <1>1, <3>1, DroppedAwaits
  <2>2. QED
    BY <1>1, <2>1, Keep
<1>4. u \in Seq(EventCall) /\ \A j \in 1 .. Len(u) : \E i \in 1 .. Len(st) : u[j] = st[i]
  <2>1. ASSUME NEW j \in 1 .. Len(u) PROVE j + (k - 1) \in 1 .. Len(st) /\ u[j] = st[j + (k - 1)]
    <3>1. u[j] = st[j + (k - 1)] /\ Len(u) = Len(st) - (k - 1) /\ Len(st) \in Nat
      BY <1>1 DEF Dropped
    <3>2. k \in Int /\ k >= 2 /\ j \in Int /\ j >= 1 /\ j <= Len(u)
      OBVIOUS
    <3>3. QED
      BY <3>1, <3>2
  <2>2. QED
    BY <2>1 DEF Dropped
<1>5. QueuesOK(hs, u, bd)
  BY <1>1, <1>4 DEF QueuesOK
<1>6. Within(u, G, T)
  BY <1>1, <1>4 DEF Within
<1>7. QED
  BY <1>2, <1>3, <1>4, <1>5, <1>6 DEF Good

LEMMA TailGood ==
  ASSUME NEW st, NEW cl, NEW tr \in BOOLEAN, NEW sv, NEW hs, NEW bd, NEW G, NEW T,
         Good(st, cl, tr, sv, hs, bd, G, T), st # << >>, st[1].at # "browser",
         NEW cm, cm = IF ScriptClick(st[1]) THEN cl \ {st[1].target} ELSE cl,
         NEW tm, tm = IF st[1].at = "default" THEN FALSE ELSE tr
  PROVE  Good(Tail(st), cm, tm, sv, hs, bd, G, T)
<1>1. st \in Seq(EventCall)
  BY DEF Good
<1> DEFINE u == Tail(st)
<1>2. u \in Seq(EventCall) /\ Len(u) = Len(st) - 1 /\ Len(st) \in Nat /\ Len(st) > 0
      /\ \A j \in 1 .. Len(u) : u[j] = st[j + 1]
  BY <1>1
<1> HIDE DEF u
<1>3. 2 \in 2 .. Len(st) + 1 /\ Len(st) - (2 - 1) = Len(st) - 1 /\ 2 - 1 = 1
  BY <1>2
<1>4. Dropped(st, 2, u)
  BY <1>2, <1>3 DEF Dropped
<1>5. /\ \A j \in 2 .. 2 - 1 : ~ ScriptClick(st[j]) /\ st[j].at # "default"
      /\ \A j \in 1 .. 2 - 1 : st[j].at # "browser"
  OBVIOUS
<1>6. Good(u, cm, tm, sv, hs, bd, G, T)
  BY <1>3, <1>4, <1>5, DropGood
<1>7. QED
  BY <1>6 DEF u

LEMMA GoodKept ==
  ASSUME NEW st, NEW cl, NEW tr, NEW sv, NEW hs, NEW bd, NEW G, NEW T,
         Good(st, cl, tr, sv, hs, bd, G, T), NEW sw, Kept(st, sw)
  PROVE  Good(st, cl, tr, sw, hs, bd, G, T)
  BY DEF Good

-----------------------------------------------------------------------------
(* The stack after each step *)

\* delegated handlers in front, the controller next, and each number in one place
ListsOK(hs, dc, sv, bd) ==
    /\ \A n \in Nodes :
          /\ FrontOK(hs[n], dc[n])
          /\ n \in Checkable => Led(hs[n], dc[n]) /\ (sv[n] = Undefined => hs[n] = << >>)
          /\ \A it \in Entry : Among(hs[n], it) => it.nr <= bd
    /\ \A m, n \in Nodes : \A a, b \in Entry :
          Among(hs[m], a) /\ Among(hs[n], b) /\ a.nr = b.nr /\ a.nr # 0 => m = n /\ a = b

LEMMA Types ==
  ASSUME EventsTypeOK
  PROVE  /\ handlers \in [Nodes -> Seq(Entry)] /\ delegateCount \in [Nodes -> Nat]
         /\ saved \in [Nodes -> Private] /\ triggered \in BOOLEAN
         /\ detached \in SUBSET Nodes /\ clicking \in SUBSET Nodes
         /\ calls \in Seq(EventCall) /\ bound \in 0 .. MaxBound /\ gestures \in 0 .. MaxGestures
         /\ MaxBound \in Nat /\ MaxGestures \in Nat /\ Checkable \in SUBSET Nodes
         /\ \A g \in Gesture : /\ synth[g].target \in Nodes \cup {Nil} /\ synth[g].ns \in BOOLEAN
                               /\ synth[g].only \in BOOLEAN /\ synth[g].flags \in StopFlags
<1>1. MaxBound \in Nat /\ MaxGestures \in Nat /\ Checkable \in SUBSET Nodes
  BY EventsAssumption
<1>2. \A g \in Gesture : synth[g] \in [target : Nodes \cup {Nil}, ns : BOOLEAN, only : BOOLEAN, flags : StopFlags]
  BY DEF EventsTypeOK
<1>3. \A g \in Gesture : /\ synth[g].target \in Nodes \cup {Nil} /\ synth[g].ns \in BOOLEAN
                         /\ synth[g].only \in BOOLEAN /\ synth[g].flags \in StopFlags
  BY <1>2
<1>4. QED
  BY <1>1, <1>3 DEF EventsTypeOK, EventCall, Entry

\* the gestures that have made an event of their own
Aimed == {g \in Gesture : synth[g].target \in Nodes}

\* what the steps start from
Sound(G) ==
    /\ EventsTypeOK
    /\ ListsOK(handlers, delegateCount, saved, bound)
    /\ Good(calls, clicking, triggered, saved, handlers, bound, G, Aimed)
    /\ G \subseteq Gesture

\* ... and what they come to
GoodAfter(G) == Good(calls', clicking', triggered', saved', handlers, bound, G, Aimed')

LEMMA TopParts ==
  ASSUME NEW G, Sound(G), calls # << >>
  PROVE  /\ Current \in EventCall /\ Current = calls[1] /\ 1 \in 1 .. Len(calls)
         /\ calls \in Seq(EventCall) /\ Tail(calls) \in Seq(EventCall)
         /\ Current.g \in G /\ Current.g \in Gesture
         /\ ByScript(Current) => Current.g \in Aimed /\ synth[Current.g].target \in Nodes
         /\ Nested(calls) /\ Defaults(calls, triggered) /\ Clicks(calls, clicking) /\ Kept(calls, saved)
         /\ triggered \in BOOLEAN /\ clicking \in SUBSET Nodes
         /\ Current.kind # "native" /\ Current.at # "default" => ~ triggered
<1>1. calls \in Seq(EventCall) /\ triggered \in BOOLEAN /\ clicking \in SUBSET Nodes
  BY Types DEF Sound
<1>2. Current = calls[1] /\ 1 \in 1 .. Len(calls) /\ Tail(calls) \in Seq(EventCall) /\ calls[1] \in EventCall
  BY <1>1 DEF Current
<1>3. Nested(calls) /\ Defaults(calls, triggered) /\ Clicks(calls, clicking) /\ Kept(calls, saved)
  BY DEF Sound, Good, Shaped
<1>4. Current.g \in G /\ (ByScript(Current) => Current.g \in Aimed)
  BY <1>2 DEF Sound, Good, Within
<1>5. Current.kind # "native" /\ Current.at # "default" => ~ triggered
  BY <1>1, <1>2, <1>3, NoDefault
<1>6. QED
  BY <1>1, <1>2, <1>3, <1>4, <1>5 DEF Aimed, Sound

LEMMA FrameIs ==
  ASSUME NEW G, Sound(G), NEW g \in Gesture, NEW n \in Nodes, NEW target \in Nodes,
         NEW ns \in BOOLEAN, NEW native \in BOOLEAN
  PROVE  /\ DispatchFrame(g, n, target, ns, native) \in EventCall
         /\ QueueOK(handlers, DispatchFrame(g, n, target, ns, native), bound)
<1> DEFINE D == DispatchFrame(g, n, target, ns, native)
           q == Queue(n, target, ns)
<1>1. handlers[n] \in Seq(Entry) /\ FrontOK(handlers[n], delegateCount[n])
  BY Types DEF Sound, ListsOK
<1>2. q \in Seq(Match) /\ \A i \in 1 .. Len(q) : Among(handlers[n], q[i].item)
  BY <1>1, QueueIs
<1> HIDE DEF q
<1>3. D = [kind |-> "dispatch", at |-> "next", g |-> g, node |-> n, native |-> native,
           queue |-> q, elem |-> Nil, flags |-> Fresh]
  BY DEF DispatchFrame, q
<1>4. Fresh \in StopFlags
  BY DEF Fresh, StopFlags
<1>5. D \in DispatchCall
  BY <1>2, <1>3, <1>4 DEF DispatchCall
<1>6. \A i \in 1 .. Len(q) : q[i].item \in Entry
  <2>1. \A i \in 1 .. Len(q) : q[i] \in Match
    BY <1>2
  <2>2. \A m \in Match : m.item \in Entry
    BY DEF Match, Entry
  <2>3. QED
    BY <2>1, <2>2
<1>7. D.queue = q /\ D.node = n
  BY <1>3
<1> HIDE DEF D
<1>8. ASSUME NEW i \in 1 .. Len(q)
      PROVE  /\ q[i].item.nr <= bound
             /\ q[i].item.nr # 0 =>
                  \A m \in Nodes : \A it \in Entry :
                     Among(handlers[m], it) /\ it.nr = q[i].item.nr => m = n /\ it = q[i].item
  BY <1>2, <1>6 DEF Sound, ListsOK
<1>9. QueueOK(handlers, D, bound)
  BY <1>7, <1>8 DEF QueueOK
<1>10. QED
  BY <1>5, <1>9 DEF D, EventCall

LEMMA TakeDeliverNative ==
  ASSUME NEW G, Sound(G), DeliverNative PROVE GoodAfter(G)
<1>1. /\ calls # << >> /\ Current.kind = "native" /\ Current.at = "path" /\ Current.path # << >>
      /\ UNCHANGED << clicking, triggered, saved, synth >>
  BY DEF DeliverNative, CurrentIs, dom
<1>2. /\ Current \in EventCall /\ Current = calls[1] /\ Current.g \in G /\ Current.g \in Gesture
      /\ triggered \in BOOLEAN /\ Tail(calls) \in Seq(EventCall)
  BY <1>1, TopParts
<1>3. Current \in NativeCall /\ Current.path \in Seq(Nodes) /\ Current.target \in Nodes
  BY <1>1, <1>2, CallParts
<1> DEFINE n == Head(Current.path)
           rest == [Current EXCEPT !.path = Tail(@)]
           mid == << rest >> \o Tail(calls)
           D == DispatchFrame(Current.g, n, Current.target, FALSE, TRUE)
<1>4. n \in Nodes /\ Tail(Current.path) \in Seq(Nodes)
  BY <1>1, <1>3
<1>5. /\ rest \in NativeCall /\ rest.kind = "native" /\ rest.at = "path" /\ rest.g = Current.g
      /\ rest.target = Current.target /\ rest.script = Current.script
  BY <1>1, <1>3, <1>4 DEF NativeCall
<1>6. rest \in EventCall /\ SameCall(rest, calls[1]) /\ Fewer(rest, calls[1])
  BY <1>1, <1>2, <1>5 DEF EventCall, SameCall, Fewer
<1>7. Good(calls, clicking, triggered, saved, handlers, bound, G, Aimed)
  BY DEF Sound
<1>8. calls' = mid \/ (~ triggered /\ calls' = << D >> \o mid)
  <2>1. calls' = (IF handlers[n] = << >> \/ triggered THEN << >> ELSE << D >>) \o << rest >> \o Tail(calls)
    BY DEF DeliverNative
  <2> HIDE DEF rest, D, n
  <2>2. (<< >> \o << rest >>) \o Tail(calls) = << rest >> \o Tail(calls)
    BY <1>2, <1>6
  <2>3. (<< D >> \o << rest >>) \o Tail(calls) = << D >> \o (<< rest >> \o Tail(calls))
    BY <1>2, <1>6
  <2>4. QED
    BY <2>1, <2>2, <2>3
<1> HIDE DEF rest, D, n
<1>9. Good(mid, clicking, triggered, saved, handlers, bound, G, Aimed) /\ mid[1] = rest /\ mid # << >>
  <2>1. calls[1].at # "default" /\ rest.at # "refired" /\ \A m \in Nodes : ~ Awaits(calls[1], m)
    BY <1>1, <1>2, <1>5 DEF Awaits
  <2>2. Good(mid, clicking, IF rest.kind = "native" THEN triggered ELSE rest.at = "default", saved, handlers, bound, G, Aimed)
        /\ mid[1] = rest /\ mid # << >>
    BY <1>1, <1>2, <1>6, <1>7, <2>1, SetGood
  <2>3. QED
    BY <1>5, <2>2
<1>10. D \in EventCall /\ QueueOK(handlers, D, bound) /\ D.kind = "dispatch" /\ D.at = "next" /\ D.native
       /\ D.g = Current.g
  <2>1. D \in EventCall /\ QueueOK(handlers, D, bound)
    BY <1>2, <1>3, <1>4, FrameIs DEF D
  <2>2. QED
    BY <2>1 DEF D, DispatchFrame
<1> HIDE DEF mid
<1>11. ASSUME ~ triggered
       PROVE  Good(<< D >> \o mid, clicking, triggered, saved, handlers, bound, G, Aimed)
  <2>1. Above(D, mid[1])
    BY <1>5, <1>9, <1>10 DEF Above
  <2>2. ~ ScriptClick(D) /\ ~ ByScript(D)
    BY <1>10 DEF ScriptClick, ByScript
  <2>3. QED
    BY <1>2, <1>9, <1>10, <1>11, <2>1, <2>2, OverGood
<1>12. Good(calls', clicking, triggered, saved, handlers, bound, G, Aimed)
  BY <1>8, <1>9, <1>11
<1>13. Aimed' = Aimed /\ clicking' = clicking /\ triggered' = triggered /\ saved' = saved
  BY <1>1 DEF Aimed
<1>14. QED
  BY <1>12, <1>13 DEF GoodAfter

LEMMA TakeEndNative ==
  ASSUME NEW G, Sound(G), EndNative PROVE GoodAfter(G)
<1>1. /\ calls # << >> /\ Current.kind = "native" /\ Current.at = "path"
      /\ clicking' = IF Current.script THEN clicking \ {Current.target} ELSE clicking
      /\ calls' = Tail(calls)
      /\ UNCHANGED << triggered, saved, synth >>
  BY DEF EndNative, CurrentIs
<1>2. Current = calls[1] /\ triggered \in BOOLEAN
  BY <1>1, TopParts
<1>3. Good(calls, clicking, triggered, saved, handlers, bound, G, Aimed)
  BY DEF Sound
<1>4. clicking' = IF ScriptClick(calls[1]) THEN clicking \ {calls[1].target} ELSE clicking
  BY <1>1, <1>2 DEF ScriptClick
<1>5. triggered = IF calls[1].at = "default" THEN FALSE ELSE triggered
  BY <1>1, <1>2
<1>6. Good(Tail(calls), clicking', triggered, saved, handlers, bound, G, Aimed)
  BY <1>1, <1>2, <1>3, <1>4, <1>5, TailGood
<1>7. Aimed' = Aimed /\ triggered' = triggered /\ saved' = saved
  BY <1>1 DEF Aimed
<1>8. QED
  BY <1>1, <1>6, <1>7 DEF GoodAfter

LEMMA TakeDeliverSynth ==
  ASSUME NEW G, Sound(G), DeliverSynth PROVE GoodAfter(G)
<1>1. /\ calls # << >> /\ Current.kind = "trigger" /\ Current.at = "path" /\ Current.path # << >>
      /\ UNCHANGED << clicking, triggered, saved, synth >>
  BY DEF DeliverSynth, CurrentIs, dom
<1>2. /\ Current \in EventCall /\ Current = calls[1] /\ Current.g \in G /\ Current.g \in Gesture
      /\ triggered \in BOOLEAN /\ Tail(calls) \in Seq(EventCall) /\ ~ triggered
      /\ synth[Current.g].target \in Nodes /\ Current.g \in Aimed
  BY <1>1, TopParts DEF ByScript
<1>3. Current \in TriggerCall /\ Current.path \in Seq(Nodes) /\ Current.target \in Nodes
  BY <1>1, <1>2, CallParts
<1> DEFINE n == Head(Current.path)
           s == synth[Current.g]
           rest == [Current EXCEPT !.path = Tail(@)]
           mid == << rest >> \o Tail(calls)
           D == DispatchFrame(Current.g, n, s.target, s.ns, FALSE)
<1>4. n \in Nodes /\ Tail(Current.path) \in Seq(Nodes) /\ s.ns \in BOOLEAN /\ s.target \in Nodes
  BY <1>1, <1>2, <1>3, Types DEF Sound
<1>5. /\ rest \in TriggerCall /\ rest.kind = "trigger" /\ rest.at = "path" /\ rest.g = Current.g
      /\ rest.target = Current.target
  BY <1>1, <1>3, <1>4 DEF TriggerCall
<1>6. rest \in EventCall /\ SameCall(rest, calls[1]) /\ Fewer(rest, calls[1])
  BY <1>1, <1>2, <1>5 DEF EventCall, SameCall, Fewer
<1>7. Good(calls, clicking, triggered, saved, handlers, bound, G, Aimed)
  BY DEF Sound
<1>8. calls' = mid \/ calls' = << D >> \o mid
  <2>1. calls' = (IF handlers[n] = << >> \/ triggered THEN << >> ELSE << D >>) \o << rest >> \o Tail(calls)
    BY DEF DeliverSynth
  <2> HIDE DEF rest, D, n, s
  <2>2. (<< >> \o << rest >>) \o Tail(calls) = << rest >> \o Tail(calls)
    BY <1>2, <1>6
  <2>3. (<< D >> \o << rest >>) \o Tail(calls) = << D >> \o (<< rest >> \o Tail(calls))
    BY <1>2, <1>6
  <2>4. QED
    BY <2>1, <2>2, <2>3
<1> HIDE DEF rest, D, n, s
<1>9. Good(mid, clicking, triggered, saved, handlers, bound, G, Aimed) /\ mid[1] = rest /\ mid # << >>
  <2>1. calls[1].at # "default" /\ rest.at # "refired" /\ \A m \in Nodes : ~ Awaits(calls[1], m)
    BY <1>1, <1>2, <1>5 DEF Awaits
  <2>2. Good(mid, clicking, IF rest.kind = "native" THEN triggered ELSE rest.at = "default", saved, handlers, bound, G, Aimed)
        /\ mid[1] = rest /\ mid # << >>
    BY <1>1, <1>2, <1>6, <1>7, <2>1, SetGood
  <2>3. (IF rest.kind = "native" THEN triggered ELSE rest.at = "default") = triggered
    BY <1>2, <1>5
  <2>4. QED
    BY <2>2, <2>3
<1>10. D \in EventCall /\ QueueOK(handlers, D, bound) /\ D.kind = "dispatch" /\ D.at = "next" /\ ~ D.native
       /\ D.g = Current.g
  <2>1. D \in EventCall /\ QueueOK(handlers, D, bound)
    BY <1>2, <1>3, <1>4, FrameIs DEF D
  <2>2. QED
    BY <2>1 DEF D, DispatchFrame
<1> HIDE DEF mid
<1>11. Good(<< D >> \o mid, clicking, triggered, saved, handlers, bound, G, Aimed)
  <2>1. Above(D, mid[1])
    BY <1>5, <1>9, <1>10 DEF Above
  <2>2. ~ ScriptClick(D)
    BY <1>10 DEF ScriptClick
  <2>3. QED
    BY <1>2, <1>9, <1>10, <2>1, <2>2, OverGood
<1>12. Good(calls', clicking, triggered, saved, handlers, bound, G, Aimed)
  BY <1>8, <1>9, <1>11
<1>13. Aimed' = Aimed /\ clicking' = clicking /\ triggered' = triggered /\ saved' = saved
  BY <1>1 DEF Aimed
<1>14. QED
  BY <1>12, <1>13 DEF GoodAfter

LEMMA NativeIs ==
  ASSUME NEW g \in Gesture, NEW n \in Nodes, NEW script \in BOOLEAN
  PROVE  /\ NativeFrame(g, n, script) \in EventCall /\ NativeFrame(g, n, script).kind = "native"
         /\ NativeFrame(g, n, script).at = "path" /\ NativeFrame(g, n, script).g = g
         /\ NativeFrame(g, n, script).target = n /\ (NativeFrame(g, n, script).script <=> script)
<1>1. Path(n) \in Seq(Nodes) /\ Fresh \in StopFlags
  BY PathIs DEF Fresh, StopFlags
<1>2. NativeFrame(g, n, script) \in NativeCall
  BY <1>1 DEF NativeFrame, NativeCall
<1>3. QED
  BY <1>2 DEF EventCall, NativeFrame

\* click() is called by a script
ScriptFrame(g, n) == NativeFrame(g, n, TRUE)

LEMMA ClickIs ==
  ASSUME NEW g \in Gesture, NEW n \in Nodes
  PROVE  /\ ScriptFrame(g, n) \in EventCall /\ ScriptFrame(g, n).kind = "native"
         /\ ScriptFrame(g, n).at = "path" /\ ScriptFrame(g, n).g = g
         /\ ScriptFrame(g, n).target = n /\ ScriptClick(ScriptFrame(g, n))
<1>1. \A script \in BOOLEAN :
         /\ NativeFrame(g, n, script) \in EventCall /\ NativeFrame(g, n, script).kind = "native"
         /\ NativeFrame(g, n, script).at = "path" /\ NativeFrame(g, n, script).g = g
         /\ NativeFrame(g, n, script).target = n
  BY NativeIs
<1>2. TRUE \in BOOLEAN
  OBVIOUS
<1>3. ScriptClick(NativeFrame(g, n, TRUE))
  BY DEF NativeFrame, ScriptClick
<1>4. QED
  BY <1>1, <1>2, <1>3, Zenon DEF ScriptFrame

LEMMA TriggerIs ==
  ASSUME NEW g \in Gesture, NEW n \in Nodes, NEW only \in BOOLEAN
  PROVE  /\ TriggerFrame(g, n, only) \in EventCall /\ TriggerFrame(g, n, only).kind = "trigger"
         /\ TriggerFrame(g, n, only).at = "path" /\ TriggerFrame(g, n, only).g = g
         /\ TriggerFrame(g, n, only).target = n
         /\ TriggerFrame(g, n, only).path # << >> /\ TriggerFrame(g, n, only).path[1] = n
<1>1. Path(n) \in Seq(Nodes) /\ Path(n) # << >> /\ Path(n)[1] = n
  BY PathIs
<1> DEFINE p == IF only THEN << n >> ELSE Path(n)
<1>2. p \in Seq(Nodes) /\ p # << >> /\ p[1] = n
  BY <1>1
<1> HIDE DEF p
<1>3. TriggerFrame(g, n, only) = [kind |-> "trigger", at |-> "path", g |-> g, target |-> n, path |-> p]
  BY DEF TriggerFrame, p
<1>4. TriggerFrame(g, n, only) \in TriggerCall
  BY <1>2, <1>3 DEF TriggerCall
<1>5. QED
  BY <1>2, <1>3, <1>4 DEF EventCall

LEMMA TakeEndSynth ==
  ASSUME NEW G, Sound(G), EndSynth PROVE GoodAfter(G)
<1>1. /\ calls # << >> /\ Current.kind = "trigger" /\ Current.at = "path"
      /\ UNCHANGED << saved, synth >>
  BY DEF EndSynth, CurrentIs
<1>2. /\ Current \in EventCall /\ Current = calls[1] /\ Current.g \in G /\ Current.g \in Gesture
      /\ triggered \in BOOLEAN /\ Tail(calls) \in Seq(EventCall) /\ ~ triggered
  BY <1>1, TopParts
<1>3. Current \in TriggerCall /\ Current.path \in Seq(Nodes) /\ Current.target \in Nodes
  BY <1>1, <1>2, CallParts
<1>4. Good(calls, clicking, triggered, saved, handlers, bound, G, Aimed)
  BY DEF Sound
<1>5. Aimed' = Aimed /\ saved' = saved
  BY <1>1 DEF Aimed
<1>6. CASE DefaultNative(Current.g)
  <2> DEFINE e == [Current EXCEPT !.at = "default"]
             mid == << e >> \o Tail(calls)
             N == ScriptFrame(Current.g, Current.target)
  <2>1. /\ triggered' = TRUE /\ calls' = << N >> \o mid
        /\ clicking' = clicking \cup {Current.target} /\ Current.target \notin clicking
    BY <1>6 DEF EndSynth, Silenced, Clicked, DefaultNative, ScriptFrame
  <2>2. /\ e \in TriggerCall /\ e.kind = "trigger" /\ e.at = "default" /\ e.g = Current.g
        /\ e.target = Current.target
    BY <1>1, <1>3 DEF TriggerCall
  <2>3. e \in EventCall /\ SameCall(e, calls[1]) /\ Fewer(e, calls[1])
    BY <1>1, <1>2, <2>2 DEF EventCall, SameCall, Fewer
  <2> HIDE DEF e
  <2>4. Good(mid, clicking, TRUE, saved, handlers, bound, G, Aimed) /\ mid[1] = e /\ mid # << >>
    <3>1. calls[1].at # "default" /\ e.at # "refired" /\ \A m \in Nodes : ~ Awaits(calls[1], m)
      BY <1>1, <1>2, <2>2 DEF Awaits
    <3>2. Good(mid, clicking, IF e.kind = "native" THEN triggered ELSE e.at = "default", saved, handlers, bound, G, Aimed)
          /\ mid[1] = e /\ mid # << >>
      BY <1>1, <1>2, <1>4, <2>3, <3>1, SetGood
    <3>3. (IF e.kind = "native" THEN triggered ELSE e.at = "default") = TRUE
      BY <2>2
    <3>4. QED
      BY <3>2, <3>3
  <2>5. N \in EventCall /\ N.kind = "native" /\ N.at = "path" /\ N.g = Current.g /\ N.target = Current.target
        /\ ScriptClick(N)
    BY <1>2, <1>3, ClickIs
  <2> HIDE DEF mid, N
  <2>6. Above(N, mid[1]) /\ ScriptClick(N) /\ ~ ByScript(N) /\ QueueOK(handlers, N, bound)
    BY <2>2, <2>4, <2>5 DEF Above, ScriptClick, ByScript, QueueOK
  <2>7. clicking' = IF ScriptClick(N) THEN clicking \cup {N.target} ELSE clicking
    BY <2>1, <2>5, <2>6
  <2>8. Good(<< N >> \o mid, clicking', TRUE, saved, handlers, bound, G, Aimed)
    BY <1>2, <2>1, <2>2, <2>4, <2>5, <2>6, <2>7, OverGood
  <2>9. QED
    BY <1>5, <2>1, <2>8 DEF GoodAfter
<1>7. CASE ~ DefaultNative(Current.g)
  <2>1. calls' = Tail(calls) /\ clicking' = clicking /\ triggered' = triggered
    BY <1>7 DEF EndSynth, dom
  <2>2. clicking = IF ScriptClick(calls[1]) THEN clicking \ {calls[1].target} ELSE clicking
    BY <1>1, <1>2 DEF ScriptClick
  <2>3. triggered = IF calls[1].at = "default" THEN FALSE ELSE triggered
    BY <1>1, <1>2
  <2>4. Good(Tail(calls), clicking, triggered, saved, handlers, bound, G, Aimed)
    BY <1>1, <1>2, <1>4, <2>2, <2>3, TailGood
  <2>5. QED
    BY <1>5, <2>1, <2>4 DEF GoodAfter
<1>8. QED
  BY <1>6, <1>7

LEMMA TakeEndDefault ==
  ASSUME NEW G, Sound(G), EndDefault PROVE GoodAfter(G)
<1>1. /\ calls # << >> /\ Current.kind = "trigger" /\ Current.at = "default"
      /\ calls' = Tail(calls) /\ triggered' = FALSE
      /\ UNCHANGED << clicking, saved, synth >>
  BY DEF EndDefault, CurrentIs, dom
<1>2. Current = calls[1] /\ triggered \in BOOLEAN
  BY <1>1, TopParts
<1>3. Good(calls, clicking, triggered, saved, handlers, bound, G, Aimed)
  BY DEF Sound
<1>4. clicking = IF ScriptClick(calls[1]) THEN clicking \ {calls[1].target} ELSE clicking
  BY <1>1, <1>2 DEF ScriptClick
<1>5. FALSE = IF calls[1].at = "default" THEN FALSE ELSE triggered
  BY <1>1, <1>2
<1>6. Good(Tail(calls), clicking, FALSE, saved, handlers, bound, G, Aimed)
  BY <1>1, <1>2, <1>3, <1>4, <1>5, TailGood
<1>7. Aimed' = Aimed /\ clicking' = clicking /\ saved' = saved
  BY <1>1 DEF Aimed
<1>8. QED
  BY <1>1, <1>6, <1>7 DEF GoodAfter

LEMMA TakeEndDispatch ==
  ASSUME NEW G, Sound(G), EndDispatch PROVE GoodAfter(G)
<1>1. /\ calls # << >> /\ Current.kind = "dispatch" /\ Current.at = "next"
      /\ calls' = Tail(calls)
      /\ UNCHANGED << clicking, triggered, saved, synth >>
  BY DEF EndDispatch, CurrentIs, dom
<1>2. Current = calls[1] /\ triggered \in BOOLEAN
  BY <1>1, TopParts
<1>3. Good(calls, clicking, triggered, saved, handlers, bound, G, Aimed)
  BY DEF Sound
<1>4. clicking = IF ScriptClick(calls[1]) THEN clicking \ {calls[1].target} ELSE clicking
  BY <1>1, <1>2 DEF ScriptClick
<1>5. triggered = IF calls[1].at = "default" THEN FALSE ELSE triggered
  BY <1>1, <1>2
<1>6. Good(Tail(calls), clicking, triggered, saved, handlers, bound, G, Aimed)
  BY <1>1, <1>2, <1>3, <1>4, <1>5, TailGood
<1>7. Aimed' = Aimed /\ clicking' = clicking /\ saved' = saved /\ triggered' = triggered
  BY <1>1 DEF Aimed
<1>8. QED
  BY <1>1, <1>6, <1>7 DEF GoodAfter

LEMMA FlagsAre ==
  ASSUME NEW G, Sound(G), calls # << >>, Current.kind = "dispatch"
  PROVE  Flags \in StopFlags
<1>1. Current \in EventCall /\ Current.g \in Gesture
  BY TopParts
<1>2. Current.flags \in StopFlags
  BY <1>1, CallParts
<1>3. synth[Current.g].flags \in StopFlags
  BY <1>1, Types DEF Sound
<1>4. QED
  BY <1>2, <1>3 DEF Flags

LEMMA TakenIs ==
  ASSUME NEW G, Sound(G), Ready, NEW at \in {"next", "call", "browser", "refired"}
  PROVE  /\ calls # << >> /\ Current.kind = "dispatch" /\ Current.at = "next" /\ Current \in DispatchCall
         /\ Current.queue # << >> /\ Head(Current.queue) \in Match /\ NextItem \in Entry
         /\ Current.node \in Nodes /\ Current.native \in BOOLEAN
         /\ Taken(at) \in EventCall /\ Taken(at).kind = "dispatch" /\ Taken(at).at = at
         /\ Taken(at).g = Current.g /\ Taken(at).node = Current.node
         /\ Taken(at).native = Current.native
         /\ SameCall(Taken(at), calls[1]) /\ Fewer(Taken(at), calls[1])
<1>1. calls # << >> /\ Current.kind = "dispatch" /\ Current.at = "next" /\ Current.queue # << >>
  BY DEF Ready, CurrentIs, NothingLeft
<1>2. Current \in EventCall /\ Current = calls[1]
  BY <1>1, TopParts
<1>3. Current \in DispatchCall /\ Current.queue \in Seq(Match) /\ Current.node \in Nodes /\ Current.native \in BOOLEAN
  BY <1>1, <1>2, CallParts
<1>4. Head(Current.queue) \in Match /\ Tail(Current.queue) \in Seq(Match)
  BY <1>1, <1>3
<1>5. Head(Current.queue).elem \in Nodes /\ NextItem \in Entry
  BY <1>4 DEF Match, NextItem, Entry
<1>6. Taken(at) \in DispatchCall
  BY <1>3, <1>4, <1>5 DEF Taken, DispatchCall
<1>7. /\ Taken(at).kind = "dispatch" /\ Taken(at).at = at
      /\ Taken(at).g = Current.g /\ Taken(at).node = Current.node
      /\ Taken(at).native = Current.native /\ Taken(at).queue = Tail(Current.queue)
  BY <1>1, <1>3 DEF Taken, DispatchCall
<1>8. SameCall(Taken(at), calls[1])
  BY <1>1, <1>2, <1>7 DEF SameCall
<1>9. Fewer(Taken(at), calls[1])
  <2>1. ASSUME NEW i \in 1 .. Len(Tail(Current.queue))
        PROVE  i + 1 \in 1 .. Len(Current.queue) /\ Tail(Current.queue)[i] = Current.queue[i + 1]
    BY <1>1, <1>3
  <2>2. QED
    BY <1>2, <1>7, <2>1 DEF Fewer
<1>10. QED
  BY <1>1, <1>3, <1>4, <1>5, <1>6, <1>7, <1>8, <1>9 DEF EventCall

LEMMA GoesGood ==
  ASSUME NEW G, Sound(G), Ready, NEW at \in {"next", "call", "browser", "refired"},
         at = "refired" => Awaited(calls, Current.node, 2)
  PROVE  /\ Good(<< Taken(at) >> \o Tail(calls), clicking, triggered, saved, handlers, bound, G, Aimed)
         /\ (<< Taken(at) >> \o Tail(calls))[1] = Taken(at) /\ << Taken(at) >> \o Tail(calls) # << >>
         /\ ~ triggered
<1>1. /\ calls # << >> /\ Current.kind = "dispatch" /\ Current.at = "next"
      /\ Taken(at) \in EventCall /\ Taken(at).kind = "dispatch" /\ Taken(at).at = at
      /\ Taken(at).node = Current.node
      /\ SameCall(Taken(at), calls[1]) /\ Fewer(Taken(at), calls[1])
  BY TakenIs
<1>2. Current = calls[1] /\ triggered \in BOOLEAN /\ ~ triggered
  BY <1>1, TopParts
<1>3. Good(calls, clicking, triggered, saved, handlers, bound, G, Aimed)
  BY DEF Sound
<1>4. calls[1].at # "default" /\ \A m \in Nodes : ~ Awaits(calls[1], m)
  BY <1>1, <1>2 DEF Awaits
<1> DEFINE a == Taken(at)
<1>5. a \in EventCall /\ a.kind = "dispatch" /\ a.at = at /\ a.node = Current.node
      /\ SameCall(a, calls[1]) /\ Fewer(a, calls[1])
  BY <1>1
<1> HIDE DEF a
<1>6. a.at = "refired" => Awaited(calls, a.node, 2)
  BY <1>5
<1>7. Good(<< a >> \o Tail(calls), clicking, IF a.kind = "native" THEN triggered ELSE a.at = "default", saved, handlers, bound, G, Aimed)
      /\ (<< a >> \o Tail(calls))[1] = a /\ << a >> \o Tail(calls) # << >>
  BY <1>1, <1>2, <1>3, <1>4, <1>5, <1>6, SetGood
<1>8. (IF a.kind = "native" THEN triggered ELSE a.at = "default") = triggered
  BY <1>2, <1>5
<1>9. Good(<< a >> \o Tail(calls), clicking, triggered, saved, handlers, bound, G, Aimed)
  BY <1>7, <1>8
<1>10. QED
  BY <1>2, <1>7, <1>9 DEF a

LEMMA SubSeqIs ==
  ASSUME NEW X, NEW s \in Seq(X), NEW m \in 1 .. Len(s) + 1
  PROVE  /\ SubSeq(s, m, Len(s)) \in Seq(X) /\ Len(SubSeq(s, m, Len(s))) = Len(s) - m + 1
         /\ \A k \in 1 .. Len(s) - m + 1 : SubSeq(s, m, Len(s))[k] = s[m + k - 1]
  OBVIOUS

LEMMA MarkedGood ==
  ASSUME NEW G, Sound(G), calls # << >>, Current.kind = "dispatch", Current.at # "next",
         NEW fl \in StopFlags, Marked(fl, "next"),
         NEW sv, Good(calls, clicking, triggered, sv, handlers, bound, G, Aimed),
         \A n \in Nodes : Awaits(calls[1], n) => sv[n] \in {Undefined, False}
  PROVE  Good(calls', clicking, triggered, sv, handlers, bound, G, Aimed) /\ Aimed' = Aimed
<1>1. /\ Current \in EventCall /\ Current = calls[1] /\ calls \in Seq(EventCall)
      /\ Tail(calls) \in Seq(EventCall) /\ Current.g \in Gesture
      /\ triggered \in BOOLEAN /\ Nested(calls)
  BY TopParts
<1>2. Current \in DispatchCall /\ Current.at # "default" /\ Current.native \in BOOLEAN
  BY <1>1, CallParts
<1>3. ~ triggered
  BY <1>2, TopParts
<1>4. CASE ~ Current.native
  <2> DEFINE a == [Current EXCEPT !.at = "next"]
  <2>1. a \in DispatchCall /\ a.kind = "dispatch" /\ a.at = "next" /\ SameCall(a, Current) /\ Fewer(a, Current)
    BY <1>2 DEF DispatchCall, SameCall, Fewer
  <2>2. calls' = << a >> \o Tail(calls) /\ synth' = [synth EXCEPT ![Current.g].flags = fl]
    BY <1>4 DEF Marked
  <2> HIDE DEF a
  <2>3. a \in EventCall /\ SameCall(a, calls[1]) /\ Fewer(a, calls[1])
    BY <1>1, <2>1 DEF EventCall
  <2>4. Good(<< a >> \o Tail(calls), clicking, IF a.kind = "native" THEN triggered ELSE a.at = "default", sv, handlers, bound, G, Aimed)
    BY <1>1, <1>2, <2>1, <2>3, SetGood
  <2>5. (IF a.kind = "native" THEN triggered ELSE a.at = "default") = triggered
    BY <1>3, <2>1, <1>1
  <2>6. Aimed' = Aimed
    <3>1. synth \in [Gesture -> [target : Nodes \cup {Nil}, ns : BOOLEAN, only : BOOLEAN, flags : StopFlags]]
      BY DEF Sound, EventsTypeOK
    <3>2. \A g \in Gesture : synth'[g].target = synth[g].target
      BY <1>1, <2>2, <3>1
    <3>3. QED
      BY <3>2 DEF Aimed
  <2>7. Good(<< a >> \o Tail(calls), clicking, triggered, sv, handlers, bound, G, Aimed)
    BY <2>4, <2>5
  <2>8. QED
    BY <2>2, <2>6, <2>7
<1>5. CASE Current.native
  <2> DEFINE a == [Current EXCEPT !.flags = fl, !.at = "next"]
             b == [calls[2] EXCEPT !.flags.stopped = @ \/ fl.stopped]
             c == SubSeq(calls, 3, Len(calls))
             u == << a, b >> \o c
  <2>1. a \in DispatchCall /\ a.kind = "dispatch" /\ a.at = "next" /\ SameCall(a, Current) /\ Fewer(a, Current)
    BY <1>2 DEF DispatchCall, SameCall, Fewer
  <2>2. calls' = u /\ synth' = synth
    BY <1>5 DEF Marked
  <2>3. Len(calls) \in Nat /\ Len(calls) > 0
    BY <1>1
  <2>4. Len(calls) # 1
    BY <1>1 DEF Nested
  <2>5. 1 \in 1 .. Len(calls) - 1 /\ 1 + 1 = 2 /\ 2 \in 1 .. Len(calls)
    <3> DEFINE N == Len(calls)
    <3>1. N \in Nat /\ N > 0 /\ N # 1
      BY <2>3, <2>4
    <3> HIDE DEF N
    <3>2. 1 \in 1 .. N - 1 /\ 2 \in 1 .. N
      BY <3>1
    <3>3. QED
      BY <3>2 DEF N
  <2>6. Above(calls[1], calls[2]) /\ calls[2] \in EventCall
    BY <1>1, <2>5 DEF Nested
  <2>7. calls[2].kind = "native"
    BY <1>1, <1>5, <2>6 DEF Above, ScriptClick
  <2>8. calls[2] \in NativeCall /\ calls[2].flags \in StopFlags
    BY <2>6, <2>7, CallParts
  <2>9. b \in NativeCall /\ b.kind = "native" /\ b.at = calls[2].at /\ SameCall(b, calls[2]) /\ Fewer(b, calls[2])
    BY <2>7, <2>8 DEF NativeCall, StopFlags, SameCall, Fewer
  <2>10. a \in EventCall /\ b \in EventCall
    BY <2>1, <2>9 DEF EventCall
  <2> HIDE DEF a, b
  <2>22. c \in Seq(EventCall) /\ Len(c) = Len(calls) - 2 /\ \A k \in 1 .. Len(calls) - 2 : c[k] = calls[k + 2]
    <3>1. 3 \in 1 .. Len(calls) + 1 /\ Len(calls) \in 0 .. Len(calls)
      BY <2>3, <2>5
    <3>2. /\ c \in Seq(EventCall) /\ Len(c) = Len(calls) - 3 + 1
          /\ \A k \in 1 .. Len(calls) - 3 + 1 : c[k] = calls[3 + k - 1]
      BY <1>1, <3>1, SubSeqIs
    <3>3. Len(c) = Len(calls) - 2
      BY <2>3, <3>2
    <3> HIDE DEF c
    <3>5. ASSUME NEW k \in 1 .. Len(calls) - 2 PROVE c[k] = calls[k + 2]
      <4>1. k \in 1 .. Len(calls) - 3 + 1 /\ 3 + k - 1 = k + 2
        BY <2>3
      <4>2. QED
        BY <3>2, <4>1
    <3>6. QED
      BY <3>2, <3>3, <3>5
  <2> HIDE DEF c
  <2>11. u \in Seq(EventCall) /\ Len(u) = Len(calls) /\ u[1] = a /\ u[2] = b
    BY <2>3, <2>10, <2>22
  <2>12. \A k \in 3 .. Len(calls) : u[k] = calls[k]
    <3>1. ASSUME NEW k \in 3 .. Len(calls) PROVE k - 2 \in 1 .. Len(calls) - 2 /\ (k - 2) + 2 = k
      BY <2>3
    <3>2. ASSUME NEW k \in 3 .. Len(calls) PROVE u[k] = c[k - 2]
      BY <2>3, <2>10, <2>22, <3>1
    <3>3. QED
      BY <2>22, <3>1, <3>2
  <2> HIDE DEF u
  <2>13. \A k \in 1 .. Len(calls) : k = 1 \/ k = 2 \/ k \in 3 .. Len(calls)
    OBVIOUS
  <2>14. \A k \in 1 .. Len(calls) : SameCall(u[k], calls[k]) /\ Fewer(u[k], calls[k])
    <3>1. \A k \in 3 .. Len(calls) : SameCall(calls[k], calls[k]) /\ Fewer(calls[k], calls[k])
      BY DEF SameCall, Fewer
    <3>2. QED
      BY <1>1, <2>1, <2>9, <2>11, <2>12, <2>13, <3>1
  <2>15. \A k \in 2 .. Len(calls) : u[k].at = calls[k].at
    <3>1. \A k \in 2 .. Len(calls) : k = 2 \/ k \in 3 .. Len(calls)
      OBVIOUS
    <3>2. QED
      BY <2>9, <2>11, <2>12, <3>1
  <2>16. Reshaped(calls, u)
    BY <2>11, <2>14, <2>15 DEF Reshaped
  <2>17. Good(u, clicking, IF u[1].kind = "native" THEN triggered ELSE u[1].at = "default", sv, handlers, bound, G, Aimed)
    BY <1>1, <1>2, <2>1, <2>11, <2>14, <2>16, ReshapeGood
  <2>18. (IF u[1].kind = "native" THEN triggered ELSE u[1].at = "default") = triggered
    BY <1>1, <1>3, <2>1, <2>11
  <2>19. Aimed' = Aimed
    BY <2>2 DEF Aimed
  <2>20. Good(u, clicking, triggered, sv, handlers, bound, G, Aimed)
    BY <2>17, <2>18
  <2>21. QED
    BY <2>2, <2>19, <2>20
<1>6. QED
  BY <1>4, <1>5

LEMMA AimedKept ==
  ASSUME EventsTypeOK, NEW g \in Gesture, NEW fl, synth' = [synth EXCEPT ![g].flags = fl]
  PROVE  Aimed' = Aimed
<1>1. synth \in [Gesture -> [target : Nodes \cup {Nil}, ns : BOOLEAN, only : BOOLEAN, flags : StopFlags]]
  BY DEF EventsTypeOK
<1>2. \A h \in Gesture : synth'[h].target = synth[h].target
  BY <1>1
<1>3. QED
  BY <1>2 DEF Aimed

\* what is kept is undefined, false, or awaited
LEMMA KeptSet ==
  ASSUME NEW st, NEW sv \in [Nodes -> Private], Kept(st, sv), NEW n \in Nodes, NEW v,
         v \in {Undefined, False}
           \/ \E j \in 1 .. Len(st) : Awaits(st[j], n) /\ (v.what = "args" => st[j].g = v.g)
  PROVE  Kept(st, [sv EXCEPT ![n] = v])
<1> DEFINE sw == [sv EXCEPT ![n] = v]
<1>1. sw[n] = v /\ \A m \in Nodes : m # n => sw[m] = sv[m]
  OBVIOUS
<1> HIDE DEF sw
<1>2. ASSUME NEW m \in Nodes
      PROVE  sw[m] \in {Undefined, False}
             \/ \E j \in 1 .. Len(st) : Awaits(st[j], m) /\ (sw[m].what = "args" => st[j].g = sw[m].g)
  <2>1. CASE m = n
    BY <1>1, <2>1
  <2>2. CASE m # n
    BY <1>1, <2>2 DEF Kept
  <2>3. QED
    BY <2>1, <2>2
<1>3. QED
  BY <1>2 DEF Kept, sw

LEMMA TakeCallHandler ==
  ASSUME NEW G, Sound(G), CallHandler PROVE GoodAfter(G)
<1>1. /\ Ready /\ calls' = << Taken("call") >> \o Tail(calls)
      /\ UNCHANGED << clicking, triggered, saved, synth >>
  BY DEF CallHandler, Goes, dom
<1>2. Good(<< Taken("call") >> \o Tail(calls), clicking, triggered, saved, handlers, bound, G, Aimed)
  BY <1>1, GoesGood
<1>3. Aimed' = Aimed /\ clicking' = clicking /\ saved' = saved /\ triggered' = triggered
  BY <1>1 DEF Aimed
<1>4. QED
  BY <1>1, <1>2, <1>3 DEF GoodAfter

LEMMA TakePass ==
  ASSUME NEW G, Sound(G), Pass PROVE GoodAfter(G)
<1>1. /\ Ready /\ calls' = << Taken("next") >> \o Tail(calls)
      /\ UNCHANGED << clicking, triggered, saved, synth >>
  BY DEF Pass, Goes, dom
<1>2. Good(<< Taken("next") >> \o Tail(calls), clicking, triggered, saved, handlers, bound, G, Aimed)
  BY <1>1, GoesGood
<1>3. Aimed' = Aimed /\ clicking' = clicking /\ saved' = saved /\ triggered' = triggered
  BY <1>1 DEF Aimed
<1>4. QED
  BY <1>1, <1>2, <1>3 DEF GoodAfter

LEMMA TakeReturns ==
  ASSUME NEW G, Sound(G), Returns PROVE GoodAfter(G)
<1>1. /\ calls # << >> /\ Current.kind = "dispatch" /\ Current.at = "call"
      /\ calls' = << [Current EXCEPT !.at = "next"] >> \o Tail(calls)
      /\ UNCHANGED << clicking, triggered, saved, synth >>
  BY DEF Returns, CurrentIs, dom
<1>2. Current \in EventCall /\ Current = calls[1] /\ triggered \in BOOLEAN /\ ~ triggered
  BY <1>1, TopParts
<1>3. Current \in DispatchCall
  BY <1>1, <1>2, CallParts
<1> DEFINE a == [Current EXCEPT !.at = "next"]
<1>4. a \in DispatchCall /\ a.kind = "dispatch" /\ a.at = "next" /\ SameCall(a, Current) /\ Fewer(a, Current)
  BY <1>3 DEF DispatchCall, SameCall, Fewer
<1>5. calls' = << a >> \o Tail(calls)
  BY <1>1
<1> HIDE DEF a
<1>6. a \in EventCall /\ SameCall(a, calls[1]) /\ Fewer(a, calls[1])
  BY <1>2, <1>4 DEF EventCall
<1>7. Good(calls, clicking, triggered, saved, handlers, bound, G, Aimed)
  BY DEF Sound
<1>8. calls[1].at # "default" /\ \A m \in Nodes : ~ Awaits(calls[1], m)
  BY <1>1, <1>2 DEF Awaits
<1>9. Good(<< a >> \o Tail(calls), clicking, IF a.kind = "native" THEN triggered ELSE a.at = "default", saved, handlers, bound, G, Aimed)
  BY <1>1, <1>2, <1>4, <1>6, <1>7, <1>8, SetGood
<1>10. (IF a.kind = "native" THEN triggered ELSE a.at = "default") = triggered
  BY <1>2, <1>4
<1>11. Good(<< a >> \o Tail(calls), clicking, triggered, saved, handlers, bound, G, Aimed)
  BY <1>9, <1>10
<1>12. Aimed' = Aimed /\ clicking' = clicking /\ saved' = saved /\ triggered' = triggered
  BY <1>1 DEF Aimed
<1>13. QED
  BY <1>5, <1>11, <1>12 DEF GoodAfter

LEMMA TakeReturnsFalse ==
  ASSUME NEW G, Sound(G), ReturnsFalse PROVE GoodAfter(G)
<1> DEFINE fl == [Flags EXCEPT !.stopped = TRUE, !.prevented = TRUE]
<1>1. /\ calls # << >> /\ Current.kind = "dispatch" /\ Current.at = "call"
      /\ Marked(fl, "next")
      /\ UNCHANGED << clicking, triggered, saved >>
  BY DEF ReturnsFalse, CurrentIs, dom
<1>2. fl \in StopFlags
  BY <1>1, FlagsAre DEF StopFlags
<1> HIDE DEF fl
<1>3. Current = calls[1]
  BY <1>1, TopParts
<1>4. Good(calls, clicking, triggered, saved, handlers, bound, G, Aimed)
  BY DEF Sound
<1>5. \A n \in Nodes : Awaits(calls[1], n) => saved[n] \in {Undefined, False}
  BY <1>1, <1>3 DEF Awaits
<1>6. Current.at # "next"
  BY <1>1
<1>7. Good(calls', clicking, triggered, saved, handlers, bound, G, Aimed) /\ Aimed' = Aimed
  BY <1>1, <1>2, <1>4, <1>5, <1>6, MarkedGood
<1>8. clicking' = clicking /\ saved' = saved /\ triggered' = triggered
  BY <1>1
<1>9. QED
  BY <1>7, <1>8 DEF GoodAfter

LEMMA TakeReturnsStopped ==
  ASSUME NEW G, Sound(G), ReturnsStopped PROVE GoodAfter(G)
<1> DEFINE fl == [Flags EXCEPT !.stopped = TRUE, !.immediate = TRUE]
<1>1. /\ calls # << >> /\ Current.kind = "dispatch" /\ Current.at = "call"
      /\ Marked(fl, "next")
      /\ UNCHANGED << clicking, triggered, saved >>
  BY DEF ReturnsStopped, CurrentIs, dom
<1>2. fl \in StopFlags
  BY <1>1, FlagsAre DEF StopFlags
<1> HIDE DEF fl
<1>3. Current = calls[1]
  BY <1>1, TopParts
<1>4. Good(calls, clicking, triggered, saved, handlers, bound, G, Aimed)
  BY DEF Sound
<1>5. \A n \in Nodes : Awaits(calls[1], n) => saved[n] \in {Undefined, False}
  BY <1>1, <1>3 DEF Awaits
<1>6. Current.at # "next"
  BY <1>1
<1>7. Good(calls', clicking, triggered, saved, handlers, bound, G, Aimed) /\ Aimed' = Aimed
  BY <1>1, <1>2, <1>4, <1>5, <1>6, MarkedGood
<1>8. clicking' = clicking /\ saved' = saved /\ triggered' = triggered
  BY <1>1
<1>9. QED
  BY <1>7, <1>8 DEF GoodAfter

LEMMA TakeRefired ==
  ASSUME NEW G, Sound(G), Refired PROVE GoodAfter(G)
<1> DEFINE fl == [Flags EXCEPT !.stopped = TRUE, !.immediate = TRUE]
<1>1. /\ calls # << >> /\ Current.kind = "dispatch" /\ Current.at = "refired"
      /\ Marked(fl, "next") /\ saved' = [saved EXCEPT ![Current.node] = Captured]
      /\ UNCHANGED << clicking, triggered >>
  BY DEF Refired, CurrentIs, dom, Remember
<1>2. fl \in StopFlags
  BY <1>1, FlagsAre DEF StopFlags
<1> HIDE DEF fl
<1>3. Current = calls[1] /\ Current \in EventCall /\ 1 \in 1 .. Len(calls) /\ Nested(calls) /\ Kept(calls, saved)
  BY <1>1, TopParts
<1>4. Current.node \in Nodes
  BY <1>1, <1>3, CallParts
<1>5. saved \in [Nodes -> Private]
  BY Types DEF Sound
<1>6. Kept(calls, saved')
  <2>1. Awaited(calls, Current.node, 1 + 1)
    BY <1>1, <1>3 DEF Nested
  <2>2. PICK j \in 1 .. Len(calls) : Awaits(calls[j], Current.node)
    BY <2>1 DEF Awaited
  <2>3. Captured.what # "args"
    BY DEF Captured
  <2>4. Kept(calls, [saved EXCEPT ![Current.node] = Captured])
    BY <1>3, <1>4, <1>5, <2>2, <2>3, KeptSet
  <2>5. QED
    BY <1>1, <2>4
<1>7. Good(calls, clicking, triggered, saved', handlers, bound, G, Aimed)
  BY <1>6, GoodKept DEF Sound
<1>8. \A n \in Nodes : Awaits(calls[1], n) => saved'[n] \in {Undefined, False}
  BY <1>1, <1>3 DEF Awaits
<1>9. Current.at # "next"
  BY <1>1
<1>10. Good(calls', clicking, triggered, saved', handlers, bound, G, Aimed) /\ Aimed' = Aimed
  BY <1>1, <1>2, <1>7, <1>8, <1>9, MarkedGood
<1>11. clicking' = clicking /\ triggered' = triggered
  BY <1>1
<1>12. QED
  BY <1>10, <1>11 DEF GoodAfter

LEMMA TakeResume ==
  ASSUME NEW G, Sound(G), Resume PROVE GoodAfter(G)
<1>1. /\ calls # << >> /\ Current.kind = "dispatch" /\ Current.at = "browser"
      /\ saved' = [saved EXCEPT ![Current.node] = False]
      /\ UNCHANGED << clicking, triggered >>
  BY DEF Resume, CurrentIs, dom, Remember
<1>2. Current = calls[1] /\ Current \in EventCall /\ 1 \in 1 .. Len(calls) /\ Kept(calls, saved)
  BY <1>1, TopParts
<1>3. Current.node \in Nodes
  BY <1>1, <1>2, CallParts
<1>4. saved \in [Nodes -> Private]
  BY Types DEF Sound
<1>5. PICK fl \in StopFlags : Marked(fl, "next")
  <2>1. [stopped |-> TRUE, immediate |-> TRUE, prevented |-> TRUE] \in StopFlags
    BY DEF StopFlags
  <2>2. Flags \in StopFlags
    BY <1>1, FlagsAre
  <2>3. QED
    BY <2>1, <2>2 DEF Resume
<1>6. Kept(calls, saved')
  <2>1. Kept(calls, [saved EXCEPT ![Current.node] = False])
    BY <1>2, <1>3, <1>4, KeptSet
  <2>2. QED
    BY <1>1, <2>1
<1>7. Good(calls, clicking, triggered, saved', handlers, bound, G, Aimed)
  BY <1>6, GoodKept DEF Sound
<1>8. \A n \in Nodes : Awaits(calls[1], n) => saved'[n] \in {Undefined, False}
  <2>1. saved'[Current.node] = False
    BY <1>1, <1>3, <1>4
  <2>2. QED
    BY <1>2, <2>1 DEF Awaits
<1>9. Current.at # "next"
  BY <1>1
<1>10. Good(calls', clicking, triggered, saved', handlers, bound, G, Aimed) /\ Aimed' = Aimed
  BY <1>1, <1>5, <1>7, <1>8, <1>9, MarkedGood
<1>11. clicking' = clicking /\ triggered' = triggered
  BY <1>1
<1>12. QED
  BY <1>10, <1>11 DEF GoodAfter

LEMMA TakeInterrupt ==
  ASSUME NEW G, Sound(G), Interrupt PROVE GoodAfter(G)
<1>1. /\ Ready /\ ~ Current.native /\ UNCHANGED << triggered, synth >>
  BY DEF Interrupt
<1>2. /\ calls # << >> /\ Current.kind = "dispatch" /\ Current.at = "next"
      /\ Current.node \in Nodes
  BY <1>1, TakenIs
<1>3. saved \in [Nodes -> Private] /\ Current.g \in Gesture /\ Current.g \in G /\ triggered \in BOOLEAN
  BY <1>2, Types, TopParts DEF Sound
<1>4. Aimed' = Aimed /\ triggered' = triggered
  BY <1>1 DEF Aimed
<1>5. CASE Current.node \in clicking
  <2>1. /\ saved' = [saved EXCEPT ![Current.node] = False]
        /\ calls' = << Taken("next") >> \o Tail(calls) /\ clicking' = clicking
    BY <1>5 DEF Interrupt, Remember, Goes, dom
  <2>2. Good(calls', clicking, triggered, saved, handlers, bound, G, Aimed)
    BY <1>1, <2>1, GoesGood
  <2>3. Kept(calls', saved)
    BY <2>2 DEF Good
  <2>4. Kept(calls', [saved EXCEPT ![Current.node] = False])
    BY <1>2, <1>3, <2>3, KeptSet
  <2>5. Good(calls', clicking, triggered, saved', handlers, bound, G, Aimed)
    BY <2>1, <2>2, <2>4, GoodKept
  <2>6. QED
    BY <1>4, <2>1, <2>5 DEF GoodAfter
<1>6. CASE Current.node \notin clicking
  <2> DEFINE a == Taken("browser")
             mid == << a >> \o Tail(calls)
             N == ScriptFrame(Current.g, Current.node)
             v == Args(Current.g)
  <2>1. /\ saved' = [saved EXCEPT ![Current.node] = v]
        /\ calls' = << N >> \o mid /\ clicking' = clicking \cup {Current.node}
    BY <1>6 DEF Interrupt, Remember, Clicked, ScriptFrame
  <2>2. Good(mid, clicking, triggered, saved, handlers, bound, G, Aimed) /\ mid[1] = a /\ mid # << >> /\ ~ triggered
    BY <1>1, GoesGood
  <2>3. a \in EventCall /\ a.kind = "dispatch" /\ a.at = "browser" /\ a.g = Current.g /\ a.node = Current.node
        /\ ~ a.native
    BY <1>1, TakenIs
  <2>4. N \in EventCall /\ N.kind = "native" /\ N.at = "path" /\ N.g = Current.g /\ N.target = Current.node
        /\ ScriptClick(N)
    BY <1>2, <1>3, ClickIs
  <2> HIDE DEF mid, N, a
  <2>5. Above(N, mid[1]) /\ ~ ByScript(N) /\ QueueOK(handlers, N, bound)
    BY <2>2, <2>3, <2>4 DEF Above, ByScript, QueueOK
  <2>6. clicking' = IF ScriptClick(N) THEN clicking \cup {N.target} ELSE clicking
    BY <2>1, <2>4
  <2>7. Good(<< N >> \o mid, clicking', triggered, saved, handlers, bound, G, Aimed) /\ Over(mid, N, << N >> \o mid)
    BY <1>3, <1>6, <2>2, <2>4, <2>5, <2>6, OverGood
  <2>8. Kept(calls', saved) /\ Over(mid, N, calls')
    BY <2>1, <2>7 DEF Good
  <2>9. 2 \in 1 .. Len(calls') /\ calls'[2] = a
    <3>1. 1 \in 1 .. Len(mid)
      <4>1. mid \in Seq(EventCall)
        BY <2>2 DEF Good
      <4>2. QED
        BY <2>2, <4>1
    <3>2. Len(mid) \in Nat /\ Len(calls') = Len(mid) + 1 /\ calls'[1 + 1] = mid[1]
      BY <2>8, <3>1 DEF Over
    <3>3. QED
      BY <2>2, <3>1, <3>2
  <2>10. v.g = Current.g
    BY DEF Args
  <2> HIDE DEF v
  <2>11. Awaits(calls'[2], Current.node) /\ calls'[2].g = v.g
    BY <2>3, <2>9, <2>10 DEF Awaits
  <2>12. Kept(calls', [saved EXCEPT ![Current.node] = v])
    BY <1>2, <1>3, <2>8, <2>9, <2>11, KeptSet
  <2>13. Good(calls', clicking', triggered, saved', handlers, bound, G, Aimed)
    BY <2>1, <2>7, <2>12, GoodKept
  <2>14. QED
    BY <1>4, <2>13 DEF GoodAfter
<1>7. QED
  BY <1>5, <1>6

LEMMA ArgsAwaited ==
  ASSUME NEW G, Sound(G), Ready, HasArgs(Current.node)
  PROVE  /\ Awaited(calls, Current.node, 2)
         /\ saved[Current.node].g \in G /\ saved[Current.node].g \in Gesture
         /\ saved[Current.node].g \in Aimed
<1>1. /\ calls # << >> /\ Current.kind = "dispatch" /\ Current.at = "next"
      /\ Current.node \in Nodes
  BY TakenIs
<1>2. Current = calls[1] /\ Kept(calls, saved)
  BY <1>1, TopParts
<1>3. saved[Current.node] \notin {Undefined, False}
  BY DEF HasArgs, Undefined, False
<1>4. PICK j \in 1 .. Len(calls) : Awaits(calls[j], Current.node) /\ calls[j].g = saved[Current.node].g
  BY <1>1, <1>2, <1>3 DEF Kept, HasArgs
<1>5. j # 1
  BY <1>1, <1>2, <1>4 DEF Awaits
<1>6. calls[j].g \in G /\ calls[j].g \in Aimed
  BY <1>4 DEF Sound, Good, Within, ByScript, Awaits
<1>7. QED
  BY <1>4, <1>5, <1>6 DEF Awaited, Aimed

LEMMA TakeRefire ==
  ASSUME NEW G, Sound(G), Refire PROVE GoodAfter(G)
<1> DEFINE g == saved[Current.node].g
           a == Taken("refired")
           mid == << a >> \o Tail(calls)
           T == TriggerFrame(g, Current.node, FALSE)
<1>1. /\ Ready /\ HasArgs(Current.node) /\ UNCHANGED << clicking, triggered, saved >>
      /\ synth' = [synth EXCEPT ![g].flags = Fresh]
      /\ calls' = << T, a >> \o Tail(calls)
  BY DEF Refire, dom
<1>2. Awaited(calls, Current.node, 2) /\ g \in G /\ g \in Gesture /\ g \in Aimed
  BY <1>1, ArgsAwaited
<1>3. /\ calls # << >> /\ Current.kind = "dispatch" /\ Current.at = "next"
      /\ Current.node \in Nodes
      /\ a \in EventCall /\ a.kind = "dispatch" /\ a.at = "refired"
  BY <1>1, TakenIs
<1>4. triggered \in BOOLEAN /\ Tail(calls) \in Seq(EventCall)
  BY <1>3, TopParts
<1>5. Good(mid, clicking, triggered, saved, handlers, bound, G, Aimed) /\ mid[1] = a /\ mid # << >> /\ ~ triggered
  BY <1>1, <1>2, GoesGood
<1>6. T \in EventCall /\ T.kind = "trigger" /\ T.at = "path" /\ T.g = g
  <2> HIDE DEF g
  <2>1. \A only \in BOOLEAN : /\ TriggerFrame(g, Current.node, only) \in EventCall
                              /\ TriggerFrame(g, Current.node, only).kind = "trigger"
                              /\ TriggerFrame(g, Current.node, only).at = "path"
                              /\ TriggerFrame(g, Current.node, only).g = g
    BY <1>2, <1>3, TriggerIs
  <2>2. FALSE \in BOOLEAN
    OBVIOUS
  <2>3. QED
    BY <2>1, <2>2, Zenon
<1>7. Aimed' = Aimed
  <2> HIDE DEF g
  <2>1. QED
    BY <1>1, <1>2, AimedKept DEF Sound
<1>8. clicking' = clicking /\ saved' = saved /\ triggered' = triggered
  BY <1>1
<1> HIDE DEF g, T, a
<1>9. calls' = << T >> \o mid
  <2>1. << T, a >> \o Tail(calls) = << T >> \o (<< a >> \o Tail(calls))
    BY <1>3, <1>4, <1>6
  <2>2. QED
    BY <1>1, <2>1
<1> HIDE DEF mid
<1>10. Above(T, mid[1]) /\ ~ ScriptClick(T) /\ QueueOK(handlers, T, bound)
  BY <1>3, <1>5, <1>6 DEF Above, ScriptClick, QueueOK
<1>11. Good(<< T >> \o mid, clicking, triggered, saved, handlers, bound, G, Aimed)
  BY <1>2, <1>4, <1>5, <1>6, <1>10, OverGood
<1>12. QED
  BY <1>7, <1>8, <1>9, <1>11 DEF GoodAfter

LEMMA TakeThrows ==
  ASSUME NEW G, Sound(G), Throws PROVE GoodAfter(G)
<1>1. /\ calls # << >> /\ Current.kind = "dispatch" /\ Current.at = "call"
      /\ UNCHANGED << clicking, triggered, saved, synth >>
  BY DEF Throws, CurrentIs, dom
<1>2. PICK k \in 2 .. Len(calls) + 1 :
        /\ \A j \in 2 .. (k - 1) : calls[j].kind # "native"
        /\ calls' = SubSeq(calls, k, Len(calls))
  BY DEF Throws
<1>3. /\ Current \in EventCall /\ Current = calls[1] /\ calls \in Seq(EventCall)
      /\ triggered \in BOOLEAN /\ ~ triggered /\ Nested(calls) /\ Defaults(calls, triggered)
  BY <1>1, TopParts
<1>4. \A j \in 1 .. Len(calls) : calls[j].at # "default"
  BY <1>3 DEF Defaults
<1>5. k \in 1 .. Len(calls) + 1 /\ k \in Int /\ k >= 2 /\ Len(calls) \in Nat /\ k <= Len(calls) + 1
  BY <1>3
<1>6. Dropped(calls, k, calls')
  <2>1. /\ calls' \in Seq(EventCall) /\ Len(calls') = Len(calls) - k + 1
        /\ \A j \in 1 .. Len(calls) - k + 1 : calls'[j] = calls[k + j - 1]
    BY <1>2, <1>3, <1>5, SubSeqIs
  <2>2. Len(calls') = Len(calls) - (k - 1)
    BY <1>5, <2>1
  <2>3. ASSUME NEW j \in 1 .. Len(calls') PROVE calls'[j] = calls[j + (k - 1)]
    <3>1. j \in 1 .. Len(calls) - k + 1 /\ k + j - 1 = j + (k - 1)
      BY <1>5, <2>1
    <3>2. QED
      BY <2>1, <3>1
  <2>4. QED
    BY <2>1, <2>2, <2>3 DEF Dropped
<1>7. \A j \in 2 .. k - 1 : j \in 1 .. Len(calls)
  BY <1>5
<1>8. \A j \in 2 .. k - 1 : ~ ScriptClick(calls[j]) /\ calls[j].at # "default"
  BY <1>2, <1>4, <1>7 DEF ScriptClick
<1>9. ASSUME NEW j \in 1 .. k - 1, calls[j].at = "browser" PROVE FALSE
  <2>1. j # 1
    BY <1>1, <1>3, <1>9
  <2>2. j \in 2 .. k - 1 /\ j - 1 \in 1 .. Len(calls) - 1 /\ (j - 1) + 1 = j /\ j \in 1 .. Len(calls)
        /\ (j - 1 = 1 \/ j - 1 \in 2 .. k - 1)
    BY <1>5, <2>1
  <2>3. Above(calls[j - 1], calls[j])
    BY <1>3, <2>2 DEF Nested
  <2>4. calls[j].kind = "dispatch"
    BY <1>3, <1>9, <2>2, CallParts
  <2>5. ScriptClick(calls[j - 1])
    BY <1>9, <2>3, <2>4 DEF Above
  <2>6. QED
    BY <1>1, <1>2, <1>3, <2>2, <2>5 DEF ScriptClick
<1>10. Good(calls, clicking, triggered, saved, handlers, bound, G, Aimed)
  BY DEF Sound
<1>11. clicking = IF ScriptClick(calls[1]) THEN clicking \ {calls[1].target} ELSE clicking
  BY <1>1, <1>3 DEF ScriptClick
<1>12. triggered = IF calls[1].at = "default" THEN FALSE ELSE triggered
  BY <1>1, <1>3
<1>13. Good(calls', clicking, triggered, saved, handlers, bound, G, Aimed)
  BY <1>1, <1>3, <1>6, <1>8, <1>9, <1>10, <1>11, <1>12, DropGood
<1>14. Aimed' = Aimed /\ clicking' = clicking /\ saved' = saved /\ triggered' = triggered
  BY <1>1 DEF Aimed
<1>15. QED
  BY <1>13, <1>14 DEF GoodAfter

-----------------------------------------------------------------------------
(* The lists after each step *)

\* nothing is bound but under a number that was not used, or the controller
NewAbove(hs, hw, bd) ==
    \A m \in Nodes : \A it \in Entry : Among(hw[m], it) => Among(hs[m], it) \/ it.nr = 0 \/ it.nr > bd

LEMMA QueuesNewAbove ==
  ASSUME NEW st \in Seq(EventCall), NEW hs, NEW hw, NEW bd \in Int, NEW bw \in Int, bd <= bw,
         QueuesOK(hs, st, bd), NewAbove(hs, hw, bd)
  PROVE  QueuesOK(hw, st, bw)
<1>1. ASSUME NEW k \in 1 .. Len(st) PROVE QueueOK(hw, st[k], bw)
  <2>1. QueueOK(hs, st[k], bd) /\ st[k] \in EventCall
    BY DEF QueuesOK
  <2>2. SUFFICES ASSUME st[k].kind = "dispatch", NEW i \in 1 .. Len(st[k].queue)
                 PROVE  /\ st[k].queue[i].item.nr <= bw
                        /\ st[k].queue[i].item.nr # 0 =>
                             \A m \in Nodes : \A it \in Entry :
                                Among(hw[m], it) /\ it.nr = st[k].queue[i].item.nr
                                   => m = st[k].node /\ it = st[k].queue[i].item
    BY DEF QueueOK
  <2>3. st[k].queue \in Seq(Match)
    BY <2>1, <2>2, CallParts
  <2>4. st[k].queue[i].item \in Entry
    <3>1. st[k].queue[i] \in Match
      BY <2>3
    <3>2. QED
      BY <3>1 DEF Match, Entry
  <2>5. st[k].queue[i].item.nr \in Int
    <3>1. st[k].queue[i].item.nr \in 0 .. MaxBound
      BY <2>4, ItemParts
    <3>2. QED
      BY <3>1
  <2> DEFINE q == st[k].queue[i].item
  <2>6. q.nr <= bd
        /\ (q.nr # 0 => \A m \in Nodes : \A it \in Entry : Among(hs[m], it) /\ it.nr = q.nr => m = st[k].node /\ it = q)
    BY <2>1, <2>2 DEF QueueOK
  <2>7. q.nr \in Int
    BY <2>5
  <2> HIDE DEF q
  <2>8. q.nr <= bw
    BY <2>6, <2>7
  <2>9. ASSUME q.nr # 0, NEW m \in Nodes, NEW it \in Entry, Among(hw[m], it), it.nr = q.nr
        PROVE  m = st[k].node /\ it = q
    <3>1. ~ (it.nr = 0) /\ ~ (it.nr > bd)
      BY <2>6, <2>7, <2>9
    <3>2. Among(hs[m], it)
      BY <2>9, <3>1 DEF NewAbove
    <3>3. QED
      BY <2>6, <2>9, <3>2
  <2>10. QED
    BY <2>8, <2>9 DEF q
<1>2. QED
  BY <1>1 DEF QueuesOK

\* the list of n alone changes, into t with the first e items delegated
Replaced(hs, dc, sv, bd, n, t, e, new, hw, dw, sw, bw) ==
    /\ hs \in [Nodes -> Seq(Entry)] /\ dc \in [Nodes -> Nat]
    /\ bd \in Int /\ bw \in Int /\ 0 <= bd /\ bd <= bw
    /\ ListsOK(hs, dc, sv, bd)
    /\ n \in Nodes /\ t \in Seq(Entry) /\ e \in Nat /\ FrontOK(t, e)
    /\ n \in Checkable => Led(t, e) /\ (sw[n] = Undefined => t = << >>)
    /\ \A m \in Nodes : m # n => sw[m] = sv[m]
    /\ \A it \in Entry : Among(t, it) =>
          Among(hs[n], it) \/ it.nr = 0 \/ (it = new /\ it.nr > bd /\ it.nr <= bw)
    /\ hw = [hs EXCEPT ![n] = t] /\ dw = [dc EXCEPT ![n] = e]

LEMMA OneNode ==
  ASSUME NEW hs, NEW dc, NEW sv, NEW bd, NEW n, NEW t, NEW e, NEW new, NEW hw, NEW dw, NEW sw, NEW bw,
         Replaced(hs, dc, sv, bd, n, t, e, new, hw, dw, sw, bw)
  PROVE  /\ hw \in [Nodes -> Seq(Entry)] /\ dw \in [Nodes -> Nat]
         /\ ListsOK(hw, dw, sw, bw) /\ NewAbove(hs, hw, bd)
<1> USE DEF Replaced
<1>1. /\ hw \in [Nodes -> Seq(Entry)] /\ dw \in [Nodes -> Nat]
      /\ hw[n] = t /\ dw[n] = e
      /\ \A m \in Nodes : m # n => hw[m] = hs[m] /\ dw[m] = dc[m]
  OBVIOUS
<1>2. \A it \in Entry : it.nr \in Int
  <2>1. \A it \in Entry : it.nr \in 0 .. MaxBound
    BY ItemParts
  <2>2. QED
    BY <2>1
<1>3. \A m \in Nodes : \A it \in Entry : Among(hs[m], it) => it.nr <= bd
  BY DEF ListsOK
<1>4. ASSUME NEW m \in Nodes, NEW it \in Entry, Among(hw[m], it)
      PROVE  Among(hs[m], it) \/ it.nr = 0 \/ (m = n /\ it = new /\ it.nr > bd /\ it.nr <= bw)
  BY <1>1, <1>4
<1>5. NewAbove(hs, hw, bd)
  BY <1>4 DEF NewAbove
<1>6. ASSUME NEW m \in Nodes
      PROVE  /\ FrontOK(hw[m], dw[m])
             /\ m \in Checkable => Led(hw[m], dw[m]) /\ (sw[m] = Undefined => hw[m] = << >>)
             /\ \A it \in Entry : Among(hw[m], it) => it.nr <= bw
  <2>1. ASSUME NEW it \in Entry, Among(hw[m], it) PROVE it.nr <= bw
    BY <1>2, <1>3, <1>4, <2>1
  <2>2. CASE m = n
    BY <1>1, <2>1, <2>2
  <2>3. CASE m # n
    <3>1. hw[m] = hs[m] /\ dw[m] = dc[m] /\ sw[m] = sv[m]
      BY <1>1, <2>3
    <3>2. /\ FrontOK(hs[m], dc[m])
          /\ m \in Checkable => Led(hs[m], dc[m]) /\ (sv[m] = Undefined => hs[m] = << >>)
      BY DEF ListsOK
    <3>3. QED
      BY <2>1, <3>1, <3>2
  <2>4. QED
    BY <2>2, <2>3
<1>7. ASSUME NEW l \in Nodes, NEW m \in Nodes, NEW a \in Entry, NEW b \in Entry,
             Among(hw[l], a), Among(hw[m], b), a.nr = b.nr, a.nr # 0
      PROVE  l = m /\ a = b
  <2>1. Among(hs[l], a) \/ (l = n /\ a = new /\ a.nr > bd)
    BY <1>4, <1>7
  <2>2. Among(hs[m], b) \/ (m = n /\ b = new /\ b.nr > bd)
    BY <1>4, <1>7
  <2>3. a.nr \in Int /\ b.nr \in Int
    BY <1>2
  <2>4. CASE Among(hs[l], a)
    <3>1. a.nr <= bd
      BY <1>3, <2>4
    <3>2. Among(hs[m], b)
      BY <1>7, <2>2, <2>3, <3>1
    <3>3. QED
      BY <1>7, <2>4, <3>2 DEF ListsOK
  <2>5. CASE l = n /\ a = new /\ a.nr > bd
    <3>1. ~ Among(hs[m], b)
      BY <1>3, <1>7, <2>3, <2>5
    <3>2. QED
      BY <2>2, <2>5, <3>1
  <2>6. QED
    BY <2>1, <2>4, <2>5
<1>8. ListsOK(hw, dw, sw, bw)
  BY <1>6, <1>7 DEF ListsOK
<1>9. QED
  BY <1>1, <1>5, <1>8

\* the lists as they are, and as they will be
ListsNow == /\ handlers \in [Nodes -> Seq(Entry)] /\ delegateCount \in [Nodes -> Nat]
            /\ saved \in [Nodes -> Private] /\ bound \in Nat
            /\ ListsOK(handlers, delegateCount, saved, bound)

\* ... and they have their types
Relisted == /\ handlers' \in [Nodes -> Seq(Entry)] /\ delegateCount' \in [Nodes -> Nat]
            /\ ListsOK(handlers', delegateCount', saved', bound')
            /\ NewAbove(handlers, handlers', bound)

\* nothing is added to any list
Fewer2(hs, hw) == \A m \in Nodes : \A it \in Entry : Among(hw[m], it) => Among(hs[m], it)

LEMMA RemovedLists ==
  ASSUME ListsNow, NEW n \in Nodes, NEW f, NEW sel, NEW ns \in BOOLEAN, Removed(n, f, sel, ns),
         UNCHANGED << saved, bound >>
  PROVE  /\ Relisted
         /\ Fewer2(handlers, handlers')
         /\ \A it \in Entry : Among(handlers'[n], it) => ~ Matches(it, f, sel, ns)
<1> DEFINE S == {it \in HandleObj \cup {Controller} : ~ Matches(it, f, sel, ns)}
           t == Only(handlers[n], S)
           e == Cardinality({k \in 1 .. Len(t) : t[k].sel # Nil})
<1>1. /\ handlers[n] \in Seq(Entry) /\ FrontOK(handlers[n], delegateCount[n])
      /\ n \in Checkable => Led(handlers[n], delegateCount[n]) /\ (saved[n] = Undefined => handlers[n] = << >>)
  BY DEF ListsNow, ListsOK
<1>2. handlers' = [handlers EXCEPT ![n] = t]
  BY DEF Removed
<1>3. handlers'[n] = t
  BY <1>2 DEF ListsNow
<1>4. delegateCount' = [delegateCount EXCEPT ![n] = e]
  <2>1. delegateCount' = [delegateCount EXCEPT ![n] =
                            Cardinality({k \in 1 .. Len(handlers'[n]) : handlers'[n][k].sel # Nil})]
    BY DEF Removed
  <2> HIDE DEF t
  <2>2. QED
    BY <1>3, <2>1
<1>5. \A it \in Entry : it \in S => ~ Matches(it, f, sel, ns)
  BY DEF Entry
<1>6. t \in Seq(Entry) /\ \A it : Among(t, it) <=> (Among(handlers[n], it) /\ it \in S)
  <2> HIDE DEF S
  <2>1. QED
    BY <1>1, OnlyHas
<1>7. FrontOK(t, e) /\ (Led(handlers[n], delegateCount[n]) /\ Controller \in S => Led(t, e))
  <2> HIDE DEF S
  <2> DEFINE d == delegateCount[n]
             u == t
             c == e
  <2>1. FrontOK(handlers[n], d) /\ u = Only(handlers[n], S) /\ c = Cardinality({k \in 1 .. Len(u) : u[k].sel # Nil})
    BY <1>1
  <2> HIDE DEF d, u, c
  <2>2. FrontOK(u, c) /\ (Led(handlers[n], d) /\ Controller \in S => Led(u, c))
    BY <1>1, <2>1, OnlyFront
  <2>3. QED
    BY <2>2 DEF d, u, c
<1>8. e \in Nat
  BY <1>7 DEF FrontOK
<1>9. Controller \notin S => t = << >>
  <2>1. SUFFICES ASSUME Controller \notin S PROVE t = << >>
    OBVIOUS
  <2>2. Matches(Controller, f, sel, ns)
    BY <2>1
  <2>3. f = Nil /\ ~ ns /\ sel = Nil
    BY <2>2 DEF Matches, Controller, NotGiven
  <2>4. S = {}
    BY <2>3 DEF Matches, NotGiven
  <2>5. \A it : ~ Among(t, it)
    BY <1>6, <2>4
  <2> HIDE DEF t
  <2>6. Len(t) = 0
    <3>1. Len(t) \in Nat
      BY <1>6
    <3>2. ~ (1 \in 1 .. Len(t))
      BY <2>5 DEF Among
    <3>3. QED
      BY <3>1, <3>2
  <2>7. QED
    BY <1>6, <2>6
<1> HIDE DEF t, e, S
<1>10. n \in Checkable => Led(t, e) /\ (saved[n] = Undefined => t = << >>)
  <2>1. SUFFICES ASSUME n \in Checkable PROVE Led(t, e) /\ (saved[n] = Undefined => t = << >>)
    OBVIOUS
  <2>2. Led(t, e)
    BY <1>1, <1>7, <1>9, <2>1 DEF Led
  <2>3. ASSUME handlers[n] = << >> PROVE t = << >>
    <3>3. \A it : ~ Among(handlers[n], it)
      BY <2>3 DEF Among
    <3>1. \A it : ~ Among(t, it)
      BY <1>6, <3>3
    <3>2. Len(t) \in Nat /\ ~ (1 \in 1 .. Len(t))
      BY <1>6, <3>1 DEF Among
    <3>4. QED
      BY <1>6, <3>2
  <2>4. QED
    BY <1>1, <2>1, <2>2, <2>3
<1>11. \A it \in Entry : Among(t, it) => Among(handlers[n], it)
  BY <1>6
<1>12. Relisted
  <2> DEFINE hs == handlers
             dc == delegateCount
             hw == handlers'
             dw == delegateCount'
             sv == saved
             bd == bound
  <2>1. /\ hs \in [Nodes -> Seq(Entry)] /\ dc \in [Nodes -> Nat] /\ bd \in Int /\ 0 <= bd /\ bd <= bd
        /\ ListsOK(hs, dc, sv, bd)
    BY DEF ListsNow
  <2>2. hw = [hs EXCEPT ![n] = t] /\ dw = [dc EXCEPT ![n] = e]
    BY <1>2, <1>4
  <2>3. \A it \in Entry : Among(t, it) =>
            Among(hs[n], it) \/ it.nr = 0 \/ (it = Controller /\ it.nr > bd /\ it.nr <= bd)
    BY <1>11
  <2>4. n \in Checkable => Led(t, e) /\ (sv[n] = Undefined => t = << >>)
    BY <1>10
  <2>5. saved' = sv /\ bound' = bd
    OBVIOUS
  <2> HIDE DEF hs, dc, hw, dw, sv, bd
  <2>6. /\ hw \in [Nodes -> Seq(Entry)] /\ dw \in [Nodes -> Nat]
        /\ ListsOK(hw, dw, sv, bd) /\ NewAbove(hs, hw, bd)
    <3>1. t \in Seq(Entry) /\ e \in Nat /\ FrontOK(t, e)
      BY <1>6, <1>7, <1>8
    <3>2. Replaced(hs, dc, sv, bd, n, t, e, Controller, hw, dw, sv, bd)
      BY <2>1, <2>2, <2>3, <2>4, <3>1 DEF Replaced
    <3>3. QED
      BY <3>2, OneNode
  <2>7. QED
    BY <2>5, <2>6 DEF Relisted, hs, dc, hw, dw, sv, bd
<1>13. Fewer2(handlers, handlers')
  <2>1. \A m \in Nodes : m # n => handlers'[m] = handlers[m]
    BY <1>2 DEF ListsNow
  <2>2. QED
    BY <1>3, <1>11, <2>1 DEF Fewer2
<1>14. \A it \in Entry : Among(handlers'[n], it) => ~ Matches(it, f, sel, ns)
  BY <1>3, <1>5, <1>6
<1>15. QED
  BY <1>12, <1>13, <1>14

LEMMA FormIs ==
  ASSUME NEW form \in Forms, NEW sel \in Nodes \cup {Nil}, NEW nr \in 1 .. MaxBound
  PROVE  [fn |-> form.fn, sel |-> sel, ns |-> form.ns, one |-> form.one, nr |-> nr] \in HandleObj
<1>1. {form.ns, form.one} \subseteq BOOLEAN
  BY EventsAssumption
<1>2. form.ns \in BOOLEAN /\ form.one \in BOOLEAN
  BY <1>1, Zenon
<1>3. form.fn \in UserFns
  BY DEF UserFns
<1>4. QED
  BY <1>2, <1>3 DEF HandleObj

LEMMA BoundLists ==
  ASSUME ListsNow, NEW n \in Nodes, NEW item \in HandleObj, Added(n, item),
         item.nr = bound + 1, bound' = bound + 1
  PROVE  Relisted /\ \A m \in Nodes : \A it \in Entry : Among(handlers'[m], it) =>
                        Among(handlers[m], it) \/ it = Controller \/ it = item
<1> DEFINE d == delegateCount[n]
           first == IF NeedsSetup(n) THEN << Controller >> ELSE handlers[n]
           t == Insert(first, item, d)
           e == d + IF item.sel = Nil THEN 0 ELSE 1
<1>1. /\ handlers[n] \in Seq(Entry) /\ FrontOK(handlers[n], d)
      /\ n \in Checkable => Led(handlers[n], d) /\ (saved[n] = Undefined => handlers[n] = << >>)
  BY DEF ListsNow, ListsOK
<1>2. handlers' = [handlers EXCEPT ![n] = t]
  BY DEF Added
<1>3. delegateCount' = [delegateCount EXCEPT ![n] = e]
  <2>1. delegateCount' = [delegateCount EXCEPT ![n] = @ + (IF item.sel = Nil THEN 0 ELSE 1)]
    BY DEF Added
  <2>2. QED
    BY <2>1
<1>4. /\ first \in Seq(Entry) /\ FrontOK(first, d)
      /\ n \in Checkable => first # << >> /\ Led(first, d)
      /\ \A it : Among(first, it) => Among(handlers[n], it) \/ it = Controller
  <2>1. CASE NeedsSetup(n)
    <3>1. first = << Controller >> /\ handlers[n] = << >>
      BY <2>1 DEF NeedsSetup
    <3>2. d = 0
      BY <1>1, <3>1 DEF FrontOK
    <3> HIDE DEF first, d
    <3>3. first \in Seq(Entry) /\ Len(first) = 1 /\ first[1] = Controller /\ first # << >>
      BY <3>1 DEF Entry
    <3>4. Controller.sel = Nil
      BY DEF Controller
    <3>5. FrontOK(first, d)
      BY <3>2, <3>3, <3>4 DEF FrontOK
    <3>6. Led(first, d)
      BY <3>2, <3>3 DEF Led
    <3>7. \A it : Among(first, it) => it = Controller
      BY <3>3 DEF Among
    <3>8. QED
      BY <3>3, <3>5, <3>6, <3>7
  <2>2. CASE ~ NeedsSetup(n)
    <3>1. first = handlers[n] /\ (n \in Checkable => handlers[n] # << >>)
      BY <2>2 DEF NeedsSetup
    <3> HIDE DEF first, d
    <3>2. QED
      BY <1>1, <3>1
  <2>3. QED
    BY <2>1, <2>2
<1>5. item.nr \in 1 .. MaxBound /\ bound \in Nat
  BY DEF HandleObj, ListsNow
<1> HIDE DEF first, d
<1>6. /\ t \in Seq(Entry) /\ t # << >> /\ FrontOK(t, e)
      /\ \A it : Among(t, it) <=> Among(first, it) \/ it = item
      /\ first # << >> /\ Led(first, d) => Led(t, e)
  BY <1>4, InsertParts
<1>7. e \in Nat
  BY <1>6 DEF FrontOK
<1>8. n \in Checkable => saved'[n] # Undefined
  <2>1. CASE NeedsSetup(n)
    <3>1. saved' = [saved EXCEPT ![n] = False]
      BY <2>1 DEF Added, Remember
    <3>2. saved'[n] = False
      BY <3>1 DEF ListsNow
    <3>3. QED
      BY <3>2 DEF False, Undefined
  <2>2. CASE ~ NeedsSetup(n)
    <3>1. saved' = saved
      BY <2>2 DEF Added
    <3>2. QED
      BY <1>1, <2>2, <3>1 DEF NeedsSetup
  <2>3. QED
    BY <2>1, <2>2
<1>9. \A m \in Nodes : m # n => saved'[m] = saved[m]
  BY DEF Added, Remember, ListsNow
<1>10. n \in Checkable => Led(t, e)
  BY <1>4, <1>6
<1> HIDE DEF t, e
<1>11. Relisted
  <2> DEFINE hs == handlers
             dc == delegateCount
             hw == handlers'
             dw == delegateCount'
             sv == saved
             sw == saved'
             bd == bound
             bw == bound'
  <2>1. /\ hs \in [Nodes -> Seq(Entry)] /\ dc \in [Nodes -> Nat] /\ bd \in Int /\ 0 <= bd
        /\ ListsOK(hs, dc, sv, bd)
    BY DEF ListsNow
  <2>2. hw = [hs EXCEPT ![n] = t] /\ dw = [dc EXCEPT ![n] = e]
    BY <1>2, <1>3
  <2>3. bw = bd + 1 /\ bw \in Int /\ bd <= bw /\ item.nr = bw
    BY <1>5
  <2>4. n \in Checkable => Led(t, e) /\ (sw[n] = Undefined => t = << >>)
    BY <1>8, <1>10
  <2>5. \A m \in Nodes : m # n => sw[m] = sv[m]
    BY <1>9
  <2> HIDE DEF hs, dc, hw, dw, sv, bd, sw, bw
  <2>6. \A it \in Entry : Among(t, it) =>
            Among(hs[n], it) \/ it.nr = 0 \/ (it = item /\ it.nr > bd /\ it.nr <= bw)
    <3>1. Controller.nr = 0
      BY DEF Controller
    <3>2. \A it \in Entry : Among(t, it) => Among(hs[n], it) \/ it = Controller \/ it = item
      BY <1>4, <1>6 DEF hs
    <3>3. item.nr > bd /\ item.nr <= bw
      BY <2>1, <2>3
    <3>4. QED
      BY <3>1, <3>2, <3>3
  <2>7. Replaced(hs, dc, sv, bd, n, t, e, item, hw, dw, sw, bw)
    BY <1>6, <1>7, <2>1, <2>2, <2>3, <2>4, <2>5, <2>6 DEF Replaced
  <2>8. /\ hw \in [Nodes -> Seq(Entry)] /\ dw \in [Nodes -> Nat]
        /\ ListsOK(hw, dw, sw, bw) /\ NewAbove(hs, hw, bd)
    BY <2>7, OneNode
  <2>9. QED
    BY <2>8 DEF Relisted, hs, dc, hw, dw, sw, bd, bw
<1>12. ASSUME NEW m \in Nodes, NEW it \in Entry, Among(handlers'[m], it)
       PROVE  Among(handlers[m], it) \/ it = Controller \/ it = item
  <2>1. CASE m = n
    <3>1. handlers'[m] = t
      BY <1>2, <2>1 DEF ListsNow
    <3>2. QED
      BY <1>4, <1>6, <1>12, <2>1, <3>1
  <2>2. CASE m # n
    <3>1. handlers'[m] = handlers[m]
      BY <1>2, <2>2 DEF ListsNow
    <3>2. QED
      BY <1>12, <3>1
  <2>3. QED
    BY <2>1, <2>2
<1>13. QED
  BY <1>11, <1>12

\* the list is empty, or nothing but the controller
LEMMA ResetLists ==
  ASSUME ListsNow, NEW n \in Nodes, NEW t, t \in {<< >>, << Controller >>},
         handlers' = [handlers EXCEPT ![n] = t], delegateCount' = [delegateCount EXCEPT ![n] = 0],
         \A m \in Nodes : m # n => saved'[m] = saved[m],
         t # << >> => saved'[n] # Undefined, bound' = bound
  PROVE  Relisted /\ \A m \in Nodes : \A it \in Entry : Among(handlers'[m], it) =>
                        Among(handlers[m], it) \/ it = Controller
<1>1. t \in Seq(Entry) /\ \A k \in 1 .. Len(t) : k = 1 /\ t[k] = Controller
  <2>1. CASE t = << >>
    BY <2>1
  <2>2. CASE t = << Controller >>
    <3>1. t \in Seq(Entry) /\ Len(t) = 1 /\ t[1] = Controller
      BY <2>2 DEF Entry
    <3>2. QED
      BY <3>1
  <2>3. QED
    BY <2>1, <2>2
<1>2. t # << >> => Len(t) = 1
  OBVIOUS
<1>3. \A it : Among(t, it) => it = Controller
  BY <1>1 DEF Among
<1>4. FrontOK(t, 0) /\ Led(t, 0)
  <2>1. Controller.sel = Nil
    BY DEF Controller
  <2>2. FrontOK(t, 0)
    BY <1>1, <2>1 DEF FrontOK
  <2>3. Led(t, 0)
    BY <1>1, <1>2 DEF Led
  <2>4. QED
    BY <2>2, <2>3
<1>5. Relisted
  <2> DEFINE hs == handlers
             dc == delegateCount
             hw == handlers'
             dw == delegateCount'
             sv == saved
             sw == saved'
             bd == bound
  <2>1. /\ hs \in [Nodes -> Seq(Entry)] /\ dc \in [Nodes -> Nat] /\ bd \in Int /\ 0 <= bd /\ bd <= bd
        /\ ListsOK(hs, dc, sv, bd)
    BY DEF ListsNow
  <2>2. hw = [hs EXCEPT ![n] = t] /\ dw = [dc EXCEPT ![n] = 0] /\ bound' = bd
    OBVIOUS
  <2>4. n \in Checkable => Led(t, 0) /\ (sw[n] = Undefined => t = << >>)
    BY <1>4
  <2>5. \A m \in Nodes : m # n => sw[m] = sv[m]
    OBVIOUS
  <2> HIDE DEF hs, dc, hw, dw, sv, bd, sw
  <2>6. \A it \in Entry : Among(t, it) =>
            Among(hs[n], it) \/ it.nr = 0 \/ (it = Controller /\ it.nr > bd /\ it.nr <= bd)
    BY <1>3 DEF Controller
  <2>7. Replaced(hs, dc, sv, bd, n, t, 0, Controller, hw, dw, sw, bd)
    BY <1>1, <1>4, <2>1, <2>2, <2>4, <2>5, <2>6 DEF Replaced
  <2>8. /\ hw \in [Nodes -> Seq(Entry)] /\ dw \in [Nodes -> Nat]
        /\ ListsOK(hw, dw, sw, bd) /\ NewAbove(hs, hw, bd)
    BY <2>7, OneNode
  <2>9. QED
    BY <2>2, <2>8 DEF Relisted, hs, dc, hw, dw, sw, bd
<1>6. ASSUME NEW m \in Nodes, NEW it \in Entry, Among(handlers'[m], it)
      PROVE  Among(handlers[m], it) \/ it = Controller
  <2>1. CASE m = n
    <3>1. handlers'[m] = t
      BY <2>1 DEF ListsNow
    <3>2. QED
      BY <1>3, <1>6, <3>1
  <2>2. CASE m # n
    <3>1. handlers'[m] = handlers[m]
      BY <2>2 DEF ListsNow
    <3>2. QED
      BY <1>6, <3>1
  <2>3. QED
    BY <2>1, <2>2
<1>7. QED
  BY <1>5, <1>6

-----------------------------------------------------------------------------
(* The inductive invariant *)

\* a handler for one event that was called is bound no more
LogOK(hs, lg, bd) ==
    \A g \in Gesture :
        /\ \A x \in lg[g].called : x <= bd
        /\ \A n \in Nodes : \A it \in Entry : Among(hs[n], it) /\ it.one => it.nr \notin lg[g].called

\* what is done first in a gesture that triggers a click on a check box
Starts(g) ==
    LET n == synth[g].target
    IN /\ calls # << >> /\ Current.g = g
       /\ n \in Checkable /\ n \notin clicking /\ ~ HasArgs(n)
       /\ ~ synth[g].only /\ ~ synth[g].flags.stopped
       /\ \/ /\ Current.kind = "trigger" /\ Current.at = "path"
             /\ Current.path # << >> /\ Head(Current.path) = n
             /\ handlers[n] # << >> /\ ~ triggered
          \/ /\ Current.kind = "dispatch" /\ Current.at = "next" /\ Current.node = n /\ ~ Current.native
             /\ Current.elem = Nil /\ Current.queue # << >> /\ Head(Current.queue).item = Controller

\* until the box has changed, a gesture is at its start, or it is over, and no handler was called
StartOK ==
    \A g \in 1 .. gestures :
        ~ log[g].toggled /\ ~ log[g].within /\ ~ log[g].old =>
            log[g].called = {} /\ (Starts(g) \/ ~ UnderWay(g))

(* The inductive invariant: the types, the lists, what the calls under way *)
(* and the lists say of each other, handlers for one event, and how a      *)
(* gesture starts.                                                         *)
EventsIInv ==
    /\ EventsTypeOK
    /\ ListsOK(handlers, delegateCount, saved, bound)
    /\ Good(calls, clicking, triggered, saved, handlers, bound, Gesture, Aimed)
    /\ LogOK(handlers, log, bound)
    /\ StartOK

LogRec == [due : SUBSET (1 .. MaxBound), called : SUBSET (1 .. MaxBound),
           twice : BOOLEAN, broken : BOOLEAN, toggled : BOOLEAN, within : BOOLEAN, old : BOOLEAN]

SynthRec == [target : Nodes \cup {Nil}, ns : BOOLEAN, only : BOOLEAN, flags : StopFlags]

\* the types of all but the lists and the stack
RestOK == /\ saved \in [Nodes -> Private]
          /\ detached \in SUBSET Nodes /\ clicking \in SUBSET Nodes /\ triggered \in BOOLEAN
          /\ synth \in [Gesture -> SynthRec]
          /\ gestures \in 0 .. MaxGestures /\ bound \in 0 .. MaxBound
          /\ log \in [Gesture -> LogRec]

\* a step that leaves the history of calls alone
LogKept ==
    \A g \in Gesture :
        /\ log'[g].called = log[g].called /\ log'[g].within = log[g].within /\ log'[g].old = log[g].old
        /\ log[g].toggled => log'[g].toggled

\* those under way
Gestures == {g \in Gesture : UnderWay(g)}

LEMMA IInvParts ==
  ASSUME EventsIInv
  PROVE  Sound(Gesture) /\ Sound(Gestures) /\ ListsNow /\ RestOK
<1>1. Sound(Gesture)
  BY DEF EventsIInv, Sound
<1>2. \A k \in 1 .. Len(calls) : calls[k].g \in Gestures
  <2>1. \A k \in 1 .. Len(calls) : calls[k].g \in Gesture
    BY DEF EventsIInv, Good, Within
  <2>2. QED
    BY <2>1 DEF Gestures, UnderWay
<1>3. Good(calls, clicking, triggered, saved, handlers, bound, Gestures, Aimed)
  BY <1>2 DEF EventsIInv, Good, Within
<1>4. Sound(Gestures)
  BY <1>1, <1>3 DEF Sound, Gestures
<1>5. ListsNow
  BY Types DEF EventsIInv, ListsNow
<1>6. RestOK
  BY Types DEF EventsIInv, RestOK, EventsTypeOK, SynthRec, LogRec
<1>7. QED
  BY <1>1, <1>4, <1>5, <1>6

LEMMA TypesAfter ==
  ASSUME RestOK', Relisted, calls' \in Seq(EventCall)
  PROVE  EventsTypeOK'
  BY DEF RestOK, Relisted, EventsTypeOK, SynthRec, LogRec, EventCall, Entry

\* a gesture that is over does not come back
LEMMA StartsKept ==
  ASSUME StartOK, gestures' = gestures, LogKept, Within(calls', Gestures, Aimed'),
         gestures \in 0 .. MaxGestures, MaxGestures \in Nat,
         \A g \in 1 .. gestures : Starts(g) => Starts(g)' \/ log'[g].toggled
  PROVE  StartOK'
<1>1. ASSUME NEW g \in 1 .. gestures, ~ log'[g].toggled, ~ log'[g].within, ~ log'[g].old
      PROVE  log'[g].called = {} /\ (Starts(g)' \/ ~ UnderWay(g)')
  <2>1. g \in Gesture
    BY DEF Gesture
  <2>2. ~ log[g].toggled /\ ~ log[g].within /\ ~ log[g].old /\ log'[g].called = log[g].called
    BY <1>1, <2>1 DEF LogKept
  <2>3. log[g].called = {} /\ (Starts(g) \/ ~ UnderWay(g))
    BY <2>2 DEF StartOK
  <2>4. ASSUME ~ UnderWay(g) PROVE ~ UnderWay(g)'
    <3>1. g \notin Gestures
      BY <2>4 DEF Gestures
    <3>2. \A k \in 1 .. Len(calls') : calls'[k].g \in Gestures
      BY DEF Within
    <3>3. QED
      BY <3>1, <3>2 DEF UnderWay
  <2>5. QED
    BY <1>1, <2>2, <2>3, <2>4
<1>2. QED
  BY <1>1 DEF StartOK

LEMMA LogKeptOK ==
  ASSUME LogOK(handlers, log, bound), LogKept, Fewer2(handlers, handlers'), bound' = bound
  PROVE  LogOK(handlers', log', bound')
  BY DEF LogOK, LogKept, Fewer2

\* the part of the steps that change no list
LEMMA QuietStep ==
  ASSUME EventsIInv, UNCHANGED binding, GoodAfter(Gesture), GoodAfter(Gestures),
         \A n \in Nodes : saved'[n] = Undefined => saved[n] = Undefined,
         RestOK', LogKept, gestures' = gestures,
         \A g \in 1 .. gestures : Starts(g) => Starts(g)' \/ log'[g].toggled
  PROVE  EventsIInv'
<1>1. ListsNow /\ RestOK
  BY IInvParts
<1>2. handlers' = handlers /\ delegateCount' = delegateCount /\ bound' = bound
  BY DEF binding
<1>3. ListsOK(handlers, delegateCount, saved', bound)
  BY <1>1 DEF ListsNow, ListsOK
<1>4. Relisted
  BY <1>1, <1>2, <1>3 DEF Relisted, ListsNow, NewAbove
<1>5. calls' \in Seq(EventCall)
  BY DEF GoodAfter, Good
<1>6. EventsTypeOK'
  BY <1>4, <1>5, TypesAfter
<1>7. Good(calls', clicking', triggered', saved', handlers', bound', Gesture, Aimed')
  BY <1>2 DEF GoodAfter
<1>8. LogOK(handlers', log', bound')
  BY <1>2, LogKeptOK DEF EventsIInv, Fewer2
<1>9. StartOK'
  <2>1. Within(calls', Gestures, Aimed')
    BY DEF GoodAfter, Good
  <2>2. gestures \in 0 .. MaxGestures /\ MaxGestures \in Nat
    BY <1>1, EventsAssumption DEF RestOK
  <2>3. QED
    BY <2>1, <2>2, StartsKept DEF EventsIInv
<1>10. ListsOK(handlers', delegateCount', saved', bound')
  BY <1>4 DEF Relisted
<1>11. QED
  BY <1>6, <1>7, <1>8, <1>9, <1>10 DEF EventsIInv

LogAfter == log' \in [Gesture -> LogRec] /\ LogKept

LEMMA LogSame ==
  ASSUME log \in [Gesture -> LogRec], log' = log
  PROVE  LogAfter
  BY DEF LogAfter, LogKept

LEMMA LogChanged ==
  ASSUME log \in [Gesture -> LogRec], NEW g \in Gesture, NEW b \in BOOLEAN,
         \/ log' = [log EXCEPT ![g].broken = b]
         \/ log' = [log EXCEPT ![g].toggled = TRUE]
  PROVE  LogAfter
<1>1. CASE log' = [log EXCEPT ![g].broken = b]
  <2>1. [log[g] EXCEPT !.broken = b] \in LogRec
    BY DEF LogRec
  <2>2. log' \in [Gesture -> LogRec]
    BY <1>1, <2>1
  <2>3. LogKept
    BY <1>1 DEF LogKept
  <2>4. QED
    BY <2>2, <2>3 DEF LogAfter
<1>2. CASE log' = [log EXCEPT ![g].toggled = TRUE]
  <2>1. [log[g] EXCEPT !.toggled = TRUE] \in LogRec
    BY DEF LogRec
  <2>2. log' \in [Gesture -> LogRec]
    BY <1>2, <2>1
  <2>3. LogKept
    BY <1>2 DEF LogKept
  <2>4. QED
    BY <2>2, <2>3 DEF LogAfter
<1>3. QED
  BY <1>1, <1>2

LEMMA StartsParts ==
  ASSUME NEW g, Starts(g)
  PROVE  /\ calls # << >> /\ Current.g = g
         /\ synth[g].target \in Checkable /\ synth[g].target \notin clicking /\ ~ HasArgs(synth[g].target)
         /\ ~ synth[g].only /\ ~ synth[g].flags.stopped
         /\ Current.kind = "trigger" \/ Current.kind = "dispatch"
         /\ Current.kind = "trigger" => Current.at = "path" /\ Current.path # << >>
         /\ Current.kind = "dispatch" =>
              /\ Current.at = "next" /\ Current.node = synth[g].target /\ ~ Current.native
              /\ Current.elem = Nil /\ Current.queue # << >> /\ Head(Current.queue).item = Controller
  BY DEF Starts

\* nothing but the calls changes
LEMMA OnlyCalls ==
  ASSUME EventsIInv, GoodAfter(Gesture), GoodAfter(Gestures),
         UNCHANGED << binding, saved, triggered, dom, synth, gestures, log >>,
         \A g \in 1 .. gestures : Starts(g) => Starts(g)'
  PROVE  EventsIInv'
<1>1. RestOK
  BY IInvParts
<1>2. RestOK'
  BY <1>1 DEF RestOK, binding, dom
<1>3. LogKept
  BY <1>1, LogSame DEF RestOK, LogAfter
<1>4. QED
  BY <1>2, <1>3, QuietStep

LEMMA StepDeliverNative ==
  ASSUME EventsIInv, DeliverNative PROVE EventsIInv'
<1>1. GoodAfter(Gesture) /\ GoodAfter(Gestures)
  BY IInvParts, TakeDeliverNative
<1>2. ASSUME NEW g \in 1 .. gestures, Starts(g) PROVE FALSE
  BY <1>2, StartsParts DEF DeliverNative, CurrentIs
<1>3. UNCHANGED << binding, saved, triggered, dom, synth, gestures, log >>
  BY DEF DeliverNative
<1>4. QED
  BY <1>1, <1>2, <1>3, OnlyCalls

LEMMA StepEndNative ==
  ASSUME EventsIInv, EndNative PROVE EventsIInv'
<1>1. GoodAfter(Gesture) /\ GoodAfter(Gestures)
  BY IInvParts, TakeEndNative
<1>2. ASSUME NEW g \in 1 .. gestures, Starts(g) PROVE FALSE
  BY <1>2, StartsParts DEF EndNative, CurrentIs
<1>3. RestOK
  BY IInvParts
<1>4. RestOK'
  BY <1>3 DEF RestOK, EndNative, binding
<1>5. LogKept
  BY <1>3, LogSame DEF RestOK, LogAfter, EndNative
<1>6. UNCHANGED << binding, saved, gestures >>
  BY DEF EndNative
<1>7. QED
  BY <1>1, <1>2, <1>4, <1>5, <1>6, QuietStep

LEMMA StepEndDefault ==
  ASSUME EventsIInv, EndDefault PROVE EventsIInv'
<1>1. GoodAfter(Gesture) /\ GoodAfter(Gestures)
  BY IInvParts, TakeEndDefault
<1>2. ASSUME NEW g \in 1 .. gestures, Starts(g) PROVE FALSE
  BY <1>2, StartsParts DEF EndDefault, CurrentIs
<1>3. RestOK
  BY IInvParts
<1>4. RestOK'
  BY <1>3 DEF RestOK, EndDefault, binding, dom
<1>5. LogKept
  BY <1>3, LogSame DEF RestOK, LogAfter, EndDefault
<1>6. UNCHANGED << binding, saved, gestures >>
  BY DEF EndDefault
<1>7. QED
  BY <1>1, <1>2, <1>4, <1>5, <1>6, QuietStep

LEMMA StepEndSynth ==
  ASSUME EventsIInv, EndSynth PROVE EventsIInv'
<1>1. GoodAfter(Gesture) /\ GoodAfter(Gestures)
  BY IInvParts, TakeEndSynth
<1>2. ASSUME NEW g \in 1 .. gestures, Starts(g) PROVE FALSE
  BY <1>2, StartsParts DEF EndSynth, CurrentIs
<1>3. RestOK
  BY IInvParts
<1>4. /\ calls # << >> /\ Current.kind = "trigger" /\ UNCHANGED << binding, saved, synth, gestures >>
  BY DEF EndSynth, CurrentIs
<1>5. Current.target \in Nodes /\ Current.g \in Gesture
  BY <1>4, IInvParts, TopParts, CallParts
<1>6. RestOK' /\ LogKept
  <2>1. CASE DefaultNative(Current.g)
    <3>1. /\ triggered' = TRUE /\ clicking' = clicking \cup {Current.target} /\ detached' = detached
          /\ log' = [log EXCEPT ![Current.g].toggled = TRUE]
      BY <2>1 DEF EndSynth, Silenced, Clicked
    <3>2. LogAfter
      <4> DEFINE g == Current.g
      <4>1. g \in Gesture /\ TRUE \in BOOLEAN /\ log' = [log EXCEPT ![g].toggled = TRUE] /\ log \in [Gesture -> LogRec]
        BY <1>3, <1>5, <3>1 DEF RestOK
      <4> HIDE DEF g
      <4>2. QED
        BY <4>1, LogChanged
    <3>3. RestOK'
      BY <1>3, <1>4, <1>5, <3>1, <3>2 DEF RestOK, binding, LogAfter
    <3>4. QED
      BY <3>2, <3>3 DEF LogAfter
  <2>2. CASE ~ DefaultNative(Current.g)
    <3>1. UNCHANGED << triggered, dom, log >>
      BY <2>2 DEF EndSynth
    <3>2. RestOK'
      BY <1>3, <1>4, <3>1 DEF RestOK, binding, dom
    <3>3. LogKept
      BY <1>3, <3>1, LogSame DEF RestOK, LogAfter
    <3>4. QED
      BY <3>2, <3>3
  <2>3. QED
    BY <2>1, <2>2
<1>7. QED
  BY <1>1, <1>2, <1>4, <1>6, QuietStep

LEMMA StepEndDispatch ==
  ASSUME EventsIInv, EndDispatch PROVE EventsIInv'
<1>1. GoodAfter(Gesture) /\ GoodAfter(Gestures)
  BY IInvParts, TakeEndDispatch
<1>2. ASSUME NEW g \in 1 .. gestures, Starts(g) PROVE FALSE
  <2>1. /\ calls # << >> /\ Current.kind = "dispatch" /\ NothingLeft
    BY DEF EndDispatch, CurrentIs
  <2>2. Current \in EventCall
    BY <2>1, IInvParts, TopParts
  <2>3. Current.queue \in Seq(Match)
    BY <2>1, <2>2, CallParts
  <2>4. Current.g = g /\ ~ Current.native /\ Current.elem = Nil /\ Current.queue # << >>
        /\ ~ synth[g].flags.stopped
    BY <1>2, <2>1, StartsParts
  <2>5. Head(Current.queue) \in Match
    BY <2>3, <2>4
  <2>6. Head(Current.queue).elem # Nil
    BY <2>5, EventsAssumption DEF Match
  <2>7. Flags.stopped
    BY <2>1, <2>4, <2>6 DEF NothingLeft
  <2>8. QED
    BY <2>4, <2>7 DEF Flags
<1>3. UNCHANGED << binding, saved, triggered, dom, synth, gestures, log >>
  BY DEF EndDispatch
<1>4. QED
  BY <1>1, <1>2, <1>3, OnlyCalls

LEMMA StepReturns ==
  ASSUME EventsIInv, Returns PROVE EventsIInv'
<1>1. GoodAfter(Gesture) /\ GoodAfter(Gestures)
  BY IInvParts, TakeReturns
<1>2. ASSUME NEW g \in 1 .. gestures, Starts(g) PROVE FALSE
  BY <1>2, StartsParts DEF Returns, CurrentIs
<1>3. UNCHANGED << binding, saved, triggered, dom, synth, gestures, log >>
  BY DEF Returns
<1>4. QED
  BY <1>1, <1>2, <1>3, OnlyCalls

LEMMA StepPass ==
  ASSUME EventsIInv, Pass PROVE EventsIInv'
<1>1. GoodAfter(Gesture) /\ GoodAfter(Gestures)
  BY IInvParts, TakePass
<1>2. ASSUME NEW g \in 1 .. gestures, Starts(g) PROVE FALSE
  BY <1>2, StartsParts DEF Pass, Ready, CurrentIs
<1>3. UNCHANGED << binding, saved, triggered, dom, synth, gestures, log >>
  BY DEF Pass
<1>4. QED
  BY <1>1, <1>2, <1>3, OnlyCalls

LEMMA StepDeliverSynth ==
  ASSUME EventsIInv, DeliverSynth PROVE EventsIInv'
<1>1. GoodAfter(Gesture) /\ GoodAfter(Gestures)
  BY IInvParts, TakeDeliverSynth
<1>2. UNCHANGED << binding, saved, triggered, dom, synth, gestures, log >>
  BY DEF DeliverSynth
<1>3. ASSUME NEW g \in 1 .. gestures, Starts(g) PROVE Starts(g)'
  <2> DEFINE n == synth[g].target
             q == Queue(n, n, synth[g].ns)
             D == DispatchFrame(g, n, n, synth[g].ns, FALSE)
             rest == [Current EXCEPT !.path = Tail(@)]
  <2>1. /\ calls # << >> /\ Current.kind = "trigger" /\ Current.at = "path"
        /\ Current.g = g /\ n \in Checkable /\ n \notin clicking /\ ~ HasArgs(n)
        /\ ~ synth[g].only /\ ~ synth[g].flags.stopped
        /\ Head(Current.path) = n /\ handlers[n] # << >> /\ ~ triggered
    BY <1>3 DEF Starts, DeliverSynth, CurrentIs
  <2>2. calls' = (<< D >> \o << rest >>) \o Tail(calls)
    BY <2>1 DEF DeliverSynth
  <2>3. n \in Nodes /\ g \in Gesture /\ synth[g].ns \in BOOLEAN /\ Current \in EventCall
        /\ Tail(calls) \in Seq(EventCall)
    BY <2>1, IInvParts, TopParts, Types DEF EventsIInv, Gesture
  <2>4. /\ handlers[n] \in Seq(Entry) /\ FrontOK(handlers[n], delegateCount[n]) /\ Led(handlers[n], delegateCount[n])
    BY <2>1, <2>3, IInvParts DEF ListsNow, ListsOK
  <2>5. q # << >> /\ q[1].item = Controller /\ q \in Seq(Match)
    BY <2>1, <2>3, <2>4, QueueIs
  <2>6. /\ D.kind = "dispatch" /\ D.at = "next" /\ D.g = g /\ D.node = n /\ ~ D.native
        /\ D.queue = q /\ D.elem = Nil
    BY DEF DispatchFrame
  <2>7. D \in EventCall
    <3>1. \A native \in BOOLEAN : DispatchFrame(g, n, n, synth[g].ns, native) \in EventCall
      BY <2>3, IInvParts, FrameIs
    <3>2. FALSE \in BOOLEAN
      OBVIOUS
    <3>3. QED
      BY <3>1, <3>2, Zenon
  <2>8. rest \in EventCall
    <3>1. Current \in TriggerCall /\ Current.path \in Seq(Nodes)
      BY <2>1, <2>3, CallParts
    <3>2. Current.path # << >>
      BY DEF DeliverSynth
    <3>3. rest \in TriggerCall
      BY <3>1, <3>2 DEF TriggerCall
    <3>4. QED
      BY <3>3 DEF EventCall
  <2> HIDE DEF rest, D, q
  <2>9. calls' # << >> /\ calls'[1] = D
    BY <2>2, <2>3, <2>7, <2>8
  <2>10. Current' = D
    BY <2>9 DEF Current
  <2>11. D.queue # << >> /\ Head(D.queue).item = Controller
    BY <2>5, <2>6
  <2>12. synth' = synth /\ clicking' = clicking /\ saved' = saved
    BY <1>2 DEF dom
  <2>13. ~ HasArgs(n)'
    BY <2>1, <2>12 DEF HasArgs
  <2>14. QED
    BY <2>1, <2>6, <2>9, <2>10, <2>11, <2>12, <2>13 DEF Starts
<1>4. QED
  BY <1>1, <1>2, <1>3, OnlyCalls

LEMMA MarkedSynth ==
  ASSUME NEW G, Sound(G), calls # << >>, NEW fl \in StopFlags, Marked(fl, "next")
  PROVE  synth' \in [Gesture -> SynthRec]
<1>1. Current.g \in Gesture /\ synth \in [Gesture -> SynthRec]
  BY TopParts DEF Sound, EventsTypeOK, SynthRec
<1>2. CASE Current.native
  BY <1>1, <1>2 DEF Marked
<1>3. CASE ~ Current.native
  <2> DEFINE g == Current.g
  <2>1. synth' = [synth EXCEPT ![g].flags = fl] /\ g \in Gesture
    BY <1>1, <1>3 DEF Marked
  <2> HIDE DEF g
  <2>2. [synth[g] EXCEPT !.flags = fl] \in SynthRec
    BY <1>1, <2>1 DEF SynthRec
  <2>3. QED
    BY <1>1, <2>1, <2>2
<1>4. QED
  BY <1>2, <1>3

LEMMA LogBroken ==
  ASSUME log \in [Gesture -> LogRec], Current.g \in Gesture, log' = Broken
  PROVE  LogAfter
<1> DEFINE g == Current.g
<1>1. log' = [log EXCEPT ![g].broken = TRUE]
  BY DEF Broken
<1>6. g \in Gesture
  OBVIOUS
<1> HIDE DEF g
<1>2. [log[g] EXCEPT !.broken = TRUE] \in LogRec
  BY <1>6 DEF LogRec
<1>3. log' \in [Gesture -> LogRec]
  BY <1>1, <1>2, <1>6
<1>4. LogKept
  BY <1>1, <1>6 DEF LogKept
<1>5. QED
  BY <1>3, <1>4 DEF LogAfter

\* a gesture that is started has not come to a handler or to the browser
LEMMA NotStarts ==
  ASSUME NEW g, Current.kind = "dispatch", Current.at # "next"
  PROVE  ~ Starts(g)
  BY StartsParts

LEMMA StepReturnsFalse ==
  ASSUME EventsIInv, ReturnsFalse PROVE EventsIInv'
<1> DEFINE fl == [Flags EXCEPT !.stopped = TRUE, !.prevented = TRUE]
<1>1. GoodAfter(Gesture) /\ GoodAfter(Gestures) /\ RestOK /\ Sound(Gesture)
  BY IInvParts, TakeReturnsFalse
<1>2. /\ calls # << >> /\ Current.kind = "dispatch" /\ Current.at = "call" /\ Marked(fl, "next") /\ log' = Broken
      /\ UNCHANGED << binding, saved, triggered, dom, gestures >>
  BY DEF ReturnsFalse, CurrentIs
<1>3. fl \in StopFlags
  BY <1>1, <1>2, FlagsAre DEF StopFlags
<1> HIDE DEF fl
<1>4. synth' \in [Gesture -> SynthRec]
  BY <1>1, <1>2, <1>3, MarkedSynth
<1>5. Current.g \in Gesture
  BY <1>1, <1>2, TopParts
<1>6. LogAfter
  BY <1>1, <1>2, <1>5, LogBroken DEF RestOK
<1>7. RestOK' /\ LogKept
  BY <1>1, <1>2, <1>4, <1>6 DEF RestOK, binding, dom, LogAfter
<1>8. \A g \in 1 .. gestures : ~ Starts(g)
  BY <1>2, NotStarts
<1>9. UNCHANGED << binding, saved, gestures >>
  BY <1>2
<1>10. QED
  BY <1>1, <1>7, <1>8, <1>9, QuietStep

LEMMA StepReturnsStopped ==
  ASSUME EventsIInv, ReturnsStopped PROVE EventsIInv'
<1> DEFINE fl == [Flags EXCEPT !.stopped = TRUE, !.immediate = TRUE]
<1>1. GoodAfter(Gesture) /\ GoodAfter(Gestures) /\ RestOK /\ Sound(Gesture)
  BY IInvParts, TakeReturnsStopped
<1>2. /\ calls # << >> /\ Current.kind = "dispatch" /\ Current.at = "call" /\ Marked(fl, "next") /\ log' = Broken
      /\ UNCHANGED << binding, saved, triggered, dom, gestures >>
  BY DEF ReturnsStopped, CurrentIs
<1>3. fl \in StopFlags
  BY <1>1, <1>2, FlagsAre DEF StopFlags
<1> HIDE DEF fl
<1>4. synth' \in [Gesture -> SynthRec]
  BY <1>1, <1>2, <1>3, MarkedSynth
<1>5. Current.g \in Gesture
  BY <1>1, <1>2, TopParts
<1>6. LogAfter
  BY <1>1, <1>2, <1>5, LogBroken DEF RestOK
<1>7. RestOK' /\ LogKept
  BY <1>1, <1>2, <1>4, <1>6 DEF RestOK, binding, dom, LogAfter
<1>8. \A g \in 1 .. gestures : ~ Starts(g)
  BY <1>2, NotStarts
<1>9. UNCHANGED << binding, saved, gestures >>
  BY <1>2
<1>10. QED
  BY <1>1, <1>7, <1>8, <1>9, QuietStep

\* the private data are set
LEMMA SavedSet ==
  ASSUME saved \in [Nodes -> Private], NEW n \in Nodes, NEW v \in Private, v # Undefined,
         Remember(n, v)
  PROVE  /\ saved' \in [Nodes -> Private]
         /\ \A m \in Nodes : saved'[m] = Undefined => saved[m] = Undefined
<1>1. saved' = [saved EXCEPT ![n] = v]
  BY DEF Remember
<1>2. QED
  BY <1>1

LEMMA PrivateAre ==
  /\ False \in Private /\ False # Undefined /\ Captured \in Private /\ Captured # Undefined
  /\ Undefined \in Private
  /\ \A g \in Gesture : Args(g) \in Private /\ Args(g) # Undefined
<1>1. MaxGestures \in Nat
  BY EventsAssumption
<1>2. QED
  BY <1>1 DEF False, Captured, Undefined, Args, Private, Gesture

LEMMA StepRefired ==
  ASSUME EventsIInv, Refired PROVE EventsIInv'
<1> DEFINE fl == [Flags EXCEPT !.stopped = TRUE, !.immediate = TRUE]
<1>1. GoodAfter(Gesture) /\ GoodAfter(Gestures) /\ RestOK /\ Sound(Gesture)
  BY IInvParts, TakeRefired
<1>2. /\ calls # << >> /\ Current.kind = "dispatch" /\ Current.at = "refired" /\ Marked(fl, "next")
      /\ Remember(Current.node, Captured)
      /\ UNCHANGED << binding, triggered, dom, gestures, log >>
  BY DEF Refired, CurrentIs
<1>3. fl \in StopFlags
  BY <1>1, <1>2, FlagsAre DEF StopFlags
<1> HIDE DEF fl
<1>4. synth' \in [Gesture -> SynthRec]
  BY <1>1, <1>2, <1>3, MarkedSynth
<1>5. Current.node \in Nodes
  BY <1>1, <1>2, TopParts, CallParts
<1>6. /\ saved' \in [Nodes -> Private]
      /\ \A m \in Nodes : saved'[m] = Undefined => saved[m] = Undefined
  BY <1>1, <1>2, <1>5, SavedSet, PrivateAre DEF RestOK
<1>7. LogAfter
  BY <1>1, <1>2, LogSame DEF RestOK
<1>8. RestOK' /\ LogKept
  BY <1>1, <1>2, <1>4, <1>6, <1>7 DEF RestOK, binding, dom, LogAfter
<1>9. \A g \in 1 .. gestures : ~ Starts(g)
  BY <1>2, NotStarts
<1>10. UNCHANGED << binding, gestures >>
  BY <1>2
<1>11. QED
  BY <1>1, <1>6, <1>8, <1>9, <1>10, QuietStep

LEMMA StepResume ==
  ASSUME EventsIInv, Resume PROVE EventsIInv'
<1>1. GoodAfter(Gesture) /\ GoodAfter(Gestures) /\ RestOK /\ Sound(Gesture)
  BY IInvParts, TakeResume
<1>2. /\ calls # << >> /\ Current.kind = "dispatch" /\ Current.at = "browser"
      /\ Remember(Current.node, False)
      /\ UNCHANGED << binding, triggered, dom, gestures, log >>
  BY DEF Resume, CurrentIs
<1>3. PICK fl \in StopFlags : Marked(fl, "next")
  <2>1. [stopped |-> TRUE, immediate |-> TRUE, prevented |-> TRUE] \in StopFlags
    BY DEF StopFlags
  <2>2. Flags \in StopFlags
    BY <1>1, <1>2, FlagsAre
  <2>3. QED
    BY <2>1, <2>2 DEF Resume
<1>4. synth' \in [Gesture -> SynthRec]
  BY <1>1, <1>2, <1>3, MarkedSynth
<1>5. Current.node \in Nodes
  BY <1>1, <1>2, TopParts, CallParts
<1>6. /\ saved' \in [Nodes -> Private]
      /\ \A m \in Nodes : saved'[m] = Undefined => saved[m] = Undefined
  BY <1>1, <1>2, <1>5, SavedSet, PrivateAre DEF RestOK
<1>7. LogAfter
  BY <1>1, <1>2, LogSame DEF RestOK
<1>8. RestOK' /\ LogKept
  BY <1>1, <1>2, <1>4, <1>6, <1>7 DEF RestOK, binding, dom, LogAfter
<1>9. \A g \in 1 .. gestures : ~ Starts(g)
  BY <1>2, NotStarts
<1>10. UNCHANGED << binding, gestures >>
  BY <1>2
<1>11. QED
  BY <1>1, <1>6, <1>8, <1>9, <1>10, QuietStep

LEMMA StepThrows ==
  ASSUME EventsIInv, Throws PROVE EventsIInv'
<1>1. GoodAfter(Gesture) /\ GoodAfter(Gestures) /\ RestOK /\ Sound(Gesture)
  BY IInvParts, TakeThrows
<1>2. /\ Current.kind = "dispatch" /\ Current.at = "call"
      /\ UNCHANGED << binding, saved, triggered, dom, synth, gestures >>
  BY DEF Throws, CurrentIs
<1>3. PICK k \in 2 .. Len(calls) + 1 :
        log' = [g \in Gesture |->
                  [log[g] EXCEPT !.broken = @ \/ \E j \in 1 .. (k - 1) : calls[j].g = g]]
  BY DEF Throws
<1>4. LogAfter
  <2>1. log \in [Gesture -> LogRec]
    BY <1>1 DEF RestOK
  <2> DEFINE Below(g) == \E j \in 1 .. (k - 1) : calls[j].g = g
  <2>2. log' = [g \in Gesture |-> [log[g] EXCEPT !.broken = log[g].broken \/ Below(g)]]
    BY <1>3
  <2> HIDE DEF Below
  <2>3. ASSUME NEW g \in Gesture PROVE [log[g] EXCEPT !.broken = log[g].broken \/ Below(g)] \in LogRec
    <3>1. log[g] \in LogRec
      BY <2>1
    <3>2. (log[g].broken \/ Below(g)) \in BOOLEAN
      BY Zenon
    <3> DEFINE b == log[g].broken \/ Below(g)
    <3>3. b \in BOOLEAN
      BY <3>2
    <3> HIDE DEF b
    <3>4. [log[g] EXCEPT !.broken = b] \in LogRec
      BY <3>1, <3>3 DEF LogRec
    <3>5. QED
      BY <3>4 DEF b
  <2>4. log' \in [Gesture -> LogRec]
    BY <2>2, <2>3
  <2>5. LogKept
    BY <2>1, <2>2 DEF LogKept, LogRec
  <2>6. QED
    BY <2>4, <2>5 DEF LogAfter
<1>5. RestOK' /\ LogKept
  BY <1>1, <1>2, <1>4 DEF RestOK, binding, dom, LogAfter
<1>6. \A g \in 1 .. gestures : ~ Starts(g)
  BY <1>2, NotStarts
<1>7. QED
  BY <1>1, <1>2, <1>5, <1>6, QuietStep

LEMMA StepRefire ==
  ASSUME EventsIInv, Refire PROVE EventsIInv'
<1> DEFINE g == saved[Current.node].g
           h == Current.g
           nb == ~ Current.native
<1>1. GoodAfter(Gesture) /\ GoodAfter(Gestures) /\ RestOK /\ Sound(Gesture)
  BY IInvParts, TakeRefire
<1>2. /\ Ready /\ HasArgs(Current.node)
      /\ synth' = [synth EXCEPT ![g].flags = Fresh]
      /\ log' = [log EXCEPT ![g].broken = @ \/ nb, ![h].broken = @ \/ nb]
      /\ UNCHANGED << binding, saved, triggered, dom, gestures >>
  BY DEF Refire
<1>3. g \in Gesture
  BY <1>1, <1>2, ArgsAwaited
<1>4. /\ calls # << >> /\ Current.kind = "dispatch" /\ Current.at = "next"
      /\ Current.native \in BOOLEAN /\ Current.node \in Nodes
  BY <1>1, <1>2, TakenIs
<1>5. h \in Gesture
  BY <1>1, <1>4, TopParts
<1>6. \A x \in 1 .. gestures : ~ Starts(x)
  <2>1. SUFFICES ASSUME NEW x \in 1 .. gestures, Starts(x) PROVE FALSE
    OBVIOUS
  <2>2. Current.g = x /\ ~ synth[x].only /\ ~ Current.native
    BY <1>4, <2>1, StartsParts
  <2>3. QED
    BY <2>2 DEF Refire
<1>7. synth' \in [Gesture -> SynthRec]
  <2> HIDE DEF g
  <2>1. synth \in [Gesture -> SynthRec]
    BY <1>1 DEF RestOK
  <2>2. Fresh \in StopFlags
    BY DEF Fresh, StopFlags
  <2>3. [synth[g] EXCEPT !.flags = Fresh] \in SynthRec
    BY <1>3, <2>1, <2>2 DEF SynthRec
  <2>4. QED
    BY <1>2, <1>3, <2>1, <2>3
<1> HIDE DEF g, h, nb
<1>8. LogAfter
  <2>1. log \in [Gesture -> LogRec]
    BY <1>1 DEF RestOK
  <2> DEFINE b == log[g].broken \/ nb
             mid == [log EXCEPT ![g].broken = b]
             c == mid[h].broken \/ nb
  <2>2. b \in BOOLEAN /\ c \in BOOLEAN
    BY Zenon
  <2>3. log' = [mid EXCEPT ![h].broken = c]
    BY <1>2
  <2> HIDE DEF b, c
  <2>4. mid \in [Gesture -> LogRec]
    <3>1. [log[g] EXCEPT !.broken = b] \in LogRec
      BY <1>3, <2>1, <2>2 DEF LogRec
    <3>2. QED
      BY <1>3, <2>1, <3>1
  <2>5. \A x \in Gesture : /\ mid[x].called = log[x].called /\ mid[x].within = log[x].within
                           /\ mid[x].old = log[x].old /\ mid[x].toggled = log[x].toggled
    BY <1>3, <2>1 DEF LogRec
  <2> HIDE DEF mid
  <2>6. [mid[h] EXCEPT !.broken = c] \in LogRec
    BY <1>5, <2>2, <2>4 DEF LogRec
  <2>7. log' \in [Gesture -> LogRec]
    BY <1>5, <2>3, <2>4, <2>6
  <2>8. \A x \in Gesture : /\ log'[x].called = mid[x].called /\ log'[x].within = mid[x].within
                           /\ log'[x].old = mid[x].old /\ log'[x].toggled = mid[x].toggled
    BY <1>5, <2>3, <2>4 DEF LogRec
  <2>9. LogKept
    BY <2>5, <2>8 DEF LogKept
  <2>10. QED
    BY <2>7, <2>9 DEF LogAfter
<1>9. RestOK' /\ LogKept
  BY <1>1, <1>2, <1>7, <1>8 DEF RestOK, binding, dom, LogAfter
<1>10. UNCHANGED << binding, saved, gestures >>
  BY <1>2
<1>11. QED
  BY <1>1, <1>6, <1>9, <1>10, QuietStep

LEMMA StepInterrupt ==
  ASSUME EventsIInv, Interrupt PROVE EventsIInv'
<1> DEFINE h == Current.g
           n == Current.node
<1>1. GoodAfter(Gesture) /\ GoodAfter(Gestures) /\ RestOK /\ Sound(Gesture)
  BY IInvParts, TakeInterrupt
<1>2. Ready /\ UNCHANGED << binding, triggered, synth, gestures >>
  BY DEF Interrupt
<1>3. /\ calls # << >> /\ Current.kind = "dispatch" /\ Current.at = "next" /\ n \in Nodes
  BY <1>1, <1>2, TakenIs
<1>4. h \in Gesture
  BY <1>1, <1>3, TopParts
<1>5. ASSUME NEW g \in 1 .. gestures, Starts(g) PROVE g = h /\ n \notin clicking
  BY <1>3, <1>5, StartsParts
<1>6. CASE n \in clicking
  <2>1. Remember(n, False) /\ UNCHANGED << dom, log >>
    BY <1>6 DEF Interrupt
  <2>2. /\ saved' \in [Nodes -> Private]
        /\ \A m \in Nodes : saved'[m] = Undefined => saved[m] = Undefined
    <3> HIDE DEF n
    <3>1. QED
      BY <1>1, <1>3, <2>1, SavedSet, PrivateAre DEF RestOK
  <2>3. LogAfter
    BY <1>1, <2>1, LogSame DEF RestOK
  <2>4. RestOK' /\ LogKept
    BY <1>1, <1>2, <2>1, <2>2, <2>3 DEF RestOK, binding, dom, LogAfter
  <2>5. \A g \in 1 .. gestures : ~ Starts(g)
    BY <1>5, <1>6
  <2>6. UNCHANGED << binding, gestures >>
    BY <1>2
  <2>7. QED
    BY <1>1, <2>2, <2>4, <2>5, <2>6, QuietStep
<1>7. CASE n \notin clicking
  <2>1. /\ Remember(n, Args(h)) /\ clicking' = clicking \cup {n} /\ detached' = detached
        /\ log' = [log EXCEPT ![h].toggled = TRUE]
    BY <1>7 DEF Interrupt, Clicked
  <2> HIDE DEF n, h
  <2>2. /\ saved' \in [Nodes -> Private]
        /\ \A m \in Nodes : saved'[m] = Undefined => saved[m] = Undefined
    BY <1>1, <1>3, <1>4, <2>1, SavedSet, PrivateAre DEF RestOK
  <2>3. LogAfter
    BY <1>1, <1>4, <2>1, LogChanged DEF RestOK
  <2>4. RestOK' /\ LogKept
    BY <1>1, <1>2, <1>3, <2>1, <2>2, <2>3 DEF RestOK, binding, dom, LogAfter
  <2>5. log'[h].toggled
    <3>1. log \in [Gesture -> LogRec]
      BY <1>1 DEF RestOK
    <3>2. log'[h].toggled = TRUE
      BY <1>4, <2>1, <3>1 DEF LogRec
    <3>3. QED
      BY <3>2
  <2>6. \A g \in 1 .. gestures : Starts(g) => log'[g].toggled
    BY <1>5, <2>5
  <2>7. UNCHANGED << binding, gestures >>
    BY <1>2
  <2>8. QED
    BY <1>1, <2>2, <2>4, <2>6, <2>7, QuietStep
<1>8. QED
  BY <1>6, <1>7

-----------------------------------------------------------------------------
(* Steps that change the lists *)

LEMMA LogOKAfter ==
  ASSUME EventsIInv, Relisted, bound' \in Int, bound <= bound',
         \A g \in Gesture : log'[g].called \subseteq log[g].called
  PROVE  LogOK(handlers', log', bound')
<1>1. LogOK(handlers, log, bound) /\ bound \in Int /\ log \in [Gesture -> LogRec]
  BY IInvParts DEF EventsIInv, RestOK
<1>2. NewAbove(handlers, handlers', bound)
  BY DEF Relisted
<1>3. ASSUME NEW g \in Gesture, NEW x \in log'[g].called PROVE x <= bound'
  <2>1. x \in log[g].called /\ log[g].called \subseteq 1 .. MaxBound
    BY <1>1, <1>3 DEF LogRec
  <2>2. x \in Int /\ x <= bound
    BY <1>1, <2>1 DEF LogOK
  <2>3. QED
    BY <1>1, <2>2
<1>4. ASSUME NEW g \in Gesture, NEW n \in Nodes, NEW it \in Entry, Among(handlers'[n], it), it.one,
             it.nr \in log'[g].called
      PROVE  FALSE
  <2>1. it.nr \in log[g].called
    BY <1>4
  <2>2. it.nr <= bound /\ ~ Among(handlers[n], it)
    BY <1>1, <1>4, <2>1 DEF LogOK
  <2>3. it \in HandleObj
    BY <1>4, ItemParts
  <2>4. it.nr \in 1 .. MaxBound
    BY <2>3 DEF HandleObj
  <2>5. it.nr \in Int /\ it.nr # 0 /\ ~ (it.nr > bound)
    BY <1>1, <2>2, <2>4
  <2>6. QED
    BY <1>2, <1>4, <2>2, <2>5 DEF NewAbove
<1>5. QED
  BY <1>3, <1>4 DEF LogOK

\* the parts of the invariant come together
LEMMA RelistedStep ==
  ASSUME EventsIInv, Relisted, bound' \in Int, bound <= bound', GoodAfter(Gesture),
         RestOK', LogOK(handlers', log', bound'), StartOK'
  PROVE  EventsIInv'
<1>1. bound \in Int
  BY IInvParts DEF RestOK
<1>2. /\ calls' \in Seq(EventCall) /\ Shaped(calls', clicking', triggered') /\ Kept(calls', saved')
      /\ QueuesOK(handlers, calls', bound) /\ Within(calls', Gesture, Aimed')
  BY DEF GoodAfter, Good
<1>3. NewAbove(handlers, handlers', bound)
  BY DEF Relisted
<1>4. QueuesOK(handlers', calls', bound')
  <2> DEFINE st == calls'
             hw == handlers'
             hs == handlers
             bd == bound
             bw == bound'
  <2>1. st \in Seq(EventCall) /\ bd \in Int /\ bw \in Int /\ bd <= bw /\ QueuesOK(hs, st, bd) /\ NewAbove(hs, hw, bd)
    BY <1>1, <1>2, <1>3
  <2> HIDE DEF st, hw, hs, bd, bw
  <2>2. QueuesOK(hw, st, bw)
    BY <2>1, QueuesNewAbove
  <2>3. QED
    BY <2>2 DEF st, hw, bw
<1>5. Good(calls', clicking', triggered', saved', handlers', bound', Gesture, Aimed')
  BY <1>2, <1>4 DEF Good
<1>6. EventsTypeOK'
  BY <1>2, TypesAfter
<1>7. ListsOK(handlers', delegateCount', saved', bound')
  BY DEF Relisted
<1>8. QED
  BY <1>5, <1>6, <1>7 DEF EventsIInv

\* code of the user runs
LEMMA NotStarting ==
  ASSUME NEW g, HandlerRuns
  PROVE  ~ Starts(g)
  BY StartsParts DEF HandlerRuns, CurrentIs

LEMMA UserMoves ==
  ASSUME EventsIInv, HandlerRuns, UNCHANGED << triggered, clicking, synth, calls, gestures >>,
         Relisted, bound' \in Int, bound <= bound', RestOK', LogKept, Kept(calls, saved')
  PROVE  EventsIInv'
<1>1. Aimed' = Aimed
  BY DEF Aimed
<1>2. /\ Good(calls, clicking, triggered, saved, handlers, bound, Gesture, Aimed)
      /\ Good(calls, clicking, triggered, saved, handlers, bound, Gestures, Aimed)
  BY IInvParts DEF Sound
<1>3. /\ Good(calls, clicking, triggered, saved', handlers, bound, Gesture, Aimed)
      /\ Good(calls, clicking, triggered, saved', handlers, bound, Gestures, Aimed)
  BY <1>2, GoodKept
<1>4. GoodAfter(Gesture) /\ Within(calls', Gestures, Aimed')
  BY <1>1, <1>3 DEF GoodAfter, Good
<1>5. \A g \in Gesture : log'[g].called \subseteq log[g].called
  BY DEF LogKept
<1>6. LogOK(handlers', log', bound')
  BY <1>5, LogOKAfter
<1>7. StartOK'
  <2>1. \A g \in 1 .. gestures : ~ Starts(g)
    BY NotStarting
  <2>2. gestures \in 0 .. MaxGestures /\ MaxGestures \in Nat
    BY IInvParts, EventsAssumption DEF RestOK
  <2>3. QED
    BY <1>4, <2>1, <2>2, StartsKept DEF EventsIInv
<1>8. QED
  BY <1>4, <1>6, <1>7, RelistedStep

LEMMA LogDue ==
  ASSUME log \in [Gesture -> LogRec], NEW lg \in [Gesture -> LogRec],
         \A g \in Gesture : /\ lg[g].called = log[g].called /\ lg[g].within = log[g].within
                            /\ lg[g].old = log[g].old /\ lg[g].toggled = log[g].toggled,
         log' = StillDue(lg)
  PROVE  LogAfter
<1> DEFINE there == UNION {Nrs(handlers'[n]) : n \in Nodes}
<1>1. log' = [g \in Gesture |-> [lg[g] EXCEPT !.due = @ \cap there]]
  BY DEF StillDue
<1> HIDE DEF there
<1>2. ASSUME NEW g \in Gesture PROVE [lg[g] EXCEPT !.due = @ \cap there] \in LogRec
  <2>1. lg[g] \in LogRec
    OBVIOUS
  <2> DEFINE D == lg[g].due \cap there
  <2>2. D \in SUBSET (1 .. MaxBound)
    BY <2>1 DEF LogRec
  <2> HIDE DEF D
  <2>3. [lg[g] EXCEPT !.due = D] \in LogRec
    BY <2>1, <2>2 DEF LogRec
  <2>4. QED
    BY <2>3 DEF D
<1>3. log' \in [Gesture -> LogRec]
  BY <1>1, <1>2
<1>4. ASSUME NEW g \in Gesture
      PROVE  /\ log'[g].called = log[g].called /\ log'[g].within = log[g].within
             /\ log'[g].old = log[g].old /\ log'[g].toggled = log[g].toggled
  <2>1. lg[g] \in LogRec
    OBVIOUS
  <2>2. log'[g] = [lg[g] EXCEPT !.due = @ \cap there]
    BY <1>1
  <2>3. QED
    BY <2>1, <2>2 DEF LogRec
<1>5. LogKept
  BY <1>4 DEF LogKept
<1>6. QED
  BY <1>3, <1>5 DEF LogAfter

LEMMA StepUnbind ==
  ASSUME EventsIInv, NEW n \in Nodes, NEW g, NEW ns \in BOOLEAN, Unbind(n, g, NotGiven, ns)
  PROVE  EventsIInv'
<1>1. RestOK /\ ListsNow /\ Kept(calls, saved)
  BY IInvParts DEF EventsIInv, Good
<1>2. /\ HandlerRuns /\ Removed(n, g, NotGiven, ns) /\ log' = StillDue(log)
      /\ UNCHANGED << bound, saved, triggered, dom, synth, calls, gestures >>
  BY DEF Unbind, Open
<1>3. Relisted
  BY <1>1, <1>2, RemovedLists
<1>4. LogAfter
  BY <1>1, <1>2, LogDue DEF RestOK
<1>5. RestOK' /\ LogKept
  BY <1>1, <1>2, <1>4 DEF RestOK, LogAfter, dom
<1>6. bound' \in Int /\ bound <= bound' /\ Kept(calls, saved')
  BY <1>1, <1>2 DEF RestOK
<1>7. UNCHANGED << triggered, clicking, synth, calls, gestures >>
  BY <1>2 DEF dom
<1>8. QED
  BY <1>2, <1>3, <1>5, <1>6, <1>7, UserMoves

LEMMA StepBind ==
  ASSUME EventsIInv, NEW n \in Nodes, NEW form \in Forms, NEW sel \in Nodes \cup {Nil}, Bind(n, form, sel)
  PROVE  EventsIInv'
<1>1. RestOK /\ ListsNow /\ Kept(calls, saved)
  BY IInvParts DEF EventsIInv, Good
<1> DEFINE item == [fn |-> form.fn, sel |-> sel, ns |-> form.ns, one |-> form.one, nr |-> bound']
<1>2. /\ HandlerRuns /\ Added(n, item) /\ bound' = bound + 1 /\ bound < MaxBound
      /\ UNCHANGED << triggered, dom, synth, calls, gestures, log >>
  BY DEF Bind, Open
<1>3. bound \in Nat /\ MaxBound \in Nat
  BY <1>1, EventsAssumption DEF RestOK
<1>4. bound' \in 1 .. MaxBound /\ item.nr = bound'
  BY <1>2, <1>3
<1>5. item \in HandleObj
  BY <1>4, FormIs
<1> HIDE DEF item
<1>6. Relisted
  <2>1. item.nr = bound + 1
    BY <1>2, <1>4
  <2>2. QED
    BY <1>1, <1>2, <1>5, <2>1, BoundLists
<1>7. saved' \in [Nodes -> Private] /\ Kept(calls, saved')
  <2>1. CASE NeedsSetup(n)
    <3>1. saved' = [saved EXCEPT ![n] = False]
      BY <1>2, <2>1 DEF Added, Remember
    <3>2. Kept(calls, [saved EXCEPT ![n] = False])
      BY <1>1, KeptSet DEF RestOK
    <3>3. QED
      BY <1>1, <3>1, <3>2, PrivateAre DEF RestOK
  <2>2. CASE ~ NeedsSetup(n)
    <3>1. saved' = saved
      BY <1>2, <2>2 DEF Added
    <3>2. QED
      BY <1>1, <3>1 DEF RestOK
  <2>3. QED
    BY <2>1, <2>2
<1>8. LogAfter
  BY <1>1, <1>2, LogSame DEF RestOK
<1>9. RestOK' /\ LogKept
  BY <1>1, <1>2, <1>4, <1>7, <1>8 DEF RestOK, LogAfter, dom
<1>10. bound' \in Int /\ bound <= bound'
  BY <1>2, <1>3
<1>11. UNCHANGED << triggered, clicking, synth, calls, gestures >>
  BY <1>2 DEF dom
<1>12. QED
  BY <1>2, <1>6, <1>7, <1>9, <1>10, <1>11, UserMoves

LEMMA SameLists ==
  ASSUME ListsNow, UNCHANGED << handlers, delegateCount, saved, bound >>
  PROVE  Relisted
  BY DEF ListsNow, Relisted, NewAbove

LEMMA StepRemoveElement ==
  ASSUME EventsIInv, NEW n \in Nodes, NEW keepData, RemoveElement(n, keepData)
  PROVE  EventsIInv'
<1>1. RestOK /\ ListsNow /\ Kept(calls, saved)
  BY IInvParts DEF EventsIInv, Good
<1>2. /\ HandlerRuns /\ detached' = detached \cup {n}
      /\ UNCHANGED << bound, triggered, clicking, synth, calls, gestures >>
  BY DEF RemoveElement, Open
<1>3. Relisted /\ saved' \in [Nodes -> Private] /\ Kept(calls, saved')
  <2>1. CASE keepData
    <3>1. UNCHANGED << handlers, delegateCount, saved >>
      BY <2>1 DEF RemoveElement
    <3>2. QED
      BY <1>1, <1>2, <3>1, SameLists DEF RestOK
  <2>2. CASE ~ keepData
    <3> DEFINE t == << >>
    <3>1. /\ handlers' = [handlers EXCEPT ![n] = << >>]
          /\ delegateCount' = [delegateCount EXCEPT ![n] = 0]
          /\ saved' = [saved EXCEPT ![n] = Undefined]
      BY <2>2 DEF RemoveElement, cleanData, Remember
    <3>2. saved \in [Nodes -> Private]
      BY <1>1 DEF RestOK
    <3>3. \A m \in Nodes : m # n => saved'[m] = saved[m]
      BY <3>1, <3>2
    <3>4. t \in {<< >>, << Controller >>} /\ handlers' = [handlers EXCEPT ![n] = t] /\ t = << >>
      BY <3>1
    <3> HIDE DEF t
    <3>5. Relisted
      BY <1>1, <1>2, <3>1, <3>3, <3>4, ResetLists
    <3>6. Kept(calls, [saved EXCEPT ![n] = Undefined])
      BY <1>1, <3>2, KeptSet
    <3>7. saved' \in [Nodes -> Private]
      BY <3>1, <3>2, PrivateAre
    <3>8. QED
      BY <3>1, <3>5, <3>6, <3>7
  <2>3. QED
    BY <2>1, <2>2
<1>4. LogAfter
  <2> DEFINE delegated(g) == IF Aims(g, n) THEN Delegated ELSE {}
             lg == [g \in Gesture |-> [log[g] EXCEPT !.due = @ \ delegated(g)]]
  <2>1. log' = StillDue(lg)
    BY DEF RemoveElement
  <2>2. log \in [Gesture -> LogRec]
    BY <1>1 DEF RestOK
  <2> HIDE DEF delegated
  <2>3. ASSUME NEW g \in Gesture
        PROVE  /\ [log[g] EXCEPT !.due = @ \ delegated(g)] \in LogRec
               /\ lg[g].called = log[g].called /\ lg[g].within = log[g].within
               /\ lg[g].old = log[g].old /\ lg[g].toggled = log[g].toggled
    <3>1. log[g] \in LogRec /\ lg[g] = [log[g] EXCEPT !.due = @ \ delegated(g)]
      BY <2>2
    <3> DEFINE D == log[g].due \ delegated(g)
    <3>2. D \in SUBSET (1 .. MaxBound)
      BY <3>1 DEF LogRec
    <3>3. lg[g] = [log[g] EXCEPT !.due = D]
      BY <3>1
    <3> HIDE DEF D, lg
    <3>4. [log[g] EXCEPT !.due = D] \in LogRec
      BY <3>1, <3>2 DEF LogRec
    <3>5. /\ lg[g].called = log[g].called /\ lg[g].within = log[g].within
          /\ lg[g].old = log[g].old /\ lg[g].toggled = log[g].toggled
      BY <3>1, <3>3 DEF LogRec
    <3>6. QED
      BY <3>4, <3>5 DEF D
  <2>4. lg \in [Gesture -> LogRec]
    BY <2>3
  <2> HIDE DEF lg
  <2>5. QED
    BY <2>1, <2>2, <2>3, <2>4, LogDue
<1>5. RestOK' /\ LogKept
  BY <1>1, <1>2, <1>3, <1>4 DEF RestOK, LogAfter
<1>6. bound' \in Int /\ bound <= bound'
  BY <1>1, <1>2 DEF RestOK
<1>7. UNCHANGED << triggered, clicking, synth, calls, gestures >>
  BY <1>2
<1>8. QED
  BY <1>2, <1>3, <1>5, <1>6, <1>7, UserMoves

\* what a call of a handler leaves in the log
Noted(g, nr) ==
    /\ log' \in [Gesture -> LogRec]
    /\ \A x \in Gesture :
          /\ log'[x].called = IF x = g THEN log[x].called \cup {nr} ELSE log[x].called
          /\ log'[x].within = log[x].within /\ log'[x].old = log[x].old
          /\ log'[x].toggled = log[x].toggled

LEMMA NotedIs ==
  ASSUME log \in [Gesture -> LogRec], NEW h \in Gesture, NEW nr \in 1 .. MaxBound,
         log' = LET now == [log EXCEPT ![h].called = @ \cup {nr},
                                       ![h].twice = @ \/ nr \in log[h].called]
                IN StillDue([now EXCEPT ![h].due = @ \ now[h].called])
  PROVE  Noted(h, nr)
<1> DEFINE C == log[h].called \cup {nr}
           b == log[h].twice \/ nr \in log[h].called
           one == [log EXCEPT ![h].called = C]
           two == [one EXCEPT ![h].twice = b]
           D == two[h].due \ two[h].called
           three == [two EXCEPT ![h].due = D]
           there == UNION {Nrs(handlers'[n]) : n \in Nodes}
<1>1. log[h] \in LogRec
  OBVIOUS
<1>2. two = [log EXCEPT ![h].called = @ \cup {nr}, ![h].twice = @ \/ nr \in log[h].called]
  BY <1>1 DEF LogRec
<1>3. three = [two EXCEPT ![h].due = @ \ two[h].called]
  OBVIOUS
<1>4. log' = StillDue(three)
  <2> HIDE DEF three, one, C, b, D
  <2>1. log' = LET now == two IN StillDue([now EXCEPT ![h].due = @ \ now[h].called])
    BY <1>2
  <2> HIDE DEF two
  <2>2. log' = StillDue([two EXCEPT ![h].due = @ \ two[h].called])
    BY <2>1
  <2>3. QED
    BY <1>3, <2>2
<1>5. log' = [g \in Gesture |-> [three[g] EXCEPT !.due = @ \cap there]]
  <2> HIDE DEF three
  <2>1. QED
    BY <1>4 DEF StillDue
<1>6. C \in SUBSET (1 .. MaxBound) /\ b \in BOOLEAN
  <2>1. C \in SUBSET (1 .. MaxBound)
    BY <1>1 DEF LogRec
  <2>2. b \in BOOLEAN
    BY Zenon
  <2>3. QED
    BY <2>1, <2>2
<1>7. C = log[h].called \cup {nr}
  OBVIOUS
<1> HIDE DEF C, b, there
<1>8. one \in [Gesture -> LogRec] /\ one[h].called = C
      /\ \A x \in Gesture : /\ x # h => one[x].called = log[x].called
                            /\ one[x].within = log[x].within /\ one[x].old = log[x].old
                            /\ one[x].toggled = log[x].toggled
  <2>1. [log[h] EXCEPT !.called = C] \in LogRec
    BY <1>1, <1>6 DEF LogRec
  <2>2. one \in [Gesture -> LogRec]
    BY <2>1
  <2>3. one[h].called = C
    BY <1>1 DEF LogRec
  <2>4. \A x \in Gesture : /\ x # h => one[x].called = log[x].called
                           /\ one[x].within = log[x].within /\ one[x].old = log[x].old
                           /\ one[x].toggled = log[x].toggled
    BY <1>1 DEF LogRec
  <2>5. QED
    BY <2>2, <2>3, <2>4
<1> HIDE DEF one
<1>9. two \in [Gesture -> LogRec]
      /\ \A x \in Gesture : /\ two[x].called = one[x].called
                            /\ two[x].within = one[x].within /\ two[x].old = one[x].old
                            /\ two[x].toggled = one[x].toggled
  <2>1. one[h] \in LogRec
    BY <1>8
  <2>2. [one[h] EXCEPT !.twice = b] \in LogRec
    BY <1>6, <2>1 DEF LogRec
  <2>3. two \in [Gesture -> LogRec]
    BY <1>8, <2>2
  <2>4. QED
    BY <1>8, <2>1, <2>3 DEF LogRec
<1> HIDE DEF two
<1>10. D \in SUBSET (1 .. MaxBound)
  BY <1>9 DEF LogRec
<1> HIDE DEF D
<1>11. three \in [Gesture -> LogRec]
       /\ \A x \in Gesture : /\ three[x].called = two[x].called
                             /\ three[x].within = two[x].within /\ three[x].old = two[x].old
                             /\ three[x].toggled = two[x].toggled
  <2>1. two[h] \in LogRec
    BY <1>9
  <2>2. [two[h] EXCEPT !.due = D] \in LogRec
    BY <1>10, <2>1 DEF LogRec
  <2>3. three \in [Gesture -> LogRec]
    BY <1>9, <2>2
  <2>4. QED
    BY <1>9, <2>1, <2>3 DEF LogRec
<1> HIDE DEF three
<1>12. ASSUME NEW x \in Gesture
       PROVE  /\ [three[x] EXCEPT !.due = @ \cap there] \in LogRec
              /\ log'[x].called = three[x].called
              /\ log'[x].within = three[x].within /\ log'[x].old = three[x].old
              /\ log'[x].toggled = three[x].toggled
  <2>1. three[x] \in LogRec
    BY <1>11
  <2> DEFINE E == three[x].due \cap there
  <2>2. E \in SUBSET (1 .. MaxBound)
    BY <2>1 DEF LogRec
  <2>3. log'[x] = [three[x] EXCEPT !.due = E]
    BY <1>5
  <2> HIDE DEF E
  <2>4. [three[x] EXCEPT !.due = E] \in LogRec
    BY <2>1, <2>2 DEF LogRec
  <2>5. /\ log'[x].called = three[x].called
        /\ log'[x].within = three[x].within /\ log'[x].old = three[x].old
        /\ log'[x].toggled = three[x].toggled
    BY <2>1, <2>3 DEF LogRec
  <2>6. QED
    BY <2>4, <2>5 DEF E
<1>13. log' \in [Gesture -> LogRec]
  BY <1>5, <1>12
<1>14. ASSUME NEW x \in Gesture
       PROVE  /\ log'[x].called = IF x = h THEN log[x].called \cup {nr} ELSE log[x].called
              /\ log'[x].within = log[x].within /\ log'[x].old = log[x].old
              /\ log'[x].toggled = log[x].toggled
  <2>6. /\ log'[x].called = three[x].called
        /\ log'[x].within = three[x].within /\ log'[x].old = three[x].old
        /\ log'[x].toggled = three[x].toggled
    BY <1>12
  <2>7. /\ three[x].called = two[x].called
        /\ three[x].within = two[x].within /\ three[x].old = two[x].old
        /\ three[x].toggled = two[x].toggled
    BY <1>11
  <2>8. /\ two[x].called = one[x].called
        /\ two[x].within = one[x].within /\ two[x].old = one[x].old
        /\ two[x].toggled = one[x].toggled
    BY <1>9
  <2>9. /\ one[x].within = log[x].within /\ one[x].old = log[x].old
        /\ one[x].toggled = log[x].toggled
    BY <1>8
  <2>1. /\ log'[x].within = log[x].within /\ log'[x].old = log[x].old
        /\ log'[x].toggled = log[x].toggled
    BY <2>6, <2>7, <2>8, <2>9
  <2>2. log'[x].called = one[x].called
    BY <2>6, <2>7, <2>8
  <2>3. CASE x = h
    BY <1>7, <1>8, <2>1, <2>2, <2>3
  <2>4. CASE x # h
    BY <1>8, <2>1, <2>2, <2>4
  <2>5. QED
    BY <2>3, <2>4
<1>15. QED
  BY <1>13, <1>14 DEF Noted

LEMMA StepCallHandler ==
  ASSUME EventsIInv, CallHandler PROVE EventsIInv'
<1> DEFINE h == Current.g
           n == Current.node
           it == NextItem
<1>1. /\ GoodAfter(Gesture) /\ GoodAfter(Gestures) /\ RestOK /\ ListsNow /\ Sound(Gesture)
      /\ LogOK(handlers, log, bound) /\ StartOK
  BY IInvParts, TakeCallHandler DEF EventsIInv
<1>2. /\ Ready /\ it # Controller /\ Unbound(it)
      /\ UNCHANGED << bound, saved, triggered, dom, synth, gestures >>
  BY DEF CallHandler
<1>3. /\ calls # << >> /\ Current.kind = "dispatch" /\ Current.at = "next" /\ n \in Nodes
      /\ Current.queue # << >> /\ it \in Entry /\ Current \in DispatchCall
  BY <1>1, <1>2, TakenIs
<1>4. h \in Gesture /\ Current = calls[1] /\ 1 \in 1 .. Len(calls)
  BY <1>1, <1>3, TopParts
<1>5. it \in HandleObj /\ it.nr \in 1 .. MaxBound /\ it.fn # Nil
  BY <1>2, <1>3, ItemParts DEF Entry, HandleObj
<1>6. /\ it.nr <= bound
      /\ \A m \in Nodes : \A j \in Entry : Among(handlers[m], j) /\ j.nr = it.nr => m = n /\ j = it
  <2>1. QueueOK(handlers, calls[1], bound)
    BY <1>1, <1>4 DEF Sound, Good, QueuesOK
  <2>2. Current.queue \in Seq(Match)
    BY <1>3 DEF DispatchCall
  <2>3. 1 \in 1 .. Len(calls[1].queue) /\ calls[1].queue[1].item = it
    BY <1>3, <1>4, <2>2 DEF NextItem
  <2>4. it.nr # 0
    BY <1>5
  <2>5. QED
    BY <1>3, <1>4, <2>1, <2>3, <2>4 DEF QueueOK
<1>7. Relisted /\ Fewer2(handlers, handlers')
      /\ (it.one => \A j \in Entry : Among(handlers'[n], j) => ~ Matches(j, it.fn, it.sel, it.ns))
  <2> HIDE DEF it, n
  <2>1. CASE it.one
    <3>1. Removed(n, it.fn, it.sel, it.ns)
      BY <1>2, <2>1 DEF Unbound, n
    <3>2. it.ns \in BOOLEAN
      BY <1>5 DEF HandleObj
    <3>3. UNCHANGED << saved, bound >>
      BY <1>2
    <3> DEFINE a == it.fn
               b == it.sel
               c == it.ns
    <3>4. Removed(n, a, b, c) /\ c \in BOOLEAN
      BY <3>1, <3>2
    <3> HIDE DEF a, b, c
    <3>5. /\ Relisted /\ Fewer2(handlers, handlers')
          /\ \A j \in Entry : Among(handlers'[n], j) => ~ Matches(j, a, b, c)
      BY <1>1, <1>3, <3>3, <3>4, RemovedLists
    <3>6. QED
      BY <3>5 DEF a, b, c
  <2>2. CASE ~ it.one
    <3>1. UNCHANGED << handlers, delegateCount, saved, bound >>
      BY <1>2, <2>2 DEF Unbound
    <3>2. Fewer2(handlers, handlers')
      BY <3>1 DEF Fewer2
    <3>3. QED
      BY <1>1, <2>2, <3>1, <3>2, SameLists
  <2>3. QED
    BY <2>1, <2>2
<1>8. Noted(h, it.nr)
  <2> DEFINE nr == it.nr
  <2>1. log' = LET now == [log EXCEPT ![h].called = @ \cup {nr},
                                      ![h].twice = @ \/ nr \in log[h].called]
               IN StillDue([now EXCEPT ![h].due = @ \ now[h].called])
    BY DEF CallHandler
  <2>2. nr \in 1 .. MaxBound
    BY <1>5
  <2> HIDE DEF nr, h
  <2>3. log \in [Gesture -> LogRec]
    BY <1>1 DEF RestOK
  <2>4. Noted(h, nr)
    BY <1>4, <2>1, <2>2, <2>3, NotedIs
  <2>5. QED
    BY <2>4 DEF nr
<1>9. \A j \in Entry : j = it => Matches(j, it.fn, it.sel, it.ns)
  BY DEF Matches
<1>10. bound' = bound /\ bound \in Int /\ gestures' = gestures /\ gestures \in 0 .. MaxGestures
       /\ MaxGestures \in Nat
  BY <1>1, <1>2, EventsAssumption DEF RestOK
<1>11. ~ Starts(h)
  <2>1. ASSUME Starts(h) PROVE FALSE
    <3>1. Head(Current.queue).item = Controller
      BY <1>3, <2>1, StartsParts
    <3>2. QED
      BY <1>2, <3>1 DEF NextItem
  <2>2. QED
    BY <2>1
<1> HIDE DEF h, n, it
<1>12. LogOK(handlers', log', bound')
  <2>1. ASSUME NEW g \in Gesture, NEW x \in log'[g].called PROVE x <= bound
    <3>1. x \in log[g].called \/ x = it.nr
      BY <1>8, <2>1 DEF Noted
    <3>2. QED
      BY <1>1, <1>6, <3>1 DEF LogOK
  <2>2. ASSUME NEW g \in Gesture, NEW m \in Nodes, NEW j \in Entry, Among(handlers'[m], j), j.one,
               j.nr \in log'[g].called
        PROVE  FALSE
    <3>1. Among(handlers[m], j)
      BY <1>7, <2>2 DEF Fewer2
    <3>2. j.nr \notin log[g].called
      BY <1>1, <2>2, <3>1 DEF LogOK
    <3>3. j.nr = it.nr
      BY <1>8, <2>2, <3>2 DEF Noted
    <3>4. m = n /\ j = it
      BY <1>6, <3>1, <3>3
    <3>5. QED
      BY <1>7, <1>9, <2>2, <3>4
  <2>3. QED
    BY <1>10, <2>1, <2>2 DEF LogOK
<1>13. StartOK'
  <2>1. Within(calls', Gestures, Aimed')
    BY <1>1 DEF GoodAfter, Good
  <2>2. ASSUME NEW g \in 1 .. gestures, ~ log'[g].toggled, ~ log'[g].within, ~ log'[g].old
        PROVE  log'[g].called = {} /\ ~ UnderWay(g)'
    <3>1. g \in Gesture
      BY <1>10 DEF Gesture
    <3>2. ~ log[g].toggled /\ ~ log[g].within /\ ~ log[g].old
      BY <1>8, <2>2, <3>1 DEF Noted
    <3>3. log[g].called = {} /\ (Starts(g) \/ ~ UnderWay(g))
      BY <1>1, <3>2 DEF StartOK
    <3>4. g # h
      <4>1. UnderWay(h)
        BY <1>4 DEF UnderWay, h
      <4>2. QED
        BY <1>11, <3>3, <4>1
    <3>5. ~ Starts(g)
      BY <3>4, StartsParts DEF h
    <3>6. log'[g].called = {}
      BY <1>8, <3>1, <3>3, <3>4 DEF Noted
    <3>7. g \notin Gestures
      BY <3>3, <3>5 DEF Gestures
    <3>8. ~ UnderWay(g)'
      BY <2>1, <3>7 DEF UnderWay, Within
    <3>9. QED
      BY <3>6, <3>8
  <2>3. QED
    BY <1>10, <2>2 DEF StartOK
<1>14. RestOK'
  BY <1>1, <1>2, <1>8 DEF RestOK, Noted, dom
<1>15. bound' \in Int /\ bound <= bound'
  BY <1>10
<1>16. QED
  BY <1>1, <1>7, <1>12, <1>13, <1>14, <1>15, RelistedStep

-----------------------------------------------------------------------------
(* Gestures begin *)

LEMMA DueType ==
  ASSUME handlers \in [Nodes -> Seq(Entry)], NEW n \in Nodes, NEW path \in Seq(Nodes), NEW ns
  PROVE  Due(n, path, ns) \in SUBSET (1 .. MaxBound)
<1>1. ASSUME NEW k \in 1 .. Len(path), NEW j \in 1 .. Len(handlers[path[k]]),
             handlers[path[k]][j] # Controller
      PROVE  handlers[path[k]][j].nr \in 1 .. MaxBound
  <2>1. path[k] \in Nodes
    OBVIOUS
  <2>2. handlers[path[k]] \in Seq(Entry)
    BY <2>1
  <2>3. handlers[path[k]][j] \in Entry
    BY <2>2
  <2>4. handlers[path[k]][j] \in HandleObj
    BY <1>1, <2>3 DEF Entry
  <2>5. QED
    BY <2>4 DEF HandleObj
<1>2. \A x \in Due(n, path, ns) : x \in 1 .. MaxBound
  <2>1. SUFFICES ASSUME NEW x \in Due(n, path, ns) PROVE x \in 1 .. MaxBound
    OBVIOUS
  <2>2. PICK k \in 1 .. Len(path) : \E i \in 1 .. Len(handlers[path[k]]) :
              handlers[path[k]][i] # Controller /\ x = handlers[path[k]][i].nr
    BY DEF Due
  <2>3. PICK i \in 1 .. Len(handlers[path[k]]) :
              handlers[path[k]][i] # Controller /\ x = handlers[path[k]][i].nr
    BY <2>2
  <2>4. QED
    BY <1>1, <2>3
<1>3. QED
  BY <1>2

\* what the log tells of a gesture that begins
NewLog(new, toggled, within, old) ==
    /\ log' \in [Gesture -> LogRec]
    /\ \A g \in Gesture : g # new => log'[g] = IF calls = << >> THEN NoLog ELSE log[g]
    /\ log'[new].called = {} /\ (log'[new].toggled <=> toggled)
    /\ (log'[new].within <=> within) /\ (log'[new].old <=> old)

LEMMA BegunIs ==
  ASSUME RestOK, ListsNow, NEW n \in Nodes, NEW path \in Seq(Nodes), NEW ns, NEW only,
         NEW native \in BOOLEAN, gestures < MaxGestures, Begun(n, path, ns, only, native)
  PROVE  /\ gestures' = gestures + 1 /\ gestures' \in Gesture /\ gestures' \in 0 .. MaxGestures
         /\ gestures \in Nat
         /\ NewLog(gestures', native,
                   \E k \in 1 .. Len(calls) : calls[k].kind # "dispatch" /\ n = calls[k].target,
                   Old(n))
<1> DEFINE D == Due(n, path, ns)
           w == \E k \in 1 .. Len(calls) : calls[k].kind # "dispatch" /\ n = calls[k].target
           o == Old(n)
           lg == IF calls = << >> THEN [g \in Gesture |-> NoLog] ELSE log
           new == gestures'
           rec == [due |-> D, called |-> {}, twice |-> FALSE, broken |-> FALSE,
                   toggled |-> native, within |-> w, old |-> o]
<1>1. gestures' = gestures + 1 /\ log' = [lg EXCEPT ![new] = rec]
  BY DEF Begun
<1>2. gestures \in Nat /\ MaxGestures \in Nat /\ gestures' \in Gesture /\ gestures' \in 0 .. MaxGestures
  <2>1. gestures \in Nat /\ MaxGestures \in Nat
    BY EventsAssumption DEF RestOK
  <2>2. QED
    BY <1>1, <2>1 DEF Gesture
<1>3. D \in SUBSET (1 .. MaxBound)
  BY DueType DEF ListsNow
<1>4. w \in BOOLEAN /\ o \in BOOLEAN
  <2>1. w \in BOOLEAN
    BY Zenon
  <2>2. o \in BOOLEAN
    BY Zenon DEF Old
  <2>3. QED
    BY <2>1, <2>2
<1>5. lg \in [Gesture -> LogRec] /\ \A g \in Gesture : lg[g] = IF calls = << >> THEN NoLog ELSE log[g]
  <2>1. NoLog \in LogRec
    BY DEF NoLog, LogRec
  <2>2. log \in [Gesture -> LogRec]
    BY DEF RestOK
  <2>3. CASE calls = << >>
    <3>1. lg = [g \in Gesture |-> NoLog]
      BY <2>3
    <3> HIDE DEF lg
    <3>2. QED
      BY <2>1, <2>3, <3>1
  <2>4. CASE calls # << >>
    BY <2>2, <2>4
  <2>5. QED
    BY <2>3, <2>4
<1>6. new \in Gesture
  BY <1>2
<1> HIDE DEF D, w, o, lg, new
<1>7. /\ rec.called = {} /\ rec.toggled = native /\ rec.within = w /\ rec.old = o
  OBVIOUS
<1>8. rec \in LogRec
  <2>1. FALSE \in BOOLEAN /\ {} \in SUBSET (1 .. MaxBound)
    OBVIOUS
  <2>2. QED
    BY <1>3, <1>4, <2>1 DEF LogRec
<1> HIDE DEF rec
<1>9. log' \in [Gesture -> LogRec] /\ log'[new] = rec /\ \A g \in Gesture : g # new => log'[g] = lg[g]
  BY <1>1, <1>5, <1>6, <1>8
<1>10. NewLog(new, native, w, o)
  <2>1. \A g \in Gesture : g # new => log'[g] = IF calls = << >> THEN NoLog ELSE log[g]
    BY <1>5, <1>9
  <2>2. /\ log'[new].called = {} /\ (log'[new].toggled <=> native)
        /\ (log'[new].within <=> w) /\ (log'[new].old <=> o)
    BY <1>7, <1>9
  <2>3. QED
    BY <1>9, <2>1, <2>2 DEF NewLog
<1>11. QED
  BY <1>1, <1>2, <1>10 DEF new, w, o

LEMMA GoodMore ==
  ASSUME NEW st, NEW cl, NEW tr, NEW sv, NEW hs, NEW bd, NEW G, NEW T,
         Good(st, cl, tr, sv, hs, bd, G, T), NEW G2, NEW T2, G \subseteq G2, T \subseteq T2
  PROVE  Good(st, cl, tr, sv, hs, bd, G2, T2)
  BY DEF Good, Within

\* what is to be shown of the gesture that begins
LEMMA BeginStep ==
  ASSUME EventsIInv, HandlerRuns, Relisted, bound' = bound,
         gestures' = gestures + 1, gestures' \in 0 .. MaxGestures,
         GoodAfter(Gesture), Within(calls', Gestures \cup {gestures'}, Aimed'),
         RestOK', NEW toggled, NEW within, NEW old, NewLog(gestures', toggled, within, old),
         \A g \in 1 .. gestures' : g = gestures' /\ ~ toggled /\ ~ within /\ ~ old => Starts(g)'
  PROVE  EventsIInv'
<1>1. bound' \in Int /\ bound <= bound' /\ gestures \in Nat /\ log \in [Gesture -> LogRec] /\ StartOK
  BY IInvParts DEF RestOK, EventsIInv
<1>2. gestures' \in Gesture
  BY <1>1 DEF Gesture
<1>3. \A g \in Gesture : log'[g].called \subseteq log[g].called
  <2>1. NoLog.called = {}
    BY DEF NoLog
  <2>2. QED
    BY <2>1 DEF NewLog
<1>4. LogOK(handlers', log', bound')
  BY <1>1, <1>3, LogOKAfter
<1>5. StartOK'
  <2>1. ASSUME NEW g \in 1 .. gestures', ~ log'[g].toggled, ~ log'[g].within, ~ log'[g].old
        PROVE  log'[g].called = {} /\ (Starts(g)' \/ ~ UnderWay(g)')
    <3>1. CASE g = gestures'
      <4>1. log'[g].called = {} /\ ~ toggled /\ ~ within /\ ~ old
        BY <2>1, <3>1 DEF NewLog
      <4>3. Starts(g)'
        BY <3>1, <4>1
      <4>4. QED
        BY <4>1, <4>3
    <3>2. CASE g # gestures'
      <4>1. g \in 1 .. gestures /\ g \in Gesture
        <5> DEFINE h == gestures'
        <5>1. h = gestures + 1 /\ h \in 0 .. MaxGestures /\ g \in 1 .. h /\ g # h /\ MaxGestures \in Nat
          BY <3>2, EventsAssumption
        <5> HIDE DEF h
        <5>2. QED
          BY <1>1, <5>1 DEF Gesture
      <4>2. log'[g].called = {} /\ ~ UnderWay(g)
        <5>1. CASE calls = << >>
          <6>1. log'[g] = NoLog
            BY <3>2, <4>1, <5>1 DEF NewLog
          <6>2. log'[g].called = {}
            BY <6>1 DEF NoLog
          <6>3. ~ UnderWay(g)
            BY <5>1 DEF UnderWay
          <6>4. QED
            BY <6>2, <6>3
        <5>2. CASE calls # << >>
          <6>1. log'[g] = log[g]
            BY <3>2, <4>1, <5>2 DEF NewLog
          <6>2. log[g].called = {} /\ (Starts(g) \/ ~ UnderWay(g))
            BY <1>1, <2>1, <4>1, <6>1 DEF StartOK
          <6>3. QED
            BY <6>1, <6>2, NotStarting
        <5>3. QED
          BY <5>1, <5>2
      <4>3. g \notin Gestures \cup {gestures'}
        BY <3>2, <4>2 DEF Gestures
      <4>4. ~ UnderWay(g)'
        BY <4>3 DEF UnderWay, Within
      <4>5. QED
        BY <4>2, <4>4
    <3>3. QED
      BY <3>1, <3>2
  <2>2. QED
    BY <2>1 DEF StartOK
<1>6. QED
  BY <1>1, <1>4, <1>5, RelistedStep

\* the browser's click of the user
PlainFrame(g, n) == NativeFrame(g, n, FALSE)

LEMMA PlainIs ==
  ASSUME NEW g \in Gesture, NEW n \in Nodes
  PROVE  /\ PlainFrame(g, n) \in EventCall /\ PlainFrame(g, n).kind = "native"
         /\ PlainFrame(g, n).at = "path" /\ PlainFrame(g, n).g = g
         /\ PlainFrame(g, n).target = n /\ ~ ScriptClick(PlainFrame(g, n))
<1>1. \A script \in BOOLEAN :
         /\ NativeFrame(g, n, script) \in EventCall /\ NativeFrame(g, n, script).kind = "native"
         /\ NativeFrame(g, n, script).at = "path" /\ NativeFrame(g, n, script).g = g
         /\ NativeFrame(g, n, script).target = n
         /\ (NativeFrame(g, n, script).script <=> script)
  BY NativeIs
<1>2. FALSE \in BOOLEAN
  OBVIOUS
<1>3. /\ PlainFrame(g, n) \in EventCall /\ PlainFrame(g, n).kind = "native"
      /\ PlainFrame(g, n).at = "path" /\ PlainFrame(g, n).g = g
      /\ PlainFrame(g, n).target = n
      /\ (PlainFrame(g, n).script <=> FALSE)
  BY <1>1, <1>2, Zenon DEF PlainFrame
<1>4. QED
  BY <1>3 DEF ScriptClick

LEMMA TakeClick ==
  ASSUME NEW G, Sound(G), NEW n \in Nodes, NEW script \in BOOLEAN, Click(n, script), gestures' \in Gesture
  PROVE  GoodAfter(G \cup {gestures'})
<1> DEFINE new == gestures'
           H == G \cup {new}
<1>1. /\ HandlerRuns /\ new \in Gesture
      /\ UNCHANGED << binding, saved, triggered, synth >>
  BY DEF Click
<1>2. calls \in Seq(EventCall) /\ triggered \in BOOLEAN
  BY Types DEF Sound
<1>3. Good(calls, clicking, triggered, saved, handlers, bound, G, Aimed)
  BY DEF Sound
<1>4. ~ triggered
  <2>1. CASE calls = << >>
    BY <1>3, <2>1 DEF Good, Shaped, Defaults
  <2>2. CASE calls # << >>
    <3>1. Current.kind = "dispatch" /\ Current.at = "call"
      BY <1>1, <2>2 DEF HandlerRuns, CurrentIs
    <3>2. QED
      BY <2>2, <3>1, TopParts
  <2>3. QED
    BY <2>1, <2>2
<1>5. Good(calls, clicking, triggered, saved, handlers, bound, H, Aimed)
  <2> HIDE DEF new
  <2>1. G \subseteq H /\ Aimed \subseteq Aimed
    OBVIOUS
  <2> HIDE DEF H
  <2>2. QED
    BY <1>3, <2>1, GoodMore
<1>6. Aimed' = Aimed /\ triggered' = triggered /\ saved' = saved
  BY <1>1 DEF Aimed
<1>7. new \in H
  OBVIOUS
<1>8. calls # << >> => calls[1].kind = "dispatch" /\ calls[1].at = "call"
  BY <1>1 DEF HandlerRuns, CurrentIs, Current
<1>9. CASE script
  <2> DEFINE N == ScriptFrame(new, n)
  <2>1. calls' = << N >> \o calls /\ clicking' = clicking \cup {n} /\ n \notin clicking
    BY <1>9 DEF Click, Clicked, ScriptFrame
  <2> HIDE DEF new, H
  <2>2. N \in EventCall /\ N.kind = "native" /\ N.at = "path" /\ N.g = new /\ N.target = n /\ ScriptClick(N)
    BY <1>1, ClickIs
  <2> HIDE DEF N
  <2>3. calls # << >> => Above(N, calls[1])
    BY <1>8, <2>2 DEF Above
  <2>4. ~ ByScript(N) /\ QueueOK(handlers, N, bound)
    BY <2>2 DEF ByScript, QueueOK
  <2>5. clicking' = IF ScriptClick(N) THEN clicking \cup {N.target} ELSE clicking
    BY <2>1, <2>2
  <2>6. Good(<< N >> \o calls, clicking', triggered, saved, handlers, bound, H, Aimed)
    BY <1>2, <1>4, <1>5, <1>7, <2>1, <2>2, <2>3, <2>4, <2>5, OverGood
  <2>7. QED
    BY <1>6, <2>1, <2>6 DEF GoodAfter, H, new
<1>10. CASE ~ script
  <2> DEFINE N == PlainFrame(new, n)
  <2>1. calls' = << N >> /\ calls = << >> /\ clicking' = clicking
    BY <1>10 DEF Click, PlainFrame, dom
  <2> HIDE DEF new, H
  <2>2. N \in EventCall /\ N.kind = "native" /\ N.at = "path" /\ N.g = new /\ N.target = n /\ ~ ScriptClick(N)
    BY <1>1, PlainIs
  <2> HIDE DEF N
  <2>3. calls' = << N >> \o calls
    BY <2>1
  <2>4. ~ ByScript(N) /\ QueueOK(handlers, N, bound)
    BY <2>2 DEF ByScript, QueueOK
  <2>5. clicking' = IF ScriptClick(N) THEN clicking \cup {N.target} ELSE clicking
    BY <2>1, <2>2
  <2>6. Good(<< N >> \o calls, clicking', triggered, saved, handlers, bound, H, Aimed)
    BY <1>2, <1>4, <1>5, <1>7, <2>1, <2>2, <2>4, <2>5, OverGood
  <2>7. QED
    BY <1>6, <2>3, <2>6 DEF GoodAfter, H, new
<1>11. QED
  BY <1>9, <1>10

LEMMA StepClick ==
  ASSUME EventsIInv, NEW n \in Nodes, NEW script \in BOOLEAN, Click(n, script)
  PROVE  EventsIInv'
<1>1. RestOK /\ ListsNow /\ Sound(Gesture) /\ Sound(Gestures)
  BY IInvParts
<1>2. /\ HandlerRuns /\ gestures < MaxGestures /\ Begun(n, Path(n), FALSE, FALSE, TRUE)
      /\ UNCHANGED << binding, saved, triggered, synth >>
  BY DEF Click
<1>3. clicking' \in SUBSET Nodes /\ detached' = detached
  BY <1>1 DEF Click, Clicked, dom, RestOK
<1> DEFINE w == \E k \in 1 .. Len(calls) : calls[k].kind # "dispatch" /\ n = calls[k].target
<1>4. /\ gestures' = gestures + 1 /\ gestures' \in Gesture /\ gestures' \in 0 .. MaxGestures
      /\ \E toggled \in BOOLEAN : toggled /\ NewLog(gestures', toggled, w, Old(n))
  <2>1. Path(n) \in Seq(Nodes)
    BY PathIs
  <2>2. PICK native \in BOOLEAN, a \in BOOLEAN : native /\ Begun(n, Path(n), a, a, native)
    <3>1. TRUE \in BOOLEAN /\ FALSE \in BOOLEAN
      OBVIOUS
    <3>2. QED
      BY <1>2, <3>1, Zenon
  <2> DEFINE p == Path(n)
  <2>3. p \in Seq(Nodes) /\ Begun(n, p, a, a, native)
    BY <2>1, <2>2
  <2> HIDE DEF p
  <2>4. /\ gestures' = gestures + 1 /\ gestures' \in Gesture /\ gestures' \in 0 .. MaxGestures
        /\ NewLog(gestures', native, w, Old(n))
    BY <1>1, <1>2, <2>3, BegunIs
  <2>5. QED
    BY <2>2, <2>4
<1>5. PICK toggled \in BOOLEAN : toggled /\ NewLog(gestures', toggled, w, Old(n))
  BY <1>4
<1>6. GoodAfter(Gesture \cup {gestures'}) /\ GoodAfter(Gestures \cup {gestures'})
  BY <1>1, <1>4, TakeClick
<1>7. GoodAfter(Gesture)
  <2>1. Gesture \cup {gestures'} = Gesture
    BY <1>4
  <2>2. QED
    BY <1>6, <2>1
<1>8. Within(calls', Gestures \cup {gestures'}, Aimed')
  BY <1>6 DEF GoodAfter, Good
<1>9. Relisted /\ bound' = bound
  <2>1. UNCHANGED << handlers, delegateCount, saved, bound >>
    BY <1>2 DEF binding
  <2>2. QED
    BY <1>1, <2>1, SameLists
<1>10. RestOK'
  BY <1>1, <1>2, <1>3, <1>4, <1>5, <1>9 DEF RestOK, NewLog
<1> HIDE DEF w
<1>11. QED
  BY <1>2, <1>4, <1>5, <1>7, <1>8, <1>9, <1>10, BeginStep

LEMMA Unsilenced ==
  ASSUME NEW G, Sound(G), HandlerRuns
  PROVE  ~ triggered /\ (calls # << >> => calls[1].kind = "dispatch" /\ calls[1].at = "call")
<1>1. triggered \in BOOLEAN /\ Good(calls, clicking, triggered, saved, handlers, bound, G, Aimed)
  BY Types DEF Sound
<1>2. CASE calls = << >>
  BY <1>1, <1>2 DEF Good, Shaped, Defaults
<1>3. CASE calls # << >>
  <2>1. Current.kind = "dispatch" /\ Current.at = "call"
    BY <1>3 DEF HandlerRuns, CurrentIs
  <2>2. QED
    BY <1>3, <2>1, TopParts DEF Current
<1>4. QED
  BY <1>2, <1>3

\* a gesture that does not begin within another on the same element
LEMMA NotWithin ==
  ASSUME NEW G, Sound(G), HandlerRuns, NEW n \in Nodes,
         \A k \in 1 .. Len(calls) : calls[k].kind # "dispatch" => n # calls[k].target
  PROVE  n \notin clicking /\ saved[n] \in {Undefined, False}
<1>1. calls \in Seq(EventCall) /\ Nested(calls) /\ Clicks(calls, clicking) /\ Kept(calls, saved)
  BY DEF Sound, Good, Shaped
<1>2. n \notin clicking
  BY <1>1 DEF Clicks, ScriptClick
<1>3. ASSUME saved[n] \notin {Undefined, False} PROVE FALSE
  <2>1. PICK j \in 1 .. Len(calls) : Awaits(calls[j], n)
    BY <1>1, <1>3 DEF Kept
  <2>2. calls[j].kind = "dispatch" /\ calls[j].at = "browser" /\ calls[j].node = n
    BY <2>1 DEF Awaits
  <2>3. j # 1
    BY <2>2, Unsilenced
  <2>4. j - 1 \in 1 .. Len(calls) - 1 /\ (j - 1) + 1 = j /\ j - 1 \in 1 .. Len(calls)
    BY <1>1, <2>3
  <2>5. Above(calls[j - 1], calls[j])
    BY <1>1, <2>4 DEF Nested
  <2>6. ScriptClick(calls[j - 1]) /\ calls[j - 1].target = n
    BY <2>2, <2>5 DEF Above
  <2>7. QED
    BY <2>4, <2>6 DEF ScriptClick
<1>4. QED
  BY <1>2, <1>3

SynthNew(n, ns, only) == [target |-> n, ns |-> ns, only |-> only, flags |-> Fresh]

LEMMA SynthIs ==
  ASSUME EventsTypeOK, NEW new \in Gesture, NEW n \in Nodes, NEW ns \in BOOLEAN, NEW only \in BOOLEAN,
         synth' = [synth EXCEPT ![new] = SynthNew(n, ns, only)]
  PROVE  /\ synth' \in [Gesture -> SynthRec] /\ Aimed' = Aimed \cup {new}
         /\ synth'[new].target = n /\ (synth'[new].only <=> only) /\ synth'[new].flags = Fresh
<1> DEFINE s == SynthNew(n, ns, only)
<1>1. s.target = n /\ s.only = only /\ s.flags = Fresh /\ Fresh \in StopFlags
  BY DEF SynthNew, Fresh, StopFlags
<1>2. s \in SynthRec
  BY <1>1 DEF SynthNew, SynthRec
<1>3. synth \in [Gesture -> SynthRec]
  BY DEF EventsTypeOK, SynthRec
<1> HIDE DEF s
<1>4. synth' \in [Gesture -> SynthRec] /\ synth'[new] = s /\ \A g \in Gesture : g # new => synth'[g] = synth[g]
  BY <1>2, <1>3 DEF s
<1>5. Aimed' = Aimed \cup {new}
  BY <1>1, <1>4 DEF Aimed
<1>6. QED
  BY <1>1, <1>4, <1>5

LEMMA TakeTrigger ==
  ASSUME NEW G, Sound(G), NEW n \in Nodes, NEW ns \in BOOLEAN, NEW only \in BOOLEAN,
         Trigger(n, ns, only), gestures' \in Gesture
  PROVE  /\ GoodAfter(G \cup {gestures'})
         /\ calls' # << >> /\ calls'[1] = TriggerFrame(gestures', n, only)
<1> DEFINE new == gestures'
           H == G \cup {new}
           A == Aimed \cup {new}
           T == TriggerFrame(new, n, only)
<1>1. /\ HandlerRuns /\ new \in Gesture /\ calls' = << T >> \o calls
      /\ synth' = [synth EXCEPT ![new] = SynthNew(n, ns, only)]
      /\ triggered' = triggered /\ clicking' = clicking
  BY DEF Trigger, SynthNew, dom
<1>2. calls \in Seq(EventCall) /\ triggered \in BOOLEAN /\ saved \in [Nodes -> Private]
  BY Types DEF Sound
<1>3. Good(calls, clicking, triggered, saved, handlers, bound, G, Aimed)
  BY DEF Sound
<1>4. ~ triggered /\ (calls # << >> => calls[1].kind = "dispatch" /\ calls[1].at = "call")
  BY <1>1, Unsilenced
<1>5. Kept(calls, saved')
  <2>1. CASE Forced(n, only)
    <3>1. saved' = [saved EXCEPT ![n] = False]
      BY <2>1 DEF Trigger, Remember
    <3>2. Kept(calls, saved)
      BY <1>3 DEF Good
    <3>3. Kept(calls, [saved EXCEPT ![n] = False])
      BY <1>2, <3>2, KeptSet
    <3>4. QED
      BY <3>1, <3>3
  <2>2. CASE ~ Forced(n, only)
    BY <1>3, <2>2 DEF Good, Trigger
  <2>3. QED
    BY <2>1, <2>2
<1>6. Aimed' = A
  <2> HIDE DEF new
  <2>1. QED
    BY <1>1, SynthIs DEF Sound
<1>7. new \in H /\ new \in A /\ G \subseteq H /\ Aimed \subseteq A
  OBVIOUS
<1> HIDE DEF H, A
<1>8. Good(calls, clicking, triggered, saved', handlers, bound, H, A)
  <2>1. Good(calls, clicking, triggered, saved', handlers, bound, G, Aimed)
    BY <1>3, <1>5, GoodKept
  <2>2. QED
    BY <1>7, <2>1, GoodMore
<1> HIDE DEF new
<1>9. T \in EventCall /\ T.kind = "trigger" /\ T.at = "path" /\ T.g = new
  BY <1>1, TriggerIs
<1> HIDE DEF T
<1>10. (calls # << >> => Above(T, calls[1])) /\ ~ ScriptClick(T) /\ QueueOK(handlers, T, bound)
  BY <1>4, <1>9 DEF Above, ScriptClick, QueueOK
<1>11. /\ Good(<< T >> \o calls, clicking, triggered, saved', handlers, bound, H, A)
       /\ (<< T >> \o calls)[1] = T /\ << T >> \o calls # << >>
  BY <1>2, <1>4, <1>7, <1>8, <1>9, <1>10, OverGood
<1>12. GoodAfter(H)
  BY <1>1, <1>6, <1>11 DEF GoodAfter
<1>13. QED
  BY <1>1, <1>11, <1>12 DEF H, T, new

LEMMA StepTrigger ==
  ASSUME EventsIInv, NEW n \in Nodes, NEW ns \in BOOLEAN, NEW only \in BOOLEAN, Trigger(n, ns, only)
  PROVE  EventsIInv'
<1>1. RestOK /\ ListsNow /\ Sound(Gesture) /\ Sound(Gestures) /\ EventsTypeOK
  BY IInvParts DEF EventsIInv
<1> DEFINE path == IF only THEN << n >> ELSE Path(n)
           toggled == n \notin Checkable \/ only
           w == \E k \in 1 .. Len(calls) : calls[k].kind # "dispatch" /\ n = calls[k].target
<1>2. /\ HandlerRuns /\ gestures < MaxGestures /\ Begun(n, path, ns, only, toggled)
      /\ synth' = [synth EXCEPT ![gestures'] = SynthNew(n, ns, only)]
      /\ UNCHANGED << delegateCount, bound, triggered, dom >>
  BY DEF Trigger, SynthNew
<1>3. /\ gestures' = gestures + 1 /\ gestures' \in Gesture /\ gestures' \in 0 .. MaxGestures
      /\ NewLog(gestures', toggled, w, Old(n))
  <2>1. path \in Seq(Nodes) /\ toggled \in BOOLEAN
    BY PathIs
  <2> HIDE DEF path, toggled
  <2>2. QED
    BY <1>1, <1>2, <2>1, BegunIs
<1>4. /\ GoodAfter(Gesture \cup {gestures'}) /\ GoodAfter(Gestures \cup {gestures'})
      /\ calls' # << >> /\ calls'[1] = TriggerFrame(gestures', n, only)
  BY <1>1, <1>3, TakeTrigger
<1>5. GoodAfter(Gesture) /\ Within(calls', Gestures \cup {gestures'}, Aimed')
  <2>1. Gesture \cup {gestures'} = Gesture
    BY <1>3
  <2>2. GoodAfter(Gesture)
    BY <1>4, <2>1
  <2>3. QED
    BY <1>4, <2>2 DEF GoodAfter, Good
<1>6. /\ synth' \in [Gesture -> SynthRec]
      /\ synth'[gestures'].target = n /\ (synth'[gestures'].only <=> only) /\ synth'[gestures'].flags = Fresh
  <2> DEFINE new == gestures'
  <2>1. new \in Gesture /\ synth' = [synth EXCEPT ![new] = SynthNew(n, ns, only)]
    BY <1>2, <1>3
  <2> HIDE DEF new
  <2>2. /\ synth' \in [Gesture -> SynthRec]
        /\ synth'[new].target = n /\ (synth'[new].only <=> only) /\ synth'[new].flags = Fresh
    BY <1>1, <2>1, SynthIs
  <2>3. QED
    BY <2>2 DEF new
<1>7. /\ Relisted /\ saved' \in [Nodes -> Private]
      /\ Forced(n, only) => saved'[n] = False /\ handlers'[n] = << Controller >>
      /\ ~ Forced(n, only) => saved' = saved /\ handlers' = handlers
  <2>1. CASE Forced(n, only)
    <3> DEFINE t == << Controller >>
    <3>1. /\ saved' = [saved EXCEPT ![n] = False] /\ handlers' = [handlers EXCEPT ![n] = t]
      BY <2>1 DEF Trigger, Remember
    <3>2. saved \in [Nodes -> Private] /\ handlers \in [Nodes -> Seq(Entry)] /\ delegateCount \in [Nodes -> Nat]
      BY <1>1 DEF ListsNow
    <3>3. saved' \in [Nodes -> Private] /\ saved'[n] = False /\ \A m \in Nodes : m # n => saved'[m] = saved[m]
      BY <3>1, <3>2, PrivateAre
    <3>4. delegateCount[n] = 0
      <4>1. n \in Checkable /\ saved[n] = Undefined
        BY <2>1 DEF Forced
      <4>2. handlers[n] = << >> /\ FrontOK(handlers[n], delegateCount[n])
        BY <1>1, <4>1 DEF ListsNow, ListsOK
      <4>3. QED
        BY <4>2 DEF FrontOK
    <3>5. delegateCount' = [delegateCount EXCEPT ![n] = 0]
      BY <1>2, <3>2, <3>4
    <3>6. False # Undefined
      BY PrivateAre
    <3>7. t \in {<< >>, << Controller >>}
      OBVIOUS
    <3> HIDE DEF t
    <3>8. Relisted
      BY <1>1, <1>2, <3>1, <3>3, <3>5, <3>6, <3>7, ResetLists
    <3>9. handlers'[n] = t
      BY <3>1, <3>2
    <3>10. QED
      BY <2>1, <3>3, <3>8, <3>9 DEF t
  <2>2. CASE ~ Forced(n, only)
    <3>1. saved' = saved /\ handlers' = handlers
      BY <2>2 DEF Trigger
    <3>2. Relisted
      BY <1>1, <1>2, <3>1, SameLists
    <3>3. QED
      BY <1>1, <2>2, <3>1, <3>2 DEF RestOK
  <2>3. QED
    BY <2>1, <2>2
<1>8. \A g \in 1 .. gestures' : g = gestures' /\ ~ toggled /\ ~ w /\ ~ Old(n) => Starts(g)'
  <2>1. SUFFICES ASSUME NEW g \in 1 .. gestures', g = gestures', ~ toggled, ~ w, ~ Old(n)
                 PROVE  Starts(g)'
    OBVIOUS
  <2>2. n \in Checkable /\ ~ only
    BY <2>1
  <2>3. \A k \in 1 .. Len(calls) : calls[k].kind # "dispatch" => n # calls[k].target
    BY <2>1
  <2>4. n \notin clicking /\ saved[n] \in {Undefined, False}
    BY <1>1, <1>2, <2>3, NotWithin
  <2>5. ~ triggered
    BY <1>1, <1>2, Unsilenced
  <2>6. handlers'[n] # << >> /\ saved'[n] = False
    <3>1. CASE Forced(n, only)
      BY <1>7, <3>1
    <3>2. CASE ~ Forced(n, only)
      <4>1. saved[n] = False
        BY <2>2, <2>4, <3>2 DEF Forced
      <4>2. handlers[n] # << >>
        BY <2>1, <2>2, <4>1 DEF Old
      <4>3. QED
        BY <1>7, <3>2, <4>1, <4>2
    <3>3. QED
      BY <3>1, <3>2
  <2>7. ~ HasArgs(n)'
    BY <2>6 DEF HasArgs, False
  <2>8. /\ Current'.kind = "trigger" /\ Current'.at = "path" /\ Current'.g = g
        /\ Current'.path # << >> /\ Head(Current'.path) = n
    <3> DEFINE T == TriggerFrame(g, n, only)
    <3>1. T.kind = "trigger" /\ T.at = "path" /\ T.g = g /\ T.path # << >> /\ T.path[1] = n
      <4>1. g \in Gesture
        BY <1>3, <2>1
      <4>2. QED
        BY <4>1, TriggerIs
    <3>2. Current' = T
      BY <1>4, <2>1 DEF Current
    <3> HIDE DEF T
    <3>3. Head(T.path) = T.path[1]
      OBVIOUS
    <3>4. QED
      BY <3>1, <3>2, <3>3
  <2>9. clicking' = clicking /\ triggered' = triggered
    BY <1>2 DEF dom
  <2>10. synth'[g].target = n /\ ~ synth'[g].only /\ ~ synth'[g].flags.stopped
    <3>1. synth'[g].target = n /\ (synth'[g].only <=> only) /\ synth'[g].flags = Fresh
      BY <1>6, <2>1
    <3>2. QED
      BY <2>2, <3>1 DEF Fresh
  <2>11. QED
    BY <1>4, <2>2, <2>4, <2>5, <2>6, <2>7, <2>8, <2>9, <2>10 DEF Starts
<1>9. RestOK'
  BY <1>1, <1>2, <1>3, <1>6, <1>7 DEF RestOK, NewLog, dom
<1>10. bound' = bound
  BY <1>2
<1> HIDE DEF w, toggled, path
<1>11. QED
  BY <1>2, <1>3, <1>5, <1>7, <1>8, <1>9, <1>10, BeginStep

-----------------------------------------------------------------------------
(* The theorems about events *)

LEMMA EventsStart ==
  ASSUME EventsInit PROVE EventsIInv
<1>1. MaxBound \in Nat /\ MaxGestures \in Nat
  BY EventsAssumption
<1>2. /\ handlers = [n \in Nodes |-> << >>] /\ delegateCount = [n \in Nodes |-> 0]
      /\ saved = [n \in Nodes |-> Undefined] /\ triggered = FALSE /\ detached = {} /\ clicking = {}
      /\ synth = [g \in Gesture |-> NoSynth] /\ calls = << >> /\ bound = 0 /\ gestures = 0
      /\ log = [g \in Gesture |-> NoLog]
  BY DEF EventsInit
<1>3. EventsTypeOK
  <2>1. NoSynth \in SynthRec
    BY DEF NoSynth, SynthRec, Fresh, StopFlags
  <2>2. NoLog \in LogRec
    BY DEF NoLog, LogRec
  <2>3. synth \in [Gesture -> SynthRec] /\ log \in [Gesture -> LogRec]
    BY <1>2, <2>1, <2>2
  <2>4. saved \in [Nodes -> Private]
    BY <1>2, PrivateAre
  <2>5. handlers \in [Nodes -> Seq(HandleObj \cup {Controller})] /\ delegateCount \in [Nodes -> Nat]
    BY <1>2
  <2>6. /\ triggered \in BOOLEAN /\ detached \subseteq Nodes /\ clicking \subseteq Nodes
        /\ calls \in Seq(NativeCall \cup TriggerCall \cup DispatchCall)
        /\ bound \in 0 .. MaxBound /\ gestures \in 0 .. MaxGestures
    <3>1. FALSE \in BOOLEAN /\ {} \subseteq Nodes
      OBVIOUS
    <3>2. triggered \in BOOLEAN
      BY <1>2, <3>1, Zenon
    <3>3. detached \subseteq Nodes /\ clicking \subseteq Nodes
      BY <1>2, <3>1, Zenon
    <3>4. << >> \in Seq(NativeCall \cup TriggerCall \cup DispatchCall)
      OBVIOUS
    <3>5. calls \in Seq(NativeCall \cup TriggerCall \cup DispatchCall)
      BY <1>2, <3>4, Zenon
    <3>6. bound \in 0 .. MaxBound /\ gestures \in 0 .. MaxGestures
      <4>1. 0 \in 0 .. MaxBound /\ 0 \in 0 .. MaxGestures
        BY <1>1
      <4>2. QED
        BY <1>2, <4>1, Zenon
    <3>7. QED
      BY <3>2, <3>3, <3>5, <3>6
  <2>7. QED
    BY <2>3, <2>4, <2>5, <2>6 DEF EventsTypeOK, SynthRec, LogRec
<1>4. \A n \in Nodes : Len(handlers[n]) = 0 /\ handlers[n] = << >> /\ delegateCount[n] = 0
  BY <1>2
<1>5. \A n \in Nodes : \A it : ~ Among(handlers[n], it)
  BY <1>4 DEF Among
<1>6. ListsOK(handlers, delegateCount, saved, bound)
  <2>1. ASSUME NEW n \in Nodes PROVE FrontOK(handlers[n], delegateCount[n])
    BY <1>4 DEF FrontOK
  <2>2. ASSUME NEW n \in Nodes PROVE Led(handlers[n], delegateCount[n])
    BY <1>4 DEF Led
  <2>3. QED
    BY <1>4, <1>5, <2>1, <2>2 DEF ListsOK
<1>7. Good(calls, clicking, triggered, saved, handlers, bound, Gesture, Aimed)
  <2>1. Nested(calls) /\ Clicks(calls, clicking) /\ Defaults(calls, triggered)
    BY <1>2 DEF Nested, Clicks, Defaults
  <2>2. Kept(calls, saved) /\ QueuesOK(handlers, calls, bound) /\ Within(calls, Gesture, Aimed)
    BY <1>2 DEF Kept, QueuesOK, Within
  <2>3. calls \in Seq(EventCall)
    BY <1>2
  <2>4. QED
    BY <2>1, <2>2, <2>3 DEF Good, Shaped
<1>8. LogOK(handlers, log, bound)
  <2>1. \A g \in Gesture : log[g].called = {}
    BY <1>2 DEF NoLog
  <2>2. QED
    BY <2>1 DEF LogOK
<1>9. StartOK
  BY <1>2 DEF StartOK
<1>10. QED
  BY <1>3, <1>6, <1>7, <1>8, <1>9 DEF EventsIInv

LEMMA EventsStep ==
  ASSUME EventsIInv, EventsNext PROVE EventsIInv'
<1>1. CASE Step
  BY <1>1, StepDeliverNative, StepEndNative, StepDeliverSynth, StepEndSynth, StepEndDefault,
     StepCallHandler, StepEndDispatch, StepInterrupt, StepResume, StepRefire, StepRefired, StepPass DEF Step
<1>2. CASE User
  <2>1. CASE Returns \/ ReturnsFalse \/ ReturnsStopped \/ Throws
    BY <2>1, StepReturns, StepReturnsFalse, StepReturnsStopped, StepThrows
  <2>2. ASSUME NEW n \in Nodes, NEW form \in Forms, NEW sel \in Nodes \cup {Nil}, Bind(n, form, sel)
        PROVE  EventsIInv'
    BY <2>2, StepBind
  <2>3. ASSUME NEW n \in Nodes, NEW g \in UserFns, Unbind(n, g, NotGiven, FALSE) PROVE EventsIInv'
    <3>1. \E ns \in BOOLEAN : Unbind(n, g, NotGiven, ns)
      BY <2>3, Zenon
    <3>2. QED
      BY <3>1, StepUnbind
  <2>4. ASSUME NEW n \in Nodes, NEW ns \in BOOLEAN, Unbind(n, NotGiven, NotGiven, ns) PROVE EventsIInv'
    BY <2>4, StepUnbind
  <2>5. ASSUME NEW n \in Nodes, NEW keepData \in BOOLEAN, RemoveElement(n, keepData) PROVE EventsIInv'
    BY <2>5, StepRemoveElement
  <2>6. ASSUME NEW n \in Nodes, NEW script \in BOOLEAN, Click(n, script) PROVE EventsIInv'
    BY <2>6, StepClick
  <2>7. ASSUME NEW n \in Nodes, NEW ns \in BOOLEAN, trigger(n, ns) \/ triggerHandler(n, ns) PROVE EventsIInv'
    <3>1. \E only \in BOOLEAN : Trigger(n, ns, only)
      BY <2>7, Zenon DEF trigger, triggerHandler
    <3>2. QED
      BY <3>1, StepTrigger
  <2>8. QED
    BY <1>2, <2>1, <2>2, <2>3, <2>4, <2>5, <2>6, <2>7, Zenon DEF User
<1>3. QED
  BY <1>1, <1>2 DEF EventsNext

LEMMA EventsStutter ==
  ASSUME EventsIInv, UNCHANGED eventsVars PROVE EventsIInv'
<1>1. UNCHANGED << binding, saved, triggered, dom, synth, calls, gestures, log >>
  BY DEF eventsVars
<1>2. UNCHANGED << handlers, delegateCount, bound, saved, triggered, detached, clicking, synth, calls, gestures, log >>
  BY <1>1 DEF binding, dom
<1>3. Aimed' = Aimed /\ HandlerRuns' = HandlerRuns
  BY <1>2 DEF Aimed, HandlerRuns, CurrentIs, Current
<1>4. RestOK /\ ListsNow /\ Sound(Gesture) /\ Sound(Gestures)
  BY IInvParts
<1>5. GoodAfter(Gesture) /\ GoodAfter(Gestures)
  BY <1>2, <1>3, <1>4 DEF Sound, GoodAfter
<1>6. \A g \in 1 .. gestures : Starts(g) => Starts(g)'
  BY <1>2 DEF Starts, Current, HasArgs
<1>7. UNCHANGED << binding, saved, triggered, dom, synth, gestures, log >>
  BY <1>1
<1>8. QED
  BY <1>5, <1>6, <1>7, OnlyCalls

LEMMA EventsInvariant ==
  EventsSpec => []EventsIInv
<1>1. EventsInit => EventsIInv
  BY EventsStart
<1>2. EventsIInv /\ [EventsNext]_eventsVars => EventsIInv'
  BY EventsStep, EventsStutter
<1>3. QED
  BY <1>1, <1>2, PTL DEF EventsSpec

LEMMA EventsNothingLeft ==
  ASSUME EventsIInv PROVE NothingLeftBehind
<1>1. /\ RestOK /\ ListsNow /\ LogOK(handlers, log, bound)
      /\ Good(calls, clicking, triggered, saved, handlers, bound, Gesture, Aimed)
  BY IInvParts DEF EventsIInv
<1>2. ASSUME calls = << >>
      PROVE  ~ triggered /\ clicking = {} /\ \A n \in Nodes : saved[n] \in {Undefined, False}
  <2>1. Clicks(calls, clicking) /\ Defaults(calls, triggered) /\ Kept(calls, saved)
    BY <1>1 DEF Good, Shaped
  <2>2. ~ triggered
    BY <1>2, <2>1 DEF Defaults
  <2>3. \A n \in Nodes : n \notin clicking
    BY <1>2, <2>1 DEF Clicks
  <2>4. clicking = {}
    BY <1>1, <2>3 DEF RestOK
  <2>5. \A n \in Nodes : saved[n] \in {Undefined, False}
    BY <1>2, <2>1 DEF Kept
  <2>6. QED
    BY <2>2, <2>4, <2>5
<1>3. ASSUME NEW n \in Nodes, NEW k \in 1 .. Len(handlers[n])
      PROVE  /\ handlers[n][k].sel # Nil <=> k <= delegateCount[n]
             /\ handlers[n][k].one => \A g \in Gesture : handlers[n][k].nr \notin log[g].called
  <2>1. handlers[n] \in Seq(Entry) /\ FrontOK(handlers[n], delegateCount[n])
    BY <1>1 DEF ListsNow, ListsOK
  <2>2. handlers[n][k] \in Entry /\ Among(handlers[n], handlers[n][k])
    BY <2>1 DEF Among
  <2>3. QED
    BY <1>1, <2>1, <2>2 DEF FrontOK, LogOK
<1>4. QED
  BY <1>2, <1>3 DEF NothingLeftBehind

LEMMA EventsStateFirst ==
  ASSUME EventsIInv PROVE StateComesFirst
  BY DEF EventsIInv, StartOK, StateComesFirst

(* The ranges of the variables, and the form of each call on the stack:    *)
(* trigger(), dispatch() and the browser go on with what they need         *)
(* (jquery-3.6.1.js:5382-5442, 8655-8800).                                 *)
THEOREM EventsTypeCorrect == EventsSpec => []EventsTypeOK
<1>1. EventsIInv => EventsTypeOK
  BY DEF EventsIInv
<1>2. QED
  BY <1>1, EventsInvariant, PTL

(* Whatever handlers did and threw, and however deep they were nested:     *)
(* when all is over jQuery.event.triggered and the private data are        *)
(* cleared, a handler of one() that was called is bound no more, and the   *)
(* delegated handlers are those that delegateCount counts                  *)
(* (jquery-3.6.1.js:5160-5166, 5283-5302, 5640-5662, 8770-8792).           *)
THEOREM NothingLeftBehindHolds == EventsSpec => []NothingLeftBehind
<1>1. EventsIInv => NothingLeftBehind
  BY EventsNothingLeft
<1>2. QED
  BY <1>1, EventsInvariant, PTL

(* A click on a check box that a script triggers reaches the user's        *)
(* handlers after the box has changed: the controller, first in the list,  *)
(* takes the event and sends it through the browser before it lets anybody *)
(* else see it (leverageNative, jquery-3.6.1.js:5605-5710).                *)
THEOREM StateComesFirstHolds == EventsSpec => []StateComesFirst
<1>1. EventsIInv => StateComesFirst
  BY EventsStateFirst
<1>2. QED
  BY <1>1, EventsInvariant, PTL

=============================================================================
