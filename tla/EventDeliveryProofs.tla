------------------------- MODULE EventDeliveryProofs -------------------------
(***************************************************************************)
(* Proofs about EventDelivery, for any sets of sessions and threads and    *)
(* any bounds.                                                             *)
(*                                                                         *)
(* TypeOK and DeliveryInv are inductive together; on top of them           *)
(* EveryEventOnceInOrder is inductive, and NumbersInOrder, which           *)
(* strengthens GapsAreInFlight; and where every session has one poller     *)
(* (OnePoller) PollsInOrder, which strengthens NeverPopEmpty and           *)
(* ReplyIsConsecutive.  The last section is the refinement.                *)
(***************************************************************************)
EXTENDS EventDelivery, SequenceTheorems, TLAPS

-----------------------------------------------------------------------------
(* Sequences. *)

\* moving the head of a queue to the end of what was taken changes nothing
LEMMA MoveHead ==
  ASSUME NEW S, NEW t \in Seq(S), NEW q \in Seq(S), q # << >>
  PROVE  Append(t, Head(q)) \o Tail(q) = t \o q
<1>1. Head(q) \in S /\ Tail(q) \in Seq(S) /\ Append(t, Head(q)) \in Seq(S)
  BY HeadTailProperties, AppendProperties
<1>2. Append(t, Head(q)) \o Tail(q) \in Seq(S) /\ t \o q \in Seq(S)
  BY <1>1, ConcatProperties
<1>3. Len(Append(t, Head(q)) \o Tail(q)) = Len(t \o q)
  BY <1>1, ConcatProperties, AppendProperties, HeadTailProperties
<1>4. ASSUME NEW i \in 1 .. Len(t \o q)
      PROVE  (Append(t, Head(q)) \o Tail(q))[i] = (t \o q)[i]
  <2>1. /\ Len(t) \in Nat /\ Len(q) \in Nat \ {0}
        /\ Len(t \o q) = Len(t) + Len(q)
        /\ Len(Append(t, Head(q))) = Len(t) + 1
        /\ Len(Tail(q)) = Len(q) - 1
    BY <1>1, ConcatProperties, AppendProperties, HeadTailProperties, EmptySeq,
       LenProperties
  <2>2. CASE i <= Len(t)
    <3>1. (t \o q)[i] = t[i]
      BY <2>1, <2>2, ConcatProperties
    <3>2. (Append(t, Head(q)) \o Tail(q))[i] = Append(t, Head(q))[i]
      BY <1>1, <2>1, <2>2, ConcatProperties
    <3>3. QED
      BY <1>1, <2>1, <2>2, <3>1, <3>2, AppendProperties
  <2>3. CASE i = Len(t) + 1
    <3>1. (t \o q)[i] = q[1]
      BY <2>1, <2>3, ConcatProperties
    <3>2. (Append(t, Head(q)) \o Tail(q))[i] = Append(t, Head(q))[i]
      BY <1>1, <2>1, <2>3, ConcatProperties
    <3>3. Append(t, Head(q))[i] = Head(q)
      BY <1>1, <2>3, AppendProperties
    <3>4. QED
      BY <3>1, <3>2, <3>3
  <2>4. CASE i > Len(t) + 1
    <3>1. (t \o q)[i] = q[i - Len(t)]
      BY <2>1, <2>4, ConcatProperties
    <3>2. (Append(t, Head(q)) \o Tail(q))[i] = Tail(q)[i - Len(t) - 1]
      BY <1>1, <2>1, <2>4, ConcatProperties
    <3>3. Tail(q)[i - Len(t) - 1] = q[i - Len(t)]
      BY <2>1, <2>4, HeadTailProperties
    <3>4. QED
      BY <3>1, <3>2, <3>3
  <2>5. QED
    BY <2>1, <2>2, <2>3, <2>4
<1>5. QED
  BY <1>2, <1>3, <1>4, SeqEqual

\* appending to a queue appends to the whole stream
LEMMA AppendMoves ==
  ASSUME NEW S, NEW t \in Seq(S), NEW q \in Seq(S), NEW e \in S
  PROVE  t \o Append(q, e) = (t \o q) \o << e >>
<1>1. Append(q, e) = q \o << e >> /\ << e >> \in Seq(S)
  BY AppendIsConcat
<1>2. QED
  BY <1>1, ConcatAssociative

\* the suffix from a fixed place grows with the sequence
LEMMA SuffixGrows ==
  ASSUME NEW S, NEW p \in Seq(S), NEW e \in S, NEW m \in 0 .. Len(p)
  PROVE  SubSeq(Append(p, e), m + 1, Len(p) + 1)
            = SubSeq(p, m + 1, Len(p)) \o << e >>
<1> DEFINE a == Append(p, e)
<1>1. a \in Seq(S) /\ Len(a) = Len(p) + 1 /\ a[Len(p) + 1] = e /\ Len(p) \in Nat
  BY AppendProperties, LenProperties
<1>2. m + 1 \in 1 .. Len(a) /\ Len(p) + 1 \in (m + 1) .. Len(a)
  BY <1>1
<1>3. SubSeq(a, m + 1, Len(p) + 1) = SubSeq(a, m + 1, Len(p)) \o << e >>
  <2> HIDE DEF a
  <2>1. SubSeq(a, m + 1, Len(p) + 1)
          = SubSeq(a, m + 1, (Len(p) + 1) - 1) \o << a[Len(p) + 1] >>
    BY <1>1, <1>2, SubSeqRecursiveSecond
  <2>2. (Len(p) + 1) - 1 = Len(p)
    BY <1>1
  <2>3. QED
    BY <1>1, <2>1, <2>2
<1>4. SubSeq(a, m + 1, Len(p)) = SubSeq(p, m + 1, Len(p))
  <2>1. a = p \o << e >> /\ << e >> \in Seq(S)
    BY AppendIsConcat
  <2>2. CASE m = Len(p)
    BY <1>1, <2>2, SubSeqEmpty
  <2>3. CASE m < Len(p)
    BY <1>1, <2>1, <2>3, SubSeqOfConcat1
  <2>4. QED
    BY <1>1, <2>2, <2>3
<1>5. QED
  BY <1>3, <1>4
-----------------------------------------------------------------------------
(* The structure: types, program counters, owners of queues. *)

\* the structure holds at the start
LEMMA InitStructure == Init => TypeOK /\ DeliveryInv
  BY ThreadsAssumption, BoundsAssumption
  DEF Init, TypeOK, DeliveryInv, CallsInOrder, DeliveriesInOrder,
      QueuesInOrder, Threads, Queues, Entries, Events, CallerStates,
      ProducerStates, PollingStates, Listening, NoQueue, CloseEvent

\* an entry appended to one queue of a family of queues
LEMMA AppendTyped ==
  ASSUME NEW Q, NEW f \in [Q -> Seq(Entries)], NEW x \in Q, NEW e \in Entries
  PROVE  [f EXCEPT ![x] = Append(@, e)] \in [Q -> Seq(Entries)]
<1>1. Append(f[x], e) \in Seq(Entries)
  BY AppendProperties
<1>2. QED
  BY <1>1

\* no step leaves the types
LEMMA TypeStep ==
  ASSUME TypeOK, DeliveryInv, [Next]_vars
  PROVE  TypeOK'
  <1> USE ThreadsAssumption, BoundsAssumption
      DEF TypeOK, Goto, callerVars, producerVars, queueVars, mapVars, Threads,
      DeliveryInv, CallsInOrder, DeliveriesInOrder, QueuesInOrder, CallerStates,
      ProducerStates, PollingStates, Queues, NoQueue, Listening
  <1>1. ASSUME NEW p \in Producers, MakeRequest(p)
        PROVE  TypeOK'
    <2>1. request_nr' \in 0 .. MaxEvents
      BY <1>1 DEF MakeRequest
    <2>2. request' \in [Producers -> Entries]
      BY <1>1 DEF MakeRequest, Entries, Events
    <2>3. pc' \in [Threads -> CallerStates \cup ProducerStates]
      BY <1>1 DEF MakeRequest
    <2>4. QED
      BY <1>1, <2>1, <2>2, <2>3 DEF MakeRequest
  <1>2. ASSUME NEW p \in Producers, LockListeners(p)
        PROVE  TypeOK'
    <2>1. mtx' \in Threads \cup {Free}
      BY <1>2 DEF LockListeners
    <2>2. pending' \in [Producers -> SUBSET Sessions]
      BY <1>2 DEF LockListeners
    <2>3. published' \in Seq(Events)
      BY <1>2 DEF LockListeners
    <2>4. pc' \in [Threads -> CallerStates \cup ProducerStates]
      BY <1>2 DEF LockListeners
    <2>5. QED
      BY <1>2, <2>1, <2>2, <2>3, <2>4 DEF LockListeners
  <1>3. ASSUME NEW p \in Producers, NEW s \in Sessions, PushBack(p, s)
        PROVE  TypeOK'
    <2>1. queue' \in [Queues -> Seq(Entries)]
      BY <1>3, AppendTyped DEF PushBack
    <2>2. pending' \in [Producers -> SUBSET Sessions]
      BY <1>3 DEF PushBack
    <2>3. QED
      BY <1>3, <2>1, <2>2 DEF PushBack
  <1>4. ASSUME NEW p \in Producers, UnlockListeners(p)
        PROVE  TypeOK'
    BY <1>4 DEF UnlockListeners
  <1>5. ASSUME NEW c \in Callers, NEW s \in Sessions, PollForEvents2(c, s)
        PROVE  TypeOK'
    BY <1>5 DEF PollForEvents2
  <1>6. ASSUME NEW c \in Callers, LookUpKnown(c)
        PROVE  TypeOK'
    <2>1. elQ' \in [Callers -> Queues \cup {NoQueue}]
      BY <1>6 DEF LookUpKnown
    <2>2. pc' \in [Threads -> CallerStates \cup ProducerStates]
      BY <1>6 DEF LookUpKnown
    <2>3. QED
      BY <1>6, <2>1, <2>2 DEF LookUpKnown
  <1>7. ASSUME NEW c \in Callers, LookUpNew(c)
        PROVE  TypeOK'
    <2>1. created' \in 0 .. MaxQueues
      BY <1>7 DEF LookUpNew
    <2>2. listener' \in [Sessions -> Queues \cup {NoQueue}]
      BY <1>7 DEF LookUpNew
    <2>3. from' \in [Queues -> Nat]
      BY <1>7, LenProperties DEF LookUpNew
    <2>4. elQ' \in [Callers -> Queues \cup {NoQueue}]
      BY <1>7 DEF LookUpNew
    <2>5. pc' \in [Threads -> CallerStates \cup ProducerStates]
      BY <1>7 DEF LookUpNew
    <2>6. QED
      BY <1>7, <2>1, <2>2, <2>3, <2>4, <2>5 DEF LookUpNew
  <1>8. ASSUME NEW c \in Callers, ReadSize(c)
        PROVE  TypeOK'
    <2>1. todo' \in [Callers -> Nat]
      BY <1>8 DEF ReadSize
    <2>2. pc' \in [Threads -> CallerStates \cup ProducerStates]
      BY <1>8 DEF ReadSize
    <2>3. QED
      BY <1>8, <2>1, <2>2 DEF ReadSize
  <1>9. ASSUME NEW c \in Callers, PopFront(c)
        PROVE  TypeOK'
    <2>1. /\ elQ[c] \in Queues
          /\ queue[elQ[c]] \in Seq(Entries) /\ queue[elQ[c]] # << >>
      BY SMTT(60), <1>9 DEF PopFront, TakeFirst
    <2>2. Head(queue[elQ[c]]) \in Entries /\ Tail(queue[elQ[c]]) \in Seq(Entries)
      BY <2>1, HeadTailProperties
    <2>3. queue' \in [Queues -> Seq(Entries)]
      BY <1>9, <2>1, <2>2, AppendTyped DEF PopFront, TakeFirst
    <2>4. taken' \in [Queues -> Seq(Entries)]
      BY <1>9, <2>1, <2>2, AppendTyped DEF PopFront, TakeFirst
    <2>5. arr' \in [Callers -> Seq(Entries)]
      BY <1>9, <2>1, <2>2, AppendTyped DEF PopFront, TakeFirst
    <2>6. todo' \in [Callers -> Nat]
      <3>1. todo[c] \in Nat
        OBVIOUS
      <3>2. todo[c] > 0
        BY <1>9 DEF PopFront
      <3>3. todo[c] - 1 \in Nat
        BY SMTT(60), <3>1, <3>2
      <3>4. QED
        BY <1>9, <3>3 DEF PopFront
    <2>7. pc' \in [Threads -> CallerStates \cup ProducerStates]
      BY <1>9 DEF PopFront, TakeFirst
    <2>8. QED
      BY <1>9, <2>3, <2>4, <2>5, <2>6, <2>7 DEF PopFront, TakeFirst
  <1>10. ASSUME NEW c \in Callers, PopEmpty(c)
        PROVE  TypeOK'
    BY <1>10 DEF PopEmpty
  <1>11. ASSUME NEW c \in Callers, Block(c)
        PROVE  TypeOK'
    BY <1>11 DEF Block
  <1>12. ASSUME NEW c \in Callers, TryPopFront(c)
        PROVE  TypeOK'
    <2>1. /\ elQ[c] \in Queues
          /\ queue[elQ[c]] \in Seq(Entries) /\ queue[elQ[c]] # << >>
      BY <1>12 DEF TryPopFront, TakeFirst
    <2>2. Head(queue[elQ[c]]) \in Entries /\ Tail(queue[elQ[c]]) \in Seq(Entries)
      BY <2>1, HeadTailProperties
    <2>3. queue' \in [Queues -> Seq(Entries)]
      BY <1>12, <2>1, <2>2, AppendTyped DEF TryPopFront, TakeFirst
    <2>4. taken' \in [Queues -> Seq(Entries)]
      BY <1>12, <2>1, <2>2, AppendTyped DEF TryPopFront, TakeFirst
    <2>5. arr' \in [Callers -> Seq(Entries)]
      BY <1>12, <2>1, <2>2, AppendTyped DEF TryPopFront, TakeFirst
    <2>6. pc' \in [Threads -> CallerStates \cup ProducerStates]
      BY <1>12 DEF TryPopFront, TakeFirst
    <2>7. QED
      BY <1>12, <2>3, <2>4, <2>5, <2>6 DEF TryPopFront, TakeFirst
  <1>13. ASSUME NEW c \in Callers, TimeOut(c)
        PROVE  TypeOK'
    BY <1>13 DEF TimeOut
  <1>14. ASSUME NEW c \in Callers, Reply(c)
        PROVE  TypeOK'
    <2>1. << >> \in Seq(Entries)
      BY EmptySeq
    <2>2. arr' \in [Callers -> Seq(Entries)]
      BY <1>14, <2>1 DEF Reply
    <2>3. pc' \in [Threads -> CallerStates \cup ProducerStates]
      BY <1>14 DEF Reply
    <2>4. QED
      BY <1>14, <2>2, <2>3 DEF Reply
  <1>15. ASSUME NEW c \in Callers, NEW s \in Sessions, CloseSession(c, s)
        PROVE  TypeOK'
    BY <1>15 DEF CloseSession
  <1>16. ASSUME NEW c \in Callers, FindNone(c)
        PROVE  TypeOK'
    BY <1>16 DEF FindNone
  <1>17. ASSUME NEW c \in Callers, FindSession(c)
        PROVE  TypeOK'
    BY <1>17 DEF FindSession
  <1>18. ASSUME NEW c \in Callers, SignalClose(c)
        PROVE  TypeOK'
    <2>1. queue' \in [Queues -> Seq(Entries)]
      <3>1. listener[sid[c]] \in Queues /\ CloseEvent \in Entries
        BY <1>18 DEF SignalClose, Entries
      <3>2. QED
        BY <1>18, <3>1, AppendTyped DEF SignalClose
    <2>2. QED
      BY <1>18, <2>1 DEF SignalClose
  <1>19. ASSUME NEW c \in Callers, EraseSession(c)
        PROVE  TypeOK'
    <2>1. listener' \in [Sessions -> Queues \cup {NoQueue}]
      BY <1>19 DEF EraseSession
    <2>2. sid' \in [Callers -> Sessions \cup {NoSession}]
      BY <1>19 DEF EraseSession
    <2>3. mtx' \in Threads \cup {Free}
      BY <1>19 DEF EraseSession
    <2>4. pc' \in [Threads -> CallerStates \cup ProducerStates]
      BY <1>19 DEF EraseSession
    <2>5. QED
      BY <1>19, <2>1, <2>2, <2>3, <2>4 DEF EraseSession
  <1>20. CASE UNCHANGED vars
    BY <1>20 DEF vars
  <1>21. QED
    BY <1>1, <1>2, <1>3, <1>4, <1>5, <1>6, <1>7, <1>8, <1>9, <1>10, <1>11,
       <1>12, <1>13, <1>14, <1>15, <1>16, <1>17, <1>18, <1>19, <1>20
    DEF Next, DeliverStep, PollStep, CloseStep

\* CallsInOrder is preserved
LEMMA CallsStep ==
  ASSUME TypeOK, DeliveryInv, [Next]_vars
  PROVE  CallsInOrder'
  <1> USE ThreadsAssumption
      DEF TypeOK, Goto, callerVars, producerVars, queueVars, mapVars, Threads,
      DeliveryInv, CallsInOrder, DeliveriesInOrder, QueuesInOrder, CallerStates,
      ProducerStates, PollingStates, Queues, Listening, NoQueue
  <1>1. ASSUME NEW p \in Producers, MakeRequest(p)
        PROVE  CallsInOrder'
    BY <1>1 DEF MakeRequest
  <1>2. ASSUME NEW p \in Producers, LockListeners(p)
        PROVE  CallsInOrder'
    BY <1>2 DEF LockListeners
  <1>3. ASSUME NEW p \in Producers, NEW s \in Sessions, PushBack(p, s)
        PROVE  CallsInOrder'
    BY <1>3 DEF PushBack
  <1>4. ASSUME NEW p \in Producers, UnlockListeners(p)
        PROVE  CallsInOrder'
    BY <1>4 DEF UnlockListeners
  <1>5. ASSUME NEW c \in Callers, NEW s \in Sessions, PollForEvents2(c, s)
        PROVE  CallsInOrder'
    BY <1>5 DEF PollForEvents2
  <1>6. ASSUME NEW c \in Callers, LookUpKnown(c)
        PROVE  CallsInOrder'
    BY <1>6 DEF LookUpKnown
  <1>7. ASSUME NEW c \in Callers, LookUpNew(c)
        PROVE  CallsInOrder'
    BY <1>7 DEF LookUpNew
  <1>8. ASSUME NEW c \in Callers, ReadSize(c)
        PROVE  CallsInOrder'
    BY <1>8 DEF ReadSize
  <1>9. ASSUME NEW c \in Callers, PopFront(c)
        PROVE  CallsInOrder'
    BY <1>9 DEF PopFront, TakeFirst
  <1>10. ASSUME NEW c \in Callers, PopEmpty(c)
        PROVE  CallsInOrder'
    BY <1>10 DEF PopEmpty
  <1>11. ASSUME NEW c \in Callers, Block(c)
        PROVE  CallsInOrder'
    BY <1>11 DEF Block
  <1>12. ASSUME NEW c \in Callers, TryPopFront(c)
        PROVE  CallsInOrder'
    BY <1>12 DEF TryPopFront, TakeFirst
  <1>13. ASSUME NEW c \in Callers, TimeOut(c)
        PROVE  CallsInOrder'
    BY <1>13 DEF TimeOut
  <1>14. ASSUME NEW c \in Callers, Reply(c)
        PROVE  CallsInOrder'
    BY <1>14 DEF Reply
  <1>15. ASSUME NEW c \in Callers, NEW s \in Sessions, CloseSession(c, s)
        PROVE  CallsInOrder'
    BY <1>15 DEF CloseSession
  <1>16. ASSUME NEW c \in Callers, FindNone(c)
        PROVE  CallsInOrder'
    BY <1>16 DEF FindNone
  <1>17. ASSUME NEW c \in Callers, FindSession(c)
        PROVE  CallsInOrder'
    BY <1>17 DEF FindSession
  <1>18. ASSUME NEW c \in Callers, SignalClose(c)
        PROVE  CallsInOrder'
    BY <1>18 DEF SignalClose
  <1>19. ASSUME NEW c \in Callers, EraseSession(c)
        PROVE  CallsInOrder'
    BY <1>19 DEF EraseSession
  <1>20. CASE UNCHANGED vars
    BY <1>20 DEF vars
  <1>21. QED
    BY <1>1, <1>2, <1>3, <1>4, <1>5, <1>6, <1>7, <1>8, <1>9, <1>10, <1>11,
       <1>12, <1>13, <1>14, <1>15, <1>16, <1>17, <1>18, <1>19, <1>20
    DEF Next, DeliverStep, PollStep, CloseStep

\* DeliveriesInOrder is preserved
LEMMA DeliveriesStep ==
  ASSUME TypeOK, DeliveryInv, [Next]_vars
  PROVE  DeliveriesInOrder'
  <1> USE ThreadsAssumption, BoundsAssumption
      DEF TypeOK, Goto, callerVars, producerVars, queueVars, mapVars, Threads,
      DeliveryInv, CallsInOrder, DeliveriesInOrder, QueuesInOrder, CallerStates,
      ProducerStates, Queues, Listening, NoQueue, Events
  <1>1. ASSUME NEW p \in Producers, MakeRequest(p)
        PROVE  DeliveriesInOrder'
    <2>1. request' = [request EXCEPT ![p] = request_nr + 1]
          /\ request_nr + 1 \in Events
      BY <1>1 DEF MakeRequest
    <2>2. \A x \in Producers :
             pc'[x] # "idle" => request'[x] \in Events
      BY <1>1, <2>1 DEF MakeRequest
    <2>3. QED
      BY <1>1, <2>2 DEF MakeRequest
  <1>2. ASSUME NEW p \in Producers, LockListeners(p)
        PROVE  DeliveriesInOrder'
    BY <1>2 DEF LockListeners
  <1>3. ASSUME NEW p \in Producers, NEW s \in Sessions, PushBack(p, s)
        PROVE  DeliveriesInOrder'
    BY <1>3 DEF PushBack
  <1>4. ASSUME NEW p \in Producers, UnlockListeners(p)
        PROVE  DeliveriesInOrder'
    BY <1>4 DEF UnlockListeners
  <1>5. ASSUME NEW c \in Callers, NEW s \in Sessions, PollForEvents2(c, s)
        PROVE  DeliveriesInOrder'
    BY SMTT(60), <1>5 DEF PollForEvents2
  <1>6. ASSUME NEW c \in Callers, LookUpKnown(c)
        PROVE  DeliveriesInOrder'
    BY <1>6 DEF LookUpKnown
  <1>7. ASSUME NEW c \in Callers, LookUpNew(c)
        PROVE  DeliveriesInOrder'
    BY <1>7 DEF LookUpNew
  <1>8. ASSUME NEW c \in Callers, ReadSize(c)
        PROVE  DeliveriesInOrder'
    BY <1>8 DEF ReadSize
  <1>9. ASSUME NEW c \in Callers, PopFront(c)
        PROVE  DeliveriesInOrder'
    BY <1>9 DEF PopFront, TakeFirst
  <1>10. ASSUME NEW c \in Callers, PopEmpty(c)
        PROVE  DeliveriesInOrder'
    BY <1>10 DEF PopEmpty
  <1>11. ASSUME NEW c \in Callers, Block(c)
        PROVE  DeliveriesInOrder'
    BY <1>11 DEF Block
  <1>12. ASSUME NEW c \in Callers, TryPopFront(c)
        PROVE  DeliveriesInOrder'
    BY <1>12 DEF TryPopFront, TakeFirst
  <1>13. ASSUME NEW c \in Callers, TimeOut(c)
        PROVE  DeliveriesInOrder'
    BY <1>13 DEF TimeOut
  <1>14. ASSUME NEW c \in Callers, Reply(c)
        PROVE  DeliveriesInOrder'
    BY <1>14 DEF Reply
  <1>15. ASSUME NEW c \in Callers, NEW s \in Sessions, CloseSession(c, s)
        PROVE  DeliveriesInOrder'
    BY SMTT(60), <1>15 DEF CloseSession
  <1>16. ASSUME NEW c \in Callers, FindNone(c)
        PROVE  DeliveriesInOrder'
    BY <1>16 DEF FindNone
  <1>17. ASSUME NEW c \in Callers, FindSession(c)
        PROVE  DeliveriesInOrder'
    BY <1>17 DEF FindSession
  <1>18. ASSUME NEW c \in Callers, SignalClose(c)
        PROVE  DeliveriesInOrder'
    BY <1>18 DEF SignalClose
  <1>19. ASSUME NEW c \in Callers, EraseSession(c)
        PROVE  DeliveriesInOrder'
    BY <1>19 DEF EraseSession
  <1>20. CASE UNCHANGED vars
    BY <1>20 DEF vars
  <1>21. QED
    BY <1>1, <1>2, <1>3, <1>4, <1>5, <1>6, <1>7, <1>8, <1>9, <1>10, <1>11,
       <1>12, <1>13, <1>14, <1>15, <1>16, <1>17, <1>18, <1>19, <1>20
    DEF Next, DeliverStep, PollStep, CloseStep

\* a session that gets a queue gets a fresh one
LEMMA NewQueueInOrder ==
  ASSUME TypeOK, DeliveryInv, NEW c \in Callers, LookUpNew(c)
  PROVE  QueuesInOrder'
<1>1. /\ created \in Nat /\ MaxQueues \in Nat /\ Len(published) \in Nat
      /\ \A x \in Sessions : listener[x] \in Nat /\ listener[x] <= created
  BY BoundsAssumption, LenProperties
  DEF TypeOK, DeliveryInv, QueuesInOrder, Queues, NoQueue
<1>2. /\ sid[c] \in Sessions /\ created + 1 \in Queues
      /\ created' = created + 1
      /\ UNCHANGED << queue, taken, published >>
  BY <1>1
  DEF LookUpNew, TypeOK, DeliveryInv, CallsInOrder, Queues, queueVars, producerVars
<1>3. \A x \in Sessions :
         listener'[x] = IF x = sid[c] THEN created + 1 ELSE listener[x]
  BY <1>2 DEF LookUpNew, TypeOK
<1>4. \A q \in Queues :
         from'[q] = IF q = created + 1 THEN Len(published) ELSE from[q]
  BY <1>2 DEF LookUpNew, TypeOK
<1>5. \A x \in Sessions : listener'[x] <= created + 1
  BY <1>1, <1>3
<1>6. \A x, y \in Sessions :
         listener'[x] # NoQueue /\ listener'[x] = listener'[y] => x = y
  <2> SUFFICES ASSUME NEW x \in Sessions, NEW y \in Sessions,
                      listener'[x] # NoQueue, listener'[x] = listener'[y]
               PROVE  x = y
    OBVIOUS
  <2>1. listener[x] # created + 1 /\ listener[y] # created + 1
    BY <1>1
  <2>2. CASE x = sid[c] \/ y = sid[c]
    BY <1>3, <2>1, <2>2
  <2>3. CASE x # sid[c] /\ y # sid[c]
    BY <1>3, <2>3 DEF DeliveryInv, QueuesInOrder, Listening
  <2>4. QED
    BY <2>2, <2>3
<1>7. \A q \in Queues : from'[q] <= Len(published)
  BY <1>1, <1>4 DEF DeliveryInv, QueuesInOrder
<1>8. \A q \in Queues : q > created + 1 => queue[q] = << >> /\ taken[q] = << >>
  BY <1>1 DEF DeliveryInv, QueuesInOrder, Queues
<1>9. QED
  BY <1>2, <1>5, <1>6, <1>7, <1>8 DEF QueuesInOrder, Listening

\* QueuesInOrder is preserved
LEMMA QueuesStep ==
  ASSUME TypeOK, DeliveryInv, [Next]_vars
  PROVE  QueuesInOrder'
  <1> USE ThreadsAssumption, BoundsAssumption
      DEF TypeOK, Goto, callerVars, producerVars, queueVars, mapVars, Threads,
      DeliveryInv, CallsInOrder, DeliveriesInOrder, QueuesInOrder, PollingStates,
      Queues, Listening, NoQueue
  <1>1. ASSUME NEW p \in Producers, MakeRequest(p)
        PROVE  QueuesInOrder'
    BY <1>1 DEF MakeRequest
  <1>2. ASSUME NEW p \in Producers, LockListeners(p)
        PROVE  QueuesInOrder'
    BY <1>2 DEF LockListeners
  <1>3. ASSUME NEW p \in Producers, NEW s \in Sessions, PushBack(p, s)
        PROVE  QueuesInOrder'
    <2>1. s \in Listening /\ listener[s] \in 1 .. created
      BY <1>3 DEF PushBack
    <2>2. \A q \in Queues : q > created => queue'[q] = queue[q]
      BY <1>3, <2>1 DEF PushBack
    <2>3. QED
      BY <1>3, <2>2 DEF PushBack
  <1>4. ASSUME NEW p \in Producers, UnlockListeners(p)
        PROVE  QueuesInOrder'
    BY <1>4 DEF UnlockListeners
  <1>5. ASSUME NEW c \in Callers, NEW s \in Sessions, PollForEvents2(c, s)
        PROVE  QueuesInOrder'
    BY <1>5 DEF PollForEvents2
  <1>6. ASSUME NEW c \in Callers, LookUpKnown(c)
        PROVE  QueuesInOrder'
    BY <1>6 DEF LookUpKnown
  <1>7. ASSUME NEW c \in Callers, LookUpNew(c)
        PROVE  QueuesInOrder'
    BY <1>7, NewQueueInOrder
  <1>8. ASSUME NEW c \in Callers, ReadSize(c)
        PROVE  QueuesInOrder'
    BY <1>8 DEF ReadSize
  <1>9. ASSUME NEW c \in Callers, PopFront(c)
        PROVE  QueuesInOrder'
    BY <1>9 DEF PopFront, TakeFirst
  <1>10. ASSUME NEW c \in Callers, PopEmpty(c)
        PROVE  QueuesInOrder'
    BY <1>10 DEF PopEmpty
  <1>11. ASSUME NEW c \in Callers, Block(c)
        PROVE  QueuesInOrder'
    BY <1>11 DEF Block
  <1>12. ASSUME NEW c \in Callers, TryPopFront(c)
        PROVE  QueuesInOrder'
    BY <1>12 DEF TryPopFront, TakeFirst
  <1>13. ASSUME NEW c \in Callers, TimeOut(c)
        PROVE  QueuesInOrder'
    BY <1>13 DEF TimeOut
  <1>14. ASSUME NEW c \in Callers, Reply(c)
        PROVE  QueuesInOrder'
    BY <1>14 DEF Reply
  <1>15. ASSUME NEW c \in Callers, NEW s \in Sessions, CloseSession(c, s)
        PROVE  QueuesInOrder'
    BY <1>15 DEF CloseSession
  <1>16. ASSUME NEW c \in Callers, FindNone(c)
        PROVE  QueuesInOrder'
    BY <1>16 DEF FindNone
  <1>17. ASSUME NEW c \in Callers, FindSession(c)
        PROVE  QueuesInOrder'
    BY <1>17 DEF FindSession
  <1>18. ASSUME NEW c \in Callers, SignalClose(c)
        PROVE  QueuesInOrder'
    <2>1. listener[sid[c]] \in 1 .. created
      BY <1>18 DEF SignalClose
    <2>2. \A q \in Queues : q > created => queue'[q] = queue[q]
      BY <1>18, <2>1 DEF SignalClose
    <2>3. QED
      BY <1>18, <2>2 DEF SignalClose
  <1>19. ASSUME NEW c \in Callers, EraseSession(c)
        PROVE  QueuesInOrder'
    BY <1>19 DEF EraseSession
  <1>20. CASE UNCHANGED vars
    BY <1>20 DEF vars
  <1>21. QED
    BY <1>1, <1>2, <1>3, <1>4, <1>5, <1>6, <1>7, <1>8, <1>9, <1>10, <1>11,
       <1>12, <1>13, <1>14, <1>15, <1>16, <1>17, <1>18, <1>19, <1>20
    DEF Next, DeliverStep, PollStep, CloseStep

-----------------------------------------------------------------------------
(* What a session holds, and what it should hold. *)

Suffix(s) == SubSeq(published, from[listener[s]] + 1, Len(published))

Held(s) == taken[listener[s]] \o queue[listener[s]]

\* the sequences of a listening session are typed
LEMMA StreamTyped ==
  ASSUME TypeOK, DeliveryInv, NEW s \in Listening
  PROVE  /\ listener[s] \in Queues
         /\ taken[listener[s]] \in Seq(Entries)
         /\ queue[listener[s]] \in Seq(Entries)
         /\ Held(s) \in Seq(Entries)
         /\ published \in Seq(Entries)
         /\ from[listener[s]] \in 0 .. Len(published)
<1>1. listener[s] \in Queues
  BY DEF TypeOK, Listening, NoQueue
<1>2. taken[listener[s]] \in Seq(Entries) /\ queue[listener[s]] \in Seq(Entries)
  BY <1>1 DEF TypeOK
<1>3. published \in Seq(Entries)
  BY SeqMonotonic DEF TypeOK, Entries
<1>4. from[listener[s]] \in 0 .. Len(published)
  BY <1>1 DEF TypeOK, DeliveryInv, QueuesInOrder
<1>5. Held(s) \in Seq(Entries)
  BY <1>2, ConcatProperties DEF Held
<1>6. QED
  BY <1>1, <1>2, <1>3, <1>4, <1>5

-----------------------------------------------------------------------------
(* What each step does to what the running delivery owes and to who is     *)
(* being closed.                                                           *)

\* a producer owes nothing unless one holds the mutex
LEMMA NoDelivery ==
  ASSUME DeliveryInv, mtx \notin Producers
  PROVE  \A s \in Sessions : Owed(s) = << >>
  BY DEF Owed, DeliveryInv, DeliveriesInOrder

\* no session is being closed unless a caller holds the mutex
LEMMA NoClose ==
  ASSUME DeliveryInv, mtx \notin Callers
  PROVE  \A s \in Sessions : ~ BeingClosed(s)
  BY DEF BeingClosed, DeliveryInv, CallsInOrder

\* the steps of a caller that neither move an entry nor change the map
QuietCall(c) ==
    \/ \E s \in Sessions : PollForEvents2(c, s) \/ CloseSession(c, s)
    \/ LookUpKnown(c) \/ ReadSize(c) \/ PopEmpty(c) \/ Block(c)
    \/ TimeOut(c) \/ Reply(c) \/ FindNone(c)

QuietStep ==
    \/ \E p \in Producers : MakeRequest(p) \/ UnlockListeners(p)
    \/ \E c \in Callers : QuietCall(c)
    \/ UNCHANGED vars

\* quiet steps change neither a stream nor who is owed or being closed
LEMMA QuietSteps ==
  ASSUME TypeOK, DeliveryInv, QuietStep
  PROVE  /\ UNCHANGED << listener, from, published, queue, taken >>
         /\ \A s \in Sessions : /\ Owed(s)' = Owed(s)
                                /\ BeingClosed(s)' <=> BeingClosed(s)
<1>1. ASSUME NEW p \in Producers, MakeRequest(p)
      PROVE  /\ UNCHANGED << listener, from, published, queue, taken >>
             /\ \A s \in Sessions : /\ Owed(s)' = Owed(s)
                                    /\ BeingClosed(s)' <=> BeingClosed(s)
  <2>1. \A x \in Producers : (pc[x] = "push" <=> mtx = x) /\ (pc[x] = "push" => x # p)
    BY <1>1 DEF DeliveryInv, DeliveriesInOrder, MakeRequest
  <2>2. \A x \in Producers : pc'[x] = "push" <=> pc[x] = "push"
    BY <1>1 DEF MakeRequest, Goto, TypeOK, Threads
  <2>3. ASSUME NEW s \in Sessions
        PROVE  Owed(s)' = Owed(s) /\ (BeingClosed(s)' <=> BeingClosed(s))
    <3>1. Owed(s)' = Owed(s)
      BY <1>1, <2>1, <2>2 DEF Owed, MakeRequest, TypeOK
    <3>2. BeingClosed(s)' <=> BeingClosed(s)
      BY <1>1, ThreadsAssumption
      DEF BeingClosed, MakeRequest, Goto, TypeOK, Threads, callerVars
    <3>3. QED
      BY <3>1, <3>2
  <2>4. QED
    BY <1>1, <2>3 DEF MakeRequest, mapVars, queueVars
<1>2. ASSUME NEW p \in Producers, UnlockListeners(p)
      PROVE  /\ UNCHANGED << listener, from, published, queue, taken >>
             /\ \A s \in Sessions : /\ Owed(s)' = Owed(s)
                                    /\ BeingClosed(s)' <=> BeingClosed(s)
  <2>1. /\ pc[p] = "push" /\ pending[p] = {} /\ pc' = [pc EXCEPT ![p] = "idle"]
        /\ UNCHANGED << listener, from, taken, queue, published, pending, sid >>
    BY <1>2 DEF UnlockListeners, Goto, mapVars, queueVars, producerVars, callerVars
  <2>2. \A x \in Producers : pc[x] = "push" => x = p
    BY <2>1 DEF DeliveryInv, DeliveriesInOrder
  <2>3. \A s \in Sessions : Owed(s) = << >> /\ Owed(s)' = << >>
    BY <2>1, <2>2 DEF Owed, TypeOK, Threads
  <2>4. \A s \in Sessions : BeingClosed(s)' <=> BeingClosed(s)
    BY <2>1, ThreadsAssumption DEF BeingClosed, TypeOK, Threads
  <2>5. QED
    BY <2>1, <2>3, <2>4
<1>3. ASSUME NEW c \in Callers, QuietCall(c)
      PROVE  /\ UNCHANGED << listener, from, published, queue, taken >>
             /\ \A s \in Sessions : /\ Owed(s)' = Owed(s)
                                    /\ BeingClosed(s)' <=> BeingClosed(s)
  <2>1. /\ pc[c] # "closing"
        /\ \E place \in CallerStates \ { "closing" } : Goto(c, place)
    BY <1>3
    DEF QuietCall, PollForEvents2, CloseSession, LookUpKnown, ReadSize,
        PopEmpty, Block, TimeOut, Reply, FindNone, CallerStates
  <2>2. /\ UNCHANGED << mtx, mapVars, queueVars, producerVars >>
        /\ \A d \in Callers \ {c} : sid'[d] = sid[d]
    BY <1>3
    DEF QuietCall, PollForEvents2, CloseSession, LookUpKnown, ReadSize,
        PopEmpty, Block, TimeOut, Reply, FindNone, callerVars, TypeOK
  <2>3. PICK place \in CallerStates \ { "closing" } : Goto(c, place)
    BY <2>1
  <2>4. \A s \in Sessions : BeingClosed(s)' <=> BeingClosed(s)
    BY <2>1, <2>2, <2>3 DEF BeingClosed, Goto, TypeOK, Threads
  <2>5. \A p \in Producers : pc'[p] = pc[p]
    BY <2>3, ThreadsAssumption DEF Goto, TypeOK, Threads
  <2>6. \A s \in Sessions : Owed(s)' = Owed(s)
    BY <2>2, <2>5 DEF Owed, producerVars
  <2>7. QED
    BY <2>2, <2>4, <2>6 DEF mapVars, queueVars, producerVars
<1>4. CASE UNCHANGED vars
  BY <1>4
  DEF vars, callerVars, producerVars, queueVars, mapVars, Owed, BeingClosed
<1>5. QED
  BY <1>1, <1>2, <1>3, <1>4 DEF QuietStep

\* with the mutex, a producer owes its request to every listening session
LEMMA LockStep ==
  ASSUME TypeOK, DeliveryInv, NEW p \in Producers, LockListeners(p)
  PROVE  /\ UNCHANGED << listener, from, queue, taken >>
         /\ published' = Append(published, request[p])
         /\ mtx = Free /\ request[p] \in Events
         /\ \A s \in Sessions :
               /\ Owed(s) = << >>
               /\ s \in Listening => Owed(s)' = << request[p] >>
               /\ ~ BeingClosed(s) /\ ~ BeingClosed(s)'
<1>1. /\ mtx = Free /\ request[p] \in Events
      /\ UNCHANGED << listener, from, queue, taken, request >>
      /\ published' = Append(published, request[p]) /\ mtx' = p
      /\ pc' = [pc EXCEPT ![p] = "push"]
      /\ pending' = [pending EXCEPT ![p] = Listening]
      /\ UNCHANGED sid
  BY DEF LockListeners, Goto, mapVars, queueVars, callerVars, DeliveryInv,
         DeliveriesInOrder
<1>2. \A s \in Sessions : Owed(s) = << >> /\ ~ BeingClosed(s)
  BY <1>1, NoDelivery, NoClose, ThreadsAssumption
<1>3. \A s \in Listening : Owed(s)' = << request[p] >>
  BY <1>1 DEF Owed, TypeOK, Threads
<1>4. \A s \in Sessions : ~ BeingClosed(s)'
  BY <1>1, <1>2, ThreadsAssumption DEF BeingClosed, TypeOK, Threads
<1>5. QED
  BY <1>1, <1>2, <1>3, <1>4

\* a push moves what is owed to one session into its queue
LEMMA PushStep ==
  ASSUME TypeOK, DeliveryInv, NEW p \in Producers, NEW x \in Sessions,
         PushBack(p, x)
  PROVE  /\ UNCHANGED << listener, from, taken, published >>
         /\ x \in Listening /\ request[p] \in Entries
         /\ Owed(x) = << request[p] >> /\ Owed(x)' = << >>
         /\ queue'[listener[x]] = Append(queue[listener[x]], request[p])
         /\ \A s \in Sessions : BeingClosed(s)' <=> BeingClosed(s)
         /\ \A s \in Listening : s # x =>
               /\ Owed(s)' = Owed(s)
               /\ queue'[listener[s]] = queue[listener[s]]
<1>1. /\ pc[p] = "push" /\ mtx = p /\ x \in Listening
      /\ x \in pending[p] /\ pending' = [pending EXCEPT ![p] = @ \ {x}]
      /\ queue' = [queue EXCEPT ![listener[x]] = Append(@, request[p])]
      /\ UNCHANGED << pc, mtx, listener, from, taken, published, request, sid >>
  BY DEF PushBack, DeliveryInv, DeliveriesInOrder, Listening, mapVars, callerVars
<1>2. \A s \in Sessions : BeingClosed(s)' <=> BeingClosed(s)
  BY <1>1 DEF BeingClosed
<1>3. \A y \in Producers : pc'[y] = "push" => y = p
  BY <1>1 DEF DeliveryInv, DeliveriesInOrder
<1>4. Owed(x) = << request[p] >> /\ Owed(x)' = << >>
  <2>1. Owed(x) = << request[p] >>
    BY <1>1 DEF Owed
  <2>2. pending'[p] = pending[p] \ {x}
    BY <1>1 DEF TypeOK
  <2>3. Owed(x)' = << >>
    BY <1>3, <2>2 DEF Owed
  <2>4. QED
    BY <2>1, <2>3
<1>5. queue'[listener[x]] = Append(queue[listener[x]], request[p])
  BY <1>1, StreamTyped DEF TypeOK
<1>6. ASSUME NEW s \in Listening, s # x
      PROVE  Owed(s)' = Owed(s) /\ queue'[listener[s]] = queue[listener[s]]
  <2>1. listener[x] # listener[s]
    BY <1>1, <1>6 DEF DeliveryInv, QueuesInOrder
  <2>2. \A y \in Producers : s \in pending'[y] <=> s \in pending[y]
    BY <1>1, <1>6 DEF TypeOK
  <2>3. Owed(s)' = Owed(s)
    BY <1>1, <2>2 DEF Owed
  <2>4. QED
    BY <1>1, <2>1, <2>3, StreamTyped DEF TypeOK
<1>7. QED
  BY <1>1, <1>2, <1>4, <1>5, <1>6 DEF TypeOK

\* a new session gets a fresh queue, and nothing is owed or being closed
LEMMA NewStep ==
  ASSUME TypeOK, DeliveryInv, NEW c \in Callers, LookUpNew(c)
  PROVE  /\ sid[c] \in Sessions \ Listening
         /\ listener' = [listener EXCEPT ![sid[c]] = created + 1]
         /\ created + 1 \in Queues
         /\ from' = [from EXCEPT ![created + 1] = Len(published)]
         /\ UNCHANGED << queue, taken, published >>
         /\ queue[created + 1] = << >> /\ taken[created + 1] = << >>
         /\ \A s \in Sessions :
               /\ Owed(s) = << >> /\ Owed(s)' = << >>
               /\ ~ BeingClosed(s) /\ ~ BeingClosed(s)'
         /\ \A s \in Listening : listener[s] # created + 1
<1>1. /\ mtx = Free /\ mtx' = Free /\ sid[c] \in Sessions \ Listening
      /\ listener' = [listener EXCEPT ![sid[c]] = created + 1]
      /\ from' = [from EXCEPT ![created + 1] = Len(published)]
      /\ UNCHANGED << queue, taken, published, sid, pending, request >>
      /\ pc' = [pc EXCEPT ![c] = "size"]
  BY DEF LookUpNew, Goto, DeliveryInv, CallsInOrder, Listening, queueVars,
         producerVars
<1>2. created + 1 \in Queues
  BY BoundsAssumption DEF LookUpNew, TypeOK, Queues
<1>3. /\ queue[created + 1] = << >> /\ taken[created + 1] = << >>
      /\ \A s \in Listening : listener[s] # created + 1
  BY <1>2 DEF DeliveryInv, QueuesInOrder, TypeOK, Queues, Listening
<1>4. \A s \in Sessions : Owed(s) = << >> /\ ~ BeingClosed(s)
  BY <1>1, NoDelivery, NoClose, ThreadsAssumption
<1>5. \A t \in Threads : t # c => pc'[t] = pc[t]
  BY <1>1 DEF TypeOK
<1>6. \A s \in Sessions : Owed(s)' = << >>
  <2>1. \A p \in Producers : pc'[p] # "push"
    BY <1>1, <1>5, ThreadsAssumption
    DEF DeliveryInv, DeliveriesInOrder, Threads
  <2>2. QED
    BY <2>1 DEF Owed
<1>7. \A s \in Sessions : ~ BeingClosed(s)'
  BY <1>1, <1>4, <1>5 DEF BeingClosed, Threads, TypeOK
<1>8. QED
  BY <1>1, <1>2, <1>3, <1>4, <1>6, <1>7

\* a pop moves the head of one queue to what was taken from it
LEMMA TakeStep ==
  ASSUME TypeOK, DeliveryInv, NEW c \in Callers, PopFront(c) \/ TryPopFront(c)
  PROVE  /\ UNCHANGED << listener, from, published >>
         /\ elQ[c] \in Queues
         /\ queue[elQ[c]] # << >>
         /\ queue' = [queue EXCEPT ![elQ[c]] = Tail(@)]
         /\ taken' = [taken EXCEPT ![elQ[c]] = Append(@, Head(queue[elQ[c]]))]
         /\ \A s \in Sessions : /\ Owed(s)' = Owed(s)
                                /\ BeingClosed(s)' <=> BeingClosed(s)
<1>1. /\ TakeFirst(c) /\ pc[c] \in { "drain", "block", "wait" }
      /\ \E place \in { "drain", "reply" } : Goto(c, place)
      /\ UNCHANGED << mtx, sid, mapVars, producerVars >>
  BY DEF PopFront, TryPopFront
<1>2. elQ[c] \in Queues
  <2>1. elQ[c] \in 1 .. created
    BY <1>1 DEF DeliveryInv, CallsInOrder, PollingStates
  <2>2. QED
    BY <2>1, BoundsAssumption DEF TypeOK, Queues
<1>3. \A t \in Threads : t # c => pc'[t] = pc[t]
  BY <1>1 DEF TypeOK, Goto
<1>4. \A s \in Sessions : BeingClosed(s)' <=> BeingClosed(s)
  BY <1>1, <1>3 DEF BeingClosed, Goto, TypeOK, Threads
<1>5. \A p \in Producers : pc'[p] = pc[p]
  BY <1>3, ThreadsAssumption DEF Threads
<1>6. \A s \in Sessions : Owed(s)' = Owed(s)
  BY <1>1, <1>5 DEF Owed, producerVars
<1>7. QED
  BY <1>1, <1>2, <1>4, <1>6 DEF TakeFirst, mapVars, producerVars

\* the session that is found starts being closed
LEMMA FindStep ==
  ASSUME TypeOK, DeliveryInv, NEW c \in Callers, FindSession(c)
  PROVE  /\ UNCHANGED << listener, from, published, queue, taken >>
         /\ sid[c] \in Listening
         /\ \A s \in Sessions : /\ Owed(s) = << >> /\ Owed(s)' = << >>
                                /\ ~ BeingClosed(s)
                                /\ BeingClosed(s)' <=> s = sid[c]
<1>1. /\ mtx = Free /\ mtx' = c /\ sid[c] \in Listening
      /\ UNCHANGED << listener, from, taken, queue, published, sid, pending, request >>
      /\ pc' = [pc EXCEPT ![c] = "closing"]
  BY DEF FindSession, Goto, mapVars, queueVars, producerVars, callerVars,
         DeliveryInv, CallsInOrder, Listening
<1>2. \A s \in Sessions : Owed(s) = << >> /\ ~ BeingClosed(s)
  BY <1>1, NoDelivery, NoClose, ThreadsAssumption
<1>3. \A t \in Threads : pc'[t] = IF t = c THEN "closing" ELSE pc[t]
  BY <1>1 DEF TypeOK
<1>4. \A s \in Sessions : Owed(s)' = << >>
  <2>1. \A p \in Producers : pc'[p] # "push"
    BY <1>1, <1>3, ThreadsAssumption
    DEF DeliveryInv, DeliveriesInOrder, Threads
  <2>2. QED
    BY <2>1 DEF Owed
<1>5. \A s \in Sessions : BeingClosed(s)' <=> s = sid[c]
  BY <1>1, <1>2, <1>3 DEF BeingClosed, Threads
<1>6. QED
  BY <1>1, <1>2, <1>4, <1>5

\* a notice goes to the queue of the session being closed, and only there
LEMMA SignalStep ==
  ASSUME TypeOK, DeliveryInv, NEW c \in Callers, SignalClose(c)
  PROVE  /\ UNCHANGED << listener, from, published, taken >>
         /\ sid[c] \in Listening /\ BeingClosed(sid[c])
         /\ queue'[listener[sid[c]]] = Append(queue[listener[sid[c]]], CloseEvent)
         /\ \A s \in Listening :
               s # sid[c] => queue'[listener[s]] = queue[listener[s]]
         /\ \A s \in Sessions : /\ Owed(s) = << >> /\ Owed(s)' = << >>
                                /\ BeingClosed(s)' <=> BeingClosed(s)
<1>1. /\ pc[c] = "closing" /\ mtx = c /\ sid[c] \in Listening
      /\ UNCHANGED << pc, mtx, sid, listener, from, taken, published, pending, request >>
      /\ queue' = [queue EXCEPT ![listener[sid[c]]] = Append(@, CloseEvent)]
  BY DEF SignalClose, DeliveryInv, CallsInOrder, Listening, mapVars,
         producerVars, callerVars
<1>2. \A s \in Sessions : /\ Owed(s) = << >>
                          /\ Owed(s)' = << >>
                          /\ BeingClosed(s)' <=> BeingClosed(s)
  <2>1. \A s \in Sessions : Owed(s) = << >>
    BY <1>1, NoDelivery, ThreadsAssumption
  <2>2. QED
    BY <1>1, <2>1 DEF Owed, BeingClosed
<1>3. \A s \in Listening : s # sid[c] => listener[s] # listener[sid[c]]
  BY <1>1 DEF DeliveryInv, QueuesInOrder
<1>4. \A s \in Listening : listener[s] \in Queues
  BY StreamTyped
<1>5. QED
  BY <1>1, <1>2, <1>3, <1>4 DEF TypeOK, BeingClosed

\* the session that was being closed leaves the map
LEMMA EraseStep ==
  ASSUME TypeOK, DeliveryInv, NEW c \in Callers, EraseSession(c)
  PROVE  /\ UNCHANGED << from, published, taken, queue >>
         /\ sid[c] \in Listening
         /\ listener' = [listener EXCEPT ![sid[c]] = NoQueue]
         /\ \A s \in Sessions : /\ Owed(s) = << >> /\ Owed(s)' = << >>
                                /\ BeingClosed(s) <=> s = sid[c]
                                /\ ~ BeingClosed(s)'
<1>1. /\ pc[c] = "closing" /\ mtx = c /\ sid[c] \in Listening
      /\ UNCHANGED << from, taken, queue, published, pending, request >>
      /\ listener' = [listener EXCEPT ![sid[c]] = NoQueue]
      /\ pc' = [pc EXCEPT ![c] = "idle"]
  BY DEF EraseSession, Goto, DeliveryInv, CallsInOrder, Listening, queueVars,
         producerVars
<1>2. \A t \in Threads : pc'[t] = IF t = c THEN "idle" ELSE pc[t]
  BY <1>1 DEF TypeOK
<1>3. \A s \in Sessions : BeingClosed(s) <=> s = sid[c]
  BY <1>1 DEF BeingClosed, DeliveryInv, CallsInOrder
<1>4. \A s \in Sessions : ~ BeingClosed(s)'
  BY <1>1, <1>2 DEF BeingClosed, DeliveryInv, CallsInOrder, Threads
<1>5. \A s \in Sessions : Owed(s) = << >>
  BY <1>1, NoDelivery, ThreadsAssumption
<1>6. \A s \in Sessions : Owed(s)' = << >>
  <2>1. \A p \in Producers : pc'[p] # "push"
    BY <1>1, <1>2, ThreadsAssumption
    DEF DeliveryInv, DeliveriesInOrder, Threads
  <2>2. QED
    BY <2>1 DEF Owed
<1>7. QED
  BY <1>1, <1>3, <1>4, <1>5, <1>6

\* every step is one of those above
LEMMA StepCases ==
  ASSUME [Next]_vars
  PROVE  \/ QuietStep
         \/ \E p \in Producers : \/ LockListeners(p)
                                 \/ \E x \in Sessions : PushBack(p, x)
         \/ \E c \in Callers : \/ LookUpNew(c)
                               \/ PopFront(c) \/ TryPopFront(c)
                               \/ FindSession(c)
                               \/ SignalClose(c)
                               \/ EraseSession(c)
  BY DEF Next, DeliverStep, PollStep, CloseStep, QuietStep, QuietCall
-----------------------------------------------------------------------------
(* The streams of the sessions. *)

\* a session that nobody is closing, and to which nothing is owed
LEMMA NothingOwed ==
  ASSUME TypeOK, DeliveryInv, EveryEventOnceInOrder,
         NEW s \in Listening, ~ BeingClosed(s), Owed(s) = << >>
  PROVE  Held(s) = Suffix(s)
<1>1. Held(s) \o << >> = Held(s)
  BY StreamTyped, ConcatEmptySeq
<1>2. QED
  BY <1>1 DEF EveryEventOnceInOrder, Held, Suffix

\* EveryEventOnceInOrder is preserved
LEMMA StreamStep ==
  ASSUME TypeOK, DeliveryInv, EveryEventOnceInOrder, [Next]_vars,
         TypeOK', DeliveryInv'
  PROVE  EveryEventOnceInOrder'
<1> SUFFICES ASSUME NEW s \in Listening', ~ BeingClosed(s)'
             PROVE  Held(s)' \o Owed(s)' = Suffix(s)'
  BY DEF EveryEventOnceInOrder, Held, Suffix
<1> s \in Sessions
  BY DEF Listening
\* what s holds now may be followed by nothing
<1>0. Held(s)' \o << >> = Held(s)'
  <2>1. /\ taken'[listener'[s]] \in Seq(Entries)
        /\ queue'[listener'[s]] \in Seq(Entries)
    BY DEF TypeOK, Listening, NoQueue
  <2>2. QED
    BY <2>1, ConcatProperties, ConcatEmptySeq DEF Held
<1>1. CASE QuietStep
  <2>1. s \in Listening /\ ~ BeingClosed(s)
    BY <1>1, QuietSteps DEF Listening
  <2>2. QED
    BY <1>1, <2>1, QuietSteps DEF EveryEventOnceInOrder, Held, Suffix
<1>2. ASSUME NEW p \in Producers, LockListeners(p)
      PROVE  Held(s)' \o Owed(s)' = Suffix(s)'
  <2>1. s \in Listening /\ Held(s)' = Held(s) /\ Owed(s)' = << request[p] >>
    BY <1>2, LockStep DEF Listening, Held
  <2>2. Held(s) = Suffix(s)
    BY <1>2, <2>1, LockStep, NothingOwed
  <2>3. request[p] \in Entries
    BY DEF TypeOK
  <2>4. Len(published') = Len(published) + 1
    BY <1>2, <2>1, <2>3, LockStep, StreamTyped, AppendProperties
  <2>5. Suffix(s)' = Suffix(s) \o << request[p] >>
    BY <1>2, <2>1, <2>3, <2>4, LockStep, StreamTyped, SuffixGrows DEF Suffix
  <2>6. QED
    BY <2>1, <2>2, <2>5
<1>3. ASSUME NEW p \in Producers, NEW x \in Sessions, PushBack(p, x)
      PROVE  Held(s)' \o Owed(s)' = Suffix(s)'
  <2>1. s \in Listening /\ ~ BeingClosed(s) /\ Suffix(s)' = Suffix(s)
    BY <1>3, PushStep DEF Listening, Suffix
  <2>2. CASE x = s
    <3>1. Held(s)' = Held(s) \o << request[p] >>
      <4>1. Held(s)' = taken[listener[s]] \o Append(queue[listener[s]], request[p])
        BY <1>3, <2>2, PushStep DEF Held
      <4>2. request[p] \in Entries
        BY <1>3, PushStep
      <4>3. taken[listener[s]] \in Seq(Entries) /\ queue[listener[s]] \in Seq(Entries)
        BY <2>1, StreamTyped
      <4>4. taken[listener[s]] \o Append(queue[listener[s]], request[p])
              = (taken[listener[s]] \o queue[listener[s]]) \o << request[p] >>
        <5>1. \A t, q \in Seq(Entries) : \A e \in Entries :
                 t \o Append(q, e) = (t \o q) \o << e >>
          BY AppendMoves
        <5>2. QED
          BY <4>2, <4>3, <5>1, Zenon
      <4>5. QED
        BY <4>1, <4>4 DEF Held
    <3>2. QED
      BY <1>0, <1>3, <2>1, <2>2, <3>1, PushStep
      DEF EveryEventOnceInOrder, Held, Suffix
  <2>3. CASE x # s
    BY <1>3, <2>1, <2>3, PushStep DEF EveryEventOnceInOrder, Held, Suffix
  <2>4. QED
    BY <2>2, <2>3
<1>4. ASSUME NEW c \in Callers, LookUpNew(c)
      PROVE  Held(s)' \o Owed(s)' = Suffix(s)'
  <2>1. Owed(s)' = << >>
    BY <1>4, NewStep
  <2>2. CASE s = sid[c]
    <3>1. listener'[s] = created + 1 /\ from'[created + 1] = Len(published)
      BY <1>4, <2>2, NewStep DEF TypeOK
    <3>2. Held(s)' = << >> \o << >>
      BY <1>4, <3>1, NewStep DEF Held
    <3>3. Len(published) \in Nat
      BY LenProperties DEF TypeOK
    <3>4. Suffix(s)' = << >>
      BY <1>4, <3>1, <3>3, NewStep, SubSeqEmpty DEF Suffix
    <3>5. << >> \o << >> = << >>
      BY EmptySeq, ConcatEmptySeq
    <3>6. QED
      BY <2>1, <3>2, <3>4, <3>5
  <2>3. CASE s # sid[c]
    <3>1. s \in Listening /\ listener'[s] = listener[s]
      BY <1>4, <2>3, NewStep DEF TypeOK, Listening
    <3>2. from'[listener[s]] = from[listener[s]]
      BY <1>4, <3>1, NewStep, StreamTyped DEF TypeOK
    <3>3. Held(s)' = Held(s) /\ Suffix(s)' = Suffix(s)
      BY <1>4, <3>1, <3>2, NewStep DEF Held, Suffix
    <3>4. QED
      BY <1>0, <1>4, <2>1, <3>1, <3>3, NewStep, NothingOwed
  <2>4. QED
    BY <2>2, <2>3
<1>5. ASSUME NEW c \in Callers, PopFront(c) \/ TryPopFront(c)
      PROVE  Held(s)' \o Owed(s)' = Suffix(s)'
  <2>1. /\ s \in Listening /\ ~ BeingClosed(s) /\ listener' = listener
        /\ Suffix(s)' = Suffix(s) /\ Owed(s)' = Owed(s)
    BY <1>5, TakeStep DEF Listening, Suffix
  <2>2. Held(s)' = Held(s)
    <3>1. CASE listener[s] = elQ[c]
      <4>1. /\ queue[listener[s]] # << >>
            /\ queue'[listener[s]] = Tail(queue[listener[s]])
            /\ taken'[listener[s]]
                 = Append(taken[listener[s]], Head(queue[listener[s]]))
        <5>1. /\ elQ[c] \in Queues /\ queue[elQ[c]] # << >>
              /\ queue' = [queue EXCEPT ![elQ[c]] = Tail(@)]
              /\ taken' = [taken EXCEPT ![elQ[c]] = Append(@, Head(queue[elQ[c]]))]
          BY <1>5, TakeStep
        <5>2. /\ queue'[elQ[c]] = Tail(queue[elQ[c]])
              /\ taken'[elQ[c]] = Append(taken[elQ[c]], Head(queue[elQ[c]]))
          BY <5>1 DEF TypeOK
        <5>3. QED
          BY <3>1, <5>1, <5>2
      <4>2. /\ taken[listener[s]] \in Seq(Entries)
            /\ queue[listener[s]] \in Seq(Entries)
        BY <2>1, StreamTyped
      <4>3. Append(taken[listener[s]], Head(queue[listener[s]]))
               \o Tail(queue[listener[s]])
              = taken[listener[s]] \o queue[listener[s]]
        BY <4>1, <4>2, MoveHead
      <4>4. QED
        BY <2>1, <4>1, <4>3 DEF Held
    <3>2. CASE listener[s] # elQ[c]
      BY <1>5, <2>1, <3>2, TakeStep, StreamTyped DEF Held, TypeOK
    <3>3. QED
      BY <3>1, <3>2
  <2>3. QED
    BY <2>1, <2>2 DEF EveryEventOnceInOrder, Held, Suffix
<1>6. ASSUME NEW c \in Callers, FindSession(c)
      PROVE  Held(s)' \o Owed(s)' = Suffix(s)'
  <2>1. s \in Listening /\ Held(s)' = Held(s) /\ Suffix(s)' = Suffix(s)
    BY <1>6, FindStep DEF Listening, Held, Suffix
  <2>2. QED
    BY <1>0, <1>6, <2>1, FindStep, NothingOwed
<1>7. ASSUME NEW c \in Callers, SignalClose(c)
      PROVE  Held(s)' \o Owed(s)' = Suffix(s)'
  <2>1. s \in Listening /\ ~ BeingClosed(s) /\ s # sid[c]
    BY <1>7, SignalStep DEF Listening
  <2>2. Held(s)' = Held(s) /\ Suffix(s)' = Suffix(s)
    BY <1>7, <2>1, SignalStep DEF Held, Suffix
  <2>3. QED
    BY <1>0, <1>7, <2>1, <2>2, SignalStep, NothingOwed
<1>8. ASSUME NEW c \in Callers, EraseSession(c)
      PROVE  Held(s)' \o Owed(s)' = Suffix(s)'
  <2>1. s # sid[c] /\ s \in Listening /\ listener'[s] = listener[s]
    <3>1. /\ sid[c] \in Sessions
          /\ listener' = [listener EXCEPT ![sid[c]] = NoQueue]
      BY <1>8, EraseStep DEF Listening
    <3>2. listener'[s] # NoQueue
      BY DEF Listening
    <3>3. QED
      BY <3>1, <3>2 DEF TypeOK, Listening
  <2>2. Held(s)' = Held(s) /\ Suffix(s)' = Suffix(s)
    BY <1>8, <2>1, EraseStep DEF Held, Suffix
  <2>3. QED
    BY <1>0, <1>8, <2>1, <2>2, EraseStep, NothingOwed
<1>9. QED
  BY <1>1, <1>2, <1>3, <1>4, <1>5, <1>6, <1>7, <1>8, StepCases

\* no session listens at the start
LEMMA StreamInit == Init => EveryEventOnceInOrder
  BY DEF Init, EveryEventOnceInOrder, Listening

-----------------------------------------------------------------------------
(* The numbers of the requests. *)

InFlight == { request[p] : p \in { x \in Producers : pc[x] = "lock" } }

\* GapsAreInFlight made inductive
NumbersInOrder ==
    /\ GapsAreInFlight
    /\ \A i \in DOMAIN published : published[i] \in 1 .. request_nr
    /\ \A p \in Producers :
          pc[p] # "idle" => request[p] \in 1 .. request_nr
    /\ \A p, x \in Producers :
          pc[p] = "lock" /\ pc[x] = "lock" /\ request[p] = request[x] => p = x

\* no number is drawn at the start
LEMMA NumbersInit == Init => NumbersInOrder
  <1> SUFFICES ASSUME Init PROVE NumbersInOrder
    OBVIOUS
  <1>1. DOMAIN published = {} /\ request_nr = 0
    BY DEF Init
  <1>2. \A p \in Producers : pc[p] = "idle"
    BY DEF Init, Threads
  <1>3. QED
    BY <1>1, <1>2 DEF NumbersInOrder, GapsAreInFlight

\* the numbers stay in order
LEMMA NumbersStep ==
  ASSUME TypeOK, DeliveryInv, NumbersInOrder, [Next]_vars
  PROVE  NumbersInOrder'
<1>1. ASSUME NEW p \in Producers, MakeRequest(p)
      PROVE  NumbersInOrder'
  <2>1. /\ pc[p] = "idle" /\ published' = published /\ request_nr \in Nat
        /\ request_nr' = request_nr + 1
        /\ \A x \in Producers :
              /\ pc'[x] = IF x = p THEN "lock" ELSE pc[x]
              /\ request'[x] = IF x = p THEN request_nr + 1 ELSE request[x]
    BY <1>1 DEF MakeRequest, Goto, TypeOK, Threads
  <2>2. /\ \A i \in DOMAIN published' : published'[i] \in 1 .. request_nr'
        /\ \A x \in Producers : pc'[x] # "idle" => request'[x] \in 1 .. request_nr'
    BY <2>1 DEF NumbersInOrder
  <2>3. \A y, x \in Producers :
           pc'[y] = "lock" /\ pc'[x] = "lock" /\ request'[y] = request'[x] => y = x
    BY <2>1 DEF NumbersInOrder
  <2>4. InFlight' = InFlight \cup {request_nr + 1}
    BY <2>1 DEF InFlight
  <2>5. GapsAreInFlight'
    <3>1. ASSUME NEW n \in 1 .. request_nr'
          PROVE  n \in InFlight'
                   <=> ~ \E i \in DOMAIN published' : published'[i] = n
      <4>1. CASE n = request_nr + 1
        BY <2>1, <2>4, <4>1 DEF NumbersInOrder
      <4>2. CASE n # request_nr + 1
        <5>1. n \in 1 .. request_nr
          BY <2>1, <4>2
        <5>2. QED
          BY <2>1, <2>4, <4>2, <5>1 DEF NumbersInOrder, GapsAreInFlight, InFlight
      <4>3. QED
        BY <4>1, <4>2
    <3>2. QED
      BY <2>1, <3>1 DEF GapsAreInFlight, InFlight, NumbersInOrder
  <2>6. QED
    BY <2>2, <2>3, <2>5 DEF NumbersInOrder
<1>2. ASSUME NEW p \in Producers, LockListeners(p)
      PROVE  NumbersInOrder'
  <2>1. /\ pc[p] = "lock" /\ request' = request /\ request_nr' = request_nr
        /\ request_nr \in Nat
        /\ published' = Append(published, request[p])
        /\ \A x \in Producers : pc'[x] = IF x = p THEN "push" ELSE pc[x]
    BY <1>2 DEF LockListeners, Goto, TypeOK, Threads
  <2>2. /\ Len(published) \in Nat /\ DOMAIN published = 1 .. Len(published)
        /\ DOMAIN published' = 1 .. (Len(published) + 1)
        /\ \A i \in DOMAIN published : published'[i] = published[i]
        /\ published'[Len(published) + 1] = request[p]
    <3>1. published \in Seq(Events) /\ request[p] \in Events
      BY <2>1 DEF TypeOK, DeliveryInv, DeliveriesInOrder
    <3>2. /\ published' \in Seq(Events) /\ Len(published') = Len(published) + 1
          /\ \A i \in 1 .. Len(published) : published'[i] = published[i]
          /\ published'[Len(published) + 1] = request[p]
      BY <2>1, <3>1, AppendProperties
    <3>3. QED
      BY <3>1, <3>2, LenProperties
  <2>3. /\ request[p] \in 1 .. request_nr
        /\ ~ \E i \in DOMAIN published : published[i] = request[p]
    <3>1. request[p] \in 1 .. request_nr /\ request[p] \in InFlight
      BY <2>1 DEF NumbersInOrder, InFlight
    <3>2. QED
      BY <3>1 DEF NumbersInOrder, GapsAreInFlight, InFlight
  <2>4. InFlight' = InFlight \ {request[p]}
    BY <2>1 DEF InFlight, NumbersInOrder
  <2>5. /\ \A i \in DOMAIN published' : published'[i] \in 1 .. request_nr'
        /\ \A x \in Producers : pc'[x] # "idle" => request'[x] \in 1 .. request_nr'
        /\ \A y, x \in Producers :
              pc'[y] = "lock" /\ pc'[x] = "lock" /\ request'[y] = request'[x] => y = x
    BY <2>1, <2>2, <2>3 DEF NumbersInOrder
  <2>6. ASSUME NEW n \in 1 .. request_nr
        PROVE  n \in InFlight'
                 <=> ~ \E i \in DOMAIN published' : published'[i] = n
    <3>1. (\E i \in DOMAIN published' : published'[i] = n)
            <=> n = request[p] \/ \E i \in DOMAIN published : published[i] = n
      BY <2>2
    <3>2. QED
      BY <2>3, <2>4, <3>1 DEF NumbersInOrder, GapsAreInFlight, InFlight
  <2>7. \A i, j \in DOMAIN published' : published'[i] = published'[j] => i = j
    BY <2>2, <2>3 DEF NumbersInOrder, GapsAreInFlight
  <2>8. QED
    BY <2>1, <2>5, <2>6, <2>7 DEF NumbersInOrder, GapsAreInFlight, InFlight
\* no other step brings a thread before the mutex or draws a number
<1>3. ASSUME UNCHANGED << published, request_nr, request >>,
             \A p \in Producers : pc'[p] = pc[p] \/ (pc[p] = "push" /\ pc'[p] = "idle")
      PROVE  NumbersInOrder'
  <2>1. InFlight' = InFlight
    BY <1>3 DEF InFlight
  <2>2. QED
    BY <1>3, <2>1 DEF NumbersInOrder, GapsAreInFlight, InFlight
<1>4. ASSUME NEW p \in Producers,
             UnlockListeners(p) \/ \E x \in Sessions : PushBack(p, x)
      PROVE  NumbersInOrder'
  BY <1>3, <1>4
  DEF UnlockListeners, PushBack, Goto, TypeOK, Threads, producerVars
<1>5. ASSUME NEW c \in Callers,
             \/ \E x \in Sessions : PollForEvents2(c, x) \/ CloseSession(c, x)
             \/ PollStep(c) \/ TimeOut(c) \/ CloseStep(c)
      PROVE  NumbersInOrder'
  <2>1. UNCHANGED producerVars
        /\ (UNCHANGED pc \/ \E place \in CallerStates : Goto(c, place))
    BY <1>5
    DEF PollForEvents2, CloseSession, PollStep, TimeOut, CloseStep, LookUpKnown,
        LookUpNew, ReadSize, PopFront, PopEmpty, Block, TryPopFront, Reply,
        FindNone, FindSession, SignalClose, EraseSession, CallerStates
  <2>2. \A p \in Producers : pc'[p] = pc[p]
    BY <2>1, ThreadsAssumption DEF Goto, TypeOK, Threads
  <2>3. QED
    BY <1>3, <2>1, <2>2 DEF producerVars
<1>6. CASE UNCHANGED vars
  BY <1>3, <1>6 DEF vars, producerVars
<1>7. QED
  BY <1>1, <1>2, <1>4, <1>5, <1>6 DEF Next, DeliverStep

-----------------------------------------------------------------------------
(* The polls: one poller per session. *)

\* every session id is polled on one connection thread
OnePoller == \A s \in Sessions : \A c, d \in PolledBy[s] : c = d

\* the array of call c is the latest that was taken from its queue
Filled(c) ==
    LET t == taken[elQ[c]] IN
    /\ Len(arr[c]) <= Len(t)
    /\ arr[c] = SubSeq(t, Len(t) - Len(arr[c]) + 1, Len(t))

\* call c holds the queue of its own session, or one that was erased, and
\* the queue is as long as the drain loop needs
PollInOrder(c) ==
    /\ pc[c] # "undefined"
    /\ pc[c] = "poll" => c \in PolledBy[sid[c]]
    /\ pc[c] \in PollingStates =>
          /\ sid[c] \in Sessions
          /\ c \in PolledBy[sid[c]]
          /\ \A s \in Sessions : listener[s] = elQ[c] => s = sid[c]
    /\ pc[c] = "drain" => todo[c] <= Len(queue[elQ[c]])
    /\ IF pc[c] \in { "drain", "reply" } THEN Filled(c) ELSE arr[c] = << >>

\* NeverPopEmpty and ReplyIsConsecutive made inductive: no queue has two
\* pollers
PollsInOrder ==
    /\ \A c \in Callers : PollInOrder(c)
    /\ \A c, d \in Callers :
          /\ pc[c] \in PollingStates /\ pc[d] \in PollingStates
          /\ elQ[c] = elQ[d]
          => c = d

\* what is appended to a sequence and to its suffix alike
LEMMA SuffixAppended ==
  ASSUME NEW S, NEW t \in Seq(S), NEW a \in Seq(S), NEW e \in S,
         Len(a) <= Len(t), a = SubSeq(t, Len(t) - Len(a) + 1, Len(t))
  PROVE  /\ Len(Append(a, e)) <= Len(Append(t, e))
         /\ Append(a, e)
              = SubSeq(Append(t, e), Len(Append(t, e)) - Len(Append(a, e)) + 1,
                       Len(Append(t, e)))
<1>1. /\ Len(Append(t, e)) = Len(t) + 1 /\ Len(Append(a, e)) = Len(a) + 1
      /\ Len(t) \in Nat /\ Len(a) \in Nat
  BY AppendProperties, LenProperties
<1>2. Append(a, e) = a \o << e >>
  BY AppendIsConcat
<1>3. Len(t) - Len(a) \in 0 .. Len(t)
  BY <1>1
<1>4. SubSeq(Append(t, e), (Len(t) - Len(a)) + 1, Len(t) + 1)
        = SubSeq(t, (Len(t) - Len(a)) + 1, Len(t)) \o << e >>
  BY <1>3, SuffixGrows
<1>5. Len(Append(t, e)) - Len(Append(a, e)) + 1 = (Len(t) - Len(a)) + 1
  BY <1>1
<1>6. QED
  BY <1>1, <1>2, <1>4, <1>5

\* nothing is a suffix of everything
LEMMA EmptySuffix ==
  ASSUME NEW S, NEW t \in Seq(S)
  PROVE  /\ Len(<< >>) <= Len(t)
         /\ << >> = SubSeq(t, Len(t) - Len(<< >>) + 1, Len(t))
<1>1. Len(<< >>) = 0 /\ Len(t) \in Nat /\ Len(t) - 0 + 1 = Len(t) + 1
  BY LenProperties
<1>2. SubSeq(t, Len(t) + 1, Len(t)) = << >>
  BY <1>1, SubSeqEmpty
<1>3. Len(t) - Len(<< >>) + 1 = Len(t) + 1
  BY <1>1
<1>4. QED
  BY <1>1, <1>2, <1>3

\* nobody polls at the start
LEMMA PollsInit == Init => PollsInOrder
<1> SUFFICES ASSUME Init PROVE PollsInOrder
  OBVIOUS
<1>1. \A c \in Callers : pc[c] = "idle" /\ arr[c] = << >>
  BY DEF Init, Threads
<1>2. QED
  BY <1>1 DEF PollsInOrder, PollInOrder, PollingStates

\* call c does not move, nobody takes from its queue, and no other session
\* gets it
Stays(c) ==
    /\ pc'[c] = pc[c] /\ sid'[c] = sid[c] /\ elQ'[c] = elQ[c]
    /\ todo'[c] = todo[c] /\ arr'[c] = arr[c]
    /\ pc[c] \in PollingStates =>
          /\ \A s \in Sessions : listener'[s] = elQ[c] => listener[s] = elQ[c]
          /\ taken'[elQ[c]] = taken[elQ[c]]
          /\ \/ queue'[elQ[c]] = queue[elQ[c]]
             \/ Len(queue'[elQ[c]]) = Len(queue[elQ[c]]) + 1

\* the variables of a poll
LEMMA PollTyped ==
  ASSUME TypeOK, DeliveryInv, NEW c \in Callers
  PROVE  /\ arr[c] \in Seq(Entries) /\ todo[c] \in Nat
         /\ pc[c] \in PollingStates =>
               /\ elQ[c] \in Queues /\ elQ[c] \in 1 .. created
               /\ queue[elQ[c]] \in Seq(Entries) /\ taken[elQ[c]] \in Seq(Entries)
               /\ Len(queue[elQ[c]]) \in Nat
<1>1. pc[c] \in PollingStates => elQ[c] \in Queues /\ elQ[c] \in 1 .. created
  BY BoundsAssumption DEF TypeOK, DeliveryInv, CallsInOrder, Queues
<1>2. pc[c] \in PollingStates =>
         /\ queue[elQ[c]] \in Seq(Entries) /\ taken[elQ[c]] \in Seq(Entries)
  BY <1>1 DEF TypeOK
<1>3. pc[c] \in PollingStates => Len(queue[elQ[c]]) \in Nat
  BY <1>2, LenProperties
<1>4. QED
  BY <1>1, <1>2, <1>3 DEF TypeOK

\* a call that stays is still in order
LEMMA PollKept ==
  ASSUME TypeOK, DeliveryInv, NEW c \in Callers, PollInOrder(c), Stays(c)
  PROVE  PollInOrder(c)'
<1>1. /\ pc'[c] # "undefined"
      /\ pc'[c] = "poll" => c \in PolledBy[sid'[c]]
      /\ pc'[c] \in PollingStates =>
            /\ sid'[c] \in Sessions
            /\ c \in PolledBy[sid'[c]]
            /\ \A s \in Sessions : listener'[s] = elQ'[c] => s = sid'[c]
  BY DEF PollInOrder, Stays
<1>2. pc'[c] = "drain" => todo'[c] <= Len(queue'[elQ'[c]])
  BY PollTyped DEF PollInOrder, PollingStates, Stays
<1>3. IF pc'[c] \in { "drain", "reply" } THEN Filled(c)' ELSE arr'[c] = << >>
  BY DEF PollInOrder, PollingStates, Filled, Stays
<1>4. QED
  BY <1>1, <1>2, <1>3 DEF PollInOrder

\* one call moves, and if it polls then on a queue of its own
LEMMA OneMoves ==
  ASSUME TypeOK, DeliveryInv, PollsInOrder, NEW c \in Callers,
         PollInOrder(c)', \A d \in Callers \ {c} : Stays(d),
         pc'[c] \in PollingStates =>
            \A d \in Callers \ {c} : pc[d] \in PollingStates => elQ[d] # elQ'[c]
  PROVE  PollsInOrder'
<1>1. \A d \in Callers : PollInOrder(d)'
  BY PollKept DEF PollsInOrder
<1>2. \A d, e \in Callers : /\ pc'[d] \in PollingStates /\ pc'[e] \in PollingStates
                            /\ elQ'[d] = elQ'[e]
                            => d = e
  BY DEF PollsInOrder, Stays
<1>3. QED
  BY <1>1, <1>2 DEF PollsInOrder

\* no call moves
LEMMA NoneMoves ==
  ASSUME TypeOK, DeliveryInv, PollsInOrder, \A d \in Callers : Stays(d)
  PROVE  PollsInOrder'
<1>1. \A d \in Callers : PollInOrder(d)'
  BY PollKept DEF PollsInOrder
<1>2. QED
  BY <1>1 DEF PollsInOrder, Stays

\* pushes lengthen queues
LEMMA PushedStays ==
  ASSUME TypeOK, DeliveryInv, NEW q \in Queues, NEW e \in Entries,
         queue' = [queue EXCEPT ![q] = Append(@, e)],
         UNCHANGED << pc, sid, elQ, todo, arr, taken, listener >>
  PROVE  \A d \in Callers : Stays(d)
<1>1. Len(queue'[q]) = Len(queue[q]) + 1
  <2>1. queue[q] \in Seq(Entries) /\ queue'[q] = Append(queue[q], e)
    BY DEF TypeOK
  <2>2. QED
    BY <2>1, AppendProperties
<1>2. \A x \in Queues : x # q => queue'[x] = queue[x]
  BY DEF TypeOK
<1>3. QED
  BY <1>1, <1>2, PollTyped DEF Stays

\* between its calls, and in a close, a thread has an empty array
LEMMA ClosersMove ==
  ASSUME TypeOK, DeliveryInv, PollsInOrder, NEW c \in Callers,
         \/ \E s \in Sessions : CloseSession(c, s)
         \/ FindNone(c) \/ FindSession(c) \/ EraseSession(c)
  PROVE  PollsInOrder'
<1>1. /\ pc[c] \in { "idle", "close", "closing" } /\ arr' = arr /\ elQ' = elQ
      /\ \E place \in { "idle", "close", "closing" } : Goto(c, place)
      /\ todo' = todo /\ taken' = taken /\ queue' = queue
      /\ \A d \in Callers \ {c} : sid'[d] = sid[d]
  BY DEF CloseSession, FindNone, FindSession, EraseSession, queueVars, callerVars,
         TypeOK
<1>2. /\ pc'[c] \in { "idle", "close", "closing" }
      /\ \A d \in Callers \ {c} : pc'[d] = pc[d]
  BY <1>1 DEF Goto, TypeOK, Threads
<1>3. \/ listener' = listener
      \/ sid[c] \in Sessions /\ listener' = [listener EXCEPT ![sid[c]] = NoQueue]
  BY DEF CloseSession, FindNone, FindSession, EraseSession, mapVars, DeliveryInv,
         CallsInOrder
<1>4. ASSUME NEW d \in Callers \ {c}, pc[d] \in PollingStates, NEW s \in Sessions,
             listener'[s] = elQ[d]
      PROVE  listener[s] = elQ[d]
  BY <1>3, <1>4, PollTyped DEF TypeOK, NoQueue
<1>5. \A d \in Callers \ {c} : Stays(d)
  BY <1>1, <1>2, <1>4 DEF Stays
<1>6. PollInOrder(c)'
  BY <1>1, <1>2 DEF PollsInOrder, PollInOrder, PollingStates
<1>7. QED
  BY <1>2, <1>5, <1>6, OneMoves DEF PollingStates

\* a poll starts, and looks up its queue
LEMMA PollersStart ==
  ASSUME TypeOK, DeliveryInv, PollsInOrder, OnePoller, NEW c \in Callers,
         \/ \E s \in Sessions : PollForEvents2(c, s)
         \/ LookUpKnown(c) \/ LookUpNew(c)
  PROVE  PollsInOrder'
<1>1. CASE \E s \in Sessions : PollForEvents2(c, s)
  <2>1. PICK s \in Sessions : PollForEvents2(c, s)
    BY <1>1
  <2>2. /\ pc[c] = "idle" /\ pc'[c] = "poll" /\ c \in PolledBy[s] /\ sid'[c] = s
        /\ arr' = arr
    BY <2>1 DEF PollForEvents2, Goto, TypeOK, Threads
  <2>3. PollInOrder(c)'
    BY <2>2 DEF PollsInOrder, PollInOrder, PollingStates
  <2>4. \A d \in Callers \ {c} : Stays(d)
    BY <2>1 DEF PollForEvents2, Goto, TypeOK, Threads, Stays, queueVars, mapVars
  <2>5. QED
    BY <2>2, <2>3, <2>4, OneMoves DEF PollingStates
<1>2. CASE LookUpKnown(c)
  <2>1. /\ pc[c] = "poll" /\ pc'[c] = "size" /\ sid' = sid /\ arr' = arr
        /\ listener' = listener /\ listener[sid[c]] # NoQueue
        /\ elQ'[c] = listener[sid[c]]
        /\ sid[c] \in Sessions /\ c \in PolledBy[sid[c]] /\ arr[c] = << >>
    BY <1>2 DEF LookUpKnown, Goto, TypeOK, Threads, mapVars, PollsInOrder,
       PollInOrder, DeliveryInv, CallsInOrder
  <2>2. \A s \in Sessions : listener[s] = listener[sid[c]] => s = sid[c]
    BY <2>1 DEF DeliveryInv, QueuesInOrder, Listening
  <2>3. PollInOrder(c)'
    BY <2>1, <2>2 DEF PollInOrder
  <2>4. \A d \in Callers \ {c} : Stays(d)
    BY <1>2 DEF LookUpKnown, Goto, TypeOK, Threads, Stays, queueVars, mapVars
  <2>5. ASSUME NEW d \in Callers \ {c}, pc[d] \in PollingStates
        PROVE  elQ[d] # elQ'[c]
    <3>1. elQ[d] = listener[sid[c]] => sid[c] = sid[d] /\ d \in PolledBy[sid[d]]
      BY <2>1, <2>5 DEF PollsInOrder, PollInOrder
    <3>2. QED
      BY <2>1, <3>1 DEF OnePoller
  <2>6. QED
    BY <2>3, <2>4, <2>5, OneMoves
<1>3. CASE LookUpNew(c)
  <2>1. /\ pc[c] = "poll" /\ pc'[c] = "size" /\ sid' = sid /\ arr' = arr
        /\ listener' = [listener EXCEPT ![sid[c]] = created + 1]
        /\ elQ'[c] = created + 1
        /\ sid[c] \in Sessions /\ c \in PolledBy[sid[c]] /\ arr[c] = << >>
    BY <1>3 DEF LookUpNew, Goto, TypeOK, Threads, PollsInOrder,
       PollInOrder, DeliveryInv, CallsInOrder
  <2>2. /\ created \in Nat
        /\ \A s \in Sessions : listener[s] \in Nat /\ listener[s] <= created
    BY DEF DeliveryInv, QueuesInOrder, TypeOK, Queues, NoQueue
  <2>3. \A s \in Sessions :
           listener'[s] = IF s = sid[c] THEN created + 1 ELSE listener[s]
    BY <2>1 DEF TypeOK
  <2>4. PollInOrder(c)'
    BY <2>1, <2>2, <2>3 DEF PollInOrder
  <2>5. \A d \in Callers : pc[d] \in PollingStates => elQ[d] \in 1 .. created
    BY PollTyped
  <2>6. \A d \in Callers \ {c} : Stays(d)
    <3>1. ASSUME NEW d \in Callers \ {c}
          PROVE  /\ pc'[d] = pc[d] /\ sid'[d] = sid[d] /\ elQ'[d] = elQ[d]
                 /\ todo'[d] = todo[d] /\ arr'[d] = arr[d]
                 /\ taken' = taken /\ queue' = queue
      BY <1>3 DEF LookUpNew, Goto, TypeOK, Threads, queueVars
    <3>2. QED
      BY <2>2, <2>3, <2>5, <3>1 DEF Stays
  <2>7. QED
    BY <2>1, <2>2, <2>4, <2>5, <2>6, OneMoves
<1>4. QED
  BY <1>1, <1>2, <1>3

\* size() is read, an empty queue is slept upon, and the call returns
LEMMA PollersGoOn ==
  ASSUME TypeOK, DeliveryInv, PollsInOrder, OnePoller, NEW c \in Callers,
         ReadSize(c) \/ PopEmpty(c) \/ Block(c) \/ TimeOut(c) \/ Reply(c)
  PROVE  PollsInOrder'
<1>1. /\ pc[c] \in PollingStates
      /\ UNCHANGED << listener, queue, taken >>
      /\ \E place \in CallerStates : Goto(c, place)
      /\ \A d \in Callers \ {c} : /\ sid'[d] = sid[d] /\ elQ'[d] = elQ[d]
                                  /\ todo'[d] = todo[d] /\ arr'[d] = arr[d]
  BY DEF ReadSize, PopEmpty, Block, TimeOut, Reply, PollingStates, CallerStates,
         callerVars, queueVars, mapVars, TypeOK
<1>2. \A d \in Callers \ {c} : Stays(d)
  BY <1>1 DEF Stays, Goto, TypeOK, Threads
<1>3. PollInOrder(c)'
  <2>1. CASE ReadSize(c)
    <3>1. /\ pc[c] = "size" /\ UNCHANGED << sid, elQ, arr, listener, queue >>
          /\ todo'[c] = Len(queue[elQ[c]])
          /\ pc'[c] = IF queue[elQ[c]] = << >> THEN "block" ELSE "drain"
      BY <2>1 DEF ReadSize, Goto, TypeOK, Threads, queueVars, mapVars
    <3>2. arr[c] = << >> /\ taken[elQ[c]] \in Seq(Entries)
          /\ todo'[c] <= Len(queue'[elQ'[c]])
      BY <3>1, PollTyped DEF PollsInOrder, PollInOrder, PollingStates
    <3>3. Filled(c)'
      <4>1. taken'[elQ'[c]] \in Seq(Entries) /\ arr'[c] = << >>
        BY <1>1, <3>1, <3>2
      <4>2. QED
        BY <4>1, EmptySuffix DEF Filled
    <3>4. QED
      BY <3>1, <3>2, <3>3 DEF PollsInOrder, PollInOrder, PollingStates
  <2>2. CASE PopEmpty(c)
    <3>1. pc[c] = "drain" /\ queue[elQ[c]] = << >>
      BY <2>2 DEF PopEmpty
    <3>2. todo[c] > 0 /\ todo[c] <= Len(queue[elQ[c]]) /\ todo[c] \in Nat
      BY <3>1, PollTyped DEF PollsInOrder, PollInOrder, DeliveryInv, CallsInOrder
    <3>3. QED
      BY <3>1, <3>2, EmptySeq
  <2>3. CASE Block(c)
    <3>1. /\ pc[c] = "block" /\ pc'[c] = "wait"
          /\ UNCHANGED << sid, elQ, arr, listener >>
      BY <2>3 DEF Block, Goto, TypeOK, Threads, callerVars, mapVars
    <3>2. QED
      BY <3>1 DEF PollsInOrder, PollInOrder, PollingStates
  <2>4. CASE TimeOut(c)
    <3>1. /\ pc[c] = "wait" /\ pc'[c] = "reply"
          /\ UNCHANGED << sid, elQ, arr, listener, taken >>
      BY <2>4 DEF TimeOut, Goto, TypeOK, Threads, callerVars, mapVars, queueVars
    <3>2. arr[c] = << >> /\ taken[elQ[c]] \in Seq(Entries)
      BY <3>1, PollTyped DEF PollsInOrder, PollInOrder, PollingStates
    <3>3. Filled(c)'
      <4>1. taken'[elQ'[c]] \in Seq(Entries) /\ arr'[c] = << >>
        BY <3>1, <3>2
      <4>2. QED
        BY <4>1, EmptySuffix DEF Filled
    <3>4. QED
      BY <3>1, <3>3 DEF PollsInOrder, PollInOrder, PollingStates
  <2>5. CASE Reply(c)
    <3>1. pc'[c] = "idle" /\ arr'[c] = << >>
      BY <2>5 DEF Reply, Goto, TypeOK, Threads
    <3>2. QED
      BY <3>1 DEF PollInOrder, PollingStates
  <2>6. QED
    BY <2>1, <2>2, <2>3, <2>4, <2>5
<1>4. \A d \in Callers \ {c} : pc[d] \in PollingStates => elQ[d] # elQ[c]
  BY <1>1 DEF PollsInOrder
<1>5. pc'[c] \in PollingStates => elQ'[c] = elQ[c]
  BY DEF ReadSize, PopEmpty, Block, TimeOut, Reply, Goto, TypeOK, Threads,
     PollingStates, callerVars
<1>6. QED
  BY <1>2, <1>3, <1>4, <1>5, OneMoves

\* the head of the queue moves to the array
LEMMA PollersTake ==
  ASSUME TypeOK, DeliveryInv, PollsInOrder, OnePoller, NEW c \in Callers,
         PopFront(c) \/ TryPopFront(c)
  PROVE  PollsInOrder'
<1> DEFINE q == elQ[c]
           e == Head(queue[elQ[c]])
<1>1. /\ pc[c] \in { "drain", "block", "wait" } /\ pc[c] \in PollingStates
      /\ queue[q] # << >>
      /\ queue' = [queue EXCEPT ![q] = Tail(@)]
      /\ taken' = [taken EXCEPT ![q] = Append(@, e)]
      /\ arr' = [arr EXCEPT ![c] = Append(@, e)]
      /\ UNCHANGED << sid, elQ, listener >>
      /\ \E place \in { "drain", "reply" } : Goto(c, place)
      /\ \A d \in Callers \ {c} : todo'[d] = todo[d]
  BY DEF PopFront, TryPopFront, TakeFirst, PollingStates, mapVars, TypeOK
<1>2. /\ q \in Queues /\ queue[q] \in Seq(Entries) /\ taken[q] \in Seq(Entries)
      /\ arr[c] \in Seq(Entries) /\ e \in Entries
      /\ Len(queue[q]) \in Nat /\ Len(Tail(queue[q])) = Len(queue[q]) - 1
  BY <1>1, PollTyped, HeadTailProperties
<1>3. /\ queue'[q] = Tail(queue[q]) /\ taken'[q] = Append(taken[q], e)
      /\ \A x \in Queues \ {q} : queue'[x] = queue[x] /\ taken'[x] = taken[x]
      /\ arr'[c] = Append(arr[c], e) /\ \A d \in Callers \ {c} : arr'[d] = arr[d]
      /\ pc'[c] \in { "drain", "reply" } /\ \A d \in Callers \ {c} : pc'[d] = pc[d]
  BY <1>1, <1>2 DEF TypeOK, Goto, Threads
<1>4. \A d \in Callers \ {c} : pc[d] \in PollingStates => elQ[d] # q
  BY <1>1 DEF PollsInOrder
<1>5. ASSUME NEW d \in Callers \ {c}
      PROVE  Stays(d)
  <2>1. pc[d] \in PollingStates => elQ[d] \in Queues \ {q}
    BY <1>4, PollTyped
  <2>2. QED
    BY <1>1, <1>3, <2>1 DEF Stays
<1>6. Len(arr[c]) <= Len(taken[q])
      /\ arr[c] = SubSeq(taken[q], Len(taken[q]) - Len(arr[c]) + 1, Len(taken[q]))
  <2>1. CASE pc[c] = "drain"
    BY <2>1 DEF PollsInOrder, PollInOrder, Filled
  <2>2. CASE pc[c] # "drain"
    <3>1. arr[c] = << >>
      BY <1>1, <2>2 DEF PollsInOrder, PollInOrder
    <3>2. QED
      BY <1>2, <3>1, EmptySuffix
  <2>3. QED
    BY <2>1, <2>2
<1>7. Filled(c)'
  <2> HIDE DEF e
  <2>1. /\ Len(Append(arr[c], e)) <= Len(Append(taken[q], e))
        /\ Append(arr[c], e)
             = SubSeq(Append(taken[q], e),
                      Len(Append(taken[q], e)) - Len(Append(arr[c], e)) + 1,
                      Len(Append(taken[q], e)))
    BY <1>2, <1>6, SuffixAppended
  <2>2. arr'[c] = Append(arr[c], e) /\ taken'[elQ'[c]] = Append(taken[q], e)
    BY <1>1, <1>3
  <2>3. QED
    BY <2>1, <2>2 DEF Filled
<1>8. pc'[c] = "drain" => todo'[c] <= Len(queue'[elQ'[c]])
  <2>1. SUFFICES ASSUME pc'[c] = "drain"
                 PROVE  todo'[c] <= Len(queue'[elQ'[c]])
    OBVIOUS
  <2>2. PopFront(c)
    BY <2>1 DEF TryPopFront, Goto, TypeOK, Threads
  <2>3. pc[c] = "drain" /\ todo'[c] = todo[c] - 1
    BY <2>2 DEF PopFront, TypeOK
  <2>4. todo[c] <= Len(queue[q]) /\ todo[c] \in Nat
    BY <2>3, PollTyped DEF PollsInOrder, PollInOrder
  <2>5. QED
    BY <1>1, <1>2, <1>3, <2>3, <2>4
<1>9. PollInOrder(c)'
  BY <1>1, <1>3, <1>7, <1>8 DEF PollsInOrder, PollInOrder, PollingStates
<1>10. QED
  BY <1>1, <1>4, <1>5, <1>9, OneMoves

\* every step keeps the polls in order
LEMMA PollsStep ==
  ASSUME TypeOK, DeliveryInv, PollsInOrder, OnePoller, [Next]_vars
  PROVE  PollsInOrder'
<1>1. ASSUME NEW p \in Producers,
             MakeRequest(p) \/ LockListeners(p) \/ UnlockListeners(p)
      PROVE  PollsInOrder'
  <2>1. /\ UNCHANGED << callerVars, queueVars, mapVars >>
        /\ \A d \in Callers : pc'[d] = pc[d]
    BY <1>1, ThreadsAssumption
    DEF MakeRequest, LockListeners, UnlockListeners, Goto, TypeOK, Threads
  <2>2. \A d \in Callers : Stays(d)
    BY <2>1 DEF Stays, callerVars, queueVars, mapVars
  <2>3. QED
    BY <2>2, NoneMoves
<1>2. ASSUME NEW p \in Producers, NEW s \in Sessions, PushBack(p, s)
      PROVE  PollsInOrder'
  <2>1. s \in Listening /\ request[p] \in Entries
    BY <1>2, PushStep
  <2>2. /\ queue' = [queue EXCEPT ![listener[s]] = Append(@, request[p])]
        /\ UNCHANGED << pc, sid, elQ, todo, arr, taken, listener >>
    BY <1>2 DEF PushBack, callerVars, mapVars
  <2>3. QED
    BY <2>1, <2>2, StreamTyped, PushedStays, NoneMoves
<1>3. ASSUME NEW c \in Callers, SignalClose(c)
      PROVE  PollsInOrder'
  <2>1. sid[c] \in Listening
    BY <1>3, SignalStep
  <2>2. /\ queue' = [queue EXCEPT ![listener[sid[c]]] = Append(@, CloseEvent)]
        /\ UNCHANGED << pc, sid, elQ, todo, arr, taken, listener >>
    BY <1>3 DEF SignalClose, callerVars, mapVars
  <2>3. CloseEvent \in Entries
    BY DEF Entries
  <2>4. QED
    BY <2>1, <2>2, <2>3, StreamTyped, PushedStays, NoneMoves
<1>4. CASE UNCHANGED vars
  <2>1. \A d \in Callers : Stays(d)
    BY <1>4 DEF vars, callerVars, queueVars, mapVars, Stays
  <2>2. QED
    BY <2>1, NoneMoves
<1>5. QED
  BY <1>1, <1>2, <1>3, <1>4, ClosersMove, PollersStart, PollersGoOn, PollersTake
  DEF Next, DeliverStep, PollStep, CloseStep

-----------------------------------------------------------------------------
(* The theorems. *)

\* the structure is preserved
LEMMA StructureStep ==
  ASSUME TypeOK, DeliveryInv, [Next]_vars
  PROVE  TypeOK' /\ DeliveryInv'
  BY TypeStep, CallsStep, DeliveriesStep, QueuesStep DEF DeliveryInv

LEMMA Structure == Spec => [](TypeOK /\ DeliveryInv)
<1>1. TypeOK /\ DeliveryInv /\ [Next]_vars => (TypeOK /\ DeliveryInv)'
  BY StructureStep
<1>2. QED
  BY <1>1, InitStructure, PTL DEF Spec

(* The variables keep their types: in particular no request number exceeds *)
(* its bound and no drain counter falls below zero.                        *)
THEOREM TypeCorrect == Spec => []TypeOK
  BY Structure, PTL

(* Each queue has one session, the mutex has one holder, and it holds it   *)
(* in the very places of deliver, poll and close that use the map.         *)
THEOREM StructureHolds == Spec => []DeliveryInv
  BY Structure, PTL

(* From its first poll to its close a session gets every event whose       *)
(* delivery starts meanwhile, once, in the order common to all sessions:   *)
(* for any number of sessions, pollers, closers and callback threads.      *)
THEOREM EventsOnceInOrder == Spec => []EveryEventOnceInOrder
<1>1. TypeOK /\ DeliveryInv /\ (TypeOK /\ DeliveryInv)' /\ EveryEventOnceInOrder
        /\ [Next]_vars => EveryEventOnceInOrder'
  BY StreamStep
<1>2. QED
  BY <1>1, StreamInit, Structure, PTL DEF Spec

\* a stream that is a suffix of the deliveries holds no notice
LEMMA StreamHasNoNotice ==
  ASSUME TypeOK, DeliveryInv, EveryEventOnceInOrder
  PROVE  NoticeMeansClosed
<1> SUFFICES ASSUME NEW s \in Listening, ~ BeingClosed(s),
                    NEW i \in DOMAIN Held(s)
             PROVE  Held(s)[i] # CloseEvent
  BY DEF NoticeMeansClosed, Held
<1> DEFINE n == from[listener[s]]
<1>1. /\ Held(s) \in Seq(Entries) /\ published \in Seq(Entries)
      /\ n \in 0 .. Len(published) /\ Len(published) \in Nat
  BY StreamTyped, LenProperties
<1>2. Owed(s) \in Seq(Entries)
  <2>1. CASE \E p \in Producers : pc[p] = "push" /\ s \in pending[p]
    <3>1. mtx \in Producers
      BY <2>1 DEF DeliveryInv, DeliveriesInOrder
    <3>2. request[mtx] \in Entries
      BY <3>1 DEF TypeOK
    <3>3. QED
      BY <2>1, <3>2 DEF Owed
  <2>2. CASE ~ \E p \in Producers : pc[p] = "push" /\ s \in pending[p]
    BY <2>2, EmptySeq DEF Owed
  <2>3. QED
    BY <2>1, <2>2
<1>3. Held(s) \o Owed(s) = SubSeq(published, n + 1, Len(published))
  BY DEF EveryEventOnceInOrder, Held
<1>4. /\ Len(Held(s) \o Owed(s)) = Len(Held(s)) + Len(Owed(s))
      /\ (Held(s) \o Owed(s))[i] = Held(s)[i]
      /\ i \in 1 .. Len(Held(s)) /\ Len(Held(s)) \in Nat /\ Len(Owed(s)) \in Nat
  BY <1>1, <1>2, ConcatProperties, LenProperties
<1>5. /\ Len(SubSeq(published, n + 1, Len(published))) = Len(published) - n
      /\ \A k \in 1 .. Len(published) - n :
            SubSeq(published, n + 1, Len(published))[k] = published[n + k]
  <2>1. CASE n = Len(published)
    BY <1>1, <2>1, SubSeqEmpty, EmptySeq
  <2>2. CASE n < Len(published)
    BY SMTT(60), <1>1, <2>2, SubSeqProperties
  <2>3. QED
    BY <1>1, <2>1, <2>2
<1>6. n + i \in 1 .. Len(published) /\ Held(s)[i] = published[n + i]
  <2>1. Len(Held(s)) + Len(Owed(s)) = Len(published) - n
    BY <1>3, <1>4, <1>5
  <2>2. i \in 1 .. Len(published) - n
    BY <1>1, <1>4, <2>1
  <2>3. Held(s)[i] = published[n + i]
    BY <1>3, <1>4, <1>5, <2>2
  <2>4. QED
    BY <1>1, <2>2, <2>3
<1>7. published[n + i] \in Events
  BY <1>6, ElementOfSeq DEF TypeOK
<1>8. QED
  BY <1>6, <1>7 DEF Events, CloseEvent

(* A poller that is told "queue_close" has polled a session that is closed *)
(* or is just being closed.                                                *)
THEOREM NoticesMeanClosed == Spec => []NoticeMeansClosed
  BY Structure, EventsOnceInOrder, StreamHasNoNotice, PTL

(* Numbers are drawn without gaps and delivered once each, although they   *)
(* are drawn outside the mutex.                                            *)
THEOREM NumbersWithoutGaps == Spec => []GapsAreInFlight
<1>1. TypeOK /\ DeliveryInv /\ NumbersInOrder /\ [Next]_vars => NumbersInOrder'
  BY NumbersStep
<1>2. NumbersInOrder => GapsAreInFlight
  BY DEF NumbersInOrder
<1>3. QED
  BY <1>1, <1>2, NumbersInit, Structure, PTL DEF Spec

LEMMA PollsHold == OnePoller => (Spec => []PollsInOrder)
<1>1. OnePoller /\ TypeOK /\ DeliveryInv /\ PollsInOrder /\ [Next]_vars
        => PollsInOrder'
  BY PollsStep
<1>2. CASE OnePoller
  <2>1. TypeOK /\ DeliveryInv /\ PollsInOrder /\ [Next]_vars => PollsInOrder'
    BY <1>1, <1>2
  <2>2. QED
    BY <2>1, PollsInit, Structure, PTL DEF Spec
<1>3. QED
  BY <1>2

\* polls in order neither pop an empty queue nor mix up a reply
LEMMA PollsSuffice ==
  ASSUME PollsInOrder
  PROVE  NeverPopEmpty /\ ReplyIsConsecutive
  BY DEF PollsInOrder, PollInOrder, NeverPopEmpty, ReplyIsConsecutive, Filled

(* Where each session has one poller, pop_front() of the drain loop always *)
(* finds an element, although size() was read without keeping the lock and *)
(* the session may be closed and created anew meanwhile.                   *)
THEOREM PopsFindEvents == OnePoller => (Spec => []NeverPopEmpty)
<1>1. PollsInOrder => NeverPopEmpty
  BY PollsSuffice
<1>2. QED
  BY <1>1, PollsHold, PTL

(* Where each session has one poller, one reply holds consecutive events   *)
(* of its session, oldest first.                                           *)
THEOREM RepliesConsecutive == OnePoller => (Spec => []ReplyIsConsecutive)
<1>1. PollsInOrder => ReplyIsConsecutive
  BY PollsSuffice
<1>2. QED
  BY <1>1, PollsHold, PTL

-----------------------------------------------------------------------------
(* EventDelivery implements Mailboxes: every step is a step of the          *)
(* mailboxes or leaves them alone.                                          *)

\* the mailbox of a session: its queue, and what a running delivery owes it
Box(s) == IF s \in Listening THEN queue[listener[s]] \o Owed(s) ELSE << >>

Boxes == [s \in Sessions |-> Box(s)]

Closing == { s \in Listening : BeingClosed(s) }

\* the mailboxes start empty and closed
LEMMA MailboxInit == Init => Mailbox!Init
<1> SUFFICES ASSUME Init PROVE Mailbox!Init
  OBVIOUS
<1>1. Listening = {} /\ published = << >>
  BY DEF Init, Listening
<1>2. QED
  BY <1>1 DEF Mailbox!Init

\* a step that changes neither the boxes nor the map is invisible
LEMMA Stutter ==
  ASSUME UNCHANGED << published, listener >>,
         \A s \in Listening : /\ Box(s)' = Box(s)
                              /\ BeingClosed(s)' <=> BeingClosed(s)
  PROVE  UNCHANGED Mailbox!mailVars
<1>1. Listening' = Listening
  BY DEF Listening
<1>2. Closing' = Closing
  BY <1>1 DEF Closing
<1>3. Boxes' = Boxes
  BY <1>1 DEF Boxes, Box
<1>4. QED
  BY <1>1, <1>2, <1>3 DEF Mailbox!mailVars, Boxes, Box, Closing

\* a queue to which nothing is owed is the whole mailbox
LEMMA BoxIsQueue ==
  ASSUME TypeOK, NEW s \in Listening, Owed(s) = << >>
  PROVE  Box(s) = queue[listener[s]]
<1>1. queue[listener[s]] \in Seq(Entries)
  BY DEF TypeOK, Listening, NoQueue
<1>2. queue[listener[s]] \o << >> = queue[listener[s]]
  BY <1>1, ConcatEmptySeq
<1>3. QED
  BY <1>2 DEF Box

\* with the mutex, a producer has published its request to all open sessions
LEMMA LockPublishes ==
  ASSUME TypeOK, DeliveryInv, TypeOK', NumbersInOrder,
         NEW p \in Producers, LockListeners(p)
  PROVE  \E e \in Events : Mailbox!Publish(e)
<1> PICK e \in Events : e = request[p]
  BY LockStep
<1>1. Listening' = Listening
  BY LockStep DEF Listening
<1>2. Closing = {} /\ Closing' = {}
  BY LockStep, <1>1 DEF Closing, Listening
<1>3. ~ \E i \in DOMAIN published : published[i] = request[p]
  <2>1. pc[p] = "lock"
    BY DEF LockListeners
  <2>2. request[p] \in 1 .. request_nr /\ request[p] \in InFlight
    BY <2>1 DEF NumbersInOrder, InFlight
  <2>3. QED
    BY <2>2 DEF NumbersInOrder, GapsAreInFlight, InFlight
<1>4. ASSUME NEW s \in Listening
      PROVE  Box(s)' = Append(Box(s), request[p])
  <2>1. queue[listener[s]] \in Seq(Entries) /\ request[p] \in Entries
    BY StreamTyped DEF TypeOK
  <2>2. Box(s) = queue[listener[s]]
    BY LockStep, BoxIsQueue DEF Listening
  <2>3. Box(s)' = queue[listener[s]] \o << request[p] >>
    BY LockStep, <1>1 DEF Box, Listening
  <2>4. QED
    BY <2>1, <2>2, <2>3, AppendIsConcat
<1>5. Boxes' = [s \in Sessions |->
                  IF s \in Listening THEN Append(Boxes[s], request[p]) ELSE Boxes[s]]
  BY <1>1, <1>4 DEF Boxes, Box
<1>6. Mailbox!Publish(e)
  BY <1>1, <1>2, <1>3, <1>5, LockStep DEF Mailbox!Publish, Boxes, Box, Closing
<1>7. QED
  BY <1>6

\* a round of the loop only moves what is owed into the queue
LEMMA PushIsInvisible ==
  ASSUME TypeOK, DeliveryInv, TypeOK', NEW p \in Producers, NEW x \in Sessions,
         PushBack(p, x)
  PROVE  UNCHANGED Mailbox!mailVars
<1>1. Listening' = Listening
  BY PushStep DEF Listening
<1>2. Box(x)' = Box(x)
  <2>1. queue[listener[x]] \in Seq(Entries) /\ request[p] \in Entries
    BY PushStep, StreamTyped
  <2>2. Box(x)' = queue'[listener[x]]
    <3>1. queue'[listener[x]] \in Seq(Entries) /\ listener' = listener
      BY PushStep, StreamTyped DEF TypeOK
    <3>2. queue'[listener[x]] \o << >> = queue'[listener[x]]
      BY <3>1, ConcatEmptySeq
    <3>3. QED
      BY <1>1, <3>1, <3>2, PushStep DEF Box
  <2>3. Box(x) = queue[listener[x]] \o << request[p] >>
    BY PushStep DEF Box
  <2>4. QED
    BY <2>1, <2>2, <2>3, PushStep, AppendIsConcat
<1>3. \A s \in Listening : s # x => Box(s)' = Box(s)
  BY <1>1, PushStep DEF Box
<1>4. \A s \in Listening : BeingClosed(s)' <=> BeingClosed(s)
  BY PushStep DEF Listening
<1>5. QED
  BY <1>2, <1>3, <1>4, PushStep, Stutter

\* the first poll of a session opens it, with an empty mailbox
LEMMA NewOpens ==
  ASSUME TypeOK, DeliveryInv, NEW c \in Callers, LookUpNew(c)
  PROVE  Mailbox!Open(sid[c])
<1>1. \A s \in Sessions :
         listener'[s] = IF s = sid[c] THEN created + 1 ELSE listener[s]
  BY NewStep DEF TypeOK
<1>2. Listening' = Listening \cup {sid[c]} /\ sid[c] \notin Listening
  BY <1>1, NewStep DEF Listening, Queues, NoQueue
<1>3. Closing = {} /\ Closing' = {}
  BY <1>2, NewStep DEF Closing, Listening
<1>4. << >> \o << >> = << >>
  BY EmptySeq, ConcatEmptySeq
<1>5. Boxes' = Boxes
  <2>1. ASSUME NEW s \in Sessions PROVE Box(s)' = Box(s)
    <3>1. CASE s = sid[c]
      BY <1>1, <1>2, <1>4, <3>1, NewStep DEF Box
    <3>2. CASE s # sid[c]
      BY <1>1, <1>2, <3>2, NewStep DEF Box
    <3>3. QED
      BY <3>1, <3>2
  <2>2. QED
    BY <2>1 DEF Boxes
<1>6. QED
  BY <1>2, <1>3, <1>5, NewStep DEF Mailbox!Open, Boxes, Box, Closing

\* the tail of a queue with something behind it
LEMMA TailConcat ==
  ASSUME NEW S, NEW q \in Seq(S), NEW o \in Seq(S), q # << >>
  PROVE  q \o o # << >> /\ Tail(q \o o) = Tail(q) \o o
<1>1. /\ Tail(q) \in Seq(S) /\ q \o o \in Seq(S)
      /\ Len(q) \in Nat \ {0} /\ Len(o) \in Nat
      /\ Len(q \o o) = Len(q) + Len(o) /\ Len(Tail(q)) = Len(q) - 1
  BY HeadTailProperties, ConcatProperties, LenProperties, EmptySeq
<1>2. q \o o # << >>
  BY <1>1, EmptySeq
<1>3. Tail(q \o o) \in Seq(S) /\ Len(Tail(q \o o)) = Len(q) + Len(o) - 1
  BY <1>1, <1>2, HeadTailProperties
<1>4. Tail(q) \o o \in Seq(S) /\ Len(Tail(q) \o o) = Len(q) + Len(o) - 1
  BY <1>1, ConcatProperties
<1>5. ASSUME NEW i \in 1 .. Len(Tail(q \o o))
      PROVE  Tail(q \o o)[i] = (Tail(q) \o o)[i]
  <2>1. Tail(q \o o)[i] = (q \o o)[i + 1]
    BY <1>1, <1>2, <1>3, HeadTailProperties
  <2>2. CASE i < Len(q)
    <3>1. (q \o o)[i + 1] = q[i + 1] /\ (Tail(q) \o o)[i] = Tail(q)[i]
      BY <1>1, <1>3, <2>2, ConcatProperties
    <3>2. Tail(q)[i] = q[i + 1]
      BY <1>1, <1>3, <2>2, HeadTailProperties
    <3>3. QED
      BY <2>1, <3>1, <3>2
  <2>3. CASE i >= Len(q)
    <3>1. (q \o o)[i + 1] = o[i + 1 - Len(q)]
      BY <1>1, <1>3, <2>3, ConcatProperties
    <3>2. (Tail(q) \o o)[i] = o[i - (Len(q) - 1)]
      BY <1>1, <1>3, <2>3, ConcatProperties
    <3>3. i + 1 - Len(q) = i - (Len(q) - 1)
      BY <1>1, <1>3
    <3>4. QED
      BY <2>1, <3>1, <3>2, <3>3
  <2>4. QED
    BY <1>1, <1>3, <2>2, <2>3
<1>6. QED
  BY <1>2, <1>3, <1>4, <1>5, SeqEqual

\* what is owed to a session is a sequence of entries
LEMMA OwedTyped ==
  ASSUME TypeOK, DeliveryInv, NEW s \in Sessions
  PROVE  Owed(s) \in Seq(Entries)
<1>1. CASE \E p \in Producers : pc[p] = "push" /\ s \in pending[p]
  <2>1. mtx \in Producers
    BY <1>1 DEF DeliveryInv, DeliveriesInOrder
  <2>2. request[mtx] \in Entries
    BY <2>1 DEF TypeOK
  <2>3. QED
    BY <1>1, <2>2 DEF Owed
<1>2. CASE ~ \E p \in Producers : pc[p] = "push" /\ s \in pending[p]
  BY <1>2, EmptySeq DEF Owed
<1>3. QED
  BY <1>1, <1>2

\* a pop takes from the mailbox whose queue it is, if it still is one's
LEMMA PopTakes ==
  ASSUME TypeOK, DeliveryInv, NEW c \in Callers, PopFront(c) \/ TryPopFront(c)
  PROVE  \/ \E s \in Sessions : Mailbox!Take(s)
         \/ UNCHANGED Mailbox!mailVars
<1> DEFINE q == elQ[c]
<1>1. /\ Listening' = Listening /\ Closing' = Closing
      /\ \A s \in Sessions : Owed(s)' = Owed(s)
      /\ UNCHANGED << listener, published >>
  BY TakeStep DEF Listening, Closing
<1>2. /\ queue'[q] = Tail(queue[q])
      /\ \A r \in Queues : r # q => queue'[r] = queue[r]
  BY TakeStep DEF TypeOK
<1>3. \A s \in Listening : listener[s] # q => Box(s)' = Box(s)
  BY <1>1, <1>2, StreamTyped DEF Box, Listening
<1>4. CASE \A s \in Listening : listener[s] # q
  BY <1>1, <1>3, <1>4, TakeStep, Stutter DEF Listening
<1>5. ASSUME NEW s \in Listening, listener[s] = q
      PROVE  Mailbox!Take(s)
  <2>1. /\ queue[q] \in Seq(Entries) /\ queue[q] # << >>
        /\ Owed(s) \in Seq(Entries) /\ s \in Sessions
    BY <1>5, TakeStep, StreamTyped, OwedTyped DEF Listening
  <2>2. Box(s) = queue[q] \o Owed(s) /\ Box(s)' = Tail(queue[q]) \o Owed(s)
    BY <1>1, <1>2, <1>5, <2>1 DEF Box
  <2>3. Box(s) # << >> /\ Box(s)' = Tail(Box(s))
    BY <2>1, <2>2, TailConcat
  <2>4. \A t \in Listening : t # s => Box(t)' = Box(t)
    BY <1>3, <1>5 DEF DeliveryInv, QueuesInOrder
  <2>5. Boxes' = [Boxes EXCEPT ![s] = Tail(@)]
    BY <1>1, <2>1, <2>3, <2>4 DEF Boxes, Box
  <2>6. QED
    BY <1>1, <2>1, <2>3, <2>5 DEF Mailbox!Take, Boxes, Box, Closing
<1>6. QED
  BY <1>4, <1>5 DEF Listening

\* close_session has found the session
LEMMA FindBegins ==
  ASSUME TypeOK, DeliveryInv, NEW c \in Callers, FindSession(c)
  PROVE  Mailbox!BeginClose(sid[c])
<1>1. Listening' = Listening /\ Boxes' = Boxes
  BY FindStep DEF Listening, Boxes, Box
<1>2. Closing = {} /\ Closing' = {sid[c]}
  BY <1>1, FindStep DEF Closing, Listening
<1>3. QED
  BY <1>1, <1>2, FindStep DEF Mailbox!BeginClose, Boxes, Box, Closing

\* a notice goes to the mailbox that is being closed
LEMMA SignalNotifies ==
  ASSUME TypeOK, DeliveryInv, NEW c \in Callers, SignalClose(c)
  PROVE  \E x \in Sessions : Mailbox!Notify(x)
<1> PICK x \in Sessions : x = sid[c]
  BY SignalStep DEF Listening
<1>1. /\ Listening' = Listening /\ x \in Listening /\ x \in Sessions
      /\ Closing' = Closing /\ x \in Closing
  BY SignalStep DEF Listening, Closing
<1>2. \A s \in Listening : Owed(s) = << >> /\ Owed(s)' = << >>
  BY SignalStep DEF Listening
<1>3. \A s \in Listening : s # x => Box(s)' = Box(s)
  BY <1>1, <1>2, SignalStep DEF Box
<1>4. Box(x)' = Append(Box(x), CloseEvent)
  <2>1. queue[listener[x]] \in Seq(Entries) /\ CloseEvent \in Entries
    BY <1>1, StreamTyped DEF Entries
  <2>2. Append(queue[listener[x]], CloseEvent) \in Seq(Entries)
    BY <2>1, AppendProperties
  <2>3. Append(queue[listener[x]], CloseEvent) \o << >>
          = Append(queue[listener[x]], CloseEvent)
    BY <2>2, ConcatEmptySeq
  <2>4. Box(x) = queue[listener[x]]
    BY <1>1, <1>2, BoxIsQueue
  <2>5. Box(x)' = queue'[listener[x]] \o << >>
    BY <1>1, <1>2, SignalStep DEF Box
  <2>6. queue'[listener[x]] = Append(queue[listener[x]], CloseEvent)
    BY SignalStep
  <2>7. QED
    BY <2>3, <2>4, <2>5, <2>6
<1>5. Boxes' = [Boxes EXCEPT ![x] = Append(@, CloseEvent)]
  <2>1. \A s \in Sessions :
           Box(s)' = IF s = x THEN Append(Box(s), CloseEvent) ELSE Box(s)
    <3>1. \A s \in Sessions \ Listening : Box(s)' = Box(s)
      BY <1>1 DEF Box
    <3>2. QED
      BY <1>1, <1>3, <1>4, <3>1
  <2>2. QED
    BY <2>1 DEF Boxes
<1>6. QED
  <2>1. Mailbox!Notify(x)
    BY <1>1, <1>5, SignalStep DEF Mailbox!Notify, Boxes, Box, Closing
  <2>2. QED
    BY <2>1

\* the session leaves the map, and its mailbox with it
LEMMA EraseCloses ==
  ASSUME TypeOK, DeliveryInv, NEW c \in Callers, EraseSession(c)
  PROVE  \E x \in Sessions : Mailbox!Close(x)
<1> PICK x \in Sessions : x = sid[c]
  BY EraseStep DEF Listening
<1>1. \A s \in Sessions : listener'[s] = IF s = x THEN NoQueue ELSE listener[s]
  BY EraseStep DEF TypeOK
<1>2. Listening' = Listening \ {x} /\ x \in Listening /\ x \in Sessions
  BY <1>1, EraseStep DEF Listening
<1>3. Closing = {x} /\ Closing' = {}
  BY <1>2, EraseStep DEF Closing, Listening
<1>4. \A s \in Listening' : Box(s)' = Box(s)
  BY <1>1, <1>2, EraseStep DEF Box, Listening
<1>5. Boxes' = [Boxes EXCEPT ![x] = << >>]
  BY <1>2, <1>4 DEF Boxes, Box
<1>6. QED
  <2>1. Mailbox!Close(x)
    BY <1>2, <1>3, <1>5, EraseStep DEF Mailbox!Close, Boxes, Box, Closing
  <2>2. QED
    BY <2>1

\* every step is a step of the mailboxes or leaves them alone
LEMMA MailboxStep ==
  ASSUME TypeOK, DeliveryInv, TypeOK', NumbersInOrder, [Next]_vars
  PROVE  [Mailbox!Next]_(Mailbox!mailVars)
<1>1. CASE QuietStep
  <2>1. \A s \in Listening : /\ Box(s)' = Box(s)
                             /\ BeingClosed(s)' <=> BeingClosed(s)
    BY <1>1, QuietSteps DEF Box, Listening
  <2>2. QED
    BY <1>1, <2>1, QuietSteps, Stutter
<1>2. ASSUME NEW p \in Producers, LockListeners(p)
      PROVE  Mailbox!Next
  BY <1>2, LockPublishes DEF Mailbox!Next
<1>3. ASSUME NEW p \in Producers, NEW x \in Sessions, PushBack(p, x)
      PROVE  UNCHANGED Mailbox!mailVars
  BY <1>3, PushIsInvisible
<1>4. ASSUME NEW c \in Callers, LookUpNew(c)
      PROVE  Mailbox!Next
  BY <1>4, NewOpens, NewStep DEF Mailbox!Next
<1>5. ASSUME NEW c \in Callers, PopFront(c) \/ TryPopFront(c)
      PROVE  Mailbox!Next \/ UNCHANGED Mailbox!mailVars
  BY <1>5, PopTakes DEF Mailbox!Next
<1>6. ASSUME NEW c \in Callers, FindSession(c)
      PROVE  Mailbox!Next
  <2>1. Mailbox!BeginClose(sid[c]) /\ sid[c] \in Sessions
    BY <1>6, FindBegins, FindStep DEF Listening
  <2>2. QED
    BY <2>1 DEF Mailbox!Next
<1>7. ASSUME NEW c \in Callers, SignalClose(c)
      PROVE  Mailbox!Next
  BY <1>7, SignalNotifies DEF Mailbox!Next
<1>8. ASSUME NEW c \in Callers, EraseSession(c)
      PROVE  Mailbox!Next
  BY <1>8, EraseCloses DEF Mailbox!Next
<1>9. QED
  BY <1>1, <1>2, <1>3, <1>4, <1>5, <1>6, <1>7, <1>8, StepCases

(* Delivery, poll and close, for any number of threads and sessions and    *)
(* any interleaving, are the mailboxes: a request reaches all open         *)
(* sessions as if at one instant, although the loop pushes queue by queue. *)
THEOREM Refinement == Spec => ImplementsMailboxes
<1>1. TypeOK /\ DeliveryInv /\ TypeOK' /\ NumbersInOrder /\ [Next]_vars
        => [Mailbox!Next]_(Mailbox!mailVars)
  BY MailboxStep
<1>2. Spec => []NumbersInOrder
  <2>1. TypeOK /\ DeliveryInv /\ NumbersInOrder /\ [Next]_vars => NumbersInOrder'
    BY NumbersStep
  <2>2. QED
    BY <2>1, NumbersInit, Structure, PTL DEF Spec
<1>3. QED
  BY <1>1, <1>2, MailboxInit, Structure, PTL
  DEF Spec, ImplementsMailboxes, Mailbox!Spec
=============================================================================
