---------------------------- MODULE EventDelivery ----------------------------
(***************************************************************************)
(* Delivery of Engine events to the clients that poll for them             *)
(* (server/json-adapter.cc).                                               *)
(*                                                                         *)
(* The Engine calls messageToSend or notifyHandshake on any of its         *)
(* threads; both end in Internal::makeAndDeliverRequest, which numbers the *)
(* request, takes the global mutex and pushes the request to the queue of  *)
(* every known session.  Connection threads run pollForEvents2 and         *)
(* close_session on behalf of clients.  The event of request number n is   *)
(* modelled by n; what it carries is left out.                             *)
(*                                                                         *)
(* The queues are locked_queue objects of libpEpAdapter, each with a lock  *)
(* of its own: one call of push_back, size, pop_front or try_pop_front is  *)
(* one step.                                                               *)
(***************************************************************************)
EXTENDS Naturals, Sequences, FiniteSets

CONSTANTS
    Sessions,     \* the session ids clients use (keys of eventListener)
    Callers,      \* connection threads that poll or close
    Producers,    \* threads on which the Engine raises a callback
    PolledBy,     \* PolledBy[s]: the connection threads that poll session s
    ClosedBy,     \* ClosedBy[s]: the connection threads that close session s
    MaxEvents,    \* bound: events raised in a behaviour
    MaxQueues,    \* bound: queues created in a behaviour
    MaxSignals,   \* bound: close notices that lie in a queue at a time
    Free,         \* "nobody holds the mutex"
    NoSession     \* no session id: the caller is not in a call

ASSUME ThreadsAssumption ==
    /\ Callers \cap Producers = {}
    /\ Free \notin Callers \cup Producers
    /\ NoSession \notin Sessions
    /\ PolledBy \in [Sessions -> SUBSET Callers]
    /\ ClosedBy \in [Sessions -> SUBSET Callers]

ASSUME BoundsAssumption ==
    /\ MaxEvents \in Nat
    /\ MaxQueues \in Nat
    /\ MaxSignals \in Nat \ {0}

Events == 1 .. MaxEvents

\* queue_close_event: no request has the number 0
CloseEvent == 0

Entries == Events \cup {CloseEvent}

Queues == 1 .. MaxQueues

NoQueue == 0

VARIABLES
    mtx,         \* the holder of the global _mtx
    listener,    \* eventListener: the queue of each session, or NoQueue
    queue,       \* the contents of each queue
    created,     \* how many queues exist; an erased one may still be in use
    request_nr,  \* the number of the latest request
    pc,          \* where each thread is in its call
    sid,         \* session_id, the argument of a caller's call
    elQ,         \* the queue pollForEvents looked up
    todo,        \* how many pops the drain loop of pollForEvents has left
    arr,         \* the array pollForEvents returns
    request,     \* the request a producer delivers
    pending,     \* the sessions a producer's loop has still to serve
    published,   \* history: the requests in the order of their delivery
    from,        \* history: Len(published) when a queue was created
    taken        \* history: what was popped from a queue, in order

callerVars   == << sid, elQ, todo, arr >>
producerVars == << request_nr, request, pending, published >>
queueVars    == << queue, taken >>
mapVars      == << listener, created, from >>
vars == << mtx, pc, callerVars, producerVars, queueVars, mapVars >>

Threads == Callers \cup Producers

CallerStates ==
    { "idle", "poll", "size", "drain", "block", "wait", "reply",
      "undefined", "close", "closing" }

ProducerStates == { "idle", "lock", "push" }

TypeOK ==
    /\ mtx \in Threads \cup {Free}
    /\ listener \in [Sessions -> Queues \cup {NoQueue}]
    /\ queue \in [Queues -> Seq(Entries)]
    /\ created \in 0 .. MaxQueues
    /\ request_nr \in 0 .. MaxEvents
    /\ pc \in [Threads -> CallerStates \cup ProducerStates]
    /\ sid \in [Callers -> Sessions \cup {NoSession}]
    /\ elQ \in [Callers -> Queues \cup {NoQueue}]
    /\ todo \in [Callers -> Nat]
    /\ arr \in [Callers -> Seq(Entries)]
    /\ request \in [Producers -> Entries]
    /\ pending \in [Producers -> SUBSET Sessions]
    /\ published \in Seq(Events)
    /\ from \in [Queues -> Nat]
    /\ taken \in [Queues -> Seq(Entries)]

Init ==
    /\ mtx = Free
    /\ listener = [s \in Sessions |-> NoQueue]
    /\ queue = [q \in Queues |-> << >>]
    /\ created = 0
    /\ request_nr = 0
    /\ pc = [t \in Threads |-> "idle"]
    /\ sid = [c \in Callers |-> NoSession]
    /\ elQ = [c \in Callers |-> NoQueue]
    /\ todo = [c \in Callers |-> 0]
    /\ arr = [c \in Callers |-> << >>]
    /\ request = [p \in Producers |-> 0]
    /\ pending = [p \in Producers |-> {}]
    /\ published = << >>
    /\ from = [q \in Queues |-> 0]
    /\ taken = [q \in Queues |-> << >>]

Goto(t, place) == pc' = [pc EXCEPT ![t] = place]

-----------------------------------------------------------------------------
(* makeAndDeliverRequest, on an Engine thread *)

Listening == { s \in Sessions : listener[s] # NoQueue }

\* mutant of MakeRequest: request_nr++ in place of ++request_nr, read and
\* written by two threads at once
MakeRequestRacing(p) ==
    /\ pc[p] = "idle"
    /\ request_nr < MaxEvents
    /\ request_nr' \in { request_nr, request_nr + 1 }
    /\ request' = [request EXCEPT ![p] = request_nr + 1]
    /\ Goto(p, "lock")
    /\ UNCHANGED << mtx, callerVars, queueVars, mapVars, pending, published >>

\* make_request: the number is drawn before the mutex is taken
MakeRequest(p) ==
    /\ pc[p] = "idle"
    /\ request_nr < MaxEvents
    /\ request_nr' = request_nr + 1
    /\ request' = [request EXCEPT ![p] = request_nr + 1]
    /\ Goto(p, "lock")
    /\ UNCHANGED << mtx, callerVars, queueVars, mapVars, pending, published >>

\* Lock L(_mtx), and the loop over eventListener starts
LockListeners(p) ==
    /\ pc[p] = "lock"
    /\ mtx = Free
    /\ mtx' = p
    /\ pending' = [pending EXCEPT ![p] = Listening]
    /\ published' = Append(published, request[p])
    /\ Goto(p, "push")
    /\ UNCHANGED << callerVars, queueVars, mapVars, request_nr, request >>

\* one round of the loop.  The map is ordered by session ids, which are
\* random: the order in which the sessions of a run come is arbitrary.
PushBack(p, s) ==
    /\ pc[p] = "push"
    /\ s \in pending[p]
    /\ queue' = [queue EXCEPT ![listener[s]] = Append(@, request[p])]
    /\ pending' = [pending EXCEPT ![p] = @ \ {s}]
    /\ UNCHANGED << mtx, pc, callerVars, mapVars, taken, request_nr,
                    request, published >>

\* mutant of UnlockListeners: the mutex is released before the loop is over
UnlockListenersEarly(p) ==
    /\ pc[p] = "push"
    /\ mtx' = Free
    /\ pending' = [pending EXCEPT ![p] = {}]
    /\ Goto(p, "idle")
    /\ UNCHANGED << callerVars, queueVars, mapVars, request_nr, request,
                    published >>

UnlockListeners(p) ==
    /\ pc[p] = "push"
    /\ pending[p] = {}
    /\ mtx' = Free
    /\ Goto(p, "idle")
    /\ UNCHANGED << callerVars, producerVars, queueVars, mapVars >>

-----------------------------------------------------------------------------
(* pollForEvents2 *)

PollForEvents2(c, s) ==
    /\ pc[c] = "idle"
    /\ c \in PolledBy[s]
    /\ sid' = [sid EXCEPT ![c] = s]
    /\ Goto(c, "poll")
    /\ UNCHANGED << mtx, elQ, todo, arr, producerVars, queueVars, mapVars >>

\* Lock LCK{_mtx}; elQ = eventListener[key].Q; LCK.unlock()
LookUpKnown(c) ==
    /\ pc[c] = "poll"
    /\ mtx = Free
    /\ listener[sid[c]] # NoQueue
    /\ elQ' = [elQ EXCEPT ![c] = listener[sid[c]]]
    /\ Goto(c, "size")
    /\ UNCHANGED << mtx, sid, todo, arr, producerVars, queueVars, mapVars >>

\* the same for a session without an entry: the subscript creates it
LookUpNew(c) ==
    /\ pc[c] = "poll"
    /\ mtx = Free
    /\ listener[sid[c]] = NoQueue
    /\ created < MaxQueues
    /\ created' = created + 1
    /\ listener' = [listener EXCEPT ![sid[c]] = created + 1]
    /\ from' = [from EXCEPT ![created + 1] = Len(published)]
    /\ elQ' = [elQ EXCEPT ![c] = created + 1]
    /\ Goto(c, "size")
    /\ UNCHANGED << mtx, sid, todo, arr, producerVars, queueVars >>

\* const size_t size = elQ->size()
ReadSize(c) ==
    /\ pc[c] = "size"
    /\ todo' = [todo EXCEPT ![c] = Len(queue[elQ[c]])]
    /\ Goto(c, IF queue[elQ[c]] = << >> THEN "block" ELSE "drain")
    /\ UNCHANGED << mtx, sid, elQ, arr, producerVars, queueVars, mapVars >>

\* mutant of TakeFirst: the array is filled from its front
TakeFirstReversed(c) ==
    LET q == elQ[c] IN
    /\ queue[q] # << >>
    /\ queue' = [queue EXCEPT ![q] = Tail(@)]
    /\ taken' = [taken EXCEPT ![q] = Append(@, Head(queue[q]))]
    /\ arr' = [arr EXCEPT ![c] = << Head(queue[q]) >> \o @]

\* the head of the queue moves to the array
TakeFirst(c) ==
    LET q == elQ[c] IN
    /\ queue[q] # << >>
    /\ queue' = [queue EXCEPT ![q] = Tail(@)]
    /\ taken' = [taken EXCEPT ![q] = Append(@, Head(queue[q]))]
    /\ arr' = [arr EXCEPT ![c] = Append(@, Head(queue[q]))]

\* mutant of PopFront: the loop runs once more, to i <= size
PopFrontOnceMore(c) ==
    /\ pc[c] = "drain"
    /\ TakeFirst(c)
    /\ todo' = [todo EXCEPT ![c] = @ - 1]
    /\ Goto(c, IF todo[c] = 0 THEN "reply" ELSE "drain")
    /\ UNCHANGED << mtx, sid, elQ, producerVars, mapVars >>

\* one round of the drain loop, which runs as often as size() said
PopFront(c) ==
    /\ pc[c] = "drain"
    /\ TakeFirst(c)
    /\ todo' = [todo EXCEPT ![c] = @ - 1]
    /\ Goto(c, IF todo[c] = 1 THEN "reply" ELSE "drain")
    /\ UNCHANGED << mtx, sid, elQ, producerVars, mapVars >>

\* pop_front() of an empty queue has no defined result: the call is lost
PopEmpty(c) ==
    /\ pc[c] = "drain"
    /\ queue[elQ[c]] = << >>
    /\ Goto(c, "undefined")
    /\ UNCHANGED << mtx, callerVars, producerVars, queueVars, mapVars >>

\* try_pop_front() finds the queue empty and goes to sleep
Block(c) ==
    /\ pc[c] = "block"
    /\ queue[elQ[c]] = << >>
    /\ Goto(c, "wait")
    /\ UNCHANGED << mtx, callerVars, producerVars, queueVars, mapVars >>

\* try_pop_front() has an element at once, or is woken by push_back
TryPopFront(c) ==
    /\ pc[c] \in { "block", "wait" }
    /\ TakeFirst(c)
    /\ Goto(c, "reply")
    /\ UNCHANGED << mtx, sid, elQ, todo, producerVars, mapVars >>

\* timeout_seconds have passed and there is still no element
TimeOut(c) ==
    /\ pc[c] = "wait"
    /\ queue[elQ[c]] = << >>
    /\ Goto(c, "reply")
    /\ UNCHANGED << mtx, callerVars, producerVars, queueVars, mapVars >>

\* return arr.  The locals die with the call.
Reply(c) ==
    /\ pc[c] = "reply"
    /\ arr' = [arr EXCEPT ![c] = << >>]
    /\ sid' = [sid EXCEPT ![c] = NoSession]
    /\ elQ' = [elQ EXCEPT ![c] = NoQueue]
    /\ todo' = [todo EXCEPT ![c] = 0]
    /\ Goto(c, "idle")
    /\ UNCHANGED << mtx, producerVars, queueVars, mapVars >>

-----------------------------------------------------------------------------
(* close_session *)

CloseSession(c, s) ==
    /\ pc[c] = "idle"
    /\ c \in ClosedBy[s]
    /\ sid' = [sid EXCEPT ![c] = s]
    /\ Goto(c, "close")
    /\ UNCHANGED << mtx, elQ, todo, arr, producerVars, queueVars, mapVars >>

\* no entry for the session: nothing to do
FindNone(c) ==
    /\ pc[c] = "close"
    /\ mtx = Free
    /\ listener[sid[c]] = NoQueue
    /\ sid' = [sid EXCEPT ![c] = NoSession]
    /\ Goto(c, "idle")
    /\ UNCHANGED << mtx, elQ, todo, arr, producerVars, queueVars, mapVars >>

\* the mutex is held from here on to the end of the call
FindSession(c) ==
    /\ pc[c] = "close"
    /\ mtx = Free
    /\ listener[sid[c]] # NoQueue
    /\ mtx' = c
    /\ Goto(c, "closing")
    /\ UNCHANGED << callerVars, producerVars, queueVars, mapVars >>

\* locked_queue::waiting() > 0
Waiting(q) == \E c \in Callers : pc[c] = "wait" /\ elQ[c] = q

Notices(q) == Len(SelectSeq(queue[q], LAMBDA e : e = CloseEvent))

\* mutant of SignalClose: sleep without a notice
SignalCloseSilent(c) ==
    /\ pc[c] = "closing"
    /\ Waiting(listener[sid[c]])
    /\ UNCHANGED vars

\* one round of the while loop: push_back(queue_close_event) and sleep
SignalClose(c) ==
    LET q == listener[sid[c]] IN
    /\ pc[c] = "closing"
    /\ Waiting(q)
    /\ Notices(q) < MaxSignals
    /\ queue' = [queue EXCEPT ![q] = Append(@, CloseEvent)]
    /\ UNCHANGED << mtx, pc, taken, callerVars, producerVars, mapVars >>

\* mutant of EraseSession: the queue stays in the map
EraseSessionKeep(c) ==
    /\ pc[c] = "closing"
    /\ ~ Waiting(listener[sid[c]])
    /\ sid' = [sid EXCEPT ![c] = NoSession]
    /\ mtx' = Free
    /\ Goto(c, "idle")
    /\ UNCHANGED << elQ, todo, arr, producerVars, queueVars, mapVars >>

\* the loop has ended: eventListener.erase(q), and the mutex is released
EraseSession(c) ==
    /\ pc[c] = "closing"
    /\ ~ Waiting(listener[sid[c]])
    /\ listener' = [listener EXCEPT ![sid[c]] = NoQueue]
    /\ sid' = [sid EXCEPT ![c] = NoSession]
    /\ mtx' = Free
    /\ Goto(c, "idle")
    /\ UNCHANGED << elQ, todo, arr, producerVars, queueVars, created, from >>

-----------------------------------------------------------------------------

\* steps a producer takes on its own once the Engine has called it
DeliverStep(p) ==
    \/ LockListeners(p)
    \/ \E s \in Sessions : PushBack(p, s)
    \/ UnlockListeners(p)

\* steps of pollForEvents that need no timer
PollStep(c) ==
    \/ LookUpKnown(c)
    \/ LookUpNew(c)
    \/ ReadSize(c)
    \/ PopFront(c)
    \/ PopEmpty(c)
    \/ Block(c)
    \/ TryPopFront(c)
    \/ Reply(c)

CloseStep(c) ==
    \/ FindNone(c)
    \/ FindSession(c)
    \/ SignalClose(c)
    \/ EraseSession(c)

Next ==
    \/ \E p \in Producers : MakeRequest(p) \/ DeliverStep(p)
    \/ \E c \in Callers :
          \/ \E s \in Sessions : PollForEvents2(c, s) \/ CloseSession(c, s)
          \/ PollStep(c)
          \/ TimeOut(c)
          \/ CloseStep(c)

Spec == Init /\ [][Next]_vars

(* Every thread that can take a step takes one in the end.  Whether a      *)
(* client calls again, whether the Engine raises an event and whether a    *)
(* poll times out before an event comes is nobody's duty here.             *)
FairSpec ==
    /\ Spec
    /\ \A p \in Producers : WF_vars(DeliverStep(p))
    /\ \A c \in Callers : WF_vars(PollStep(c)) /\ WF_vars(CloseStep(c))

-----------------------------------------------------------------------------
(* Properties *)

\* the producer in the middle of its loop has still to serve session s
Owed(s) ==
    IF \E p \in Producers : pc[p] = "push" /\ s \in pending[p]
    THEN << request[mtx] >>
    ELSE << >>

BeingClosed(s) == \E c \in Callers : pc[c] = "closing" /\ sid[c] = s

(* From the first poll of a session to its close, the session gets every   *)
(* event whose delivery starts in that time, once, and in the one order    *)
(* all sessions see: what was popped, what lies in the queue and what the  *)
(* running delivery still owes is a suffix of the deliveries.              *)
\* makeAndDeliverRequest, json-adapter.cc:136-151
EveryEventOnceInOrder ==
    \A s \in Listening : ~ BeingClosed(s) =>
        LET q == listener[s] IN
        taken[q] \o queue[q] \o Owed(s)
            = SubSeq(published, from[q] + 1, Len(published))

PollingStates == { "size", "drain", "block", "wait", "reply" }

\* a call is where its locals and the mutex allow it to be
CallsInOrder ==
    \A c \in Callers :
       /\ pc[c] \in CallerStates
       /\ pc[c] \in PollingStates => elQ[c] \in 1 .. created
       /\ pc[c] = "drain" => todo[c] > 0
       /\ pc[c] \in { "poll", "close", "closing" } => sid[c] \in Sessions
       /\ pc[c] = "closing" <=> mtx = c
       /\ pc[c] = "closing" => listener[sid[c]] # NoQueue

\* a producer is in its loop while it holds the mutex, and owes only to
\* sessions that are in the map
DeliveriesInOrder ==
    \A p \in Producers :
       /\ pc[p] \in ProducerStates
       /\ pc[p] = "push" <=> mtx = p
       /\ pc[p] # "push" => pending[p] = {}
       /\ pc[p] # "idle" => request[p] \in Events
       /\ pending[p] \subseteq Listening

\* no two sessions share a queue, and a queue still to be created is empty
QueuesInOrder ==
    /\ \A s \in Sessions : listener[s] <= created
    /\ \A s, t \in Listening : listener[s] = listener[t] => s = t
    /\ \A q \in Queues :
          /\ from[q] <= Len(published)
          /\ q > created => queue[q] = << >> /\ taken[q] = << >>

(* Each queue has one owner, the mutex one holder, and the holder is where *)
(* it may use the map: the strengthening that makes EveryEventOnceInOrder  *)
(* inductive.                                                              *)
\* json-adapter.cc:136-151, 325-340, 390-429
DeliveryInv ==
    /\ CallsInOrder
    /\ DeliveriesInOrder
    /\ QueuesInOrder

Mailbox == INSTANCE Mailboxes WITH
    open <- Listening,
    closing <- { s \in Listening : BeingClosed(s) },
    box <- [s \in Sessions |->
              IF s \in Listening THEN queue[listener[s]] \o Owed(s) ELSE << >>]

(* Delivery, poll and close together are the mailboxes of Mailboxes: a     *)
(* request that a loop pushes queue by queue counts as published to all    *)
(* sessions at the moment the mutex is taken.                              *)
\* json-adapter.cc:136-151, 325-340, 390-429
ImplementsMailboxes == Mailbox!Spec

(* A poller that is told "queue_close" polls a session that is closed, or  *)
(* that is just being closed: a notice never strays into the queue of a    *)
(* session that goes on.                                                   *)
\* close_session, json-adapter.cc:325-340
NoticeMeansClosed ==
    \A s \in Listening : ~ BeingClosed(s) =>
        \A i \in DOMAIN (taken[listener[s]] \o queue[listener[s]]) :
            (taken[listener[s]] \o queue[listener[s]])[i] # CloseEvent

(* The drain loop never pops more than there is.                           *)
\* pollForEvents, json-adapter.cc:399-411
NeverPopEmpty == \A c \in Callers : pc[c] # "undefined"

(* One reply holds consecutive events of its session, oldest first.        *)
\* pollForEvents, json-adapter.cc:399-428
ReplyIsConsecutive ==
    \A c \in Callers : pc[c] \in { "drain", "reply" } =>
        LET t == taken[elQ[c]] IN
        /\ Len(arr[c]) <= Len(t)
        /\ arr[c] = SubSeq(t, Len(t) - Len(arr[c]) + 1, Len(t))

(* A number that was drawn is delivered exactly once; what is missing      *)
(* among the numbers delivered so far is on its way.  (The order may be    *)
(* another: the number is drawn before the mutex is taken.)                *)
\* make_request, json_rpc.cc:61-70; makeAndDeliverRequest,
\* json-adapter.cc:136-151
GapsAreInFlight ==
    LET inFlight == { request[p] : p \in { x \in Producers : pc[x] = "lock" } }
    IN
    /\ \A n \in 1 .. request_nr :
          n \in inFlight <=> ~ \E i \in DOMAIN published : published[i] = n
    /\ \A i, j \in DOMAIN published : published[i] = published[j] => i = j

(* A close comes to its end without waiting for any poll to time out, as   *)
(* the notices get every sleeping poller out of the queue; a delivery does *)
(* too, although the close holds the mutex for long; and where timers go   *)
(* off (timeout_seconds is a finite number) every poll is answered, also   *)
(* one whose session was closed and created anew meanwhile.                *)
\* close_session, json-adapter.cc:333-338; makeAndDeliverRequest, 141-150;
\* pollForEvents, 390-428
CloseEnds == \A c \in Callers : pc[c] = "closing" ~> pc[c] = "idle"
DeliveryEnds == \A p \in Producers : pc[p] = "lock" ~> pc[p] = "idle"
PollEnds ==
    (\A c \in Callers : WF_vars(TimeOut(c))) =>
        \A c \in Callers : pc[c] = "size" ~> pc[c] = "idle"

EveryCallEnds == CloseEnds /\ DeliveryEnds /\ PollEnds
=============================================================================
