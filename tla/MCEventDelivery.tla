--------------------------- MODULE MCEventDelivery ---------------------------
(* Instances of EventDelivery for TLC. *)
EXTENDS EventDelivery, TLC

CONSTANTS s1, s2, c1, c2, p1, p2

\* every session has one poller; c2 also closes the other's session
OwnPoller == (s1 :> {c1}) @@ (s2 :> {c2})
OtherCloses == (s1 :> {c2}) @@ (s2 :> {})

\* two threads poll and close s1, one of them polls s2 as well
SharedPoller == (s1 :> {c1, c2}) @@ (s2 :> {c1})
BothClose == (s1 :> {c1, c2}) @@ (s2 :> {})

\* the callback threads are interchangeable
ProducerSymmetry == Permutations(Producers)
=============================================================================
