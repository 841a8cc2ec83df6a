SPECIFICATION FairSpec
CONSTANTS
  s1 = s1
  s2 = s2
  c1 = c1
  c2 = c2
  p1 = p1
  p2 = p2
  Free = Free
  NoSession = NoSession
  Sessions = {s1, s2}
  Callers = {c1, c2}
  Producers = {p1}
  PolledBy <- OwnPoller
  ClosedBy <- OtherCloses
  MaxEvents = 2
  MaxQueues = 3
  MaxSignals = 2
INVARIANTS
  NeverPopEmpty
  ReplyIsConsecutive
PROPERTIES
  EveryCallEnds
CHECK_DEADLOCK FALSE
