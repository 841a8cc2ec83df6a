SPECIFICATION FairSpec
CONSTANTS
  Conns = {c1, c2, c3}
  Main = Main
  Runner = Runner
INVARIANTS
  StopsTakingWork
PROPERTIES
  ShutdownEnds
CHECK_DEADLOCK FALSE
