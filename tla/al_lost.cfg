SPECIFICATION LifecycleSpec
CONSTANTS
  Conns = {c1, c2}
  Main = Main
  Runner = Runner
PROPERTIES
  FinishesCalls
CHECK_DEADLOCK FALSE
