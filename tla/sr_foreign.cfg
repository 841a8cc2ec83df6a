SPECIFICATION RegistrySpec
CONSTANTS
  ThreadIds = {t1, t2}
  Clients = {k1, k2}
  Fns = {f1}
  ConfigValues = {v1, v2}
  Timeout = 1
  MaxTime = 0
  Unset = Unset
  NoClient = NoClient
  NoSession = NoSession
  NoConfig = NoConfig
INVARIANTS
  NoForeignConfig
CHECK_DEADLOCK FALSE
