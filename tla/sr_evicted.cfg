SPECIFICATION RegistrySpec
CONSTANTS
  ThreadIds = {t1, t2}
  Clients = {k1, k2}
  Fns = {f1}
  ConfigValues = {v1, v2}
  Timeout = 1
  MaxTime = 3
  Unset = Unset
  NoClient = NoClient
  NoSession = NoSession
  NoConfig = NoConfig
PROPERTIES
  ConnectedClientKeepsConfig
CHECK_DEADLOCK FALSE
