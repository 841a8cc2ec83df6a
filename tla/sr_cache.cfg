SPECIFICATION RegistrySpec
CONSTANTS
  ThreadIds = {t1, t2}
  Clients = {k1, k2, k3}
  Fns = {f1}
  ConfigValues = {v1, v2}
  Timeout = 1
  MaxTime = 3
  Unset = Unset
  NoClient = NoClient
  NoSession = NoSession
  NoConfig = NoConfig
SYMMETRY RegistrySymmetry
INVARIANTS
  RegistryInv
PROPERTIES
  NewSessionConfigured
  SilentAreSwept
CHECK_DEADLOCK FALSE
