CONSTANTS
  c1 = c1
  c2 = c2
  c3 = c3
  Connections <- MCConnections
  max_devices = 2
SPECIFICATION FairSpec
INVARIANTS
  TypeOK
  OneHolder
  RegistryConsistent
  ConnectingIsSafe
  UndisturbedPushReachesEach
PROPERTY HandlerProceeds
CHECK_DEADLOCK FALSE
