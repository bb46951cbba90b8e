CONSTANTS
  Clients = {c1, c2}
  Ports = {1, 2, 3, 4}
  None = None
  max_devices = 1
  max_retries = 1
SPECIFICATION FairSpec
INVARIANTS
  TypeOK
  SocketsMatched
  ThreadsAreAwaited

  
CHECK_DEADLOCK FALSE
