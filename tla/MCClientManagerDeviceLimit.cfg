CONSTANTS
  c1 = c1
  c2 = c2
  c3 = c3
  Connections <- MCConnections
  max_devices = 2
SPECIFICATION Spec
INVARIANT DeviceLimit
CHECK_DEADLOCK FALSE
