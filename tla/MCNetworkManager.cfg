CONSTANTS
  s1 = s1
  s2 = s2
  Senders <- MCSenders
  Sizes <- MCSizes
  HEADER_SIZE = 2
  MAX_PACKET_SIZE = 2
  LengthRange = 4
  Capacity = 3
  MaxPackets = 3
SPECIFICATION FairSpec
INVARIANTS
  TypeOK
  FramingKept
  EndBetweenPacketsThrows
PROPERTIES
  ImplementsChannel
  BegunIsReceived
CHECK_DEADLOCK FALSE
