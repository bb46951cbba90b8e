CONSTANTS
  c1 = c1
  c2 = c2
  u1 = u1
  u2 = u2
  p1 = p1
  p2 = p2
  Unnamed = Unnamed
  Clients <- MCClients
  Users <- MCUsers
  Numbers <- MCNumbers
  Peers <- MCPeers
SPECIFICATION FairSpec
INVARIANTS
  TypeOK
  ReplicatedBeforeDelivered
  RepliesInOrder
PROPERTIES
  MainLoopServes
  LeaderIsTold
CHECK_DEADLOCK FALSE
