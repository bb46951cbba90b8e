CONSTANTS
  c1 = c1
  c2 = c2
  Callers <- MCCallers
SPECIFICATION FairSpec
INVARIANTS
  TypeOK
  MailboxHeldOnce
  SendsHandedCommand
  RemovedWhenThreadsEnded
PROPERTIES
  ImplementsMailbox
  PushIsSent
  CallerProceeds
  LeavingEndsDevice
CHECK_DEADLOCK FALSE
