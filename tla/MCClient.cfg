CONSTANTS
  Absent = Absent
  Texts <- MCTexts
  Names <- MCNames
  Contents <- MCContents
  Pushed <- MCPushed
  MaxCommands = 3
  MaxPushes = 2
SPECIFICATION FairSpec
INVARIANTS
  TypeOK
  IdleIsReported
PROPERTIES
  NoPushGoesBack
  ChangeIsReported
CHECK_DEADLOCK FALSE
