CONSTANTS
  d1 = d1
  d2 = d2
  Absent = Absent
  Devices <- MCDevices
  Texts <- MCTexts
  Names <- MCNames
  copy_name <- MCcopy_name
  Contents <- MCContents
  Leftovers <- MCLeftovers
  MaxOperations = 2
SPECIFICATION FairSpec
INVARIANTS
  TypeOK
  MissingOnlyWhenAsked
  BackupHoldsPushes
  FoundIsAnswered
PROPERTIES
  UploadBecomesFile
  LeavingEndsWatcher
CHECK_DEADLOCK FALSE
