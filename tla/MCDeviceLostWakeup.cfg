CONSTANTS
  c1 = c1
  c2 = c2
  Callers <- MCCallers
SPECIFICATION FairSpec
PROPERTY CommandEndReleasesPush
CHECK_DEADLOCK FALSE
