CONSTANTS
  Pushers = {p1, p2}
  MaxItems = 2
  MaxCloses = 2
  FileFails = FALSE
  LatePushes = TRUE
SPECIFICATION FairSpec
PROPERTY CloseReturns
CHECK_DEADLOCK FALSE
