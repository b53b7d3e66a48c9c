CONSTANTS
  Pushers = {p1, p2}
  MaxItems = 4
  MaxCloses = 2
  FileFails = TRUE
  LatePushes = TRUE
SPECIFICATION FairSpec
INVARIANTS WrittenInOrder CloseCompletesEarlierItems NothingLostWhileRunning
PROPERTIES CloseReturnsInTime AcceptedIsWritten
CHECK_DEADLOCK FALSE
