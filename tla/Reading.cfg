SPECIFICATION FairSpec
CONSTANTS
  Scenes <- MCScenes
  MaxNow = 3
INVARIANTS ActivityMirrorsPush BuzzedOnce
PROPERTIES PagedReads ReadingEnds
CHECK_DEADLOCK FALSE
