SPECIFICATION Spec
CONSTANTS
  Scenes <- Hidden
  MaxNow = 3
INVARIANT PushedCanBeOpened
CHECK_DEADLOCK FALSE
