SPECIFICATION Spec
INVARIANTS
  StoppedCorrectly
CHECK_DEADLOCK FALSE
