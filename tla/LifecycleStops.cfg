SPECIFICATION ActiveSpec
INVARIANTS
  TypeOK
  StopsOnceButBetweenFlags
  RoundsAfterClearOnlyBetweenFlags
  UnjoinedOnlyBeforeThread
  LeavesNothingBehind
PROPERTIES
  ExitEndsProcessOnceStarted
CHECK_DEADLOCK FALSE
