SPECIFICATION FairSpec
CONSTANTS
  Room = 3
INVARIANTS
  TypeOK
  OnlyConfirmationsOverlap
PROPERTIES
  MatchedIsTold
CHECK_DEADLOCK FALSE
