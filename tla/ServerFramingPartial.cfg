SPECIFICATION Spec
CONSTANTS
  Room = 3
INVARIANTS
  StreamStaysReadable
CHECK_DEADLOCK FALSE
