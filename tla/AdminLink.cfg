SPECIFICATION FairSpec
CONSTANTS
  Pairs = 3
  MaxBreaks = 2
  MaxFaults = 2
INVARIANTS
  TypeOK
  ToldIsHosted
  OneGameEach
PROPERTIES
  AnnouncesInOrder
  PairsAreServed
CHECK_DEADLOCK FALSE
