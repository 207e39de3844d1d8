SPECIFICATION FairSpec
PROPERTIES
  ExitStopsServer
CHECK_DEADLOCK FALSE
