SPECIFICATION FairSpec
CONSTANTS
  s1 = s1
  s2 = s2
  m1 = m1
  m2 = m2
  Sockets = {s1, s2}
  NoSocket = NoSocket
  Memory = {m1, m2}
  NoSession = NoSession
  MaxConnections = 3
  MaxFaults = 1
  FirstPort = 1
  LastPort = 3
PROPERTIES
  HandlersFinish
  FrontIsServed
