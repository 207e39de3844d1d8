SPECIFICATION Spec
CONSTANTS
  s1 = s1
  s2 = s2
  s3 = s3
  m1 = m1
  m2 = m2
  m3 = m3
  Sockets = {s1, s2, s3}
  NoSocket = NoSocket
  Memory = {m1, m2, m3}
  NoSession = NoSession
  MaxConnections = 3
  MaxFaults = 1
  FirstPort = 1
  LastPort = 5
SYMMETRY AddressSymmetry
INVARIANTS
  TypeOK
  NobodyTwice
  SessionsTrackClients
  GamesDistinct
  PortsNotSharedSoon
  LobbyIsAuthenticated
  InLineIsWaiting
  OneFaultLosesNobody
  TicketsReachTheirPlayers
  MatchedPairTold
PROPERTIES
  OnlyLateConfirmationUnmatches
  KeepsOneLine
  NobodyOvertakes
