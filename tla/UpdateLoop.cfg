SPECIFICATION FairSpec
CONSTANTS
  Sockets = {s1, s2, s3}
  MaxPieces = 1
INVARIANTS
  TypeOK
  BooksAgree
  CopyIsLive
PROPERTIES
  ClosedIsRemoved
CHECK_DEADLOCK FALSE
