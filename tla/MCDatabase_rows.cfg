SPECIFICATION FairSpec
CONSTANTS
  FileCount = 1
  DiskCount = 2
  s1 = s1
  Services <- OneService
  Main = Main
  Backends <- AllBackends
  Failing = TRUE
  MaxCount = 1
  None = None
INVARIANTS
  TypeOK
  RowsFollow
  DiskRowsFollow
PROPERTIES
  WritesEnd
