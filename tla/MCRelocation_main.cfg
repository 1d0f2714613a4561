SPECIFICATION FairSpec
CONSTANTS
  w1 = w1
  w2 = w2
  main = main
  NFiles = 2
  NDisks = 2
  Workers <- TwoWorkers
  Main = main
  Commands = {"o", "r", "S", "K"}
  MovesFail = TRUE
  Leftovers = {}
  MaxCount = 2
INVARIANTS
  TypeOK
  AccessedFileStays
PROPERTY
  ServicesStop
