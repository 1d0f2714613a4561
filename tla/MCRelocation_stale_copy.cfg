SPECIFICATION Spec
CONSTANTS
  w1 = w1
  w2 = w2
  main = main
  NFiles = 2
  NDisks = 2
  Workers <- OneWorker
  Main = main
  Commands = {}
  MovesFail = FALSE
  Leftovers = {}
  MaxCount = 2
PROPERTY
  MoveLeavesNoCopy
