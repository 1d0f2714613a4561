SPECIFICATION Spec
CONSTANTS
  w1 = w1
  w2 = w2
  main = main
  NFiles = 3
  NDisks = 2
  Workers <- OneWorker
  Main = main
  Commands = {"!"}
  MovesFail = FALSE
  Leftovers = {1}
  MaxCount = 3
INVARIANTS
  RankedByUse
  Settled
  NeverLost
PROPERTY
  DeletesOnlyMoved
