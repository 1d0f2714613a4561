SPECIFICATION Spec
CONSTANTS
  w1 = w1
  w2 = w2
  main = main
  NFiles = 3
  NDisks = 3
  Workers <- TwoWorkers
  Main = main
  Commands = {}
  MovesFail = FALSE
  Leftovers = {}
  MaxCount = 2
INVARIANT
  Settled
