SPECIFICATION Spec
CONSTANTS
  w1 = w1
  w2 = w2
  p1 = p1
  p2 = p2
  p3 = p3
  NoPath = NoPath
  MaxFiles = 3
  DefaultFiles = 2
  MaxDisks = 2
  Configs <- ThreeFiles
  Movers <- TwoMovers
INVARIANT
  ListsMatch
