SPECIFICATION FairSpec
CONSTANTS
  c1 = c1
  c2 = c2
  None = None
  Clients <- TwoClients
  Scripts <- SomeScripts
  Strays <- SomeStrays
  Keys <- SomeKeys
  Custom <- OtherLine
  Settings <- SomeSettings
  IntMax = 3
  FileCount = 3
  QueueSize = 2
INVARIANTS
  TypeOK
  AnswerIsOwn
  PositiveRatiosDraw
  DrawsAFile
PROPERTIES
  RestartsOnlyIfAsked
  QueuedIsHandled
CHECK_DEADLOCK FALSE
