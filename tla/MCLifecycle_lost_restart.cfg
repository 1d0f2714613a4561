SPECIFICATION FairSpec
CONSTANTS
  d1 = d1
  d2 = d2
  a1 = a1
  a2 = a2
  f1 = f1
  f2 = f2
  None = None
  Disks <- TwoDisks
  Accesses <- OneAccess
  Files <- TwoFiles
  Head = f1
  Existing <- FirstDisk
  Configs = {TRUE}
  Requests = {"HUP"}
  Failures = {}
PROPERTY
  RestartsWhenAsked
