SPECIFICATION FairSpec
CONSTANTS
  d1 = d1
  d2 = d2
  a1 = a1
  a2 = a2
  f1 = f1
  f2 = f2
  None = None
  Disks <- TwoDisks
  Accesses <- TwoAccesses
  Files <- TwoFiles
  Head = f1
  Existing <- FirstDisk
  Configs = {TRUE, FALSE}
  Requests = {"TERM", "HUP", "q", "Q", "duration"}
  Failures = {"path", "file", "write", "open"}
INVARIANTS
  TypeOK
  RunsOnWrittenFiles
  RemovesMadeDirs
  FilesOutliveUse
PROPERTIES
  LoadEnds
  EndsWhenAsked
  RestartsWhenCalm
