SPECIFICATION FairSpec
CONSTANTS
  d1 = d1
  d2 = d2
  p1 = p1
  Pids = {p1}
  Monitor = monitor
  MaxCrashes = 1
  Disks <- TwoDisks
  Names = {"test", "disk1", "disk2", "file"}
  Dir <- Siblings
  File = "file"
  Origins <- NoneOrOne
  Creates <- Creating
  Failures = {"mkdir"}
  None = None
INVARIANTS
  TypeOK
  OneProgram
  KeepsExisting
  RunsOnDirs
  LeavesTree
PROPERTIES
  CrashRestarts
  ToldMonitorEnds
