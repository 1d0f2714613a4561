SPECIFICATION FairSpec
CONSTANTS
  s1 = s1
  s2 = s2
  s3 = s3
  Services <- ThreeServices
INVARIANTS
  TypeOK
  NoUseAfterFree
PROPERTIES
  KeepsContract
  OpenCompletes
  CloseCompletes
