SPECIFICATION Spec
CONSTANTS
  t1 = t1
  t2 = t2
  Thread <- Threads
  Path <- TwoFiles
  DirPath <- NoDirs
  NumSectors = 7
  NumDirEntries = 2
  InitialSize = {0}
  MaxBlocks = 1
  MaxVisits = 2
INVARIANT BlocksMarked
CONSTRAINT OnlyGrowthOverlaps
CHECK_DEADLOCK FALSE
