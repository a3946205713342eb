SPECIFICATION Spec
CONSTANTS
  t1 = t1
  t2 = t2
  Thread <- Threads
  Path <- Paths
  DirPath <- DirPaths
  NumSectors = 7
  NumDirEntries = 2
  InitialSize = {0}
  MaxBlocks = 1
  MaxVisits = 2
INVARIANTS MapMatchesFiles HandlesLive
SYMMETRY Symmetry
CONSTRAINT UntilOvertaken
CHECK_DEADLOCK FALSE
