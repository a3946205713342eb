SPECIFICATION Spec
CONSTANTS
  f1 = f1
  f2 = f2
  File = {f1, f2}
  NumDirect = 1
  LevelNum = 2
  SectorSize = 2
  NumSectors = 11
  MaxBytes = 14
  Request = {0, 2, 7}
  Roomy = TRUE
INVARIANT SectorsAccounted
PROPERTY BlocksStay
SYMMETRY Files
