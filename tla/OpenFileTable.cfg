SPECIFICATION Spec
CONSTANTS
  t1 = t1
  t2 = t2
  t3 = t3
  Thread <- Threads
  Name = {"a", "b"}
  MAX_FILE_NUMBER = 4
  MaxPos = 1
INVARIANTS DescriptorsHold NothingOrphaned
SYMMETRY Symmetry
CHECK_DEADLOCK FALSE
