SPECIFICATION Spec
CONSTANTS
  s1 = s1
  s2 = s2
  Space <- Spaces
  NumPages = 2
  NumPhysPages = 2
  TLBSize = 2
  Value = {0, 1}
  Policies = {"index", "FIFO", "CLOCK"}
INVARIANTS FramesAccounted Isolation ReadsLastWrite
SYMMETRY Symmetry
CHECK_DEADLOCK FALSE
