SPECIFICATION Spec
CONSTANTS
  W = 8
  NumGPRegs = 4
  MemorySize = 12
  Raw <- Raws
  InitialValue <- Values
  MaxSteps = 3
  MaxFaults = 1
INVARIANTS FaultsTransparent ArithmeticRight
CHECK_DEADLOCK FALSE
