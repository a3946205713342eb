SPECIFICATION Spec
CONSTANTS
  t1 = t1
  t2 = t2
  Thread <- Threads
  Ticks = {2}
  TimerTicks = 3
  ConsoleTime = 2
  NetworkTime = 2
  DelayPerFloor = 3
  MaxTyped = 3
  MaxPackets = 3
  numElevators = 2
  numFloors = 3
  MaxCalls = 2
  SectorsPerTrack = 3
  NumTracks = 2
  RotationTime = 2
  SeekTime = 3
INVARIANTS KeysInOrder OneOutput PacketsInOrder InterruptsKept SectorUnderHead
PROPERTY RequestsEnd
CHECK_DEADLOCK FALSE
