SPECIFICATION Spec
CONSTANTS
  CtlUnits = 2
  DataUnits = 5
  Noise = Noise
  Empty = Empty
  Hollow = Hollow
  MaxLine = 34
  FaultKinds = {"sendTimeout", "recvTimeout"}
  MaxFaults = 2
  FileMax = 3
  DryRun = FALSE
  EncFrames = 2
  p1 = p1
  p2 = p2
  Pictures = {p1, p2}
  Sessions <- EmptyThenTwo
  FrameCount <- Counts20
  Unreadable = Unreadable
  Garbage = {0}
INVARIANTS
  NoOverrun
CHECK_DEADLOCK FALSE
