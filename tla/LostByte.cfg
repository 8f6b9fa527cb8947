SPECIFICATION Spec
CONSTANTS
  CtlUnits = 2
  DataUnits = 5
  Noise = Noise
  Empty = Empty
  Hollow = Hollow
  MaxLine = 34
  FaultKinds = {"loseDown"}
  MaxFaults = 1
  FileMax = 2
  DryRun = TRUE
  EncFrames = 1
  p1 = p1
  p2 = p2
  Pictures = {p1, p2}
  Sessions <- OnePicture
  FrameCount <- Counts20
  Unreadable = Unreadable
  Garbage = {0}
INVARIANTS
  NoMutualWait
