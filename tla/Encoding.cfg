SPECIFICATION Spec
CONSTANTS
  CtlUnits = 2
  DataUnits = 5
  Noise = Noise
  Empty = Empty
  Hollow = Hollow
  MaxLine = 34
  FaultKinds = {"late", "corruptUp", "loseUp", "corruptReply"}
  MaxFaults = 3
  FileMax = 2
  DryRun = FALSE
  EncFrames = 2
  p1 = p1
  p2 = p2
  Pictures = {p1, p2}
  Sessions <- OnePicture
  FrameCount <- Counts31
  Unreadable = Unreadable
  Garbage = {0}
INVARIANTS
  NoOverrun
PROPERTIES
  MasterEnds
