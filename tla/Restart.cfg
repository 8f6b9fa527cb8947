SPECIFICATION Spec
CONSTANTS
  CtlUnits = 2
  DataUnits = 5
  Noise = Noise
  Empty = Empty
  Hollow = Hollow
  MaxLine = 34
  FaultKinds = {"reboot", "corruptUp", "loseUp"}
  MaxFaults = 1
  FileMax = 3
  DryRun = TRUE
  EncFrames = 1
  p1 = p1
  p2 = p2
  Pictures = {p1, p2}
  Sessions <- EmptyThenOne
  FrameCount <- Counts20
  Unreadable = Unreadable
  Garbage = {0}
INVARIANTS
  ReceivedSuccessfully
  SavedIsRight
  NoOverrun
  EmptyStaysUnreceived
CHECK_DEADLOCK FALSE
