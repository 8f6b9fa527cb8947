SPECIFICATION Spec
CONSTANTS
  CtlUnits = 2
  DataUnits = 5
  Noise = Noise
  Empty = Empty
  Hollow = Hollow
  MaxLine = 34
  FaultKinds = {"corruptUp", "corruptData", "corruptReply", "loseUp", "shortUp"}
  MaxFaults = 3
  FileMax = 2
  DryRun = TRUE
  EncFrames = 1
  p1 = p1
  p2 = p2
  Pictures = {p1, p2}
  Sessions <- TwoPictures
  FrameCount <- Counts31
  Unreadable = Unreadable
  Garbage = {0}
INVARIANTS
  ReceivedSuccessfully
  SavedIsRight
  NoMutualWait
  ReportsReceivedFrames
  TypeOK
PROPERTIES
  RefinesService
