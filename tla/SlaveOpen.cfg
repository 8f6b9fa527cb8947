SPECIFICATION OpenSpec
CONSTANTS
  CtlUnits = 2
  DataUnits = 3
  Noise = Noise
  Empty = Empty
  Hollow = Hollow
  MaxLine = 8
  FaultKinds = {"loseUp", "corruptUp", "shortUp", "sendTimeout", "recvTimeout"}
  MaxFaults = 1
  FileMax = 1
  DryRun = TRUE
  EncFrames = 1
  p1 = p1
  AnyFrame <- Anything
INVARIANTS
  ProcessedIsComplete
  NeverReportsProcessing
PROPERTIES
  AcceptedFramesStay
