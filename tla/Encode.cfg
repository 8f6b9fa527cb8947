SPECIFICATION Spec
CONSTANTS
  Align = 4
  BurstSize = 2
  Ratio = 2
  WeightSize = 9
  MemMax = 48
  ULens = {0, 1, 3}
  HwFaults = {"stall", "hang", "timeout", "early", "nomem", "nofile", "stack",
              "overlap", "other"}
  MaxHwFaults = 2
INVARIANTS
  ResultsAreRight
  NoStrayCompletion
  BurstsStayInside
  TypeOK
PROPERTIES
  EncoderStops
