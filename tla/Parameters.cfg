SPECIFICATION Spec
CONSTANTS
  Align = 4
  BurstSize = 2
  Ratio = 2
  WeightSize = 9
  MemMax = 80
  ULens = {2}
  HwFaults = {}
  MaxHwFaults = 0
INVARIANTS
  CodedWithOwnParameters
CHECK_DEADLOCK FALSE
