CONSTANTS
  Edge <- MCEdge
  Sectors <- MCSectors
  IntBits = 5
  FracBits = 10
  Anchor <- MCAnchor
  None = None
  Id = {1, 2, 3, 4}
  Root = 2
  Prefix = {1, 3, 4}
  Kept <- MCKept
  MinNodes = 2
  MinPopulation = 3
  OutlierKnn = 2
  Ranks = {1, 2}
  Limits <- MCLimits
  Slices <- MCSlices
  Thresholds = {1}
SPECIFICATION Spec
INVARIANT RadiusComplete
