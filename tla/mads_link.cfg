SPECIFICATION FairSpec
CONSTANTS
  zero = zero
  Points <- MCPoints
  Zero = zero
  Elsewhere = elsewhere
  NoPoint = noPoint
  NaNPoint = nanPoint
  Absent = absent
  NaN = nan
  SizeMod = 8
  MaxError = 1
  Files = {}
  NearErrors = {0}
  FarErrors = {3}
  None = none
  WireCap = 2
INVARIANTS PublishedIsOrdered DiesOutsideSync
PROPERTIES MachineRefined MotionEnds
