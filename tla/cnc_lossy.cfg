SPECIFICATION FairSpec
CONSTANTS
  zero = zero
  a = a
  Points <- MCPoints
  Zero = zero
  Elsewhere = elsewhere
  NoPoint = noPoint
  NaNPoint = nanPoint
  Absent = absent
  NaN = nan
  SizeMod = 64
  MaxError = 1
  Files <- MCFiles
  HasAgent = TRUE
  Lossy = TRUE
  NearErrors = {0}
  FarErrors = {3}
  TickCap = 4
PROPERTIES
  RapidReachesTarget
  RapidMetricsPaired
  ProgramEnds
  ZeroReached
