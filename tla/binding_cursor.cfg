SPECIFICATION Spec
CONSTANTS
  zero = zero
  a = a
  Points <- MCPoints
  Zero = zero
  Elsewhere = elsewhere
  NoPoint = noPoint
  NaNPoint = nanPoint
  Absent = absent
  NaN = nan
  SizeMod = 8
  MaxError = 2
  Files <- MCFiles
  MaxBlocks = 3
INVARIANTS
  DanglesAfterFailedLoad
  
  EndAfterEveryBlock
