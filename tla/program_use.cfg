SPECIFICATION Spec
CONSTANTS
  zero = zero
  a = a
  Points <- MCPoints
  Zero = zero
  Elsewhere = elsewhere
  NoPoint = noPoint
  NaNPoint = nanPoint
  Absent = absent
  NaN = nan
  SizeMod = 8
  MaxError = 2
  Files <- MCFiles
  Errors = {0, 3, nan}
  MaxBlocks = 3
INVARIANTS
  ParsedTargetsComplete
  OnlyTailUnparsed
  NumbersIncrease
PROPERTIES
  DoneAfterEveryBlock
