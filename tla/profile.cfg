SPECIFICATION PathSpec
CONSTANTS
  Motions <- MCMotions
  Tq = 2
  Circle <- MCCircle
  Radius = 5
  ArcLines <- MCArcLines
INVARIANTS
  RestsAtEnd
  ArcsAsGiven
PROPERTIES
  SetpointsAdvance
  WithinLimits
  SpeedMatchesPath
  SamePathAgain
