SPECIFICATION Spec
CONSTANTS
  Period = 3
  MaxWaits = {2, 7}
  MaxWork = 8
INVARIANTS
  LeastWholePeriods
PROPERTIES
  ReportedCyclesWorked
  KilledInStartOnly
