SPECIFICATION Spec
CONSTANTS
  p = p
  q = q
  g = g
  Procs = {p, q}
  Group <- MCGroup
  MaxThrottled = 2
  Base = 1
  Increment = 1
  MaxFiles = 2
  ForkOutcomes = {TRUE, FALSE}
INVARIANTS
  TypeOK
  BrakeOnlyUnderThrottle
  BrakesAreRemembered
  RecordMatchesDisk
PROPERTIES
  PerformanceBrakesLast
  CapacityReturns
