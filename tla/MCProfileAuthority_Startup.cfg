SPECIFICATION Spec
CONSTANTS
  Readings <- MCReadings
  SweepPeriod = 3
INVARIANT PublishedFromStart
