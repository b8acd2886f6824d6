SPECIFICATION Spec
CONSTANTS
  Readings <- MCReadings
  SweepPeriod = 3
PROPERTY DemotionReachesHardware
