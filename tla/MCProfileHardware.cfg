SPECIFICATION MCSpec
CONSTANTS
  Readings <- MCReadings
  SweepPeriod = 3
  Hosts <- MCHosts
  MaxKills = 1
  Temps = {0, 30, 40, 60, 70, 80}
  UserLevels <- MCUserLevels
  Packets <- MCPackets
  MaxFanKills = 1
INVARIANTS
  TypeOK
  SelectionSticks
  PublishedIsInForce
  SweepsAreFrequent
  CapsAreNotLaundered
  ParkIsLifted
  NothingOutlivesItsProfile
PROPERTIES
  AutomaticOnlySaves
  FloorIsReached
  StopGivesBack
  CeilingComesBack
  BatterySavingsYield
  HotIsFullSpeed
