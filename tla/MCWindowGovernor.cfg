SPECIFICATION Spec
CONSTANTS
  a = a
  s = s
  NoProc = NoProc
  Procs = {a, s}
  Base <- MCBase
  IdleShielded = {s}
  SlackShielded = {s}
  MaxWindows = 1
  Profiles <- MCProfiles
  Threshold <- MCThreshold
  Times <- MCTimes
INVARIANTS
  TypeOK
  MaskOnlyOnFocus
  PinOnlyWhileEngaged
  UnmanagedAtBase
  ShieldedNeverIdle
PROPERTIES
  DueIsServed
