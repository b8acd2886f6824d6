SPECIFICATION Spec
CONSTANTS
  a = a
  s = s
  NoProc = NoProc
  Procs = {a, s}
  Base <- MCBase
  IdleShielded = {s}
  SlackShielded = {s}
  MaxWindows = 1
  Profiles <- MCProfiles
  Threshold <- MCThreshold
  Times <- MCTimes
PROPERTY
  FocusLossRestoresNice
CHECK_DEADLOCK FALSE
