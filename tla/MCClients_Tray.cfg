SPECIFICATION ClientsSpec
CONSTANTS
  Offered = {0, 1, 3}
  Backlog = 2
  MaxActs = 2
PROPERTY TrayConverges
