SPECIFICATION Spec
CONSTANTS
  Readers = {r1}
  Fields <- MCFields
  Shapes <- MCShapes
  MaxRetries = 2
  MaxUpdates = 3
PROPERTY ReadsAreWhole
