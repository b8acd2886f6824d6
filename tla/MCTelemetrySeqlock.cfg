SPECIFICATION Spec
CONSTANTS
  Readers = {r1}
  Fields <- MCFields
  Shapes <- MCShapes
  MaxRetries = 2
  MaxUpdates = 3
INVARIANTS
  TypeOK
  QuietReadSucceeds
PROPERTIES
  ImplementsRegister
  ReadsReturn
