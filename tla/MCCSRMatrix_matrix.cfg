SPECIFICATION Spec
CONSTANTS
  Row = 3
  Col = 2
  Values <- Signs
  Scales <- ZeroOrMinusOne
  Triplets <- Pairs
  MaxValue = 1
  MaxStored = 3
INVARIANTS
  TypeOK
  ReadersSound
PROPERTIES
  MatrixSpec
  ZerosFromTriplets
CHECK_DEADLOCK FALSE
