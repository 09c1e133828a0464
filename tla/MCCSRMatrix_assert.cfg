SPECIFICATION Spec
CONSTANTS
  Row = 3
  Col = 2
  Values <- Signs
  Scales <- ZeroOrMinusOne
  Triplets <- Pairs
  MaxValue = 1
  MaxStored = 2
INVARIANT ConstructorAssertion
CHECK_DEADLOCK FALSE
