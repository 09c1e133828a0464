SPECIFICATION Spec
CONSTANTS
  p = 2
  q = 3
  Reach = 4
  Systems <- TwoEquations
INVARIANTS
  StackBounded
  BasisExact
PROPERTY
  Terminates
CHECK_DEADLOCK FALSE
