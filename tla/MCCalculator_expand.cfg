SPECIFICATION Spec
CONSTANTS
  Call <- ExprCalls
  Prime = 103
  Point <- At
  Atoms <- Polynomials
  Fractions <- Proper
  Exponents <- Ints
  Symbolic = FALSE
  Wrt <- x
  MaxSize = 5
  MaxOther = 2
  MaxNum = 2
INVARIANTS
  ExpandAgrees
CHECK_DEADLOCK FALSE
