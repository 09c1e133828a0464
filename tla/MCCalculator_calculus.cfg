SPECIFICATION CalculusSpec
CONSTANTS
  Call <- ExprCalls
  Prime = 103
  Point <- At
  Atoms <- Polynomials
  Fractions <- Proper
  Exponents <- Ints
  Symbolic = FALSE
  Wrt <- x
  MaxSize = 4
  MaxOther = 2
  MaxNum = 3
INVARIANTS
  CanonicalForms
  DiffSound
  SubsSound
  ExpandSound
  ExpandConfluent
  ExpandDecidesEquality
CHECK_DEADLOCK FALSE
