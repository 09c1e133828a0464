SPECIFICATION Spec
CONSTANTS
  Call <- ExprCalls
  Prime = 103
  Point <- At
  Atoms <- Radicals
  Fractions <- Proper
  Exponents <- Halves
  Symbolic = TRUE
  Wrt <- x
  MaxSize = 4
  MaxOther = 2
  MaxNum = 3
INVARIANTS
  ArithmeticSound
  DivisionCancels
CHECK_DEADLOCK FALSE
