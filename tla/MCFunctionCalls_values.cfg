SPECIFICATION Spec
CONSTANTS
  Call <- AllCalls
  MaxInt = 2147483647
  Prime = 241
  Step = 7
  ExpOne = 19
  PiValue = 9
  Here <- Values
  Simple <- Terms
  Angles <- Circle
  Turns <- Quarters
  Wrt <- x
  MaxSize = 4
  MaxOrder = 2
  MaxNum = 2
INVARIANTS
  TrigSound
  RecursionSound
  FunctionDiffSound
  FunctionSubsSound
  SymbolicSound
CHECK_DEADLOCK FALSE
