SPECIFICATION Spec
CONSTANTS
  Call <- LibraryCalls
  Draw = 3
  SomeModuli <- UpTo64
  Operands <- Small
  Degrees <- Exponents
  LargePrime = 10009
  Radicands <- SomeSquares
  Draws = {0, 1, 2, 5, 7}
  Matrices <- AllMatrices
  Wide <- Wide23
  Factors <- Lower
  Turns <- Rotations
  Right <- RightSides
  KeyPool <- SomeKeys
  HashBits = 3
  Names <- StringOrder
  NameHash <- StringHash
  Sums <- SomeSums
  Orders <- SomeOrders
INVARIANTS
  FactorsSound
  UnitsSound
  CongruencesSound
  EliminationSound
  DecompositionSound
  DictionariesExact
  PolynomialsSound
CHECK_DEADLOCK FALSE
