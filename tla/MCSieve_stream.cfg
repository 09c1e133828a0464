SPECIFICATION Spec
CONSTANTS
  i1 = i1
  i2 = i2
  None = None
  Iters = {i1, i2}
  IterLimits = {0, 40}
  ListLimits = {967}
  SieveSizes = {32}
  MaxPrime = 53
  Bound = 1000
INVARIANTS
  ListExact
PROPERTIES
  StreamSpec
SYMMETRY Symmetry
