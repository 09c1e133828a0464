SPECIFICATION Spec
CONSTANTS
  Null = Null
  Temp = Temp
  v1 = v1
  v2 = v2
  o1 = o1
  o2 = o2
  n1 = n1
  n2 = n2
  Vars = {v1, v2}
  Objs = {o1, o2}
  Nodes = {n1, n2}
  Arity = 1
  MaxHandles = 4
SYMMETRY Symmetry
INVARIANTS
  CountsExact
  OwnedLifetime
  NoUseAfterFree
  TracerExact
CHECK_DEADLOCK FALSE
