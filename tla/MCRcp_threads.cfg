SPECIFICATION Spec
CONSTANTS
  Null = Null
  t1 = t1
  t2 = t2
  s1 = s1
  s2 = s2
  s3 = s3
  o1 = o1
  o2 = o2
  o3 = o3
  Threads = {t1, t2}
  Slots = {s1, s2, s3}
  Objs = {o1, o2, o3}
  owner <- TwoOwners
  Arity = 2
INVARIANTS
  RefcountExact
  NoDangling
  DestroyOnce
  NoOrphans
PROPERTIES
  StaysAbandoned
  MembersImmutable
  OwnershipSpec
CHECK_DEADLOCK FALSE
