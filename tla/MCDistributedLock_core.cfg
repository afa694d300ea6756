CONSTANTS
  k1 = k1  k2 = k2
  Clients = {k1, k2}
  MaxAcquires = 3
  MaxLate = 2
  Free = Free
SPECIFICATION Spec
INVARIANTS
  MutualExclusion
  HolderOwnsKey
