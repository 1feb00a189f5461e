CONSTANTS
  k1 = k1
  k2 = k2
  k3 = k3
  Keys = {k1, k2, k3}
  Data = {}
  Entries = {e1, e2, e3, e4, e5}
  NULL = NULL
  HashCode <- MCHashCode
  Sizes <- MCSizes
  MinTableSize = 0
  AVG_CHAIN_MAX = 1
SYMMETRY EntrySymmetry
SPECIFICATION Spec
INVARIANTS
  InsertedIsInTable
CHECK_DEADLOCK FALSE
