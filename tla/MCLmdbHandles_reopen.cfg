CONSTANTS
  Envs = {e1, e2}
  Txns = {t1}
  Cursors = {k1}
  Numbers = {1}
  MAIN_DBI = 1
  Sizes = {13, 127}
  AVG_CHAIN_MAX = 2
  NULL = NULL
SYMMETRY AddressSymmetry
SPECIFICATION Spec
INVARIANTS
  HandlesUnique
CHECK_DEADLOCK FALSE
