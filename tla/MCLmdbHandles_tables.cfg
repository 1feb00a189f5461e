CONSTANTS
  Envs = {e1, e2}
  Txns = {t1, t2, t3}
  Cursors = {k1}
  Numbers = {1, 2}
  MAIN_DBI = 1
  Sizes = {1, 2}
  AVG_CHAIN_MAX = 1
  NULL = NULL
SYMMETRY AddressSymmetry
SPECIFICATION Spec
INVARIANTS
  LiveObjectsNamed
  TablesExact
CHECK_DEADLOCK FALSE
