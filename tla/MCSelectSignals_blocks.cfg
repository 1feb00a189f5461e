SPECIFICATION Spec
CONSTANTS
  Signals = {1, 2, 3}
  Uncatchable = {3}
  Foreign = {2}
  Inherited = {}
  MayBlock = TRUE
INVARIANTS
  NeverBlocksOnCaught
