SPECIFICATION FairSpec
CONSTANTS
  Signals = {1, 2, 3}
  Uncatchable = {3}
  Foreign = {2}
  Inherited = {}
  MayBlock = FALSE
INVARIANTS
  TypeOK
  NoTrappedSignalLost
  FlagTellsMask
  MaskRestored
  ReportMissesNone
PROPERTIES
  RefusedNeverTrapped
  CaughtIsReported
