SPECIFICATION MCSpec
CONSTANTS
  MaxObjects = 4
  MaxHandles = 5
  MaxImages = 3
  MaxConns = 3
  MaxResults = 1
  MaxNames = 2
  MaxArrays = 1
  Sizes = {1, 2}
  AVG_CHAIN_MAX = 1
  NULL = NULL
INVARIANTS
  ObjectsNamed
  ResultReachable
  NamesUnique
  RowsAgree
PROPERTIES
  ParametersFreed
  HandlesKeepMeaning
