CONSTANTS
  TOPC = 2
  INCRPIPE = 10
  Channels = {}
  NULL = NULL
  MaxCommands = 3
  MaxOwed = 3
SPECIFICATION Spec
INVARIANTS
  RepliesAccountedFor
PROPERTIES
  DrainedPipelineAnswersInTurn
CHECK_DEADLOCK FALSE
