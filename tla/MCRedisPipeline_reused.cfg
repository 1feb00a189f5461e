CONSTANTS
  TOPC = 1
  INCRPIPE = 10
  Channels = {}
  NULL = NULL
  MaxCommands = 2
  MaxOwed = 3
SPECIFICATION Spec
INVARIANTS
  GetReplyHasReply
CHECK_DEADLOCK FALSE
