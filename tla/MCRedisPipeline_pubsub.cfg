CONSTANTS
  TOPC = 1
  INCRPIPE = 10
  Channels = {c1, c2}
  NULL = NULL
  MaxCommands = 3
  MaxOwed = 2
SPECIFICATION FairSpec
INVARIANTS
  TypeOK
  EnoughReplies
PROPERTIES
  CallsReturn
CHECK_DEADLOCK FALSE
