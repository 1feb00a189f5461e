CONSTANTS
  ArrayLengths = {0, 1, 24}
  OptionWords = {0, 2, 21}
  NULL = NULL
SPECIFICATION Spec
INVARIANTS
  ArgvWithinBlock
  ArgumentsFit
  NothingLeaked
  RepliesStored
  ErrorsReported
  AlwaysAnswers
