SPECIFICATION MCSpec
CONSTANTS
  FileNames = {"a", "b"}
  Lengths = {0, 1, 2}
  FileSize = 2
  MaxOpens = 3
  Csvs = {1, 2}
  Documents <- MCDocuments
  MaxAssigns = 1
  Streams <- MCStreams
  ReadSize = 3
  Slack = 1
  Addresses = {p, q}
  Names = {"a", "b"}
  MaxGen = 3
  MaxDepth = 2
  MaxVers = 4
  Keys = {"1", "a"}
  MaxEvents = 7
  Letters = {"x"}
  NULL = NULL
INVARIANTS
  FilesListed
  ReadAsWritten
  TreeOfDocument
  TokensOfDocuments
  VariablesOfToken
CHECK_DEADLOCK FALSE
