SPECIFICATION SourcesSpec
CONSTANTS
  a = a
  b = b
  infra = infra
  Hostnames = {a, b, infra}
  Infrastructure = {infra}
  Wanted = 2
  AnswerItems <- MCItems
  MaxItems = 2
  Queries = 2
  MaxRecords = 1
  PerPage = 2
  MaxPages = 3
  Offset = 1
  Tokens = {t1, t2}
  PageLimit = 3
  LogLists <- MCLogLists
  FreshWindow = 2
  TreeSizes = {0, 1, 5}
  EntriesPerPage = 2
  Overfetch = 2
CHECK_DEADLOCK FALSE
INVARIANTS
  StreamsUntilDone
  RequestsBounded
