SPECIFICATION FairSpec
CONSTANTS
  Workers = {w1, w2}
  MaxConns = 2
  MaxQueries = 2
  MaxPages = 1
  MaxFd = 5
  TableSize = 5
  HashOf <- MCHash
  NoKey = NoKey
  NoConn = NoConn
  NoAnswer = NoAnswer
INVARIANTS
  SetOfSockets
  AnswersComplete
PROPERTIES
  QueriesEnd
CHECK_DEADLOCK FALSE
