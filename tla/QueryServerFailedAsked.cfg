SPECIFICATION Spec
CONSTANTS
  Workers = {w1, w2}
  MaxConns = 2
  MaxQueries = 2
  MaxPages = 1
  MaxFd = 5
  TableSize = 5
  HashOf <- MCSpread
  NoKey = NoKey
  NoConn = NoConn
  NoAnswer = NoAnswer
INVARIANTS
  FailedRemoved
CHECK_DEADLOCK FALSE
