SPECIFICATION FairSpec
CONSTANTS
  Conns = {c1, c2, c3}
  NoConn = NoConn
INVARIANT FrontierUnused
PROPERTY ConversationsEnd
PROPERTY TerminateReturns
CHECK_DEADLOCK FALSE
