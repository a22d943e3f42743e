SPECIFICATION MCSpec
CONSTANTS
  Results = {1, 2, 3, 4, 5}
  Rank <- MCRank
  N = 2
  Threads = {t1, t2, t3}
  LocalMode = FALSE
  NoResult = NoResult
  NoAnswer = NoAnswer
  Kinds = {"results", "empty", "next", "previous", "cut"}
  MaxRequests = 4
  WebThreads = {1, 2}
  Sizes = {0, 3}
  numResults = 2
  SizeMod = 16
INVARIANTS
  KeepsTop
  SentInOrder
  RowsShown
PROPERTIES
  ImplementsTopN
  RequestsEnd
