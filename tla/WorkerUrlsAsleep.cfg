SPECIFICATION MCSpec
CONSTANTS
  Parsers = {p1, p2}
  p1 = p1
  p2 = p2
  NoParser = NoParser
  MIN_BUFFER_SIZE = 1
  MaxUrls = 5
  MaxReply = 2
  MaxFailures = 0
  MaxSpurious = 0
  PAGES_PER_SEND = 2
  MaxPages = 5
  MaxBreaks = 2
  MCParts = {"urls"}
INVARIANTS
  SomeoneAwake
CHECK_DEADLOCK FALSE
