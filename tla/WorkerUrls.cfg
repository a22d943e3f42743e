SPECIFICATION MCFairSpec
CONSTANTS
  Parsers = {p1, p2}
  p1 = p1
  p2 = p2
  NoParser = NoParser
  MIN_BUFFER_SIZE = 1
  MaxUrls = 3
  MaxReply = 2
  MaxFailures = 1
  MaxSpurious = 1
  PAGES_PER_SEND = 2
  MaxPages = 5
  MaxBreaks = 2
  MCParts = {"urls", "pages"}
INVARIANTS
  RequestsGuarded
  TransfersKept
PROPERTIES
  ParsersReturn
CHECK_DEADLOCK FALSE
