SPECIFICATION MCSpec
CONSTANTS
  Keys = {1, 2, 3, 4}
  NoKey = NoKey
  HashOf <- MCHash
  InitialSize = 4
  MaxSize = 16
  NoResult = NoResult
  NoWalk = NoWalk
  Values = {0, 1}
  Default = 0
  Absent = Absent
  NoVal = NoVal
  RehashSizes = {3}
  MaxStore = 3
  PtrVars = {p, q}
  PtrObjects = {a, b, c}
  PtrShares = {s, t}
  Names <- MCNames
  BoldTags = {"b"}
  HTags = {"hr"}
  Title = "title"
  MaxTokens = 5
  Start <- MCStart
  Responses <- MCResponses
  MaxContent = 20
  CR = 17
  LF = 18
  Documents <- MCDocuments
  max_window_size = 4
  TitleSpan = 4
  Wide = 64
  Contained = {1, 2}
  Holders = {"v", "w"}
  NoCell = NoKey
  UnsetItem = NoVal
  NoCall = NoResult
  MaxHeld = 3
INVARIANTS
  TablesSound
  ContainersSound
  FlagsAligned
  DownloadExact
  MergedIsBuilt
  SnippetsShow
PROPERTIES
  ImplementsMaps
  ImplementsSequences
  CallsExact
CHECK_DEADLOCK FALSE
