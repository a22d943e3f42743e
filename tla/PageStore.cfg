SPECIFICATION FairSpec
CONSTANTS
  Parsers = {p1, p2}
  p1 = p1
  p2 = p2
  Pools = {{p1}, {p1, p2}}
  Main = Main
  numPages = 2
  MaxPages = 3
  MaxShared = 2
  MaxBins = 2
  MaxUpsets = 1
INVARIANTS
  PagesPlaced
  CountIsCrashSafe
PROPERTIES
  StoredStays
  AddedStored
  ShutdownReturns
CHECK_DEADLOCK FALSE
