SPECIFICATION MCFairSpec
CONSTANTS
  NumFrontierBins = 2
  Urls = {1}
  HashBin <- MCBin
  HashBits <- MCBits
  Handlers = {h1}
  NumPicks = 0
  MaxLinks = 1
  MaxAdds = 2
  MaxSpurious = 0
  FileUrls = {1}
  FileBins = {1, 2}
  FileBinOf <- MCFileBin
  numHashes = 2
  FileBitsOf <- MCFileBits
  Segments = 2
  MaxUrls = 3
  MaxCrashes = 1
  MCParts = {"threads"}
PROPERTY ShutdownQuiesces
PROPERTY LaterAddRescues
PROPERTY ParkedShutdownReturns
CHECK_DEADLOCK FALSE
