SPECIFICATION MCSpec
CONSTANTS
  NumFrontierBins = 1
  Urls = {1, 2, 3}
  HashBin <- MCBin
  HashBits <- MCBits
  Handlers = {h1, h2}
  NumPicks = 2
  MaxLinks = 2
  MaxAdds = 2
  MaxSpurious = 1
  FileUrls = {1, 2, 3}
  FileBins = {1, 2}
  FileBinOf <- MCFileBin
  numHashes = 2
  FileBitsOf <- MCFileBits
  Segments = 2
  MaxUrls = 3
  MaxCrashes = 1
  MCParts = {"threads", "files"}
SYMMETRY Alike
INVARIANT AtMostOnce
INVARIANT NothingForgotten
INVARIANT GivenUrlsKept
INVARIANT FilesHold
PROPERTY SeenRestored
CHECK_DEADLOCK FALSE
