\* Appends of up to five bytes to files of one and of three clusters.
CONSTANTS
  Clusters <- SixClusters
  BlockSize = 2
  Blocks = 2
  Images <- Ordinary
  MaxLen = 5
  MaxCalls = 2
  MayFail = TRUE
  Careful = TRUE
SPECIFICATION FairSpec
INVARIANT Consistent
PROPERTY OnlyOwn
PROPERTY WriteReturns
