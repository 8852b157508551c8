\* The first write to an empty file.
CONSTANTS
  Clusters <- SixClusters
  BlockSize = 2
  Blocks = 2
  Images <- EmptyFile
  MaxLen = 5
  MaxCalls = 2
  MayFail = FALSE
  Careful = FALSE
SPECIFICATION Spec
PROPERTY OnlyOwn
