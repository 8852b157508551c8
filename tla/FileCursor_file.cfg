\* A File on a device whose reads may fail, its chain too short for its size, and
\* a Reader of it where the device works and the chain is long enough.
CONSTANTS
  Chain <- ThreeClusters
  Size = 13
  BlockSize = 2
  Blocks = 2
  PerFat = 4
  MaxLen = 3
  MayFail = TRUE
  Careful = TRUE
SPECIFICATION FairSpec
INVARIANT Consistent
PROPERTY RefinesByteFile
PROPERTY ReadReturns
