\* A file without a long name and one with a long name are deleted while the directory is listed twice.
CONSTANTS
  n1 = n1
  n2 = n2
  n3 = n3
  n4 = n4
  n5 = n5
  Files <- Names
  Halves <- Sizes
  Chain <- TwoClusters
  Blocks = 2
  Slots = 4
  Images <- TidyOrUsed
  MayFail = TRUE
  Deletable <- ShortAndLong
  MaxLists = 2
SPECIFICATION FairSpec
CHECK_DEADLOCK FALSE
INVARIANT Consistent
 
PROPERTY OthersStay
PROPERTY CallReturns
