\* Growth, truncation, deletion and flush of two files; failures and a loss of power.
CONSTANTS
  f1 = f1
  f2 = f2
  Files <- TwoFiles
  LongNamed <- LongOnly
  PerSector = 4
  End = 7
  Images <- SomeVolumes
  MaxCrashes = 1
  MayFail = TRUE
SPECIFICATION FairSpec
INVARIANT Consistent
PROPERTY OthersUntouched
PROPERTY OperationsEnd
CHECK_DEADLOCK FALSE
