\* Sleeps that are longer than the transfers that set them up.
CONSTANTS
  Presses = {"External"}
  Naps = {2}
  Start = 52
  LastCall = 54
  Horizon = 66
  MaxCalls = 3
  TicksPerCall = 1
  MayFail = TRUE
SPECIFICATION FairSpec
CHECK_DEADLOCK FALSE
INVARIANT Consistent
INVARIANT SleepIsSafe
PROPERTY WakesWhenAsked
PROPERTY SleepEnds
