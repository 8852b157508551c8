\* Two cores, every call, handles dropped before the next call, unlocked files used alone.
CONSTANTS
  c1 = c1
  c2 = c2
  Cores <- TwoCores
  Calls <- EveryCall
  MaxCalls = 2
  Careful = TRUE
SPECIFICATION FairSpec
INVARIANT Consistent
INVARIANT HangsAreKnown
PROPERTY ReturnsUnlessHung
CHECK_DEADLOCK FALSE
