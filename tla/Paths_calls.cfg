\* Two calls with paths of up to four directories and a name, any access failing.
CONSTANTS
  Trees <- SomeTrees
  Routes <- SomeRoutes
  Asked <- SomeNames
  BaseSize = 2
  ExtSize = 1
  Capital <- Small
  Unfit <- Odd
  Modes <- SomeModes
  MaxCalls = 3
  MayFail = TRUE
SPECIFICATION FairSpec
INVARIANT Consistent
INVARIANT FindsNamed
INVARIANT HonoursMode
INVARIANT ReachableWhole
PROPERTY LeavesRest
PROPERTY CallReturns
CHECK_DEADLOCK FALSE
