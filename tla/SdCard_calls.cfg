\* Every kind of card, answering late, oddly or not at all.
CONSTANTS
  Kinds <- AllKinds
  NBlocks = 3
  BlockBytes = 2
  Values = {0, 1}
  Attempts = 2
  ResetTries = 1
  OddTries = 1
  MaxBlocks = 2
  MaxCalls = 3
  MayFail = TRUE
SPECIFICATION FairSpec
INVARIANT Consistent
INVARIANT Answers
PROPERTY OnlyAsked
PROPERTY CallsEnd
