\* A panel of four by two pixels; the picture is filled with black or with a colour.
CONSTANTS
  W = 4
  H = 2
  Colours = {2, 3}
  Fills = {0, 3}
  Span <- Corners
  Handles = {1, 2}
  MaxDraws = 2
  MaxCalls = 2
SPECIFICATION FairSpec
CHECK_DEADLOCK FALSE
INVARIANT Consistent
INVARIANT UpdateShows
PROPERTY RefreshWhole
PROPERTY CallsReturn
