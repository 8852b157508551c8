\* Two partitions of every kind of card, and the places of up to three clusters.
CONSTANTS
  Cards <- SomeCards
  Indexes = {0, 1, 2, 4}
  MaxCalls = 2
  MaxPlaces = 3
  MayFail = TRUE
SPECIFICATION Spec
CHECK_DEADLOCK FALSE
INVARIANT Consistent
INVARIANT PlacesApart
