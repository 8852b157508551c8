\* Pictures of every kind, read in pieces of every length, one access failing.
CONSTANTS
  Pictures <- SomePictures
  BufSize = 5
  MaxErrors = 1
SPECIFICATION FairSpec
INVARIANT Consistent
INVARIANT DecodesPicture
INVARIANT PointsInOrder
PROPERTY PictureEnds
CHECK_DEADLOCK FALSE
