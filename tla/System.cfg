SPECIFICATION FairSpec
CONSTANTS
  left = left
  right = right
  NB_BRICKS = 1
  DEPTH = 2
  Positions = {left, right}
  START = left
INVARIANTS
  TypeOK
  PictureIsExact
  PicturesFollow
PROPERTIES
  CarriesMessages
  LoadsFinishedPicture
  EndReachesMonitor
