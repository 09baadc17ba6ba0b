SPECIFICATION FairSpec
CONSTANTS
  LastSeg = 3
  Bdelays <- ShortDelays
  Limit = 4
  FetchHeads = FALSE
  MayClose = FALSE
  MaxLost = 0
PROPERTIES DelayedRequestsAreReleased
CHECK_DEADLOCK FALSE
