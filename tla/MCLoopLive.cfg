SPECIFICATION FairSpec
CONSTANTS
  LastSeg = 2
  Bdelays <- ShortDelays
  Limit = 6
  FetchHeads = TRUE
  MayClose = FALSE
  MaxLost = 2
INVARIANTS SizesAreKnown
PROPERTIES StreamIsDownloaded
CHECK_DEADLOCK FALSE
