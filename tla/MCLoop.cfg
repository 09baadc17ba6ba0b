SPECIFICATION Spec
CONSTANTS
  LastSeg = 5
  Bdelays <- ShortDelays
  Limit = 4
  FetchHeads = FALSE
  MayClose = TRUE
  MaxLost = 2
INVARIANTS DownloadsInOnePlace OnlyLossOrCloseEndsTheProcess
PROPERTIES DownloadsInOrder
CHECK_DEADLOCK FALSE
