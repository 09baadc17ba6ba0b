SPECIFICATION Spec
CONSTANTS
  LastSeg = 3
  Bdelays <- ShortDelays
  Limit = 4
  FetchHeads = FALSE
  MayClose = FALSE
  MaxLost = 1
INVARIANTS LossIsHandled
CHECK_DEADLOCK FALSE
