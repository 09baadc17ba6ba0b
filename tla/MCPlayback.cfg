SPECIFICATION FairSpec
CONSTANTS
  LastSeg = 2
  Size <- Sizes
  MaxBuffer = 3
  MaxPauses = 1
  MaxLost = 2
INVARIANTS StorageIsSound CompletedSegmentsAreWhole StreamIsGivenInOrder
PROPERTIES StreamIsPlayed
CHECK_DEADLOCK FALSE
