SPECIFICATION Spec
CONSTANTS
  LastSeg = 2
  Size <- Sizes
  MaxBuffer = 3
  MaxPauses = 1
  MaxLost = 1
INVARIANTS CurPosIsLastByteGiven
CHECK_DEADLOCK FALSE
