CONSTANTS
  BitRates <- TwoRates
  LastSeg = 5
  Duration <- ShortEnd
  MaxDuration = 2
  Bmin = 1
  Blow = 2
  Bhigh = 4
  Alfa <- DefaultAlfa
  NoDelay = 100
  MinValue <- Lowest
  MaxValue = 100
  Rates = {1, 4, 6}
  MaxTime = 3
  MaxEvents = 0
SPECIFICATION Spec
INVARIANTS TypeOK BufferBounded AssertionsHold QualityWasAffordable
CHECK_DEADLOCK FALSE
