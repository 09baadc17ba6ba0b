SPECIFICATION InputSpec
CONSTANTS
  Budget <- MCBudget
  AttributesOf <- MCAttributesOf
  TextIn = {"BaseURL", "Title"}
  MaxElements = 6
  MaxStray = 1
  MaxTexts = 1
  BandWidths = {1, 2}
  Resolutions <- MCResolutions
  Durations = {2, 3}
  TimeScales = {2}
  SegmentURLs = {0, 2}
  VideoDurations = {3, 7}
  Screens <- MCScreens
  MaxRepresentations = 2
  Second = 2
  MaxInt = 127
  Answers <- MCAnswers
  MaxAnswers = 2
  ReadSize = 8
  MaxHeader = 14
  MinValue = 0
  MaxValue = 9
  LastTick = 3
  Sizes = {1, 2}
  MaxRequests = 2
  Levels = {0, 1, 2}
  MaxPushes = 4
  Window = 1
  Lengths <- MCLengths
  Addresses <- MCAddresses
  Times <- MCTimes
  Inexact <- MCInexact
  Capacities = {1, 2, 3}
  MaxAppends = 6
  DT = 3
  Ticks = {1, 2, 4, 6, 7, 12, 14}
  ChunkSizes = {55, 108}
  MaxChunks = 3
  MaxGETs = 3
  NumBins = 3
  Below <- MCBelow
  Above <- MCAbove
INVARIANTS
  InputTypeOK
  AnswersAreCutRight
  EndsByAnswersOrShortRead
  ParserFollowsReader
  ModelIsDocument
  RatesMatchTheResolution
  SegmentsTileTheVideo
  MeasuredRatesAreRight
  MinimaNeverFell
  ConversionsAreRight
  BufferIsQueue
  SamplesAreRight
CHECK_DEADLOCK FALSE
