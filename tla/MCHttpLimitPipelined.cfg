SPECIFICATION Spec
CONSTANTS
  NumReqs = 3
  Payload <- OneUnit
  Heads = {}
  Unpipelined = {}
  MaxPendingRequests = 0
  ServerLimit = 3
  KnownLimit <- Unknown
  SuddenClose = FALSE
  MaxOutstanding = 2
INVARIANTS LastAnswerCloses
CHECK_DEADLOCK FALSE
