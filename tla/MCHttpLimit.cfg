SPECIFICATION Spec
CONSTANTS
  NumReqs = 5
  Payload <- OneUnit
  Heads = {}
  Unpipelined = {1, 4}
  MaxPendingRequests = 3
  ServerLimit = 3
  KnownLimit <- Unknown
  SuddenClose = TRUE
  MaxOutstanding = 4
INVARIANTS TypeOK EventfdCountsNewReqs EveryRequestAccountedFor SentRequestsComeFirst LimitsRespected MismatchNeedsPipelining
CHECK_DEADLOCK FALSE
