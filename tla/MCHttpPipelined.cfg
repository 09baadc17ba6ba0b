SPECIFICATION FairSpec
CONSTANTS
  NumReqs = 5
  Payload <- OneOrTwoUnits
  Heads = {2}
  Unpipelined = {}
  MaxPendingRequests = 0
  ServerLimit = 7
  KnownLimit = 7
  SuddenClose = FALSE
  MaxOutstanding = 4
INVARIANTS AnswersOwnRequest
PROPERTIES ImplementsFifo RequestsAreSettled
CHECK_DEADLOCK FALSE
