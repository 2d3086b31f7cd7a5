\* One report, one lost answer: the repeated acknowledgment is refused for ever.
SPECIFICATION RelaySpec
CONSTANTS
  Protocols = {"settling"}
  Kinds = {"succeeded"}
  MaxMessages = 1
  MaxReplies = 0
  Quota = 1
  PageSize = 2
  MaxPages = 1
  MaxEpoch = 1
  MaxFaults = 1
  HomeOps = {}
PROPERTIES
  PollingEnds
CHECK_DEADLOCK FALSE
