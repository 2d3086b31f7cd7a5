SPECIFICATION Spec
CONSTANTS
  Protocols = {"settling", "legacy"}
  Kinds = {"succeeded", "failed", "heartbeat"}
  MaxMessages = 2
  MaxReplies = 0
  Quota = 1
  PageSize = 1
  MaxPages = 1
  MaxEpoch = 1
  MaxFaults = 1
  HomeOps = {"stop", "abandon", "show", "retry"}
INVARIANTS
  TypeOK
  OutcomeFromRunHome
  ToldTheVerdict
PROPERTIES
  WithdrawnStays
CHECK_DEADLOCK FALSE
