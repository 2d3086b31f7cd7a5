SPECIFICATION RelaySpec
CONSTANTS
  Protocols = {"settling", "legacy"}
  Kinds = {"succeeded", "question"}
  MaxMessages = 2
  MaxReplies = 1
  Quota = 2
  PageSize = 1
  MaxPages = 2
  MaxEpoch = 2
  MaxFaults = 2
  HomeOps = {}
INVARIANTS
  ImportedInOrder
  ReleasedOnceImported
  AnswersAgree
PROPERTIES
  ImplementsChannel
  ReportsAnswered
CHECK_DEADLOCK FALSE
