\* A request of each kind, two of them at a time, four calls between them, a ledger of one row.
SPECIFICATION Spec
CONSTANTS
  Requests = {"runCreate", "groupSend", "workerRelease", "dispatchInject", "workerStop", "workerStart"}
  NoRequest = NoRequest
  Kind <- KindOfRequest
  MaxRows = 1
  PruneBatch = 1
  MaxCalls = 4
  MaxBoots = 2
CONSTRAINT TwoAtATime
INVARIANTS TypeOK EffectOnce EffectRemembered SameAnswer
CHECK_DEADLOCK FALSE
