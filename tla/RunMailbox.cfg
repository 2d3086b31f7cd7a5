SPECIFICATION Spec
CONSTANTS
  Panes = {p1, p2}
  Calls = {c1, c2}
  Types = {"worker_done", "status"}
  Filters = {{"worker_done"}}
  BatchLimit = 1
  MaxRows = 2
  MaxGeneration = 2
  MaxBoots = 2
SYMMETRY Symmetry
INVARIANTS
  TypeOK
  OneOutstanding
  HandedOutOnce
  OldestFirst
  WaiterNotMissed
PROPERTIES
  AckedByItsReader
CHECK_DEADLOCK FALSE
