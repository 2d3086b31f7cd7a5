SPECIFICATION Spec
CONSTANTS
  Tasks = {t1, t2}
  MaxDispatch = 3
  Handles = {h1}
  PaneOf <- OnePane
  Gates = {}
  Questions = {q1}
  Modes = {"local", "federated"}
  OperatorStatuses = {"completed"}
  BreakFailures = 3
  None = None
  h1 = h1
  h1b = h1b
  p1 = p1
  t1 = t1
  t2 = t2
  t3 = t3
  g1 = g1
  g2 = g2
  q1 = q1
SYMMETRY TaskSymmetry
INVARIANTS
  TaskMatchesDispatch
  WorkerMatchesDispatch
  CapabilityFollowsLease
  WithdrawnWorkerHasNoQuestion
  DepsRespected
PROPERTIES
  StopNotRequeued
  CompletedIsFinal
CHECK_DEADLOCK FALSE
