SPECIFICATION Spec
CONSTANTS
  Tasks = {t1, t2}
  MaxDispatch = 2
  Handles = {h1, h1b}
  PaneOf <- RemintPanes
  Gates = {g1}
  Questions = {}
  Modes = {"context", "local"}
  OperatorStatuses = {"completed", "failed", "ready", "blocked"}
  BreakFailures = 3
  None = None
  h1 = h1
  h1b = h1b
  p1 = p1
  t1 = t1
  t2 = t2
  t3 = t3
  g1 = g1
  g2 = g2
  q1 = q1
SYMMETRY TaskSymmetry
INVARIANTS
  TypeOK
  ActiveIsLatest
  OneActivePerPane
  TaskMatchesDispatch
PROPERTIES
  ImplementsLease
CHECK_DEADLOCK FALSE
