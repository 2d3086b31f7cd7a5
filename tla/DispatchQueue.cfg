SPECIFICATION Spec
CONSTANTS
  Tasks = {t1, t2, t3}
  MaxDispatch = 4
  Handles = {h1}
  PaneOf <- OnePane
  Gates = {}
  Questions = {}
  Modes = {"context"}
  OperatorStatuses = {"completed", "failed"}
  BreakFailures = 3
  None = None
  h1 = h1
  h1b = h1b
  p1 = p1
  t1 = t1
  t2 = t2
  t3 = t3
  g1 = g1
  g2 = g2
  q1 = q1
SYMMETRY TaskSymmetry
INVARIANTS
  NoStrandedTask
  CircuitBreaks
CHECK_DEADLOCK FALSE
