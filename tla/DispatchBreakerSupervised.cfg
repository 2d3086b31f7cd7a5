SPECIFICATION Spec
CONSTANTS
  Tasks = {t1}
  MaxDispatch = 3
  Handles = {h1}
  PaneOf <- OnePane
  Gates = {}
  Questions = {}
  Modes = {"local"}
  OperatorStatuses = {}
  BreakFailures = 3
  None = None
  h1 = h1
  h1b = h1b
  p1 = p1
  t1 = t1
  t2 = t2
  t3 = t3
  g1 = g1
  g2 = g2
  q1 = q1
INVARIANTS
  CircuitBreaks
CHECK_DEADLOCK FALSE
