\* One settled worker whose terminal is used by an injected dispatch.
SPECIFICATION Spec
CONSTANTS
  Dispatches = {d1}
  Terminals = {t1}
  MaxIncarnation = 1
  MaxProbes = 1
  MaxBoots = 1
INVARIANT
  ReleaseSparesInjected
CHECK_DEADLOCK FALSE
