\* Two workers, one pane, two processes, one restart: creation, transfer and reuse of a
\* terminal against release, retention, user input, exits and recovery.
SPECIFICATION Spec
CONSTANTS
  Dispatches = {d1, d2}
  Terminals = {t1}
  MaxIncarnation = 2
  MaxProbes = 1
  MaxBoots = 2
INVARIANTS
  TypeOK
  PendingReleaseIsIdle
  CloseHoldsTerminal
  ReleasedMeansGone
PROPERTIES
  UserDecisionStands
SYMMETRY Symmetry
CHECK_DEADLOCK FALSE
