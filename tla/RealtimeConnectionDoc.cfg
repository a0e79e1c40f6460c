SPECIFICATION Spec
CONSTANTS
  Loaded = {TRUE}
  MaxSockets = 5
  MaxDisturbances = 2
INVARIANTS
  SuspendedWhileHidden
CHECK_DEADLOCK FALSE
