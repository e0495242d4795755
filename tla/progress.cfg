SPECIFICATION ProgressSpec
CONSTANTS
  Monitors = {m1}
INVARIANTS
  VerdictIsDue
PROPERTIES
  SteadyMonitorSettles
CHECK_DEADLOCK FALSE
