SPECIFICATION ControllerSpec
CONSTANTS
  Callers = {c1, c2, c3}
  Values = {0, 1, 2}
  RollMin = 2
  Coerce <- Rounded
  Workloads <- MainLoads
SYMMETRY AnyCaller
INVARIANTS
  SettledAgrees
  ShownIsNewest
PROPERTIES
  TimebaseKeepsRun
\* The bounds of a workload end the behavior.
CHECK_DEADLOCK FALSE
