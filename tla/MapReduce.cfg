CONSTANTS
  NWorkers = 2
  NJobs = 3
SPECIFICATION Spec
INVARIANTS
  WorkersAreAccountedFor
  PanicsOnlyWithoutWorkers
  RerunsCostWorkers
  SleepsOnlyAfterFailures
PROPERTIES
  ImplementsReduceOnce
  RunEndsOrStarves
CHECK_DEADLOCK FALSE
