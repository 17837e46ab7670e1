\* One worker with two connections, any stream of five messages, a limit that
\* may be lowered below or raised above the one it started with.
SPECIFICATION Spec
CONSTANTS
  NumWorkers = 1
  NumConnections = 2
  WorkerLimit = 1
  Limits = {0, 2}
  Phases = {warm}
  NoData = NoData
  FiniteWorkload = TRUE
  Failures = {TRUE, FALSE}
  Samples = {TRUE, FALSE}
  MaxQueue = 5
INVARIANTS
  TypeOK
  SlotsExact
  NothingAfterStop
  CountedOnce
  DrawsInStep
PROPERTIES
  SendsBelowLimit
  WorkerExits
\* The worker may be stopped, or idle with nothing more put on its queue.
CHECK_DEADLOCK FALSE
