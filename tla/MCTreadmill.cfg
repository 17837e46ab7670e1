\* Started RUNNING; two workers, of which either may run out of work, a control
\* thread with one call (a pause, a limit, a rate of 0) before, during or after
\* the shutdown, two passes of the drain loop, a limit that does not divide evenly.
SPECIFICATION Spec
CONSTANTS
  NumWorkers = 2
  NumConnections = 1
  Callers = {c1}
  Phases = {}
  Limits = {3}
  Rates = {0, 10}
  InitRps = 10
  InitMaxOutstanding = 3
  WaitForRunnerReady = FALSE
  FiniteWorkload = TRUE
  Failures = {FALSE}
  Samples = {FALSE}
  ShutdownDelay = 2
  NoData = NoData
  MaxCalls = 1
  MaxQueue = 2
INVARIANTS
  TypeOK
  NoOrphanedWorker
  DrainedAtPrint
  LimitInForce
  StaysStopping
PROPERTY
  RunCompletes
