\* One worker, no control calls: a reply that comes during the shutdown delay.
SPECIFICATION Spec
CONSTANTS
  NumWorkers = 1
  NumConnections = 1
  Callers = {}
  Phases = {warm}
  Limits = {2}
  Rates = {10}
  InitRps = 10
  InitMaxOutstanding = 2
  WaitForRunnerReady = FALSE
  FiniteWorkload = FALSE
  Failures = {TRUE, FALSE}
  Samples = {FALSE}
  ShutdownDelay = 1
  NoData = NoData
  MaxCalls = 0
  MaxQueue = 2
INVARIANT
  StatsStored
