\* A pause and a resume that both fall inside one iteration of the loop.
SPECIFICATION Spec
CONSTANTS
  NumWorkers = 1
  Callers = {c1}
  Phases = {warm}
  Limits = {2}
  Rates = {10}
  InitRps = 10
  InitMaxOutstanding = 2
  WaitForRunnerReady = FALSE
  NoData = NoData
  MaxCalls = 2
  MaxQueue = 4
PROPERTY
  ResetAfterResume
CHECK_DEADLOCK FALSE
