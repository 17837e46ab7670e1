\* Two control threads with three calls between them against the loop and stop: a
\* pause, a resume and a change of rate fit in one behaviour, and a second run
\* starts; two changes of the limit may overlap, and a third one follow them; a
\* rate of 0 may leave the loop in a wait without end.
SPECIFICATION Spec
CONSTANTS
  NumWorkers = 2
  Callers = {c1, c2}
  Phases = {warm}
  Limits = {1, 2}
  Rates = {0, 10}
  InitRps = 10
  InitMaxOutstanding = 2
  WaitForRunnerReady = TRUE
  NoData = NoData
  MaxCalls = 3
  MaxQueue = 4
INVARIANTS
  TypeOK
  Balanced
  StopIsLast
  AtMostOneLate
  AtMostTwoStale
  LimitAgreement
  PromiseMeansStopSent
PROPERTIES
  ImplementsStream
  StopTerminates
\* The system may stop: after the loop ended nobody need call again.
CHECK_DEADLOCK FALSE
