\* Two server threads with three calls between them, two seconds.
SPECIFICATION Spec
CONSTANTS
  Clients = {c1, c2}
  Keys = {"watchdog_sec", "k"}
  Durations = {0, 1}
  RequireConfiguration = TRUE
  EnableWatchdog = TRUE
  WaitForRunnerReady = TRUE
  StartTime = 10
  MaxCalls = 3
  MaxTime = 2
INVARIANTS
  TypeOK
  
PROPERTY
  ResumeIsConfigured
\* The service may be idle when the bounds on calls and time are reached.
CHECK_DEADLOCK FALSE
