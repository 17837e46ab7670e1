\* One thread: the call that arms the timer is followed by a check.
SPECIFICATION Spec
CONSTANTS
  Clients = {c1}
  Keys = {"watchdog_sec", "k"}
  Durations = {0, 1}
  RequireConfiguration = TRUE
  EnableWatchdog = TRUE
  WaitForRunnerReady = TRUE
  StartTime = 10
  MaxCalls = 2
  MaxTime = 2
INVARIANT
  NoFalseTimeout
\* The service may be idle when the bounds on calls and time are reached.
CHECK_DEADLOCK FALSE
