\* One thread: resume2 where resume would have refused or done nothing.
SPECIFICATION Spec
CONSTANTS
  Clients = {c1}
  Keys = {"watchdog_sec", "k"}
  Durations = {0, 1}
  RequireConfiguration = TRUE
  EnableWatchdog = TRUE
  WaitForRunnerReady = TRUE
  StartTime = 10
  MaxCalls = 2
  MaxTime = 0
PROPERTY
  Resume2IsResume
\* The service may be idle when the bounds on calls and time are reached.
CHECK_DEADLOCK FALSE
