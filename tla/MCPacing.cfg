\* A second of seven nanoseconds: intervals of three and two, cut to whole
\* nanoseconds, and the rate zero, which is not refused.  Three requests of a
\* run, a pause and a second run fit into the time.
SPECIFICATION Spec
CONSTANTS
  Rates = {0, 2, 3}
  InitRps = 2
  NsPerS = 7
  Factors = {1, 3}
  Int64Max = 100
  MaxTime = 6
  MaxSent = 3
INVARIANTS
  TypeOK
  BudgetExact
  NeverEarly
  WaitBounded
\* The scheduler may be stopped, or the bounds reached.
CHECK_DEADLOCK FALSE
