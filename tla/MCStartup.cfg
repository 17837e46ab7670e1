\* Two workers with two connections each: four lookups with up to three
\* attempts, and connections that are ready, not ready yet or fail when asked.
SPECIFICATION Spec
CONSTANTS
  NumWorkers = 2
  NumConnections = 2
  Cores = 2
  Flags <- MCFlags
  Answers = {"ready", "notReady", "throws"}
INVARIANTS
  TypeOK
  StartedWhole
PROPERTY
  GivesUpOnlyAfterThree
\* Starting ends, in one way or the other.
CHECK_DEADLOCK FALSE
