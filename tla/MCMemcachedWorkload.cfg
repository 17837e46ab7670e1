\* Three keys on two connections, up to three requests in flight, two resets.
SPECIFICATION Spec
CONSTANTS
  NumKeys = 3
  NumConnections = 2
  MaxInFlight = 3
  MaxResets = 2
INVARIANTS
  TypeOK
  MissExplained
PROPERTY
  WarmupEnds
