\* Two workers with two additions each against one print().
SPECIFICATION Spec
CONSTANTS
  Workers = {w1, w2}
  Subkeys = {"io", "timeout"}
  Amounts = {1}
  None = None
  MaxAdds = 2
INVARIANTS
  TypeOK
  NothingAside
  LostOnlyByOverlap
  PrintExplained
\* The workers stop adding when the bound is reached.
CHECK_DEADLOCK FALSE
