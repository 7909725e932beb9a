\* The callers stop after MaxCalls calls: the end of a behaviour is not an error.
CHECK_DEADLOCK FALSE
SPECIFICATION Spec
CONSTANTS
  c1 = c1
  c2 = c2
  Clients <- OneClient
  Faults <- LocalFaults
  Resets = {TRUE, FALSE}
  MaxCalls = 2
  MaxWrites = 1
  MaxSamples = 1
INVARIANTS
  DeltaMeaningful
  StartsFromBaseline
PROPERTIES
  HistorySealed
