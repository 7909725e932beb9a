\* The callers stop after MaxCalls calls: the end of a behaviour is not an error.
CHECK_DEADLOCK FALSE
SPECIFICATION Spec
CONSTANTS
  c1 = c1
  c2 = c2
  s1 = s1
  s2 = s2
  Clients <- TwoClients
  Sets <- OneSet
  Concurrency = 1
  Durations = {FALSE}
  MaxCalls = 4
INVARIANTS
  StopSavesResults
