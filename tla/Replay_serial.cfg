\* The caller stops after MaxCalls calls: the end of a behaviour is not an error.
CHECK_DEADLOCK FALSE
SPECIFICATION FairSpec
CONSTANTS
  c1 = c1
  c2 = c2
  s1 = s1
  s2 = s2
  Clients <- OneClient
  Sets <- TwoSets
  Concurrency = 2
  Durations = {FALSE}
  MaxCalls = 4
INVARIANTS
  OwnCounts
  NoneLost
  StopSavesResults
  Stoppable
PROPERTIES
  DrainAfterStop
