\* The callers stop after MaxCalls calls: the end of a behaviour is not an error.
CHECK_DEADLOCK FALSE
SPECIFICATION FairSpec
CONSTANTS
  c1 = c1
  c2 = c2
  Clients <- TwoClients
  Faults <- NetworkFaults
  Resets = {FALSE}
  MaxCalls = 3
  MaxWrites = 1
  MaxSamples = 0
INVARIANTS
  RunningIsNewest
PROPERTIES
  ImplementsLedger
  CallsReturn
