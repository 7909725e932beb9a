\* Requests stop after MaxCalls: the end of a behaviour is not an error.
CHECK_DEADLOCK FALSE
SPECIFICATION FairSpec
CONSTANTS
  Handlers = {h1, h2}
  Levels = {"high"}
  ImageLabels = {TRUE, FALSE}
  MaxCalls = 3
  MaxFaults = 1
INVARIANTS
  NothingLost
  LevelApplied
PROPERTIES
  ComesBack
