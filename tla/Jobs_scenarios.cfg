\* Scenarios are started MaxJobs times: the end of a behaviour is not an error.
CHECK_DEADLOCK FALSE
SPECIFICATION FairSpec
CONSTANTS
  t1 = t1
  NoTab = NoTab
  Tabs <- OneTab
  Pressed <- TwoButtons
  Requested <- OtherScenarios
  Rows = 3
  BatchSize = 2
  Sizes <- EmptyOrTwo
  Counts <- StrangeCounts
  Steps = 1
  Plan <- TwoTables
  Rematch = {TRUE, FALSE}
  Faults <- AllFaults
  MaxJobs = 2
  MaxTotal = 2
INVARIANTS
  ReportInBounds
  RunningIsRun
  OneScenario
PROPERTIES
  JobSealed
  TasksEnd
