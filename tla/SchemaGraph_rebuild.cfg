\* The callers stop after MaxCalls calls: the end of a behaviour is not an error.
CHECK_DEADLOCK FALSE
SPECIFICATION Spec
CONSTANTS
  a = a
  b = b
  c = c
  c1 = c1
  c2 = c2
  Tables <- ThreeTables
  Schemas <- SomeSchemas
  Clients <- TwoClients
  MaxCalls = 2
  MaxMigrations = 1
  MaxRestarts = 1
SYMMETRY CallerSymmetry
INVARIANTS
  GraphOfBuilds
  CacheTrue
  LevelOrder
  PlanComplete
