\* Behaviours end at the bounds.
CHECK_DEADLOCK FALSE
SPECIFICATION Spec
CONSTANTS
    MaxAge = 1
    RatioPart = 100
    CounterPart = 20
    SizeTolerance = 1
    MaxTime = 2
    MaxChanges = 2
    MaxSamples = 2
    MaxFiles = 3
    MaxChecks = 1
INVARIANTS
    NewestSample
    FailHasCause
