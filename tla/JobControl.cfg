\* Three children: two jobs that end together and a foreground command, or a pipeline.
CONSTANTS
    MaxChildren = 3
    StrayId = 0
SPECIFICATION Spec
INVARIANTS
    TypeOK
    RunningAreListed
    IdsIncrease
PROPERTIES
    UpdateIsComplete
    ForegroundReturns
