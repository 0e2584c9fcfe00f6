CONSTANTS
    MaxChildren = 2
    StrayId = 0
SPECIFICATION Spec
INVARIANT ListsRunning
