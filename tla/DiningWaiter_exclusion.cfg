CONSTANTS
    NUM_PHILS = 3
    ITERATION_LIMIT = 1
SPECIFICATION Spec
INVARIANT
    NeighboursExclude
