\* Three philosophers, an odd number as in the program: two even neighbours lock
\* the chopstick between them in different places of their order.
CONSTANTS
    NUM_PHILS = 3
    ITERATION_LIMIT = 2
SPECIFICATION Spec
INVARIANTS
    TypeOK
    LockedIsHeld
    NeighboursExclude
    SomebodyMoves
PROPERTY
    Termination
