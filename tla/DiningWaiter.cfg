\* Four philosophers: neighbours and an opposite one, each chopstick has two users.
CONSTANTS
    NUM_PHILS = 4
    ITERATION_LIMIT = 1
SPECIFICATION Spec
INVARIANTS
    TypeOK
    NoChopstickLost
    NoLostWakeup
PROPERTY
    Termination
