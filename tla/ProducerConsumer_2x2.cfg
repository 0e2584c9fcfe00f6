\* Two producers and two consumers, a buffer smaller than the work.
CONSTANTS
    p1 = p1  p2 = p2  c1 = c1  c2 = c2
    Producers <- TwoProducers
    Consumers <- TwoConsumers
    QUEUESIZE = 2
    WORK_MAX = 3
SPECIFICATION Spec
INVARIANTS
    TypeOK
    OvershootBounded
    TokenAccounting
    NobodyQuitsEarly
    NoOverwrite
    BufferHoldsUnread
PROPERTY
    Termination
