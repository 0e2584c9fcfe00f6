\* Two producers and a single consumer.
CONSTANTS
    p1 = p1  p2 = p2  c1 = c1  c2 = c2
    Producers <- TwoProducers
    Consumers <- OneConsumer
    QUEUESIZE = 2
    WORK_MAX = 5
SPECIFICATION Spec
INVARIANTS
    NoUnderflow
    FlagsExact
    AllWorkDone
PROPERTIES
    ImplementsFifo
    WorkIsServed
