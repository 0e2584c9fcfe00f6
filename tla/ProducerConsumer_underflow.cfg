\* Two consumers: the second may pass its test while the first removes the last item.
CONSTANTS
    p1 = p1  p2 = p2  c1 = c1  c2 = c2
    Producers <- TwoProducers
    Consumers <- TwoConsumers
    QUEUESIZE = 2
    WORK_MAX = 2
SPECIFICATION Spec
SYMMETRY ThreadSymmetry
INVARIANT NoUnderflow
