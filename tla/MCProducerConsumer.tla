------------------------- MODULE MCProducerConsumer -------------------------
(***************************************************************************)
(* Instances of ProducerConsumer for TLC.                                    *)
(***************************************************************************)
EXTENDS ProducerConsumer, TLC

CONSTANTS p1, p2, c1, c2

TwoProducers == {p1, p2}
TwoConsumers == {c1, c2}
OneConsumer == {c1}

\* The threads of a kind are interchangeable: used by the runs without liveness.
ThreadSymmetry == Permutations(Producers) \cup Permutations(Consumers)

=============================================================================
