----------------------------- MODULE MCPriQueue -----------------------------
(***************************************************************************)
(* Instances of PriQueue for TLC.                                          *)
(***************************************************************************)
EXTENDS PriQueue

CONSTANTS a, b, c

ThreeElements == {a, b, c}

\* a and b have the same priority and point to different ints.
TwoLevels == [e \in Elements |-> IF e = c THEN 1 ELSE 2]
DifferentInts == [e \in Elements |-> CASE e = a -> 1 [] e = b -> 2 [] OTHER -> 3]

=============================================================================
