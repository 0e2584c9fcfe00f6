---------------------------- MODULE PriorityList ----------------------------
(***************************************************************************)
(* What the comments of libpriqueue.c (Lab08) promise: a list of elements, *)
(* ordered by priority, elements of equal priority in the order of their   *)
(* arrival, and what every call returns.                                   *)
(***************************************************************************)
EXTENDS Integers, Sequences, FiniteSets

Seqs == INSTANCE SequencesExt

CONSTANTS Elements,    \* what may be offered
          Priority,    \* a function: the smaller, the nearer to the front
          Nothing      \* returned for an element that is not there

VARIABLES list,        \* the elements, front first
          out          \* what the last call returned

vars == <<list, out>>

Init == list = <<>> /\ out = Nothing

\* Behind everything that does not have a lower priority.
Offer(e) ==
    LET ahead == Cardinality({k \in DOMAIN list : Priority[list[k]] <= Priority[e]})
    IN  /\ list' = Seqs!InsertAt(list, ahead + 1, e)
        /\ out' = ahead

ElementAt(i) == IF i + 1 \in DOMAIN list THEN list[i + 1] ELSE Nothing

At(i) == out' = ElementAt(i) /\ UNCHANGED list

Poll ==
    /\ out' = ElementAt(0)
    /\ list' = IF list = <<>> THEN list ELSE Tail(list)

Remove(e) ==
    /\ list' = Seqs!FoldLeft(LAMBDA kept, x : IF x = e THEN kept ELSE Append(kept, x), <<>>, list)
    /\ out' = Len(list) - Len(list')

RemoveIndex(i) ==
    /\ out' = ElementAt(i)
    /\ list' = IF i + 1 \in DOMAIN list THEN Seqs!RemoveAt(list, i + 1) ELSE list

Next ==
    \/ \E e \in Elements : Offer(e) \/ Remove(e)
    \/ Poll
    \/ \E i \in -1 .. Len(list) + 1 : At(i) \/ RemoveIndex(i)

Spec == Init /\ [][Next]_vars
=============================================================================
