---------------------------- MODULE BoundedFifo ----------------------------
(***************************************************************************)
(* What the shared queue of Lab07 promises the program around it, without  *)
(* threads, locks or semaphores: items numbered 0, 1, 2, ... are put at    *)
(* the back of a line of at most Capacity items and taken from its front,  *)
(* every item once and in order.                                           *)
(***************************************************************************)
EXTENDS Naturals, Sequences

CONSTANTS Capacity,   \* places in the line
          Nothing     \* what a taker holds before it took its first item

VARIABLES line,       \* the items put and not yet taken, oldest first
          put,        \* how many items were put so far
          taken,      \* how many items were taken so far
          last        \* the item taken last

vars == <<line, put, taken, last>>

Init ==
    /\ line = <<>>
    /\ put = 0
    /\ taken = 0
    /\ last = Nothing

\* The next item joins the line; it is numbered by how many came before it.
Put ==
    /\ Len(line) < Capacity
    /\ line' = Append(line, put)
    /\ put' = put + 1
    /\ UNCHANGED <<taken, last>>

\* The oldest item leaves the line: never before it was put.
Take ==
    /\ line # <<>>
    /\ line' = Tail(line)
    /\ taken' = taken + 1
    /\ last' = Head(line)
    /\ UNCHANGED put

Next == Put \/ Take

Spec == Init /\ [][Next]_vars
=============================================================================
