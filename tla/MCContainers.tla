---------------------------- MODULE MCContainers ----------------------------
(***************************************************************************)
(* The two containers, which share nothing, checked in one run: the first  *)
(* state chooses one of them and only that one is called.                  *)
(***************************************************************************)
EXTENDS MCPriQueue, Deque

VARIABLE container    \* the one that is called

containerVars == <<container, vars, dequeVars>>

ContainersInit ==
    /\ container \in {"priqueue", "deque"}
    /\ Init
    /\ DequeInit

CallQueue ==
    /\ container = "priqueue"
    /\ Next
    /\ UNCHANGED <<container, dequeVars>>

CallDeque ==
    /\ container = "deque"
    /\ DequeNext
    /\ UNCHANGED <<container, vars>>

ContainersSpec == ContainersInit /\ [][CallQueue \/ CallDeque]_containerVars
=============================================================================
