------------------------------ MODULE PriQueue ------------------------------
(***************************************************************************)
(* Lab08, libpriqueue.c: a priority queue as a doubly linked list.  Nodes  *)
(* are allocated by offer and never freed, so each node is used once.  An  *)
(* action is one call of the library; dereferencing NULL ends the program  *)
(* (running).                                                              *)
(***************************************************************************)
EXTENDS Integers, Sequences, FiniteSets

Seqs == INSTANCE SequencesExt

CONSTANTS Elements,      \* the data pointers a client offers
          Priority,      \* what the client's comparer compares: [Elements -> Int]
          FirstInt,      \* the int a data pointer points to: [Elements -> Int]
          MaxNodes,      \* bound: calls of offer
          RemovesLast    \* whether the client removes the last of several by index

ASSUME QueueAssumption ==
    /\ MaxNodes \in Nat \ {0}
    /\ Priority \in [Elements -> Int]
    /\ FirstInt \in [Elements -> Int]
    /\ RemovesLast \in BOOLEAN

NULL == 0
Nodes == 1 .. MaxNodes

VARIABLES
    q,          \* the queue's top, tail and size, and the nodes' next and prev
    data,       \* the nodes' data
    used,       \* nodes allocated so far
    running,    \* NULL was not dereferenced
    out         \* what the last call returned

vars == <<q, data, used, running, out>>

Init ==                                       \* priqueue_init
    /\ q = [top |-> NULL, tail |-> NULL, size |-> 0,
            next |-> [n \in Nodes |-> NULL], prev |-> [n \in Nodes |-> NULL]]
    /\ data = [n \in Nodes |-> NULL]
    /\ used = 0
    /\ running = TRUE
    /\ out = NULL

\* The i-th node from the top, from 0, or NULL behind the last.
nth[i \in 0 .. MaxNodes] ==
    IF i = 0 THEN q.top
    ELSE IF nth[i - 1] = NULL THEN NULL ELSE q.next[nth[i - 1]]

\* The nodes from top to the end; MaxNodes of them if the links run in a circle.
Chain ==
    LET length == Cardinality({i \in 0 .. MaxNodes - 1 : nth[i] # NULL})
    IN  [i \in 1 .. length |-> nth[i - 1]]

Contents == [i \in DOMAIN Chain |-> data[Chain[i]]]

-----------------------------------------------------------------------------
(* priqueue_offer *)

\* Mutant of Precedes: a newcomer overtakes its equals.
PrecedesEquals(e, n) == Priority[e] <= Priority[data[n]]

\* comparer(new, current) < 0
Precedes(e, n) == Priority[e] < Priority[data[n]]

\* The node new linked in before cur, or behind the tail when cur is NULL.
LinkIn(new, cur) ==
    IF q.top = NULL
    THEN [q EXCEPT !.top = new, !.tail = new, !.size = @ + 1]
    ELSE IF cur = NULL
    THEN [q EXCEPT !.prev[new] = q.tail, !.next[q.tail] = new,
                   !.tail = new, !.size = @ + 1]
    ELSE IF q.prev[cur] = NULL
    THEN [q EXCEPT !.next[new] = cur, !.prev[cur] = new,
                   !.top = new, !.size = @ + 1]
    ELSE [q EXCEPT !.prev[new] = q.prev[cur], !.next[q.prev[cur]] = new,
                   !.prev[cur] = new, !.next[new] = cur, !.size = @ + 1]

Offer(e) ==
    /\ used < MaxNodes
    /\ LET new == used + 1
           overtaken == {i \in DOMAIN Chain : Precedes(e, Chain[i])}
           index == IF overtaken = {} THEN Len(Chain)
                    ELSE (CHOOSE i \in overtaken : \A j \in overtaken : i <= j) - 1
       IN  /\ q' = LinkIn(new, nth[index])
           /\ data' = [data EXCEPT ![new] = e]
           /\ used' = new
           /\ out' = index
    /\ UNCHANGED running

-----------------------------------------------------------------------------
(* The other calls *)

Crash ==
    /\ running' = FALSE
    /\ UNCHANGED <<q, data, used, out>>

Return(value) ==
    /\ out' = value
    /\ UNCHANGED <<q, data, used, running>>

\* priqueue_at: the loop follows next size times before it gives up.
At(i) ==
    IF i = 0 \/ i \in 1 .. q.size
    THEN IF nth[i] = NULL THEN Crash ELSE Return(data[nth[i]])
    ELSE IF q.size > 0 /\ nth[q.size - 1] = NULL THEN Crash ELSE Return(NULL)

Peek == Return(IF q.top = NULL THEN NULL ELSE data[q.top])

\* The node behind the top is written to before top moves.
Poll ==
    IF q.top = NULL THEN Return(NULL)
    ELSE IF q.next[q.top] = NULL THEN Crash
    ELSE /\ q' = [q EXCEPT !.prev[q.next[q.top]] = NULL,
                           !.top = q.next[q.top], !.size = @ - 1]
         /\ out' = data[q.top]
         /\ UNCHANGED <<data, used, running>>

\* Mutant of Unlink: tail stays behind.
UnlinkKeepsTail(h, n) ==
    LET p == h.prev[n]
        x == h.next[n]
    IN  IF p = NULL /\ x = NULL THEN [h EXCEPT !.top = NULL, !.size = @ - 1]
        ELSE IF p = NULL THEN [h EXCEPT !.prev[x] = NULL, !.top = x, !.size = @ - 1]
        ELSE IF x = NULL THEN [h EXCEPT !.next[p] = NULL, !.size = @ - 1]
        ELSE [h EXCEPT !.prev[x] = p, !.next[p] = x, !.size = @ - 1]

\* One round of the loop of priqueue_remove, on a node that matches.
Unlink(h, n) ==
    LET p == h.prev[n]
        x == h.next[n]
    IN  IF p = NULL /\ x = NULL THEN [h EXCEPT !.top = NULL, !.size = @ - 1]
        ELSE IF p = NULL THEN [h EXCEPT !.prev[x] = NULL, !.top = x, !.size = @ - 1]
        ELSE IF x = NULL THEN [h EXCEPT !.next[p] = NULL, !.tail = p, !.size = @ - 1]
        ELSE [h EXCEPT !.prev[x] = p, !.next[p] = x, !.size = @ - 1]

\* priqueue_remove compares the ints the pointers point to.
Matches(n, e) == FirstInt[data[n]] = FirstInt[e]

\* Unlinking a node leaves its own links, so the loop goes through all of Chain.
Remove(e) ==
    /\ q' = Seqs!FoldLeft(LAMBDA h, n : IF Matches(n, e) THEN Unlink(h, n) ELSE h, q, Chain)
    /\ out' = Cardinality({i \in DOMAIN Chain : Matches(Chain[i], e)})
    /\ UNCHANGED <<data, used, running>>

\* Mutant of UnlinkAt: the size goes the wrong way.
UnlinkAtCountsUp(n) ==
    LET p == q.prev[n]
        x == q.next[n]
    IN  [q EXCEPT !.top = IF x = NULL THEN p ELSE IF p = NULL THEN x ELSE @,
                  !.next = IF p = NULL THEN @ ELSE [@ EXCEPT ![p] = x],
                  !.prev = IF x = NULL THEN @ ELSE [@ EXCEPT ![x] = p],
                  !.size = @ + 1]

\* priqueue_remove_at unlinks the node; without a next it moves top to the prev.
UnlinkAt(n) ==
    LET p == q.prev[n]
        x == q.next[n]
    IN  [q EXCEPT !.top = IF x = NULL THEN p ELSE IF p = NULL THEN x ELSE @,
                  !.next = IF p = NULL THEN @ ELSE [@ EXCEPT ![p] = x],
                  !.prev = IF x = NULL THEN @ ELSE [@ EXCEPT ![x] = p],
                  !.size = @ - 1]

RemoveIndex(i) ==
    IF i \notin 0 .. q.size - 1 THEN Return(NULL)
    ELSE IF nth[i] = NULL                     \* falls off the end, returning nothing
    THEN \E value \in Elements \cup {NULL} : Return(value)
    ELSE /\ q' = UnlinkAt(nth[i])
         /\ out' = data[nth[i]]
         /\ UNCHANGED <<data, used, running>>

\* Positions a client may name, outside the queue included.
Positions == -1 .. q.size + 1
Removable == {i \in Positions : i = q.size - 1 /\ i > 0 => RemovesLast}

Stopped == ~running /\ UNCHANGED vars

Next ==
    \/ /\ running
       /\ \/ \E e \in Elements : Offer(e) \/ Remove(e)
          \/ Poll \/ Peek
          \/ \E i \in Positions : At(i)
          \/ \E i \in Removable : RemoveIndex(i)
    \/ Stopped

Spec == Init /\ [][Next]_vars

-----------------------------------------------------------------------------

\* Every variable holds a value of its kind.
TypeOK ==
    /\ q \in [top : Nodes \cup {NULL}, tail : Nodes \cup {NULL}, size : 0 .. MaxNodes,
              next : [Nodes -> Nodes \cup {NULL}], prev : [Nodes -> Nodes \cup {NULL}]]
    /\ data \in [Nodes -> Elements \cup {NULL}]
    /\ used \in 0 .. MaxNodes
    /\ running \in BOOLEAN
    /\ out \in Elements \cup Int

\* size is the number of elements that can be reached (libpriqueue.c:235-243).
SizeExact == q.size = Len(Chain)

\* The links of the two directions agree and tail is the last node, so that whatever
\* was offered or removed before, an element put at the end is not lost.
WellLinked ==
    Chain # <<>> =>
        /\ q.prev[Chain[1]] = NULL
        /\ \A i \in 1 .. Len(Chain) - 1 : q.prev[Chain[i + 1]] = Chain[i]
        /\ q.tail = Chain[Len(Chain)]

\* As long as the program runs every call does, and returns, what it does and
\* returns on a list ordered by priority.
List == INSTANCE PriorityList WITH Nothing <- NULL, list <- Contents
ImplementsPriorityList == List!Spec

=============================================================================
