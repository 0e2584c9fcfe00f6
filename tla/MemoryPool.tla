----------------------------- MODULE MemoryPool -----------------------------
(***************************************************************************)
(* src/quash/EECS_678/quash/src/parsing/memory_pool.c: memory that is      *)
(* handed out in pieces and freed all at once.  The pieces are cut from    *)
(* the last pool of a deque of pools (a sequence here, as                  *)
(* DoubleEndedQueue promises); when it is too short, a pool is added whose *)
(* size doubles with the length of the deque.  malloc may fail at any      *)
(* time.                                                                   *)
(***************************************************************************)
EXTENDS Naturals, Sequences, FiniteSets, SequencesExt

CONSTANTS
    Sizes,       \* the sizes asked for
    MaxBlocks    \* bound: pieces handed out between two destructions

ASSUME PoolAssumption == Sizes \subseteq Nat \ {0} /\ MaxBlocks \in Nat

VARIABLES
    heap,     \* what malloc gave out and nobody freed: region |-> its size, or 0
    pools,    \* pool_deq
    want,     \* the size of the memory_pool_alloc under way, or 0
    blocks    \* the pieces in use: bytes first to last - 1 of a region

poolVars == <<heap, pools, want, blocks>>

\* Each allocation makes one pool that has memory at most, and so does the
\* initialization.
Regions == 1 .. MaxBlocks + 1
NULL == 0

Pool == [pool : Regions \cup {NULL}, size : Nat, next : Nat]
Block == [pool : Regions, first : Nat, last : Nat]

PoolTypeOK ==
    /\ heap \in [Regions -> Nat]
    /\ pools \in Seq(Pool)
    /\ want \in Sizes \cup {0}
    /\ blocks \subseteq Block

PoolInit ==
    /\ heap = [r \in Regions |-> 0]
    /\ pools = <<>>
    /\ want = 0
    /\ blocks = {}

-----------------------------------------------------------------------------
\* The sizes tried after a failure, down to the one that is required.
Smaller(required, failed) ==
    LET halved[k \in Nat] == IF k = 0 THEN failed ELSE halved[k - 1] \div 2
    IN  IF failed <= required
          THEN {}
          ELSE {required} \cup ({halved[k] : k \in 1 .. failed} \cap (required .. failed))

\* A region as malloc returns it, of the size asked for or of a smaller one that
\* still is enough, with nothing handed out.
PushPool(required, asked) ==
    \E s \in {asked} \cup Smaller(required, asked), r \in Regions :
        /\ heap[r] = 0
        /\ \A q \in Regions : heap[q] = 0 => r <= q
        /\ heap' = [heap EXCEPT ![r] = s]
        /\ pools' = Append(pools, [pool |-> r, size |-> s, next |-> 0])

initialize_memory_pool(size) ==
    /\ LET asked == IF size = 0 THEN 1 ELSE size
       IN  PushPool(1, asked)
    /\ UNCHANGED <<want, blocks>>

\* The destructor of the deque frees every pool; free(NULL) does nothing.
destroy_memory_pool ==
    /\ heap' = [r \in Regions |->
                   IF \E i \in DOMAIN pools : pools[i].pool = r THEN 0 ELSE heap[r]]
    /\ pools' = <<>>
    /\ want' = 0
    /\ blocks' = {}

\* A client calls memory_pool_alloc(size).
AllocCall(size) ==
    /\ want = 0
    /\ Cardinality(blocks) < MaxBlocks
    /\ want' = size
    /\ UNCHANGED <<heap, pools, blocks>>

Fits == Last(pools).next + want <= Last(pools).size

new_pool_size == pools[1].size * 2^Len(pools)

\* The loop: a pool that is too small for the request is not made, but an empty
\* one takes its place in the deque, so that the next size doubles.
AllocGrow ==
    /\ want # 0
    /\ ~ Fits
    /\ \/ /\ new_pool_size < want
          /\ pools' = Append(pools, [pool |-> NULL, size |-> 0, next |-> 0])
          /\ UNCHANGED heap
       \/ /\ new_pool_size >= want
          /\ PushPool(want, new_pool_size)
    /\ UNCHANGED <<want, blocks>>

\* Even the required size cannot be had: exit(-1), which the client's exit
\* handlers complete.
AllocFails == want # 0 /\ ~ Fits /\ new_pool_size >= want

\* Mutant of AllocTake: the new position is not written back to the deque.
TakeForgets ==
    LET p == Last(pools)
    IN  /\ want # 0
        /\ Fits
        /\ blocks' = blocks \cup {[pool |-> p.pool, first |-> p.next, last |-> p.next + want]}
        /\ want' = 0
        /\ UNCHANGED <<heap, pools>>

AllocTake ==
    LET p == Last(pools)
    IN  /\ want # 0
        /\ Fits
        /\ blocks' = blocks \cup {[pool |-> p.pool, first |-> p.next, last |-> p.next + want]}
        /\ pools' = [pools EXCEPT ![Len(pools)].next = @ + want]
        /\ want' = 0
        /\ UNCHANGED heap

-----------------------------------------------------------------------------
Disjoint(b, c) == b.pool # c.pool \/ b.last <= c.first \/ c.last <= b.first

\* Pieces in use never overlap and lie inside memory that malloc gave out and
\* nobody freed, however often malloc failed and the pools grew or shrank; and
\* what malloc gave out is exactly what the deque will free, once: no leak, no
\* double free (memory_pool.c 81-143).
PoolSound ==
    /\ \A b \in blocks : b.first < b.last /\ b.last <= heap[b.pool]
    /\ \A b, c \in blocks : b # c => Disjoint(b, c)
    /\ \A i, j \in DOMAIN pools :
           i # j /\ pools[i].pool = pools[j].pool => pools[i].pool = NULL
    /\ \A r \in Regions :
           heap[r] = 0 <=> \A i \in DOMAIN pools : pools[i].pool # r
=============================================================================
