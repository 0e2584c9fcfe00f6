---------------------------- MODULE QuashProofs -----------------------------
(***************************************************************************)
(* Proofs about the memory pool of quash, for all sizes of the first pool  *)
(* and of the pieces, any number of pieces and any failures of malloc, and *)
(* about the script that the parser builds in it, for all redirections and *)
(* any number of stages.                                                   *)
(***************************************************************************)
EXTENDS Quash, SequenceTheorems, WellFoundedInduction, TLAPS

-----------------------------------------------------------------------------
(* The invariant of the pool *)

\* A pool that has memory is one that malloc gave out; what was cut from it lies
\* before its next position.
PoolRecord(p) ==
    /\ p.next <= p.size
    /\ IF p.pool = NULL THEN p.size = 0 ELSE heap[p.pool] = p.size

InsidePool(b) ==
    /\ b.first < b.last
    /\ \E i \in DOMAIN pools : pools[i].pool = b.pool /\ b.last <= pools[i].next

PiecesDisjoint == \A b, c \in blocks : b # c => Disjoint(b, c)

\* No two pools lie in the same memory, and what malloc gave out is a pool's.
OnePoolEach ==
    \A i, j \in DOMAIN pools :
        i # j /\ pools[i].pool = pools[j].pool => pools[i].pool = NULL

HeapIsPools ==
    \A r \in Regions : heap[r] = 0 <=> \A i \in DOMAIN pools : pools[i].pool # r

\* PoolSound is not inductive: that a new piece overlaps no other one rests on the
\* others ending at or before the next position of their pool.
PoolInv ==
    /\ PoolTypeOK
    /\ want # 0 => pools # <<>>
    /\ \A i \in DOMAIN pools : PoolRecord(pools[i])
    /\ \A b \in blocks : InsidePool(b)
    /\ PiecesDisjoint
    /\ OnePoolEach
    /\ HeapIsPools

\* The parser and the script's string find a pool to allocate from, the script is in one.
QuashInv ==
    /\ PoolInv
    /\ phase \in {"parse", "stringify", "run"} => pools # <<>>

\* The invariant says what a client of the pool relies on.
LEMMA InvSound == PoolInv => PoolSound
<1> SUFFICES ASSUME PoolInv, NEW b \in blocks PROVE b.first < b.last /\ b.last <= heap[b.pool]
  BY DEF PoolInv, PoolSound, PiecesDisjoint, OnePoolEach, HeapIsPools
<1>1. PICK i \in DOMAIN pools : pools[i].pool = b.pool /\ b.last <= pools[i].next
  BY DEF PoolInv, InsidePool
<1>2. b \in Block /\ pools[i] \in Pool /\ PoolRecord(pools[i])
  BY <1>1 DEF PoolInv, PoolTypeOK
<1>3. b.pool # NULL
  BY <1>2 DEF Block, Regions, NULL
<1>4. heap[b.pool] = pools[i].size /\ pools[i].next <= pools[i].size
  BY <1>1, <1>2, <1>3 DEF PoolRecord
<1>5. b.last \in Nat /\ pools[i].next \in Nat /\ pools[i].size \in Nat
  BY <1>2 DEF Block, Pool
<1> QED
  BY <1>1, <1>4, <1>5 DEF PoolInv, InsidePool

-----------------------------------------------------------------------------
(* The calls of the pool *)

\* A size that is tried lies between the required one and the one asked for.
LEMMA TriedSizes ==
  ASSUME NEW required \in Nat, NEW asked \in Int, required <= asked,
         NEW s \in {asked} \cup Smaller(required, asked)
  PROVE  s \in Nat /\ required <= s
<1>1. CASE s = asked
  BY <1>1
<1>2. CASE s \in Smaller(required, asked)
  <2>1. s = required \/ s \in required .. asked
    BY <1>2 DEF Smaller
  <2> QED
    BY <2>1
<1> QED
  BY <1>1, <1>2

\* A pool added at the end that no other one shares its memory with keeps the
\* invariant.
LEMMA AppendKeeps ==
  ASSUME PoolInv, NEW p \in Pool,
         pools' = Append(pools, p), blocks' = blocks, want' = want,
         PoolRecord(p)',
         heap' \in [Regions -> Nat],
         \A i \in DOMAIN pools : pools[i].pool # NULL => pools[i].pool # p.pool,
         \A r \in Regions : r # p.pool => heap'[r] = heap[r],
         p.pool # NULL => heap'[p.pool] # 0
  PROVE  PoolInv' /\ pools' # <<>>
<1> DEFINE n == Len(pools)
<1>1. /\ pools \in Seq(Pool) /\ n \in Nat
      /\ pools' \in Seq(Pool) /\ Len(pools') = n + 1
      /\ DOMAIN pools = 1 .. n /\ DOMAIN pools' = 1 .. n + 1
      /\ pools'[n + 1] = p
      /\ \A i \in 1 .. n : pools'[i] = pools[i] /\ pools[i] \in Pool
  BY DEF PoolInv, PoolTypeOK
<1>2. pools' # <<>>
  BY <1>1
<1>3. PoolTypeOK'
  BY <1>1 DEF PoolInv, PoolTypeOK
<1>4. (\A i \in DOMAIN pools : PoolRecord(pools[i]))'
  <2> SUFFICES ASSUME NEW i \in 1 .. n + 1 PROVE PoolRecord(pools[i])'
    BY <1>1
  <2>1. CASE i = n + 1
    BY <1>1, <2>1 DEF PoolRecord
  <2>2. CASE i \in 1 .. n
    <3>1. PoolRecord(pools[i]) /\ pools[i] \in Pool /\ pools'[i] = pools[i]
      BY <1>1, <2>2 DEF PoolInv
    <3>2. pools[i].pool # NULL => heap'[pools[i].pool] = heap[pools[i].pool]
      BY <1>1, <2>2, <3>1 DEF Pool
    <3> QED
      BY <3>1, <3>2 DEF PoolRecord
  <2> QED
    BY <1>1, <2>1, <2>2
<1>5. (\A b \in blocks : InsidePool(b))'
  BY <1>1 DEF PoolInv, InsidePool
<1>6. PiecesDisjoint'
  BY DEF PoolInv, PiecesDisjoint, Disjoint
<1>7. OnePoolEach'
  BY <1>1 DEF PoolInv, OnePoolEach
<1>8. HeapIsPools'
  <2> SUFFICES ASSUME NEW r \in Regions
               PROVE  heap'[r] = 0 <=> \A i \in 1 .. n + 1 : pools'[i].pool # r
    BY <1>1 DEF HeapIsPools
  <2>1. CASE r = p.pool
    BY <2>1, <1>1 DEF Regions, NULL
  <2>2. CASE r # p.pool
    BY <2>2, <1>1 DEF PoolInv, HeapIsPools
  <2> QED
    BY <2>1, <2>2
<1> QED
  BY <1>2, <1>3, <1>4, <1>5, <1>6, <1>7, <1>8 DEF PoolInv

\* A pool with memory, of the size asked for or a smaller one.
LEMMA PushKeeps ==
  ASSUME PoolInv, NEW required \in Nat \ {0}, NEW asked \in Int, required <= asked,
         PushPool(required, asked), UNCHANGED <<want, blocks>>
  PROVE  PoolInv' /\ pools' # <<>>
<1>1. PICK s \in {asked} \cup Smaller(required, asked), r \in Regions :
        /\ heap[r] = 0
        /\ heap' = [heap EXCEPT ![r] = s]
        /\ pools' = Append(pools, [pool |-> r, size |-> s, next |-> 0])
  BY DEF PushPool
<1>2. s \in Nat /\ s # 0
  BY TriedSizes
<1> DEFINE p == [pool |-> r, size |-> s, next |-> 0]
<1>3. p \in Pool
  BY <1>2 DEF Pool
<1>4. heap \in [Regions -> Nat] /\ heap' \in [Regions -> Nat] /\ heap'[r] = s
  BY <1>1, <1>2 DEF PoolInv, PoolTypeOK
<1>5. PoolRecord(p)'
  BY <1>2, <1>4 DEF PoolRecord, NULL, Regions
<1>6. \A i \in DOMAIN pools : pools[i].pool # r
  BY <1>1 DEF PoolInv, HeapIsPools
<1> QED
  BY <1>1, <1>2, <1>3, <1>4, <1>5, <1>6, AppendKeeps

\* The loop of memory_pool_alloc adds a pool, empty or not.
LEMMA GrowKeeps ==
  ASSUME PoolInv, AllocGrow
  PROVE  PoolInv' /\ pools' # <<>>
<1>1. CASE new_pool_size < want /\ UNCHANGED heap
           /\ pools' = Append(pools, [pool |-> NULL, size |-> 0, next |-> 0])
  <2> DEFINE p == [pool |-> NULL, size |-> 0, next |-> 0]
  <2>1. p \in Pool /\ PoolRecord(p)'
    BY DEF Pool, PoolRecord
  <2> QED
    BY <1>1, <2>1, AppendKeeps DEF AllocGrow, PoolInv, PoolTypeOK
<1>2. CASE new_pool_size >= want /\ PushPool(want, new_pool_size)
  <2>1. want \in Nat \ {0} /\ pools # <<>>
    BY PoolAssumption DEF AllocGrow, PoolInv, PoolTypeOK
  <2>2. pools \in Seq(Pool) /\ Len(pools) \in Nat /\ 1 \in 1 .. Len(pools)
    BY <2>1 DEF PoolInv, PoolTypeOK
  <2>3. pools[1] \in Pool
    BY <2>2
  <2>4. pools[1].size \in Int
    BY <2>3 DEF Pool
  <2>5. new_pool_size \in Int
    BY <2>2, <2>4 DEF new_pool_size
  <2> QED
    BY <1>2, <2>1, <2>5, PushKeeps DEF AllocGrow
<1> QED
  BY <1>1, <1>2 DEF AllocGrow

\* A piece is cut from the last pool behind all others.
LEMMA TakeKeeps ==
  ASSUME PoolInv, AllocTake
  PROVE  PoolInv' /\ pools' # <<>>
<1>1. want \in Nat \ {0} /\ pools # <<>>
  BY PoolAssumption DEF AllocTake, PoolInv, PoolTypeOK
<1>2. pools \in Seq(Pool) /\ Len(pools) \in Nat \ {0} /\ Len(pools) \in 1 .. Len(pools)
  BY <1>1 DEF PoolInv, PoolTypeOK
<1>3. pools[Len(pools)] \in Pool
  BY <1>2
<1>4. PICK n \in Nat \ {0}, p \in Pool : n = Len(pools) /\ p = pools[n]
  BY <1>2, <1>3
<1>5. PICK new : new = [pool |-> p.pool, first |-> p.next, last |-> p.next + want]
  OBVIOUS
<1>6. /\ DOMAIN pools = 1 .. n
      /\ \A i \in 1 .. n : pools[i] \in Pool
      /\ Last(pools) = p
  BY <1>1, <1>4 DEF PoolInv, PoolTypeOK, Last
<1>7. /\ p.next + want <= p.size
      /\ blocks' = blocks \cup {new}
      /\ pools' = [pools EXCEPT ![n] = [p EXCEPT !.next = p.next + want]]
      /\ want' = 0 /\ heap' = heap
  BY <1>4, <1>6, <1>5 DEF AllocTake, Fits
<1>8. PoolRecord(p) /\ p.next \in Nat /\ p.size \in Nat /\ p.pool \in Regions \cup {NULL}
  BY <1>4, <1>6 DEF PoolInv, Pool
<1>9. p.pool \in Regions /\ p.pool # NULL
  BY <1>1, <1>7, <1>8 DEF PoolRecord, Regions, NULL
<1>10. new \in Block /\ new.pool = p.pool /\ new.first = p.next /\ new.last = p.next + want
  BY <1>1, <1>8, <1>9, <1>5 DEF Block
<1>11. /\ pools' \in Seq(Pool) /\ DOMAIN pools' = 1 .. n /\ pools' # <<>>
       /\ \A i \in 1 .. n : pools'[i].pool = pools[i].pool /\ pools'[i].size = pools[i].size
       /\ \A i \in 1 .. n : i # n => pools'[i] = pools[i]
       /\ pools'[n].next = p.next + want
  <2>1. [p EXCEPT !.next = p.next + want] \in Pool
    BY <1>1, <1>8 DEF Pool
  <2>2. pools \in Seq(Pool) /\ n \in 1 .. n
    BY <1>4 DEF PoolInv, PoolTypeOK
  <2>3. pools' \in Seq(Pool) /\ DOMAIN pools' = 1 .. n /\ Len(pools') = n
    BY <1>4, <1>6, <1>7, <2>1, <2>2
  <2>4. pools'[n] = [p EXCEPT !.next = p.next + want]
    BY <1>6, <1>7, <2>2
  <2>5. \A i \in 1 .. n : i # n => pools'[i] = pools[i]
    BY <1>6, <1>7
  <2>6. pools'[n].pool = pools[n].pool /\ pools'[n].size = pools[n].size
    BY <1>4, <2>4 DEF Pool
  <2> QED
    BY <1>4, <2>3, <2>4, <2>5, <2>6 DEF Pool
<1>12. PoolTypeOK'
  BY <1>7, <1>10, <1>11 DEF PoolInv, PoolTypeOK
<1>13. (\A i \in DOMAIN pools : PoolRecord(pools[i]))'
  <2> SUFFICES ASSUME NEW i \in 1 .. n PROVE PoolRecord(pools[i])'
    BY <1>11
  <2>1. CASE i = n
    BY <1>4, <1>7, <1>8, <1>11, <2>1 DEF PoolRecord
  <2>2. CASE i # n
    BY <1>6, <1>7, <1>11, <2>2 DEF PoolInv, PoolRecord
  <2> QED
    BY <2>1, <2>2
<1>14. (\A b \in blocks : InsidePool(b))'
  <2>1. InsidePool(new)'
    <3>1. n \in 1 .. n /\ new.first < new.last
      BY <1>1, <1>4, <1>8, <1>10
    <3>2. pools'[n].pool = new.pool /\ new.last <= pools'[n].next
      BY <1>1, <1>4, <1>8, <1>10, <1>11, <3>1
    <3> QED
      BY <1>11, <3>1, <3>2 DEF InsidePool
  <2>2. ASSUME NEW b \in blocks PROVE InsidePool(b)'
    <3>1. PICK i \in 1 .. n : pools[i].pool = b.pool /\ b.last <= pools[i].next
      BY <1>6 DEF PoolInv, InsidePool
    <3>2. b.last \in Nat
      BY DEF PoolInv, PoolTypeOK, Block
    <3>3. b.last <= pools'[i].next
      <4>1. CASE i = n
        BY <1>1, <1>4, <1>8, <1>11, <3>1, <3>2, <4>1
      <4>2. CASE i # n
        BY <1>11, <3>1, <4>2
      <4> QED
        BY <4>1, <4>2
    <3> QED
      BY <1>11, <3>1, <3>3 DEF InsidePool, PoolInv
  <2>3. \A b \in blocks' : b = new \/ b \in blocks
    BY <1>7
  <2> QED
    BY <2>1, <2>2, <2>3
<1>15. \A b \in blocks : Disjoint(b, new) /\ Disjoint(new, b)
  <2> SUFFICES ASSUME NEW b \in blocks, b.pool = p.pool PROVE b.last <= p.next
    BY <1>10 DEF Disjoint
  <2>1. PICK i \in 1 .. n : pools[i].pool = b.pool /\ b.last <= pools[i].next
    BY <1>6 DEF PoolInv, InsidePool
  <2>2. n \in 1 .. n
    BY <1>4
  <2>3. i = n
    BY <1>4, <1>6, <1>9, <2>1, <2>2 DEF PoolInv, OnePoolEach
  <2> QED
    BY <1>4, <2>1, <2>3
<1>16. PiecesDisjoint'
  BY <1>7, <1>15 DEF PoolInv, PiecesDisjoint, Disjoint
<1>17. OnePoolEach' /\ HeapIsPools'
  BY <1>6, <1>7, <1>11 DEF PoolInv, OnePoolEach, HeapIsPools
<1> QED
  BY <1>7, <1>11, <1>12, <1>13, <1>14, <1>16, <1>17 DEF PoolInv

\* Nothing is left after the pool was destroyed.
LEMMA DestroyKeeps ==
  ASSUME PoolInv, destroy_memory_pool
  PROVE  PoolInv'
<1>1. pools' = <<>> /\ want' = 0 /\ blocks' = {} /\ DOMAIN pools' = {}
  BY DEF destroy_memory_pool
<1>2. \A r \in Regions : heap'[r] = 0
  BY DEF destroy_memory_pool, PoolInv, HeapIsPools
<1>3. PoolTypeOK'
  <2>1. heap' \in [Regions -> Nat]
    BY DEF destroy_memory_pool, PoolInv, PoolTypeOK
  <2> QED
    BY <1>1, <2>1 DEF PoolTypeOK
<1> QED
  BY <1>1, <1>2, <1>3 DEF PoolInv, PiecesDisjoint, OnePoolEach, HeapIsPools

-----------------------------------------------------------------------------
(* The main loop *)

\* Before the first line there is no pool.
LEMMA QuashInvInit == QuashInit => QuashInv
BY DEF QuashInit, PoolInit, QuashInv, PoolInv, PoolTypeOK, PiecesDisjoint, OnePoolEach, HeapIsPools

\* The parts of the invariant that a step without a call of the pool leaves alone.
LEMMA PoolUnchanged ==
  ASSUME QuashInv, UNCHANGED poolVars,
         phase' \in {"parse", "stringify", "run"} => phase \in {"parse", "stringify", "run"}
  PROVE  QuashInv'
BY DEF QuashInv, poolVars, PoolInv, PoolTypeOK, PoolRecord, InsidePool, PiecesDisjoint,
       Disjoint, OnePoolEach, HeapIsPools

\* A request for memory is made only where there is a pool.
LEMMA CallKeeps ==
  ASSUME QuashInv, NEW size \in Sizes, AllocCall(size), phase \in {"parse", "stringify"}
  PROVE  QuashInv'
BY DEF AllocCall, QuashInv, PoolInv, PoolTypeOK, PoolRecord, InsidePool, PiecesDisjoint,
       Disjoint, OnePoolEach, HeapIsPools

\* Every step of the main loop and of the parser keeps the invariant.
LEMMA QuashInvStep == QuashInv /\ [QuashNext]_quashVars => QuashInv'
<1> SUFFICES ASSUME QuashInv, [QuashNext]_quashVars PROVE QuashInv'
  OBVIOUS
<1>0. PoolInv
  BY DEF QuashInv
<1>1. CASE LoopStart
  <2>1. CASE initialize_memory_pool(InitSize)
    <3> DEFINE asked == IF InitSize = 0 THEN 1 ELSE InitSize
    <3>1. asked \in Int /\ 1 <= asked
      BY QuashAssumption
    <3>2. PushPool(1, asked) /\ UNCHANGED <<want, blocks>>
      BY <2>1 DEF initialize_memory_pool
    <3>3. PoolInv' /\ pools' # <<>>
      BY <1>0, <3>1, <3>2, PushKeeps
    <3> QED
      BY <3>3 DEF QuashInv
  <2>2. CASE Leave
    BY <1>0, <2>2, DestroyKeeps DEF Leave, QuashInv
  <2> QED
    BY <1>1, <2>1, <2>2 DEF LoopStart
<1>2. CASE MemoryStep
  <2>1. CASE AllocGrow
    BY <1>0, <2>1, GrowKeeps DEF QuashInv
  <2>2. CASE AllocTake
    BY <1>0, <2>2, TakeKeeps DEF QuashInv
  <2>3. CASE Leave
    BY <1>0, <2>3, DestroyKeeps DEF Leave, QuashInv
  <2> QED
    BY <1>2, <2>1, <2>2, <2>3 DEF MemoryStep
<1>3. ASSUME NEW size \in Sizes, ParserAlloc(size) \/ Stringify(size) PROVE QuashInv'
  BY <1>3, CallKeeps DEF ParserAlloc, Stringify
<1>4. CASE \E redir \in Redirections, bg \in BOOLEAN : ReadStage(redir, bg)
  BY <1>4, PoolUnchanged DEF ReadStage
<1>5. CASE ReduceLast \/ ReducePipe
  BY <1>5, PoolUnchanged DEF ReduceLast, ReducePipe
<1>6. CASE \E end \in BOOLEAN : Accept(end)
  BY <1>6, PoolUnchanged DEF Accept, Parsing
<1>7. CASE \E error, end \in BOOLEAN : NoScript(error, end)
  BY <1>7, PoolUnchanged DEF NoScript
<1>8. ASSUME NEW exits \in BOOLEAN, RunScript(exits) PROVE QuashInv'
  BY <1>0, <1>8, DestroyKeeps DEF RunScript, QuashInv
<1>9. CASE Quit \/ UNCHANGED quashVars
  BY <1>9, PoolUnchanged DEF Quit, quashVars
<1> QED
  BY <1>1, <1>2, <1>3, <1>4, <1>5, <1>6, <1>7, <1>8, <1>9 DEF QuashNext

\* Whatever the sizes and however often malloc fails, pieces in use never overlap,
\* lie in memory that was not freed, and nothing is leaked or freed twice.
THEOREM PoolIsSound == QuashSpec => []PoolSound
<1>1. QuashInv => PoolSound
  BY InvSound DEF QuashInv
<1> QED
  BY <1>1, QuashInvInit, QuashInvStep, PTL DEF QuashSpec
-----------------------------------------------------------------------------
(* The fold of the redirections *)

\* A set of numbers that is not empty has a least one.
LEMMA LeastNumber ==
  ASSUME NEW T, T \subseteq Nat, T # {}
  PROVE  \E n \in T : \A m \in T : n <= m
<1> DEFINE R == {ss \in Nat \X Nat : ss[1] < ss[2]}
<1>1. R = OpToRel(<, Nat)
  BY Zenon DEF OpToRel
<1>2. IsWellFoundedOn(OpToRel(<, Nat), Nat)
  BY NatLessThanWellFounded, Zenon
<1>3. IsWellFoundedOn(R, Nat)
  BY <1>1, <1>2
<1>4. \A n, m \in Nat : m < n => <<m, n>> \in R
  OBVIOUS
<1> HIDE DEF R
<1>5. PICK n \in T : \A m \in T : <<m, n>> \notin R
  BY <1>3, WFMin
<1>6. \A m \in T : n \in Nat /\ m \in Nat /\ ~ m < n
  BY <1>4, <1>5
<1> QED
  BY <1>6

\* The flags that the marks at the places S of redir make, without the order in which
\* the rules go through them.
MarkedBy(redir, S) ==
    {flag \in {"REDIRECT_IN", "REDIRECT_OUT", "REDIRECT_APPEND"} :
        \/ flag = "REDIRECT_IN" /\ \E k \in S : redir[k] = "<"
        \/ flag = "REDIRECT_OUT" /\ \E k \in S : redir[k] # "<"
        \/ flag = "REDIRECT_APPEND" /\ \E k \in S : /\ redir[k] = ">>"
                                                    /\ \A j \in S : j < k => redir[j] = "<"}

\* The marks of redirections.
Mark == {"<", ">", ">>"}

\* One mark more on the left.
LEMMA MarkedStep ==
  ASSUME NEW redir \in Seq(Mark), NEW S, S \subseteq DOMAIN redir, NEW m \in S,
         \A k \in S : m <= k
  PROVE  MarkedBy(redir, S) = Override(redir[m], MarkedBy(redir, S \ {m}))
<1> DEFINE before == MarkedBy(redir, S \ {m})
<1>1. redir[m] \in Mark /\ \A k \in S : k \in Nat /\ redir[k] \in Mark
  OBVIOUS
<1>2. CASE redir[m] = "<"
  <2>1. Override(redir[m], before) = before \cup {"REDIRECT_IN"}
    BY <1>2 DEF Override
  <2>2. "REDIRECT_APPEND" \in MarkedBy(redir, S) <=> "REDIRECT_APPEND" \in before
    BY <1>1, <1>2 DEF MarkedBy
  <2>3. "REDIRECT_OUT" \in MarkedBy(redir, S) <=> "REDIRECT_OUT" \in before
    BY <1>1, <1>2 DEF MarkedBy
  <2>4. "REDIRECT_IN" \in MarkedBy(redir, S)
    BY <1>1, <1>2 DEF MarkedBy
  <2>5. /\ MarkedBy(redir, S) \subseteq {"REDIRECT_IN", "REDIRECT_OUT", "REDIRECT_APPEND"}
        /\ before \subseteq {"REDIRECT_IN", "REDIRECT_OUT", "REDIRECT_APPEND"}
    BY DEF MarkedBy
  <2>6. PICK X, Y : X = MarkedBy(redir, S) /\ Y = before
    OBVIOUS
  <2> HIDE DEF before
  <2>7. ASSUME NEW flag PROVE flag \in X <=> flag \in Override(redir[m], Y)
    BY <2>1, <2>2, <2>3, <2>4, <2>5, <2>6
  <2> QED
    BY <2>6, <2>7 DEF before
<1>3. CASE redir[m] = ">"
  <2>1. Override(redir[m], before) = (before \cup {"REDIRECT_OUT"}) \ {"REDIRECT_APPEND"}
    BY <1>3 DEF Override
  <2>2. "REDIRECT_APPEND" \notin MarkedBy(redir, S)
    BY <1>1, <1>3 DEF MarkedBy
  <2>3. "REDIRECT_IN" \in MarkedBy(redir, S) <=> "REDIRECT_IN" \in before
    BY <1>1, <1>3 DEF MarkedBy
  <2>4. "REDIRECT_OUT" \in MarkedBy(redir, S)
    BY <1>1, <1>3 DEF MarkedBy
  <2>5. /\ MarkedBy(redir, S) \subseteq {"REDIRECT_IN", "REDIRECT_OUT", "REDIRECT_APPEND"}
        /\ before \subseteq {"REDIRECT_IN", "REDIRECT_OUT", "REDIRECT_APPEND"}
    BY DEF MarkedBy
  <2>6. PICK X, Y : X = MarkedBy(redir, S) /\ Y = before
    OBVIOUS
  <2> HIDE DEF before
  <2>7. ASSUME NEW flag PROVE flag \in X <=> flag \in Override(redir[m], Y)
    BY <2>1, <2>2, <2>3, <2>4, <2>5, <2>6
  <2> QED
    BY <2>6, <2>7 DEF before
<1>4. CASE redir[m] = ">>"
  <2>1. Override(redir[m], before) = before \cup {"REDIRECT_OUT", "REDIRECT_APPEND"}
    BY <1>4 DEF Override
  <2>2. "REDIRECT_APPEND" \in MarkedBy(redir, S)
    BY <1>1, <1>4 DEF MarkedBy
  <2>3. "REDIRECT_IN" \in MarkedBy(redir, S) <=> "REDIRECT_IN" \in before
    BY <1>1, <1>4 DEF MarkedBy
  <2>4. "REDIRECT_OUT" \in MarkedBy(redir, S)
    BY <1>1, <1>4 DEF MarkedBy
  <2>5. /\ MarkedBy(redir, S) \subseteq {"REDIRECT_IN", "REDIRECT_OUT", "REDIRECT_APPEND"}
        /\ before \subseteq {"REDIRECT_IN", "REDIRECT_OUT", "REDIRECT_APPEND"}
    BY DEF MarkedBy
  <2>6. PICK X, Y : X = MarkedBy(redir, S) /\ Y = before
    OBVIOUS
  <2> HIDE DEF before
  <2>7. ASSUME NEW flag PROVE flag \in X <=> flag \in Override(redir[m], Y)
    BY <2>1, <2>2, <2>3, <2>4, <2>5, <2>6
  <2> QED
    BY <2>6, <2>7 DEF before
<1> QED
  BY <1>1, <1>2, <1>3, <1>4 DEF Mark

\* The fold exists, and it is MarkedBy on the places from any one to the last: a
\* place where it differed would have a last one.
LEMMA FoldMarks ==
  ASSUME NEW redir \in Seq(Mark)
  PROVE  FoldRight(Override, redir, {}) = MarkedBy(redir, DOMAIN redir)
<1> DEFINE D == DOMAIN redir
           n == Len(redir)
           Folds(g) == g = [S \in SUBSET D |->
                              IF S = {} THEN {} ELSE Override(redir[Min(S)], g[S \ {Min(S)}])]
           h == [S \in SUBSET D |-> MarkedBy(redir, S)]
<1>1. FoldRight(Override, redir, {}) = (CHOOSE g : Folds(g))[D]
  BY DEF FoldRight, MapThenFoldSet
<1>2. n \in Nat /\ D = 1 .. n
  OBVIOUS
<1>3. ASSUME NEW S, S \subseteq D, S # {} PROVE Min(S) \in S /\ \A k \in S : Min(S) <= k
  <2>1. S \subseteq Nat
    BY <1>2, <1>3
  <2>2. \E k \in S : \A j \in S : k <= j
    BY <1>3, <2>1, LeastNumber
  <2> QED
    BY <2>2, Zenon DEF Min
<1>4. MarkedBy(redir, {}) = {}
  BY DEF MarkedBy
<1>5. \A S \in SUBSET D : h[S] = IF S = {} THEN {} ELSE Override(redir[Min(S)], h[S \ {Min(S)}])
  <2> SUFFICES ASSUME NEW S \in SUBSET D, S # {}
               PROVE  MarkedBy(redir, S) = Override(redir[Min(S)], MarkedBy(redir, S \ {Min(S)}))
    BY <1>4
  <2> QED
    BY <1>3, MarkedStep
<1> HIDE DEF h
<1>6. Folds(h)
  <2>1. h = [S \in SUBSET D |-> h[S]]
    BY DEF h
  <2> HIDE DEF D
  <2> QED
    BY <1>5, <2>1
<1> HIDE DEF Folds
<1>7. PICK g : g = (CHOOSE gg : Folds(gg)) /\ Folds(g)
  BY <1>6, Zenon
<1>8. \A S \in SUBSET D : g[S] = IF S = {} THEN {} ELSE Override(redir[Min(S)], g[S \ {Min(S)}])
  BY <1>7 DEF Folds
<1> DEFINE Behind(k) == n - k + 1 .. n
           T == {k \in 0 .. n : g[Behind(k)] # h[Behind(k)]}
<1>9. T = {}
  <2> SUFFICES ASSUME T # {} PROVE FALSE
    OBVIOUS
  <2>1. PICK k \in T : \A j \in T : k <= j
    <3>1. T \subseteq Nat
      BY <1>2
    <3> HIDE DEF T
    <3> QED
      BY <3>1, LeastNumber
  <2>2. k \in 0 .. n /\ g[Behind(k)] # h[Behind(k)]
    OBVIOUS
  <2>3. Behind(k) \in SUBSET D
    BY <1>2, <2>2
  <2>4. Behind(k) # {}
    BY <1>5, <1>8, <2>2, <2>3
  <2>5. k # 0
    BY <1>2, <2>4
  <2>6. Min(Behind(k)) = n - k + 1
    <3>1. Min(Behind(k)) \in Behind(k) /\ \A j \in Behind(k) : Min(Behind(k)) <= j
      BY <1>3, <2>3, <2>4
    <3>2. n - k + 1 \in Behind(k)
      BY <1>2, <2>2, <2>5
    <3>3. PICK a : a = Min(Behind(k))
      OBVIOUS
    <3>4. a \in n - k + 1 .. n /\ a <= n - k + 1
      BY <3>1, <3>2, <3>3
    <3> QED
      BY <1>2, <2>2, <3>3, <3>4
  <2>7. Behind(k) \ {n - k + 1} = Behind(k - 1) /\ k - 1 \in 0 .. n /\ Behind(k - 1) \in SUBSET D
    BY <1>2, <2>2, <2>5
  <2>8. k - 1 \notin T
    BY <1>2, <2>1, <2>2
  <2>9. g[Behind(k - 1)] = h[Behind(k - 1)]
    BY <2>7, <2>8
  <2>10. PICK B, A, a : B = Behind(k) /\ A = Behind(k - 1) /\ a = n - k + 1
    OBVIOUS
  <2>11. /\ B \in SUBSET D /\ B # {} /\ Min(B) = a /\ B \ {a} = A
         /\ g[A] = h[A] /\ g[B] # h[B]
    BY <2>2, <2>3, <2>4, <2>6, <2>7, <2>9, <2>10
  <2> HIDE DEF D
  <2>12. g[B] = Override(redir[a], g[A]) /\ h[B] = Override(redir[a], h[A])
    BY <1>5, <1>8, <2>11
  <2> QED
    BY <2>11, <2>12
<1>10. Behind(n) = D /\ n \in 0 .. n
  BY <1>2
<1>11. g[D] = h[D]
  BY <1>9, <1>10
<1> QED
  BY <1>1, <1>7, <1>11 DEF h

-----------------------------------------------------------------------------
(* The script *)

\* What the parser reads of a stage.
Stage == [redir : Redirections, bg : BOOLEAN]

\* What the rules have made of stage i by the time they have read from it to the end:
\* c are its flags, first and last say whether it is the first one they have come to,
\* and the last one of the line.
Agrees(c, i, first, last) ==
    /\ c \in SUBSET Flags
    /\ "PIPE_OUT" \in c <=> ~ last
    /\ "PIPE_IN" \in c <=> ~ first
    /\ "REDIRECT_IN" \in c <=> first /\ Reads(line[i].redir)
    /\ "REDIRECT_OUT" \in c <=> last /\ Writes(line[i].redir)
    /\ "REDIRECT_APPEND" \in c <=> last /\ Appends(line[i].redir)
    /\ "BACKGROUND" \in c <=> \E k \in i .. Len(line) : line[k].bg

\* ScriptWellFormed is not inductive: it speaks of a script that is complete.  The
\* Cmds made so far are those of the last stages of the line.
ScriptInv ==
    /\ phase \in {"loop", "parse", "stringify", "run", "over"}
    /\ running \in BOOLEAN
    /\ line \in Seq(Stage)
    /\ cmds \in Seq(SUBSET Flags)
    /\ Len(cmds) <= Len(line)
    /\ phase \in {"stringify", "run"} => Len(cmds) = Len(line)
    /\ \A j \in 1 .. Len(cmds) :
          Agrees(cmds[j], Len(line) - Len(cmds) + j, j = 1, j = Len(cmds))

\* The flags of a stage by itself.
LEMMA CmdTop ==
  ASSUME NEW stage \in Stage
  PROVE  LET c == cmd_top(stage)
         IN  /\ c \in SUBSET Flags /\ "PIPE_OUT" \notin c /\ "PIPE_IN" \notin c
             /\ "REDIRECT_IN" \in c <=> Reads(stage.redir)
             /\ "REDIRECT_OUT" \in c <=> Writes(stage.redir)
             /\ "REDIRECT_APPEND" \in c <=> Appends(stage.redir)
             /\ "BACKGROUND" \in c <=> stage.bg
<1> DEFINE redir == stage.redir
           D == DOMAIN redir
<1>1. redir \in Seq(Mark) /\ stage.bg \in BOOLEAN
  BY QuashAssumption DEF Stage, Mark
<1>2. cmd_top(stage) = MarkedBy(redir, D) \cup (IF stage.bg THEN {"BACKGROUND"} ELSE {})
  BY <1>1, FoldMarks DEF cmd_top
<1>3. D = 1 .. Len(redir) /\ Len(redir) \in Nat
  BY <1>1
<1>4. /\ "REDIRECT_IN" \in MarkedBy(redir, D) <=> Reads(redir)
      /\ "REDIRECT_OUT" \in MarkedBy(redir, D) <=> Writes(redir)
  BY DEF MarkedBy, Reads, Writes
<1>5. "REDIRECT_APPEND" \in MarkedBy(redir, D) <=> Appends(redir)
  <2>1. ASSUME NEW k \in D
        PROVE  (\A j \in D : j < k => redir[j] = "<") <=> (\A j \in 1 .. k - 1 : redir[j] = "<")
    BY <1>3
  <2> QED
    BY <2>1 DEF MarkedBy, Appends
<1>6. MarkedBy(redir, D) \subseteq {"REDIRECT_IN", "REDIRECT_OUT", "REDIRECT_APPEND"}
  BY DEF MarkedBy
<1> HIDE DEF D, redir
<1> QED
  BY <1>2, <1>4, <1>5, <1>6 DEF Flags, redir

\* The last stage of the line becomes the first Cmd.
LEMMA LastReduced ==
  ASSUME ScriptInv, ReduceLast
  PROVE  ScriptInv'
<1>1. PICK n \in Nat \ {0} : n = Len(line) /\ line[n] \in Stage /\ Last(line) = line[n]
  BY DEF ReduceLast, ScriptInv, Last
<1>2. PICK c : c = cmd_top(line[n])
  OBVIOUS
<1>3. cmds' = <<c>> /\ line' = line /\ phase' = phase /\ running' = running /\ phase = "parse"
  BY <1>1, <1>2 DEF ReduceLast, Parsing
<1>4. c \in SUBSET Flags
  BY <1>1, <1>2, CmdTop
<1>5. cmds' \in Seq(SUBSET Flags) /\ Len(cmds') = 1 /\ cmds'[1] = c
  BY <1>3, <1>4
<1>6. \A k \in n .. n : k = n
  BY <1>1
<1>7. Agrees(c, n, TRUE, TRUE)
  BY <1>1, <1>2, <1>6, CmdTop DEF Agrees
<1>8. Agrees(c, n, TRUE, TRUE)'
  BY <1>3, <1>7 DEF Agrees
<1>9. ASSUME NEW j \in 1 .. 1
      PROVE  Agrees(cmds[j], Len(line) - Len(cmds) + j, j = 1, j = Len(cmds))'
  <2>1. j = 1 /\ Len(line') - Len(cmds') + j = n
    BY <1>1, <1>3, <1>5
  <2> QED
    BY <1>5, <1>8, <2>1 DEF Agrees
<1>10. line' \in Seq(Stage) /\ Len(cmds') <= Len(line') /\ running' \in BOOLEAN
  BY <1>1, <1>3, <1>5 DEF ScriptInv
<1> QED
  BY <1>3, <1>5, <1>9, <1>10 DEF ScriptInv

\* The stage on the left of a pipe becomes the first Cmd, and the one that was first
\* the second.
LEMMA PipeReduced ==
  ASSUME ScriptInv, ReducePipe
  PROVE  ScriptInv'
<1>1. PICK n \in Nat, m \in Nat : n = Len(line) /\ m = Len(cmds) /\ m # 0 /\ m < n
  BY DEF ReducePipe, ScriptInv
<1>2. PICK i : i = n - m /\ i \in Nat /\ i \in 1 .. n /\ line[i] \in Stage
  <2>1. n - m \in Nat /\ n - m \in 1 .. n
    BY <1>1
  <2>2. line \in Seq(Stage)
    BY DEF ScriptInv
  <2>3. line[n - m] \in Stage
    BY <1>1, <2>1, <2>2
  <2> QED
    BY <2>1, <2>3
<1>3. PICK stage, prev, new, old :
        /\ stage = cmd_top(line[i]) /\ prev = Head(cmds)
        /\ new = PipeTo(stage, prev) /\ old = PipeFrom(prev)
  OBVIOUS
<1>4. cmds' = <<new, old>> \o Tail(cmds) /\ line' = line /\ phase' = phase /\ running' = running
      /\ phase = "parse"
  BY <1>1, <1>2, <1>3 DEF ReducePipe, Parsing
<1>5. prev = cmds[1] /\ Agrees(prev, i + 1, TRUE, m = 1)
  <2>1. prev = cmds[1]
    BY <1>1, <1>3 DEF ScriptInv
  <2>2. 1 \in 1 .. m /\ n - m + 1 = i + 1 /\ (1 = m <=> m = 1)
    BY <1>1, <1>2
  <2> QED
    BY <1>1, <2>1, <2>2 DEF ScriptInv
<1>6. Agrees(new, i, TRUE, FALSE)
  <2>1. (\E k \in i .. n : line[k].bg) <=> line[i].bg \/ (\E k \in i + 1 .. n : line[k].bg)
    BY <1>2
  <2>2. /\ stage \in SUBSET Flags /\ "PIPE_OUT" \notin stage /\ "PIPE_IN" \notin stage
        /\ "REDIRECT_IN" \in stage <=> Reads(line[i].redir)
        /\ "BACKGROUND" \in stage <=> line[i].bg
    BY <1>2, <1>3, CmdTop
  <2>3. "BACKGROUND" \in prev <=> \E k \in i + 1 .. n : line[k].bg
    BY <1>1, <1>5 DEF Agrees
  <2> QED
    BY <1>1, <1>3, <2>1, <2>2, <2>3 DEF Agrees, PipeTo, Flags
<1>7. Agrees(old, i + 1, FALSE, m = 1)
  BY <1>3, <1>5 DEF Agrees, PipeFrom, Flags
<1>8. /\ cmds' \in Seq(SUBSET Flags) /\ Len(cmds') = m + 1
      /\ cmds'[1] = new /\ cmds'[2] = old
      /\ \A j \in 3 .. m + 1 : cmds'[j] = cmds[j - 1]
  <2>1. new \in SUBSET Flags /\ old \in SUBSET Flags
    BY <1>6, <1>7 DEF Agrees
  <2>2. PICK front, rest : front = <<new, old>> /\ rest = Tail(cmds)
    OBVIOUS
  <2>3. front \in Seq(SUBSET Flags) /\ Len(front) = 2 /\ front[1] = new /\ front[2] = old
    BY <2>1, <2>2
  <2>4. /\ rest \in Seq(SUBSET Flags) /\ Len(rest) = m - 1
        /\ \A j \in 1 .. m - 1 : rest[j] = cmds[j + 1]
    BY <1>1, <2>2 DEF ScriptInv
  <2>5. /\ cmds' \in Seq(SUBSET Flags) /\ Len(cmds') = Len(front) + Len(rest)
        /\ \A j \in 1 .. Len(front) + Len(rest) :
              cmds'[j] = IF j <= Len(front) THEN front[j] ELSE rest[j - Len(front)]
    <3>1. PICK w : w = front \o rest
      OBVIOUS
    <3>2. cmds' = w
      BY <1>4, <2>2, <3>1
    <3>3. /\ w \in Seq(SUBSET Flags) /\ Len(w) = Len(front) + Len(rest)
          /\ \A j \in 1 .. Len(front) + Len(rest) :
                w[j] = IF j <= Len(front) THEN front[j] ELSE rest[j - Len(front)]
      BY <2>3, <2>4, <3>1, ConcatProperties
    <3> QED
      BY <3>2, <3>3
  <2>6. Len(front) + Len(rest) = m + 1
    BY <1>1, <2>3, <2>4
  <2>7. \A j \in 1 .. m + 1 : cmds'[j] = IF j <= 2 THEN front[j] ELSE rest[j - 2]
    BY <2>3, <2>5, <2>6
  <2>8. ASSUME NEW j \in 3 .. m + 1 PROVE cmds'[j] = cmds[j - 1]
    <3>1. j \in 1 .. m + 1 /\ ~ j <= 2 /\ j - 2 \in 1 .. m - 1 /\ (j - 2) + 1 = j - 1
      BY <1>1
    <3> QED
      BY <2>4, <2>7, <3>1
  <2>9. cmds'[1] = front[1] /\ cmds'[2] = front[2]
    BY <1>1, <2>7
  <2> QED
    BY <2>3, <2>5, <2>6, <2>8, <2>9
<1>9. ASSUME NEW j \in 1 .. m + 1
      PROVE  Agrees(cmds'[j], n - (m + 1) + j, j = 1, j = m + 1)
  <2>1. CASE j = 1
    <3>1. n - (m + 1) + j = i /\ ((j = m + 1) <=> FALSE)
      BY <1>1, <1>2, <2>1
    <3> QED
      BY <1>6, <1>8, <2>1, <3>1 DEF Agrees
  <2>2. CASE j = 2
    <3>1. n - (m + 1) + j = i + 1
      BY <1>1, <1>2, <2>2
    <3>2. (j = m + 1 <=> m = 1) /\ ~ j = 1
      BY <1>1, <2>2
    <3> QED
      BY <1>7, <1>8, <2>2, <3>1, <3>2 DEF Agrees
  <2>3. CASE j \in 3 .. m + 1
    <3>1. n - (m + 1) + j = n - m + (j - 1) /\ j - 1 \in 1 .. m /\ (j = m + 1 <=> j - 1 = m)
          /\ ~ j = 1 /\ ~ j - 1 = 1
      BY <1>1, <2>3
    <3>2. Agrees(cmds[j - 1], n - m + (j - 1), j - 1 = 1, j - 1 = m)
      BY <1>1, <3>1 DEF ScriptInv
    <3> QED
      BY <1>8, <2>3, <3>1, <3>2 DEF Agrees
  <2> QED
    BY <1>1, <2>1, <2>2, <2>3
<1>10. ASSUME NEW j \in 1 .. m + 1
       PROVE  Agrees(cmds[j], n - (m + 1) + j, j = 1, j = m + 1)'
  BY <1>4, <1>9 DEF Agrees
<1>11. Len(line') = n /\ Len(cmds') <= Len(line')
  BY <1>1, <1>4, <1>8
<1> QED
  BY <1>1, <1>4, <1>8, <1>10, <1>11 DEF ScriptInv

\* A line or a script that is dropped leaves nothing.
LEMMA Dropped ==
  ASSUME ScriptInv, line' = <<>>, cmds' = <<>>, running' \in BOOLEAN,
         phase' \in {"loop", "parse", "over"}
  PROVE  ScriptInv'
<1>1. line' \in Seq(Stage) /\ cmds' \in Seq(SUBSET Flags) /\ Len(line') = 0 /\ Len(cmds') = 0
  BY EmptySeq
<1>2. ~ \E j : j \in 1 .. Len(cmds')
  BY <1>1
<1> QED
  BY <1>1, <1>2 DEF ScriptInv

\* A step that leaves the line and its Cmds.
LEMMA Continued ==
  ASSUME ScriptInv, UNCHANGED <<line, cmds>>, running' \in BOOLEAN,
         phase' \in {"loop", "parse", "stringify", "run", "over"},
         phase' \in {"stringify", "run"} => Len(cmds) = Len(line)
  PROVE  ScriptInv'
BY DEF ScriptInv, Agrees

\* One stage more on the right.
LEMMA StageRead ==
  ASSUME ScriptInv, NEW redir \in Redirections, NEW bg \in BOOLEAN, ReadStage(redir, bg)
  PROVE  ScriptInv'
<1>1. PICK stage \in Stage : stage = [redir |-> redir, bg |-> bg]
  BY DEF Stage
<1>2. /\ line \in Seq(Stage) /\ line' = Append(line, stage) /\ cmds = <<>> /\ cmds' = cmds
      /\ phase = "parse" /\ phase' = phase /\ running' = running
  BY <1>1 DEF ScriptInv, ReadStage, Parsing
<1>3. line' \in Seq(Stage) /\ Len(line') \in Nat
  BY <1>2, AppendProperties
<1>4. Len(cmds') = 0 /\ ~ \E j : j \in 1 .. 0
  BY <1>2, EmptySeq
<1> QED
  BY <1>2, <1>3, <1>4 DEF ScriptInv

\* The loop starts without a line.
LEMMA ScriptInvInit == QuashInit => ScriptInv
<1> SUFFICES ASSUME QuashInit PROVE ScriptInv
  OBVIOUS
<1>1. line \in Seq(Stage) /\ cmds \in Seq(SUBSET Flags) /\ Len(line) = 0 /\ Len(cmds) = 0
  BY EmptySeq DEF QuashInit
<1>2. ~ \E j : j \in 1 .. Len(cmds)
  BY <1>1
<1> QED
  BY <1>1, <1>2 DEF ScriptInv, QuashInit

\* Every step of the main loop and of the parser keeps the invariant of the script.
LEMMA ScriptInvStep == ScriptInv /\ [QuashNext]_quashVars => ScriptInv'
<1> SUFFICES ASSUME ScriptInv, [QuashNext]_quashVars PROVE ScriptInv'
  OBVIOUS
<1>0. /\ running \in BOOLEAN /\ phase \in {"loop", "parse", "stringify", "run", "over"}
      /\ phase \in {"stringify", "run"} => Len(cmds) = Len(line)
  BY DEF ScriptInv
<1>1. CASE Leave
  BY <1>0, <1>1, Dropped DEF Leave
<1>2. CASE LoopStart
  BY <1>0, <1>1, <1>2, Continued DEF LoopStart
<1>3. CASE MemoryStep
  BY <1>0, <1>1, <1>3, Continued DEF MemoryStep
<1>4. ASSUME NEW size \in Sizes, ParserAlloc(size) \/ Stringify(size) PROVE ScriptInv'
  BY <1>0, <1>4, Continued DEF ParserAlloc, Stringify
<1>5. ASSUME NEW redir \in Redirections, NEW bg \in BOOLEAN, ReadStage(redir, bg) PROVE ScriptInv'
  BY <1>5, StageRead
<1>6. CASE ReduceLast \/ ReducePipe
  BY <1>6, LastReduced, PipeReduced
<1>7. ASSUME NEW end \in BOOLEAN, Accept(end) PROVE ScriptInv'
  <2>1. running' \in BOOLEAN
    BY <1>7, Zenon DEF Accept
  <2> QED
    BY <1>7, <2>1, Continued DEF Accept
<1>8. ASSUME NEW error \in BOOLEAN, NEW end \in BOOLEAN, NoScript(error, end) PROVE ScriptInv'
  <2>1. running' \in BOOLEAN
    BY <1>8, Zenon DEF NoScript
  <2> QED
    BY <1>8, <2>1, Dropped DEF NoScript, Parsing
<1>9. ASSUME NEW exits \in BOOLEAN, RunScript(exits) PROVE ScriptInv'
  <2>1. running' \in BOOLEAN
    BY <1>9, Zenon DEF RunScript
  <2> QED
    BY <1>9, <2>1, Dropped DEF RunScript
<1>10. CASE Quit \/ UNCHANGED quashVars
  BY <1>0, <1>10, Continued DEF Quit, quashVars
<1> QED
  BY <1>1, <1>2, <1>3, <1>4, <1>5, <1>6, <1>7, <1>8, <1>9, <1>10 DEF QuashNext

\* When all stages have become Cmds, they are the script that is promised.
LEMMA ScriptAgrees == ScriptInv /\ QuashInv => ScriptWellFormed
<1> SUFFICES ASSUME ScriptInv, QuashInv, phase = "run" PROVE ScriptWellFormed
  BY DEF ScriptWellFormed
<1>1. PICK n \in Nat : n = Len(line) /\ n = Len(cmds)
  BY DEF ScriptInv
<1>2. ASSUME NEW i \in 1 .. n PROVE Agrees(cmds[i], i, i = 1, i = n)
  <2>1. n - n + i = i
    BY <1>1
  <2> QED
    BY <1>1, <2>1 DEF ScriptInv
<1>3. \A i \in 1 .. n : /\ ~ i = n <=> i < n
                        /\ ~ i = 1 <=> i > 1
  BY <1>1
<1>4. pools # <<>>
  BY DEF QuashInv
<1> QED
  BY <1>1, <1>2, <1>3, <1>4, Zenon DEF ScriptWellFormed, Agrees

\* Both invariants give the types.
LEMMA QuashTypes == ScriptInv /\ QuashInv => QuashTypeOK
BY DEF ScriptInv, QuashInv, PoolInv, QuashTypeOK, Stage

\* Whatever the pipeline, the marks of its stages and the &: what run_script gets says
\* what was typed, and its memory is still there.
THEOREM ScriptIsWellFormed == QuashSpec => []ScriptWellFormed
BY QuashInvInit, QuashInvStep, ScriptInvInit, ScriptInvStep, ScriptAgrees, PTL DEF QuashSpec
=============================================================================
