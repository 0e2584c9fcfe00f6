--------------------------- MODULE PriQueueProofs ---------------------------
(***************************************************************************)
(* Proofs about PriQueue, for every set of elements, priorities and number *)
(* of nodes, and a client that does not remove the last of several         *)
(* elements by its index: the links stay those of a list ordered by        *)
(* priority, size counts it, and every call is that call of PriorityList.  *)
(***************************************************************************)
EXTENDS PriQueue, SequenceTheorems, FiniteSetTheorems, WellFoundedInduction, TLAPS

-----------------------------------------------------------------------------
(* Lists of nodes *)

\* The nodes of s, front first, are what the links of h connect.
Linked(h, s) ==
    /\ s \in Seq(Nodes)
    /\ \A i, j \in DOMAIN s : s[i] = s[j] => i = j
    /\ h.size = Len(s)
    /\ h.top = IF s = <<>> THEN NULL ELSE s[1]
    /\ s # <<>> => h.tail = s[Len(s)]
    /\ \A i \in DOMAIN s : /\ h.prev[s[i]] = IF i = 1 THEN NULL ELSE s[i - 1]
                           /\ h.next[s[i]] = IF i = Len(s) THEN NULL ELSE s[i + 1]

\* What q is of the type; that size is within its bounds follows from Linked.
Heap == [top : Nodes \cup {NULL}, tail : Nodes \cup {NULL}, size : Int,
         next : [Nodes -> Nodes \cup {NULL}], prev : [Nodes -> Nodes \cup {NULL}]]

\* A set of numbers that is not empty has a least one.
LEMMA LeastNumber ==
  ASSUME NEW T, T \subseteq Nat, T # {}
  PROVE  \E n \in T : \A m \in T : n <= m
<1> DEFINE R == {ss \in Nat \X Nat : ss[1] < ss[2]}
<1>1. R = OpToRel(<, Nat)
  BY Zenon DEF OpToRel
<1>2. IsWellFoundedOn(OpToRel(<, Nat), Nat)
  BY NatLessThanWellFounded, Zenon
<1>3. IsWellFoundedOn(R, Nat)
  BY <1>1, <1>2
<1>4. \A n, m \in Nat : m < n => <<m, n>> \in R
  OBVIOUS
<1> HIDE DEF R
<1>5. PICK n \in T : \A m \in T : <<m, n>> \notin R
  BY <1>3, WFMin
<1>6. \A m \in T : n \in Nat /\ m \in Nat /\ ~ m < n
  BY <1>4, <1>5
<1> QED
  BY <1>6

\* Induction over the numbers up to n, for a set in place of a predicate.
LEMMA UpTo ==
  ASSUME NEW n \in Nat, NEW T, 0 \in T, \A k \in 1 .. n : k - 1 \in T => k \in T
  PROVE  \A k \in 0 .. n : k \in T
<1> DEFINE U == {k \in 0 .. n : k \notin T}
<1> SUFFICES ASSUME U # {} PROVE FALSE
  OBVIOUS
<1>1. PICK k \in U : \A j \in U : k <= j
  <2>1. U \subseteq Nat
    OBVIOUS
  <2> HIDE DEF U
  <2> QED
    BY <2>1, LeastNumber
<1>2. k \in 0 .. n /\ k \notin T
  OBVIOUS
<1>3. k \in 1 .. n /\ k - 1 \in 0 .. n /\ ~ k <= k - 1
  BY <1>2
<1>4. k - 1 \in T
  BY <1>1, <1>3
<1> QED
  BY <1>2, <1>3, <1>4

\* Following the links of h from the top leads through s and then stays at NULL.
LEMMA WalkIs ==
  ASSUME NEW h, NEW s, Linked(h, s), NEW f,
         f = CHOOSE g : g = [i \in 0 .. MaxNodes |->
                 IF i = 0 THEN h.top ELSE IF g[i - 1] = NULL THEN NULL ELSE h.next[g[i - 1]]]
  PROVE  \A i \in 0 .. MaxNodes : f[i] = IF i < Len(s) THEN s[i + 1] ELSE NULL
<1> DEFINE n == Len(s)
           Walks(g) == g = [i \in 0 .. MaxNodes |->
                 IF i = 0 THEN h.top ELSE IF g[i - 1] = NULL THEN NULL ELSE h.next[g[i - 1]]]
           w == [i \in 0 .. MaxNodes |-> IF i < n THEN s[i + 1] ELSE NULL]
<1>1. /\ n \in Nat /\ DOMAIN s = 1 .. n /\ MaxNodes \in Nat
      /\ \A i \in 1 .. n : s[i] # NULL
      /\ s # <<>> <=> n > 0
  BY QueueAssumption DEF Linked, Nodes, NULL
<1>2. \A i \in 0 .. MaxNodes :
         w[i] = IF i = 0 THEN h.top ELSE IF w[i - 1] = NULL THEN NULL ELSE h.next[w[i - 1]]
  <2> SUFFICES ASSUME NEW i \in 0 .. MaxNodes
               PROVE  w[i] = IF i = 0 THEN h.top
                             ELSE IF w[i - 1] = NULL THEN NULL ELSE h.next[w[i - 1]]
    OBVIOUS
  <2>1. CASE i = 0
    BY <1>1, <2>1 DEF Linked
  <2>2. CASE i # 0
    <3>1. i - 1 \in 0 .. MaxNodes /\ w[i - 1] = IF i <= n THEN s[i] ELSE NULL
      BY <1>1, <2>2
    <3>2. w[i] = IF i < n THEN s[i + 1] ELSE NULL
      OBVIOUS
    <3> HIDE DEF w
    <3>3. CASE i <= n
      <4>1. PICK m \in Nat : m = n
        BY <1>1
      <4>2. i \in 1 .. n /\ (i = n <=> ~ i < n)
        <5>1. i \in 1 .. m /\ (i = m <=> ~ i < m)
          BY <2>2, <3>3, <4>1
        <5> QED
          BY <4>1, <5>1
      <4>3. h.next[s[i]] = IF i = n THEN NULL ELSE s[i + 1]
        BY <1>1, <4>2 DEF Linked
      <4> QED
        BY <1>1, <2>2, <3>1, <3>2, <3>3, <4>2, <4>3
    <3>4. CASE ~ i <= n
      BY <1>1, <2>2, <3>1, <3>2, <3>4
    <3> QED
      BY <3>3, <3>4
  <2> QED
    BY <2>1, <2>2
<1>3. w = [i \in 0 .. MaxNodes |-> w[i]]
  OBVIOUS
<1>4. \A i \in 0 .. MaxNodes : w[i] = IF i < n THEN s[i + 1] ELSE NULL
  OBVIOUS
<1> HIDE DEF w
<1>5. Walks(w)
  BY <1>2, <1>3
<1> HIDE DEF Walks
<1>6. Walks(f)
  BY <1>5, Zenon DEF Walks
<1>7. \A i \in 0 .. MaxNodes :
         f[i] = IF i = 0 THEN h.top ELSE IF f[i - 1] = NULL THEN NULL ELSE h.next[f[i - 1]]
  BY <1>6 DEF Walks
<1> DEFINE T == {i \in 0 .. MaxNodes : f[i] = w[i]}
<1>8. \A i \in 0 .. MaxNodes : i \in T
  <2>1. 0 \in T
    BY <1>1, <1>2, <1>7
  <2>2. ASSUME NEW k \in 1 .. MaxNodes, k - 1 \in T PROVE k \in T
    <3>1. k \in 0 .. MaxNodes /\ k # 0 /\ k - 1 \in 0 .. MaxNodes /\ f[k - 1] = w[k - 1]
      BY <2>2
    <3> QED
      BY <1>2, <1>7, <3>1
  <2> HIDE DEF T
  <2> QED
    BY <1>1, <2>1, <2>2, UpTo
<1> QED
  BY <1>4, <1>8

\* So the chain of nodes is s.
LEMMA ChainOf ==
  ASSUME NEW h, NEW s, Linked(h, s), Len(s) <= MaxNodes, NEW f,
         \A i \in 0 .. MaxNodes : f[i] = IF i < Len(s) THEN s[i + 1] ELSE NULL
  PROVE  LET length == Cardinality({i \in 0 .. MaxNodes - 1 : f[i] # NULL})
         IN  [i \in 1 .. length |-> f[i - 1]] = s
<1> DEFINE n == Len(s)
<1>1. n \in Nat /\ DOMAIN s = 1 .. n /\ MaxNodes \in Nat /\ \A i \in 1 .. n : s[i] \in Nodes /\ s[i] # NULL
  BY QueueAssumption DEF Linked, Nodes, NULL
<1>2. {i \in 0 .. MaxNodes - 1 : f[i] # NULL} = 0 .. n - 1
  <2>1. ASSUME NEW i \in 0 .. MaxNodes - 1 PROVE f[i] # NULL <=> i < n
    <3>1. i \in 0 .. MaxNodes /\ (i < n => i + 1 \in 1 .. n)
      BY <1>1
    <3> QED
      BY <1>1, <3>1
  <2> QED
    BY <1>1, <2>1
<1>3. Cardinality(0 .. n - 1) = n
  <2>1. PICK m \in Nat : m = n
    BY <1>1
  <2>2. Cardinality(0 .. m - 1) = IF 0 > m - 1 THEN 0 ELSE (m - 1) - 0 + 1
    <3>1. 0 \in Int /\ m - 1 \in Int
      OBVIOUS
    <3> QED
      BY <3>1, FS_Interval
  <2> QED
    BY <2>1, <2>2
<1>4. \A i \in 1 .. n : f[i - 1] = s[i]
  <2>1. ASSUME NEW i \in 1 .. n PROVE f[i - 1] = s[i]
    <3>1. i - 1 \in 0 .. MaxNodes /\ i - 1 < n /\ (i - 1) + 1 = i
      BY <1>1
    <3> QED
      BY <3>1
  <2> QED
    BY <2>1
<1>5. s = [i \in 1 .. n |-> s[i]]
  BY <1>1 DEF Linked
<1> QED
  BY <1>2, <1>3, <1>4, <1>5

\* In this state and in the next one.
LEMMA ChainIs ==
  ASSUME NEW s, Linked(q, s), Len(s) <= MaxNodes
  PROVE  /\ Chain = s
         /\ \A i \in 0 .. MaxNodes : nth[i] = IF i < Len(s) THEN s[i + 1] ELSE NULL
<1>1. nth = CHOOSE g : g = [i \in 0 .. MaxNodes |->
                 IF i = 0 THEN q.top ELSE IF g[i - 1] = NULL THEN NULL ELSE q.next[g[i - 1]]]
  BY DEF nth
<1>2. PICK f : f = nth
  OBVIOUS
<1>3. \A i \in 0 .. MaxNodes : f[i] = IF i < Len(s) THEN s[i + 1] ELSE NULL
  BY <1>1, <1>2, WalkIs
<1>4. Chain = s
  BY <1>2, <1>3, ChainOf DEF Chain
<1> QED
  BY <1>2, <1>3, <1>4

\* The same of the next state.
LEMMA NextChainIs ==
  ASSUME NEW s, Linked(q', s), Len(s) <= MaxNodes
  PROVE  Chain' = s
<1>1. nth' = CHOOSE g : g = [i \in 0 .. MaxNodes |->
                 IF i = 0 THEN q'.top ELSE IF g[i - 1] = NULL THEN NULL ELSE q'.next[g[i - 1]]]
  BY DEF nth
<1>2. PICK f : f = nth'
  OBVIOUS
<1>3. \A i \in 0 .. MaxNodes : f[i] = IF i < Len(s) THEN s[i + 1] ELSE NULL
  BY <1>1, <1>2, WalkIs
<1> QED
  BY <1>2, <1>3, ChainOf DEF Chain

-----------------------------------------------------------------------------
(* One element more or less *)

\* e is put behind the first k elements of s.
Inserted(s, k, e) ==
    [i \in 1 .. Len(s) + 1 |-> IF i <= k THEN s[i] ELSE IF i = k + 1 THEN e ELSE s[i - 1]]

\* The k-th element of s is taken out.
Dropped(s, k) == [i \in 1 .. Len(s) - 1 |-> IF i < k THEN s[i] ELSE s[i + 1]]

\* Inserted is a sequence, one longer.
LEMMA InsertedIs ==
  ASSUME NEW S, NEW s \in Seq(S), NEW e \in S, NEW k \in 0 .. Len(s)
  PROVE  /\ Inserted(s, k, e) \in Seq(S) /\ Len(Inserted(s, k, e)) = Len(s) + 1
         /\ Inserted(s, k, e) # <<>> /\ DOMAIN Inserted(s, k, e) = 1 .. Len(s) + 1
         /\ \A i \in 1 .. Len(s) + 1 :
              Inserted(s, k, e)[i] = IF i <= k THEN s[i] ELSE IF i = k + 1 THEN e ELSE s[i - 1]
<1>1. PICK n \in Nat : n = Len(s) /\ \A i \in 1 .. n : s[i] \in S
  OBVIOUS
<1>2. PICK t : t = Inserted(s, k, e)
  OBVIOUS
<1>3. t = [i \in 1 .. n + 1 |-> IF i <= k THEN s[i] ELSE IF i = k + 1 THEN e ELSE s[i - 1]]
  BY <1>1, <1>2 DEF Inserted
<1>4. \A i \in 1 .. n + 1 : t[i] \in S
  <2> SUFFICES ASSUME NEW i \in 1 .. n + 1
               PROVE  (IF i <= k THEN s[i] ELSE IF i = k + 1 THEN e ELSE s[i - 1]) \in S
    BY <1>3
  <2>1. CASE i <= k
    BY <1>1, <2>1
  <2>2. CASE ~ i <= k /\ i # k + 1
    <3>1. i - 1 \in 1 .. n
      BY <1>1, <2>2
    <3> QED
      BY <1>1, <2>2, <3>1
  <2> QED
    BY <2>1, <2>2
<1>5. t \in [1 .. n + 1 -> S]
  <2>1. t = [i \in 1 .. n + 1 |-> t[i]]
    BY <1>3
  <2> QED
    BY <1>4, <2>1
<1>6. t \in Seq(S) /\ Len(t) = n + 1
  BY <1>5, SeqDef
<1>7. t # <<>>
  BY <1>6
<1> QED
  BY <1>1, <1>2, <1>3, <1>6, <1>7

\* Dropped is a sequence, one shorter.
LEMMA DroppedIs ==
  ASSUME NEW S, NEW s \in Seq(S), NEW k \in 1 .. Len(s)
  PROVE  /\ Dropped(s, k) \in Seq(S) /\ Len(Dropped(s, k)) = Len(s) - 1
         /\ DOMAIN Dropped(s, k) = 1 .. Len(s) - 1
         /\ \A i \in 1 .. Len(s) - 1 : Dropped(s, k)[i] = IF i < k THEN s[i] ELSE s[i + 1]
<1>1. PICK n \in Nat : n = Len(s) /\ \A i \in 1 .. n : s[i] \in S
  OBVIOUS
<1>2. PICK t : t = Dropped(s, k)
  OBVIOUS
<1>3. t = [i \in 1 .. n - 1 |-> IF i < k THEN s[i] ELSE s[i + 1]]
  BY <1>1, <1>2 DEF Dropped
<1>4. \A i \in 1 .. n - 1 : t[i] \in S
  <2> SUFFICES ASSUME NEW i \in 1 .. n - 1 PROVE s[i] \in S /\ s[i + 1] \in S
    BY <1>3
  <2>1. i \in 1 .. n /\ i + 1 \in 1 .. n
    BY <1>1
  <2> QED
    BY <1>1, <2>1
<1>5. t \in [1 .. n - 1 -> S]
  <2>1. t = [i \in 1 .. n - 1 |-> t[i]]
    BY <1>3
  <2> QED
    BY <1>4, <2>1
<1>6. n - 1 \in Nat
  BY <1>1
<1>7. t \in Seq(S) /\ Len(t) = n - 1
  BY <1>5, <1>6, SeqDef
<1> QED
  BY <1>1, <1>2, <1>3, <1>7

\* What Unlink changes, in one formula for its four cases.
LEMMA UnlinkIs ==
  ASSUME NEW h \in Heap, NEW n \in Nodes, NEW p, NEW x, p = h.prev[n], x = h.next[n]
  PROVE  /\ Unlink(h, n) \in Heap
         /\ Unlink(h, n).size = h.size - 1
         /\ Unlink(h, n).top = IF p = NULL THEN x ELSE h.top
         /\ Unlink(h, n).tail = IF x = NULL /\ p # NULL THEN p ELSE h.tail
         /\ Unlink(h, n).prev = IF x = NULL THEN h.prev ELSE [h.prev EXCEPT ![x] = p]
         /\ Unlink(h, n).next = IF p = NULL THEN h.next ELSE [h.next EXCEPT ![p] = x]
<1>1. p \in Nodes \cup {NULL} /\ x \in Nodes \cup {NULL} /\ h.size - 1 \in Int
  BY DEF Heap
<1>2. CASE p = NULL /\ x = NULL
  BY <1>1, <1>2 DEF Unlink, Heap
<1>3. CASE p = NULL /\ x # NULL
  BY <1>1, <1>3 DEF Unlink, Heap
<1>4. CASE p # NULL /\ x = NULL
  BY <1>1, <1>4 DEF Unlink, Heap
<1>5. CASE p # NULL /\ x # NULL
  BY <1>1, <1>5 DEF Unlink, Heap
<1> QED
  BY <1>2, <1>3, <1>4, <1>5

\* Unlinking the k-th node leaves the others in their order.
LEMMA UnlinkDrops ==
  ASSUME NEW h \in Heap, NEW s, Linked(h, s), NEW k \in 1 .. Len(s)
  PROVE  Linked(Unlink(h, s[k]), Dropped(s, k))
<1>1. PICK n : n = Len(s)
  OBVIOUS
<1>2. /\ n = Len(s) /\ n \in Nat /\ DOMAIN s = 1 .. n /\ k \in 1 .. n
      /\ \A i \in 1 .. n : s[i] \in Nodes /\ s[i] # NULL
  <2>1. s \in Seq(Nodes)
    BY DEF Linked
  <2>2. /\ Len(s) \in Nat /\ DOMAIN s = 1 .. Len(s)
        /\ \A i \in 1 .. Len(s) : s[i] \in Nodes
    BY <2>1
  <2>3. \A m \in Nodes : m # NULL
    BY DEF Nodes, NULL
  <2> QED
    BY <1>1, <2>2, <2>3
<1>3. PICK p, x : /\ p = h.prev[s[k]] /\ x = h.next[s[k]]
                  /\ p = IF k = 1 THEN NULL ELSE s[k - 1]
                  /\ x = IF k = n THEN NULL ELSE s[k + 1]
  BY <1>2 DEF Linked
<1>4. (p = NULL <=> k = 1) /\ (x = NULL <=> k = n)
  <2>1. k # 1 => k - 1 \in 1 .. n
    BY <1>2
  <2>2. k # n => k + 1 \in 1 .. n
    BY <1>2
  <2> QED
    BY <1>2, <1>3, <2>1, <2>2
<1>5. PICK g : g = Unlink(h, s[k])
  OBVIOUS
<1>6.          /\ g = Unlink(h, s[k])
               /\ g.size = h.size - 1
               /\ g.top = IF p = NULL THEN x ELSE h.top
               /\ g.tail = IF x = NULL /\ p # NULL THEN p ELSE h.tail
               /\ g.prev = IF x = NULL THEN h.prev ELSE [h.prev EXCEPT ![x] = p]
               /\ g.next = IF p = NULL THEN h.next ELSE [h.next EXCEPT ![p] = x]
  <2>1. s[k] \in Nodes
    BY <1>2
  <2>2. PICK a \in Nodes : a = s[k]
    BY <2>1
  <2>3. p = h.prev[a] /\ x = h.next[a] /\ g = Unlink(h, a)
    BY <1>5, <1>3, <2>2
  <2>4. /\ Unlink(h, a).size = h.size - 1
        /\ Unlink(h, a).top = IF p = NULL THEN x ELSE h.top
        /\ Unlink(h, a).tail = IF x = NULL /\ p # NULL THEN p ELSE h.tail
        /\ Unlink(h, a).prev = IF x = NULL THEN h.prev ELSE [h.prev EXCEPT ![x] = p]
        /\ Unlink(h, a).next = IF p = NULL THEN h.next ELSE [h.next EXCEPT ![p] = x]
    BY <2>3, UnlinkIs
  <2> QED
    BY <2>2, <2>3, <2>4
<1>7. PICK t : t = Dropped(s, k)
  OBVIOUS
<1>8.          /\ t = Dropped(s, k)
               /\ t \in Seq(Nodes) /\ Len(t) = n - 1 /\ DOMAIN t = 1 .. n - 1
               /\ \A i \in 1 .. n - 1 : t[i] = IF i < k THEN s[i] ELSE s[i + 1]
  <2>1. s \in Seq(Nodes) /\ k \in 1 .. Len(s)
    BY DEF Linked
  <2> QED
    BY <1>2, <1>7, <2>1, DroppedIs
<1>9. \A i, j \in 1 .. n : s[i] = s[j] => i = j
  BY <1>2 DEF Linked
<1>10. \A i, j \in DOMAIN t : t[i] = t[j] => i = j
  <2> SUFFICES ASSUME NEW i \in 1 .. n - 1, NEW j \in 1 .. n - 1, t[i] = t[j] PROVE i = j
    BY <1>8
  <2> DEFINE a == IF i < k THEN i ELSE i + 1
             b == IF j < k THEN j ELSE j + 1
  <2>1. a \in 1 .. n /\ b \in 1 .. n /\ (a = b => i = j)
    BY <1>2
  <2>2. t[i] = s[a] /\ t[j] = s[b]
    BY <1>8
  <2> QED
    BY <1>9, <2>1, <2>2
<1>11. g.size = n - 1
  BY <1>2, <1>6 DEF Linked
<1>12. g.top = IF t = <<>> THEN NULL ELSE t[1]
  <2>1. t = <<>> <=> n = 1
    BY <1>2, <1>8
  <2>2. h.top = s[1]
    BY <1>2 DEF Linked
  <2>3. n # 1 => 1 \in 1 .. n - 1
    BY <1>2
  <2>4. CASE k = 1
    BY <1>3, <1>4, <1>6, <1>8, <2>1, <2>3, <2>4
  <2>5. CASE k # 1
    <3>1. n # 1 /\ 1 < k
      BY <1>2, <2>5
    <3> QED
      BY <1>4, <1>6, <1>8, <2>1, <2>2, <2>3, <2>5, <3>1
  <2> QED
    BY <2>4, <2>5
<1>13. t # <<>> => g.tail = t[Len(t)]
  <2> SUFFICES ASSUME t # <<>> PROVE g.tail = t[n - 1]
    BY <1>8
  <2>1. n # 1 /\ n - 1 \in 1 .. n - 1 /\ (n - 1) + 1 = n
    BY <1>2, <1>8
  <2>2. h.tail = s[n]
    BY <1>2 DEF Linked
  <2>3. CASE k = n
    <3>1. n - 1 < k /\ k # 1
      BY <1>2, <2>1, <2>3
    <3>2. g.tail = s[k - 1]
      BY <1>3, <1>4, <1>6, <2>3, <3>1
    <3> QED
      BY <1>8, <2>1, <2>3, <3>1, <3>2
  <2>4. CASE k # n
    <3>1. ~ n - 1 < k
      BY <1>2, <2>4
    <3> QED
      BY <1>4, <1>6, <1>8, <2>1, <2>2, <2>4, <3>1
  <2> QED
    BY <2>3, <2>4
<1>14. \A i \in 1 .. n : /\ h.prev[s[i]] = IF i = 1 THEN NULL ELSE s[i - 1]
                         /\ h.next[s[i]] = IF i = n THEN NULL ELSE s[i + 1]
  BY <1>2 DEF Linked
<1>15. /\ \A i \in 1 .. n : g.prev[s[i]] = IF i = k + 1 THEN p ELSE h.prev[s[i]]
       /\ \A i \in 1 .. n : g.next[s[i]] = IF i = k - 1 THEN x ELSE h.next[s[i]]
  <2>1. ASSUME NEW i \in 1 .. n PROVE g.prev[s[i]] = IF i = k + 1 THEN p ELSE h.prev[s[i]]
    <3>1. CASE k = n
      <4>1. i # k + 1
        BY <1>2, <3>1
      <4> QED
        BY <1>4, <1>6, <3>1, <4>1
    <3>2. CASE k # n
      <4>1. k + 1 \in 1 .. n /\ x = s[k + 1] /\ x # NULL
        BY <1>2, <1>3, <1>4, <3>2
      <4>2. s[i] = x <=> i = k + 1
        BY <1>9, <4>1
      <4>3. s[i] \in DOMAIN h.prev
        BY <1>2 DEF Heap
      <4> QED
        BY <1>6, <4>1, <4>2, <4>3
    <3> QED
      BY <3>1, <3>2
  <2>2. ASSUME NEW i \in 1 .. n PROVE g.next[s[i]] = IF i = k - 1 THEN x ELSE h.next[s[i]]
    <3>1. CASE k = 1
      <4>1. i # k - 1
        BY <1>2, <3>1
      <4> QED
        BY <1>4, <1>6, <3>1, <4>1
    <3>2. CASE k # 1
      <4>1. k - 1 \in 1 .. n /\ p = s[k - 1] /\ p # NULL
        BY <1>2, <1>3, <1>4, <3>2
      <4>2. s[i] = p <=> i = k - 1
        BY <1>9, <4>1
      <4>3. s[i] \in DOMAIN h.next
        BY <1>2 DEF Heap
      <4> QED
        BY <1>6, <4>1, <4>2, <4>3
    <3> QED
      BY <3>1, <3>2
  <2> QED
    BY <2>1, <2>2
<1>16. ASSUME NEW i \in 1 .. n - 1
       PROVE  /\ g.prev[t[i]] = IF i = 1 THEN NULL ELSE t[i - 1]
              /\ g.next[t[i]] = IF i = n - 1 THEN NULL ELSE t[i + 1]
  <2>1. CASE i < k
    <3>1. t[i] = s[i] /\ i \in 1 .. n /\ i # k + 1
      BY <1>2, <1>8, <2>1
    <3>2. i # 1 => i - 1 \in 1 .. n - 1 /\ i - 1 < k
      BY <1>2, <2>1
    <3>3. g.prev[t[i]] = IF i = 1 THEN NULL ELSE t[i - 1]
      <4>1. g.prev[t[i]] = IF i = 1 THEN NULL ELSE s[i - 1]
        BY <1>14, <1>15, <3>1
      <4> QED
        BY <1>8, <3>2, <4>1
    <3>4. CASE i = k - 1
      <4>1. g.next[t[i]] = x
        BY <1>15, <3>1, <3>4
      <4>2. (k = n <=> i = n - 1) /\ i + 1 = k /\ ~ i + 1 < k /\ (k # n => k \in 1 .. n - 1)
        BY <1>2, <3>4
      <4> QED
        BY <1>3, <1>8, <3>3, <4>1, <4>2
    <3>5. CASE i # k - 1
      <4>1. i + 1 \in 1 .. n - 1 /\ i + 1 < k /\ i # n /\ i # n - 1
        BY <1>2, <2>1, <3>5
      <4> QED
        <5>1. g.next[t[i]] = s[i + 1]
          BY <1>14, <1>15, <3>1, <3>5, <4>1
        <5>2. t[i + 1] = s[i + 1]
          BY <1>8, <4>1
        <5> QED
          BY <3>3, <4>1, <5>1, <5>2
    <3> QED
      BY <3>4, <3>5
  <2>2. CASE ~ i < k
    <3>1. t[i] = s[i + 1] /\ i + 1 \in 1 .. n /\ i + 1 # k - 1 /\ i + 1 # 1 /\ (i + 1 = n <=> i = n - 1)
          /\ (i + 1) - 1 = i
      BY <1>2, <1>8, <2>2
    <3>2. g.next[t[i]] = IF i = n - 1 THEN NULL ELSE t[i + 1]
      <4>1. i # n - 1 => i + 1 \in 1 .. n - 1 /\ ~ i + 1 < k
        BY <1>2, <2>2
      <4>2. g.next[t[i]] = IF i + 1 = n THEN NULL ELSE s[(i + 1) + 1]
        BY <1>14, <1>15, <3>1
      <4>3. i # n - 1 => t[i + 1] = s[(i + 1) + 1]
        BY <1>8, <4>1
      <4> QED
        BY <3>1, <4>2, <4>3
    <3>3. CASE i = k
      <4>1. g.prev[t[i]] = p
        BY <1>15, <3>1, <3>3
      <4>2. i # 1 => i - 1 \in 1 .. n - 1 /\ i - 1 < k
        BY <1>2, <3>3
      <4> QED
        BY <1>3, <1>8, <3>2, <3>3, <4>1, <4>2
    <3>4. CASE i # k
      <4>1. i # 1 /\ i - 1 \in 1 .. n - 1 /\ ~ i - 1 < k /\ (i - 1) + 1 = i /\ i + 1 # k + 1
        BY <1>2, <2>2, <3>4
      <4> QED
        <5>1. g.prev[t[i]] = s[i]
          BY <1>14, <1>15, <3>1, <4>1
        <5>2. t[i - 1] = s[i]
          BY <1>8, <4>1
        <5> QED
          BY <3>2, <4>1, <5>1, <5>2
    <3> QED
      BY <3>3, <3>4
  <2> QED
    BY <2>1, <2>2
<1>17. Linked(g, t)
  <2>1. g.size = Len(t)
    BY <1>8, <1>11
  <2>2. \A i \in DOMAIN t : /\ g.prev[t[i]] = IF i = 1 THEN NULL ELSE t[i - 1]
                            /\ g.next[t[i]] = IF i = Len(t) THEN NULL ELSE t[i + 1]
    BY <1>8, <1>16
  <2> QED
    BY <1>8, <1>10, <1>12, <1>13, <2>1, <2>2, Zenon DEF Linked
<1> QED
  BY <1>6, <1>8, <1>17

\* What LinkIn changes: the node new gets between p and x.
LEMMA LinkInIs ==
  ASSUME q \in Heap, NEW s, Linked(q, s), NEW new \in Nodes, \A i \in DOMAIN s : s[i] # new,
         q.next[new] = NULL, q.prev[new] = NULL, NEW k \in 0 .. Len(s), NEW p, NEW x,
         p = IF k = 0 THEN NULL ELSE s[k], x = IF k = Len(s) THEN NULL ELSE s[k + 1],
         NEW g, g = LinkIn(new, x)
  PROVE  /\ g \in Heap
         /\ g.size = q.size + 1
         /\ g.top = IF p = NULL THEN new ELSE q.top
         /\ g.tail = IF x = NULL THEN new ELSE q.tail
         /\ \A m \in Nodes : /\ g.prev[m] = IF m = new THEN p ELSE IF m = x THEN new ELSE q.prev[m]
                             /\ g.next[m] = IF m = new THEN x ELSE IF m = p THEN new ELSE q.next[m]
<1>1. PICK n : n = Len(s)
  OBVIOUS
<1>2. /\ n = Len(s) /\ n \in Nat /\ DOMAIN s = 1 .. n /\ k \in 0 .. n
      /\ \A i \in 1 .. n : s[i] \in Nodes /\ s[i] # NULL
      /\ s = <<>> <=> n = 0
  <2>1. s \in Seq(Nodes)
    BY DEF Linked
  <2>2. /\ Len(s) \in Nat /\ DOMAIN s = 1 .. Len(s)
        /\ \A i \in 1 .. Len(s) : s[i] \in Nodes
        /\ s = <<>> <=> Len(s) = 0
    BY <2>1
  <2>3. \A m \in Nodes : m # NULL
    BY DEF Nodes, NULL
  <2> QED
    BY <1>1, <2>2, <2>3
<1>3. /\ p = IF k = 0 THEN NULL ELSE s[k]
      /\ x = IF k = n THEN NULL ELSE s[k + 1]
      /\ k # 0 => k \in 1 .. n
      /\ k # n => k + 1 \in 1 .. n
  BY <1>2
<1>4. /\ p \in Nodes \cup {NULL} /\ (p = NULL <=> k = 0) /\ (p # NULL => p # new)
      /\ x \in Nodes \cup {NULL} /\ (x = NULL <=> k = n) /\ (x # NULL => x # new)
      /\ new # NULL /\ NULL \notin Nodes /\ q.next[new] = NULL /\ q.prev[new] = NULL
  BY <1>2, <1>3 DEF Nodes, NULL
<1>5. /\ q.size \in Int /\ q.top \in Nodes \cup {NULL} /\ q.tail \in Nodes \cup {NULL}
      /\ q.prev \in [Nodes -> Nodes \cup {NULL}] /\ q.next \in [Nodes -> Nodes \cup {NULL}]
      /\ DOMAIN q.prev = Nodes /\ DOMAIN q.next = Nodes
  BY DEF Heap
<1>6. q.top = NULL <=> n = 0
  <2>1. q.top = IF n = 0 THEN NULL ELSE s[1]
    BY <1>2 DEF Linked
  <2>2. n # 0 => 1 \in 1 .. n
    BY <1>2
  <2> QED
    BY <1>2, <2>1, <2>2
<1>7. n # 0 => q.tail = s[n]
  BY <1>2 DEF Linked
<1>8. k # n => q.prev[x] = p
  <2> SUFFICES ASSUME k # n PROVE q.prev[x] = p
    OBVIOUS
  <2>1. q.prev[s[k + 1]] = IF k + 1 = 1 THEN NULL ELSE s[(k + 1) - 1]
    BY <1>2, <1>3 DEF Linked
  <2>2. (k + 1 = 1 <=> k = 0) /\ (k + 1) - 1 = k
    BY <1>2
  <2> QED
    BY <1>3, <2>1, <2>2
<1>9. g = LinkIn(new, x)
  OBVIOUS
<1>10. CASE n = 0
  <2>1. p = NULL /\ x = NULL
    BY <1>2, <1>4, <1>10
  <2>2. g = [q EXCEPT !.top = new, !.tail = new, !.size = q.size + 1]
    BY <1>6, <1>9, <1>10 DEF LinkIn
  <2>3. /\ g.size = q.size + 1
        /\ g.top = IF p = NULL THEN new ELSE q.top
        /\ g.tail = IF x = NULL THEN new ELSE q.tail
    BY <2>1, <2>2 DEF Heap
  <2>4. g.prev = q.prev /\ g.next = q.next
    BY <2>2 DEF Heap
  <2>5. g \in Heap
    <3>1. g = [top |-> g.top, tail |-> g.tail, size |-> g.size, next |-> g.next, prev |-> g.prev]
      BY <2>2 DEF Heap
    <3>2. /\ g.top \in Nodes \cup {NULL} /\ g.tail \in Nodes \cup {NULL} /\ g.size \in Int
          /\ g.next \in [Nodes -> Nodes \cup {NULL}] /\ g.prev \in [Nodes -> Nodes \cup {NULL}]
      BY <1>4, <1>5, <2>1, <2>3, <2>4
    <3> QED
      BY <3>1, <3>2 DEF Heap
  <2>6. \A m \in Nodes : g.prev[m] = IF m = new THEN p ELSE IF m = x THEN new ELSE q.prev[m]
    BY <1>4, <1>5, <2>1, <2>4
  <2>7. \A m \in Nodes : g.next[m] = IF m = new THEN x ELSE IF m = p THEN new ELSE q.next[m]
    BY <1>4, <1>5, <2>1, <2>4
  <2> QED
    BY <2>3, <2>5, <2>6, <2>7
<1>11. CASE n # 0 /\ k = n
  <2>1. x = NULL /\ p = q.tail /\ p # NULL
    BY <1>2, <1>3, <1>4, <1>7, <1>11
  <2>2. g = [q EXCEPT !.prev[new] = p, !.next[p] = new, !.tail = new, !.size = q.size + 1]
    BY <1>6, <1>9, <1>11, <2>1 DEF LinkIn
  <2>3. /\ g.size = q.size + 1
        /\ g.top = IF p = NULL THEN new ELSE q.top
        /\ g.tail = IF x = NULL THEN new ELSE q.tail
    BY <2>1, <2>2 DEF Heap
  <2>4. g.prev = [q.prev EXCEPT ![new] = p] /\ g.next = [q.next EXCEPT ![p] = new]
    BY <2>2 DEF Heap
  <2>5. g \in Heap
    <3>1. g = [top |-> g.top, tail |-> g.tail, size |-> g.size, next |-> g.next, prev |-> g.prev]
      BY <2>2 DEF Heap
    <3>2. /\ g.top \in Nodes \cup {NULL} /\ g.tail \in Nodes \cup {NULL} /\ g.size \in Int
          /\ g.next \in [Nodes -> Nodes \cup {NULL}] /\ g.prev \in [Nodes -> Nodes \cup {NULL}]
      BY <1>4, <1>5, <2>1, <2>3, <2>4
    <3> QED
      BY <3>1, <3>2 DEF Heap
  <2>6. \A m \in Nodes : g.prev[m] = IF m = new THEN p ELSE IF m = x THEN new ELSE q.prev[m]
    BY <1>4, <1>5, <2>1, <2>4
  <2>7. \A m \in Nodes : g.next[m] = IF m = new THEN x ELSE IF m = p THEN new ELSE q.next[m]
    BY <1>4, <1>5, <2>1, <2>4
  <2> QED
    BY <2>3, <2>5, <2>6, <2>7
<1>12. CASE n # 0 /\ k # n /\ k = 0
  <2>1. x # NULL /\ p = NULL /\ q.prev[x] = NULL
    BY <1>4, <1>8, <1>12
  <2>2. g = [q EXCEPT !.next[new] = x, !.prev[x] = new, !.top = new, !.size = q.size + 1]
    BY <1>6, <1>9, <1>12, <2>1 DEF LinkIn
  <2>3. /\ g.size = q.size + 1
        /\ g.top = IF p = NULL THEN new ELSE q.top
        /\ g.tail = IF x = NULL THEN new ELSE q.tail
    BY <2>1, <2>2 DEF Heap
  <2>4. g.prev = [q.prev EXCEPT ![x] = new] /\ g.next = [q.next EXCEPT ![new] = x]
    BY <2>2 DEF Heap
  <2>5. g \in Heap
    <3>1. g = [top |-> g.top, tail |-> g.tail, size |-> g.size, next |-> g.next, prev |-> g.prev]
      BY <2>2 DEF Heap
    <3>2. g.top \in Nodes \cup {NULL} /\ g.tail \in Nodes \cup {NULL} /\ g.size \in Int
      BY <1>4, <1>5, <2>1, <2>3
    <3>3. /\ g.prev \in [Nodes -> Nodes \cup {NULL}]
          /\ g.next \in [Nodes -> Nodes \cup {NULL}]
      BY <1>4, <1>5, <2>1, <2>4
    <3> QED
      BY <3>1, <3>2, <3>3 DEF Heap
  <2>6. \A m \in Nodes : g.prev[m] = IF m = new THEN p ELSE IF m = x THEN new ELSE q.prev[m]
    BY <1>4, <1>5, <2>1, <2>4
  <2>7. \A m \in Nodes : g.next[m] = IF m = new THEN x ELSE IF m = p THEN new ELSE q.next[m]
    BY <1>4, <1>5, <2>1, <2>4
  <2> QED
    BY <2>3, <2>5, <2>6, <2>7
<1>13. CASE n # 0 /\ k # n /\ k # 0
  <2>1. x # NULL /\ p # NULL /\ q.prev[x] = p
    BY <1>4, <1>8, <1>13
  <2>2. g = [q EXCEPT !.prev[new] = p, !.next[p] = new, !.prev[x] = new, !.next[new] = x,
                      !.size = q.size + 1]
    BY <1>6, <1>9, <1>13, <2>1 DEF LinkIn
  <2>3. /\ g.size = q.size + 1
        /\ g.top = IF p = NULL THEN new ELSE q.top
        /\ g.tail = IF x = NULL THEN new ELSE q.tail
    BY <2>1, <2>2 DEF Heap
  <2>4. g.prev = [[q.prev EXCEPT ![new] = p] EXCEPT ![x] = new] /\ g.next = [[q.next EXCEPT ![p] = new] EXCEPT ![new] = x]
    BY <2>2 DEF Heap
  <2>5. g \in Heap
    <3>1. g = [top |-> g.top, tail |-> g.tail, size |-> g.size, next |-> g.next, prev |-> g.prev]
      BY <2>2 DEF Heap
    <3>2. g.top \in Nodes \cup {NULL} /\ g.tail \in Nodes \cup {NULL} /\ g.size \in Int
      BY <1>4, <1>5, <2>1, <2>3
    <3>3. /\ [q.prev EXCEPT ![new] = p] \in [Nodes -> Nodes \cup {NULL}]
          /\ [q.next EXCEPT ![p] = new] \in [Nodes -> Nodes \cup {NULL}]
      BY <1>4, <1>5
    <3>4. /\ g.prev \in [Nodes -> Nodes \cup {NULL}]
          /\ g.next \in [Nodes -> Nodes \cup {NULL}]
      BY <1>4, <2>4, <3>3
    <3> QED
      BY <3>1, <3>2, <3>4 DEF Heap
  <2>6. \A m \in Nodes : g.prev[m] = IF m = new THEN p ELSE IF m = x THEN new ELSE q.prev[m]
    BY <1>4, <1>5, <2>1, <2>4
  <2>7. \A m \in Nodes : g.next[m] = IF m = new THEN x ELSE IF m = p THEN new ELSE q.next[m]
    BY <1>4, <1>5, <2>1, <2>4
  <2> QED
    BY <2>3, <2>5, <2>6, <2>7
<1> QED
  BY <1>10, <1>11, <1>12, <1>13

\* The new node gets behind the k-th.
LEMMA LinkInInserts ==
  ASSUME q \in Heap, NEW s, Linked(q, s), NEW new \in Nodes, \A i \in DOMAIN s : s[i] # new,
         q.next[new] = NULL, q.prev[new] = NULL, NEW k \in 0 .. Len(s), NEW x,
         x = IF k = Len(s) THEN NULL ELSE s[k + 1]
  PROVE  Linked(LinkIn(new, x), Inserted(s, k, new)) /\ LinkIn(new, x) \in Heap
<1>1. PICK n : n = Len(s)
  OBVIOUS
<1>2. PICK p : p = IF k = 0 THEN NULL ELSE s[k]
  OBVIOUS
<1>3. PICK g : g = LinkIn(new, x)
  OBVIOUS
<1>4. PICK t : t = Inserted(s, k, new)
  OBVIOUS
<1>5. /\ g \in Heap
      /\ g.size = q.size + 1
      /\ g.top = IF p = NULL THEN new ELSE q.top
      /\ g.tail = IF x = NULL THEN new ELSE q.tail
      /\ \A m \in Nodes : /\ g.prev[m] = IF m = new THEN p ELSE IF m = x THEN new ELSE q.prev[m]
                          /\ g.next[m] = IF m = new THEN x ELSE IF m = p THEN new ELSE q.next[m]
  BY <1>2, <1>3, LinkInIs
<1>6. /\ n = Len(s) /\ n \in Nat /\ DOMAIN s = 1 .. n /\ k \in 0 .. n
      /\ \A i \in 1 .. n : s[i] \in Nodes /\ s[i] # NULL /\ s[i] # new
      /\ s = <<>> <=> n = 0
  <2>1. s \in Seq(Nodes)
    BY DEF Linked
  <2>2. /\ Len(s) \in Nat /\ DOMAIN s = 1 .. Len(s)
        /\ \A i \in 1 .. Len(s) : s[i] \in Nodes
        /\ s = <<>> <=> Len(s) = 0
    BY <2>1
  <2>3. \A m \in Nodes : m # NULL
    BY DEF Nodes, NULL
  <2> QED
    BY <1>1, <2>2, <2>3
<1>7. /\ p = IF k = 0 THEN NULL ELSE s[k]
      /\ x = IF k = n THEN NULL ELSE s[k + 1]
      /\ k # 0 => k \in 1 .. n
      /\ k # n => k + 1 \in 1 .. n
      /\ p = NULL <=> k = 0
      /\ x = NULL <=> k = n
  BY <1>2, <1>6
<1>8. /\ t \in Seq(Nodes) /\ Len(t) = n + 1 /\ t # <<>> /\ DOMAIN t = 1 .. n + 1
      /\ \A i \in 1 .. n + 1 : t[i] = IF i <= k THEN s[i] ELSE IF i = k + 1 THEN new ELSE s[i - 1]
  <2>1. s \in Seq(Nodes)
    BY DEF Linked
  <2>2. /\ Inserted(s, k, new) \in Seq(Nodes) /\ Len(Inserted(s, k, new)) = Len(s) + 1
        /\ Inserted(s, k, new) # <<>> /\ DOMAIN Inserted(s, k, new) = 1 .. Len(s) + 1
        /\ \A i \in 1 .. Len(s) + 1 : Inserted(s, k, new)[i]
                  = IF i <= k THEN s[i] ELSE IF i = k + 1 THEN new ELSE s[i - 1]
    BY <2>1, InsertedIs
  <2> QED
    BY <1>1, <1>4, <2>2
<1>9. /\ \A i, j \in 1 .. n : s[i] = s[j] => i = j
      /\ \A i \in 1 .. n : /\ q.prev[s[i]] = IF i = 1 THEN NULL ELSE s[i - 1]
                           /\ q.next[s[i]] = IF i = n THEN NULL ELSE s[i + 1]
      /\ q.size = n
      /\ n # 0 => q.top = s[1] /\ q.tail = s[n]
  BY <1>6 DEF Linked
<1>10. \A i \in 1 .. n : /\ g.prev[s[i]] = IF i = k + 1 THEN new ELSE q.prev[s[i]]
                         /\ g.next[s[i]] = IF i = k THEN new ELSE q.next[s[i]]
  <2> SUFFICES ASSUME NEW i \in 1 .. n
               PROVE  (s[i] = x <=> i = k + 1) /\ (s[i] = p <=> i = k)
    BY <1>5, <1>6
  <2>1. s[i] = x <=> i = k + 1
    <3>1. CASE k = n
      BY <1>6, <1>7, <3>1
    <3>2. CASE k # n
      BY <1>7, <1>9, <3>2
    <3> QED
      BY <3>1, <3>2
  <2>2. s[i] = p <=> i = k
    <3>1. CASE k = 0
      BY <1>6, <1>7, <3>1
    <3>2. CASE k # 0
      BY <1>7, <1>9, <3>2
    <3> QED
      BY <3>1, <3>2
  <2> QED
    BY <2>1, <2>2
<1>11. \A i, j \in DOMAIN t : t[i] = t[j] => i = j
  <2> SUFFICES ASSUME NEW i \in 1 .. n + 1, NEW j \in 1 .. n + 1, t[i] = t[j] PROVE i = j
    BY <1>8
  <2>1. PICK a, b : /\ a = IF i <= k THEN i ELSE i - 1
                    /\ b = IF j <= k THEN j ELSE j - 1
    OBVIOUS
  <2>2. /\ i # k + 1 => a \in 1 .. n /\ t[i] = s[a]
        /\ i = k + 1 => t[i] = new
    BY <1>6, <1>8, <2>1
  <2>3. /\ j # k + 1 => b \in 1 .. n /\ t[j] = s[b]
        /\ j = k + 1 => t[j] = new
    BY <1>6, <1>8, <2>1
  <2>4. i # k + 1 /\ j # k + 1 => a = b
    BY <1>9, <2>2, <2>3
  <2>5. i = k + 1 <=> j = k + 1
    BY <1>6, <2>2, <2>3
  <2> QED
    BY <1>6, <2>1, <2>4, <2>5
<1>12. g.size = Len(t) /\ g.top = t[1]
  <2>1. g.size = n + 1
    BY <1>5, <1>9
  <2>2. 1 \in 1 .. n + 1 /\ (k # 0 => 1 <= k /\ n # 0) /\ (k = 0 => ~ 1 <= k /\ 1 = k + 1)
    BY <1>6
  <2>3. t[1] = IF k = 0 THEN new ELSE s[1]
    BY <1>8, <2>2
  <2> QED
    BY <1>5, <1>7, <1>8, <1>9, <2>1, <2>2, <2>3
<1>13. g.tail = t[Len(t)]
  <2>1. n + 1 \in 1 .. n + 1 /\ ~ n + 1 <= k /\ (n + 1 = k + 1 <=> k = n) /\ (n + 1) - 1 = n
    BY <1>6
  <2>2. t[n + 1] = IF k = n THEN new ELSE s[n]
    BY <1>8, <2>1
  <2>3. k # n => n # 0
    BY <1>6
  <2> QED
    BY <1>5, <1>7, <1>8, <1>9, <2>2, <2>3
<1>14. ASSUME NEW i \in 1 .. n + 1
       PROVE  /\ g.prev[t[i]] = IF i = 1 THEN NULL ELSE t[i - 1]
              /\ g.next[t[i]] = IF i = n + 1 THEN NULL ELSE t[i + 1]
  <2>1. CASE i <= k
    <3>1. t[i] = s[i] /\ i \in 1 .. n /\ i # k + 1 /\ i # n + 1
      BY <1>6, <1>8, <2>1
    <3>2. g.prev[t[i]] = IF i = 1 THEN NULL ELSE t[i - 1]
      <4>1. i # 1 => i - 1 \in 1 .. n + 1 /\ i - 1 <= k
        BY <1>6, <2>1
      <4>2. g.prev[t[i]] = IF i = 1 THEN NULL ELSE s[i - 1]
        BY <1>9, <1>10, <3>1
      <4> QED
        BY <1>8, <4>1, <4>2
    <3>3. g.next[t[i]] = t[i + 1]
      <4>1. CASE i = k
        <5>1. i + 1 \in 1 .. n + 1 /\ ~ i + 1 <= k /\ i + 1 = k + 1
          BY <1>6, <4>1
        <5> QED
          BY <1>8, <1>10, <3>1, <4>1, <5>1
      <4>2. CASE i # k
        <5>1. i + 1 \in 1 .. n + 1 /\ i + 1 <= k /\ i # n
          BY <1>6, <2>1, <4>2
        <5>2. g.next[t[i]] = s[i + 1]
          BY <1>9, <1>10, <3>1, <4>2, <5>1
        <5> QED
          BY <1>8, <5>1, <5>2
      <4> QED
        BY <4>1, <4>2
    <3> QED
      BY <3>1, <3>2, <3>3
  <2>2. CASE i = k + 1
    <3>1. t[i] = new /\ (i = 1 <=> k = 0) /\ (i = n + 1 <=> k = n) /\ i - 1 = k
      BY <1>6, <1>8, <2>2
    <3>2. k # 0 => t[i - 1] = s[k]
      <4>1. k # 0 => k \in 1 .. n + 1 /\ k <= k
        BY <1>6
      <4> QED
        BY <1>8, <3>1, <4>1
    <3>3. k # n => t[i + 1] = s[k + 1]
      <4>1. k # n => i + 1 \in 1 .. n + 1 /\ ~ i + 1 <= k /\ i + 1 # k + 1 /\ (i + 1) - 1 = k + 1
        BY <1>6, <2>2
      <4> QED
        BY <1>8, <4>1
    <3> QED
      BY <1>5, <1>7, <3>1, <3>2, <3>3
  <2>3. CASE ~ i <= k /\ i # k + 1
    <3>1. PICK j : j = i - 1
      OBVIOUS
    <3>2. /\ t[i] = s[j] /\ j \in 1 .. n /\ j # k /\ i # 1 /\ i = j + 1 /\ (i = n + 1 <=> j = n)
          /\ j \in 1 .. n + 1 /\ ~ j <= k
      BY <1>6, <1>8, <2>3, <3>1
    <3>3. g.prev[t[i]] = t[i - 1]
      <4>1. CASE j = k + 1
        <5>1. t[j] = new
          BY <1>8, <3>2, <4>1
        <5> QED
          BY <1>10, <3>1, <3>2, <4>1, <5>1
      <4>2. CASE j # k + 1
        <5>1. t[j] = s[j - 1] /\ j # 1
          BY <1>6, <1>8, <3>2, <4>2
        <5>2. g.prev[s[j]] = s[j - 1]
          BY <1>9, <1>10, <3>2, <4>2, <5>1
        <5> QED
          BY <3>1, <3>2, <5>1, <5>2
      <4> QED
        BY <4>1, <4>2
    <3>4. g.next[t[i]] = IF i = n + 1 THEN NULL ELSE t[i + 1]
      <4>1. g.next[t[i]] = IF j = n THEN NULL ELSE s[j + 1]
        BY <1>9, <1>10, <3>2
      <4>2. j # n => i + 1 \in 1 .. n + 1 /\ ~ i + 1 <= k /\ i + 1 # k + 1 /\ (i + 1) - 1 = j + 1
        BY <1>6, <2>3, <3>2
      <4>3. j # n => t[i + 1] = s[j + 1]
        BY <1>8, <4>2
      <4> QED
        BY <3>2, <4>1, <4>3
    <3> QED
      BY <3>2, <3>3, <3>4
  <2> QED
    BY <1>6, <2>1, <2>2, <2>3
<1>15. \A i \in DOMAIN t : /\ g.prev[t[i]] = IF i = 1 THEN NULL ELSE t[i - 1]
                           /\ g.next[t[i]] = IF i = Len(t) THEN NULL ELSE t[i + 1]
  BY <1>8, <1>14
<1>16. Linked(g, t)
  BY <1>8, <1>11, <1>12, <1>13, <1>15, Zenon DEF Linked
<1> QED
  BY <1>3, <1>4, <1>5, <1>16

-----------------------------------------------------------------------------
(* Folds from the left *)

\* The community modules' Max of a set of numbers is its greatest.
LEMMA MaxIs ==
  ASSUME NEW k \in Nat, NEW S \in SUBSET (1 .. k), S # {}
  PROVE  Seqs!Max(S) \in S /\ \A y \in S : Seqs!Max(S) >= y
<1> DEFINE T == {m \in Nat : k - m \in S}
<1>1. \E m \in T : \A j \in T : m <= j
  <2>1. PICK y \in S : TRUE
    OBVIOUS
  <2>2. y \in 1 .. k /\ k - (k - y) = y /\ k - y \in Nat
    OBVIOUS
  <2>3. T \subseteq Nat /\ T # {}
    BY <2>2
  <2> HIDE DEF T
  <2> QED
    BY <2>3, LeastNumber
<1>2. PICK m \in Nat : k - m \in S /\ \A j \in Nat : k - j \in S => m <= j
  BY <1>1
<1>3. \A y \in S : k - m >= y
  <2> SUFFICES ASSUME NEW y \in S PROVE k - m >= y
    OBVIOUS
  <2>1. y \in 1 .. k /\ k - y \in Nat
    OBVIOUS
  <2>2. PICK j \in Nat : j = k - y
    BY <2>1
  <2>3. k - j = y
    BY <2>1, <2>2
  <2>4. m <= j
    BY <1>2, <2>3
  <2> QED
    BY <2>1, <2>2, <2>4
<1>4. \E x \in S : \A y \in S : x >= y
  BY <1>2, <1>3
<1> QED
  BY <1>4, Zenon DEF Seqs!Max

\* g folds the steps F: a step takes a place and what the fold has so far.
Folding(g, n, base, F) == \A S \in SUBSET (1 .. n) :
    g[S] = IF S = {} THEN base ELSE F[<<Seqs!Max(S), g[S \ {Seqs!Max(S)}]>>]

\* There is such a function, for every number of places.
LEMMA FoldExists ==
  ASSUME NEW n \in Nat, NEW V, NEW base \in V, NEW F \in [(1 .. n) \X V -> V]
  PROVE  \E g \in [SUBSET (1 .. n) -> V] : Folding(g, n, base, F)
<1> DEFINE Folded(k) == \E g \in [SUBSET (1 .. k) -> V] : \A S \in SUBSET (1 .. k) :
                 g[S] = IF S = {} THEN base ELSE F[<<Seqs!Max(S), g[S \ {Seqs!Max(S)}]>>]
<1>1. Folded(0)
  <2> DEFINE g == [S \in SUBSET (1 .. 0) |-> base]
  <2>1. \A S \in SUBSET (1 .. 0) : S = {}
    OBVIOUS
  <2>2. g \in [SUBSET (1 .. 0) -> V]
    OBVIOUS
  <2>3. \A S \in SUBSET (1 .. 0) : g[S] = base
    OBVIOUS
  <2> HIDE DEF g
  <2> QED
    BY <2>1, <2>2, <2>3
<1>2. ASSUME NEW k \in Nat, k + 1 <= n, Folded(k) PROVE Folded(k + 1)
  <2>1. PICK g \in [SUBSET (1 .. k) -> V] : \A S \in SUBSET (1 .. k) :
           g[S] = IF S = {} THEN base ELSE F[<<Seqs!Max(S), g[S \ {Seqs!Max(S)}]>>]
    BY <1>2, Zenon
  <2> DEFINE h == [S \in SUBSET (1 .. k + 1) |->
                     IF S \subseteq 1 .. k THEN g[S] ELSE F[<<k + 1, g[S \ {k + 1}]>>]]
  <2>2. /\ k + 1 \in 1 .. n
        /\ \A S \in SUBSET (1 .. k + 1) : /\ S \ {k + 1} \in SUBSET (1 .. k)
                                          /\ ~ S \subseteq 1 .. k => k + 1 \in S
    BY <1>2
  <2>3. h \in [SUBSET (1 .. k + 1) -> V]
    <3>1. \A S \in SUBSET (1 .. k) : g[S] \in V
      OBVIOUS
    <3>2. \A v \in V : F[<<k + 1, v>>] \in V
      BY <2>2
    <3>3. \A S \in SUBSET (1 .. k + 1) :
             (IF S \subseteq 1 .. k THEN g[S] ELSE F[<<k + 1, g[S \ {k + 1}]>>]) \in V
      BY <2>2, <3>1, <3>2
    <3> QED
      BY <3>3
  <2>4. /\ \A S \in SUBSET (1 .. k) : h[S] = g[S]
        /\ \A S \in SUBSET (1 .. k + 1) : ~ S \subseteq 1 .. k => h[S] = F[<<k + 1, g[S \ {k + 1}]>>]
    <3>1. \A S \in SUBSET (1 .. k) : S \in SUBSET (1 .. k + 1)
      BY <1>2
    <3> QED
      BY <3>1
  <2> HIDE DEF h
  <2>5. ASSUME NEW S \in SUBSET (1 .. k + 1), S # {}
        PROVE  h[S] = F[<<Seqs!Max(S), h[S \ {Seqs!Max(S)}]>>]
    <3>1. PICK m : m = Seqs!Max(S)
      OBVIOUS
    <3>2. m \in S /\ \A y \in S : m >= y
      <4>1. k + 1 \in Nat
        BY <1>2
      <4> QED
        BY <2>5, <3>1, <4>1, MaxIs
    <3>3. CASE S \subseteq 1 .. k
      <4>1. S \ {m} \in SUBSET (1 .. k)
        BY <3>3
      <4> QED
        BY <2>1, <2>4, <2>5, <3>1, <3>3, <4>1
    <3>4. CASE ~ S \subseteq 1 .. k
      <4>1. m = k + 1
        <5>1. m \in 1 .. k + 1 /\ m >= k + 1
          BY <2>2, <3>2, <3>4
        <5> QED
          BY <1>2, <5>1
      <4>2. S \ {m} \in SUBSET (1 .. k)
        BY <2>2, <4>1
      <4> QED
        BY <2>4, <3>1, <3>4, <4>1, <4>2
    <3> QED
      BY <3>3, <3>4
  <2>6. h[{}] = base
    <3>1. {} \in SUBSET (1 .. k)
      OBVIOUS
    <3> QED
      BY <2>1, <2>4, <3>1
  <2>7. \A S \in SUBSET (1 .. k + 1) :
           h[S] = IF S = {} THEN base ELSE F[<<Seqs!Max(S), h[S \ {Seqs!Max(S)}]>>]
    BY <2>5, <2>6
  <2> QED
    BY <2>3, <2>7
<1> HIDE DEF Folded
<1> DEFINE T == {k \in 0 .. n : Folded(k)}
<1>3. \A k \in 0 .. n : k \in T
  <2>1. 0 \in T
    BY <1>1
  <2>2. ASSUME NEW k \in 1 .. n, k - 1 \in T PROVE k \in T
    <3>1. k - 1 \in Nat /\ (k - 1) + 1 = k /\ Folded(k - 1)
      BY <2>2
    <3>2. Folded((k - 1) + 1)
      BY <1>2, <3>1
    <3> QED
      BY <3>1, <3>2
  <2> HIDE DEF T
  <2> QED
    BY <2>1, <2>2, UpTo
<1>4. n \in 0 .. n
  OBVIOUS
<1>5. Folded(n)
  BY <1>3, <1>4
<1> QED
  BY <1>5 DEF Folded, Folding

\* A fold comes to the places one after the other.
LEMMA IntervalMax ==
  ASSUME NEW n \in Nat, NEW k \in 1 .. n
  PROVE  /\ Seqs!Max(1 .. k) = k /\ (1 .. k) \ {k} = 1 .. k - 1
         /\ 1 .. k \in SUBSET (1 .. n) /\ 1 .. k # {}
<1>1. PICK m, S : S = 1 .. k /\ m = Seqs!Max(S)
  OBVIOUS
<1>2. k \in Nat /\ S \in SUBSET (1 .. k) /\ S # {} /\ k \in S
  BY <1>1
<1>3. m \in S /\ m >= k
  BY <1>1, <1>2, MaxIs
<1>4. m = k
  BY <1>1, <1>3
<1> QED
  BY <1>1, <1>4

\* r[0], r[1], ... are the heaps of the loop of priqueue_remove, up to its end.
Removing(r, s, e) ==
    /\ r[0] = q
    /\ \A k \in 1 .. Len(s) : r[k] = IF Matches(s[k], e) THEN Unlink(r[k - 1], s[k]) ELSE r[k - 1]
    /\ r[Len(s)] = Seqs!FoldLeft(LAMBDA h, n : IF Matches(n, e) THEN Unlink(h, n) ELSE h, q, s)

\* The fold that stands for the loop of priqueue_remove is that sequence of heaps.
LEMMA RemoveSteps ==
  ASSUME q \in Heap, NEW s \in Seq(Nodes), NEW e
  PROVE  \E r : Removing(r, s, e)
<1>1. PICK n : n = Len(s)
  OBVIOUS
<1>2. n \in Nat /\ DOMAIN s = 1 .. n /\ \A i \in 1 .. n : s[i] \in Nodes
  BY <1>1
<1> DEFINE Op(h, m) == IF Matches(m, e) THEN Unlink(h, m) ELSE h
           Folds(g) == g = [S \in SUBSET (1 .. n) |->
                              IF S = {} THEN q ELSE Op(g[S \ {Seqs!Max(S)}], s[Seqs!Max(S)])]
           F == [z \in (1 .. n) \X Heap |-> Op(z[2], s[z[1]])]
<1>3. Seqs!FoldLeft(LAMBDA h, m : IF Matches(m, e) THEN Unlink(h, m) ELSE h, q, s)
         = (CHOOSE g : Folds(g))[1 .. n]
  BY <1>2 DEF Seqs!FoldLeft, Seqs!MapThenFoldSet
<1>4. \A h \in Heap, m \in Nodes : Op(h, m) \in Heap
  BY UnlinkIs
<1> HIDE DEF Op
<1>5. F \in [(1 .. n) \X Heap -> Heap]
  <2>1. \A z \in (1 .. n) \X Heap : Op(z[2], s[z[1]]) \in Heap
    <3> SUFFICES ASSUME NEW z \in (1 .. n) \X Heap PROVE Op(z[2], s[z[1]]) \in Heap
      OBVIOUS
    <3>1. z[1] \in 1 .. n /\ z[2] \in Heap
      BY Zenon
    <3> QED
      BY <1>2, <1>4, <3>1
  <2> QED
    BY <2>1, Zenon
<1>6. \A k \in 1 .. n, h \in Heap : F[<<k, h>>] = Op(h, s[k])
  BY DEF F
<1> HIDE DEF F
<1>7. PICK g \in [SUBSET (1 .. n) -> Heap] : Folding(g, n, q, F)
  <2>1. PICK V, b, G : V = Heap /\ b = q /\ G = F
    OBVIOUS
  <2>2. b \in V /\ G \in [(1 .. n) \X V -> V]
    BY <1>5, <2>1
  <2> QED
    BY <1>2, <2>1, <2>2, FoldExists
<1>8. \A S \in SUBSET (1 .. n) :
          g[S] = IF S = {} THEN q ELSE F[<<Seqs!Max(S), g[S \ {Seqs!Max(S)}]>>]
  BY <1>7 DEF Folding
<1>9. \A S \in SUBSET (1 .. n) : S # {} => Seqs!Max(S) \in 1 .. n /\ S \ {Seqs!Max(S)} \in SUBSET (1 .. n)
  BY <1>2, MaxIs
<1>10. \A S \in SUBSET (1 .. n) : g[S] = IF S = {} THEN q ELSE Op(g[S \ {Seqs!Max(S)}], s[Seqs!Max(S)])
  BY <1>6, <1>9, <1>8
<1>11. g = [S \in SUBSET (1 .. n) |-> g[S]]
  BY <1>7
<1>12. Folds(g)
  BY <1>10, <1>11
<1> HIDE DEF Folds
<1>13. PICK f : f = (CHOOSE ff : Folds(ff)) /\ Folds(f)
  BY <1>12, Zenon
<1>14. \A S \in SUBSET (1 .. n) : f[S] = IF S = {} THEN q ELSE Op(f[S \ {Seqs!Max(S)}], s[Seqs!Max(S)])
  BY <1>13, Zenon DEF Folds
<1> DEFINE r == [k \in 0 .. n |-> f[1 .. k]]
<1>15. r[0] = q /\ r[n] = f[1 .. n]
  <2>1. 1 .. 0 = {} /\ {} \in SUBSET (1 .. n) /\ 0 \in 0 .. n /\ n \in 0 .. n
    BY <1>2
  <2> QED
    BY <1>14, <2>1
<1>16. ASSUME NEW k \in 1 .. n PROVE r[k] = Op(r[k - 1], s[k])
  <2>1. k \in 0 .. n /\ k - 1 \in 0 .. n
    BY <1>2
  <2>2. PICK S : S = 1 .. k
    OBVIOUS
  <2>3. Seqs!Max(S) = k /\ S \ {k} = 1 .. k - 1 /\ S \in SUBSET (1 .. n) /\ S # {}
    BY <1>2, <2>2, IntervalMax
  <2>4. f[S] = Op(f[S \ {k}], s[k])
    BY <1>14, <2>3
  <2> QED
    BY <2>1, <2>2, <2>3, <2>4
<1>17. r = [k \in 0 .. n |-> r[k]]
  OBVIOUS
<1> HIDE DEF r
<1> DEFINE T == {k \in 0 .. n : r[k] \in Heap}
<1>18. \A k \in 0 .. n : k \in T
  <2>1. 0 \in T
    BY <1>2, <1>15
  <2>2. ASSUME NEW k \in 1 .. n, k - 1 \in T PROVE k \in T
    <3>1. k \in 0 .. n /\ r[k - 1] \in Heap
      BY <2>2
    <3> QED
      BY <1>2, <1>4, <1>16, <3>1
  <2> HIDE DEF T
  <2> QED
    BY <1>2, <2>1, <2>2, UpTo
<1>19. \A k \in 1 .. n : r[k] = IF Matches(s[k], e) THEN Unlink(r[k - 1], s[k]) ELSE r[k - 1]
  BY <1>16 DEF Op
<1> QED
  BY <1>1, <1>3, <1>13, <1>15, <1>19 DEF Removing

\* a[0], a[1], ... are the lists that grow by the elements of c that are kept.
Keeping(a, c, e) ==
    /\ a[0] = <<>>
    /\ \A k \in 1 .. Len(c) : a[k] = IF c[k] = e THEN a[k - 1] ELSE Append(a[k - 1], c[k])
    /\ a[Len(c)] = List!Seqs!FoldLeft(LAMBDA kept, x : IF x = e THEN kept ELSE Append(kept, x), <<>>, c)

\* The fold of the ordered list is that sequence of lists.
LEMMA KeptSteps ==
  ASSUME NEW V, NEW c \in Seq(V), NEW e
  PROVE  \E a : Keeping(a, c, e)
<1>1. PICK n : n = Len(c)
  OBVIOUS
<1>2. n \in Nat /\ DOMAIN c = 1 .. n /\ \A i \in 1 .. n : c[i] \in V
  BY <1>1
<1> DEFINE Op(kept, x) == IF x = e THEN kept ELSE Append(kept, x)
           Folds(g) == g = [S \in SUBSET (1 .. n) |->
                              IF S = {} THEN <<>> ELSE Op(g[S \ {Seqs!Max(S)}], c[Seqs!Max(S)])]
           F == [z \in (1 .. n) \X Seq(V) |-> Op(z[2], c[z[1]])]
<1>3. List!Seqs!FoldLeft(LAMBDA kept, x : IF x = e THEN kept ELSE Append(kept, x), <<>>, c)
         = (CHOOSE g : Folds(g))[1 .. n]
  BY <1>2 DEF List!Seqs!FoldLeft, List!Seqs!MapThenFoldSet, List!Seqs!Max, Seqs!Max
<1>4. \A kept \in Seq(V), x \in V : Op(kept, x) \in Seq(V)
  OBVIOUS
<1> HIDE DEF Op
<1>5. F \in [(1 .. n) \X Seq(V) -> Seq(V)]
  <2>1. \A z \in (1 .. n) \X Seq(V) : Op(z[2], c[z[1]]) \in Seq(V)
    <3> SUFFICES ASSUME NEW z \in (1 .. n) \X Seq(V) PROVE Op(z[2], c[z[1]]) \in Seq(V)
      OBVIOUS
    <3>1. z[1] \in 1 .. n /\ z[2] \in Seq(V)
      BY Zenon
    <3> QED
      BY <1>2, <1>4, <3>1
  <2> QED
    BY <2>1, Zenon
<1>6. \A k \in 1 .. n, kept \in Seq(V) : F[<<k, kept>>] = Op(kept, c[k])
  BY DEF F
<1> HIDE DEF F
<1>7. PICK g \in [SUBSET (1 .. n) -> Seq(V)] : Folding(g, n, <<>>, F)
  <2>1. PICK W, b, G : W = Seq(V) /\ b = <<>> /\ G = F
    OBVIOUS
  <2>2. b \in W /\ G \in [(1 .. n) \X W -> W]
    BY <1>5, <2>1
  <2> QED
    BY <1>2, <2>1, <2>2, FoldExists
<1>8. \A S \in SUBSET (1 .. n) :
          g[S] = IF S = {} THEN <<>> ELSE F[<<Seqs!Max(S), g[S \ {Seqs!Max(S)}]>>]
  BY <1>7 DEF Folding
<1>9. \A S \in SUBSET (1 .. n) : S # {} => Seqs!Max(S) \in 1 .. n /\ S \ {Seqs!Max(S)} \in SUBSET (1 .. n)
  BY <1>2, MaxIs
<1>10. \A S \in SUBSET (1 .. n) : g[S] = IF S = {} THEN <<>> ELSE Op(g[S \ {Seqs!Max(S)}], c[Seqs!Max(S)])
  BY <1>6, <1>9, <1>8
<1>11. g = [S \in SUBSET (1 .. n) |-> g[S]]
  BY <1>7
<1>12. Folds(g)
  BY <1>10, <1>11
<1> HIDE DEF Folds
<1>13. PICK f : f = (CHOOSE ff : Folds(ff)) /\ Folds(f)
  BY <1>12, Zenon
<1>14. \A S \in SUBSET (1 .. n) : f[S] = IF S = {} THEN <<>> ELSE Op(f[S \ {Seqs!Max(S)}], c[Seqs!Max(S)])
  BY <1>13, Zenon DEF Folds
<1> DEFINE a == [k \in 0 .. n |-> f[1 .. k]]
<1>15. a[0] = <<>> /\ a[n] = f[1 .. n]
  <2>1. 1 .. 0 = {} /\ {} \in SUBSET (1 .. n) /\ 0 \in 0 .. n /\ n \in 0 .. n
    BY <1>2
  <2> QED
    BY <1>14, <2>1
<1>16. ASSUME NEW k \in 1 .. n PROVE a[k] = Op(a[k - 1], c[k])
  <2>1. k \in 0 .. n /\ k - 1 \in 0 .. n
    BY <1>2
  <2>2. PICK S : S = 1 .. k
    OBVIOUS
  <2>3. Seqs!Max(S) = k /\ S \ {k} = 1 .. k - 1 /\ S \in SUBSET (1 .. n) /\ S # {}
    BY <1>2, <2>2, IntervalMax
  <2>4. f[S] = Op(f[S \ {k}], c[k])
    BY <1>14, <2>3
  <2> QED
    BY <2>1, <2>2, <2>3, <2>4
<1>17. a = [k \in 0 .. n |-> a[k]]
  OBVIOUS
<1> HIDE DEF a
<1> DEFINE T == {k \in 0 .. n : a[k] \in Seq(V)}
<1>18. \A k \in 0 .. n : k \in T
  <2>1. 0 \in T
    <3>1. <<>> \in Seq(V) /\ 0 \in 0 .. n
      BY <1>2
    <3>2. a[0] \in Seq(V)
      BY <1>15, <3>1, Zenon
    <3> QED
      BY <3>1, <3>2
  <2>2. ASSUME NEW k \in 1 .. n, k - 1 \in T PROVE k \in T
    <3>1. k \in 0 .. n /\ a[k - 1] \in Seq(V)
      BY <2>2
    <3> QED
      BY <1>2, <1>4, <1>16, <3>1
  <2> HIDE DEF T
  <2> QED
    BY <1>2, <2>1, <2>2, UpTo
<1>19. \A k \in 1 .. n : a[k] = IF c[k] = e THEN a[k - 1] ELSE Append(a[k - 1], c[k])
  BY <1>16 DEF Op
<1> QED
  BY <1>1, <1>3, <1>13, <1>15, <1>19 DEF Keeping

-----------------------------------------------------------------------------
(* The invariant, for the queue as it is at some point of a call *)

\* The nodes of s have been allocated, for elements in the order of their priority.
Arranged(s, d, u) ==
    /\ Len(s) <= u
    /\ \A i \in DOMAIN s : s[i] <= u /\ d[s[i]] \in Elements
    /\ \A i, j \in DOMAIN s : i <= j => Priority[d[s[i]]] <= Priority[d[s[j]]]

\* The links of nodes that are not allocated are as offer expects them.
Unused(h, u) == \A m \in Nodes : m > u => h.next[m] = NULL /\ h.prev[m] = NULL

\* With h, d and u for q, data and used, s is what the queue holds.
Holds(h, s, d, u) == h \in Heap /\ Linked(h, s) /\ Arranged(s, d, u) /\ Unused(h, u)

\* Unlinking a node leaves a queue that holds the others.
LEMMA UnlinkKeeps ==
  ASSUME NEW h, NEW s, NEW d, NEW u \in Nat, Holds(h, s, d, u), NEW k \in 1 .. Len(s)
  PROVE  Holds(Unlink(h, s[k]), Dropped(s, k), d, u)
<1>1. PICK n : n = Len(s)
  OBVIOUS
<1>2. h \in Heap /\ Linked(h, s) /\ Arranged(s, d, u) /\ Unused(h, u)
  BY DEF Holds
<1>3. /\ n = Len(s) /\ n \in Nat /\ DOMAIN s = 1 .. n /\ k \in 1 .. n
      /\ \A i \in 1 .. n : s[i] \in Nodes
  <2>1. s \in Seq(Nodes)
    BY <1>2 DEF Linked
  <2> QED
    BY <1>1, <2>1
<1>4. PICK g, t : g = Unlink(h, s[k]) /\ t = Dropped(s, k)
  OBVIOUS
<1>5. Linked(g, t)
  BY <1>2, <1>4, UnlinkDrops
<1>6. /\ Len(t) = n - 1 /\ DOMAIN t = 1 .. n - 1
      /\ \A i \in 1 .. n - 1 : t[i] = IF i < k THEN s[i] ELSE s[i + 1]
  <2>1. s \in Seq(Nodes)
    BY <1>2 DEF Linked
  <2> QED
    BY <1>1, <1>4, <2>1, DroppedIs
<1>7. PICK p, x : p = h.prev[s[k]] /\ x = h.next[s[k]]
  OBVIOUS
<1>8. /\ g \in Heap
      /\ g.prev = IF x = NULL THEN h.prev ELSE [h.prev EXCEPT ![x] = p]
      /\ g.next = IF p = NULL THEN h.next ELSE [h.next EXCEPT ![p] = x]
  <2>1. PICK a \in Nodes : a = s[k]
    BY <1>3
  <2>2. p = h.prev[a] /\ x = h.next[a] /\ g = Unlink(h, a)
    BY <1>4, <1>7, <2>1
  <2> QED
    BY <1>2, <2>2, UnlinkIs
<1>9. (p # NULL => p <= u) /\ (x # NULL => x <= u)
  <2>1. /\ p = IF k = 1 THEN NULL ELSE s[k - 1]
        /\ x = IF k = n THEN NULL ELSE s[k + 1]
    BY <1>2, <1>3, <1>7 DEF Linked
  <2>2. (k # 1 => k - 1 \in 1 .. n) /\ (k # n => k + 1 \in 1 .. n)
    BY <1>3
  <2>3. \A i \in 1 .. n : s[i] <= u
    BY <1>2, <1>3 DEF Arranged
  <2> QED
    BY <2>1, <2>2, <2>3
<1>10. Unused(g, u)
  <2> SUFFICES ASSUME NEW m \in Nodes, m > u PROVE g.next[m] = NULL /\ g.prev[m] = NULL
    BY DEF Unused
  <2>1. h.next[m] = NULL /\ h.prev[m] = NULL
    BY <1>2 DEF Unused
  <2>2. (p # NULL => m # p) /\ (x # NULL => m # x)
    <3>1. m \in Nat
      BY QueueAssumption DEF Nodes
    <3> QED
      BY <1>9, <3>1
  <2>3. DOMAIN h.prev = Nodes /\ DOMAIN h.next = Nodes
    BY <1>2 DEF Heap
  <2> QED
    BY <1>8, <2>1, <2>2, <2>3
<1>11. \A i \in 1 .. n - 1 : /\ (IF i < k THEN i ELSE i + 1) \in 1 .. n
                             /\ t[i] = s[IF i < k THEN i ELSE i + 1]
  BY <1>3, <1>6
<1>12. Arranged(t, d, u)
  <2>1. Len(t) <= u
    <3>1. n <= u
      BY <1>2, <1>3 DEF Arranged
    <3> QED
      BY <1>3, <1>6, <3>1
  <2>2. \A i \in DOMAIN t : t[i] <= u /\ d[t[i]] \in Elements
    <3>1. \A i \in 1 .. n : s[i] <= u /\ d[s[i]] \in Elements
      BY <1>2, <1>3 DEF Arranged
    <3> QED
      BY <1>6, <1>11, <3>1
  <2>3. \A i, j \in DOMAIN t : i <= j => Priority[d[t[i]]] <= Priority[d[t[j]]]
    <3> SUFFICES ASSUME NEW i \in 1 .. n - 1, NEW j \in 1 .. n - 1, i <= j
                 PROVE  Priority[d[t[i]]] <= Priority[d[t[j]]]
      BY <1>6
    <3>1. PICK a, b : a = (IF i < k THEN i ELSE i + 1) /\ b = (IF j < k THEN j ELSE j + 1)
      OBVIOUS
    <3>2. a \in 1 .. n /\ b \in 1 .. n /\ a <= b
      BY <1>3, <3>1
    <3>3. t[i] = s[a] /\ t[j] = s[b]
      BY <1>11, <3>1
    <3>4. \A v, w \in 1 .. n : v <= w => Priority[d[s[v]]] <= Priority[d[s[w]]]
      BY <1>2, <1>3 DEF Arranged
    <3> QED
      BY <3>2, <3>3, <3>4
  <2> QED
    BY <2>1, <2>2, <2>3 DEF Arranged
<1> QED
  BY <1>4, <1>5, <1>8, <1>10, <1>12 DEF Holds

-----------------------------------------------------------------------------
(* The loop of priqueue_remove *)

\* One value of f more.
LEMMA AppendIs ==
  ASSUME NEW m \in Nat, NEW f
  PROVE  Append([i \in 1 .. m |-> f[i]], f[m + 1]) = [i \in 1 .. m + 1 |-> f[i]]
<1> DEFINE V == {f[i] : i \in 1 .. m + 1}
<1>1. PICK w : w = [i \in 1 .. m |-> f[i]]
  OBVIOUS
<1>2. w \in [1 .. m -> V]
  BY <1>1
<1>3. f[m + 1] \in V
  OBVIOUS
<1> HIDE DEF V
<1>4. w \in Seq(V) /\ Len(w) = m
  BY <1>2, SeqDef
<1>5. PICK z : z = Append(w, f[m + 1])
  OBVIOUS
<1>6. z \in Seq(V) /\ Len(z) = m + 1 /\ \A i \in 1 .. m + 1 : z[i] = f[i]
  <2>1. z \in Seq(V) /\ Len(z) = m + 1 /\ z[m + 1] = f[m + 1]
    BY <1>3, <1>4, <1>5
  <2>2. \A i \in 1 .. m : z[i] = w[i]
    BY <1>3, <1>4, <1>5
  <2>3. \A i \in 1 .. m + 1 : i \in 1 .. m \/ i = m + 1
    OBVIOUS
  <2> QED
    BY <1>1, <2>1, <2>2, <2>3
<1>7. z = [i \in 1 .. m + 1 |-> z[i]]
  BY <1>6
<1> QED
  BY <1>1, <1>5, <1>6, <1>7

\* h is left with t of s, A's lists with its elements.
Left(h, t, s, e, A) ==
    /\ Holds(h, t, data, used)
    /\ \A a \in A : a[Len(s)] = [i \in 1 .. Len(t) |-> data[t[i]]]
    /\ Cardinality({i \in 1 .. Len(s) : Matches(s[i], e)}) = Len(s) - Len(t)

\* Whatever A's lists keep of the elements is what stays in the queue.
LEMMA RemoveLoop ==
  ASSUME NEW s, Holds(q, s, data, used), used \in Nat, NEW e, NEW n, n = Len(s),
         NEW r, r[0] = q,
         \A k \in 1 .. n : r[k] = IF Matches(s[k], e) THEN Unlink(r[k - 1], s[k]) ELSE r[k - 1],
         NEW A, \A a \in A : /\ a[0] = <<>>
                             /\ \A k \in 1 .. n : a[k] = IF Matches(s[k], e) THEN a[k - 1]
                                                         ELSE Append(a[k - 1], data[s[k]])
  PROVE  \E t : Left(r[n], t, s, e, A)
<1> DEFINE Matching(k) == {i \in 1 .. k : Matches(s[i], e)}
           Ahead(k, t, m) == /\ m \in 0 .. k /\ Len(t) = m + (n - k)
                             /\ \A i \in 1 .. n - k : t[m + i] = s[k + i]
           Kept(k, t, m) == \A a \in A : a[k] = [i \in 1 .. m |-> data[t[i]]]
           Counted(k, m) == Cardinality(Matching(k)) = k - m
           T == {k \in 0 .. n : \E t, m : /\ Holds(r[k], t, data, used)
                                          /\ Ahead(k, t, m) /\ Kept(k, t, m) /\ Counted(k, m)}
<1>1. n \in Nat /\ s \in Seq(Nodes)
  BY DEF Holds, Linked
<1>2. 0 \in T
  <2>1. Holds(r[0], s, data, used)
    OBVIOUS
  <2>2. Ahead(0, s, 0)
    BY <1>1
  <2>3. Kept(0, s, 0)
    OBVIOUS
  <2>4. Counted(0, 0)
    <3>1. Matching(0) = {}
      OBVIOUS
    <3> QED
      BY <3>1, FS_EmptySet
  <2>5. 0 \in 0 .. n
    BY <1>1
  <2> HIDE DEF Ahead, Kept, Counted
  <2> QED
    BY <2>1, <2>2, <2>3, <2>4, <2>5
<1>3. \A k \in 0 .. n : IsFiniteSet(Matching(k))
  <2> SUFFICES ASSUME NEW k \in 0 .. n PROVE IsFiniteSet(Matching(k))
    OBVIOUS
  <2>1. Matching(k) \subseteq 1 .. k /\ IsFiniteSet(1 .. k)
    BY FS_Interval
  <2> QED
    BY <2>1, FS_Subset
<1>4. ASSUME NEW k \in 1 .. n, k - 1 \in T PROVE k \in T
  <2> HIDE DEF Ahead, Kept, Counted
  <2>1. PICK t, m : /\ Holds(r[k - 1], t, data, used)
                    /\ Ahead(k - 1, t, m) /\ Kept(k - 1, t, m) /\ Counted(k - 1, m)
    BY <1>4
  <2>2. k \in 0 .. n /\ k - 1 \in 0 .. n /\ n - (k - 1) = (n - k) + 1
    BY <1>1
  <2>3. /\ m \in 0 .. k - 1 /\ Len(t) = m + (n - k) + 1 /\ m + 1 \in 1 .. Len(t)
        /\ t[m + 1] = s[k]
        /\ \A i \in 1 .. n - k : t[m + (i + 1)] = s[k + i]
    <3>1. /\ m \in 0 .. k - 1 /\ Len(t) = m + (n - (k - 1))
          /\ \A i \in 1 .. n - (k - 1) : t[m + i] = s[(k - 1) + i]
      BY <2>1 DEF Ahead
    <3>2. Len(t) = m + (n - k) + 1 /\ m + 1 \in 1 .. Len(t)
      BY <1>1, <3>1
    <3>3. t[m + 1] = s[k]
      <4>1. 1 \in 1 .. n - (k - 1) /\ (k - 1) + 1 = k
        BY <1>1
      <4> QED
        BY <3>1, <4>1
    <3>4. ASSUME NEW i \in 1 .. n - k PROVE t[m + (i + 1)] = s[k + i]
      <4>1. i + 1 \in 1 .. n - (k - 1) /\ (k - 1) + (i + 1) = k + i
        BY <1>1
      <4> QED
        BY <3>1, <4>1
    <3> QED
      BY <3>1, <3>2, <3>3, <3>4
  <2>4. /\ t \in Seq(Nodes) /\ DOMAIN t = 1 .. Len(t)
        /\ Kept(k - 1, t, m) => \A a \in A : a[k - 1] = [i \in 1 .. m |-> data[t[i]]]
    BY <2>1 DEF Holds, Linked, Kept
  <2>5. CASE Matches(s[k], e)
    <3>1. PICK x : x = Dropped(t, m + 1)
      OBVIOUS
    <3>2. /\ Len(x) = Len(t) - 1
          /\ \A i \in 1 .. Len(t) - 1 : x[i] = IF i < m + 1 THEN t[i] ELSE t[i + 1]
      BY <2>3, <2>4, <3>1, DroppedIs
    <3>3. Holds(r[k], x, data, used)
      <4>1. PICK j, h : j = m + 1 /\ h = r[k - 1]
        OBVIOUS
      <4>2. j \in 1 .. Len(t) /\ Holds(h, t, data, used)
        BY <2>1, <2>3, <4>1
      <4>3. Holds(Unlink(h, t[j]), Dropped(t, j), data, used)
        BY <4>2, UnlinkKeeps
      <4> QED
        BY <2>3, <2>5, <3>1, <4>1, <4>3
    <3>4. Ahead(k, x, m)
      <4>1. m \in 0 .. k /\ Len(x) = m + (n - k)
        BY <1>1, <2>3, <3>2
      <4>2. ASSUME NEW i \in 1 .. n - k PROVE x[m + i] = s[k + i]
        <5>1. m + i \in 1 .. Len(t) - 1 /\ ~ m + i < m + 1 /\ (m + i) + 1 = m + (i + 1)
          BY <1>1, <2>3
        <5> QED
          BY <2>3, <3>2, <5>1
      <4> QED
        BY <4>1, <4>2 DEF Ahead
    <3>5. Kept(k, x, m)
      <4>1. \A i \in 1 .. m : x[i] = t[i]
        BY <1>1, <2>3, <3>2
      <4>2. \A a \in A : a[k] = a[k - 1]
        BY <2>5
      <4> QED
        BY <2>1, <2>4, <4>1, <4>2 DEF Kept
    <3>6. Counted(k, m)
      <4>1. Matching(k) = Matching(k - 1) \cup {k} /\ k \notin Matching(k - 1)
        BY <2>5
      <4>2. Cardinality(Matching(k - 1)) = (k - 1) - m
        BY <2>1 DEF Counted
      <4> HIDE DEF Matching
      <4>3. Cardinality(Matching(k)) = ((k - 1) - m) + 1
        BY <2>2, <4>1, <4>2, FS_AddElement, <1>3
      <4> QED
        BY <2>3, <4>3 DEF Counted
    <3> QED
      BY <2>2, <3>3, <3>4, <3>5, <3>6
  <2>6. CASE ~ Matches(s[k], e)
    <3>1. Holds(r[k], t, data, used)
      BY <2>1, <2>6
    <3>2. Ahead(k, t, m + 1)
      <4>1. m + 1 \in 0 .. k /\ Len(t) = (m + 1) + (n - k)
        BY <1>1, <2>3
      <4>2. ASSUME NEW i \in 1 .. n - k PROVE t[(m + 1) + i] = s[k + i]
        <5>1. (m + 1) + i = m + (i + 1)
          BY <1>1, <2>3
        <5> QED
          BY <2>3, <5>1
      <4> QED
        BY <4>1, <4>2 DEF Ahead
    <3>3. Kept(k, t, m + 1)
      <4> SUFFICES ASSUME NEW a \in A PROVE a[k] = [i \in 1 .. m + 1 |-> data[t[i]]]
        BY DEF Kept
      <4>1. a[k] = Append(a[k - 1], data[s[k]])
        BY <2>6
      <4>2. a[k - 1] = [i \in 1 .. m |-> data[t[i]]]
        BY <2>1, <2>4
      <4>3. PICK f : f = [i \in 1 .. m + 1 |-> data[t[i]]]
        OBVIOUS
      <4>4. /\ m \in Nat /\ f[m + 1] = data[s[k]]
            /\ [i \in 1 .. m |-> data[t[i]]] = [i \in 1 .. m |-> f[i]]
            /\ f = [i \in 1 .. m + 1 |-> f[i]]
        BY <2>3, <4>3
      <4>5. Append([i \in 1 .. m |-> f[i]], f[m + 1]) = [i \in 1 .. m + 1 |-> f[i]]
        BY <4>4, AppendIs
      <4> QED
        BY <4>1, <4>2, <4>3, <4>4, <4>5
    <3>4. Counted(k, m + 1)
      <4>1. Matching(k) = Matching(k - 1)
        BY <2>6
      <4>2. Cardinality(Matching(k - 1)) = (k - 1) - m
        BY <2>1 DEF Counted
      <4> HIDE DEF Matching
      <4>3. Cardinality(Matching(k)) = k - (m + 1)
        BY <2>3, <4>1, <4>2
      <4> QED
        BY <4>3 DEF Counted
    <3> QED
      BY <2>2, <3>1, <3>2, <3>3, <3>4
  <2> QED
    BY <2>5, <2>6
<1>5. \A k \in 0 .. n : k \in T
  <2> HIDE DEF T
  <2> QED
    BY <1>1, <1>2, <1>4, UpTo
<1> HIDE DEF Ahead, Kept, Counted
<1>6. PICK t, m : Holds(r[n], t, data, used) /\ Ahead(n, t, m) /\ Kept(n, t, m) /\ Counted(n, m)
  BY <1>1, <1>5
<1>7. m = Len(t)
  BY <1>1, <1>6 DEF Ahead
<1> QED
  BY <1>6, <1>7 DEF Kept, Counted, Left
-----------------------------------------------------------------------------
(* What the calls do to the list of elements *)

\* InsertAt of the ordered list is Inserted.
LEMMA InsertAtIs ==
  ASSUME NEW S, NEW c \in Seq(S), NEW e \in S, NEW k \in 0 .. Len(c)
  PROVE  List!Seqs!InsertAt(c, k + 1, e) = Inserted(c, k, e)
<1>1. PICK n \in Nat : n = Len(c)
  OBVIOUS
<1>2. PICK f, g, h : f = SubSeq(c, 1, k) /\ g = <<e>> /\ h = SubSeq(c, k + 1, n)
  OBVIOUS
<1>3. /\ f \in Seq(S) /\ Len(f) = k /\ \A i \in 1 .. k : f[i] = c[i]
      /\ g \in Seq(S) /\ Len(g) = 1 /\ g[1] = e
      /\ h \in Seq(S) /\ Len(h) = n - k /\ \A i \in 1 .. n - k : h[i] = c[k + i]
  BY <1>1, <1>2
<1>4. PICK y, z : y = f \o g /\ z = y \o h
  OBVIOUS
<1>5. y \in Seq(S) /\ Len(y) = k + 1 /\ \A i \in 1 .. k + 1 : y[i] = IF i <= k THEN f[i] ELSE g[i - k]
  <2>1. /\ f \o g \in Seq(S) /\ Len(f \o g) = Len(f) + Len(g)
        /\ \A i \in 1 .. Len(f) + Len(g) :
              (f \o g)[i] = IF i <= Len(f) THEN f[i] ELSE g[i - Len(f)]
    BY <1>3, ConcatProperties
  <2> QED
    BY <1>3, <1>4, <2>1
<1>6. /\ z \in Seq(S) /\ Len(z) = n + 1
      /\ \A i \in 1 .. n + 1 : z[i] = IF i <= k + 1 THEN y[i] ELSE h[i - (k + 1)]
  <2>1. y \in Seq(S) /\ h \in Seq(S)
    BY <1>3, <1>5
  <2>2. /\ y \o h \in Seq(S) /\ Len(y \o h) = Len(y) + Len(h)
        /\ \A i \in 1 .. Len(y) + Len(h) :
              (y \o h)[i] = IF i <= Len(y) THEN y[i] ELSE h[i - Len(y)]
    BY <2>1, ConcatProperties
  <2>3. Len(y) + Len(h) = n + 1
    BY <1>1, <1>3, <1>5
  <2> QED
    BY <1>4, <1>5, <2>2, <2>3
<1>7. ASSUME NEW i \in 1 .. n + 1
      PROVE  z[i] = IF i <= k THEN c[i] ELSE IF i = k + 1 THEN e ELSE c[i - 1]
  <2>1. CASE i <= k
    <3>1. i \in 1 .. k /\ i <= k + 1 /\ i \in 1 .. k + 1
      BY <1>1, <2>1
    <3> QED
      BY <1>3, <1>6, <1>5, <2>1, <3>1
  <2>2. CASE i = k + 1
    <3>1. i \in 1 .. k + 1 /\ ~ i <= k /\ i <= k + 1 /\ i - k = 1
      BY <1>1, <2>2
    <3> QED
      BY <1>3, <1>6, <1>5, <2>2, <3>1
  <2>3. CASE ~ i <= k /\ i # k + 1
    <3>1. ~ i <= k + 1 /\ i - (k + 1) \in 1 .. n - k /\ k + (i - (k + 1)) = i - 1
      BY <1>1, <2>3
    <3> QED
      BY <1>3, <1>6, <2>3, <3>1
  <2> QED
    BY <2>1, <2>2, <2>3
<1>8. z = [i \in 1 .. n + 1 |-> z[i]]
  BY <1>6
<1>9. z = Inserted(c, k, e)
  BY <1>1, <1>7, <1>8 DEF Inserted
<1>10. List!Seqs!InsertAt(c, k + 1, e) = z
  <2>1. (k + 1) - 1 = k
    OBVIOUS
  <2> QED
    BY <1>1, <1>2, <1>4, <2>1 DEF List!Seqs!InsertAt
<1> QED
  BY <1>9, <1>10

\* RemoveAt of the ordered list is Dropped.
LEMMA RemoveAtIs ==
  ASSUME NEW S, NEW c \in Seq(S), NEW k \in 1 .. Len(c)
  PROVE  List!Seqs!RemoveAt(c, k) = Dropped(c, k)
<1>1. PICK n \in Nat : n = Len(c)
  OBVIOUS
<1>2. PICK f, h : f = SubSeq(c, 1, k - 1) /\ h = SubSeq(c, k + 1, n)
  OBVIOUS
<1>3. /\ f \in Seq(S) /\ Len(f) = k - 1 /\ \A i \in 1 .. k - 1 : f[i] = c[i]
      /\ h \in Seq(S) /\ Len(h) = n - k /\ \A i \in 1 .. n - k : h[i] = c[k + i]
  BY <1>1, <1>2
<1>4. PICK z : z = f \o h
  OBVIOUS
<1>5. z \in Seq(S) /\ Len(z) = n - 1
  BY <1>1, <1>3, <1>4
<1>6. ASSUME NEW i \in 1 .. n - 1
      PROVE  z[i] = IF i < k THEN c[i] ELSE c[i + 1]
  <2>1. i < k => i \in 1 .. k - 1 /\ z[i] = f[i]
    BY <1>1, <1>3, <1>4
  <2>2. ~ i < k => z[i] = h[i - (k - 1)]
    BY <1>1, <1>3, <1>4
  <2>3. ~ i < k => i - (k - 1) \in 1 .. n - k /\ k + (i - (k - 1)) = i + 1
    BY <1>1
  <2> QED
    BY <1>1, <1>3, <2>1, <2>2, <2>3
<1>7. z = [i \in 1 .. n - 1 |-> z[i]]
  BY <1>5
<1>8. z = Dropped(c, k)
  BY <1>1, <1>6, <1>7 DEF Dropped
<1> QED
  BY <1>1, <1>2, <1>4, <1>8 DEF List!Seqs!RemoveAt

\* And so is Tail.
LEMMA TailIs ==
  ASSUME NEW S, NEW c \in Seq(S), c # <<>>
  PROVE  Tail(c) = Dropped(c, 1)
<1>1. PICK n \in Nat : n = Len(c)
  OBVIOUS
<1>2. PICK z : z = Tail(c)
  OBVIOUS
<1>3. z \in Seq(S) /\ Len(z) = n - 1 /\ \A i \in 1 .. n - 1 : z[i] = c[i + 1]
  BY <1>1, <1>2
<1>4. z = [i \in 1 .. n - 1 |-> z[i]]
  BY <1>3
<1>5. z = [i \in 1 .. n - 1 |-> IF i < 1 THEN c[i] ELSE c[i + 1]]
  BY <1>3, <1>4
<1> QED
  BY <1>1, <1>2, <1>5 DEF Dropped

\* What Contents is in this state and the next.
LEMMA ContentsAre ==
  ASSUME NEW s, Holds(q, s, data, used), used \in 0 .. MaxNodes
  PROVE  /\ Chain = s
         /\ \A i \in 0 .. MaxNodes : nth[i] = IF i < Len(s) THEN s[i + 1] ELSE NULL
         /\ Contents = [i \in 1 .. Len(s) |-> data[s[i]]]
         /\ Contents \in Seq(Elements) /\ Len(Contents) = Len(s)
<1>1. PICK n : n = Len(s)
  OBVIOUS
<1>2. n \in Nat /\ DOMAIN s = 1 .. n /\ n <= MaxNodes /\ \A i \in 1 .. n : data[s[i]] \in Elements
  <2>1. s \in Seq(Nodes) /\ n <= used /\ \A i \in DOMAIN s : data[s[i]] \in Elements
    BY <1>1 DEF Holds, Linked, Arranged
  <2> QED
    BY QueueAssumption, <1>1, <2>1
<1>3. /\ Chain = s
      /\ \A i \in 0 .. MaxNodes : nth[i] = IF i < Len(s) THEN s[i + 1] ELSE NULL
  BY <1>1, <1>2, ChainIs DEF Holds
<1>4. PICK c : c = Contents
  OBVIOUS
<1>5. c = [i \in 1 .. n |-> data[s[i]]]
  BY <1>2, <1>3, <1>4 DEF Contents
<1>6. c \in [1 .. n -> Elements]
  BY <1>2, <1>5
<1>7. c \in Seq(Elements) /\ Len(c) = n
  BY <1>2, <1>6, SeqDef
<1> QED
  BY <1>1, <1>3, <1>4, <1>5, <1>7

\* The same of the next state, for what it holds.
LEMMA NextContentsAre ==
  ASSUME NEW t, Holds(q', t, data', used'), used' \in 0 .. MaxNodes
  PROVE  Contents' = [i \in 1 .. Len(t) |-> data'[t[i]]]
<1>1. t \in Seq(Nodes) /\ Len(t) <= MaxNodes /\ Linked(q', t)
  <2>1. t \in Seq(Nodes) /\ Len(t) <= used' /\ Linked(q', t)
    BY DEF Holds, Linked, Arranged
  <2> QED
    BY QueueAssumption, <2>1
<1>2. Chain' = t
  BY <1>1, NextChainIs
<1>3. DOMAIN t = 1 .. Len(t)
  BY <1>1
<1> QED
  BY <1>2, <1>3 DEF Contents
-----------------------------------------------------------------------------
(* The calls, one after the other *)

\* The state between two calls: the queue holds s.
Known(s) == /\ Holds(q, s, data, used)
            /\ data \in [Nodes -> Elements \cup {NULL}]
            /\ used \in 0 .. MaxNodes

\* The place of a newcomer is behind all that do not have a lower priority.
LEMMA OfferPlace ==
  ASSUME NEW s, Known(s), NEW e \in Elements, Offer(e)
  PROVE  \E k \in 0 .. Len(s) :
            /\ q' = LinkIn(used + 1, IF k = Len(s) THEN NULL ELSE s[k + 1])
            /\ out' = k
            /\ \A i \in 1 .. Len(s) : i <= k <=> Priority[data[s[i]]] <= Priority[e]
<1>1. PICK n : n = Len(s)
  OBVIOUS
<1>2. /\ n \in Nat /\ DOMAIN s = 1 .. n /\ n <= MaxNodes /\ MaxNodes \in Nat
      /\ \A i \in 1 .. n : data[s[i]] \in Elements
      /\ \A i, j \in 1 .. n : i <= j => Priority[data[s[i]]] <= Priority[data[s[j]]]
  <2>1. s \in Seq(Nodes) /\ Len(s) <= used
    BY DEF Known, Holds, Linked, Arranged
  <2>2. n \in Nat /\ DOMAIN s = 1 .. n /\ n <= MaxNodes /\ MaxNodes \in Nat
    BY QueueAssumption, <1>1, <2>1 DEF Known
  <2> QED
    BY <2>2 DEF Known, Holds, Arranged
<1>3. Chain = s /\ \A i \in 0 .. MaxNodes : nth[i] = IF i < n THEN s[i + 1] ELSE NULL
  BY <1>1, ContentsAre DEF Known
<1> DEFINE overtaken == {i \in DOMAIN Chain : Precedes(e, Chain[i])}
           first == CHOOSE i \in overtaken : \A j \in overtaken : i <= j
           index == IF overtaken = {} THEN Len(Chain) ELSE first - 1
<1>4. q' = LinkIn(used + 1, nth[index]) /\ out' = index
  BY DEF Offer
<1>5. overtaken = {i \in 1 .. n : Priority[e] < Priority[data[s[i]]]}
  BY <1>2, <1>3 DEF Precedes
<1> HIDE DEF overtaken
<1>6. overtaken # {} /\ (\E i \in overtaken : \A j \in overtaken : i <= j)
         => first \in overtaken /\ \A j \in overtaken : first <= j
  BY Zenon
<1> HIDE DEF first
<1>7. index = IF overtaken = {} THEN n ELSE first - 1
  BY <1>1, <1>3
<1> HIDE DEF index
<1>8. \A i \in 1 .. n : Priority[data[s[i]]] \in Int /\ Priority[e] \in Int
  BY QueueAssumption, <1>2
<1>9. index \in 0 .. n /\ \A i \in 1 .. n : i <= index <=> Priority[data[s[i]]] <= Priority[e]
  <2>1. CASE overtaken = {}
    <3>1. index = n
      BY <1>7, <2>1
    <3>2. \A i \in 1 .. n : Priority[data[s[i]]] <= Priority[e]
      BY <1>5, <1>8, <2>1
    <3> QED
      BY <1>2, <3>1, <3>2
  <2>2. CASE overtaken # {}
    <3>1. PICK m : m = first
      OBVIOUS
    <3>2. m \in overtaken /\ \A j \in overtaken : m <= j
      <4>1. overtaken \subseteq Nat
        BY <1>5
      <4>2. \E i \in overtaken : \A j \in overtaken : i <= j
        BY <2>2, <4>1, LeastNumber
      <4> QED
        BY <1>6, <2>2, <3>1, <4>2
    <3>3. m \in 1 .. n /\ index = m - 1 /\ index \in 0 .. n
      <4>1. m \in 1 .. n
        BY <1>5, <3>2
      <4>2. index = m - 1
        BY <1>7, <2>2, <3>1
      <4> QED
        BY <1>2, <4>1, <4>2
    <3>4. ASSUME NEW i \in 1 .. n PROVE i <= index <=> Priority[data[s[i]]] <= Priority[e]
      <4>1. CASE i < m
        <5>1. i \notin overtaken
          BY <3>2, <3>3, <4>1
        <5> QED
          BY <1>5, <1>8, <3>3, <4>1, <5>1
      <4>2. CASE ~ i < m
        <5>1. Priority[data[s[m]]] <= Priority[data[s[i]]]
          BY <1>2, <3>3, <4>2
        <5>2. Priority[e] < Priority[data[s[m]]]
          BY <1>5, <3>2
        <5> QED
          BY <1>8, <3>3, <4>2, <5>1, <5>2
      <4> QED
        BY <4>1, <4>2
    <3> QED
      BY <3>3, <3>4
  <2> QED
    BY <2>1, <2>2
<1>10. nth[index] = IF index = n THEN NULL ELSE s[index + 1]
  <2>1. index \in 0 .. MaxNodes /\ (index < n <=> index # n)
    BY <1>2, <1>9
  <2> QED
    BY <1>3, <2>1
<1>11. /\ q' = LinkIn(used + 1, IF index = Len(s) THEN NULL ELSE s[index + 1])
      /\ index \in 0 .. Len(s)
      /\ \A i \in 1 .. Len(s) : i <= index <=> Priority[data[s[i]]] <= Priority[e]
  BY <1>1, <1>4, <1>9, <1>10
<1> QED
  BY <1>4, <1>11

\* priqueue_offer inserts the element where the ordered list does.
LEMMA OfferStep ==
  ASSUME NEW s, Known(s), NEW e \in Elements, Offer(e)
  PROVE  \E t : Holds(q', t, data', used') /\ List!Offer(e)
<1>1. PICK n : n = Len(s)
  OBVIOUS
<1>2. /\ n \in Nat /\ DOMAIN s = 1 .. n /\ n <= used /\ used \in Nat /\ used < MaxNodes
      /\ s \in Seq(Nodes)
      /\ \A i \in 1 .. n : s[i] \in Nodes /\ s[i] <= used /\ data[s[i]] \in Elements
      /\ \A i, j \in 1 .. n : i <= j => Priority[data[s[i]]] <= Priority[data[s[j]]]
  <2>1. s \in Seq(Nodes) /\ Len(s) <= used
    BY DEF Known, Holds, Linked, Arranged
  <2>2. /\ n \in Nat /\ DOMAIN s = 1 .. n /\ n <= used /\ used \in Nat /\ used < MaxNodes
        /\ \A i \in 1 .. n : s[i] \in Nodes
    BY QueueAssumption, <1>1, <2>1 DEF Known, Offer
  <2> QED
    BY <2>1, <2>2 DEF Known, Holds, Arranged
<1>3. PICK k \in 0 .. n :
         /\ q' = LinkIn(used + 1, IF k = n THEN NULL ELSE s[k + 1])
         /\ out' = k
         /\ \A i \in 1 .. n : i <= k <=> Priority[data[s[i]]] <= Priority[e]
  BY <1>1, OfferPlace
<1>4. PICK new, x, p : /\ new = used + 1 /\ x = IF k = n THEN NULL ELSE s[k + 1]
                       /\ p = IF k = 0 THEN NULL ELSE s[k]
  OBVIOUS
<1>5. /\ new \in Nodes /\ new \in Nat /\ new <= MaxNodes /\ q.next[new] = NULL /\ q.prev[new] = NULL
      /\ \A i \in 1 .. n : s[i] # new
  <2>1. new \in Nodes /\ new \in Nat /\ new <= MaxNodes /\ new > used /\ \A i \in 1 .. n : s[i] # new
    BY QueueAssumption, <1>2, <1>4 DEF Nodes
  <2> QED
    BY <2>1 DEF Known, Holds, Unused
<1>6. q \in Heap /\ Linked(q, s) /\ Unused(q, used)
  BY DEF Known, Holds
<1>7. q' = LinkIn(new, x) /\ data' = [data EXCEPT ![new] = e] /\ used' = new
  BY <1>3, <1>4 DEF Offer
<1>8. PICK t : t = Inserted(s, k, new)
  OBVIOUS
<1>9. Linked(q', t) /\ q' \in Heap
  BY <1>1, <1>2, <1>4, <1>5, <1>6, <1>7, <1>8, LinkInInserts
<1>10. /\ Len(t) = n + 1 /\ DOMAIN t = 1 .. n + 1
       /\ \A i \in 1 .. n + 1 : t[i] = IF i <= k THEN s[i] ELSE IF i = k + 1 THEN new ELSE s[i - 1]
  <2>1. k \in 0 .. Len(s) /\ s \in Seq(Nodes) /\ new \in Nodes
    BY <1>1, <1>2, <1>5
  <2>2. /\ Len(Inserted(s, k, new)) = Len(s) + 1 /\ DOMAIN Inserted(s, k, new) = 1 .. Len(s) + 1
        /\ \A i \in 1 .. Len(s) + 1 :
              Inserted(s, k, new)[i] = IF i <= k THEN s[i] ELSE IF i = k + 1 THEN new ELSE s[i - 1]
    BY <2>1, InsertedIs
  <2> QED
    BY <1>1, <1>8, <2>2
<1>11. PICK c, d : c = Contents /\ d = Inserted(c, k, e)
  OBVIOUS
<1>12. c \in Seq(Elements) /\ Len(c) = n /\ \A i \in 1 .. n : c[i] = data[s[i]]
  BY <1>1, <1>11, ContentsAre DEF Known
<1>13. /\ Len(d) = n + 1 /\ DOMAIN d = 1 .. n + 1 /\ d \in Seq(Elements)
       /\ \A i \in 1 .. n + 1 : d[i] = IF i <= k THEN c[i] ELSE IF i = k + 1 THEN e ELSE c[i - 1]
  <2>1. k \in 0 .. Len(c) /\ c \in Seq(Elements)
    BY <1>12
  <2>2. /\ Len(Inserted(c, k, e)) = Len(c) + 1 /\ DOMAIN Inserted(c, k, e) = 1 .. Len(c) + 1
        /\ Inserted(c, k, e) \in Seq(Elements)
        /\ \A i \in 1 .. Len(c) + 1 :
              Inserted(c, k, e)[i] = IF i <= k THEN c[i] ELSE IF i = k + 1 THEN e ELSE c[i - 1]
    BY <2>1, InsertedIs
  <2> QED
    BY <1>11, <1>12, <2>2
<1>14. \A i \in 1 .. n + 1 : data'[t[i]] = d[i] /\ t[i] <= new
  <2> SUFFICES ASSUME NEW i \in 1 .. n + 1 PROVE data'[t[i]] = d[i] /\ t[i] <= new
    OBVIOUS
  <2>1. DOMAIN data = Nodes /\ \A j \in 1 .. n : s[j] <= new
    BY <1>2, <1>4 DEF Known
  <2>2. CASE i <= k
    <3>1. i \in 1 .. n
      BY <1>2, <2>2
    <3> QED
      BY <1>2, <1>5, <1>7, <1>10, <1>12, <1>13, <2>1, <2>2, <3>1
  <2>3. CASE i = k + 1
    <3>1. ~ i <= k
      BY <2>3
    <3> QED
      BY <1>5, <1>7, <1>10, <1>13, <2>1, <2>3, <3>1
  <2>4. CASE ~ i <= k /\ i # k + 1
    <3>1. i - 1 \in 1 .. n
      BY <1>2, <2>4
    <3> QED
      BY <1>2, <1>5, <1>7, <1>10, <1>12, <1>13, <2>1, <2>4, <3>1
  <2> QED
    BY <2>2, <2>3, <2>4
<1>15. Arranged(t, data', used')
  <2>1. Len(t) <= used'
    BY <1>2, <1>4, <1>7, <1>10
  <2>2. \A i \in DOMAIN t : t[i] <= used' /\ data'[t[i]] \in Elements
    BY <1>7, <1>10, <1>13, <1>14
  <2>3. ASSUME NEW i \in 1 .. n + 1, NEW j \in 1 .. n + 1, i <= j
        PROVE  Priority[d[i]] <= Priority[d[j]]
    <3>1. /\ \A v, w \in 1 .. n : v <= w => Priority[c[v]] <= Priority[c[w]]
          /\ \A v \in 1 .. n : v <= k <=> Priority[c[v]] <= Priority[e]
          /\ \A v \in 1 .. n : Priority[c[v]] \in Int /\ c[v] \in Elements
          /\ Priority[e] \in Int
      BY QueueAssumption, <1>2, <1>3, <1>12
    <3>2. /\ d[i] = IF i <= k THEN c[i] ELSE IF i = k + 1 THEN e ELSE c[i - 1]
          /\ d[j] = IF j <= k THEN c[j] ELSE IF j = k + 1 THEN e ELSE c[j - 1]
      BY <1>13
    <3>3. CASE i <= k
      <4>1. i \in 1 .. n
        BY <1>2, <3>3
      <4>2. CASE j <= k
        <5>1. j \in 1 .. n
          BY <1>2, <4>2
        <5> QED
          BY <2>3, <3>1, <3>2, <3>3, <4>1, <4>2, <5>1
      <4>3. CASE j = k + 1
        <5>1. ~ j <= k
          BY <4>3
        <5> QED
          BY <3>1, <3>2, <3>3, <4>1, <4>3, <5>1
      <4>4. CASE ~ j <= k /\ j # k + 1
        <5>1. j - 1 \in 1 .. n /\ i <= j - 1
          BY <1>2, <3>3, <4>4
        <5> QED
          BY <3>1, <3>2, <3>3, <4>1, <4>4, <5>1
      <4> QED
        BY <4>2, <4>3, <4>4
    <3>4. CASE i = k + 1
      <4>1. ~ i <= k /\ ~ j <= k
        BY <2>3, <3>4
      <4>2. CASE j = k + 1
        BY <3>1, <3>2, <3>4, <4>1, <4>2
      <4>3. CASE j # k + 1
        <5>1. j - 1 \in 1 .. n /\ ~ j - 1 <= k
          BY <1>2, <4>1, <4>3
        <5> QED
          BY <3>1, <3>2, <3>4, <4>1, <4>3, <5>1
      <4> QED
        BY <4>2, <4>3
    <3>5. CASE ~ i <= k /\ i # k + 1
      <4>1. i - 1 \in 1 .. n /\ j - 1 \in 1 .. n /\ i - 1 <= j - 1 /\ ~ j <= k /\ j # k + 1
        BY <1>2, <2>3, <3>5
      <4> QED
        BY <3>1, <3>2, <3>5, <4>1
    <3> QED
      BY <3>3, <3>4, <3>5
  <2> QED
    BY <1>10, <1>14, <2>1, <2>2, <2>3 DEF Arranged
<1>16. Unused(q', used')
  <2> SUFFICES ASSUME NEW m \in Nodes, m > new PROVE q'.next[m] = NULL /\ q'.prev[m] = NULL
    BY <1>7 DEF Unused
  <2>1. m \in Nat /\ m > used /\ m # new
    BY QueueAssumption, <1>2, <1>4 DEF Nodes
  <2>2. q.next[m] = NULL /\ q.prev[m] = NULL
    BY <1>6, <2>1 DEF Unused
  <2>3. m # p /\ m # x
    <3>1. k # n => k + 1 \in 1 .. n
      BY <1>2
    <3>2. k # 0 => k \in 1 .. n
      BY <1>2
    <3>3. NULL \in Nat /\ m # NULL
      BY <1>2, <2>1 DEF NULL
    <3> QED
      BY <1>2, <1>4, <2>1, <3>1, <3>2, <3>3
  <2>4. PICK g : g = LinkIn(new, x)
    OBVIOUS
  <2>5. /\ g.prev[m] = IF m = new THEN p ELSE IF m = x THEN new ELSE q.prev[m]
        /\ g.next[m] = IF m = new THEN x ELSE IF m = p THEN new ELSE q.next[m]
    BY <1>1, <1>2, <1>4, <1>5, <1>6, <2>4, LinkInIs
  <2> QED
    BY <1>7, <2>1, <2>2, <2>3, <2>4, <2>5
<1>17. Contents' = d
  <2>1. Holds(q', t, data', used')
    BY <1>9, <1>15, <1>16 DEF Holds
  <2>2. used' \in 0 .. MaxNodes
    BY <1>5, <1>7
  <2>3. Contents' = [i \in 1 .. Len(t) |-> data'[t[i]]]
    BY <2>1, <2>2, NextContentsAre
  <2>4. d = [i \in 1 .. n + 1 |-> d[i]]
    BY <1>13
  <2> QED
    BY <1>10, <1>14, <2>3, <2>4
<1>18. Cardinality({j \in DOMAIN c : Priority[c[j]] <= Priority[e]}) = k
  <2>1. {j \in DOMAIN c : Priority[c[j]] <= Priority[e]} = 1 .. k
    <3>1. DOMAIN c = 1 .. n
      BY <1>12
    <3>2. \A j \in 1 .. n : j <= k <=> Priority[c[j]] <= Priority[e]
      BY <1>3, <1>12
    <3>3. 1 .. k = {j \in 1 .. n : j <= k}
      BY <1>2
    <3> QED
      BY <3>1, <3>2, <3>3
  <2>2. Cardinality(1 .. k) = k
    <3>1. 1 \in Int /\ k \in Int
      OBVIOUS
    <3>2. Cardinality(1 .. k) = IF 1 > k THEN 0 ELSE k - 1 + 1
      BY <3>1, FS_Interval
    <3> QED
      BY <3>2
  <2> QED
    BY <2>1, <2>2
<1>19. List!Offer(e)
  <2>1. d = List!Seqs!InsertAt(c, k + 1, e)
    <3>1. k \in 0 .. Len(c)
      BY <1>12
    <3> QED
      BY <1>11, <1>12, <3>1, InsertAtIs
  <2>2. /\ Contents' = List!Seqs!InsertAt(Contents, k + 1, e) /\ out' = k
        /\ Cardinality({j \in DOMAIN Contents : Priority[Contents[j]] <= Priority[e]}) = k
    BY <1>3, <1>11, <1>17, <1>18, <2>1
  <2>3. \A S : List!Cardinality(S) = Cardinality(S)
    BY Zenon DEF List!Cardinality, Cardinality
  <2> QED
    BY <2>2, <2>3 DEF List!Offer
<1> QED
  BY <1>9, <1>15, <1>16, <1>19 DEF Holds
\* A call that leaves the queue alone leaves its elements alone.
LEMMA SameStep ==
  ASSUME NEW s, Known(s), UNCHANGED <<q, data, used>>
  PROVE  Holds(q', s, data', used') /\ Contents' = Contents
<1>1. Holds(q', s, data', used') /\ used' \in 0 .. MaxNodes /\ data' = data
  BY DEF Known
<1>2. Contents' = [i \in 1 .. Len(s) |-> data'[s[i]]]
  BY <1>1, NextContentsAre
<1>3. Contents = [i \in 1 .. Len(s) |-> data[s[i]]]
  BY ContentsAre DEF Known
<1> QED
  BY <1>1, <1>2, <1>3

\* A call that unlinks the k-th node drops the k-th element.
LEMMA UnlinkStep ==
  ASSUME NEW s, Known(s), NEW k \in 1 .. Len(s), q' = Unlink(q, s[k]), UNCHANGED <<data, used>>
  PROVE  Holds(q', Dropped(s, k), data', used') /\ Contents' = Dropped(Contents, k)
<1>1. Holds(q, s, data, used) /\ used \in 0 .. MaxNodes /\ used \in Nat
  BY DEF Known
<1>2. PICK t : t = Dropped(s, k)
  OBVIOUS
<1>3. Holds(q', t, data', used') /\ used' \in 0 .. MaxNodes /\ data' = data
  BY <1>1, <1>2, UnlinkKeeps
<1>4. Contents' = [i \in 1 .. Len(t) |-> data[t[i]]]
  BY <1>3, NextContentsAre
<1>5. Contents = [i \in 1 .. Len(s) |-> data[s[i]]]
  BY <1>1, ContentsAre
<1>6. PICK n : n = Len(s)
  OBVIOUS
<1>7. n \in Nat /\ k \in 1 .. n /\ Len(t) = n - 1
      /\ \A i \in 1 .. n - 1 : t[i] = IF i < k THEN s[i] ELSE s[i + 1]
  <2>1. s \in Seq(Nodes)
    BY <1>1 DEF Holds, Linked
  <2>2. /\ Len(Dropped(s, k)) = Len(s) - 1
        /\ \A i \in 1 .. Len(s) - 1 : Dropped(s, k)[i] = IF i < k THEN s[i] ELSE s[i + 1]
    BY <2>1, DroppedIs
  <2> QED
    BY <1>2, <1>6, <2>1, <2>2
<1>8. PICK c : c = Contents
  OBVIOUS
<1>9. c = [i \in 1 .. n |-> data[s[i]]] /\ Len(c) = n
  BY <1>1, <1>5, <1>6, <1>8, ContentsAre
<1>10. \A i \in 1 .. n - 1 : data[t[i]] = IF i < k THEN c[i] ELSE c[i + 1]
  <2> SUFFICES ASSUME NEW i \in 1 .. n - 1 PROVE data[t[i]] = IF i < k THEN c[i] ELSE c[i + 1]
    OBVIOUS
  <2>1. i \in 1 .. n /\ i + 1 \in 1 .. n
    BY <1>7
  <2> QED
    BY <1>7, <1>9, <2>1
<1>11. Contents' = Dropped(c, k)
  BY <1>4, <1>7, <1>9, <1>10 DEF Dropped
<1> QED
  BY <1>2, <1>3, <1>8, <1>11

\* Positions, tops and ends of a queue that holds s.
LEMMA QueueIs ==
  ASSUME NEW s, Known(s), NEW n, n = Len(s)
  PROVE  /\ n \in 0 .. MaxNodes /\ DOMAIN s = 1 .. n /\ q.size = n /\ s \in Seq(Nodes)
         /\ \A i \in 1 .. n : s[i] \in Nodes /\ s[i] # NULL /\ data[s[i]] \in Elements
         /\ \A i \in 0 .. MaxNodes : nth[i] = IF i < n THEN s[i + 1] ELSE NULL
         /\ q.top = IF n = 0 THEN NULL ELSE s[1]
         /\ Contents \in Seq(Elements) /\ Len(Contents) = n /\ DOMAIN Contents = 1 .. n
         /\ \A i \in 1 .. n : /\ Contents[i] = data[s[i]]
                              /\ q.prev[s[i]] = IF i = 1 THEN NULL ELSE s[i - 1]
                              /\ q.next[s[i]] = IF i = n THEN NULL ELSE s[i + 1]
<1>1. s \in Seq(Nodes) /\ n <= used /\ used \in 0 .. MaxNodes
  BY DEF Known, Holds, Linked, Arranged
<1>2. n \in 0 .. MaxNodes /\ DOMAIN s = 1 .. n /\ (s = <<>> <=> n = 0) /\ \A i \in 1 .. n : s[i] \in Nodes
  BY QueueAssumption, <1>1
<1>3. \A m \in Nodes : m # NULL
  BY DEF Nodes, NULL
<1>4. /\ q.size = n
      /\ q.top = IF n = 0 THEN NULL ELSE s[1]
      /\ \A i \in 1 .. n : /\ data[s[i]] \in Elements
                           /\ q.prev[s[i]] = IF i = 1 THEN NULL ELSE s[i - 1]
                           /\ q.next[s[i]] = IF i = n THEN NULL ELSE s[i + 1]
  BY <1>2 DEF Known, Holds, Linked, Arranged
<1>5. /\ \A i \in 0 .. MaxNodes : nth[i] = IF i < n THEN s[i + 1] ELSE NULL
      /\ Contents \in Seq(Elements) /\ Len(Contents) = n
      /\ Contents = [i \in 1 .. n |-> data[s[i]]]
  BY ContentsAre DEF Known
<1> QED
  BY <1>1, <1>2, <1>3, <1>4, <1>5

\* priqueue_poll takes the first of several; of one it ends the program.
LEMMA PollStep ==
  ASSUME NEW s, Known(s), Poll
  PROVE  /\ \E t : Holds(q', t, data', used')
         /\ UNCHANGED <<data, used>> /\ running' \in {TRUE, FALSE} \cup {running}
         /\ out' \in Elements \cup {NULL, out}
         /\ List!Poll \/ UNCHANGED <<Contents, out>>
<1>1. PICK n : n = Len(s)
  OBVIOUS
<1>2. /\ n \in 0 .. MaxNodes /\ DOMAIN s = 1 .. n
      /\ \A i \in 1 .. n : s[i] \in Nodes /\ s[i] # NULL /\ data[s[i]] \in Elements
      /\ q.top = IF n = 0 THEN NULL ELSE s[1]
      /\ Contents \in Seq(Elements) /\ Len(Contents) = n /\ DOMAIN Contents = 1 .. n
      /\ \A i \in 1 .. n : /\ Contents[i] = data[s[i]]
                           /\ q.prev[s[i]] = IF i = 1 THEN NULL ELSE s[i - 1]
                           /\ q.next[s[i]] = IF i = n THEN NULL ELSE s[i + 1]
  BY <1>1, QueueIs
<1>3. CASE n = 0
  <2>1. q.top = NULL
    BY <1>2, <1>3
  <2>2. UNCHANGED <<q, data, used, running>> /\ out' = NULL
    BY <2>1 DEF Poll, Return
  <2>3. Holds(q', s, data', used') /\ Contents' = Contents
    BY <2>2, SameStep
  <2>4. Contents = <<>>
    BY <1>2, <1>3
  <2>5. List!Poll
    <3>1. ~ 0 + 1 \in DOMAIN Contents
      BY <1>2, <1>3
    <3> QED
      BY <2>2, <2>3, <2>4, <3>1 DEF List!Poll, List!ElementAt
  <2> QED
    BY <2>2, <2>3, <2>5
<1>4. CASE n = 1
  <2>1. q.top = s[1] /\ q.top # NULL /\ q.next[q.top] = NULL
    BY <1>2, <1>4
  <2>2. UNCHANGED <<q, data, used, out>> /\ running' = FALSE
    BY <2>1 DEF Poll, Crash
  <2>3. Holds(q', s, data', used') /\ Contents' = Contents
    BY <2>2, SameStep
  <2> QED
    BY <2>2, <2>3
<1>5. CASE n # 0 /\ n # 1
  <2>1. 1 \in 1 .. n /\ 2 \in 1 .. n /\ 1 + 1 = 2
    BY <1>2, <1>5
  <2>2. q.top = s[1] /\ q.top # NULL /\ q.prev[s[1]] = NULL /\ q.next[s[1]] = s[2] /\ s[2] # NULL
    BY <1>2, <1>5, <2>1
  <2>3. /\ q' = [q EXCEPT !.prev[q.next[q.top]] = NULL, !.top = q.next[q.top], !.size = @ - 1]
        /\ out' = data[q.top]
        /\ UNCHANGED <<data, used, running>>
    BY <2>2 DEF Poll
  <2>4. q' = Unlink(q, s[1])
    BY <2>2, <2>3 DEF Unlink
  <2>5. Holds(q', Dropped(s, 1), data', used') /\ Contents' = Dropped(Contents, 1)
    BY <1>1, <2>1, <2>3, <2>4, UnlinkStep
  <2>6. Contents # <<>> /\ Contents' = Tail(Contents)
    <3>1. Contents # <<>>
      BY <1>2, <1>5
    <3> QED
      BY <1>2, <2>5, <3>1, TailIs
  <2>7. out' = Contents[1] /\ out' \in Elements
    BY <1>2, <2>1, <2>2, <2>3
  <2>8. List!Poll
    <3>1. 0 + 1 \in DOMAIN Contents /\ 0 + 1 = 1
      BY <1>2, <2>1
    <3> QED
      BY <2>6, <2>7, <3>1 DEF List!Poll, List!ElementAt
  <2> QED
    BY <2>3, <2>5, <2>7, <2>8
<1> QED
  BY <1>3, <1>4, <1>5
\* priqueue_at returns an element or NULL, or, one behind the last, ends the program.
LEMMA AtStep ==
  ASSUME NEW s, Known(s), NEW i \in Positions, At(i)
  PROVE  /\ \E t : Holds(q', t, data', used')
         /\ UNCHANGED <<data, used>> /\ running' \in {FALSE, running}
         /\ out' \in Elements \cup {NULL, out}
         /\ List!At(i) \/ UNCHANGED <<Contents, out>>
<1>1. PICK n : n = Len(s)
  OBVIOUS
<1>2. /\ n \in 0 .. MaxNodes /\ q.size = n /\ MaxNodes \in Nat
      /\ \A j \in 1 .. n : s[j] # NULL /\ data[s[j]] \in Elements
      /\ \A j \in 0 .. MaxNodes : nth[j] = IF j < n THEN s[j + 1] ELSE NULL
      /\ Contents \in Seq(Elements) /\ DOMAIN Contents = 1 .. n
      /\ \A j \in 1 .. n : Contents[j] = data[s[j]]
  <2>1. MaxNodes \in Nat
    BY QueueAssumption
  <2>2. /\ n \in 0 .. MaxNodes /\ q.size = n
        /\ \A j \in 1 .. n : s[j] # NULL /\ data[s[j]] \in Elements
        /\ \A j \in 0 .. MaxNodes : nth[j] = IF j < n THEN s[j + 1] ELSE NULL
        /\ Contents \in Seq(Elements) /\ DOMAIN Contents = 1 .. n
        /\ \A j \in 1 .. n : Contents[j] = data[s[j]]
    BY <1>1, QueueIs
  <2> QED
    BY <2>1, <2>2
<1>3. i \in -1 .. n + 1 /\ i \in Int
  BY <1>2 DEF Positions
<1>4. CASE i \in 0 .. n - 1
  <2>1. i \in 0 .. MaxNodes /\ i < n /\ i + 1 \in 1 .. n /\ (i = 0 \/ i \in 1 .. n)
    BY <1>2, <1>4
  <2>2. nth[i] = s[i + 1] /\ nth[i] # NULL
    BY <1>2, <2>1
  <2>3. UNCHANGED <<q, data, used, running>> /\ out' = Contents[i + 1]
    BY <1>2, <2>1, <2>2 DEF At, Return
  <2>4. Holds(q', s, data', used') /\ Contents' = Contents
    BY <2>3, SameStep
  <2>5. List!At(i)
    BY <1>2, <2>1, <2>3, <2>4 DEF List!At, List!ElementAt
  <2>6. out' \in Elements
    BY <1>2, <2>1, <2>3
  <2> QED
    BY <2>3, <2>4, <2>5, <2>6
<1>5. CASE i = n
  <2>1. i \in 0 .. MaxNodes /\ ~ i < n /\ (i = 0 \/ i \in 1 .. n)
    BY <1>2, <1>5
  <2>2. nth[i] = NULL
    BY <1>2, <2>1
  <2>3. UNCHANGED <<q, data, used, out>> /\ running' = FALSE
    BY <1>2, <2>1, <2>2 DEF At, Crash
  <2>4. Holds(q', s, data', used') /\ Contents' = Contents
    BY <2>3, SameStep
  <2> QED
    BY <2>3, <2>4
<1>6. CASE i = -1 \/ i = n + 1
  <2>1. i # 0 /\ i \notin 1 .. n /\ i + 1 \notin 1 .. n
    BY <1>2, <1>6
  <2>2. q.size > 0 => nth[q.size - 1] # NULL
    <3>1. n > 0 => n - 1 \in 0 .. MaxNodes /\ n - 1 < n /\ (n - 1) + 1 = n /\ n \in 1 .. n
      BY <1>2
    <3> QED
      BY <1>2, <3>1
  <2>3. UNCHANGED <<q, data, used, running>> /\ out' = NULL
    BY <1>2, <2>1, <2>2 DEF At, Return
  <2>4. Holds(q', s, data', used') /\ Contents' = Contents
    BY <2>3, SameStep
  <2>5. List!At(i)
    BY <1>2, <2>1, <2>3, <2>4 DEF List!At, List!ElementAt
  <2> QED
    BY <2>3, <2>4, <2>5
<1>7. i \in 0 .. n - 1 \/ i = n \/ i = -1 \/ i = n + 1
  BY <1>2, <1>3
<1> QED
  BY <1>4, <1>5, <1>6, <1>7

\* The first of the elements, or NULL.
LEMMA PeekStep ==
  ASSUME NEW s, Known(s), Peek
  PROVE  /\ \E t : Holds(q', t, data', used')
         /\ UNCHANGED <<data, used, running>>
         /\ out' \in Elements \cup {NULL}
         /\ List!At(0)
<1>1. PICK n : n = Len(s)
  OBVIOUS
<1>2. /\ n \in 0 .. MaxNodes
      /\ \A j \in 1 .. n : s[j] # NULL /\ data[s[j]] \in Elements
      /\ q.top = IF n = 0 THEN NULL ELSE s[1]
      /\ DOMAIN Contents = 1 .. n
      /\ \A j \in 1 .. n : Contents[j] = data[s[j]]
  BY <1>1, QueueIs
<1>3. UNCHANGED <<q, data, used, running>> /\ out' = IF q.top = NULL THEN NULL ELSE data[q.top]
  BY DEF Peek, Return
<1>4. Holds(q', s, data', used') /\ Contents' = Contents
  BY <1>3, SameStep
<1>5. out' = IF 0 + 1 \in DOMAIN Contents THEN Contents[0 + 1] ELSE NULL
  <2>1. 0 + 1 = 1 /\ (n # 0 <=> 1 \in 1 .. n)
    BY <1>2
  <2> QED
    BY <1>2, <1>3, <2>1
<1>6. out' \in Elements \cup {NULL}
  BY <1>2, <1>5
<1> QED
  BY <1>3, <1>4, <1>5, <1>6 DEF List!At, List!ElementAt

\* Unless the last of several is removed, priqueue_remove_at unlinks as priqueue_remove.
LEMMA RemoveIndexStep ==
  ASSUME NEW s, Known(s), RemovesLast = FALSE, NEW i \in Removable, RemoveIndex(i)
  PROVE  /\ \E t : Holds(q', t, data', used')
         /\ UNCHANGED <<data, used, running>>
         /\ out' \in Elements \cup {NULL}
         /\ List!RemoveIndex(i)
<1>1. PICK n : n = Len(s)
  OBVIOUS
<1>2. /\ n \in 0 .. MaxNodes /\ q.size = n /\ MaxNodes \in Nat /\ q \in Heap
      /\ \A j \in 1 .. n : s[j] \in Nodes /\ s[j] # NULL /\ data[s[j]] \in Elements
      /\ \A j \in 0 .. MaxNodes : nth[j] = IF j < n THEN s[j + 1] ELSE NULL
      /\ Contents \in Seq(Elements) /\ Len(Contents) = n /\ DOMAIN Contents = 1 .. n
      /\ \A j \in 1 .. n : /\ Contents[j] = data[s[j]]
                           /\ q.prev[s[j]] = IF j = 1 THEN NULL ELSE s[j - 1]
                           /\ q.next[s[j]] = IF j = n THEN NULL ELSE s[j + 1]
  <2>1. q \in Heap
    BY DEF Known, Holds
  <2>2. MaxNodes \in Nat
    BY QueueAssumption
  <2> QED
    BY <1>1, <2>1, <2>2, QueueIs
<1>3. i \in -1 .. n + 1 /\ i \in Int /\ ~ (i = n - 1 /\ i > 0)
  BY <1>2 DEF Removable, Positions
<1>4. CASE i \notin 0 .. n - 1
  <2>1. UNCHANGED <<q, data, used, running>> /\ out' = NULL
    BY <1>2, <1>4 DEF RemoveIndex, Return
  <2>2. Holds(q', s, data', used') /\ Contents' = Contents
    BY <2>1, SameStep
  <2>3. i + 1 \notin DOMAIN Contents
    BY <1>2, <1>3, <1>4
  <2>4. List!RemoveIndex(i)
    BY <2>1, <2>2, <2>3 DEF List!RemoveIndex, List!ElementAt
  <2> QED
    BY <2>1, <2>2, <2>4
<1>5. CASE i \in 0 .. n - 1
  <2>1. PICK k : k = i + 1
    OBVIOUS
  <2>2. k \in 1 .. n /\ i \in 0 .. MaxNodes /\ i < n /\ (k = n => k = 1)
    BY <1>2, <1>3, <1>5, <2>1
  <2>3. PICK m, p, x : m = s[k] /\ p = q.prev[m] /\ x = q.next[m]
    OBVIOUS
  <2>4. nth[i] = m /\ m # NULL /\ m \in Nodes
    BY <1>2, <2>1, <2>2, <2>3
  <2>5. q' = UnlinkAt(m) /\ out' = data[m] /\ UNCHANGED <<data, used, running>>
    BY <1>2, <1>5, <2>4 DEF RemoveIndex
  <2>6. x = NULL => p = NULL
    <3>1. k # n => k + 1 \in 1 .. n
      BY <1>2, <2>2
    <3>2. /\ q.prev[s[k]] = IF k = 1 THEN NULL ELSE s[k - 1]
          /\ q.next[s[k]] = IF k = n THEN NULL ELSE s[k + 1]
      BY <1>2, <2>2
    <3>3. k # n => s[k + 1] # NULL
      BY <1>2, <3>1
    <3> QED
      BY <2>2, <2>3, <3>2, <3>3
  <2>7. UnlinkAt(m) = Unlink(q, m)
    <3>1. /\ q.size \in Int /\ DOMAIN q.prev = Nodes /\ DOMAIN q.next = Nodes
          /\ q = [top |-> q.top, tail |-> q.tail, size |-> q.size, next |-> q.next, prev |-> q.prev]
      BY <1>2 DEF Heap
    <3>2. CASE x = NULL
      BY <2>3, <2>6, <3>1, <3>2 DEF UnlinkAt, Unlink
    <3>3. CASE x # NULL /\ p = NULL
      BY <2>3, <3>1, <3>3 DEF UnlinkAt, Unlink
    <3>4. CASE x # NULL /\ p # NULL
      BY <2>3, <3>1, <3>4 DEF UnlinkAt, Unlink
    <3> QED
      BY <3>2, <3>3, <3>4
  <2>8. Holds(q', Dropped(s, k), data', used') /\ Contents' = Dropped(Contents, k)
    BY <1>1, <2>2, <2>3, <2>5, <2>7, UnlinkStep
  <2>9. Contents' = List!Seqs!RemoveAt(Contents, k)
    BY <1>2, <2>2, <2>8, RemoveAtIs
  <2>10. out' = Contents[k] /\ out' \in Elements
    BY <1>2, <2>2, <2>3, <2>5
  <2>11. List!RemoveIndex(i)
    BY <1>2, <2>1, <2>2, <2>9, <2>10 DEF List!RemoveIndex, List!ElementAt
  <2> QED
    BY <2>5, <2>8, <2>10, <2>11
<1> QED
  BY <1>4, <1>5

\* The comment of priqueue_remove speaks of pointers, the code compares ints.
LEMMA RemoveStep ==
  ASSUME NEW s, Known(s), NEW e \in Elements, Remove(e)
  PROVE  /\ \E t : Holds(q', t, data', used')
         /\ UNCHANGED <<data, used, running>>
         /\ out' \in Int
         /\ (\A x, y \in Elements : FirstInt[x] = FirstInt[y] => x = y) => List!Remove(e)
<1>1. PICK n : n = Len(s)
  OBVIOUS
<1>2. /\ n \in 0 .. MaxNodes /\ n \in Nat /\ DOMAIN s = 1 .. n /\ s \in Seq(Nodes)
      /\ \A j \in 1 .. n : s[j] \in Nodes /\ data[s[j]] \in Elements
      /\ Contents \in Seq(Elements) /\ Len(Contents) = n /\ DOMAIN Contents = 1 .. n
      /\ \A j \in 1 .. n : Contents[j] = data[s[j]]
  BY <1>1, QueueIs
<1>3. Chain = s /\ q \in Heap /\ Holds(q, s, data, used) /\ used \in Nat /\ used \in 0 .. MaxNodes
  BY ContentsAre DEF Known, Holds
<1>4. PICK r : Removing(r, s, e)
  BY <1>2, <1>3, RemoveSteps
<1>5. PICK c : c = Contents
  OBVIOUS
<1>6. PICK a : Keeping(a, c, e)
  BY <1>2, <1>5, KeptSteps
<1>7. q' = r[n] /\ out' = Cardinality({i \in 1 .. n : Matches(s[i], e)}) /\ UNCHANGED <<data, used, running>>
  <2>1. q' = Seqs!FoldLeft(LAMBDA h, m : IF Matches(m, e) THEN Unlink(h, m) ELSE h, q, s)
    BY <1>3 DEF Remove
  <2>2. r[n] = Seqs!FoldLeft(LAMBDA h, m : IF Matches(m, e) THEN Unlink(h, m) ELSE h, q, s)
    BY <1>1, <1>4 DEF Removing
  <2> QED
    BY <1>2, <1>3, <2>1, <2>2 DEF Remove
<1>8. /\ r[0] = q
      /\ \A k \in 1 .. n : r[k] = IF Matches(s[k], e) THEN Unlink(r[k - 1], s[k]) ELSE r[k - 1]
  BY <1>1, <1>4 DEF Removing
<1> DEFINE Same == \A x, y \in Elements : FirstInt[x] = FirstInt[y] => x = y
           A == IF Same THEN {a} ELSE {}
<1>9. ASSUME NEW f \in A
      PROVE  /\ f[0] = <<>>
             /\ \A k \in 1 .. n : f[k] = IF Matches(s[k], e) THEN f[k - 1]
                                         ELSE Append(f[k - 1], data[s[k]])
  <2>1. f = a /\ Same
    BY <1>9
  <2>2. ASSUME NEW k \in 1 .. n PROVE Matches(s[k], e) <=> c[k] = e
    BY <1>2, <1>5, <2>1 DEF Matches
  <2>3. /\ a[0] = <<>>
        /\ \A k \in 1 .. n : a[k] = IF c[k] = e THEN a[k - 1] ELSE Append(a[k - 1], c[k])
    BY <1>2, <1>5, <1>6 DEF Keeping
  <2> QED
    BY <1>2, <1>5, <2>1, <2>2, <2>3
<1> HIDE DEF A
<1>10. PICK t : /\ Holds(r[n], t, data, used)
                /\ \A f \in A : f[n] = [i \in 1 .. Len(t) |-> data[t[i]]]
                /\ Cardinality({i \in 1 .. n : Matches(s[i], e)}) = n - Len(t)
  <2>1. PICK B : B = A
    OBVIOUS
  <2>2. \A f \in B : /\ f[0] = <<>>
                     /\ \A k \in 1 .. n : f[k] = IF Matches(s[k], e) THEN f[k - 1]
                                                 ELSE Append(f[k - 1], data[s[k]])
    BY <1>9, <2>1
  <2>3. \E t : Left(r[n], t, s, e, B)
    BY <1>1, <1>3, <1>8, <2>2, RemoveLoop
  <2> QED
    BY <1>1, <2>1, <2>3 DEF Left
<1>11. Holds(q', t, data', used') /\ used' \in 0 .. MaxNodes /\ t \in Seq(Nodes)
  BY <1>3, <1>7, <1>10 DEF Holds, Linked
<1>12. out' = n - Len(t) /\ out' \in Int
  BY <1>2, <1>7, <1>10, <1>11
<1>13. ASSUME Same PROVE List!Remove(e)
  <2>1. Contents' = [i \in 1 .. Len(t) |-> data[t[i]]]
    BY <1>7, <1>11, NextContentsAre
  <2>2. a[n] = [i \in 1 .. Len(t) |-> data[t[i]]]
    <3>1. a \in A
      BY <1>13 DEF A
    <3> QED
      BY <1>10, <3>1
  <2>3. Contents' = List!Seqs!FoldLeft(LAMBDA kept, x : IF x = e THEN kept ELSE Append(kept, x),
                                       <<>>, Contents)
    <3>1. a[Len(c)] = List!Seqs!FoldLeft(LAMBDA kept, x : IF x = e THEN kept ELSE Append(kept, x), <<>>, c)
      BY <1>6 DEF Keeping
    <3> QED
      BY <1>2, <1>5, <2>1, <2>2, <3>1
  <2>4. Len(Contents') = Len(t)
    <3>1. PICK d, m : d = Contents' /\ m = Len(t)
      OBVIOUS
    <3>2. m \in Nat /\ d = [i \in 1 .. m |-> data[t[i]]]
      BY <1>11, <2>1, <3>1
    <3>3. d \in [1 .. m -> {data[t[i]] : i \in 1 .. m}]
      BY <3>2
    <3>4. Len(d) = m
      BY <3>2, <3>3, SeqDef
    <3> QED
      BY <3>1, <3>4
  <2> QED
    BY <1>2, <1>12, <2>3, <2>4 DEF List!Remove
<1> QED
  BY <1>7, <1>11, <1>12, <1>13
-----------------------------------------------------------------------------
(* Theorems: no client removes the last of several elements by its index *)

\* The inductive invariant.
QueueInv ==
    /\ data \in [Nodes -> Elements \cup {NULL}]
    /\ used \in 0 .. MaxNodes
    /\ running \in BOOLEAN
    /\ out \in Elements \cup Int
    /\ \E s : Holds(q, s, data, used)

\* Distinct elements point to distinct ints.
IntsIdentify == \A x, y \in Elements : FirstInt[x] = FirstInt[y] => x = y

\* It holds after priqueue_init, of an empty list.
LEMMA QueueInvInit == Init => QueueInv /\ List!Init
<1> SUFFICES ASSUME Init PROVE QueueInv /\ List!Init
  OBVIOUS
<1>1. /\ q = [top |-> NULL, tail |-> NULL, size |-> 0,
              next |-> [n \in Nodes |-> NULL], prev |-> [n \in Nodes |-> NULL]]
      /\ data = [n \in Nodes |-> NULL] /\ used = 0 /\ running = TRUE /\ out = NULL
  BY DEF Init
<1>2. q \in Heap /\ Unused(q, used)
  BY <1>1 DEF Heap, Unused
<1>3. Linked(q, <<>>)
  BY <1>1 DEF Linked
<1>4. Arranged(<<>>, data, used)
  BY <1>1 DEF Arranged
<1>5. Holds(q, <<>>, data, used)
  BY <1>2, <1>3, <1>4 DEF Holds
<1>6. data \in [Nodes -> Elements \cup {NULL}] /\ used \in 0 .. MaxNodes
  BY QueueAssumption, <1>1
<1>7. QueueInv
  BY <1>1, <1>5, <1>6 DEF QueueInv, NULL
<1>8. Contents = <<>>
  <2>1. PICK c, s : c = Contents /\ s = <<>>
    OBVIOUS
  <2>2. Holds(q, s, data, used) /\ Len(s) = 0
    BY <1>5, <2>1
  <2>3. c \in Seq(Elements) /\ Len(c) = 0
    BY <1>6, <2>1, <2>2, ContentsAre
  <2> QED
    BY <2>1, <2>3
<1> QED
  BY <1>1, <1>7, <1>8 DEF List!Init

\* A call keeps it, and is a call of the ordered list or ends the program.
LEMMA QueueStep ==
  ASSUME RemovesLast = FALSE, QueueInv, [Next]_vars
  PROVE  QueueInv' /\ (IntsIdentify => [List!Next]_(List!vars))
<1>1. PICK s : Known(s)
  BY DEF QueueInv, Known
<1>2. running \in BOOLEAN /\ out \in Elements \cup Int /\ NULL \in Int
  BY DEF QueueInv, NULL
<1>3. ASSUME UNCHANGED <<data, used>>, running' \in BOOLEAN, out' \in Elements \cup Int,
             NEW t, Holds(q', t, data', used')
      PROVE  QueueInv'
  BY <1>1, <1>3 DEF QueueInv, Known
<1>4. ASSUME UNCHANGED vars PROVE QueueInv' /\ UNCHANGED <<Contents, out>>
  <2>1. UNCHANGED <<q, data, used, running, out>>
    BY <1>4 DEF vars
  <2>2. Holds(q', s, data', used') /\ Contents' = Contents
    BY <1>1, <2>1, SameStep
  <2> QED
    BY <1>2, <1>3, <2>1, <2>2
<1>5. ASSUME NEW e \in Elements, Offer(e) PROVE QueueInv' /\ List!Offer(e)
  <2>1. PICK t : Holds(q', t, data', used') /\ List!Offer(e)
    BY <1>1, <1>5, OfferStep
  <2>2. out' \in Int
    <3>1. PICK k : k \in 0 .. Len(s) /\ out' = k
      BY <1>1, <1>5, OfferPlace
    <3> QED
      BY <3>1
  <2>3. /\ data' \in [Nodes -> Elements \cup {NULL}] /\ used' \in 0 .. MaxNodes
        /\ running' = running
    BY QueueAssumption, <1>1, <1>5 DEF Offer, Known, Nodes
  <2> QED
    BY <1>2, <2>1, <2>2, <2>3 DEF QueueInv
<1>6. ASSUME NEW e \in Elements, Remove(e) PROVE QueueInv' /\ (IntsIdentify => List!Remove(e))
  <2>1. /\ \E t : Holds(q', t, data', used')
        /\ UNCHANGED <<data, used, running>> /\ out' \in Int
        /\ IntsIdentify => List!Remove(e)
    BY <1>1, <1>6, RemoveStep DEF IntsIdentify
  <2> QED
    BY <1>2, <1>3, <2>1
<1>7. ASSUME Poll PROVE QueueInv' /\ (List!Poll \/ UNCHANGED <<Contents, out>>)
  BY <1>1, <1>2, <1>3, <1>7, PollStep
<1>8. ASSUME Peek PROVE QueueInv' /\ List!At(0)
  BY <1>1, <1>2, <1>3, <1>8, PeekStep
<1>9. ASSUME NEW i \in Positions, At(i) PROVE QueueInv' /\ (List!At(i) \/ UNCHANGED <<Contents, out>>)
  BY <1>1, <1>2, <1>3, <1>9, AtStep
<1>10. ASSUME NEW i \in Removable, RemoveIndex(i) PROVE QueueInv' /\ List!RemoveIndex(i)
  BY <1>1, <1>2, <1>3, <1>10, RemoveIndexStep
<1>11. Positions = -1 .. Len(Contents) + 1 /\ Removable \subseteq Positions /\ 0 \in Positions
  <2>1. PICK n : n = Len(s)
    OBVIOUS
  <2>2. n \in 0 .. MaxNodes /\ q.size = n /\ Len(Contents) = n /\ MaxNodes \in Nat
    <3>1. n \in 0 .. MaxNodes /\ q.size = n /\ Len(Contents) = n
      BY <1>1, <2>1, QueueIs
    <3> QED
      BY QueueAssumption, <3>1
  <2> QED
    BY <2>2 DEF Positions, Removable
<1>12. ASSUME NEW e \in Elements, List!Offer(e) \/ List!Remove(e) PROVE List!Next
  BY <1>12 DEF List!Next
<1>13. ASSUME NEW i \in Positions, List!At(i) \/ List!RemoveIndex(i) PROVE List!Next
  BY <1>11, <1>13 DEF List!Next
<1>14. List!Poll => List!Next
  BY DEF List!Next
<1>15. UNCHANGED <<Contents, out>> => UNCHANGED List!vars
  BY DEF List!vars
<1> QED
  BY <1>4, <1>5, <1>6, <1>7, <1>8, <1>9, <1>10, <1>11, <1>12, <1>13, <1>14, <1>15 DEF Next, Stopped

\* Between any two calls the queue holds a list of allocated nodes, linked in both
\* directions and ordered by the priority of their elements.
THEOREM QueueInvariant == ASSUME RemovesLast = FALSE PROVE Spec => []QueueInv
<1>1. Init => QueueInv
  BY QueueInvInit
<1>2. QueueInv /\ [Next]_vars => QueueInv'
  BY QueueStep
<1> QED
  BY <1>1, <1>2, PTL DEF Spec

\* Every variable holds a value of its kind: whatever is offered and removed, the
\* size stays within the number of nodes and links lead to nodes.
THEOREM QueueTypes == ASSUME RemovesLast = FALSE PROVE Spec => []TypeOK
<1>1. QueueInv => TypeOK
  <2> SUFFICES ASSUME QueueInv PROVE TypeOK
    OBVIOUS
  <2>1. PICK s : Known(s)
    BY DEF QueueInv, Known
  <2>2. q \in Heap /\ q.size \in 0 .. MaxNodes
    <3>1. q.size = Len(s) /\ Len(s) \in 0 .. MaxNodes
      BY <2>1, QueueIs
    <3> QED
      BY <2>1, <3>1 DEF Known, Holds
  <2> QED
    BY <2>2 DEF QueueInv, TypeOK, Heap
<1> QED
  BY <1>1, QueueInvariant, PTL

\* The links of the two directions agree and tail is the last node: what priqueue_offer
\* puts at the end is found from the top (libpriqueue.c).
THEOREM LinksAgree == ASSUME RemovesLast = FALSE PROVE Spec => []WellLinked
<1>1. QueueInv => WellLinked
  <2> SUFFICES ASSUME QueueInv, Chain # <<>> PROVE
                 /\ q.prev[Chain[1]] = NULL
                 /\ \A i \in 1 .. Len(Chain) - 1 : q.prev[Chain[i + 1]] = Chain[i]
                 /\ q.tail = Chain[Len(Chain)]
    BY DEF WellLinked
  <2>1. PICK s : Known(s)
    BY DEF QueueInv, Known
  <2>2. Chain = s /\ s # <<>> /\ s \in Seq(Nodes)
    BY <2>1, ContentsAre DEF Known, Holds, Linked
  <2>3. PICK n : n = Len(s) /\ n \in Nat /\ n # 0 /\ DOMAIN s = 1 .. n
    BY <2>2
  <2>4. \A i \in 1 .. n : q.prev[s[i]] = IF i = 1 THEN NULL ELSE s[i - 1]
    BY <2>1, <2>3 DEF Known, Holds, Linked
  <2>5. q.tail = s[n]
    BY <2>1, <2>2, <2>3 DEF Known, Holds, Linked
  <2>6. q.prev[s[1]] = NULL
    BY <2>3, <2>4
  <2>7. ASSUME NEW i \in 1 .. n - 1 PROVE q.prev[s[i + 1]] = s[i]
    <3>1. i + 1 \in 1 .. n /\ i + 1 # 1 /\ (i + 1) - 1 = i
      BY <2>3
    <3> QED
      BY <2>4, <3>1
  <2> QED
    BY <2>2, <2>3, <2>5, <2>6, <2>7
<1> QED
  BY <1>1, QueueInvariant, PTL

\* priqueue_size counts what can be reached (libpriqueue.c:235-243).
THEOREM SizeIsExact == ASSUME RemovesLast = FALSE PROVE Spec => []SizeExact
<1>1. QueueInv => SizeExact
  <2> SUFFICES ASSUME QueueInv PROVE q.size = Len(Chain)
    BY DEF SizeExact
  <2>1. PICK s : Known(s)
    BY DEF QueueInv, Known
  <2>2. Chain = s
    BY <2>1, ContentsAre DEF Known
  <2> QED
    BY <2>1, <2>2 DEF Known, Holds, Linked
<1> QED
  BY <1>1, QueueInvariant, PTL

\* Every call of the library does, and returns, what it does and returns on a list
\* ordered by priority.
THEOREM QueueImplementsList ==
  ASSUME RemovesLast = FALSE, IntsIdentify
  PROVE  Spec => ImplementsPriorityList
<1>1. Init => List!Init
  BY QueueInvInit
<1>2. QueueInv /\ [Next]_vars => [List!Next]_(List!vars)
  BY QueueStep
<1> QED
  BY <1>1, <1>2, QueueInvariant, PTL DEF Spec, ImplementsPriorityList, List!Spec
=============================================================================
