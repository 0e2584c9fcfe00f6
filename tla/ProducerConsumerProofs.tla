----------------------- MODULE ProducerConsumerProofs -----------------------
(***************************************************************************)
(* Proofs about ProducerConsumer, for any number of producers and          *)
(* consumers, any buffer size and any amount of work.                      *)
(***************************************************************************)
EXTENDS ProducerConsumer, FiniteSetTheorems, SequenceTheorems, TLAPS

-----------------------------------------------------------------------------
(* Counting the threads at a label *)

\* There are finitely many threads, so every count is a natural number.
LEMMA CountIsNat == \A label : IsFiniteSet(At(label)) /\ Count(label) \in Nat
<1>1. IsFiniteSet(Threads)
  BY ThreadsAssumption, FS_Union DEF Threads
<1>2. ASSUME NEW label PROVE IsFiniteSet(At(label)) /\ Count(label) \in Nat
  <2>1. At(label) \in SUBSET Threads
    BY DEF At
  <2>2. IsFiniteSet(At(label))
    BY <1>1, <2>1, FS_Subset
  <2>3. QED
    BY <2>2, FS_CardinalityType DEF Count
<1>3. QED
  BY <1>2

\* 1 for a label of the set, 0 for another: what one thread adds to a count.
One(label, labels) == IF label \in labels THEN 1 ELSE 0

\* A thread that goes from one label to another moves one unit between their
\* counts and leaves every other count alone.
LEMMA GotoMovesOne ==
  ASSUME NEW t \in Threads, NEW from, NEW to, from # to,
         pc \in [Threads -> ProducerLabels \cup ConsumerLabels \cup IdleLabels],
         Goto(t, from, to), NEW label
  PROVE  /\ Count(label)' = Count(label) + One(to, {label}) - One(from, {label})
         /\ label = from => Count(label) >= 1
<1> USE DEF One
<1>1. CASE label = from
  <2>1. At(label)' = At(label) \ {t} /\ t \in At(label)
    BY <1>1 DEF At, Goto
  <2>2. Cardinality(At(label) \ {t}) = Cardinality(At(label)) - 1
    BY <2>1, CountIsNat, FS_RemoveElement
  <2>3. Cardinality(At(label)) # 0
    BY <2>1, CountIsNat, FS_EmptySet
  <2>4. QED
    BY <1>1, <2>1, <2>2, <2>3, CountIsNat DEF Count
<1>2. CASE label = to
  <2>1. At(label)' = At(label) \cup {t} /\ t \notin At(label)
    BY <1>2 DEF At, Goto
  <2>2. Cardinality(At(label) \cup {t}) = Cardinality(At(label)) + 1
    BY <2>1, CountIsNat, FS_AddElement
  <2>3. QED
    BY <1>2, <2>1, <2>2, CountIsNat DEF Count
<1>3. CASE label # from /\ label # to
  <2>1. At(label)' = At(label)
    BY <1>3 DEF At, Goto
  <2>2. QED
    BY <1>3, <2>1, CountIsNat DEF Count
<1>4. QED
  BY <1>1, <1>2, <1>3

\* The sums of counts the accounting is stated in, and how a step changes them.
LEMMA SumsAreNat ==
  /\ PastTest \in Nat /\ PutHeld \in Nat /\ GetOwed \in Nat
  /\ PastEndTest \in Nat /\ GetHeld \in Nat /\ PutOwed \in Nat
  /\ PastTest <= PutHeld /\ PastEndTest <= GetHeld
BY CountIsNat DEF PastTest, PutHeld, GetOwed, PastEndTest, GetHeld, PutOwed

\* A thread that goes on moves from one sum to the other.
LEMMA GotoMovesSums ==
  ASSUME NEW t \in Threads, NEW from, NEW to, from # to,
         pc \in [Threads -> ProducerLabels \cup ConsumerLabels \cup IdleLabels],
         Goto(t, from, to)
  PROVE  /\ LET L == {"p_lock", "p_add", "p_count"}
            IN  PastTest' = PastTest + One(to, L) - One(from, L)
         /\ LET L == {"p_check", "p_lock", "p_add", "p_count"}
            IN  PutHeld' = PutHeld + One(to, L) - One(from, L)
         /\ LET L == {"p_unlock", "p_post"}
            IN  GetOwed' = GetOwed + One(to, L) - One(from, L)
         /\ LET L == {"c_lock", "c_remove", "c_count"}
            IN  PastEndTest' = PastEndTest + One(to, L) - One(from, L)
         /\ LET L == {"c_check", "c_lock", "c_remove", "c_count"}
            IN  GetHeld' = GetHeld + One(to, L) - One(from, L)
         /\ LET L == {"c_unlock", "c_post"}
            IN  PutOwed' = PutOwed + One(to, L) - One(from, L)
         /\ from = "p_check" => PutHeld >= PastTest + 1
         /\ from = "c_check" => GetHeld >= PastEndTest + 1
<1>1. PastTest' = PastTest + One(to, {"p_lock", "p_add", "p_count"})
                          - One(from, {"p_lock", "p_add", "p_count"})
  BY GotoMovesOne, CountIsNat DEF PastTest, One
<1>2. PutHeld' = PutHeld + One(to, {"p_check", "p_lock", "p_add", "p_count"})
                        - One(from, {"p_check", "p_lock", "p_add", "p_count"})
  BY <1>1, GotoMovesOne, SumsAreNat, CountIsNat DEF PutHeld, One
<1>3. GetOwed' = GetOwed + One(to, {"p_unlock", "p_post"})
                        - One(from, {"p_unlock", "p_post"})
  BY GotoMovesOne, CountIsNat DEF GetOwed, One
<1>4. PastEndTest' = PastEndTest + One(to, {"c_lock", "c_remove", "c_count"})
                                - One(from, {"c_lock", "c_remove", "c_count"})
  BY GotoMovesOne, CountIsNat DEF PastEndTest, One
<1>5. GetHeld' = GetHeld + One(to, {"c_check", "c_lock", "c_remove", "c_count"})
                        - One(from, {"c_check", "c_lock", "c_remove", "c_count"})
  BY <1>4, GotoMovesOne, SumsAreNat, CountIsNat DEF GetHeld, One
<1>6. PutOwed' = PutOwed + One(to, {"c_unlock", "c_post"})
                        - One(from, {"c_unlock", "c_post"})
  BY GotoMovesOne, CountIsNat DEF PutOwed, One
<1>7. from = "p_check" => PutHeld >= PastTest + 1
  <2>1. from = "p_check" => Count("p_check") >= 1
    BY GotoMovesOne
  <2>2. QED
    BY <2>1, SumsAreNat, CountIsNat DEF PutHeld
<1>8. from = "c_check" => GetHeld >= PastEndTest + 1
  <2>1. from = "c_check" => Count("c_check") >= 1
    BY GotoMovesOne
  <2>2. QED
    BY <2>1, SumsAreNat, CountIsNat DEF GetHeld
<1>9. QED
  BY <1>1, <1>2, <1>3, <1>4, <1>5, <1>6, <1>7, <1>8

\* The threads at four different labels are at most all the threads that may be there.
LEMMA FourLabels ==
  ASSUME NEW S, IsFiniteSet(S), NEW k, NEW l, NEW m, NEW n,
         k # l, k # m, k # n, l # m, l # n, m # n,
         At(k) \cup At(l) \cup At(m) \cup At(n) \subseteq S
  PROVE  Count(k) + Count(l) + Count(m) + Count(n) <= Cardinality(S)
<1> DEFINE A == At(k) \cup At(l)
           B == At(m) \cup At(n)
<1>1. At(k) \cap At(l) = {} /\ At(m) \cap At(n) = {} /\ A \cap B = {}
  BY DEF At
<1>2. IsFiniteSet(A) /\ Cardinality(A) = Count(k) + Count(l)
  <2>1. Cardinality(At(k) \cap At(l)) = 0
    BY <1>1, FS_EmptySet
  <2>2. IsFiniteSet(At(k)) /\ IsFiniteSet(At(l))
    BY CountIsNat
  <2>3. /\ IsFiniteSet(At(k) \cup At(l))
        /\ Cardinality(At(k) \cup At(l))
             = Cardinality(At(k)) + Cardinality(At(l)) - Cardinality(At(k) \cap At(l))
    BY <2>2, FS_Union
  <2>4. Count(k) \in Nat /\ Count(l) \in Nat
    BY CountIsNat
  <2>5. QED
    BY <2>1, <2>3, <2>4 DEF Count
<1>3. IsFiniteSet(B) /\ Cardinality(B) = Count(m) + Count(n)
  <2>1. Cardinality(At(m) \cap At(n)) = 0
    BY <1>1, FS_EmptySet
  <2>2. IsFiniteSet(At(m)) /\ IsFiniteSet(At(n))
    BY CountIsNat
  <2>3. /\ IsFiniteSet(At(m) \cup At(n))
        /\ Cardinality(At(m) \cup At(n))
             = Cardinality(At(m)) + Cardinality(At(n)) - Cardinality(At(m) \cap At(n))
    BY <2>2, FS_Union
  <2>4. Count(m) \in Nat /\ Count(n) \in Nat
    BY CountIsNat
  <2>5. QED
    BY <2>1, <2>3, <2>4 DEF Count
<1>4. Cardinality(A \cup B) = Cardinality(A) + Cardinality(B) - Cardinality(A \cap B)
  <2> HIDE DEF A, B
  <2>1. QED
    BY <1>2, <1>3, FS_Union
<1>5. Cardinality(A \cap B) = 0
  BY <1>1, FS_EmptySet
<1>6. Cardinality(A \cup B) <= Cardinality(S)
  BY FS_Subset
<1>7. QED
  BY <1>2, <1>3, <1>4, <1>5, <1>6, CountIsNat

\* No more producers stand behind the wait than there are.
LEMMA ProducersPastWait ==
  ASSUME TypeOK
  PROVE  PutHeld <= Cardinality(Producers)
<1>1. At("p_check") \cup At("p_lock") \cup At("p_add") \cup At("p_count") \subseteq Producers
  BY DEF At, TypeOK, ControlOK, Threads, ConsumerLabels, IdleLabels
<1>2. Count("p_check") + Count("p_lock") + Count("p_add") + Count("p_count")
        <= Cardinality(Producers)
  BY <1>1, ThreadsAssumption, FourLabels
<1>3. QED
  BY <1>2, CountIsNat DEF PutHeld, PastTest

\* Nor consumers.
LEMMA ConsumersPastWait ==
  ASSUME TypeOK
  PROVE  GetHeld <= Cardinality(Consumers)
<1>1. At("c_check") \cup At("c_lock") \cup At("c_remove") \cup At("c_count") \subseteq Consumers
  BY DEF At, TypeOK, ControlOK, Threads, ProducerLabels, IdleLabels
<1>2. Count("c_check") + Count("c_lock") + Count("c_remove") + Count("c_count")
        <= Cardinality(Consumers)
  BY <1>1, ThreadsAssumption, FourLabels
<1>3. QED
  BY <1>2, CountIsNat DEF GetHeld, PastEndTest

-----------------------------------------------------------------------------
(* Type correctness *)

\* A producer or consumer that goes to a label of its own code keeps the control
\* state well formed.
LEMMA ProducerControl ==
  ASSUME ControlOK, NEW p \in Producers, NEW from,
         NEW to \in ProducerLabels \cup IdleLabels, Goto(p, from, to)
  PROVE  ControlOK'
BY ThreadsAssumption DEF ControlOK, Goto, Threads

\* And of a consumer.
LEMMA ConsumerControl ==
  ASSUME ControlOK, NEW c \in Consumers, NEW from,
         NEW to \in ConsumerLabels \cup IdleLabels, Goto(c, from, to)
  PROVE  ControlOK'
BY ThreadsAssumption DEF ControlOK, Goto, Threads

\* The index that follows a slot is again a slot.
LEMMA WrapSlot == \A i \in Slots : Wrap(i + 1) \in Slots
BY SizesAssumption DEF Wrap, Slots

\* Every reachable state is well typed: TypeOK is inductive by itself, since each
\* sem_wait tests its semaphore and Wrap keeps head and tail inside the buffer.
THEOREM TypeCorrect == Spec => []TypeOK
<1>1. Init => TypeOK
  <2> SUFFICES ASSUME Init PROVE TypeOK
    OBVIOUS
  <2>1. /\ buf \in [Slots -> Nat \cup {NoItem}]
        /\ item \in [Threads -> Nat \cup {NoItem}]
    BY DEF Init
  <2>2. head \in Slots /\ tail \in Slots
    BY SizesAssumption DEF Init, Slots
  <2>3. /\ slotsToPut \in Nat /\ slotsToGet \in Nat
        /\ total_inserted \in Nat /\ total_consumed \in Nat
    BY SizesAssumption DEF Init
  <2>4. ControlOK
    BY DEF Init, IdleLabels, ControlOK, Threads
  <2>5. QED
    BY <2>1, <2>2, <2>3, <2>4 DEF Init, TypeOK
<1>2. TypeOK /\ [Next]_vars => TypeOK'
  <2> SUFFICES ASSUME TypeOK, [Next]_vars PROVE TypeOK'
    OBVIOUS
  <2> USE DEF TypeOK, queueVars, semVars
  <2>1. ASSUME NEW p \in Producers, Producer(p) PROVE TypeOK'
    <3>1. ControlOK'
      BY <2>1, ProducerControl
         DEF ProducerLabels, IdleLabels, Producer, ProducerWait, ProducerContinues,
             ProducerFinishes, ProducerLock, ProducerAdd, ProducerCount,
             ProducerUnlock, ProducerPost, ProducerQuitGet, ProducerQuitPut
    <3>2. CASE \/ ProducerWait(p) \/ ProducerPost(p)
               \/ ProducerQuitGet(p) \/ ProducerQuitPut(p)
      BY <3>1, <3>2 DEF ProducerWait, ProducerPost, ProducerQuitGet, ProducerQuitPut
    <3>3. CASE ProducerContinues(p) \/ ProducerFinishes(p)
      BY <3>1, <3>3 DEF ProducerContinues, ProducerFinishes
    <3>4. CASE ProducerLock(p) \/ ProducerUnlock(p)
      BY <3>1, <3>4 DEF ProducerLock, ProducerUnlock, Threads
    <3>5. CASE ProducerAdd(p)
      <4>1. tail' \in Slots
        BY <3>5, WrapSlot DEF ProducerAdd, queueAdd
      <4>2. full' \in BOOLEAN /\ empty' \in BOOLEAN
        BY <3>5, Zenon DEF ProducerAdd, queueAdd
      <4>3. /\ buf' \in [Slots -> Nat \cup {NoItem}]
            /\ item' \in [Threads -> Nat \cup {NoItem}]
        BY <3>5 DEF ProducerAdd, queueAdd
      <4>4. QED
        BY <3>1, <3>5, <4>1, <4>2, <4>3 DEF ProducerAdd, queueAdd
    <3>6. CASE ProducerCount(p)
      BY <3>1, <3>6 DEF ProducerCount
    <3>7. QED
      BY <2>1, <3>2, <3>3, <3>4, <3>5, <3>6 DEF Producer
  <2>2. ASSUME NEW c \in Consumers, Consumer(c) PROVE TypeOK'
    <3>1. ControlOK'
      BY <2>2, ConsumerControl
         DEF ConsumerLabels, IdleLabels, Consumer, ConsumerWait, ConsumerContinues,
             ConsumerFinishes, ConsumerLock, ConsumerRemove, ConsumerCount,
             ConsumerUnlock, ConsumerPost, ConsumerQuitGet, ConsumerQuitPut
    <3>2. CASE \/ ConsumerWait(c) \/ ConsumerPost(c)
               \/ ConsumerQuitGet(c) \/ ConsumerQuitPut(c)
      BY <3>1, <3>2 DEF ConsumerWait, ConsumerPost, ConsumerQuitGet, ConsumerQuitPut
    <3>3. CASE ConsumerContinues(c) \/ ConsumerFinishes(c)
      BY <3>1, <3>3 DEF ConsumerContinues, ConsumerFinishes
    <3>4. CASE ConsumerLock(c) \/ ConsumerUnlock(c)
      BY <3>1, <3>4 DEF ConsumerLock, ConsumerUnlock, Threads
    <3>5. CASE ConsumerRemove(c)
      <4>1. head' \in Slots
        BY <3>5, WrapSlot DEF ConsumerRemove, queueRemove
      <4>2. full' \in BOOLEAN /\ empty' \in BOOLEAN
        BY <3>5, Zenon DEF ConsumerRemove, queueRemove
      <4>3. item' \in [Threads -> Nat \cup {NoItem}]
        BY <3>5 DEF ConsumerRemove, queueRemove
      <4>4. QED
        BY <3>1, <3>5, <4>1, <4>2, <4>3 DEF ConsumerRemove, queueRemove
    <3>6. CASE ConsumerCount(c)
      BY <3>1, <3>6 DEF ConsumerCount
    <3>7. QED
      BY <2>2, <3>2, <3>3, <3>4, <3>5, <3>6 DEF Consumer
  <2>3. CASE Main
    <3>1. ControlOK'
      BY <2>3, ProducerControl, ConsumerControl
         DEF Main, CreateProducer, CreateConsumer, JoinProducers, JoinConsumers,
             ProducerLabels, ConsumerLabels, ControlOK
    <3>2. QED
      BY <2>3, <3>1 DEF Main, CreateProducer, CreateConsumer, JoinProducers, JoinConsumers
  <2>4. CASE UNCHANGED vars
    BY <2>4 DEF vars, ControlOK
  <2>5. QED
    BY <2>1, <2>2, <2>3, <2>4 DEF Next, Terminated
<1>3. QED
  BY <1>1, <1>2, PTL DEF Spec

-----------------------------------------------------------------------------
(* Mutual exclusion *)

\* The mutex is held exactly by the thread inside a critical section.
THEOREM MutualExclusion == Spec => []MutexOwned
<1>1. Init => MutexOwned
  BY ThreadsAssumption DEF Init, MutexOwned, CriticalLabels
<1>2. TypeOK /\ MutexOwned /\ [Next]_vars => MutexOwned'
  <2> SUFFICES ASSUME TypeOK, MutexOwned, [Next]_vars PROVE MutexOwned'
    OBVIOUS
  <2> USE ThreadsAssumption
      DEF MutexOwned, CriticalLabels, Goto, TypeOK, ControlOK, Threads, queueVars, semVars
  <2>1. ASSUME NEW p \in Producers, Producer(p) PROVE MutexOwned'
    <3>1. CASE ProducerLock(p) \/ ProducerUnlock(p)
      BY <3>1 DEF ProducerLock, ProducerUnlock
    <3>2. CASE ~(ProducerLock(p) \/ ProducerUnlock(p))
      BY <2>1, <3>2
         DEF Producer, ProducerWait, ProducerContinues, ProducerFinishes, ProducerAdd,
             ProducerCount, ProducerPost, ProducerQuitGet, ProducerQuitPut
    <3>3. QED
      BY <3>1, <3>2
  <2>2. ASSUME NEW c \in Consumers, Consumer(c) PROVE MutexOwned'
    <3>1. CASE ConsumerLock(c) \/ ConsumerUnlock(c)
      BY <3>1 DEF ConsumerLock, ConsumerUnlock
    <3>2. CASE ~(ConsumerLock(c) \/ ConsumerUnlock(c))
      BY <2>2, <3>2
         DEF Consumer, ConsumerWait, ConsumerContinues, ConsumerFinishes, ConsumerRemove,
             ConsumerCount, ConsumerPost, ConsumerQuitGet, ConsumerQuitPut
    <3>3. QED
      BY <3>1, <3>2
  <2>3. CASE Main
    BY <2>3 DEF Main, CreateProducer, CreateConsumer, JoinProducers, JoinConsumers
  <2>4. CASE UNCHANGED vars
    BY <2>4 DEF vars
  <2>5. QED
    BY <2>1, <2>2, <2>3, <2>4 DEF Next, Terminated
<1>3. QED
  BY <1>1, <1>2, TypeCorrect, PTL DEF Spec

-----------------------------------------------------------------------------
(* The overshoot of the unlocked test, and the accounting of tokens *)

\* Before any thread runs nothing is held and nothing is owed.
LEMMA SumsInit ==
  ASSUME Init
  PROVE  /\ PastTest = 0 /\ PutHeld = 0 /\ GetOwed = 0
         /\ PastEndTest = 0 /\ GetHeld = 0 /\ PutOwed = 0
<1>1. ASSUME NEW label, label # "new" PROVE Count(label) = 0
  <2>1. At(label) = {}
    BY <1>1 DEF Init, At
  <2>2. QED
    BY <2>1, FS_EmptySet DEF Count
<1>2. QED
  BY <1>1 DEF PastTest, PutHeld, GetOwed, PastEndTest, GetHeld, PutOwed

\* A step that moves no thread changes no sum.
LEMMA SumsUnchanged ==
  ASSUME UNCHANGED pc
  PROVE  UNCHANGED <<PastTest, PutHeld, GetOwed, PastEndTest, GetHeld, PutOwed>>
BY DEF Count, At, PastTest, PutHeld, GetOwed, PastEndTest, GetHeld, PutOwed

\* The overshoot: a producer passes its test below WORK_MAX, when at most all the
\* other producers have passed it and not yet counted their item.
THEOREM ProducedIsBounded == Spec => []ProducedBound
<1>1. Init => ProducedBound
  <2>1. Cardinality(Producers) \in Nat \ {0}
    BY ThreadsAssumption, FS_CardinalityType, FS_EmptySet
  <2>2. Init => PastTest = 0 /\ total_inserted = 0
    BY SumsInit DEF Init
  <2>3. QED
    BY <2>1, <2>2, SizesAssumption DEF ProducedBound
<1>2. TypeOK /\ ProducedBound /\ [Next]_vars => ProducedBound'
  <2> SUFFICES ASSUME TypeOK, ProducedBound, [Next]_vars PROVE ProducedBound'
    OBVIOUS
  <2>1. /\ total_inserted \in Nat /\ Cardinality(Producers) \in Nat
        /\ pc \in [Threads -> ProducerLabels \cup ConsumerLabels \cup IdleLabels]
    BY ThreadsAssumption, FS_CardinalityType DEF TypeOK, ControlOK
  <2> USE <2>1, GotoMovesSums, SumsAreNat DEF ProducedBound, Threads, One
  <2>2. ASSUME NEW p \in Producers, Producer(p) PROVE ProducedBound'
    <3>1. CASE ProducerContinues(p)
      <4>1. total_inserted < WORK_MAX /\ UNCHANGED total_inserted
        BY <3>1 DEF ProducerContinues
      <4>2. PastTest' = PastTest + 1 /\ PutHeld >= PastTest + 1
        BY <3>1 DEF ProducerContinues
      <4>3. QED
        BY <4>1, <4>2, ProducersPastWait, SizesAssumption
    <3>2. CASE ProducerCount(p)
      BY <3>2 DEF ProducerCount
    <3>3. CASE ~(ProducerContinues(p) \/ ProducerCount(p))
      BY <2>2, <3>3
         DEF Producer, ProducerWait, ProducerFinishes, ProducerLock, ProducerAdd,
             ProducerUnlock, ProducerPost, ProducerQuitGet, ProducerQuitPut
    <3>4. QED
      BY <3>1, <3>2, <3>3
  <2>3. ASSUME NEW c \in Consumers, Consumer(c) PROVE ProducedBound'
    BY <2>3
       DEF Consumer, ConsumerWait, ConsumerContinues, ConsumerFinishes, ConsumerLock,
           ConsumerRemove, ConsumerCount, ConsumerUnlock, ConsumerPost,
           ConsumerQuitPut, ConsumerQuitGet
  <2>4. CASE Main
    BY <2>4, SumsUnchanged
       DEF Main, CreateProducer, CreateConsumer, JoinProducers, JoinConsumers
  <2>5. CASE UNCHANGED vars
    BY <2>5, SumsUnchanged DEF vars
  <2>6. QED
    BY <2>2, <2>3, <2>4, <2>5 DEF Next, Terminated
<1>3. QED
  BY <1>1, <1>2, TypeCorrect, PTL DEF Spec

\* The same for the consumers.
THEOREM ConsumedIsBounded == Spec => []ConsumedBound
<1>1. Init => ConsumedBound
  <2>1. Cardinality(Consumers) \in Nat \ {0}
    BY ThreadsAssumption, FS_CardinalityType, FS_EmptySet
  <2>2. Init => PastEndTest = 0 /\ total_consumed = 0
    BY SumsInit DEF Init
  <2>3. QED
    BY <2>1, <2>2, SizesAssumption DEF ConsumedBound
<1>2. TypeOK /\ ConsumedBound /\ [Next]_vars => ConsumedBound'
  <2> SUFFICES ASSUME TypeOK, ConsumedBound, [Next]_vars PROVE ConsumedBound'
    OBVIOUS
  <2>1. /\ total_consumed \in Nat /\ Cardinality(Consumers) \in Nat
        /\ pc \in [Threads -> ProducerLabels \cup ConsumerLabels \cup IdleLabels]
    BY ThreadsAssumption, FS_CardinalityType DEF TypeOK, ControlOK
  <2> USE <2>1, GotoMovesSums, SumsAreNat DEF ConsumedBound, Threads, One
  <2>2. ASSUME NEW p \in Producers, Producer(p) PROVE ConsumedBound'
    BY <2>2
       DEF Producer, ProducerWait, ProducerContinues, ProducerFinishes, ProducerLock,
           ProducerAdd, ProducerCount, ProducerUnlock, ProducerPost,
           ProducerQuitGet, ProducerQuitPut
  <2>3. ASSUME NEW c \in Consumers, Consumer(c) PROVE ConsumedBound'
    <3>1. CASE ConsumerContinues(c)
      <4>1. total_consumed < WORK_MAX /\ UNCHANGED total_consumed
        BY <3>1 DEF ConsumerContinues
      <4>2. PastEndTest' = PastEndTest + 1 /\ GetHeld >= PastEndTest + 1
        BY <3>1 DEF ConsumerContinues
      <4>3. QED
        BY <4>1, <4>2, ConsumersPastWait, SizesAssumption
    <3>2. CASE ConsumerCount(c)
      BY <3>2 DEF ConsumerCount
    <3>3. CASE ~(ConsumerContinues(c) \/ ConsumerCount(c))
      BY <2>3, <3>3
         DEF Consumer, ConsumerWait, ConsumerFinishes, ConsumerLock, ConsumerRemove,
             ConsumerUnlock, ConsumerPost, ConsumerQuitGet, ConsumerQuitPut
    <3>4. QED
      BY <3>1, <3>2, <3>3
  <2>4. CASE Main
    BY <2>4, SumsUnchanged
       DEF Main, CreateProducer, CreateConsumer, JoinProducers, JoinConsumers
  <2>5. CASE UNCHANGED vars
    BY <2>5, SumsUnchanged DEF vars
  <2>6. QED
    BY <2>2, <2>3, <2>4, <2>5 DEF Next, Terminated
<1>3. QED
  BY <1>1, <1>2, TypeCorrect, PTL DEF Spec

\* The unlocked tests overshoot WORK_MAX by fewer items than there are threads.
THEOREM Overshoot == Spec => []OvershootBounded
BY ProducedIsBounded, ConsumedIsBounded, PTL DEF OvershootBounded

\* The accounting and the absence of early quitters are inductive together: while
\* the total is below WORK_MAX the equations show that no thread can quit, and only
\* a thread that quits creates a token.
TokenInv == TokenAccounting /\ NobodyQuitsEarly

\* A statement of a producer keeps the count of the slots.
LEMMA TokensOfProducer ==
  ASSUME TypeOK, TokenInv, NEW p \in Producers, Producer(p)
  PROVE  TokenInv'
<1>1. /\ total_inserted \in Nat /\ total_consumed \in Nat
      /\ slotsToPut \in Nat /\ slotsToGet \in Nat
      /\ pc \in [Threads -> ProducerLabels \cup ConsumerLabels \cup IdleLabels]
  BY DEF TypeOK, ControlOK
<1>2. NobodyQuitsEarly'
  BY <1>1, SizesAssumption
     DEF Threads, TokenInv, NobodyQuitsEarly, QuitLabels, Goto, Producer, ProducerWait,
         ProducerContinues, ProducerFinishes, ProducerLock, ProducerAdd, ProducerCount,
         ProducerUnlock, ProducerPost, ProducerQuitGet, ProducerQuitPut
<1>3. TokenAccounting'
  <2> USE <1>1, GotoMovesSums, SumsAreNat, SizesAssumption
      DEF TokenInv, TokenAccounting, Threads, One, semVars
  <2>1. CASE ProducerWait(p)
    <3>1. /\ UNCHANGED <<PastTest, GetOwed, GetHeld, PutOwed>>
          /\ PutHeld' = PutHeld + 1
      BY <2>1 DEF ProducerWait
    <3>2. QED
      BY <2>1, <3>1 DEF ProducerWait
  <2>2. CASE ProducerContinues(p)
    <3>1. /\ UNCHANGED <<PutHeld, GetOwed, GetHeld, PutOwed>>
          /\ PastTest' = PastTest + 1 /\ PutHeld >= PastTest + 1
      BY <2>2 DEF ProducerContinues
    <3>2. QED
      BY <2>2, <3>1 DEF ProducerContinues
  <2>3. CASE ProducerFinishes(p)
    BY <2>3 DEF ProducerFinishes
  <2>4. CASE ProducerLock(p) \/ ProducerAdd(p)
    <3>1. /\ UNCHANGED <<PastTest, PutHeld, GetOwed, GetHeld, PutOwed>>
      BY <2>4 DEF ProducerLock, ProducerAdd
    <3>2. QED
      BY <2>4, <3>1 DEF ProducerLock, ProducerAdd
  <2>5. CASE ProducerCount(p)
    <3>1. /\ UNCHANGED <<GetHeld, PutOwed>>
          /\ PastTest' = PastTest - 1
          /\ PutHeld' = PutHeld - 1
          /\ GetOwed' = GetOwed + 1
      BY <2>5 DEF ProducerCount
    <3>2. QED
      BY <2>5, <3>1 DEF ProducerCount
  <2>6. CASE ProducerUnlock(p)
    <3>1. /\ UNCHANGED <<PastTest, PutHeld, GetOwed, GetHeld, PutOwed>>
      BY <2>6 DEF ProducerUnlock
    <3>2. QED
      BY <2>6, <3>1 DEF ProducerUnlock
  <2>7. CASE ProducerPost(p)
    <3>1. /\ UNCHANGED <<PastTest, PutHeld, GetHeld, PutOwed>>
          /\ GetOwed' = GetOwed - 1
      BY <2>7 DEF ProducerPost
    <3>2. QED
      BY <2>7, <3>1 DEF ProducerPost
  <2>8. CASE ProducerQuitGet(p) \/ ProducerQuitPut(p)
    <3>1. total_inserted >= WORK_MAX
      BY <2>8 DEF ProducerQuitGet, ProducerQuitPut, Goto, NobodyQuitsEarly, QuitLabels
    <3>2. QED
      BY <2>8, <3>1 DEF ProducerQuitGet, ProducerQuitPut
  <2>9. QED
    BY <2>1, <2>2, <2>3, <2>4, <2>5, <2>6, <2>7, <2>8 DEF Producer
<1>4. QED
  BY <1>2, <1>3 DEF TokenInv

\* So does a statement of a consumer.
LEMMA TokensOfConsumer ==
  ASSUME TypeOK, TokenInv, NEW c \in Consumers, Consumer(c)
  PROVE  TokenInv'
<1>1. /\ total_inserted \in Nat /\ total_consumed \in Nat
      /\ slotsToPut \in Nat /\ slotsToGet \in Nat
      /\ pc \in [Threads -> ProducerLabels \cup ConsumerLabels \cup IdleLabels]
  BY DEF TypeOK, ControlOK
<1>2. ConsumerFinishes(c) => total_inserted >= WORK_MAX
  BY <1>1, SumsAreNat, SizesAssumption DEF ConsumerFinishes, TokenInv, TokenAccounting
<1>3. NobodyQuitsEarly'
  BY <1>1, <1>2
     DEF Threads, TokenInv, NobodyQuitsEarly, QuitLabels, Goto, Consumer, ConsumerWait,
         ConsumerContinues, ConsumerFinishes, ConsumerLock, ConsumerRemove, ConsumerCount,
         ConsumerUnlock, ConsumerPost, ConsumerQuitGet, ConsumerQuitPut
<1>4. TokenAccounting'
  <2> USE <1>1, GotoMovesSums, SumsAreNat, SizesAssumption
      DEF TokenInv, TokenAccounting, Threads, One, semVars
  <2>1. CASE ConsumerWait(c)
    <3>1. /\ UNCHANGED <<PastTest, PutHeld, GetOwed, PutOwed>>
          /\ GetHeld' = GetHeld + 1
      BY <2>1 DEF ConsumerWait
    <3>2. QED
      BY <2>1, <3>1 DEF ConsumerWait
  <2>2. CASE ConsumerContinues(c)
    <3>1. /\ UNCHANGED <<PastTest, PutHeld, GetOwed, GetHeld, PutOwed>>
      BY <2>2 DEF ConsumerContinues
    <3>2. QED
      BY <2>2, <3>1 DEF ConsumerContinues
  <2>3. CASE ConsumerFinishes(c)
    BY <2>3, <1>2 DEF ConsumerFinishes
  <2>4. CASE ConsumerLock(c) \/ ConsumerRemove(c)
    <3>1. /\ UNCHANGED <<PastTest, PutHeld, GetOwed, GetHeld, PutOwed>>
      BY <2>4 DEF ConsumerLock, ConsumerRemove
    <3>2. QED
      BY <2>4, <3>1 DEF ConsumerLock, ConsumerRemove
  <2>5. CASE ConsumerCount(c)
    <3>1. /\ UNCHANGED <<PastTest, PutHeld, GetOwed>>
          /\ GetHeld' = GetHeld - 1
          /\ PutOwed' = PutOwed + 1
      BY <2>5 DEF ConsumerCount
    <3>2. QED
      BY <2>5, <3>1 DEF ConsumerCount
  <2>6. CASE ConsumerUnlock(c)
    <3>1. /\ UNCHANGED <<PastTest, PutHeld, GetOwed, GetHeld, PutOwed>>
      BY <2>6 DEF ConsumerUnlock
    <3>2. QED
      BY <2>6, <3>1 DEF ConsumerUnlock
  <2>7. CASE ConsumerPost(c)
    <3>1. /\ UNCHANGED <<PastTest, PutHeld, GetOwed, GetHeld>>
          /\ PutOwed' = PutOwed - 1
      BY <2>7 DEF ConsumerPost
    <3>2. QED
      BY <2>7, <3>1 DEF ConsumerPost
  <2>8. CASE ConsumerQuitGet(c) \/ ConsumerQuitPut(c)
    <3>1. total_inserted >= WORK_MAX
      BY <2>8 DEF ConsumerQuitGet, ConsumerQuitPut, Goto, NobodyQuitsEarly, QuitLabels
    <3>2. QED
      BY <2>8, <3>1 DEF ConsumerQuitGet, ConsumerQuitPut
  <2>9. QED
    BY <2>1, <2>2, <2>3, <2>4, <2>5, <2>6, <2>7, <2>8 DEF Consumer
<1>5. QED
  BY <1>3, <1>4 DEF TokenInv

\* The count of the slots is right in every reachable state.
LEMMA TokensCorrect == Spec => []TokenInv
<1>1. Init => TokenInv
  <2> SUFFICES ASSUME Init PROVE TokenInv
    OBVIOUS
  <2>1. NobodyQuitsEarly
    BY DEF Init, NobodyQuitsEarly, QuitLabels
  <2>2. TokenAccounting
    <3>1. /\ PastTest = 0 /\ PutHeld = 0 /\ GetOwed = 0 /\ GetHeld = 0 /\ PutOwed = 0
          /\ total_inserted = 0 /\ total_consumed = 0
          /\ slotsToPut = QUEUESIZE /\ slotsToGet = 0
      BY SumsInit DEF Init
    <3>2. QED
      BY <3>1, SizesAssumption DEF TokenAccounting
  <2>3. QED
    BY <2>1, <2>2 DEF TokenInv
<1>2. TypeOK /\ TokenInv /\ [Next]_vars => TokenInv'
  <2> SUFFICES ASSUME TypeOK, TokenInv, [Next]_vars PROVE TokenInv'
    OBVIOUS
  <2>1. CASE Main
    <3>1. UNCHANGED <<PastTest, PutHeld, GetOwed, PastEndTest, GetHeld, PutOwed>>
      <4>1. CASE UNCHANGED pc
        BY <4>1, SumsUnchanged
      <4>2. ASSUME NEW p \in Producers, CreateProducer(p)
            PROVE  UNCHANGED <<PastTest, PutHeld, GetOwed, PastEndTest, GetHeld, PutOwed>>
        BY <4>2, GotoMovesSums, SumsAreNat
           DEF CreateProducer, TypeOK, ControlOK, Threads, One
      <4>3. ASSUME NEW c \in Consumers, CreateConsumer(c)
            PROVE  UNCHANGED <<PastTest, PutHeld, GetOwed, PastEndTest, GetHeld, PutOwed>>
        BY <4>3, GotoMovesSums, SumsAreNat
           DEF CreateConsumer, TypeOK, ControlOK, Threads, One
      <4>4. QED
        BY <2>1, <4>1, <4>2, <4>3 DEF Main, JoinProducers, JoinConsumers
    <3>2. TokenAccounting'
      BY <2>1, <3>1
         DEF Main, CreateProducer, CreateConsumer, JoinProducers, JoinConsumers,
             semVars, TokenInv, TokenAccounting
    <3>3. NobodyQuitsEarly'
      BY <2>1
         DEF Main, CreateProducer, CreateConsumer, JoinProducers, JoinConsumers, Goto,
             TokenInv, NobodyQuitsEarly, QuitLabels, TypeOK, ControlOK, Threads
    <3>4. QED
      BY <3>2, <3>3 DEF TokenInv
  <2>2. CASE UNCHANGED vars
    BY <2>2, SumsUnchanged DEF vars, semVars, TokenInv, TokenAccounting, NobodyQuitsEarly
  <2>3. QED
    BY <2>1, <2>2, TokensOfProducer, TokensOfConsumer DEF Next, Terminated
<1>3. QED
  BY <1>1, <1>2, TypeCorrect, PTL DEF Spec

\* No token is created or lost before the work is done, and afterwards the producers
\* past their test never outnumber the free slots.
THEOREM TokensAreAccounted == Spec => []TokenAccounting
BY TokensCorrect, PTL DEF TokenInv

\* No thread quits before the work is done.
THEOREM NobodyQuits == Spec => []NobodyQuitsEarly
BY TokensCorrect, PTL DEF TokenInv

\* The inequality of the accounting leaves a free slot to the producer about to write.
THEOREM NoItemOverwritten == Spec => []NoOverwrite
<1>1. TypeOK /\ TokenInv => NoOverwrite
  <2> SUFFICES ASSUME TypeOK, TokenInv, NEW p \in Producers, pc[p] = "p_add"
               PROVE  Added - Removed < QUEUESIZE
    BY DEF NoOverwrite
  <2>1. Count("p_add") >= 1
    <3>1. p \in At("p_add")
      BY DEF At, Threads
    <3>2. QED
      BY <3>1, CountIsNat, FS_EmptySet DEF Count
  <2>2. /\ Added = total_inserted + Count("p_count")
        /\ Removed = total_consumed + Count("c_count")
        /\ PastTest = Count("p_lock") + Count("p_add") + Count("p_count")
    BY DEF Added, Removed, PastTest
  <2>3. /\ total_inserted \in Nat /\ total_consumed \in Nat
        /\ Count("p_lock") \in Nat /\ Count("p_add") \in Nat
        /\ Count("p_count") \in Nat /\ Count("c_count") \in Nat /\ PutOwed \in Nat
    BY CountIsNat, SumsAreNat DEF TypeOK
  <2>4. PastTest + total_inserted - total_consumed + PutOwed <= QUEUESIZE
    BY DEF TokenInv, TokenAccounting
  <2>5. QED
    BY <2>1, <2>2, <2>3, <2>4, SizesAssumption
<1>2. QED
  BY <1>1, TypeCorrect, TokensCorrect, PTL

-----------------------------------------------------------------------------
(* Positions in the circular buffer *)

\* Division with remainder, and that the remainder is the only one.
LEMMA Division ==
  ASSUME NEW q \in Nat \ {0}, NEW n \in Nat
  PROVE  n % q \in 0 .. q - 1 /\ n \div q \in Nat /\ n = q * (n \div q) + (n % q)
OBVIOUS

\* The remainder of a number that is written as a quotient and a remainder.
LEMMA Remainder ==
  ASSUME NEW q \in Nat \ {0}, NEW d \in Int, NEW r \in 0 .. q - 1
  PROVE  (q * d + r) % q = r
OBVIOUS

\* A position may be reduced before another number is added to it.
LEMMA ReduceFirst ==
  ASSUME NEW q \in Nat \ {0}, NEW n \in Nat, NEW j \in Nat
  PROVE  ((n % q) + j) % q = (n + j) % q
<1>1. PICK d \in Nat, r \in 0 .. q - 1 : n = q * d + r /\ r = n % q
  BY Division
<1>2. PICK e \in Nat, s \in 0 .. q - 1 : r + j = q * e + s /\ s = (r + j) % q
  <2> DEFINE m == r + j
  <2>1. m \in Nat
    OBVIOUS
  <2> HIDE DEF m
  <2>2. \E e \in Nat, s \in 0 .. q - 1 : m = q * e + s /\ s = m % q
    BY <2>1, Division
  <2>3. QED
    BY <2>2 DEF m
<1>3. n + j = q * (d + e) + s
  <2>1. q * (d + e) = q * d + q * e
    OBVIOUS
  <2>2. n + j = q * d + (r + j)
    BY <1>1
  <2>3. QED
    BY <1>2, <2>1, <2>2
<1>4. (n + j) % q = s
  <2>1. d + e \in Int
    OBVIOUS
  <2>2. (q * (d + e) + s) % q = s
    BY <2>1, Remainder
  <2>3. QED
    BY <1>3, <2>2
<1>5. QED
  BY <1>1, <1>2, <1>4

\* Two numbers less than one round apart never share a position.
LEMMA PositionsDiffer ==
  ASSUME NEW q \in Nat \ {0}, NEW a \in Nat, NEW b \in Nat, a < b, b < a + q
  PROVE  a % q # b % q
<1>1. PICK d \in Nat, r \in 0 .. q - 1 : a = q * d + r /\ r = a % q
  BY Division
<1>2. PICK e \in Nat, s \in 0 .. q - 1 : b = q * e + s /\ s = b % q
  BY Division
<1>3. SUFFICES ASSUME r = s PROVE FALSE
  BY <1>1, <1>2
<1>4. q * e > q * d /\ q * e < q * d + q
  BY <1>1, <1>2, <1>3
<1>5. CASE e <= d
  <2>1. q * e <= q * d
    BY <1>5
  <2>2. QED
    BY <1>4, <2>1
<1>6. CASE e >= d + 1
  <2>1. q * e >= q * d + q
    BY <1>6
  <2>2. QED
    BY <1>4, <2>1
<1>7. QED
  BY <1>5, <1>6

\* Wrap(i + 1) of the code is the position that follows i; a round later comes
\* the same position.
LEMMA WrapIsNext ==
  ASSUME NEW n \in Nat
  PROVE  /\ n % QUEUESIZE \in Slots
         /\ Wrap((n % QUEUESIZE) + 1) = (n + 1) % QUEUESIZE
         /\ (n + QUEUESIZE) % QUEUESIZE = n % QUEUESIZE
<1> DEFINE Q == QUEUESIZE
           r == n % Q
<1>1. Q \in Nat \ {0}
  BY SizesAssumption
<1> HIDE DEF Q
<1>2. r \in 0 .. Q - 1
  BY <1>1, Division
<1>3. (r + 1) % Q = (n + 1) % Q /\ (r + Q) % Q = (n + Q) % Q
  BY <1>1, ReduceFirst
<1> HIDE DEF r
<1>4. ASSUME NEW x \in 0 .. Q - 1 PROVE x % Q = x
  <2>1. (Q * 0 + x) % Q = x
    BY <1>1, Remainder
  <2>2. QED
    BY <1>1, <2>1
<1>5. ASSUME NEW x \in 0 .. Q - 1 PROVE (x + Q) % Q = x
  <2>1. (Q * 1 + x) % Q = x
    BY <1>1, Remainder
  <2>2. Q * 1 + x = x + Q
    BY <1>1
  <2>3. QED
    BY <2>1, <2>2
<1>6. 0 \in 0 .. Q - 1
  BY <1>1
<1>7. (r + 1) % Q = IF r + 1 = Q THEN 0 ELSE r + 1
  <2>1. CASE r + 1 = Q
    <3>1. (0 + Q) % Q = 0
      BY <1>5, <1>6
    <3>2. 0 + Q = r + 1
      BY <1>1, <2>1
    <3>3. QED
      BY <2>1, <3>1, <3>2
  <2>2. CASE r + 1 # Q
    <3>1. r + 1 \in 0 .. Q - 1
      BY <1>1, <1>2, <2>2
    <3>2. QED
      BY <1>4, <2>2, <3>1
  <2>3. QED
    BY <2>1, <2>2
<1>8. (r + Q) % Q = r
  BY <1>2, <1>5
<1>9. QED
  BY <1>2, <1>3, <1>7, <1>8 DEF Wrap, Slots, Q, r


-----------------------------------------------------------------------------
(* The circular buffer holds the unread items *)

\* Mutual exclusion in numbers: of the threads at critical labels there is one,
\* the owner of the mutex.
LEMMA CriticalCount ==
  ASSUME TypeOK, MutexOwned, NEW label \in CriticalLabels
  PROVE  /\ Count(label) \in {0, 1}
         /\ Count(label) = 1 <=> (mutex \in Threads /\ pc[mutex] = label)
<1>1. CASE mutex \in Threads /\ pc[mutex] = label
  <2>1. At(label) = {mutex}
    BY <1>1 DEF MutexOwned, At
  <2>2. Cardinality({mutex}) = 1
    BY FS_Singleton
  <2>3. QED
    BY <1>1, <2>1, <2>2 DEF Count
<1>2. CASE ~(mutex \in Threads /\ pc[mutex] = label)
  <2>1. At(label) = {}
    BY <1>2 DEF MutexOwned, At
  <2>2. Cardinality({}) = 0
    BY FS_EmptySet
  <2>3. QED
    BY <1>2, <2>1, <2>2 DEF Count
<1>3. QED
  BY <1>1, <1>2

\* The counts the two totals lag behind by.
LEMMA LagIsNat == /\ Count("p_count") \in Nat /\ Count("c_count") \in Nat
                  /\ TypeOK => Added \in Nat /\ Removed \in Nat
BY CountIsNat DEF TypeOK, Added, Removed

\* The shared queue changes in two ways only: a producer adds item number Added, or
\* a consumer removes the slot at the head; no other step touches the queue, a
\* local item or the two numbers.
AddStep(p) == /\ pc[p] = "p_add" /\ queueAdd(Added)
              /\ item' = [item EXCEPT ![p] = Added]
              /\ Added' = Added + 1 /\ Removed' = Removed

RemoveStep(c) == /\ pc[c] = "c_remove" /\ queueRemove(c)
                 /\ Added' = Added /\ Removed' = Removed + 1

QuietStep == UNCHANGED <<queueVars, item, Added, Removed>>

\* A statement of a producer adds an item or leaves the queue.
LEMMA ProducerQueueStep ==
  ASSUME TypeOK, MutexOwned, NEW p \in Producers, Producer(p)
  PROVE  AddStep(p) \/ QuietStep
<1>1. /\ total_inserted \in Nat /\ total_consumed \in Nat
      /\ pc \in [Threads -> ProducerLabels \cup ConsumerLabels \cup IdleLabels]
      /\ Count("p_count") \in Nat /\ Count("c_count") \in Nat /\ p \in Threads
  BY CountIsNat DEF TypeOK, ControlOK, Threads
<1>2. CASE ProducerAdd(p)
  <2>1. Goto(p, "p_add", "p_count")
    BY <1>2 DEF ProducerAdd
  <2>2. /\ Count("p_count")' = Count("p_count") + 1
        /\ Count("c_count")' = Count("c_count")
    BY <1>1, <2>1, GotoMovesOne DEF One
  <2>3. Count("p_count") = 0
    <3>1. mutex = p /\ pc[mutex] # "p_count"
      BY <1>1, <2>1 DEF MutexOwned, CriticalLabels, Goto
    <3>2. QED
      BY <3>1, CriticalCount DEF CriticalLabels
  <2>4. Added = total_inserted /\ Added' = Added + 1 /\ Removed' = Removed
    BY <1>1, <1>2, <2>2, <2>3 DEF ProducerAdd, Added, Removed
  <2>5. QED
    BY <1>2, <2>1, <2>4 DEF ProducerAdd, AddStep, Goto
<1>3. CASE ProducerCount(p)
  <2>1. Goto(p, "p_count", "p_unlock")
    BY <1>3 DEF ProducerCount
  <2>2. /\ Count("p_count")' = Count("p_count") - 1
        /\ Count("c_count")' = Count("c_count")
    BY <1>1, <2>1, GotoMovesOne DEF One
  <2>3. Added' = Added /\ Removed' = Removed
    BY <1>1, <1>3, <2>2 DEF ProducerCount, Added, Removed
  <2>4. QED
    BY <1>3, <2>3 DEF ProducerCount, QuietStep
<1>4. CASE ~(ProducerAdd(p) \/ ProducerCount(p))
  <2>1. UNCHANGED <<queueVars, item, total_inserted, total_consumed>>
    BY <1>4 DEF Producer, ProducerWait, ProducerContinues, ProducerFinishes, ProducerLock,
                ProducerUnlock, ProducerPost, ProducerQuitGet, ProducerQuitPut
  <2>2. UNCHANGED <<Count("p_count"), Count("c_count")>>
    BY <1>1, <1>4, GotoMovesOne
       DEF Producer, ProducerWait, ProducerContinues, ProducerFinishes, ProducerLock,
           ProducerUnlock, ProducerPost, ProducerQuitGet, ProducerQuitPut, One
  <2>3. QED
    BY <2>1, <2>2 DEF QuietStep, Added, Removed
<1>5. QED
  BY <1>2, <1>3, <1>4

\* One of a consumer removes an item or leaves the queue.
LEMMA ConsumerQueueStep ==
  ASSUME TypeOK, MutexOwned, NEW c \in Consumers, Consumer(c)
  PROVE  RemoveStep(c) \/ QuietStep
<1>1. /\ total_inserted \in Nat /\ total_consumed \in Nat
      /\ pc \in [Threads -> ProducerLabels \cup ConsumerLabels \cup IdleLabels]
      /\ Count("p_count") \in Nat /\ Count("c_count") \in Nat /\ c \in Threads
  BY CountIsNat DEF TypeOK, ControlOK, Threads
<1>2. CASE ConsumerRemove(c)
  <2>1. Goto(c, "c_remove", "c_count")
    BY <1>2 DEF ConsumerRemove
  <2>2. /\ Count("p_count")' = Count("p_count")
        /\ Count("c_count")' = Count("c_count") + 1
    BY <1>1, <2>1, GotoMovesOne DEF One
  <2>3. Added' = Added /\ Removed' = Removed + 1
    BY <1>1, <1>2, <2>2 DEF ConsumerRemove, Added, Removed
  <2>4. QED
    BY <1>2, <2>1, <2>3 DEF ConsumerRemove, RemoveStep, Goto
<1>3. CASE ConsumerCount(c)
  <2>1. Goto(c, "c_count", "c_unlock")
    BY <1>3 DEF ConsumerCount
  <2>2. /\ Count("p_count")' = Count("p_count")
        /\ Count("c_count")' = Count("c_count") - 1
    BY <1>1, <2>1, GotoMovesOne DEF One
  <2>3. Added' = Added /\ Removed' = Removed
    BY <1>1, <1>3, <2>2 DEF ConsumerCount, Added, Removed
  <2>4. QED
    BY <1>3, <2>3 DEF ConsumerCount, QuietStep
<1>4. CASE ~(ConsumerRemove(c) \/ ConsumerCount(c))
  <2>1. UNCHANGED <<queueVars, item, total_inserted, total_consumed>>
    BY <1>4 DEF Consumer, ConsumerWait, ConsumerContinues, ConsumerFinishes, ConsumerLock,
                ConsumerUnlock, ConsumerPost, ConsumerQuitPut, ConsumerQuitGet
  <2>2. UNCHANGED <<Count("p_count"), Count("c_count")>>
    BY <1>1, <1>4, GotoMovesOne
       DEF Consumer, ConsumerWait, ConsumerContinues, ConsumerFinishes, ConsumerLock,
           ConsumerUnlock, ConsumerPost, ConsumerQuitPut, ConsumerQuitGet, One
  <2>3. QED
    BY <2>1, <2>2 DEF QuietStep, Added, Removed
<1>5. QED
  BY <1>2, <1>3, <1>4

\* So every step is of one of the three kinds.
LEMMA QueueSteps ==
  ASSUME TypeOK, MutexOwned, [Next]_vars
  PROVE  \/ \E p \in Producers : AddStep(p)
         \/ \E c \in Consumers : RemoveStep(c)
         \/ QuietStep
<1>1. CASE Main
  <2>1. UNCHANGED <<queueVars, item, total_inserted, total_consumed>>
    BY <1>1 DEF Main, CreateProducer, CreateConsumer, JoinProducers, JoinConsumers
  <2>2. UNCHANGED <<Count("p_count"), Count("c_count")>>
    <3>1. CASE UNCHANGED pc
      BY <3>1 DEF Count, At
    <3>2. ASSUME NEW t \in Threads, Goto(t, "new", "p_wait") \/ Goto(t, "new", "c_wait")
          PROVE  UNCHANGED <<Count("p_count"), Count("c_count")>>
      BY <3>2, GotoMovesOne, CountIsNat DEF TypeOK, ControlOK, One
    <3>3. QED
      BY <1>1, <3>1, <3>2
         DEF Main, CreateProducer, CreateConsumer, JoinProducers, JoinConsumers, Threads
  <2>3. QED
    BY <2>1, <2>2 DEF QuietStep, Added, Removed
<1>2. CASE UNCHANGED vars
  BY <1>2 DEF vars, QuietStep, Added, Removed, Count, At
<1>3. QED
  BY <1>1, <1>2, ProducerQueueStep, ConsumerQueueStep DEF Next, Terminated

\* Where the items that were put and not taken lie, if there are any.
SlotsHold ==
    /\ head = Removed % QUEUESIZE
    /\ tail = Added % QUEUESIZE
    /\ \A k \in Removed .. Added - 1 : buf[k % QUEUESIZE] = k

\* Every step leaves what was not read in the slots.
LEMMA BufferStep ==
  ASSUME TypeOK, MutexOwned, NoOverwrite, SlotsHold, [Next]_vars
  PROVE  SlotsHold'
<1>1. /\ Added \in Nat /\ Removed \in Nat
      /\ buf \in [Slots -> Nat \cup {NoItem}]
      /\ QUEUESIZE \in Nat \ {0}
  BY LagIsNat, SizesAssumption DEF TypeOK
<1>2. ASSUME NEW p \in Producers, AddStep(p) PROVE SlotsHold'
  <2>1. Added - Removed < QUEUESIZE
    BY <1>2 DEF AddStep, NoOverwrite
  <2>2. /\ buf' = [buf EXCEPT ![Added % QUEUESIZE] = Added]
        /\ tail' = (Added + 1) % QUEUESIZE /\ head' = head
        /\ Added' = Added + 1 /\ Removed' = Removed
    BY <1>1, <1>2, WrapIsNext DEF AddStep, queueAdd, SlotsHold
  <2>3. ASSUME NEW k \in Removed .. Added PROVE buf'[k % QUEUESIZE] = k
    <3>1. k \in Nat /\ k % QUEUESIZE \in Slots
      <4>1. k \in Nat
        BY <1>1
      <4>2. QED
        BY <4>1, WrapIsNext
    <3>2. CASE k = Added
      BY <1>1, <2>2, <3>1, <3>2
    <3>3. CASE k # Added
      <4>1. k % QUEUESIZE # Added % QUEUESIZE
        <5>1. k < Added /\ Added < k + QUEUESIZE
          BY <1>1, <2>1, <3>1, <3>3
        <5>2. QED
          BY <1>1, <3>1, <5>1, PositionsDiffer, Zenon
      <4>2. buf[k % QUEUESIZE] = k
        BY <1>1, <3>3 DEF SlotsHold
      <4>3. QED
        BY <1>1, <2>2, <3>1, <4>1, <4>2
    <3>4. QED
      BY <3>2, <3>3
  <2>4. Removed' .. Added' - 1 = Removed .. Added
    BY <1>1, <2>2
  <2>5. tail' = Added' % QUEUESIZE /\ head' = Removed' % QUEUESIZE
    BY <2>2 DEF SlotsHold
  <2>6. QED
    BY <2>3, <2>4, <2>5 DEF SlotsHold
<1>3. ASSUME NEW c \in Consumers, RemoveStep(c) PROVE SlotsHold'
  <2>1. /\ head' = (Removed + 1) % QUEUESIZE /\ UNCHANGED <<buf, tail>>
        /\ Added' = Added /\ Removed' = Removed + 1
    BY <1>1, <1>3, WrapIsNext DEF RemoveStep, queueRemove, SlotsHold
  <2>2. Removed + 1 .. Added - 1 \subseteq Removed .. Added - 1
    BY <1>1
  <2>3. QED
    BY <2>1, <2>2 DEF SlotsHold
<1>4. CASE QuietStep
  BY <1>4 DEF QuietStep, queueVars, SlotsHold
<1>5. QED
  BY <1>2, <1>3, <1>4, QueueSteps

\* However many threads there are: the slot a producer writes is free by NoOverwrite,
\* and it is the one at the tail because the mutex keeps every other item counted.
LEMMA SlotsCorrect == Spec => []SlotsHold
<1>1. Init => SlotsHold
  <2> SUFFICES ASSUME Init PROVE SlotsHold
    OBVIOUS
  <2>1. Added = 0 /\ Removed = 0
    <3>1. At("p_count") = {} /\ At("c_count") = {}
      BY DEF Init, At
    <3>2. QED
      BY <3>1, FS_EmptySet DEF Init, Added, Removed, Count
  <2>2. 0 % QUEUESIZE = 0
    BY SizesAssumption
  <2>3. QED
    BY <2>1, <2>2 DEF Init, SlotsHold
<1>2. TypeOK /\ MutexOwned /\ NoOverwrite /\ SlotsHold /\ [Next]_vars
        => SlotsHold'
  BY BufferStep
<1>3. QED
  BY <1>1, <1>2, TypeCorrect, MutualExclusion, NoItemOverwritten, PTL DEF Spec


\* Until WORK_MAX items are counted, no more items were taken than put, and no more
\* put than the buffer has room for: the tokens account for every item.
LEMMA ReadBehindWritten ==
  ASSUME TypeOK, TokenAccounting, total_inserted < WORK_MAX
  PROVE  Removed <= Added /\ Added - Removed <= QUEUESIZE
<1>1. /\ total_inserted \in Nat /\ total_consumed \in Nat
      /\ slotsToPut \in Nat /\ slotsToGet \in Nat
      /\ Count("p_count") \in Nat /\ Count("c_count") \in Nat
      /\ WORK_MAX \in Nat /\ QUEUESIZE \in Nat
  BY CountIsNat, SizesAssumption DEF TypeOK
<1>2. Count("p_count") <= PastTest /\ Count("c_count") <= PastEndTest
  BY CountIsNat DEF PastTest, PastEndTest
<1>3. total_consumed + PastEndTest <= total_inserted
  BY <1>1, SumsAreNat DEF TokenAccounting
<1>4. PastTest + total_inserted - total_consumed + PutOwed <= QUEUESIZE
  BY DEF TokenAccounting
<1>5. QED
  BY <1>1, <1>2, <1>3, <1>4, SumsAreNat DEF Added, Removed

\* Until WORK_MAX items are counted nothing that was put and not taken is lost, taken
\* twice or moved, with any number of threads on both sides (queueAdd, queueRemove).
THEOREM BufferIsUnread == Spec => []BufferHoldsUnread
<1>1. TypeOK /\ TokenAccounting /\ SlotsHold => BufferHoldsUnread
  BY ReadBehindWritten DEF SlotsHold, BufferHoldsUnread
<1>2. QED
  BY <1>1, TypeCorrect, TokensAreAccounted, SlotsCorrect, PTL

-----------------------------------------------------------------------------
(* One consumer: the comment of lines 363-366 holds *)

\* With a single consumer the queue never goes under: the unlocked test lets no item
\* through after the maximum, and below it the tokens account for every item.
LEMMA ReadIsWritten ==
  ASSUME Cardinality(Consumers) = 1, TypeOK, TokenAccounting, ConsumedBound
  PROVE  /\ total_consumed + PastEndTest <= total_inserted
         /\ Removed <= Added /\ Added - Removed <= QUEUESIZE
<1>1. /\ total_inserted \in Nat /\ total_consumed \in Nat
      /\ slotsToPut \in Nat /\ slotsToGet \in Nat
      /\ Count("p_count") \in Nat /\ Count("c_count") \in Nat
      /\ WORK_MAX \in Nat /\ QUEUESIZE \in Nat
  BY CountIsNat, SizesAssumption DEF TypeOK
<1>2. Count("p_count") <= PastTest /\ Count("c_count") <= PastEndTest
  BY CountIsNat DEF PastTest, PastEndTest
<1>3. total_consumed + PastEndTest <= total_inserted
  <2>1. total_consumed + PastEndTest <= WORK_MAX
    BY <1>1, SumsAreNat DEF ConsumedBound
  <2>2. CASE total_inserted < WORK_MAX
    BY <1>1, <2>2, SumsAreNat DEF TokenAccounting
  <2>3. QED
    BY <1>1, <2>1, <2>2, SumsAreNat
<1>4. PastTest + total_inserted - total_consumed + PutOwed <= QUEUESIZE
  BY DEF TokenAccounting
<1>5. QED
  BY <1>1, <1>2, <1>3, <1>4, SumsAreNat DEF Added, Removed

\* The only consumer finds an item when it comes to remove one.
LEMMA RemoveFindsItem ==
  ASSUME Cardinality(Consumers) = 1, TypeOK, MutexOwned, TokenAccounting, ConsumedBound
  PROVE  NoUnderflow
<1> SUFFICES ASSUME NEW c \in Consumers, pc[c] = "c_remove"
             PROVE  Removed < Added
  BY DEF NoUnderflow
<1>1. total_inserted \in Nat /\ total_consumed \in Nat
  BY DEF TypeOK
<1>2. Count("c_count") = 0
  <2>1. mutex = c /\ pc[mutex] # "c_count"
    BY DEF MutexOwned, CriticalLabels, Threads
  <2>2. QED
    BY <2>1, CriticalCount DEF CriticalLabels
<1>3. PastEndTest >= 1
  <2>1. mutex \in Threads /\ pc[mutex] = "c_remove"
    BY DEF MutexOwned, CriticalLabels, Threads
  <2>2. Count("c_remove") = 1
    BY <2>1, CriticalCount DEF CriticalLabels
  <2>3. QED
    BY <2>2, CountIsNat DEF PastEndTest
<1>4. QED
  BY <1>1, <1>2, <1>3, ReadIsWritten, SumsAreNat, CountIsNat DEF Added, Removed

\* A single consumer never removes an item that was not inserted before.
THEOREM OneConsumerNeverUnderflows ==
  ASSUME Cardinality(Consumers) = 1
  PROVE  Spec => []NoUnderflow
<1>1. TypeOK /\ MutexOwned /\ TokenAccounting /\ ConsumedBound => NoUnderflow
  BY RemoveFindsItem
<1>2. QED
  BY <1>1, TypeCorrect, MutualExclusion, TokensAreAccounted, ConsumedIsBounded, PTL

\* The flags change in the same step as the queue, so that they are exact in every
\* state, not only with the mutex free.
FlagsInv ==
    /\ full <=> (Added - Removed = QUEUESIZE)
    /\ empty <=> (Added = Removed)

\* Every step keeps the flags.
LEMMA FlagsStep ==
  ASSUME Cardinality(Consumers) = 1, TypeOK, MutexOwned, TokenAccounting, ConsumedBound,
         NoOverwrite, SlotsHold, FlagsInv, [Next]_vars
  PROVE  FlagsInv'
<1>1. /\ Added \in Nat /\ Removed \in Nat /\ QUEUESIZE \in Nat \ {0}
      /\ Removed <= Added /\ Added - Removed <= QUEUESIZE
      /\ full \in BOOLEAN /\ empty \in BOOLEAN
  BY LagIsNat, ReadIsWritten, SizesAssumption DEF TypeOK
<1>2. /\ head \in Slots /\ tail \in Slots
      /\ head = Removed % QUEUESIZE /\ tail = Added % QUEUESIZE
  BY DEF TypeOK, SlotsHold
<1>3. ASSUME NEW p \in Producers, AddStep(p) PROVE FlagsInv'
  <2>1. Added - Removed < QUEUESIZE
    BY <1>3 DEF AddStep, NoOverwrite
  <2>2. /\ tail' = (Added + 1) % QUEUESIZE
        /\ full' = (full \/ tail' = head) /\ empty' = FALSE
        /\ Added' = Added + 1 /\ Removed' = Removed
    BY <1>1, <1>2, <1>3, WrapIsNext DEF AddStep, queueAdd
  <2>3. ~ full
    BY <1>1, <2>1 DEF FlagsInv
  <2>4. tail' = head <=> Added + 1 - Removed = QUEUESIZE
    <3>1. CASE Added + 1 - Removed = QUEUESIZE
      <4>1. Added + 1 = Removed + QUEUESIZE
        BY <1>1, <3>1
      <4>2. QED
        BY <1>1, <1>2, <2>2, <3>1, <4>1, WrapIsNext
    <3>2. CASE Added + 1 - Removed # QUEUESIZE
      <4>1. /\ Added + 1 \in Nat
            /\ Removed < Added + 1 /\ Added + 1 < Removed + QUEUESIZE
        BY <1>1, <2>1, <3>2
      <4>2. Removed % QUEUESIZE # (Added + 1) % QUEUESIZE
        BY <1>1, <4>1, PositionsDiffer, Zenon
      <4>3. QED
        BY <1>2, <2>2, <3>2, <4>2
    <3>3. QED
      BY <3>1, <3>2
  <2>5. full' <=> Added' - Removed' = QUEUESIZE
    <3>1. full' <=> tail' = head
      BY <2>2, <2>3, Zenon
    <3>2. Added' - Removed' = Added + 1 - Removed
      BY <1>1, <2>2
    <3>3. QED
      BY <2>4, <3>1, <3>2, Zenon
  <2>6. empty' <=> Added' = Removed'
    BY <1>1, <2>2
  <2>7. QED
    BY <2>5, <2>6 DEF FlagsInv
<1>4. ASSUME NEW c \in Consumers, RemoveStep(c) PROVE FlagsInv'
  <2>1. Removed < Added
    BY <1>4, RemoveFindsItem DEF RemoveStep, NoUnderflow
  <2>2. /\ head' = (Removed + 1) % QUEUESIZE
        /\ empty' = (empty \/ head' = tail) /\ full' = FALSE
        /\ Added' = Added /\ Removed' = Removed + 1
    BY <1>1, <1>2, <1>4, WrapIsNext DEF RemoveStep, queueRemove
  <2>3. ~ empty
    BY <1>1, <2>1 DEF FlagsInv
  <2>4. head' = tail <=> Added = Removed + 1
    <3>1. CASE Added = Removed + 1
      BY <1>2, <2>2, <3>1
    <3>2. CASE Added # Removed + 1
      <4>1. /\ Removed + 1 \in Nat
            /\ Removed + 1 < Added /\ Added < Removed + 1 + QUEUESIZE
        BY <1>1, <2>1, <3>2
      <4>2. (Removed + 1) % QUEUESIZE # Added % QUEUESIZE
        BY <1>1, <4>1, PositionsDiffer, Zenon
      <4>3. QED
        BY <1>2, <2>2, <3>2, <4>2
    <3>3. QED
      BY <3>1, <3>2
  <2>5. full' <=> Added' - Removed' = QUEUESIZE
    BY <1>1, <2>1, <2>2
  <2>6. empty' <=> Added' = Removed'
    BY <2>2, <2>3, <2>4
  <2>7. QED
    BY <2>5, <2>6 DEF FlagsInv
<1>5. CASE QuietStep
  BY <1>5 DEF QuietStep, queueVars, FlagsInv
<1>6. QED
  BY <1>3, <1>4, <1>5, QueueSteps

\* With a single consumer the two flags always tell the truth about the queue.
LEMMA FlagsCorrect ==
  ASSUME Cardinality(Consumers) = 1
  PROVE  Spec => []FlagsInv
<1>1. Init => FlagsInv
  <2> SUFFICES ASSUME Init PROVE FlagsInv
    OBVIOUS
  <2>1. Added = 0 /\ Removed = 0
    <3>1. At("p_count") = {} /\ At("c_count") = {}
      BY DEF Init, At
    <3>2. QED
      BY <3>1, FS_EmptySet DEF Init, Added, Removed, Count
  <2>2. QED
    BY <2>1, SizesAssumption DEF Init, FlagsInv
<1>2. /\ TypeOK /\ MutexOwned /\ TokenAccounting /\ ConsumedBound
      /\ NoOverwrite /\ SlotsHold /\ FlagsInv /\ [Next]_vars
      => FlagsInv'
  BY FlagsStep
<1>3. QED
  BY <1>1, <1>2, TypeCorrect, MutualExclusion, TokensAreAccounted, ConsumedIsBounded,
     NoItemOverwritten, SlotsCorrect, PTL DEF Spec

\* With one consumer the flags full and empty say what the queue holds, whenever the
\* mutex is free.
THEOREM FlagsAreExact ==
  ASSUME Cardinality(Consumers) = 1
  PROVE  Spec => []FlagsExact
<1>1. FlagsInv => FlagsExact
  BY DEF FlagsInv, FlagsExact
<1>2. QED
  BY <1>1, FlagsCorrect, PTL


\* A consumer leaves its loop only when the work is done, and main deletes the
\* queue only after every consumer left.
EndInv ==
    /\ \A c \in Consumers : pc[c] \in QuitLabels => total_consumed >= WORK_MAX
    /\ main = "deleted" => \A c \in Consumers : pc[c] = "exited"

\* Every step keeps it.
LEMMA EndStep ==
  ASSUME TypeOK, EndInv, [Next]_vars
  PROVE  EndInv'
<1> USE DEF QuitLabels, Goto, TypeOK, ControlOK, Threads
<1>1. total_consumed \in Nat /\ WORK_MAX \in Nat
  BY SizesAssumption
<1>2. ASSUME NEW p \in Producers, Producer(p) PROVE EndInv'
  <2>1. UNCHANGED <<total_consumed, main>> /\ \A c \in Consumers : pc'[c] = pc[c]
    BY <1>2, ThreadsAssumption
       DEF Producer, ProducerWait, ProducerContinues, ProducerFinishes, ProducerLock,
           ProducerAdd, ProducerCount, ProducerUnlock, ProducerPost,
           ProducerQuitGet, ProducerQuitPut
  <2>2. QED
    BY <2>1 DEF EndInv
<1>3. ASSUME NEW c \in Consumers, Consumer(c) PROVE EndInv'
  <2>1. main' = main /\ main # "deleted" /\ total_consumed' >= total_consumed
    BY <1>1, <1>3
       DEF EndInv, Consumer, ConsumerWait, ConsumerContinues, ConsumerFinishes, ConsumerLock,
           ConsumerRemove, ConsumerCount, ConsumerUnlock, ConsumerPost,
           ConsumerQuitPut, ConsumerQuitGet
  <2>2. ASSUME NEW d \in Consumers, pc'[d] \in QuitLabels PROVE total_consumed' >= WORK_MAX
    BY <1>1, <1>3, <2>2
       DEF EndInv, Consumer, ConsumerWait, ConsumerContinues, ConsumerFinishes, ConsumerLock,
           ConsumerRemove, ConsumerCount, ConsumerUnlock, ConsumerPost,
           ConsumerQuitPut, ConsumerQuitGet
  <2>3. QED
    BY <2>1, <2>2 DEF EndInv
<1>4. CASE Main
  <2>1. ASSUME NEW p \in Producers, CreateProducer(p) PROVE EndInv'
    BY <2>1, ThreadsAssumption DEF CreateProducer, EndInv
  <2>2. ASSUME NEW c \in Consumers, CreateConsumer(c) PROVE EndInv'
    BY <2>2 DEF CreateConsumer, EndInv
  <2>3. CASE JoinProducers \/ JoinConsumers
    BY <2>3 DEF JoinProducers, JoinConsumers, EndInv
  <2>4. QED
    BY <1>4, <2>1, <2>2, <2>3 DEF Main
<1>5. CASE UNCHANGED vars
  BY <1>5 DEF vars, EndInv
<1>6. QED
  BY <1>2, <1>3, <1>4, <1>5 DEF Next, Terminated

\* It holds in every reachable state.
LEMMA EndCorrect == Spec => []EndInv
<1>1. Init => EndInv
  BY DEF Init, EndInv, QuitLabels, Threads
<1>2. TypeOK /\ EndInv /\ [Next]_vars => EndInv'
  BY EndStep
<1>3. QED
  BY <1>1, <1>2, TypeCorrect, PTL DEF Spec

\* When main deletes the queue a single consumer has taken exactly WORK_MAX items,
\* and the producers left less than one item each.
THEOREM OneConsumerDoesAllWork ==
  ASSUME Cardinality(Consumers) = 1
  PROVE  Spec => []AllWorkDone
<1>1. TypeOK /\ ProducedBound /\ ConsumedBound /\ EndInv => AllWorkDone
  <2> SUFFICES ASSUME TypeOK, ProducedBound, ConsumedBound, EndInv, main = "deleted"
               PROVE  /\ total_consumed = WORK_MAX
                      /\ total_inserted - total_consumed < Cardinality(Producers)
    BY DEF AllWorkDone
  <2>1. /\ total_inserted \in Nat /\ total_consumed \in Nat /\ WORK_MAX \in Nat
        /\ Cardinality(Producers) \in Nat
    BY ThreadsAssumption, SizesAssumption, FS_CardinalityType DEF TypeOK
  <2>2. total_consumed >= WORK_MAX
    BY ThreadsAssumption DEF EndInv, QuitLabels
  <2>3. QED
    BY <2>1, <2>2, SumsAreNat DEF ProducedBound, ConsumedBound
<1>2. QED
  BY <1>1, TypeCorrect, Overshoot, EndCorrect, PTL DEF OvershootBounded


-----------------------------------------------------------------------------
(* One consumer: the threads implement a bounded first-in first-out line *)

\* The numbers from a up to, and without, b in order.
Stretch(a, b) == [i \in 1 .. (b - a) |-> a + i - 1]

\* The numbers of the items in the queue are a sequence.
LEMMA StretchIsSeq ==
  ASSUME NEW a \in Nat, NEW b \in Nat, a <= b
  PROVE  /\ Stretch(a, b) \in Seq(Nat) /\ Len(Stretch(a, b)) = b - a
         /\ \A i \in 1 .. (b - a) : Stretch(a, b)[i] = a + i - 1
<1>1. b - a \in Nat /\ \A i \in 1 .. (b - a) : a + i - 1 \in Nat
  OBVIOUS
<1>2. QED
  BY <1>1, IsASeq DEF Stretch

\* The line grows at the back and shrinks at the front.
LEMMA StretchGrows ==
  ASSUME NEW a \in Nat, NEW b \in Nat, a <= b
  PROVE  Stretch(a, b + 1) = Append(Stretch(a, b), b)
<1> DEFINE s == Stretch(a, b)
           t == Stretch(a, b + 1)
<1>1. s \in Seq(Nat) /\ Len(s) = b - a /\ \A i \in 1 .. (b - a) : s[i] = a + i - 1
  BY StretchIsSeq
<1>2. t \in Seq(Nat) /\ Len(t) = b + 1 - a /\ \A i \in 1 .. (b + 1 - a) : t[i] = a + i - 1
  BY StretchIsSeq
<1> HIDE DEF s, t
<1>3. /\ Append(s, b) \in Seq(Nat) /\ Len(Append(s, b)) = Len(s) + 1
      /\ \A i \in 1 .. Len(s) : Append(s, b)[i] = s[i]
      /\ Append(s, b)[Len(s) + 1] = b
  BY <1>1, AppendProperties
<1>4. Len(Append(s, b)) = Len(t)
  BY <1>1, <1>2, <1>3
<1>5. \A i \in 1 .. Len(Append(s, b)) : Append(s, b)[i] = t[i]
  <2>1. ASSUME NEW i \in 1 .. Len(s) + 1 PROVE Append(s, b)[i] = t[i]
    <3>1. CASE i = Len(s) + 1
      BY <1>1, <1>2, <1>3, <3>1
    <3>2. CASE i # Len(s) + 1
      BY <1>1, <1>2, <1>3, <3>2
    <3>3. QED
      BY <3>1, <3>2
  <2>2. QED
    BY <1>3, <2>1
<1>6. Append(s, b) = t
  BY <1>2, <1>3, <1>4, <1>5, SeqEqual
<1>7. QED
  BY <1>6 DEF s, t

\* The oldest of them is its head.
LEMMA StretchShrinks ==
  ASSUME NEW a \in Nat, NEW b \in Nat, a < b
  PROVE  /\ Stretch(a, b) # <<>> /\ Head(Stretch(a, b)) = a
         /\ Stretch(a + 1, b) = Tail(Stretch(a, b))
<1> DEFINE s == Stretch(a, b)
           t == Stretch(a + 1, b)
<1>1. s \in Seq(Nat) /\ Len(s) = b - a /\ \A i \in 1 .. (b - a) : s[i] = a + i - 1
  BY StretchIsSeq
<1>2. t \in Seq(Nat) /\ Len(t) = b - a - 1 /\ \A i \in 1 .. (b - a - 1) : t[i] = a + i
  BY StretchIsSeq
<1> HIDE DEF s, t
<1>3. s # <<>>
  BY <1>1
<1>4. /\ Head(s) = s[1] /\ Tail(s) \in Seq(Nat) /\ Len(Tail(s)) = Len(s) - 1
      /\ \A i \in 1 .. Len(s) - 1 : Tail(s)[i] = s[i + 1]
  BY <1>1, <1>3, HeadTailProperties
<1>5. \A i \in 1 .. (b - a - 1) : Tail(s)[i] = t[i]
  BY <1>1, <1>2, <1>4
<1>6. Tail(s) = t
  BY <1>1, <1>2, <1>4, <1>5, SeqEqual
<1>7. Head(s) = a
  BY <1>1, <1>4
<1>8. QED
  BY <1>3, <1>6, <1>7 DEF s, t

\* What the users of the queue see in it are the numbers of the unread items.
LEMMA LineIsStretch ==
  ASSUME TypeOK, SlotsHold, Removed <= Added
  PROVE  Line = Stretch(Removed, Added)
<1>1. Added \in Nat /\ Removed \in Nat /\ QUEUESIZE \in Nat \ {0}
  BY LagIsNat, SizesAssumption
<1>2. ASSUME NEW i \in 1 .. (Added - Removed)
      PROVE  buf[(head + i - 1) % QUEUESIZE] = Removed + i - 1
  <2>1. i - 1 \in Nat /\ Removed + (i - 1) \in Removed .. Added - 1
    BY <1>1
  <2>2. ((Removed % QUEUESIZE) + (i - 1)) % QUEUESIZE = (Removed + (i - 1)) % QUEUESIZE
    BY <1>1, <2>1, ReduceFirst
  <2>3. head + i - 1 = (Removed % QUEUESIZE) + (i - 1)
    <3>1. head = Removed % QUEUESIZE /\ head \in Int
      BY SizesAssumption DEF SlotsHold, TypeOK, Slots
    <3>2. QED
      BY <3>1
  <2>4. buf[(Removed + (i - 1)) % QUEUESIZE] = Removed + (i - 1)
    BY <2>1 DEF SlotsHold
  <2>5. Removed + (i - 1) = Removed + i - 1
    BY <1>1
  <2>6. QED
    BY <2>2, <2>3, <2>4, <2>5
<1>3. QED
  BY <1>2 DEF Line, Stretch


\* Every step of the program is one of the queue's or a stutter.
LEMMA FifoSteps ==
  ASSUME NEW c0, Consumers = {c0}, TypeOK, MutexOwned, NoOverwrite, NoUnderflow,
         SlotsHold, Removed <= Added, [Next]_vars,
         Line = Stretch(Removed, Added), (Line = Stretch(Removed, Added))'
  PROVE  [Fifo!Next]_Fifo!vars
<1> DEFINE taker == CHOOSE c \in Consumers : TRUE
<1>1. taker = c0 /\ c0 \in Threads
  BY DEF Threads
<1> HIDE DEF taker
<1>2. /\ Line = Stretch(Removed, Added)
      /\ Line' = Stretch(Removed', Added')
  BY DEF Stretch
<1>3. /\ Added \in Nat /\ Removed \in Nat /\ QUEUESIZE \in Nat \ {0}
      /\ item \in [Threads -> Nat \cup {NoItem}]
  BY LagIsNat, SizesAssumption DEF TypeOK
<1>4. Len(Line) = Added - Removed
  BY <1>2, <1>3, StretchIsSeq
<1>5. ASSUME NEW p \in Producers, AddStep(p) PROVE Fifo!Put
  <2>1. Added - Removed < QUEUESIZE
    BY <1>5 DEF AddStep, NoOverwrite
  <2>2. Added' = Added + 1 /\ Removed' = Removed /\ item'[c0] = item[c0]
    BY <1>1, <1>3, <1>5, ThreadsAssumption DEF AddStep
  <2>3. Line' = Append(Line, Added)
    BY <1>2, <1>3, <2>2, StretchGrows
  <2>4. QED
    BY <1>1, <1>4, <2>1, <2>2, <2>3 DEF Fifo!Put, taker
<1>6. ASSUME NEW c \in Consumers, RemoveStep(c) PROVE Fifo!Take
  <2>1. c = c0 /\ Removed < Added
    BY <1>6 DEF RemoveStep, NoUnderflow
  <2>2. Added' = Added /\ Removed' = Removed + 1 /\ item'[c0] = buf[head]
    BY <1>1, <1>3, <1>6, <2>1 DEF RemoveStep, queueRemove
  <2>3. buf[head] = Removed
    BY <1>3, <2>1 DEF SlotsHold
  <2>4. Line # <<>> /\ Head(Line) = Removed /\ Line' = Tail(Line)
    BY <1>2, <1>3, <2>1, <2>2, StretchShrinks
  <2>5. QED
    BY <1>1, <2>2, <2>3, <2>4 DEF Fifo!Take, taker
<1>7. CASE QuietStep
  <2>1. Line' = Line
    BY <1>7 DEF QuietStep, queueVars, Line
  <2>2. QED
    BY <1>7, <2>1 DEF QuietStep, Fifo!vars
<1>8. QED
  BY <1>5, <1>6, <1>7, QueueSteps DEF Fifo!Next

\* With a single consumer every step of the threads is a put, a take or no step of
\* the bounded first-in first-out line, and what the consumer gets is what is taken.
THEOREM OneConsumerImplementsFifo ==
  ASSUME Cardinality(Consumers) = 1
  PROVE  Spec => ImplementsFifo
<1>1. PICK c0 : Consumers = {c0}
  BY ThreadsAssumption, FS_Singleton
<1>2. Init => Fifo!Init
  <2> SUFFICES ASSUME Init PROVE Fifo!Init
    OBVIOUS
  <2>1. Added = 0 /\ Removed = 0
    <3>1. At("p_count") = {} /\ At("c_count") = {}
      BY DEF Init, At
    <3>2. QED
      BY <3>1, FS_EmptySet DEF Init, Added, Removed, Count
  <2>2. Line = <<>>
    BY <2>1 DEF Line
  <2>3. item[CHOOSE c \in Consumers : TRUE] = NoItem
    BY <1>1 DEF Init, Threads
  <2>4. QED
    BY <2>1, <2>2, <2>3 DEF Fifo!Init
<1>3. DEFINE Inv == /\ TypeOK /\ MutexOwned /\ NoOverwrite /\ NoUnderflow
                    /\ SlotsHold /\ Removed <= Added
                    /\ Line = Stretch(Removed, Added)
<1>4. Spec => []Inv
  <2>1. TypeOK /\ TokenAccounting /\ ConsumedBound => Removed <= Added
    BY ReadIsWritten
  <2>2. TypeOK /\ SlotsHold /\ Removed <= Added => Line = Stretch(Removed, Added)
    BY LineIsStretch
  <2>3. QED
    BY <2>1, <2>2, TypeCorrect, MutualExclusion, NoItemOverwritten, OneConsumerNeverUnderflows,
       SlotsCorrect, TokensAreAccounted, ConsumedIsBounded, PTL
<1>5. Inv /\ Inv' /\ [Next]_vars => [Fifo!Next]_Fifo!vars
  BY <1>1, FifoSteps
<1>6. QED
  BY <1>2, <1>4, <1>5, PTL DEF Spec, ImplementsFifo, Fifo!Spec


=============================================================================
