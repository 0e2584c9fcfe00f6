-------------------------- MODULE ProducerConsumer --------------------------
(***************************************************************************)
(* Lab07, producer_consumer.c: producers and consumers share a circular    *)
(* buffer guarded by one mutex and two counting semaphores, slotsToPut     *)
(* (free slots) and slotsToGet (filled slots).  A thread leaves its loop   *)
(* when it reads, WITHOUT the mutex, that the total of its kind reached    *)
(* WORK_MAX, and posts both semaphores once more to release the others.    *)
(*                                                                         *)
(* One action is one statement of the code that another thread can         *)
(* observe; do_work() and the printing change no shared state and are part *)
(* of the step that follows them.                                          *)
(***************************************************************************)
EXTENDS Integers, FiniteSets

CONSTANTS Producers,   \* the producer threads, argv[1] of them
          Consumers,   \* the consumer threads, argv[2] of them
          QUEUESIZE,   \* slots of the circular buffer
          WORK_MAX     \* the configured maximum of items

Threads == Producers \cup Consumers
Slots == 0 .. QUEUESIZE - 1

Free == "free"         \* the mutex has no owner

ASSUME ThreadsAssumption ==
    /\ IsFiniteSet(Producers) /\ Producers # {}
    /\ IsFiniteSet(Consumers) /\ Consumers # {}
    /\ Producers \cap Consumers = {}
    /\ Free \notin Threads

ASSUME SizesAssumption ==
    /\ QUEUESIZE \in Nat \ {0}
    /\ WORK_MAX \in Nat \ {0}

(***************************************************************************)
(* malloc leaves the buffer uninitialised: NoItem stands for whatever the  *)
(* memory held, a value that is not the number of any item.                *)
(***************************************************************************)
NoItem == -1
VARIABLES
    buf, head, tail,             \* queue.buf, queue.head, queue.tail
    full, empty,                 \* queue.full, queue.empty
    mutex,                       \* the owner of queue.mutex, or Free
    slotsToPut, slotsToGet,      \* the values of the two semaphores
    total_inserted,              \* *procount, shared by the producers
    total_consumed,              \* *concount, shared by the consumers
    item,                        \* each thread's local variable item
    pc,                          \* where each thread stands
    main                         \* where the main thread stands

queueVars == <<buf, head, tail, full, empty>>
semVars == <<slotsToPut, slotsToGet>>
vars == <<queueVars, mutex, semVars, total_inserted, total_consumed, item, pc, main>>

ProducerLabels == {"p_wait", "p_check", "p_lock", "p_add", "p_count",
                   "p_unlock", "p_post", "p_quit_get", "p_quit_put"}
ConsumerLabels == {"c_wait", "c_check", "c_lock", "c_remove", "c_count",
                   "c_unlock", "c_post", "c_quit_put", "c_quit_get"}
IdleLabels == {"new", "exited"}

-----------------------------------------------------------------------------

Init ==                                       \* queueInit and the counters
    /\ buf = [s \in Slots |-> NoItem]
    /\ head = 0 /\ tail = 0
    /\ full = FALSE /\ empty = TRUE
    /\ mutex = Free
    /\ slotsToPut = QUEUESIZE /\ slotsToGet = 0
    /\ total_inserted = 0 /\ total_consumed = 0
    /\ item = [t \in Threads |-> NoItem]
    /\ pc = [t \in Threads |-> "new"]
    /\ main = "create_producers"

Goto(t, from, to) == pc[t] = from /\ pc' = [pc EXCEPT ![t] = to]

\* Mutant of Wrap: the test is one too late.
WrapLate(i) == IF i > QUEUESIZE THEN 0 ELSE i

Wrap(i) == IF i = QUEUESIZE THEN 0 ELSE i

queueAdd(in) ==
    /\ buf' = [buf EXCEPT ![tail] = in]
    /\ tail' = Wrap(tail + 1)
    /\ full' = (full \/ tail' = head)
    /\ empty' = FALSE
    /\ UNCHANGED head

\* Mutants of queueRemove: the flag full is not reset; the slot is read after the
\* head has moved.
RemoveKeepsFull(t) ==
    /\ item' = [item EXCEPT ![t] = buf[head]]
    /\ head' = Wrap(head + 1)
    /\ empty' = (empty \/ head' = tail)
    /\ UNCHANGED <<buf, tail, full>>

RemoveReadsNext(t) ==
    /\ head' = Wrap(head + 1)
    /\ item' = [item EXCEPT ![t] = buf[head']]
    /\ empty' = (empty \/ head' = tail)
    /\ full' = FALSE
    /\ UNCHANGED <<buf, tail>>

queueRemove(t) ==
    /\ item' = [item EXCEPT ![t] = buf[head]]
    /\ head' = Wrap(head + 1)
    /\ empty' = (empty \/ head' = tail)
    /\ full' = FALSE
    /\ UNCHANGED <<buf, tail>>

-----------------------------------------------------------------------------
(* producer() *)

\* Mutant of ProducerWait: the token is not taken.
ProducerWaitFree(p) ==
    /\ Goto(p, "p_wait", "p_check")
    /\ UNCHANGED <<queueVars, mutex, semVars, total_inserted, total_consumed, item, main>>

ProducerWait(p) ==                            \* sem_wait(slotsToPut)
    /\ Goto(p, "p_wait", "p_check")
    /\ slotsToPut > 0
    /\ slotsToPut' = slotsToPut - 1
    /\ UNCHANGED <<queueVars, mutex, slotsToGet, total_inserted, total_consumed, item, main>>

\* Mutant of ProducerContinues: the test lets the maximum itself through.
ProducerContinuesAtMax(p) ==
    /\ Goto(p, "p_check", "p_lock")
    /\ total_inserted <= WORK_MAX
    /\ UNCHANGED <<queueVars, mutex, semVars, total_inserted, total_consumed, item, main>>

\* The total is read outside the critical section.
ProducerContinues(p) ==
    /\ Goto(p, "p_check", "p_lock")
    /\ total_inserted < WORK_MAX
    /\ UNCHANGED <<queueVars, mutex, semVars, total_inserted, total_consumed, item, main>>

\* Mutant of ProducerFinishes: one item too early.
ProducerFinishesEarly(p) ==
    /\ Goto(p, "p_check", "p_quit_get")
    /\ total_inserted >= WORK_MAX - 1
    /\ UNCHANGED <<queueVars, mutex, semVars, total_inserted, total_consumed, item, main>>

ProducerFinishes(p) ==
    /\ Goto(p, "p_check", "p_quit_get")
    /\ total_inserted >= WORK_MAX
    /\ UNCHANGED <<queueVars, mutex, semVars, total_inserted, total_consumed, item, main>>

\* Mutant of ProducerLock: the mutex is taken whoever holds it.
ProducerLockAlways(p) ==
    /\ Goto(p, "p_lock", "p_add")
    /\ mutex' = p
    /\ UNCHANGED <<queueVars, semVars, total_inserted, total_consumed, item, main>>

ProducerLock(p) ==
    /\ Goto(p, "p_lock", "p_add")
    /\ mutex = Free
    /\ mutex' = p
    /\ UNCHANGED <<queueVars, semVars, total_inserted, total_consumed, item, main>>

ProducerAdd(p) ==
    /\ Goto(p, "p_add", "p_count")
    /\ item' = [item EXCEPT ![p] = total_inserted]
    /\ queueAdd(total_inserted)
    /\ UNCHANGED <<mutex, semVars, total_inserted, total_consumed, main>>

ProducerCount(p) ==
    /\ Goto(p, "p_count", "p_unlock")
    /\ total_inserted' = total_inserted + 1
    /\ UNCHANGED <<queueVars, mutex, semVars, total_consumed, item, main>>

ProducerUnlock(p) ==
    /\ Goto(p, "p_unlock", "p_post")
    /\ mutex' = Free
    /\ UNCHANGED <<queueVars, semVars, total_inserted, total_consumed, item, main>>

\* Mutant of ProducerPost: the wrong semaphore.
ProducerPostPut(p) ==
    /\ Goto(p, "p_post", "p_wait")
    /\ slotsToPut' = slotsToPut + 1
    /\ UNCHANGED <<queueVars, mutex, slotsToGet, total_inserted, total_consumed, item, main>>

ProducerPost(p) ==                            \* sem_post(slotsToGet), loop
    /\ Goto(p, "p_post", "p_wait")
    /\ slotsToGet' = slotsToGet + 1
    /\ UNCHANGED <<queueVars, mutex, slotsToPut, total_inserted, total_consumed, item, main>>

\* Mutant of ProducerQuitGet: the extra token is forgotten.
ProducerQuitNoPost(p) ==
    /\ Goto(p, "p_quit_get", "p_quit_put")
    /\ UNCHANGED <<queueVars, mutex, semVars, total_inserted, total_consumed, item, main>>

ProducerQuitGet(p) ==
    /\ Goto(p, "p_quit_get", "p_quit_put")
    /\ slotsToGet' = slotsToGet + 1
    /\ UNCHANGED <<queueVars, mutex, slotsToPut, total_inserted, total_consumed, item, main>>

ProducerQuitPut(p) ==
    /\ Goto(p, "p_quit_put", "exited")
    /\ slotsToPut' = slotsToPut + 1
    /\ UNCHANGED <<queueVars, mutex, slotsToGet, total_inserted, total_consumed, item, main>>

-----------------------------------------------------------------------------
(* consumer() *)

ConsumerWait(c) ==                            \* sem_wait(slotsToGet)
    /\ Goto(c, "c_wait", "c_check")
    /\ slotsToGet > 0
    /\ slotsToGet' = slotsToGet - 1
    /\ UNCHANGED <<queueVars, mutex, slotsToPut, total_inserted, total_consumed, item, main>>

\* Mutant of ConsumerContinues: the test lets the maximum itself through.
ConsumerContinuesAtMax(c) ==
    /\ Goto(c, "c_check", "c_lock")
    /\ total_consumed <= WORK_MAX
    /\ UNCHANGED <<queueVars, mutex, semVars, total_inserted, total_consumed, item, main>>

\* Mutant of ConsumerFinishes: one item too early.
ConsumerFinishesEarly(c) ==
    /\ Goto(c, "c_check", "c_quit_put")
    /\ total_consumed >= WORK_MAX - 1
    /\ UNCHANGED <<queueVars, mutex, semVars, total_inserted, total_consumed, item, main>>

\* The total is read outside the critical section.
ConsumerContinues(c) ==
    /\ Goto(c, "c_check", "c_lock")
    /\ total_consumed < WORK_MAX
    /\ UNCHANGED <<queueVars, mutex, semVars, total_inserted, total_consumed, item, main>>

ConsumerFinishes(c) ==
    /\ Goto(c, "c_check", "c_quit_put")
    /\ total_consumed >= WORK_MAX
    /\ UNCHANGED <<queueVars, mutex, semVars, total_inserted, total_consumed, item, main>>

ConsumerLock(c) ==
    /\ Goto(c, "c_lock", "c_remove")
    /\ mutex = Free
    /\ mutex' = c
    /\ UNCHANGED <<queueVars, semVars, total_inserted, total_consumed, item, main>>

ConsumerRemove(c) ==
    /\ Goto(c, "c_remove", "c_count")
    /\ queueRemove(c)
    /\ UNCHANGED <<mutex, semVars, total_inserted, total_consumed, main>>

ConsumerCount(c) ==
    /\ Goto(c, "c_count", "c_unlock")
    /\ total_consumed' = total_consumed + 1
    /\ UNCHANGED <<queueVars, mutex, semVars, total_inserted, item, main>>

ConsumerUnlock(c) ==
    /\ Goto(c, "c_unlock", "c_post")
    /\ mutex' = Free
    /\ UNCHANGED <<queueVars, semVars, total_inserted, total_consumed, item, main>>

\* Mutant of ConsumerPost: the wrong semaphore.
ConsumerPostGet(c) ==
    /\ Goto(c, "c_post", "c_wait")
    /\ slotsToGet' = slotsToGet + 1
    /\ UNCHANGED <<queueVars, mutex, slotsToPut, total_inserted, total_consumed, item, main>>

ConsumerPost(c) ==                            \* sem_post(slotsToPut), loop
    /\ Goto(c, "c_post", "c_wait")
    /\ slotsToPut' = slotsToPut + 1
    /\ UNCHANGED <<queueVars, mutex, slotsToGet, total_inserted, total_consumed, item, main>>

ConsumerQuitPut(c) ==
    /\ Goto(c, "c_quit_put", "c_quit_get")
    /\ slotsToPut' = slotsToPut + 1
    /\ UNCHANGED <<queueVars, mutex, slotsToGet, total_inserted, total_consumed, item, main>>

ConsumerQuitGet(c) ==
    /\ Goto(c, "c_quit_get", "exited")
    /\ slotsToGet' = slotsToGet + 1
    /\ UNCHANGED <<queueVars, mutex, slotsToPut, total_inserted, total_consumed, item, main>>

-----------------------------------------------------------------------------
(* main(): pthread_create of every producer, then of every consumer, then  *)
(* pthread_join in the same order, then queueDelete.                       *)

CreateProducer(p) ==
    /\ main = "create_producers"
    /\ Goto(p, "new", "p_wait")
    /\ main' = IF \A q \in Producers \ {p} : pc[q] # "new"
               THEN "create_consumers" ELSE main
    /\ UNCHANGED <<queueVars, mutex, semVars, total_inserted, total_consumed, item>>

CreateConsumer(c) ==
    /\ main = "create_consumers"
    /\ Goto(c, "new", "c_wait")
    /\ main' = IF \A d \in Consumers \ {c} : pc[d] # "new"
               THEN "join_producers" ELSE main
    /\ UNCHANGED <<queueVars, mutex, semVars, total_inserted, total_consumed, item>>

JoinProducers ==
    /\ main = "join_producers"
    /\ \A p \in Producers : pc[p] = "exited"
    /\ main' = "join_consumers"
    /\ UNCHANGED <<queueVars, mutex, semVars, total_inserted, total_consumed, item, pc>>

JoinConsumers ==                              \* and queueDelete
    /\ main = "join_consumers"
    /\ \A c \in Consumers : pc[c] = "exited"
    /\ main' = "deleted"
    /\ UNCHANGED <<queueVars, mutex, semVars, total_inserted, total_consumed, item, pc>>

-----------------------------------------------------------------------------

Producer(p) ==
    \/ ProducerWait(p) \/ ProducerContinues(p) \/ ProducerFinishes(p)
    \/ ProducerLock(p) \/ ProducerAdd(p) \/ ProducerCount(p)
    \/ ProducerUnlock(p) \/ ProducerPost(p)
    \/ ProducerQuitGet(p) \/ ProducerQuitPut(p)

Consumer(c) ==
    \/ ConsumerWait(c) \/ ConsumerContinues(c) \/ ConsumerFinishes(c)
    \/ ConsumerLock(c) \/ ConsumerRemove(c) \/ ConsumerCount(c)
    \/ ConsumerUnlock(c) \/ ConsumerPost(c)
    \/ ConsumerQuitPut(c) \/ ConsumerQuitGet(c)

Main ==
    \/ \E p \in Producers : CreateProducer(p)
    \/ \E c \in Consumers : CreateConsumer(c)
    \/ JoinProducers
    \/ JoinConsumers

Terminated ==                                 \* main has returned
    /\ main = "deleted"
    /\ UNCHANGED vars

Next ==
    \/ \E p \in Producers : Producer(p)
    \/ \E c \in Consumers : Consumer(c)
    \/ Main
    \/ Terminated

(***************************************************************************)
(* The kernel schedules every runnable thread, and a thread that can lock  *)
(* the mutex or take a semaphore it waits for without end gets it: weak    *)
(* fairness of each thread, which does not ask that a thread overtaken by  *)
(* others ever wins the race.                                              *)
(***************************************************************************)
Fairness ==
    /\ \A p \in Producers : WF_vars(Producer(p))
    /\ \A c \in Consumers : WF_vars(Consumer(c))
    /\ WF_vars(Main)

Spec == Init /\ [][Next]_vars /\ Fairness

-----------------------------------------------------------------------------
(* Vocabulary of the properties *)

\* The threads at a label, and how many they are.
At(label) == {t \in Threads : pc[t] = label}
Count(label) == Cardinality(At(label))

\* Items written to the buffer; the counter lags behind inside the critical section.
Added == total_inserted + Count("p_count")

\* Items read from the buffer; the counter lags behind inside the critical section.
Removed == total_consumed + Count("c_count")

\* Producers past their test whose item is not yet counted, and producers holding a
\* token of slotsToPut for an item that is not yet counted.
PastTest == Count("p_lock") + Count("p_add") + Count("p_count")
PutHeld == Count("p_check") + PastTest

\* Counted items that are not yet announced by a token of slotsToGet.
GetOwed == Count("p_unlock") + Count("p_post")

\* The same for the consumers.
PastEndTest == Count("c_lock") + Count("c_remove") + Count("c_count")
GetHeld == Count("c_check") + PastEndTest
PutOwed == Count("c_unlock") + Count("c_post")

CriticalLabels == {"p_add", "p_count", "p_unlock", "c_remove", "c_count", "c_unlock"}
QuitLabels == {"p_quit_get", "p_quit_put", "c_quit_put", "c_quit_get", "exited"}

\* Producers run producer() and consumers run consumer().
ControlOK ==
    /\ pc \in [Threads -> ProducerLabels \cup ConsumerLabels \cup IdleLabels]
    /\ \A p \in Producers : pc[p] \in ProducerLabels \cup IdleLabels
    /\ \A c \in Consumers : pc[c] \in ConsumerLabels \cup IdleLabels

\* Every variable holds a value of its kind; the semaphores never go negative.
TypeOK ==
    /\ buf \in [Slots -> Nat \cup {NoItem}]
    /\ head \in Slots /\ tail \in Slots
    /\ full \in BOOLEAN /\ empty \in BOOLEAN
    /\ mutex \in Threads \cup {Free}
    /\ slotsToPut \in Nat /\ slotsToGet \in Nat
    /\ total_inserted \in Nat /\ total_consumed \in Nat
    /\ item \in [Threads -> Nat \cup {NoItem}]
    /\ ControlOK
    /\ main \in {"create_producers", "create_consumers",
                 "join_producers", "join_consumers", "deleted"}

\* The unlocked test of WORK_MAX (line 307) lets at most one item per producer
\* but one through after the maximum: the overshoot never exceeds
\* Cardinality(Producers) - 1, counting the producers already past the test.
ProducedBound ==
    total_inserted + PastTest <= WORK_MAX - 1 + Cardinality(Producers)

\* The same bound for the unlocked test of the consumers (line 376).
ConsumedBound ==
    total_consumed + PastEndTest <= WORK_MAX - 1 + Cardinality(Consumers)

\* Neither counter overshoots by more than its threads.
OvershootBounded == ProducedBound /\ ConsumedBound

\* A thread inside the critical section owns the mutex, and only such a thread does.
MutexOwned == \A t \in Threads : pc[t] \in CriticalLabels <=> mutex = t

\* Until the maximum is reached no token is created or lost: every slot of the
\* buffer is a token of slotsToPut, in the hands of a producer, an unread item or
\* in the hands of a consumer, and every item announced or held is accounted for.
\* Afterwards the producers past their test still never outnumber the free slots.
TokenAccounting ==
    /\ total_inserted < WORK_MAX =>
         /\ slotsToPut + PutHeld + total_inserted - total_consumed + PutOwed = QUEUESIZE
         /\ slotsToGet + GetHeld + total_consumed + GetOwed = total_inserted
    /\ PastTest + total_inserted - total_consumed + PutOwed <= QUEUESIZE

\* No thread leaves its loop before WORK_MAX items were inserted: the extra
\* tokens posted by a thread that leaves (lines 308-309, 377-378) never reach
\* a producer that would still insert.
NobodyQuitsEarly ==
    \A t \in Threads : pc[t] \in QuitLabels => total_inserted >= WORK_MAX

\* queueAdd never overwrites an unread item: a producer about to write finds
\* a slot that holds none, however many threads there are.
NoOverwrite ==
    \A p \in Producers : pc[p] = "p_add" => Added - Removed < QUEUESIZE

\* Until WORK_MAX items are counted the circular buffer holds exactly the items that
\* were put and not taken, in order, from head to tail: in no interleaving of any
\* number of threads is one lost, repeated or moved.  Afterwards a token of a producer
\* that left may make a second consumer take a slot again, see NoUnderflow.
BufferHoldsUnread ==
    total_inserted < WORK_MAX =>
        /\ Removed <= Added /\ Added - Removed <= QUEUESIZE
        /\ head = Removed % QUEUESIZE
        /\ tail = Added % QUEUESIZE
        /\ \A k \in Removed .. Added - 1 : buf[k % QUEUESIZE] = k

\* Comment of lines 363-366: a consumer waits while the queue is empty, so what
\* it removes was inserted before.
NoUnderflow ==
    \A c \in Consumers : pc[c] = "c_remove" => Removed < Added

\* With the mutex free the two flags of the queue tell the truth about it.
FlagsExact ==
    mutex = Free =>
        /\ full <=> (Added - Removed = QUEUESIZE)
        /\ empty <=> (Added = Removed)

\* Every thread leaves its loop and main deletes the queue: the extra tokens
\* are enough to release every thread that still waits on a semaphore.
Termination == <>(main = "deleted")

\* When main deletes the queue WORK_MAX items were taken, each once; what is
\* left unread is the overshoot of the producers.
AllWorkDone ==
    main = "deleted" =>
        /\ total_consumed = WORK_MAX
        /\ total_inserted - total_consumed < Cardinality(Producers)

-----------------------------------------------------------------------------
(* The queue as its users see it *)

Line == [i \in 1 .. (Added - Removed) |-> buf[(head + i - 1) % QUEUESIZE]]

Fifo == INSTANCE BoundedFifo WITH
            Capacity <- QUEUESIZE, Nothing <- NoItem,
            line <- Line, put <- Added, taken <- Removed,
            last <- item[CHOOSE c \in Consumers : TRUE]

\* With a single consumer the threads' steps on the buffer are the puts and takes
\* of a bounded first-in first-out line, and the consumer gets what is taken.
ImplementsFifo == Fifo!Spec

\* The line is served as long as there is work: every one of the WORK_MAX items
\* is inserted and taken.
WorkIsServed == \A k \in 0 .. WORK_MAX - 1 : <>(Removed > k)

=============================================================================
