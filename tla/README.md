# TLA+ specifications of EECS_678

The repository holds the programs of an operating-systems course: laboratories
on processes, pipes, signals, threads and data structures, and three shells.
There is no single program; each directory is one, and what makes them worth
specifying is the same throughout: threads that share a buffer or a table,
processes that share pipes, a signal handler that shares a list with the code it
interrupts, and containers whose pointers must survive any order of calls.

Check everything from this directory with `tlc -config X.cfg M` for the runs
listed below and `tlapm M.tla` for the eight modules whose names end in `Proofs`.

## Inventory

| Part | State | Operations | How it interacts, and what is hard |
|---|---|---|---|
| Lab07 `producer_consumer.c` | ring buffer (`buf`, `head`, `tail`, `full`, `empty`), mutex, two semaphores, two totals | `queueAdd`, `queueRemove`, `producer`, `consumer`, `main` | threads test the totals without the mutex; a thread that leaves posts both semaphores to release the others; `main` joins them all |
| Lab06 `dp_waiter.c`, `dp_waiter_opt.c` | chopstick flags, a waiter mutex, a condition variable per philosopher, progress counters, `Stop` | `dp_thread`, `set_table`, `main`'s accounting | decision and waiting on the neighbours' flags, lost and spurious wakeups, shutdown while somebody waits |
| Lab06 `dp_asymmetric.c` | a mutex per chopstick, progress counters, `Stop` | the same | locking order by parity; `main` unlocks mutexes it does not own |
| Lab08 `libpriqueue.c` | doubly linked list `top`, `tail`, `size`, nodes' `next`, `prev` | init, offer, peek, poll, at, remove, remove_at, size, destroy | links in two directions that several calls must keep in step |
| quash `deque.h` | buffer, `cap`, `front`, `back` | new, destroy, push, pop, peek, update at both ends, apply, empty, length, as_array | wrap-around, growing, a structure that is used again after destruction; used by the memory pool and the parser |
| quash `memory_pool.c` | a deque of pools, the size of the next one | initialize, allocate, strdup, destroy | sizes that double, `malloc` that may fail, exit handlers |
| quash parser interface, `parse.y`, `parse.l` | the structures of one command line | reductions, `mk_*` builders, `parse` | flags of neighbouring stages depend on each other; clients of the deque and the pool |
| quash `quash.c`, `command.c`, `execute.c` | `running`, environment | main loop, `run_script` | pool made before a line, kept over blank and wrong lines, destroyed after the script; `execute.c` is the assignment's unimplemented template |
| `QuashProj` | `jobList`, `jobListMutex`, the children | `executeFunc`, `execStatement`, `interpret`, `updateJobList`, `catch_dead_child`, `waiter` | a SIGCHLD handler in a second thread reaps children and edits the list while the command loop forks, lists, waits and kills |
| `Quash_Project` `quash_final.cpp` | a job list in every copy of the shell, children | foreground, background, kill, exit | `wait` takes any child; a background child stops itself and is a second shell when continued |
| Lab02 `signals.c` | Ctrl-C counter, an alarm | three handlers | an alarm that races the answer |
| Lab03 `finder.c` | four processes, three pipes | find, grep, sort, head, and the waiting parent | descriptors left open decide who sees the end of a file |
| Lab04 `pipe-sync.c`, FIFOs | three pipes; a FIFO | two processes printing in turn | who may read which byte |
| Lab05 `ptcount_*.c` | one counter | increments by three threads | lost updates |
| Lab01 `bugs.c`, Lab09 | none worth a property, an archive | | |
| `bash-4.2`, `parse.tab.c`, `lex.yy.c` | | | vendored and generated code, left aside |

What makes each correct:

* **Producer/consumer**: no unread item is overwritten, no item is taken that was
  not put, items are taken in the order they were put, tokens of the semaphores
  are conserved, the overshoot of the unlocked tests is bounded, the flags tell
  the truth, everybody leaves, all the work is done.
* **Philosophers**: neighbours exclude each other, no chopstick and no wakeup is
  lost, no circular wait, the program ends.
* **Priority queue, deque**: every call does what it does on a sequence.
* **Job control**: no running job disappears from the list, numbers identify jobs,
  an update misses no dead child, the prompt comes back, dead jobs leave the list.
* **Memory pool, main loop, parser**: pieces do not overlap and lie in memory that is
  still allocated, everything is freed once, a script says what the line said.
* **Pipelines**: the end of a file comes after all of it, nobody waits for an end that
  cannot come, two processes print in the order they agreed on.
* **`quash_final.cpp`**: every foreground command is waited for once, the prompt comes back.
* **Alarm**: there is one while a question is open and never otherwise.

`PROJECT.json` lists every hazard with its line and the properties about it.

## Modules

```
BoundedFifo <----refines---- ProducerConsumer <- MCProducerConsumer
                                   ^------------- ProducerConsumerProofs
DiningTable <- DiningWaiter     <- DiningWaiterProofs
            <- DiningAsymmetric <- DiningAsymmetricProofs
PriorityList <---refines---- PriQueue <- MCPriQueue <-+- MCContainers
                                   ^---- PriQueueProofs |
DoubleEndedQueue <-refines-- Deque <-------------------+
                                   ^---- DequeProofs
JobControl <- JobControlProofs

MemoryPool <- Quash <-+              Quash <- QuashProofs
Pipelines <-----------+                            |
PipeSync <------------+- MCPrograms <-- ProgramsProofs
QuashShell <----------+
AlarmAnswer <---------+
```

### ProducerConsumer (Lab07)

`queue` is `buf`, `head`, `tail`, `full`, `empty`, `mutex`, `slotsToPut`,
`slotsToGet`; `*procount` and `*concount` are `total_inserted` and
`total_consumed`. Each thread has a `pc` and its local `item`. An action is one
statement another thread can observe: the wait, the unlocked test, the lock, the
call of `queueAdd` or `queueRemove`, the increment, the unlock, the post, and the
two posts of a thread that leaves, in the order of the code (a producer posts
`slotsToGet` first, a consumer `slotsToPut`). `queueAdd` and `queueRemove` run
under the mutex only, so each is one step. Items carry the number the code gives
them, the total at the time they were made. `main` creates the producers, then the
consumers, while those created already run, joins them and deletes the queue.

`NoItem` stands for the bytes `malloc` left in the buffer. Creating a thread is
assumed to succeed, and there is at least one of each kind. A comment at lines
281-284 says the producers together make `WORK_MAX` items; the tests let a few
more through, and `OvershootBounded` states how many.

`BoundedFifo` is what the queue promises: items numbered 0, 1, 2 ... join the back of
a line of at most `QUEUESIZE` and leave from the front. The refinement mapping
is `Line`, the slots from `head` on, as many as were written and not read; steps
on semaphores and mutex stutter. It holds with one consumer.

### DiningTable, DiningWaiter, DiningAsymmetric (Lab06)

`DiningTable` has the seating and `main`, the same in both programs: `ITERATION_LIMIT`
periods of resetting every `prog`, checking each and reaching a verdict, then
`Stop`, then the joins. `prog` counts meals but is compared with 0 only, so it is
a Boolean. The resets race with the philosophers' increments, one `prog` at a time.

In `DiningWaiter` `available_chopsticks` and the condition variables are used under
the waiter's mutex only, so a critical section is one step: test and wait, or
test and take; free both and signal both neighbours. A waiting philosopher may
wake without a signal. `MustWait` is the condition of line 161 as the code has it.

In `DiningAsymmetric` `locked` is the set of locked mutexes. A philosopher with an
even number locks and unlocks in one order, the others in the reverse one. After
`Stop` `main` unlocks every chopstick (line 353), whoever holds it; an unlock by a
thread that is not the owner releases the mutex, as a default mutex of Linux does.

### PriQueue and PriorityList (Lab08)

The state is the structure `q` and the nodes' links and data; an action is one
call. Nodes are never freed by the library and each `offer` uses a new one. A call
that dereferences NULL ends the program (`Crash`): `poll` of a single element, and
`at(0)` of an empty list and `at(size)`, where the comment promises NULL; `remove_at`
checks its index first. `remove` compares the ints the elements point to although the
comment at line 157 speaks of pointers, so `FirstInt` tells them apart. Its loop is a fold
over the nodes of the list as it was: a node that is unlinked keeps its own links, so the
loop goes on from it to the node that stood behind. Not modelled: `priqueue_size`, which reads one field, and `priqueue_destroy`, whose body is empty.
`PriorityList` is the same calls on a sequence ordered by priority and, among equals,
by arrival.

### Deque and DoubleEndedQueue (quash)

The state is the structure (`deq`), whether it may be used (`state`) and what the
last call returned (`outcome`). Both macros generate the same functions; they differ in
where the buffer comes from. `push_*` grows the ring to twice its slots when one
slot is left, `as_array` moves the elements to the beginning and hands the buffer
over, `destroy` leaves a structure that must be made anew. Popping from an empty
deque and using a destroyed one end the program, and so does a failing allocation.
`back - front + cap` wraps in `size_t` before it is reduced modulo `cap`; the
sum is not negative, so the model adds first. `DoubleEndedQueue` is a sequence.

### JobControl (QuashProj)

The two threads share `jobs` (`jobList`). `main` is where the command loop stands
and `handler`, `at` where the handler and its iterator stand. `child` is the kernel's
state of every child and `pending` the one SIGCHLD that can be pending. The
handler runs in the waiter thread only; SIGCHLD stays blocked while it runs, so
there is one handler at a time, and however many children end meanwhile there is
one signal afterwards. `wait(NULL)` (line 20) takes any zombie, blocks if no
child is one, and fails if there is no child. `updateJobList` is modelled call by
call, as children end between two calls of `waitpid`: it erases what was marked
(`Lock`), polls until one job answers and erases that (`Poll`, `Erase`), and marks
the others that ended (`Mark`). A child that was reaped already makes `waitpid` fail
with a value that is not 0, so it counts as ended.

The loop reads the new job's number before it takes the mutex (`ReadId`). `back()` of an
empty list is undefined; the build reads static storage behind the list,
`StrayId`. Should the handler erase the element between, the freed node keeps its
number. `execStatement` forks all stages and waits for the last, in the
background as well. `kill` may end, stop or continue a child, or be ignored by it.
`WCONTINUED` (line 86) makes a continued job look finished, so it leaves the list
while it runs, which `Report.txt` does not say: `RunningAreListed` is therefore about jobs
never stopped.

Left out: `cd`, `set`, `printenv`, files and pipes, the startup of the waiter thread
(the model starts when it is ready, which `main` waits for), and the reuse of
process numbers by the kernel.

### MemoryPool and Quash (quash)

`pools` is `pool_deq`, a sequence as `DoubleEndedQueue` promises; `heap` is what `malloc`
gave out, `want` the size of the allocation under way and `blocks` the pieces in use,
which the code does not record. `AllocGrow` is one turn of the loop at line 106: a pool of
twice the size for every pool there is, or an empty one when that is not enough yet;
`PushPool` chooses the size `malloc` is able to give, the one asked for or one of the
`Smaller` ones the low-memory loop tries. When not even the required size can be had the
program exits and the exit handlers free the pools.

`Quash` is `main` (`phase`, `running`) around the rules of `parse.y`. `line` is what was
typed, stage by stage; `cmds` is the `Cmds` deque into which the stages are reduced from the right.
A line is accepted, blank or wrong, and ends with a newline or with the input.
`ScriptWellFormed` compares the flags of the script with the line when `run_script` gets it.

### Pipelines (Lab03, QuashProj, Quash_Project)

The three programs start pipelines with the same steps, so one module has them all and `job`
says which code runs: `finder` with four stages, or a shell with two or more, as many as
`LongestPipe` allows: four in the run, any number in the proofs. `open` is
the pipe ends each process holds; `Keeps` is what a child's list of `close` calls leaves. The
closings of one process are one step, as an end that is closed sooner changes nothing
before the other process acts on it. A pipe nobody can write to any more and that is empty gives
the end of the file; writing to one nobody can read kills; a full one blocks. Programs
copy lines; `sort` writes after it has read everything; the last one may leave early, as `head` does.
An `exec` that fails ends its stage. `finder` waits for its children in turn, the shells for the last.

### PipeSync (Lab04)

`Program` lists the statements of both processes and `at` is where they stand; a message is
written and read whole. Lines go through `buffer` unless stdout is a terminal, and come out when
the process exits. `LinesInOrder` is about a terminal; `GuaranteedSequence`, what the comment at
line 10 says without a condition, fails elsewhere (finding 5).

### QuashShell (quash_final.cpp)

Each process is a copy of the shell or a program; a shell has its own `waitlist` and
`jobid` from the fork on. A line with `&` is executed by a child which then stops itself
(line 820) and, if continued, reads the next line (`doing` is `"prompt"`, the process is in
`stopped`). A foreground command is a `fork` and a `wait(NULL)` that takes any child that ended.
`kill` removes the job and then signals any process there is, a job, a command in the foreground,
a shell or itself, which may end, stop, continue or ignore it. The model ends when the first shell
does. Left out are a stop of the first shell, which hands over to the login shell of the user,
signals to groups of processes (`kill` with 0 or a negative number, Ctrl-C, Ctrl-Z), and a `kill`
in a line that ends in `&`. A second shell may stop a command of the first one and never continue
it (`CommandStopped`); then, and when it kills the first shell, `PromptReturns` promises nothing.

### AlarmAnswer (Lab02)

`standing` is where the program is: in `pause`, or in `catch_int` before the question, in
`fgets`, with an answer it has not acted on, or in `catch_alrm`. SIGINT is blocked in the handlers and at
most one is pending. The alarm may fire whenever it is set, after the answer as well.

## Runs

| Run | Instance | States | Shows |
|---|---|---|---|
| `pc_2x2` | 2 producers, 2 consumers, 2 slots, 3 items | 59191 | `OvershootBounded`, `TokenAccounting`, `NobodyQuitsEarly`, `NoOverwrite`, `BufferHoldsUnread`, `Termination` |
| `pc_2x1` | 2 producers, 1 consumer, 2 slots, 5 items | 5721 | `NoUnderflow`, `FlagsExact`, `AllWorkDone`, `ImplementsFifo`, `WorkIsServed` |
| `pc_underflow` | 2 producers, 2 consumers, 2 items | violation | `NoUnderflow` fails with two consumers |
| `waiter` | 4 philosophers, 1 period | 361334 | `NoChopstickLost`, `NoLostWakeup`, `Termination` |
| `waiter_exclusion` | 3 philosophers | violation | `NeighboursExclude` fails |
| `asymmetric` | 3 philosophers, 2 periods | 77705 | `LockedIsHeld`, `NeighboursExclude`, `SomebodyMoves`, `Termination` |
| `containers` | a queue of 3 elements, 2 of one priority, 4 offers; or a deque of 2 elements, capacities 0 to 3, 3 in it | 140303 | `WellLinked`, `ImplementsPriorityList`, `ImplementsDeque` |
| `pq_remove_at` | the same queue, any index | violation | `SizeExact` fails |
| `jobs` | 3 children | 49798 | `RunningAreListed`, `IdsIncrease`, `UpdateIsComplete`, `ForegroundReturns` |
| `jobs_stale` | 2 children | violation | `ListsRunning` fails |
| `programs` | one of five programs | 255436 | `PoolSound`, `ScriptWellFormed`, `EofIsEnd`, `LinesInOrder`, `WaitsLag`, `AlarmOnlyWhileAsked`, `PipelineEnds`, `PromptReturns` |
| `pipe_sync_redirected` | no constants | violation | `GuaranteedSequence` fails when stdout is not a terminal |

Each passing run also checks the module's `TypeOK`, `containers` also `DequeTypeOK` (`pc_2x1` leaves
its `TypeOK` to `pc_2x2`).

Why the bounds are enough to meet the interesting cases. *Producer/consumer*: with
two slots and three items the ring wraps and fills, two producers pass the test on
the same last item, and threads of each kind leave while the other kind still
works; five items wrap twice for the refinement. *Philosophers*: three is the
smallest table where somebody has two different neighbours and where two even
numbers sit side by side, as at the real table of five; four adds a philosopher
opposite, who shares no chopstick. *Priority queue*: four nodes allow a removal in the
middle, at both ends and of everything, followed by an offer. *Deque*: a ring of every
capacity from 1 to 4 grows at least once with three elements, from every `front`.
*Jobs*: two jobs ending together with one signal while a third child is forked, or a
pipeline with a job; the numbers are read while the list shrinks.

`containers` chooses one of the two containers in its first state and calls it alone, and
`programs` one of five programs; they share no variable, and one run is enough for them.
`programs` has one type invariant for all five. *Quash* (215674 states): pools of 4
bytes that failing allocations make 2 or 1, requests of 3 and 9 bytes, so that a piece fits,
needs the next pool or skips two sizes; three stages, because the one in the middle is reduced
twice. *Pipelines* (19221): two to four stages, four lines through pipes of two, so that a writer fills
one pipe while the next is blocked as well; the last stage may leave after one line.
*Shell* (20486): four processes, enough for a job that is killed and waited for in place of a
command, and for a second shell that runs a command, or kills one of the first shell. *Signals*: the code's threshold of five.

`CHECK_DEADLOCK FALSE` is used nowhere: where a program ends the module says so with
a stuttering action.

### Fairness

`ProducerConsumer`, `DiningWaiter` and `DiningAsymmetric` assume weak fairness of each
thread and of `main`: the operating system schedules every runnable thread, and a
thread that waits on a semaphore, mutex or condition is not runnable. No thread
needs strong fairness for the properties checked: `Termination` is about threads
that stop asking. Spurious wakeups are possible and never fair. `JobControl` assumes
that both threads are scheduled and that a command run in the foreground ends; no
command must ever be typed and no background job need end. In `Pipelines` the parent and
every stage are scheduled; a stage that waits for a line, for room or for a child is not
runnable. In `QuashShell` a program in the foreground ends unless it is stopped, and a `wait` that can
return does. The
containers, the memory pool, `PipeSync` and `AlarmAnswer` have safety properties only.

## Findings

1. **`producer_consumer.c:376`** (`pc_underflow`). The comment at 364-365 has the consumer
   wait while the queue is empty. A producer that leaves posts an extra `slotsToGet`
   (308) while the last items are unread; a second consumer uses the token, tests
   `total_consumed` before the first counts the last item, and removes from an
   empty queue. With a single consumer the property holds (`pc_2x1`).
2. **`dp_waiter.c:161`** (`waiter_exclusion`). A philosopher waits only when both chopsticks
   are taken, so it eats with one its neighbour is using; line 50 says a chopstick is
   shared between two. `dp_waiter_opt.c:165` is the same.
3. **`libpriqueue.c:224`** (`pq_remove_at`). `remove_at` of the last of several elements sets
   `top` where `tail` is meant; the elements before it are unreachable and still counted.
   `ImplementsPriorityList` is checked for clients that avoid this call (`RemovesLast`).
4. **`QuashProj/Functions.cpp:142`** (`jobs_stale`). A background child that ends before its
   job is listed is reaped by the handler first; the dead job then stays on the list,
   which `Report.txt` describes as the running processes, until another child ends.
5. **`pipe-sync.c:37`** (`pipe_sync_redirected`). The comment at lines 10-16 guarantees Child 1,
   Parent 1, Child 2, Parent 2. The messages order the calls of `printf`, but nothing flushes stdout
   before a message is sent: where it is not a terminal, both lines of the child come first
   (`RedirectedLines` proves that they always do).

Seen while modelling, and part of the models' behaviours, without a run of their own:

* **`finder.c:97`**. The sorting child closes `p3[1]` and leaves `p3[0]` open, although the
  comment at 90 asks to close all other ends. If `head` has what it wants while `sort` has more to
  write than the pipe holds, `sort` blocks for ever on a pipe only it could read, and the parent waits
  for it. `PipelineEnds` excepts exactly this state (`SortBlocksItself`); without the exception it fails.
* **`quash.c:117`**. At the end of the input on an empty line `parse` returns NULL and `running` is
  false, but the inner loop calls `parse` again, which meets the end again: quash does not
  end, although the comment at 77 says `end_main_loop` stops it from requesting input.
* **`quash_final.cpp:750`**. After a job was killed, the next foreground command's `wait` may
  return with that job: the prompt appears while the command runs. `WaitsLag` states what still holds.
* **`libpriqueue.c:116, 140, 148`**. `poll` of the only element, `at(0)` of an empty list and
  `at(size)` dereference NULL.

## What is proved

Every invariant, action property and refinement that a passing run checks is also a
theorem, in one of eight modules. The proofs hold for all values of the constants that
satisfy the named assumptions: finite, disjoint, non-empty sets of threads and any
`QUEUESIZE` and `WORK_MAX` above 0; any number of philosophers from 2 on; any set of
elements, any priorities and any number of nodes; any capacity and any number of elements
of a deque; any number of children; any sizes of pools and pieces; any number of stages and any capacity
of a pipe; any threshold of Ctrl-C. Two modules have theorems with hypotheses of their own. In
`ProducerConsumerProofs` it is a single consumer, and `pc_underflow` shows that `NoUnderflow` is false
with two. In `PriQueueProofs` it is a client that avoids the call of finding 3 (`RemovesLast = FALSE`),
and `pq_remove_at` shows that `SizeExact` is false without it; the refinement also assumes
`IntsIdentify`, for which there is no run.

**ProducerConsumerProofs.** `TypeCorrect` contains that the semaphores never become
negative and the indices stay in the buffer. `MutualExclusion` (`MutexOwned`) is
inductive on top of it. `ProducedBound` and `ConsumedBound` count the threads past their
test, and give `Overshoot`. `TokenAccounting` is not inductive alone: the equations would
break if a thread posted its extra tokens early; nor is `NobodyQuitsEarly`, since a
consumer leaves on `total_consumed`, which is bounded by `total_inserted` only thanks to
the equations. Their conjunction `TokenInv` is inductive, and `NoOverwrite` follows from
its last conjunct. The counts of threads are cardinalities; `GotoMovesOne` and
`GotoMovesSums` say how one step of one thread changes them.

`BufferIsUnread` says that until `WORK_MAX` items are counted as inserted, with any number of
threads, no more than `QUEUESIZE` items are unread, none is read that was not written
(`ReadBehindWritten`), and the slots from `head` on hold them in order. Afterwards a second consumer may
take from an empty queue (finding 1), reads an old slot and leaves `Removed` above `Added`: the count of unread
items then has no meaning, and the property makes no promise. With one consumer
`OneConsumerImplementsFifo` says the same of every state. That the slots hold the items
(`SlotsCorrect`) needs that fewer than `QUEUESIZE` items lie between a slot's writing and
its reading, so that no two of them fall on one slot (`PositionsDiffer`); the remainder of
a division, which the solver does not know, is pinned down by `Division` and `Remainder`.
`QueueSteps` sorts all steps into those that put, those that take and those that leave the
queue alone, and is used by everything after it. `ReadIsWritten` is why one consumer never
underflows: below `WORK_MAX` the tokens account for every item, and a single consumer past
its test has fewer than `WORK_MAX` items counted, while several may be past it for the same last
item. From it come `OneConsumerNeverUnderflows`,
`FlagsAreExact` (`FlagsInv` says more, that the flags are exact in every state),
`OneConsumerDoesAllWork` (with `EndInv`: a consumer leaves only when the work is done) and
`OneConsumerImplementsFifo`, where `Line` is the stretch of numbers from `Removed` to
`Added`. Their hypothesis is `Cardinality(Consumers) = 1`; `pc_underflow` refutes the first
of them for two consumers.

**DiningWaiterProofs.** `NoChopstickLost` and `NoLostWakeup` are inductive with the type
alone. The reason is the seating: whoever shares a chopstick with a philosopher is one of
the two neighbours it signals (`SharedWithNeighbours`), for any table. `TypeInv` adds to the
type that the periods stay below their limit wherever one may still be counted.

**DiningAsymmetricProofs.** `NoOrphanLock`: a locked chopstick is held by the philosopher
whose program counter says so, which survives `main`'s unlocking because that only
removes from `locked`. `HeldAlone` gives `MutualExclusion` until then. `NoCircularWait`: if all
were blocked, each blocked chopstick would be the first one of somebody who waits for the
second; but the chopstick between two neighbours is, by parity, the first of both or the
second of both, except beside philosopher 0 when the number is odd, and one
exception does not close a circle.

**PriQueueProofs.** `QueueInv` says that there is a sequence `s` of nodes which the links
connect in both directions (`Linked`), whose elements stand in the order of their priority
(`Arranged`), and that nodes not yet allocated have no links (`Unused`), which `offer`
relies on. `WellLinked` alone is not inductive: it speaks only of what is reached from the
top. `ChainOf` proves that walking the links gives exactly `s`, so that `Chain` and
`Contents` can be replaced by `s` everywhere. Then a lemma per call says what becomes of
`s`: `LinkInInserts` for a new node and `UnlinkDrops` for one that is removed, at the front, at
the end or between. `RemoveLoop` follows the loop of
`priqueue_remove` through the heaps that its rounds leave: the nodes already passed that
did not match, and the rest. `QueueTypes`, `LinksAgree`, `SizeIsExact` and
`QueueImplementsList` follow. All assume `RemovesLast = FALSE`: removing the last of several
elements by its index sets the wrong pointer (finding 3), and `pq_remove_at` shows that
`SizeExact` then fails. The refinement also assumes `IntsIdentify`, that different elements
hold different ints: `remove` takes all elements that hold the same int, where the comment
at line 157 and `PriorityList` speak of one pointer.

**DequeProofs.** `Ring` is the inductive invariant. `Place` and `Distance` say without a
modulus where an element lies; `LengthIs` and `ItemsAre` connect them to the code's
arithmetic; `MovedKeeps` is about growing and realigning; then there is a lemma per
call. `Step` maps every step to a step of `DoubleEndedQueue` or a stutter and gives
`TypeCorrect` and `RefinesSequence`.

**JobControlProofs.** What the two threads do to the list is said once: `LockShrinks` and
`EraseShrinks` give the places in the old list of the jobs that stay, in increasing order,
and `Sublist` is what a step of the handler leaves. `TypeCorrect` goes with `ForkInv`, that children
are forked one after the other. `IdsIncrease` alone is not inductive: the loop has read the
new number before it takes the mutex, so `IdInv` adds that it stays above all numbers in the
list while the handler erases some (`StrayId` and a freed element make no difference, as the
list is then shorter or empty). `RunningInv`, for `RunningAreListed`, needs that a job is listed
once and not before its child was forked, that what is marked as terminated has ended, and
that only a child that was stopped is reported as continued; a stop and a continuation are the only way a
running job leaves the list. `MarkInv` follows `UpdateIsComplete` through the marking: behind
the iterator every job is settled or a signal is pending, as a child that ends meanwhile
sends one.

**QuashProofs.** `PoolSound` alone is not inductive: that a new piece overlaps no other
one needs every piece to end at or before the `next` of its pool (`InsidePool`), and that
`size` is what `malloc` gave (`PoolRecord`); `PoolInv` joins them. `AppendKeeps` covers both
kinds of new pools, `TakeKeeps` the cut, `DestroyKeeps` the end of a line. `QuashInv` adds that
the parser always finds a pool, which blank lines and syntax errors leave.
`ScriptWellFormed` speaks of a complete script; `ScriptInv` says of a line that is being
reduced what each stage's flags are by then (`Agrees`): the first of those reduced has not
got its input yet, and `&` has spread as far as it was read. `FoldMarks` computes the
fold over a stage's redirections for any number of them.

**ProgramsProofs.** One section for each of the other four programs.
*Pipelines*: `EofIsEnd` needs that no line is lost between two stages (`Flow`), that nobody
lets go of an end it needs (`Holding`), that an end that was seen is one that nobody can
write to (`EndSeen`) and how stages end (`HowEnded`: SIGPIPE comes only when the reader has
gone without having seen the end). `PipelineInv` is their conjunction, with one lemma per
action. `StagesAre` and `StageNumbers` are all it knows of the number of stages; `EofIsEndHolds` takes the
first stage that missed a line. *PipeSync*: `SyncInv` states for each message which statements of its writer and its
reader are passed (`InStep`) and how much has been printed by then (`Arrived`).
*QuashShell*: `Lag` extends `WaitsLag` to a shell that waits (one foreground child
more) and to the child of an `&` before its command; `Forks` says that nobody has a
forker, or children, before it exists. One lemma per kind of step says which child enters or
leaves the two counted sets; the end of a shell moves its children only, and nobody counts
those any more. *AlarmAnswer*: the question comes at the threshold exactly because in
`pause` the count is below it, and `catch_int` only interrupts `pause`. `ProgramsTypes` joins
the types of all five programs, as they share no variable.

Where a proof needs induction over numbers (walking links, folds, a loop over a list) it
is carried out on a set: `LeastNumber` says that a set of numbers that is not empty has a
least one, and `UpTo` that a set which contains 0 and is closed under adding 1 contains
every number up to n. The induction theorems of the library, which take a predicate as a
parameter, are not needed.

Only model-checked: the liveness properties `Termination`, `WorkIsServed`,
`ForegroundReturns`, `PipelineEnds` and `PromptReturns`. They rest on fairness and on
ENABLED, which the installed provers do not support.

## Plan

Everything in the first plan is modelled, checked and, safety, proved. What is left:

1. `PriQueue`: which properties survive when the client does remove the last of several
   elements by its index (links still lead to allocated nodes).
2. The safety part of the liveness properties: that while a thread, a philosopher or a
   stage waits somebody else can move, for any number of them.

## Not modelled, and why

Printing, sleeping and the amount of work change nothing another thread observes. The words of
a command, the lexer, quotes, `cd`, environment variables and files of redirections are sequential
text and file handling. `execute.c` of quash is a template whose functions are to be
written by students. The threads of Lab05 add to one counter under one mutex, or atomically. The
FIFO programs of Lab04 copy lines. Lab01 is a program with planted faults for a debugger exercise; Lab09
is an archive. `quash.cpp` and `quash_incomplete.cpp` are earlier versions of `quash_final.cpp`.

`bash-4.2`, which Lab03 searches as data, and the generated parser are not this repository's own
code. They are nearly all of its lines, so that the models cover a small part of the files
in the repository and most of the code written for it.
