----------------------------- MODULE JobControl -----------------------------
(***************************************************************************)
(* QuashProj (main.cpp, Functions.cpp): the command loop forks children    *)
(* and lists the background ones; SIGCHLD is blocked in its thread and     *)
(* handled in the waiter thread, whose handler reaps one child with wait   *)
(* and then polls the list.  jobListMutex guards the list, except where    *)
(* the number of a new job is read.                                        *)
(*                                                                         *)
(* The kernel's part is what the two threads see of it: the state of every *)
(* child, and one pending SIGCHLD however many children changed state.     *)
(* The critical sections of the loop are one step; those of the handler    *)
(* are not, since children die between its calls of waitpid.  Process      *)
(* numbers are not used again.  The model starts when the waiter is ready, *)
(* which main waits for.                                                   *)
(***************************************************************************)
EXTENDS Integers, Sequences, FiniteSets, Functions

Seqs == INSTANCE SequencesExt

CONSTANTS MaxChildren,   \* bound: children forked
          StrayId        \* what back() of the empty list reads as a number

ASSUME JobAssumption ==
    /\ MaxChildren \in Nat \ {0}
    /\ StrayId \in Int

Pids == 1 .. MaxChildren

VARIABLES
    child,       \* each child's state; "held" is a failed exec that waits for main,
                 \* "resumed" runs again after a stop
    kind,        \* what it was forked for
    continued,   \* children whose continuation no waitpid has reported
    pending,     \* a SIGCHLD waits for the waiter thread
    jobs,        \* jobList
    main,        \* where the command loop stands
    current,     \* the child it forked, or signals
    newId,       \* the number for the new job
    handler,     \* where the handler stands
    at           \* its iterator

kernel == <<child, kind, continued, pending>>
loop == <<main, current, newId>>
vars == <<kernel, jobs, loop, handler, at>>

Init ==
    /\ child = [p \in Pids |-> "none"]
    /\ kind = [p \in Pids |-> "none"]
    /\ continued = {} /\ pending = FALSE
    /\ jobs = <<>>
    /\ main = "prompt" /\ current = 0 /\ newId = 0
    /\ handler = "idle" /\ at = 1

Alive(p) == child[p] \in {"held", "running", "stopped", "resumed"}

\* jobListMutex is free.
Unlocked == handler \notin {"poll", "mark"}

\* waitpid's effect on a child it finds dead.
Reaped(p) == IF child[p] = "zombie" THEN [child EXCEPT ![p] = "reaped"] ELSE child

-----------------------------------------------------------------------------
(* The children *)

Die(p) ==
    /\ child[p] \in {"running", "resumed"}
    /\ child' = [child EXCEPT ![p] = "zombie"]
    /\ continued' = continued \ {p}
    /\ pending' = TRUE
    /\ UNCHANGED <<kind, jobs, loop, handler, at>>

-----------------------------------------------------------------------------
(* The command loop *)

Forked == Cardinality({p \in Pids : child[p] # "none"})

Fork(k, state, next) ==
    /\ Forked < MaxChildren
    /\ child' = [child EXCEPT ![Forked + 1] = state]
    /\ kind' = [kind EXCEPT ![Forked + 1] = k]
    /\ current' = Forked + 1
    /\ main' = next
    /\ UNCHANGED <<continued, pending, jobs, newId, handler, at>>

\* executeFunc: exec may fail in the child, which then reads from the pipe exOrd
\* until the loop closes it.
Background ==
    /\ main = "prompt"
    /\ \E state \in {"running", "held"} : Fork("job", state, "forked")

\* Mutant of ReadId: jobs are numbered by how many there are.
ReadIdCounts ==
    /\ main = "forked" /\ main' = "adding"
    /\ newId' = Len(jobs) + 1
    /\ UNCHANGED <<kernel, jobs, current, handler, at>>

\* jobList.back().m_id + 1, without the mutex.  Should the handler erase that job
\* meanwhile, the freed element still holds its number, which never changes.
ReadId ==
    /\ main = "forked" /\ main' = "adding"
    /\ newId' = (IF jobs = <<>> THEN StrayId ELSE jobs[Len(jobs)].m_id) + 1
    /\ UNCHANGED <<kernel, jobs, current, handler, at>>

Push ==
    /\ main = "adding" /\ main' = "pushed"
    /\ Unlocked
    /\ jobs' = Append(jobs, [m_pid |-> current, m_id |-> newId, mySt |-> "RUNNING"])
    /\ UNCHANGED <<kernel, current, newId, handler, at>>

\* The loop closes exOrd.
Release ==
    /\ main = "pushed" /\ main' = "prompt"
    /\ child' = [child EXCEPT ![current] = IF @ = "held" THEN "running" ELSE @]
    /\ UNCHANGED <<kind, continued, pending, jobs, current, newId, handler, at>>

\* executeFunc in the foreground, and execStatement, which waits for the last of
\* its children only, also when it is told to run them in the background.
Foreground == main = "prompt" /\ Fork("foreground", "running", "waiting")

Stage ==
    /\ main \in {"prompt", "stages"}
    /\ Forked + 2 <= MaxChildren
    /\ Fork("stage", "running", "stages")

LastStage == main = "stages" /\ Fork("foreground", "running", "waiting")

\* Mutant of WaitReturns: waitpid is called again when it fails, as it does for a child
\* the handler has reaped.
WaitRetries ==
    /\ main = "waiting"
    /\ child[current] \in {"zombie", "reaped"}
    /\ main' = IF child[current] = "zombie" THEN "prompt" ELSE main
    /\ child' = Reaped(current)
    /\ UNCHANGED <<kind, continued, pending, jobs, current, newId, handler, at>>

WaitReturns ==
    /\ main = "waiting" /\ main' = "prompt"
    /\ child[current] \in {"zombie", "reaped"}
    /\ child' = Reaped(current)
    /\ UNCHANGED <<kind, continued, pending, jobs, current, newId, handler, at>>

\* kill looks a number up under the mutex: the last job that has it.
Lookup ==
    /\ main = "prompt" /\ main' = "killing"
    /\ Unlocked
    /\ \E k \in DOMAIN jobs :
          /\ \A m \in k + 1 .. Len(jobs) : jobs[m].m_id # jobs[k].m_id
          /\ current' = jobs[k].m_pid
    /\ UNCHANGED <<kernel, jobs, newId, handler, at>>

\* What a signal can make of a child: nothing, when it is ignored or finds none.
Outcomes(state) ==
    {state} \cup CASE state \in {"running", "resumed"} -> {"stopped", "zombie"}
                   [] state = "stopped" -> {"resumed", "zombie"}
                   [] OTHER -> {}

Signal ==
    /\ main = "killing" /\ main' = "prompt"
    /\ \E state \in Outcomes(child[current]) :
          /\ child' = [child EXCEPT ![current] = state]
          /\ pending' = (pending \/ state # child[current])
          /\ continued' = IF state = child[current] THEN continued
                          ELSE IF state = "resumed" THEN continued \cup {current}
                          ELSE continued \ {current}
    /\ UNCHANGED <<kind, jobs, current, newId, handler, at>>

Exit ==
    /\ main = "prompt" /\ main' = "exited"
    /\ UNCHANGED <<kernel, jobs, current, newId, handler, at>>

Obey == ReadId \/ Push \/ Release \/ LastStage \/ WaitReturns \/ Signal
Command == Background \/ Foreground \/ Stage \/ Lookup \/ Exit

-----------------------------------------------------------------------------
(* The handler *)

\* SIGCHLD stays blocked while its handler runs.
Deliver ==
    /\ pending /\ handler = "idle"
    /\ pending' = FALSE /\ handler' = "wait"
    /\ UNCHANGED <<child, kind, continued, jobs, loop, at>>

\* wait(NULL): it takes any zombie, blocks while there is none, and fails when there
\* is no child left.
WaitAny ==
    /\ handler = "wait"
    /\ \/ /\ \E p \in Pids : child[p] = "zombie" /\ child' = Reaped(p)
          /\ handler' = "lock"
       \/ /\ \A p \in Pids : child[p] \in {"none", "reaped"}
          /\ handler' = "idle"
          /\ UNCHANGED child
    /\ UNCHANGED <<kind, continued, pending, jobs, loop, at>>

\* Where the jobs stand that were not marked the last time.
Unmarked == {k \in DOMAIN jobs : jobs[k].mySt # "TERMINATED"}

\* updateJobList takes the mutex and erases the marked jobs; the others stay in order.
Lock ==
    /\ handler = "lock" /\ handler' = "poll"
    /\ \E place \in Bijection(1 .. Cardinality(Unmarked), Unmarked) :
          /\ \A j, k \in DOMAIN place : j < k => place[j] < place[k]
          /\ jobs' = [k \in DOMAIN place |-> jobs[place[k]]]
    /\ at' = 1
    /\ UNCHANGED <<kernel, loop>>

\* Mutant of Erase: the loop goes on behind the job it erased.
EraseGoesOn ==
    /\ jobs' = Seqs!RemoveAt(jobs, at)
    /\ at' = at + 1
    /\ UNCHANGED handler

Erase ==
    /\ jobs' = Seqs!RemoveAt(jobs, at)
    /\ handler' = "mark" /\ at' = 1

\* The first job that waitpid has something to tell about, if it is that the job
\* ended (and was reaped, perhaps) or went on, is erased and ends the loop.
Poll ==
    /\ handler = "poll"
    /\ IF at > Len(jobs)
       THEN handler' = "mark" /\ at' = 1 /\ UNCHANGED <<child, continued, jobs>>
       ELSE LET p == jobs[at].m_pid
            IN  IF ~Alive(p) \/ p \in continued
                THEN Erase /\ child' = Reaped(p) /\ continued' = continued \ {p}
                ELSE at' = at + 1 /\ UNCHANGED <<child, continued, jobs, handler>>
    /\ UNCHANGED <<kind, pending, loop>>

\* Mutant of Mark: the job waitpid reaped is not marked.
MarkForgets ==
    /\ handler = "mark" /\ at <= Len(jobs)
    /\ child' = Reaped(jobs[at].m_pid)
    /\ at' = at + 1
    /\ UNCHANGED <<kind, continued, pending, jobs, loop, handler>>

\* Mutant of Mark: jobs that still run are marked too.
MarkAll ==
    /\ handler = "mark" /\ at <= Len(jobs)
    /\ child' = Reaped(jobs[at].m_pid)
    /\ jobs' = [jobs EXCEPT ![at].mySt = "TERMINATED"]
    /\ at' = at + 1
    /\ UNCHANGED <<kind, continued, pending, loop, handler>>

Mark ==
    /\ handler = "mark" /\ at <= Len(jobs)
    /\ child' = Reaped(jobs[at].m_pid)
    /\ jobs' = IF Alive(jobs[at].m_pid) THEN jobs
               ELSE [jobs EXCEPT ![at].mySt = "TERMINATED"]
    /\ at' = at + 1
    /\ UNCHANGED <<kind, continued, pending, loop, handler>>

Unlock ==
    /\ handler = "mark" /\ at > Len(jobs)
    /\ handler' = "idle" /\ at' = 1
    /\ UNCHANGED <<kernel, jobs, loop>>

Handler == Deliver \/ WaitAny \/ Lock \/ Poll \/ Mark \/ Unlock

-----------------------------------------------------------------------------

Ended == main = "exited" /\ UNCHANGED vars

Next ==
    \/ main # "exited" /\ (Obey \/ Command \/ Handler)
    \/ main # "exited" /\ \E p \in Pids : Die(p)
    \/ Ended

(***************************************************************************)
(* Both threads are scheduled, and a command run in the foreground ends    *)
(* some time.  Nobody has to type another command.                         *)
(***************************************************************************)
Fairness ==
    /\ WF_vars(main # "exited" /\ Obey)
    /\ WF_vars(main # "exited" /\ Handler)
    /\ \A p \in Pids : WF_vars(main # "exited" /\ kind[p] = "foreground" /\ Die(p))

Spec == Init /\ [][Next]_vars /\ Fairness

-----------------------------------------------------------------------------

\* Every variable holds a value of its kind.
TypeOK ==
    /\ child \in [Pids -> {"none", "held", "running", "stopped", "resumed",
                        "zombie", "reaped"}]
    /\ kind \in [Pids -> {"none", "job", "foreground", "stage"}]
    /\ continued \subseteq Pids
    /\ pending \in BOOLEAN
    /\ jobs \in Seq([m_pid : Pids, m_id : Int, mySt : {"RUNNING", "TERMINATED"}])
    /\ main \in {"prompt", "forked", "adding", "pushed", "stages", "waiting",
                 "killing", "exited"}
    /\ current \in Pids \cup {0}
    /\ newId \in Int
    /\ handler \in {"idle", "wait", "lock", "poll", "mark"}
    /\ at \in 1 .. Len(jobs) + 1

\* The loop has not listed the job yet.
Unlisted(p) == p = current /\ main \in {"forked", "adding"}

\* A background child that runs and was never stopped is listed, once and not as
\* terminated: the handler erases and marks only jobs that ended, or that went on
\* after a stop (WCONTINUED).
RunningAreListed ==
    \A p \in Pids :
        kind[p] = "job" /\ child[p] \in {"held", "running"} /\ ~Unlisted(p) =>
            /\ \E k \in DOMAIN jobs : jobs[k].m_pid = p /\ jobs[k].mySt = "RUNNING"
            /\ \A j, k \in DOMAIN jobs : jobs[j].m_pid = p /\ jobs[k].m_pid = p => j = k

\* The numbers grow along the list, so that kill finds the job that jobs shows under
\* a number, although a new number is read without the mutex.
IdsIncrease ==
    \A j, k \in DOMAIN jobs : j < k => jobs[j].m_id < jobs[k].m_id

\* When the handler unlocks the list every job on it runs, is marked as terminated or
\* has sent a SIGCHLD that is still to be handled, however many ended at once and
\* whichever of them wait took.
UpdateIsComplete ==
    [][handler = "mark" /\ handler' = "idle" =>
          pending \/ \A k \in DOMAIN jobs :
                        Alive(jobs[k].m_pid) \/ jobs[k].mySt = "TERMINATED"]_vars

\* A foreground command that ended gives the prompt back, also when the handler has
\* taken its status or is blocked in wait.
ForegroundReturns == main = "waiting" ~> main # "waiting"

\* Report.txt: "jobs command prints a list of currently running background
\* processes"; the signal handler "removes old jobs from joblist".
ListsRunning ==
    main = "prompt" /\ handler = "idle" /\ ~pending =>
        \A k \in DOMAIN jobs : Alive(jobs[k].m_pid)

=============================================================================
