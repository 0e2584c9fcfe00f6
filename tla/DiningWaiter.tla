---------------------------- MODULE DiningWaiter ----------------------------
(***************************************************************************)
(* dp_waiter.c: a philosopher asks the waiter (a mutex) for both           *)
(* chopsticks and waits on its own condition variable can_eat while the    *)
(* test of line 161 says so; whoever puts its chopsticks down signals both *)
(* neighbours.  dp_waiter_opt.c differs in a counter and in the order of   *)
(* the two signals, both sent under the mutex.                             *)
(*                                                                         *)
(* available_chopsticks and the condition variables are used under the     *)
(* mutex only, so a critical section is one step.  pthread_cond_wait       *)
(* releases the mutex and may also return without a signal.                *)
(***************************************************************************)
EXTENDS DiningTable

VARIABLE available_chopsticks

vars == <<pc, prog, Stop, mainVars, available_chopsticks>>

Init ==
    /\ TableInit
    /\ available_chopsticks = [c \in Chops |-> 1]

-----------------------------------------------------------------------------

\* The condition of the while loop, as the code has it.
MustWait(p) ==
    /\ available_chopsticks[left_chop(p)] # 1
    /\ available_chopsticks[right_chop(p)] # 1

\* Asking the waiter, at first or after a wakeup: wait, or take both and eat.
Wait(p) ==
    /\ pc[p] \in {"hungry", "woken"}
    /\ MustWait(p)
    /\ pc' = [pc EXCEPT ![p] = "waiting"]
    /\ UNCHANGED <<prog, Stop, mainVars, available_chopsticks>>

Take(p) ==
    /\ pc[p] \in {"hungry", "woken"}
    /\ ~MustWait(p)
    /\ available_chopsticks' = [available_chopsticks EXCEPT
           ![left_chop(p)] = 0, ![right_chop(p)] = 0]
    /\ pc' = [pc EXCEPT ![p] = "eat"]
    /\ UNCHANGED <<prog, Stop, mainVars>>

SpuriousWakeup(p) ==
    /\ Goto(p, "waiting", "woken")
    /\ UNCHANGED <<prog, Stop, mainVars, available_chopsticks>>

\* Mutants of Signalled: the left neighbour is forgotten; both are.
SignalledRight(p) == {q \in {right_phil(p)} : pc[q] = "waiting"}
SignalledNobody(p) == {}

\* Whom the two pthread_cond_signal calls wake: only p waits on p's can_eat.
Signalled(p) == {q \in {left_phil(p), right_phil(p)} : pc[q] = "waiting"}

\* Mutant of PutDown: only the left chopstick is marked as free.
PutDownLeft(p) ==
    /\ pc[p] = "eat"
    /\ available_chopsticks' = [available_chopsticks EXCEPT ![left_chop(p)] = 1]
    /\ pc' = [q \in Phils |-> CASE q = p -> "tally"
                                [] q \in Signalled(p) \ {p} -> "woken"
                                [] OTHER -> pc[q]]
    /\ UNCHANGED <<prog, Stop, mainVars>>

PutDown(p) ==
    /\ pc[p] = "eat"
    /\ available_chopsticks' = [available_chopsticks EXCEPT
           ![left_chop(p)] = 1, ![right_chop(p)] = 1]
    /\ pc' = [q \in Phils |-> CASE q = p -> "tally"
                                [] q \in Signalled(p) \ {p} -> "woken"
                                [] OTHER -> pc[q]]
    /\ UNCHANGED <<prog, Stop, mainVars>>

-----------------------------------------------------------------------------

\* What a philosopher does of its own accord.
Philosopher(p) ==
    \/ (Think(p) \/ Tally(p)) /\ UNCHANGED available_chopsticks
    \/ Wait(p) \/ Take(p) \/ PutDown(p)

Main == (Accounting \/ StopAll("join") \/ Join) /\ UNCHANGED available_chopsticks

Terminated == main = "done" /\ UNCHANGED vars

Next ==
    \/ \E p \in Phils : Philosopher(p)
    \/ \E p \in Phils : SpuriousWakeup(p)
    \/ Main
    \/ Terminated

(***************************************************************************)
(* Every thread is scheduled; spurious wakeups owe nobody anything.        *)
(***************************************************************************)
Fairness == (\A p \in Phils : WF_vars(Philosopher(p))) /\ WF_vars(Main)

Spec == Init /\ [][Next]_vars /\ Fairness

-----------------------------------------------------------------------------

\* The two philosophers that may pick up a chopstick.
Users(c) == {p \in Phils : c \in {left_chop(p), right_chop(p)}}

\* Every variable holds a value of its kind.
TypeOK ==
    /\ TableTypeOK
    /\ pc \in [Phils -> {"think", "hungry", "waiting", "woken", "eat", "tally", "left"}]
    /\ main \in {"reset", "check", "period", "stop", "join", "done"}
    /\ available_chopsticks \in [Chops -> {0, 1}]

\* A chopstick marked as taken is in the hands of a philosopher that eats: none is
\* lost, even when two neighbours mark and free it in turn.
NoChopstickLost ==
    \A c \in Chops : available_chopsticks[c] = 0 => \E p \in Users(c) : pc[p] = "eat"

\* A philosopher that waits unsignalled lacks both its chopsticks: whoever frees one
\* of them signals it, whatever happened between its test and its wait.
NoLostWakeup ==
    \A p \in Phils : pc[p] = "waiting" => MustWait(p)

\* The program ends: no philosopher waits forever once Stop is set, so main's
\* joins return.
Termination == <>(main = "done")

\* Comment of line 50: a chopstick is shared between two philosophers, and each
\* eats with both of its own, so neighbours never eat at the same time.
NeighboursExclude ==
    \A p \in Phils : pc[p] = "eat" => pc[left_phil(p)] # "eat"

=============================================================================
