-------------------------- MODULE DiningAsymmetric --------------------------
(***************************************************************************)
(* dp_asymmetric.c: a chopstick is a mutex; philosophers with an even id   *)
(* lock the left one first, the others the right one first.  When main has *)
(* set Stop it unlocks every chopstick, whoever holds it, so that          *)
(* philosophers can leave even if they are deadlocked; a mutex of the      *)
(* default type is then simply free.                                       *)
(***************************************************************************)
EXTENDS DiningTable

VARIABLE locked       \* the chopsticks whose mutex is locked

vars == <<pc, prog, Stop, mainVars, locked>>

Init ==
    /\ TableInit
    /\ locked = {}

-----------------------------------------------------------------------------

\* Mutant of Even: everybody starts on the left.
Always(p) == TRUE

Even(p) == p % 2 = 0

first_chop(p) == IF Even(p) THEN left_chop(p) ELSE right_chop(p)
second_chop(p) == IF Even(p) THEN right_chop(p) ELSE left_chop(p)

\* Mutant of Lock: a locked chopstick is taken all the same.
LockAnyway(p, chop, from, to) ==
    /\ Goto(p, from, to)
    /\ locked' = locked \cup {chop}
    /\ UNCHANGED <<prog, Stop, mainVars>>

Lock(p, chop, from, to) ==
    /\ Goto(p, from, to)
    /\ chop \notin locked
    /\ locked' = locked \cup {chop}
    /\ UNCHANGED <<prog, Stop, mainVars>>

\* Mutant of Unlock: the chopstick stays locked.
UnlockNothing(p, chop, from, to) ==
    /\ Goto(p, from, to)
    /\ UNCHANGED <<prog, Stop, mainVars, locked>>

Unlock(p, chop, from, to) ==
    /\ Goto(p, from, to)
    /\ locked' = locked \ {chop}
    /\ UNCHANGED <<prog, Stop, mainVars>>

LockFirst(p) == Lock(p, first_chop(p), "hungry", "holding")
LockSecond(p) == Lock(p, second_chop(p), "holding", "eat")
UnlockFirst(p) == Unlock(p, first_chop(p), "eat", "full")
UnlockSecond(p) == Unlock(p, second_chop(p), "full", "tally")

\* main's loop of pthread_mutex_unlock over the chopsticks.
ReleaseChop ==
    /\ main = "release"
    /\ locked' = locked \ {next}
    /\ Advance("join")
    /\ UNCHANGED <<pc, prog, Stop, deadlock, iter>>

-----------------------------------------------------------------------------

Philosopher(p) ==
    \/ (Think(p) \/ Tally(p)) /\ UNCHANGED locked
    \/ LockFirst(p) \/ LockSecond(p)
    \/ UnlockFirst(p) \/ UnlockSecond(p)

Main ==
    \/ (Accounting \/ StopAll("release") \/ Join) /\ UNCHANGED locked
    \/ ReleaseChop

Terminated == main = "done" /\ UNCHANGED vars

Next ==
    \/ \E p \in Phils : Philosopher(p)
    \/ Main
    \/ Terminated

Fairness == (\A p \in Phils : WF_vars(Philosopher(p))) /\ WF_vars(Main)

Spec == Init /\ [][Next]_vars /\ Fairness

-----------------------------------------------------------------------------

\* Every variable holds a value of its kind.
TypeOK ==
    /\ TableTypeOK
    /\ pc \in [Phils -> {"think", "hungry", "holding", "eat", "full", "tally", "left"}]
    /\ main \in {"reset", "check", "period", "stop", "release", "join", "done"}
    /\ locked \subseteq Chops

\* The chopsticks a philosopher locked and has not unlocked.
Held(p) ==
    {c \in {first_chop(p)} : pc[p] \in {"holding", "eat"}}
        \cup {c \in {second_chop(p)} : pc[p] \in {"eat", "full"}}

\* main has unlocked no chopstick yet.
Untouched == main \in {"reset", "check", "period", "stop"}

\* A locked chopstick is held by a philosopher, at all times: no mutex stays locked
\* with nobody left to unlock it, main's unlocking included.
LockedIsHeld == \A c \in locked : \E p \in Phils : c \in Held(p)

\* Until main unlocks the chopsticks each is held by at most one philosopher, and
\* only while it is locked.
HeldAlone ==
    Untouched =>
        \A p \in Phils :
            /\ Held(p) \subseteq locked
            /\ \A q \in Phils \ {p} : Held(p) \cap Held(q) = {}

\* Until then neighbours never eat at the same time.
NeighboursExclude ==
    Untouched => \A p \in Phils : pc[p] = "eat" => pc[left_phil(p)] # "eat"

\* A philosopher is blocked on a chopstick somebody else locked.
Blocked(p) ==
    \/ pc[p] = "hungry" /\ first_chop(p) \in locked
    \/ pc[p] = "holding" /\ second_chop(p) \in locked

\* The philosophers never block each other in a circle: however many they are, the
\* order in which they lock keeps one of them free to go on.
SomebodyMoves == \E p \in Phils : ~Blocked(p)

\* The program ends: after Stop every philosopher leaves and main joins them all.
Termination == <>(main = "done")

=============================================================================
