---------------------------- MODULE DiningTable ----------------------------
(***************************************************************************)
(* What the dining philosophers of Lab06 have in common (dp_waiter.c and   *)
(* dp_asymmetric.c): the seating, and main(), which resets and reads the   *)
(* progress of every philosopher period after period and then stops them.  *)
(*                                                                         *)
(* prog is only ever compared with 0, so prog[p] stands for prog # 0; the  *)
(* increment of the code and the reset by main are not synchronised, and   *)
(* whatever their order prog # 0 after an increment.  prog_total and count *)
(* (dp_waiter_opt.c) are only printed.                                     *)
(***************************************************************************)
EXTENDS Integers

CONSTANTS NUM_PHILS,        \* philosophers, and chopsticks
          ITERATION_LIMIT   \* accounting periods

ASSUME TableAssumption ==
    /\ NUM_PHILS \in Nat /\ NUM_PHILS >= 2
    /\ ITERATION_LIMIT \in Nat \ {0}

Phils == 0 .. NUM_PHILS - 1
Chops == 0 .. NUM_PHILS - 1

VARIABLES
    pc,         \* where each philosopher stands
    prog,       \* which philosophers ate since main last looked
    Stop,       \* the flag that ends every thread
    main,       \* where main stands
    next,       \* the loop variable i of main
    deadlock,   \* main's verdict on the period
    iter        \* periods that ended

mainVars == <<main, next, deadlock, iter>>

-----------------------------------------------------------------------------

left_phil(p) == IF p = NUM_PHILS - 1 THEN 0 ELSE p + 1
right_phil(p) == IF p = 0 THEN NUM_PHILS - 1 ELSE p - 1

left_chop(p) == p
right_chop(p) == IF p = 0 THEN NUM_PHILS - 1 ELSE p - 1

TableInit ==
    /\ pc = [p \in Phils |-> "think"]
    /\ prog = [p \in Phils |-> FALSE]
    /\ Stop = FALSE
    /\ main = "reset" /\ next = 0
    /\ deadlock = TRUE /\ iter = 0

Goto(p, from, to) == pc[p] = from /\ pc' = [pc EXCEPT ![p] = to]

\* main's loop over the philosophers: the next one, or what follows the loop.
Advance(after) ==
    IF next < NUM_PHILS - 1
    THEN next' = next + 1 /\ UNCHANGED main
    ELSE next' = 0 /\ main' = after

-----------------------------------------------------------------------------
(* The top and the bottom of dp_thread's loop *)

\* while (!Stop): think, then grow hungry, or leave.
Think(p) ==
    /\ pc[p] = "think"
    /\ pc' = [pc EXCEPT ![p] = IF Stop THEN "left" ELSE "hungry"]
    /\ UNCHANGED <<prog, Stop, mainVars>>

Tally(p) ==                                   \* me->prog++
    /\ Goto(p, "tally", "think")
    /\ prog' = [prog EXCEPT ![p] = TRUE]
    /\ UNCHANGED <<Stop, mainVars>>

-----------------------------------------------------------------------------
(* main() *)

Reset ==                                      \* Diners[i].prog = 0
    /\ main = "reset"
    /\ prog' = [prog EXCEPT ![next] = FALSE]
    /\ Advance("check")
    /\ deadlock' = TRUE
    /\ UNCHANGED <<pc, Stop, iter>>

Check ==                                      \* if (Diners[i].prog) deadlock = 0
    /\ main = "check"
    /\ deadlock' = (deadlock /\ ~prog[next])
    /\ Advance("period")
    /\ UNCHANGED <<pc, prog, Stop, iter>>

\* Mutant of Period: one period too many.
PeriodLate ==
    /\ main = "period"
    /\ iter' = iter + 1
    /\ main' = IF deadlock \/ iter' > ITERATION_LIMIT THEN "stop" ELSE "reset"
    /\ UNCHANGED <<pc, prog, Stop, next, deadlock>>

Period ==                                     \* the test of the do-while loop
    /\ main = "period"
    /\ iter' = iter + 1
    /\ main' = IF deadlock \/ iter' >= ITERATION_LIMIT THEN "stop" ELSE "reset"
    /\ UNCHANGED <<pc, prog, Stop, next, deadlock>>

StopAll(after) ==                             \* Stop = 1
    /\ main = "stop"
    /\ Stop' = TRUE
    /\ main' = after
    /\ UNCHANGED <<pc, prog, next, deadlock, iter>>

Join ==                                       \* pthread_join of every philosopher
    /\ main = "join"
    /\ \A p \in Phils : pc[p] = "left"
    /\ main' = "done"
    /\ UNCHANGED <<pc, prog, Stop, next, deadlock, iter>>

Accounting == Reset \/ Check \/ Period

TableTypeOK ==
    /\ prog \in [Phils -> BOOLEAN]
    /\ Stop \in BOOLEAN
    /\ next \in Phils
    /\ deadlock \in BOOLEAN
    /\ iter \in 0 .. ITERATION_LIMIT

=============================================================================
