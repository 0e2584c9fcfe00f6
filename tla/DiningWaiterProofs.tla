------------------------- MODULE DiningWaiterProofs -------------------------
(***************************************************************************)
(* Proofs about DiningWaiter, for any number of philosophers from two on.  *)
(***************************************************************************)
EXTENDS DiningWaiter, TLAPS

-----------------------------------------------------------------------------
(* The seating *)

\* Neighbours and chopsticks.
LEMMA Seating ==
  ASSUME NEW p \in Phils
  PROVE  /\ left_phil(p) \in Phils /\ right_phil(p) \in Phils
         /\ left_chop(p) \in Chops /\ right_chop(p) \in Chops
         /\ left_chop(p) # right_chop(p)
BY TableAssumption DEF left_phil, right_phil, left_chop, right_chop, Phils, Chops

\* Who shares a chopstick with p sits beside p.
LEMMA SharedWithNeighbours ==
  ASSUME NEW p \in Phils, NEW q \in Phils, p # q,
         {left_chop(q), right_chop(q)} \cap {left_chop(p), right_chop(p)} # {}
  PROVE  q \in {left_phil(p), right_phil(p)}
BY TableAssumption DEF left_phil, right_phil, left_chop, right_chop, Phils, Chops

-----------------------------------------------------------------------------
(* Type correctness *)

\* The loop of main stays among the philosophers.
LEMMA AdvanceInRange ==
  ASSUME next \in Phils, NEW after, Advance(after)
  PROVE  next' \in Phils /\ main' \in {main, after}
BY TableAssumption DEF Advance, Phils

\* The periods are below their limit wherever one may still be counted.
TypeInv == TypeOK /\ (main \in {"reset", "check", "period"} => iter < ITERATION_LIMIT)

\* The table is laid within TypeInv.
LEMMA TypeInvInit == Init => TypeInv
<1> SUFFICES ASSUME Init PROVE TypeInv
  OBVIOUS
<1>1. next \in Phils /\ iter \in 0 .. ITERATION_LIMIT /\ iter < ITERATION_LIMIT
  BY TableAssumption DEF Init, TableInit, Phils
<1> QED
  BY <1>1 DEF Init, TableInit, TypeInv, TypeOK, TableTypeOK

\* A philosopher that moves, or is woken, keeps the types.
LEMMA TypeInvPhilosopher ==
  ASSUME TypeInv, NEW p \in Phils, Philosopher(p) \/ SpuriousWakeup(p)
  PROVE  TypeInv'
<1> USE DEF TypeInv, TypeOK, TableTypeOK, mainVars
<1>1. CASE Think(p) /\ UNCHANGED available_chopsticks
  BY <1>1 DEF Think
<1>2. CASE Tally(p) /\ UNCHANGED available_chopsticks
  BY <1>2 DEF Tally, Goto
<1>3. CASE Wait(p)
  BY <1>3 DEF Wait
<1>4. CASE Take(p)
  BY <1>4 DEF Take
<1>5. CASE PutDown(p)
  BY <1>5 DEF PutDown
<1>6. CASE SpuriousWakeup(p)
  BY <1>6 DEF SpuriousWakeup, Goto
<1> QED
  BY <1>1, <1>2, <1>3, <1>4, <1>5, <1>6 DEF Philosopher

\* So does main.
LEMMA TypeInvMain == TypeInv /\ Main => TypeInv'
<1> SUFFICES ASSUME TypeInv, Main PROVE TypeInv'
  OBVIOUS
<1> USE DEF TypeInv, TypeOK, TableTypeOK
<1>1. CASE Reset /\ UNCHANGED available_chopsticks
  BY <1>1, AdvanceInRange DEF Reset
<1>2. CASE Check /\ UNCHANGED available_chopsticks
  <2>1. deadlock' \in BOOLEAN
    BY <1>2, Zenon DEF Check
  <2>2. next' \in Phils /\ main' \in {"check", "period"}
    BY <1>2, AdvanceInRange DEF Check
  <2> QED
    BY <1>2, <2>1, <2>2 DEF Check
<1>3. CASE Period /\ UNCHANGED available_chopsticks
  BY <1>3, TableAssumption DEF Period
<1>4. CASE StopAll("join") /\ UNCHANGED available_chopsticks
  BY <1>4 DEF StopAll
<1>5. CASE Join /\ UNCHANGED available_chopsticks
  BY <1>5 DEF Join
<1> QED
  BY <1>1, <1>2, <1>3, <1>4, <1>5 DEF Main, Accounting

\* Every variable keeps its kind, and the period counter its limit.
LEMMA TypeInvCorrect == Spec => []TypeInv
<1>1. TypeInv /\ [Next]_vars => TypeInv'
  <2>1. TypeInv /\ UNCHANGED vars => TypeInv'
    BY DEF TypeInv, TypeOK, TableTypeOK, vars, mainVars
  <2> QED
    BY <2>1, TypeInvPhilosopher, TypeInvMain DEF Next, Terminated
<1> QED
  BY <1>1, TypeInvInit, PTL DEF Spec

\* Whatever the number of philosophers and periods: every variable keeps its type.
THEOREM TypeCorrect == Spec => []TypeOK
BY TypeInvCorrect, PTL DEF TypeInv

-----------------------------------------------------------------------------
(* Chopsticks and wakeups *)

\* main moves no philosopher and no chopstick.
LEMMA MainMovesNobody == Main => UNCHANGED <<pc, available_chopsticks>>
BY DEF Main, Accounting, Reset, Check, Period, StopAll, Join

\* A chopstick is marked as taken by somebody who goes on to eat with it, and somebody
\* who stops eating marks both as free, also one a neighbour has marked meanwhile.
THEOREM ChopsticksAreKept == Spec => []NoChopstickLost
<1>1. Init => NoChopstickLost
  BY DEF Init, NoChopstickLost
<1>2. TypeOK /\ NoChopstickLost /\ [Next]_vars => NoChopstickLost'
  <2> SUFFICES ASSUME TypeOK, NoChopstickLost, [Next]_vars,
                      NEW c \in Chops, available_chopsticks'[c] = 0
               PROVE  \E q \in Users(c) : pc'[q] = "eat"
    BY DEF NoChopstickLost, Users
  <2> USE Seating DEF TypeOK, NoChopstickLost, Users
  <2>1. ASSUME NEW p \in Phils,
               \/ (Think(p) \/ Tally(p)) /\ UNCHANGED available_chopsticks
               \/ Wait(p) \/ SpuriousWakeup(p)
        PROVE  \E q \in Users(c) : pc'[q] = "eat"
    <3>1. available_chopsticks' = available_chopsticks /\ pc[p] # "eat"
          /\ \A q \in Phils \ {p} : pc'[q] = pc[q]
      BY <2>1 DEF Think, Tally, Goto, Wait, SpuriousWakeup
    <3> QED
      BY <3>1
  <2>2. ASSUME NEW p \in Phils, Take(p) PROVE \E q \in Users(c) : pc'[q] = "eat"
    <3>1. pc' = [pc EXCEPT ![p] = "eat"]
          /\ available_chopsticks' = [available_chopsticks EXCEPT
                ![left_chop(p)] = 0, ![right_chop(p)] = 0]
      BY <2>2 DEF Take
    <3>2. CASE c \in {left_chop(p), right_chop(p)}
      BY <3>1, <3>2
    <3>3. CASE c \notin {left_chop(p), right_chop(p)}
      BY <3>1, <3>3
    <3> QED
      BY <3>2, <3>3
  <2>3. ASSUME NEW p \in Phils, PutDown(p) PROVE \E q \in Users(c) : pc'[q] = "eat"
    <3>1. c \notin {left_chop(p), right_chop(p)} /\ available_chopsticks[c] = 0
      BY <2>3 DEF PutDown
    <3>2. PICK q \in Users(c) : pc[q] = "eat"
      BY <3>1
    <3>3. q # p /\ q \notin Signalled(p)
      BY <3>1, <3>2 DEF Signalled
    <3> QED
      BY <2>3, <3>2, <3>3 DEF PutDown
  <2>4. CASE Main \/ UNCHANGED vars
    BY <2>4, MainMovesNobody DEF vars
  <2> QED
    BY <2>1, <2>2, <2>3, <2>4 DEF Next, Philosopher, Terminated
<1> QED
  BY <1>1, <1>2, TypeCorrect, PTL DEF Spec

\* A philosopher waits only as long as it lacks both chopsticks: only the two
\* neighbours can free one of them, and both are signalled.
THEOREM NoWakeupIsLost == Spec => []NoLostWakeup
<1>1. Init => NoLostWakeup
  BY DEF Init, TableInit, NoLostWakeup
<1>2. TypeOK /\ NoLostWakeup /\ [Next]_vars => NoLostWakeup'
  <2> SUFFICES ASSUME TypeOK, NoLostWakeup, [Next]_vars,
                      NEW q \in Phils, pc'[q] = "waiting"
               PROVE  MustWait(q)'
    BY DEF NoLostWakeup
  <2> USE Seating DEF TypeOK, NoLostWakeup, MustWait
  <2>1. ASSUME NEW p \in Phils,
               \/ (Think(p) \/ Tally(p)) /\ UNCHANGED available_chopsticks
               \/ Wait(p) \/ SpuriousWakeup(p)
        PROVE  MustWait(q)'
    BY <2>1 DEF Think, Tally, Goto, Wait, SpuriousWakeup
  <2>2. ASSUME NEW p \in Phils, Take(p) PROVE MustWait(q)'
    <3>1. pc[q] = "waiting" /\ MustWait(q)
      BY <2>2 DEF Take
    <3>2. \A c \in Chops : available_chopsticks[c] # 1 => available_chopsticks'[c] # 1
      BY <2>2 DEF Take
    <3> QED
      BY <3>1, <3>2
  <2>3. ASSUME NEW p \in Phils, PutDown(p) PROVE MustWait(q)'
    <3>1. q # p /\ q \notin Signalled(p) /\ pc[q] = "waiting"
      BY <2>3 DEF PutDown
    <3>2. {left_chop(q), right_chop(q)} \cap {left_chop(p), right_chop(p)} = {}
      BY <3>1, SharedWithNeighbours DEF Signalled
    <3> QED
      BY <2>3, <3>1, <3>2 DEF PutDown
  <2>4. CASE Main \/ UNCHANGED vars
    BY <2>4, MainMovesNobody DEF vars
  <2> QED
    BY <2>1, <2>2, <2>3, <2>4 DEF Next, Philosopher, Terminated
<1> QED
  BY <1>1, <1>2, TypeCorrect, PTL DEF Spec
=============================================================================
