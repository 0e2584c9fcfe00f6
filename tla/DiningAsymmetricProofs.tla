----------------------- MODULE DiningAsymmetricProofs -----------------------
(***************************************************************************)
(* Proofs about DiningAsymmetric, for any number of philosophers from two  *)
(* on.                                                                     *)
(***************************************************************************)
EXTENDS DiningAsymmetric, TLAPS

-----------------------------------------------------------------------------
(* The seating *)

\* Neighbours, chopsticks and the parity of a seat, without IF and remainder.
LEMMA Seating ==
  ASSUME NEW p \in Phils
  PROVE  /\ left_phil(p) \in Phils /\ right_phil(p) \in Phils
         /\ left_phil(p) # p /\ right_phil(p) # p
         /\ right_phil(left_phil(p)) = p /\ left_phil(right_phil(p)) = p
         /\ left_chop(p) \in Chops /\ right_chop(p) \in Chops
         /\ left_chop(p) # right_chop(p)
         /\ right_chop(left_phil(p)) = left_chop(p)
         /\ left_chop(right_phil(p)) = right_chop(p)
BY TableAssumption DEF left_phil, right_phil, left_chop, right_chop, Phils, Chops

\* The two chopsticks of a philosopher are its first and its second.
LEMMA FirstAndSecond ==
  ASSUME NEW p \in Phils
  PROVE  /\ first_chop(p) \in Chops /\ second_chop(p) \in Chops
         /\ first_chop(p) # second_chop(p)
         /\ {first_chop(p), second_chop(p)} = {left_chop(p), right_chop(p)}
BY Seating DEF first_chop, second_chop

\* Away from seat 0, neighbours have different parities.
LEMMA ParityAlternates ==
  ASSUME NEW p \in Phils, p > 0
  PROVE  /\ Even(p) <=> ~Even(right_phil(p))
         /\ right_phil(p) = p - 1
BY TableAssumption DEF Even, right_phil, Phils

\* Seat 0 is even.
LEMMA ZeroIsEven == Even(0)
BY DEF Even

\* A chopstick has the two users that sit at its sides, and no other.
LEMMA TwoUsers ==
  ASSUME NEW p \in Phils, NEW q \in Phils, p # q, NEW c,
         c \in {left_chop(p), right_chop(p)}, c \in {left_chop(q), right_chop(q)}
  PROVE  \/ q = left_phil(p) /\ c = left_chop(p)
         \/ q = right_phil(p) /\ c = right_chop(p)
BY TableAssumption DEF left_phil, right_phil, left_chop, right_chop, Phils

-----------------------------------------------------------------------------
(* Type correctness *)

\* The loop of main stays among the philosophers.
LEMMA AdvanceInRange ==
  ASSUME next \in Phils, NEW after, Advance(after)
  PROVE  next' \in Phils /\ main' \in {main, after}
BY TableAssumption DEF Advance, Phils

\* Every reachable state is well typed, the period counter within its limit.
TypeInv == TypeOK /\ (main \in {"reset", "check", "period"} => iter < ITERATION_LIMIT)

\* Types hold in every reachable state, and the counter of the periods keeps its bound.
LEMMA TypeInvariant == Spec => []TypeInv
<1>1. Init => TypeInv
  <2> SUFFICES ASSUME Init PROVE TypeInv
    OBVIOUS
  <2>1. next \in Phils /\ iter \in 0 .. ITERATION_LIMIT /\ iter < ITERATION_LIMIT
    BY TableAssumption DEF Init, TableInit, Phils
  <2>2. /\ pc \in [Phils -> {"think", "hungry", "holding", "eat", "full", "tally", "left"}]
        /\ prog \in [Phils -> BOOLEAN]
    BY DEF Init, TableInit
  <2>3. QED
    BY <2>1, <2>2 DEF Init, TableInit, TypeInv, TypeOK, TableTypeOK
<1>2. TypeInv /\ [Next]_vars => TypeInv'
  <2> SUFFICES ASSUME TypeInv, [Next]_vars PROVE TypeInv'
    OBVIOUS
  <2> USE DEF TypeInv, TypeOK, TableTypeOK, mainVars
  <2>1. ASSUME NEW p \in Phils, Philosopher(p) PROVE TypeInv'
    <3>1. CASE Think(p) /\ UNCHANGED locked
      BY <3>1 DEF Think
    <3>2. CASE Tally(p) /\ UNCHANGED locked
      BY <3>2 DEF Tally, Goto
    <3>3. CASE LockFirst(p) \/ LockSecond(p)
      BY <3>3, FirstAndSecond DEF LockFirst, LockSecond, Lock, Goto
    <3>4. CASE UnlockFirst(p) \/ UnlockSecond(p)
      BY <3>4 DEF UnlockFirst, UnlockSecond, Unlock, Goto
    <3>5. QED
      BY <2>1, <3>1, <3>2, <3>3, <3>4 DEF Philosopher
  <2>2. CASE Main
    <3>1. CASE Reset /\ UNCHANGED locked
      BY <3>1, AdvanceInRange DEF Reset
    <3>2. CASE Check /\ UNCHANGED locked
      <4>1. next' \in Phils /\ main' \in {"check", "period"}
        BY <3>2, AdvanceInRange DEF Check
      <4>2. deadlock' \in BOOLEAN
        BY <3>2, Zenon DEF Check
      <4>3. QED
        BY <3>2, <4>1, <4>2 DEF Check
    <3>3. CASE Period /\ UNCHANGED locked
      BY <3>3, TableAssumption DEF Period
    <3>4. CASE (StopAll("release") \/ Join) /\ UNCHANGED locked
      BY <3>4 DEF StopAll, Join
    <3>5. CASE ReleaseChop
      BY <3>5, AdvanceInRange DEF ReleaseChop
    <3>6. QED
      BY <2>2, <3>1, <3>2, <3>3, <3>4, <3>5 DEF Main, Accounting
  <2>3. CASE UNCHANGED vars
    BY <2>3 DEF vars
  <2>4. QED
    BY <2>1, <2>2, <2>3 DEF Next, Terminated
<1>3. QED
  BY <1>1, <1>2, PTL DEF Spec

\* Every variable of every reachable state holds a value of its kind.
THEOREM TypeCorrect == Spec => []TypeOK
BY TypeInvariant, PTL DEF TypeInv

-----------------------------------------------------------------------------
(* Who holds a chopstick *)

\* What a philosopher holds depends on its own position only, and changes with it.
LEMMA HeldByPosition ==
  ASSUME TypeOK, NEW p \in Phils
  PROVE  /\ pc[p] \in {"think", "hungry", "tally", "left"} => Held(p) = {}
         /\ pc[p] = "holding" => Held(p) = {first_chop(p)}
         /\ pc[p] = "eat" => Held(p) = {first_chop(p), second_chop(p)}
         /\ pc[p] = "full" => Held(p) = {second_chop(p)}
         /\ Held(p) \subseteq {first_chop(p), second_chop(p)}
BY DEF Held

\* A philosopher that stays where it is keeps what it holds.
LEMMA HeldUnchanged ==
  ASSUME NEW p, pc'[p] = pc[p]
  PROVE  Held(p)' = Held(p)
BY DEF Held, first_chop, second_chop, left_chop, right_chop, Even

\* How each step of a philosopher changes what it holds and what is locked.
LEMMA HeldMoves ==
  ASSUME TypeOK, TypeOK', NEW p \in Phils, Philosopher(p)
  PROVE  /\ \A q \in Phils \ {p} : Held(q)' = Held(q)
         /\ UNCHANGED main
         /\ \/ Held(p)' = Held(p) /\ UNCHANGED locked
            \/ \E c \in Chops \ locked :
                  Held(p)' = Held(p) \cup {c} /\ locked' = locked \cup {c}
            \/ \E c \in Held(p) :
                  Held(p)' = Held(p) \ {c} /\ locked' = locked \ {c}
<1>1. /\ \A q \in Phils \ {p} : pc'[q] = pc[q]
      /\ UNCHANGED main
  BY DEF Philosopher, Think, Tally, LockFirst, LockSecond, UnlockFirst, UnlockSecond,
         Lock, Unlock, Goto, TypeOK, mainVars
<1>2. \A q \in Phils \ {p} : Held(q)' = Held(q)
  BY <1>1, HeldUnchanged
<1>3. /\ first_chop(p) \in Chops /\ second_chop(p) \in Chops
      /\ first_chop(p) # second_chop(p)
      /\ first_chop(p)' = first_chop(p) /\ second_chop(p)' = second_chop(p)
  BY FirstAndSecond DEF first_chop, second_chop, left_chop, right_chop, Even
<1> DEFINE a == first_chop(p)
           b == second_chop(p)
<1>4. CASE (Think(p) \/ Tally(p)) /\ UNCHANGED locked
  <2>1. Held(p) = {} /\ Held(p)' = {}
    BY <1>4 DEF Held, Think, Tally, Goto, TypeOK
  <2>2. QED
    BY <1>1, <1>2, <1>4, <2>1
<1>5. CASE LockFirst(p)
  <2>1. Held(p) = {} /\ Held(p)' = {a}
    BY <1>3, <1>5 DEF Held, LockFirst, Lock, Goto, TypeOK
  <2>2. a \in Chops \ locked /\ locked' = locked \cup {a}
    BY <1>3, <1>5 DEF LockFirst, Lock
  <2>3. QED
    BY <1>1, <1>2, <2>1, <2>2
<1>6. CASE LockSecond(p)
  <2>1. Held(p) = {a} /\ Held(p)' = {a, b}
    BY <1>3, <1>6 DEF Held, LockSecond, Lock, Goto, TypeOK
  <2>2. b \in Chops \ locked /\ locked' = locked \cup {b}
    BY <1>3, <1>6 DEF LockSecond, Lock
  <2>3. QED
    BY <1>1, <1>2, <2>1, <2>2
<1>7. CASE UnlockFirst(p)
  <2>1. Held(p) = {a, b} /\ Held(p)' = {b}
    BY <1>3, <1>7 DEF Held, UnlockFirst, Unlock, Goto, TypeOK
  <2>2. locked' = locked \ {a}
    BY <1>7 DEF UnlockFirst, Unlock
  <2>3. QED
    BY <1>1, <1>2, <1>3, <2>1, <2>2
<1>8. CASE UnlockSecond(p)
  <2>1. Held(p) = {b} /\ Held(p)' = {}
    BY <1>3, <1>8 DEF Held, UnlockSecond, Unlock, Goto, TypeOK
  <2>2. locked' = locked \ {b}
    BY <1>8 DEF UnlockSecond, Unlock
  <2>3. QED
    BY <1>1, <1>2, <2>1, <2>2
<1>9. QED
  BY <1>4, <1>5, <1>6, <1>7, <1>8 DEF Philosopher

\* A step of main moves no philosopher and locks nothing; it unlocks only after Stop.
LEMMA MainMoves ==
  ASSUME Main \/ UNCHANGED vars
  PROVE  /\ \A q \in Phils : Held(q)' = Held(q)
         /\ locked' \subseteq locked
         /\ Untouched' => Untouched /\ UNCHANGED locked
<1>1. /\ UNCHANGED pc /\ locked' \subseteq locked
      /\ Untouched' => Untouched /\ UNCHANGED locked
  BY DEF Main, Accounting, Reset, Check, Period, StopAll, Join, ReleaseChop, Advance,
         Untouched, vars, mainVars
<1>2. QED
  BY <1>1, HeldUnchanged

\* No mutex stays locked with nobody left to unlock it.
THEOREM NoOrphanLock == Spec => []LockedIsHeld
<1>1. Init => LockedIsHeld
  BY DEF Init, LockedIsHeld
<1>2. TypeOK /\ TypeOK' /\ LockedIsHeld /\ [Next]_vars => LockedIsHeld'
  <2> SUFFICES ASSUME TypeOK, TypeOK', LockedIsHeld, [Next]_vars PROVE LockedIsHeld'
    OBVIOUS
  <2> USE DEF LockedIsHeld
  <2>1. ASSUME NEW p \in Phils, Philosopher(p) PROVE LockedIsHeld'
    BY <2>1, HeldMoves
  <2>2. CASE Main \/ UNCHANGED vars
    BY <2>2, MainMoves
  <2>3. QED
    BY <2>1, <2>2 DEF Next, Terminated
<1>3. QED
  BY <1>1, <1>2, TypeCorrect, PTL DEF Spec

\* Until main unlocks the chopsticks each of them is held by one philosopher at most.
LEMMA ChopsticksHeldAlone == Spec => []HeldAlone
<1>1. Init => HeldAlone
  BY DEF Init, TableInit, HeldAlone, Held
<1>2. TypeOK /\ TypeOK' /\ HeldAlone /\ [Next]_vars => HeldAlone'
  <2> SUFFICES ASSUME TypeOK, TypeOK', HeldAlone, [Next]_vars, Untouched' PROVE HeldAlone'
    BY DEF HeldAlone
  <2>1. ASSUME NEW p \in Phils, Philosopher(p) PROVE HeldAlone'
    <3>1. Untouched
      BY <2>1, HeldMoves DEF Untouched
    <3>2. /\ \A q \in Phils : Held(q) \subseteq locked
          /\ \A q \in Phils, r \in Phils : q # r => Held(q) \cap Held(r) = {}
      BY <3>1 DEF HeldAlone
    <3>3. /\ \A q \in Phils : Held(q)' \subseteq locked'
          /\ \A q \in Phils : q # p => Held(q)' \cap Held(p)' = {}
      BY <2>1, <3>2, HeldMoves
    <3>4. \A q \in Phils, r \in Phils : q # p /\ r # p /\ q # r => Held(q)' \cap Held(r)' = {}
      BY <2>1, <3>2, HeldMoves
    <3>5. QED
      BY <3>3, <3>4 DEF HeldAlone
  <2>2. CASE Main \/ UNCHANGED vars
    BY <2>2, MainMoves DEF HeldAlone
  <2>3. QED
    BY <2>1, <2>2 DEF Next, Terminated
<1>3. QED
  BY <1>1, <1>2, TypeCorrect, PTL DEF Spec

\* A philosopher that eats holds both its chopsticks, and one of them is also its
\* neighbour's.
THEOREM MutualExclusion == Spec => []NeighboursExclude
<1>1. TypeOK /\ HeldAlone => NeighboursExclude
  <2> SUFFICES ASSUME TypeOK, HeldAlone, Untouched, NEW p \in Phils,
                      pc[p] = "eat", pc[left_phil(p)] = "eat"
               PROVE  FALSE
    BY DEF NeighboursExclude
  <2> DEFINE q == left_phil(p)
  <2>1. q \in Phils /\ q # p
    BY Seating
  <2>2. left_chop(p) \in Held(p)
    BY HeldByPosition, FirstAndSecond
  <2>3. right_chop(q) \in Held(q)
    BY <2>1, HeldByPosition, FirstAndSecond
  <2>4. left_chop(p) = right_chop(q)
    BY Seating
  <2>5. Held(p) \cap Held(q) = {}
    BY <2>1 DEF HeldAlone
  <2>6. QED
    BY <2>2, <2>3, <2>4, <2>5
<1>2. QED
  BY <1>1, TypeCorrect, ChopsticksHeldAlone, PTL

-----------------------------------------------------------------------------
(* No circle of waiting philosophers *)

\* If everybody were blocked, a chopstick somebody waits for would be the first one
\* of a neighbour that waits for its second.
LEMMA BlockedOnHolder ==
  ASSUME TypeOK, LockedIsHeld, \A p \in Phils : Blocked(p), NEW c \in locked
  PROVE  \E q \in Phils : pc[q] = "holding" /\ c = first_chop(q)
<1>1. PICK q \in Phils : c \in Held(q)
  BY DEF LockedIsHeld
<1>2. pc[q] \in {"hungry", "holding"}
  BY DEF Blocked
<1>3. QED
  BY <1>1, <1>2, HeldByPosition

\* Only philosopher 0 can then wait for its second chopstick: elsewhere the chopstick
\* between two neighbours is the first one of both or the second one of both.
LEMMA OnlyZeroHolds ==
  ASSUME TypeOK, LockedIsHeld, \A p \in Phils : Blocked(p),
         NEW p \in Phils, pc[p] = "holding"
  PROVE  p = 0
<1> SUFFICES ASSUME p > 0 PROVE FALSE
  BY DEF Phils
<1>1. second_chop(p) \in locked
  BY DEF Blocked
<1>2. PICK q \in Phils : pc[q] = "holding" /\ second_chop(p) = first_chop(q)
  BY <1>1, BlockedOnHolder
<1>3. q # p
  BY <1>2, FirstAndSecond
<1>4. \/ q = left_phil(p) /\ second_chop(p) = left_chop(p)
      \/ q = right_phil(p) /\ second_chop(p) = right_chop(p)
  <2>1. /\ second_chop(p) \in {left_chop(p), right_chop(p)}
        /\ first_chop(q) \in {left_chop(q), right_chop(q)}
    BY FirstAndSecond
  <2>2. QED
    BY <1>2, <1>3, <2>1, TwoUsers
<1>5. CASE Even(p)
  <2>1. second_chop(p) = right_chop(p)
    BY <1>5 DEF second_chop
  <2>2. q = right_phil(p) /\ ~Even(q) /\ left_chop(q) = right_chop(p)
    BY <1>4, <1>5, <2>1, ParityAlternates, Seating
  <2>3. first_chop(q) # left_chop(q)
    BY <2>2, Seating DEF first_chop
  <2>4. QED
    BY <1>2, <2>1, <2>2, <2>3
<1>6. CASE ~Even(p)
  <2>1. second_chop(p) = left_chop(p)
    BY <1>6 DEF second_chop
  <2>2. q = left_phil(p) /\ right_chop(q) = left_chop(p)
    BY <1>4, <2>1, Seating
  <2>3. Even(q)
    BY <1>6, <2>2, ParityAlternates, ZeroIsEven, Seating DEF Phils
  <2>4. first_chop(q) # right_chop(q)
    BY <2>2, <2>3, Seating DEF first_chop
  <2>5. QED
    BY <1>2, <2>1, <2>2, <2>4
<1>7. QED
  BY <1>5, <1>6

\* However many philosophers there are, one of them can go on.
THEOREM NoCircularWait == Spec => []SomebodyMoves
<1>1. TypeOK /\ LockedIsHeld => SomebodyMoves
  <2> SUFFICES ASSUME TypeOK, LockedIsHeld, \A p \in Phils : Blocked(p) PROVE FALSE
    BY DEF SomebodyMoves
  <2> DEFINE m == NUM_PHILS - 1
  <2>1. m \in Phils /\ 0 \in Phils /\ m > 0
    BY TableAssumption DEF Phils
  <2>2. pc[m] = "hungry" /\ first_chop(m) \in locked
    BY <2>1, OnlyZeroHolds DEF Blocked
  <2>3. pc[0] = "holding" /\ first_chop(m) = first_chop(0)
    BY <2>1, <2>2, BlockedOnHolder, OnlyZeroHolds
  <2>4. first_chop(0) = 0 /\ second_chop(0) = m
    BY ZeroIsEven DEF first_chop, second_chop, left_chop, right_chop
  <2>5. second_chop(0) \in locked
    BY <2>1, <2>3 DEF Blocked
  <2>6. second_chop(0) = first_chop(0)
    BY <2>5, BlockedOnHolder, OnlyZeroHolds
  <2>7. QED
    BY <2>1, <2>4, <2>6
<1>2. QED
  BY <1>1, TypeCorrect, NoOrphanLock, PTL

=============================================================================
