-------------------------- MODULE JobControlProofs --------------------------
(***************************************************************************)
(* Proofs about JobControl, for any number of children and whatever number *)
(* the end of an empty list is read as.                                    *)
(***************************************************************************)
EXTENDS JobControl, FiniteSetTheorems, SequenceTheorems, TLAPS

\* What can become of a child, and what the list says of one.
States == {"none", "held", "running", "stopped", "resumed", "zombie", "reaped"}
JobRecords == [m_pid : Pids, m_id : Int, mySt : {"RUNNING", "TERMINATED"}]

-----------------------------------------------------------------------------
(* What is erased from the list *)

\* The new list is the old one without some of the jobs in gone: the others stand
\* on it in the same order.
Shrinks(gone) ==
    /\ jobs' \in Seq(JobRecords)
    /\ \E place \in [DOMAIN jobs' -> DOMAIN jobs] :
          /\ \A k \in DOMAIN jobs' : jobs'[k] = jobs[place[k]]
          /\ \A j, k \in DOMAIN jobs' : j < k => place[j] < place[k]
          /\ \A m \in DOMAIN jobs \ gone : \E k \in DOMAIN jobs' : place[k] = m

\* The list that updateJobList leaves is the one before without the marked jobs.
LEMMA LockShrinks ==
  ASSUME TypeOK, Lock
  PROVE  Shrinks(DOMAIN jobs \ Unmarked)
<1> DEFINE n == Cardinality(Unmarked)
<1>1. jobs \in Seq(JobRecords) /\ DOMAIN jobs = 1 .. Len(jobs) /\ Len(jobs) \in Nat
  BY DEF TypeOK, JobRecords
<1>2. n \in Nat
  <2>1. IsFiniteSet(DOMAIN jobs)
    BY <1>1, FS_Interval
  <2>2. Unmarked \subseteq DOMAIN jobs
    BY DEF Unmarked
  <2>3. QED
    BY <2>1, <2>2, FS_Subset, FS_CardinalityType
<1>3. PICK place \in Bijection(1 .. n, Unmarked) :
         /\ \A j, k \in DOMAIN place : j < k => place[j] < place[k]
         /\ jobs' = [k \in DOMAIN place |-> jobs[place[k]]]
  BY DEF Lock
<1> HIDE DEF n
<1>4. /\ place \in [1 .. n -> Unmarked]
      /\ \A m \in Unmarked : \E k \in 1 .. n : place[k] = m
  BY <1>3 DEF Bijection, Injection, Surjection
<1>5. DOMAIN place = 1 .. n /\ place \in [1 .. n -> DOMAIN jobs]
  BY <1>4 DEF Unmarked
<1>6. \A k \in 1 .. n : jobs[place[k]] \in JobRecords
  BY <1>1, <1>5, ElementOfSeq
<1>7. jobs' \in Seq(JobRecords) /\ DOMAIN jobs' = 1 .. n
  BY <1>2, <1>3, <1>5, <1>6, IsASeq
<1>8. QED
  BY <1>3, <1>4, <1>5, <1>7 DEF Shrinks

\* A job that is erased leaves the others.
LEMMA EraseShrinks ==
  ASSUME TypeOK, at \in DOMAIN jobs, Erase
  PROVE  Shrinks({at})
<1> DEFINE before == SubSeq(jobs, 1, at - 1)
           after == SubSeq(jobs, at + 1, Len(jobs))
           place == [k \in DOMAIN jobs' |-> IF k < at THEN k ELSE k + 1]
<1>1. /\ jobs \in Seq(JobRecords) /\ DOMAIN jobs = 1 .. Len(jobs) /\ Len(jobs) \in Nat
      /\ at \in 1 .. Len(jobs)
  BY DEF TypeOK, JobRecords
<1>2. jobs' = before \o after
  BY DEF Erase, Seqs!RemoveAt
<1>3. /\ before \in Seq(JobRecords) /\ Len(before) = at - 1
      /\ \A k \in 1 .. at - 1 : before[k] = jobs[k]
  BY <1>1, SubSeqProperties
<1>4. /\ after \in Seq(JobRecords) /\ Len(after) = Len(jobs) - at
      /\ \A k \in 1 .. Len(jobs) - at : after[k] = jobs[k + at]
  BY <1>1, SubSeqProperties
<1> HIDE DEF before, after
<1>5. /\ jobs' \in Seq(JobRecords) /\ Len(jobs') = Len(jobs) - 1
      /\ \A k \in 1 .. Len(jobs) - 1 :
            jobs'[k] = IF k <= at - 1 THEN before[k] ELSE after[k - (at - 1)]
  <2>1. /\ jobs' \in Seq(JobRecords) /\ Len(jobs') = Len(before) + Len(after)
        /\ \A k \in 1 .. Len(before) + Len(after) :
              jobs'[k] = IF k <= Len(before) THEN before[k] ELSE after[k - Len(before)]
    BY <1>2, <1>3, <1>4, ConcatProperties
  <2>2. Len(before) + Len(after) = Len(jobs) - 1
    BY <1>1, <1>3, <1>4
  <2>3. QED
    BY <1>3, <2>1, <2>2
<1>6. DOMAIN jobs' = 1 .. Len(jobs) - 1
  BY <1>5
<1>7. /\ place \in [DOMAIN jobs' -> DOMAIN jobs]
      /\ \A j, k \in DOMAIN jobs' : j < k => place[j] < place[k]
  BY <1>1, <1>6
<1>8. ASSUME NEW k \in DOMAIN jobs' PROVE jobs'[k] = jobs[place[k]]
  <2>1. CASE k < at
    <3>1. jobs'[k] = before[k] /\ before[k] = jobs[k]
      BY <1>1, <1>3, <1>5, <1>6, <2>1
    <3>2. QED
      BY <2>1, <3>1
  <2>2. CASE k >= at
    <3>1. k - (at - 1) \in 1 .. Len(jobs) - at /\ k - (at - 1) + at = k + 1
      BY <1>1, <1>6, <2>2
    <3>2. jobs'[k] = after[k - (at - 1)] /\ after[k - (at - 1)] = jobs[k + 1]
      BY <1>1, <1>4, <1>5, <1>6, <2>2, <3>1
    <3>3. QED
      BY <1>1, <1>6, <2>2, <3>2
  <2>3. QED
    BY <1>1, <1>6, <2>1, <2>2
<1>9. ASSUME NEW m \in DOMAIN jobs \ {at} PROVE \E k \in DOMAIN jobs' : place[k] = m
  <2>1. CASE m < at
    BY <1>1, <1>6, <2>1
  <2>2. CASE m > at
    <3>1. m - 1 \in DOMAIN jobs' /\ place[m - 1] = m
      BY <1>1, <1>6, <2>2
    <3>2. QED
      BY <3>1
  <2>3. QED
    BY <1>1, <2>1, <2>2
<1> HIDE DEF place
<1>10. QED
  BY <1>5, <1>7, <1>8, <1>9 DEF Shrinks

-----------------------------------------------------------------------------
(* Type correctness *)

\* The children are numbered in the order they are forked, and while the loop works on
\* a child it holds the number of one.
ForkInv ==
    /\ \E n \in 0 .. MaxChildren : \A p \in Pids : child[p] # "none" <=> p <= n
    /\ main \in {"forked", "adding", "pushed", "stages", "waiting", "killing"}
          => current \in Pids

\* The children were forked one after the other.
LEMMA ForkedCounts ==
  ASSUME ForkInv
  PROVE  /\ Forked \in 0 .. MaxChildren
         /\ \A p \in Pids : child[p] # "none" <=> p <= Forked
<1>1. PICK n \in 0 .. MaxChildren : \A p \in Pids : child[p] # "none" <=> p <= n
  BY DEF ForkInv
<1>2. {p \in Pids : child[p] # "none"} = 1 .. n
  BY <1>1, JobAssumption DEF Pids
<1>3. Cardinality(1 .. n) = n
  BY <1>1, JobAssumption, FS_Interval
<1>4. QED
  BY <1>1, <1>2, <1>3 DEF Forked

\* Fork gives the next number to a child that did not exist.
LEMMA ForkIsNew ==
  ASSUME TypeOK, ForkInv, NEW k, NEW state, NEW next, state # "none", Fork(k, state, next)
  PROVE  \E new \in Pids :
            /\ child[new] = "none" /\ child' = [child EXCEPT ![new] = state]
            /\ kind' = [kind EXCEPT ![new] = k]
            /\ current' = new /\ main' = next
            /\ \A p \in Pids : child'[p] # "none" <=> p <= new
<1>1. /\ Forked \in 0 .. MaxChildren /\ MaxChildren \in Nat
      /\ \A p \in Pids : child[p] # "none" <=> p <= Forked
  BY ForkedCounts, JobAssumption
<1>2. Forked + 1 \in Pids /\ child[Forked + 1] = "none"
  BY <1>1 DEF Fork, Pids
<1>3. \A p \in Pids : child'[p] # "none" <=> p <= Forked + 1
  BY <1>1, <1>2 DEF Fork, Pids, TypeOK
<1>4. QED
  BY <1>2, <1>3 DEF Fork

\* The four places the loop forks at, by what the child is for and where the loop goes.
Forks(k, state, next) ==
    /\ Fork(k, state, next)
    /\ main \in {"prompt", "stages"}
    /\ \/ k = "job" /\ state \in {"held", "running"} /\ next = "forked"
       \/ k = "foreground" /\ state = "running" /\ next = "waiting"
       \/ k = "stage" /\ state = "running" /\ next = "stages"

\* Every fork is of a job, of a foreground command or of a stage.
LEMMA ForkPlaces ==
  ASSUME Background \/ Foreground \/ Stage \/ LastStage
  PROVE  \E k \in {"job", "foreground", "stage"}, state \in {"held", "running"},
            next \in {"forked", "waiting", "stages"} : Forks(k, state, next)
<1>1. CASE Background
  <2>1. PICK state \in {"held", "running"} : Fork("job", state, "forked") /\ main = "prompt"
    BY <1>1 DEF Background
  <2>2. Forks("job", state, "forked")
    BY <2>1 DEF Forks
  <2>3. QED
    BY <2>2
<1>2. CASE Foreground \/ LastStage
  <2>1. Forks("foreground", "running", "waiting")
    BY <1>2 DEF Foreground, LastStage, Forks
  <2>2. QED
    BY <2>1
<1>3. CASE Stage
  <2>1. Forks("stage", "running", "stages")
    BY <1>3 DEF Stage, Forks
  <2>2. QED
    BY <2>1
<1>4. QED
  BY <1>1, <1>2, <1>3

\* The steps of the loop that fork nothing.
Work == ReadId \/ Push \/ Release \/ WaitReturns \/ Lookup \/ Signal \/ Exit

\* The kinds of steps there are.
LEMMA NextCases ==
  ASSUME [Next]_vars
  PROVE  \/ \E k \in {"job", "foreground", "stage"}, state \in {"held", "running"},
                next \in {"forked", "waiting", "stages"} : Forks(k, state, next)
         \/ Work \/ Handler
         \/ \E p \in Pids : Die(p)
         \/ UNCHANGED vars
BY ForkPlaces DEF Next, Obey, Command, Work, Ended

\* Every step keeps the types and the order of the forks.
LEMMA TypeStep ==
  ASSUME TypeOK, ForkInv, [Next]_vars
  PROVE  TypeOK' /\ ForkInv'
<1> USE DEF States
<1>1. /\ jobs \in Seq(JobRecords) /\ DOMAIN jobs = 1 .. Len(jobs) /\ Len(jobs) \in Nat
      /\ child \in [Pids -> States] /\ current \in Pids \cup {0} /\ 0 \notin Pids
      /\ at \in 1 .. Len(jobs) + 1
  BY DEF TypeOK, JobRecords, Pids
<1>2. \A k \in DOMAIN jobs : jobs[k] \in JobRecords /\ jobs[k].m_pid \in Pids
  <2>1. \A k \in DOMAIN jobs : jobs[k] \in JobRecords
    BY <1>1, ElementOfSeq
  <2>2. QED
    BY <2>1 DEF JobRecords
<1>3. PICK n \in 0 .. MaxChildren : \A p \in Pids : child[p] # "none" <=> p <= n
  BY DEF ForkInv
<1>4. ASSUME NEW k \in {"job", "foreground", "stage"}, NEW state \in {"held", "running"},
             NEW next \in {"forked", "waiting", "stages"}, Forks(k, state, next)
      PROVE  TypeOK' /\ ForkInv'
  <2>1. PICK new \in Pids :
            /\ child' = [child EXCEPT ![new] = state]
            /\ kind' = [kind EXCEPT ![new] = k]
            /\ current' = new /\ main' = next
            /\ \A p \in Pids : child'[p] # "none" <=> p <= new
    BY <1>4, ForkIsNew DEF Forks
  <2>2. UNCHANGED <<continued, pending, jobs, newId, handler, at>>
    BY <1>4 DEF Forks, Fork
  <2>3. TypeOK'
    BY <2>1, <2>2 DEF TypeOK
  <2>4. new \in 0 .. MaxChildren
    BY JobAssumption DEF Pids
  <2>5. QED
    BY <2>1, <2>3, <2>4 DEF ForkInv
<1>5. CASE Work
  <2>1. CASE ReadId
    <3>1. newId' \in Int
      <4>1. CASE jobs = <<>>
        BY <2>1, <4>1, JobAssumption DEF ReadId
      <4>2. CASE jobs # <<>>
        <5>1. Len(jobs) \in DOMAIN jobs
          BY <1>1, <4>2
        <5>2. QED
          BY <1>2, <2>1, <4>2, <5>1 DEF ReadId, JobRecords
      <4>3. QED
        BY <4>1, <4>2
    <3>2. QED
      BY <2>1, <3>1 DEF ReadId, kernel, TypeOK, ForkInv
  <2>2. CASE Push
    <3>1. /\ jobs' \in Seq(JobRecords) /\ Len(jobs') = Len(jobs) + 1
      <4>1. [m_pid |-> current, m_id |-> newId, mySt |-> "RUNNING"] \in JobRecords
        BY <2>2 DEF Push, TypeOK, ForkInv, JobRecords
      <4>2. QED
        BY <1>1, <2>2, <4>1, AppendProperties DEF Push
    <3>2. at' \in 1 .. Len(jobs') + 1
      BY <1>1, <2>2, <3>1 DEF Push
    <3>3. QED
      BY <2>2, <3>1, <3>2 DEF Push, kernel, TypeOK, ForkInv, JobRecords
  <2>3. CASE Release
    <3>1. /\ child' \in [Pids -> States]
          /\ \A p \in Pids : child'[p] # "none" <=> child[p] # "none"
      BY <1>1, <2>3 DEF Release
    <3>2. QED
      BY <1>3, <2>3, <3>1 DEF Release, TypeOK, ForkInv
  <2>4. CASE WaitReturns
    <3>1. /\ child' \in [Pids -> States]
          /\ \A p \in Pids : child'[p] # "none" <=> child[p] # "none"
      BY <1>1, <2>4 DEF WaitReturns, Reaped
    <3>2. QED
      BY <1>3, <2>4, <3>1 DEF WaitReturns, TypeOK, ForkInv
  <2>5. CASE Lookup
    BY <1>2, <2>5 DEF Lookup, kernel, TypeOK, ForkInv
  <2>6. CASE Signal
    <3>1. PICK state \in Outcomes(child[current]) :
             /\ child' = [child EXCEPT ![current] = state]
             /\ pending' = (pending \/ state # child[current])
             /\ continued' = IF state = child[current] THEN continued
                             ELSE IF state = "resumed" THEN continued \cup {current}
                             ELSE continued \ {current}
      BY <2>6 DEF Signal
    <3>2. /\ state \in States /\ (state # "none" <=> child[current] # "none")
          /\ current \in Pids
      BY <1>1, <2>6, <3>1 DEF Signal, Outcomes, ForkInv
    <3>3. /\ child' \in [Pids -> States]
          /\ \A p \in Pids : child'[p] # "none" <=> child[p] # "none"
      BY <1>1, <3>1, <3>2
    <3>4. continued' \subseteq Pids
      BY <3>1, <3>2 DEF TypeOK
    <3>5. pending' \in BOOLEAN
      BY <3>1, Zenon
    <3>6. QED
      BY <1>3, <2>6, <3>3, <3>4, <3>5 DEF Signal, TypeOK, ForkInv
  <2>7. CASE Exit
    BY <2>7 DEF Exit, kernel, TypeOK, ForkInv
  <2>8. QED
    BY <1>5, <2>1, <2>2, <2>3, <2>4, <2>5, <2>6, <2>7 DEF Work
<1>6. CASE Handler
  <2> USE DEF kernel, loop
  <2>1. CASE Deliver
    BY <2>1 DEF Deliver, TypeOK, ForkInv
  <2>2. CASE WaitAny
    <3>1. /\ child' \in [Pids -> States]
          /\ \A p \in Pids : child'[p] # "none" <=> child[p] # "none"
      BY <1>1, <2>2 DEF WaitAny, Reaped
    <3>2. QED
      BY <1>3, <2>2, <3>1 DEF WaitAny, TypeOK, ForkInv
  <2>3. CASE Lock
    <3>1. jobs' \in Seq(JobRecords)
      BY <2>3, LockShrinks DEF Shrinks
    <3>2. at' \in 1 .. Len(jobs') + 1
      <4>1. Len(jobs') \in Nat
        BY <3>1
      <4>2. QED
        BY <2>3, <4>1 DEF Lock
    <3>3. QED
      BY <2>3, <3>1, <3>2 DEF Lock, TypeOK, ForkInv, JobRecords
  <2>4. CASE Poll /\ at > Len(jobs)
    <3>1. at' \in 1 .. Len(jobs') + 1
      BY <1>1, <2>4 DEF Poll
    <3>2. QED
      BY <2>4, <3>1 DEF Poll, TypeOK, ForkInv
  <2>5. CASE Poll /\ at <= Len(jobs)
    <3> DEFINE p == jobs[at].m_pid
    <3>1. at \in DOMAIN jobs /\ p \in Pids
      BY <1>1, <1>2, <2>5
    <3>2. CASE ~Alive(p) \/ p \in continued
      <4>1. /\ child' \in [Pids -> States]
            /\ \A q \in Pids : child'[q] # "none" <=> child[q] # "none"
        BY <1>1, <2>5, <3>1, <3>2 DEF Poll, Reaped
      <4>2. Erase /\ continued' = continued \ {p}
        BY <1>1, <2>5, <3>2 DEF Poll
      <4>3. jobs' \in Seq(JobRecords)
        BY <3>1, <4>2, EraseShrinks DEF Shrinks
      <4>4. at' \in 1 .. Len(jobs') + 1
        <5>1. Len(jobs') \in Nat
          BY <4>3
        <5>2. QED
          BY <4>2, <5>1 DEF Erase
      <4>5. QED
        BY <1>3, <2>5, <4>1, <4>2, <4>3, <4>4 DEF Poll, Erase, TypeOK, ForkInv, JobRecords
    <3>3. CASE ~(~Alive(p) \/ p \in continued)
      <4>1. at' = at + 1 /\ UNCHANGED <<child, continued, jobs, handler>>
        BY <1>1, <2>5, <3>3 DEF Poll
      <4>2. at' \in 1 .. Len(jobs') + 1
        BY <1>1, <2>5, <4>1
      <4>3. QED
        BY <2>5, <4>1, <4>2 DEF Poll, TypeOK, ForkInv
    <3>4. QED
      BY <3>2, <3>3
  <2>6. CASE Mark
    <3>1. at \in DOMAIN jobs
      BY <1>1, <2>6 DEF Mark
    <3>2. /\ child' \in [Pids -> States]
          /\ \A p \in Pids : child'[p] # "none" <=> child[p] # "none"
      BY <1>1, <1>2, <2>6, <3>1 DEF Mark, Reaped
    <3>3. jobs' \in Seq(JobRecords) /\ Len(jobs') = Len(jobs)
      <4>1. [jobs[at] EXCEPT !.mySt = "TERMINATED"] \in JobRecords
        BY <1>2, <3>1 DEF JobRecords
      <4>2. [jobs EXCEPT ![at].mySt = "TERMINATED"]
              = [jobs EXCEPT ![at] = [jobs[at] EXCEPT !.mySt = "TERMINATED"]]
        BY <1>1, <3>1
      <4>3. QED
        BY <1>1, <2>6, <3>1, <4>1, <4>2, ExceptSeq DEF Mark
    <3>4. at' \in 1 .. Len(jobs') + 1
      BY <1>1, <2>6, <3>3 DEF Mark
    <3>5. QED
      BY <1>3, <2>6, <3>2, <3>3, <3>4 DEF Mark, TypeOK, ForkInv, JobRecords
  <2>7. CASE Unlock
    BY <1>1, <2>7 DEF Unlock, TypeOK, ForkInv
  <2>8. QED
    BY <1>1, <1>6, <2>1, <2>2, <2>3, <2>4, <2>5, <2>6, <2>7 DEF Handler
<1>7. ASSUME NEW p \in Pids, Die(p) PROVE TypeOK' /\ ForkInv'
  <2>1. /\ child' \in [Pids -> States]
        /\ \A q \in Pids : child'[q] # "none" <=> child[q] # "none"
    BY <1>1, <1>7 DEF Die
  <2>2. QED
    BY <1>3, <1>7, <2>1 DEF Die, loop, TypeOK, ForkInv
<1>8. CASE UNCHANGED vars
  BY <1>8 DEF vars, kernel, loop, TypeOK, ForkInv
<1>9. QED
  BY <1>4, <1>5, <1>6, <1>7, <1>8, NextCases

\* They hold in every reachable state.
LEMMA TypeAndForks == Spec => [](TypeOK /\ ForkInv)
<1>1. Init => TypeOK /\ ForkInv
  <2> SUFFICES ASSUME Init PROVE TypeOK /\ ForkInv
    OBVIOUS
  <2>1. TypeOK
    <3>1. jobs \in Seq(JobRecords) /\ at \in 1 .. Len(jobs) + 1
      BY DEF Init
    <3>2. /\ child \in [Pids -> States]
          /\ kind \in [Pids -> {"none", "job", "foreground", "stage"}]
      BY DEF Init, States
    <3>3. pending \in BOOLEAN
      BY Zenon DEF Init
    <3>4. /\ continued \subseteq Pids
          /\ main \in {"prompt", "forked", "adding", "pushed", "stages", "waiting",
                       "killing", "exited"}
          /\ current \in Pids \cup {0} /\ newId \in Int
          /\ handler \in {"idle", "wait", "lock", "poll", "mark"}
      BY DEF Init
    <3>5. QED
      BY <3>1, <3>2, <3>3, <3>4, Zenon DEF TypeOK, JobRecords, States
  <2>2. 0 \in 0 .. MaxChildren /\ \A p \in Pids : child[p] # "none" <=> p <= 0
    BY JobAssumption DEF Init, Pids
  <2>3. QED
    BY <2>1, <2>2 DEF Init, ForkInv
<1>2. TypeOK /\ ForkInv /\ [Next]_vars => TypeOK' /\ ForkInv'
  BY TypeStep
<1>3. QED
  BY <1>1, <1>2, PTL DEF Spec

\* Every reachable state is well typed: a fork finds a number left, and the handler's
\* iterator stays on the list, also when it erases a job.
THEOREM TypeCorrect == Spec => []TypeOK
BY TypeAndForks, PTL


-----------------------------------------------------------------------------
(* The numbers of the jobs *)

\* Every job on the new list was on the old one, with its number, its child and in order.
Sublist ==
    \E place \in [DOMAIN jobs' -> DOMAIN jobs] :
       /\ \A k \in DOMAIN jobs' : /\ jobs'[k].m_pid = jobs[place[k]].m_pid
                                  /\ jobs'[k].m_id = jobs[place[k]].m_id
       /\ \A j, k \in DOMAIN jobs' : j < k => place[j] < place[k]

\* What the type says of the list.
LEMMA ListIs ==
  ASSUME TypeOK
  PROVE  /\ jobs \in Seq(JobRecords) /\ DOMAIN jobs = 1 .. Len(jobs) /\ Len(jobs) \in Nat
         /\ \A k \in DOMAIN jobs : /\ jobs[k] \in JobRecords /\ jobs[k].m_pid \in Pids
                                   /\ jobs[k].m_id \in Int
<1>1. jobs \in Seq(JobRecords) /\ DOMAIN jobs = 1 .. Len(jobs) /\ Len(jobs) \in Nat
  BY DEF TypeOK, JobRecords
<1>2. \A k \in DOMAIN jobs : jobs[k] \in JobRecords
  BY <1>1, ElementOfSeq
<1>3. QED
  BY <1>1, <1>2 DEF JobRecords

\* A list is a sublist of itself.
LEMMA SameIsSublist ==
  ASSUME TypeOK, UNCHANGED jobs
  PROVE  Sublist
<1> DEFINE place == [k \in DOMAIN jobs |-> k]
<1>1. place \in [DOMAIN jobs' -> DOMAIN jobs] /\ \A k \in DOMAIN jobs : place[k] = k
  OBVIOUS
<1> HIDE DEF place
<1>2. QED
  BY <1>1 DEF Sublist

\* One that shrinks is a sublist.
LEMMA ShrinksIsSublist ==
  ASSUME NEW gone, Shrinks(gone)
  PROVE  Sublist
BY DEF Shrinks, Sublist

\* What Mark does to the list.
LEMMA MarkKeeps ==
  ASSUME TypeOK, Mark
  PROVE  /\ at \in DOMAIN jobs /\ DOMAIN jobs' = DOMAIN jobs
         /\ \A k \in DOMAIN jobs :
               /\ jobs'[k].m_pid = jobs[k].m_pid /\ jobs'[k].m_id = jobs[k].m_id
               /\ k # at => jobs'[k].mySt = jobs[k].mySt
         /\ IF Alive(jobs[at].m_pid) THEN jobs' = jobs ELSE jobs'[at].mySt = "TERMINATED"
<1>1. /\ DOMAIN jobs = 1 .. Len(jobs) /\ Len(jobs) \in Nat
      /\ \A k \in DOMAIN jobs : jobs[k] \in JobRecords
  BY ListIs
<1>2. at \in DOMAIN jobs
  BY <1>1 DEF Mark, TypeOK
<1>3. CASE Alive(jobs[at].m_pid)
  BY <1>2, <1>3 DEF Mark
<1>4. CASE ~ Alive(jobs[at].m_pid)
  <2>1. jobs' = [jobs EXCEPT ![at].mySt = "TERMINATED"]
    BY <1>4 DEF Mark
  <2>2. DOMAIN jobs' = DOMAIN jobs
    BY <2>1
  <2>3. \A k \in DOMAIN jobs : k # at => jobs'[k] = jobs[k]
    BY <2>1
  <2>4. jobs'[at] = [jobs[at] EXCEPT !.mySt = "TERMINATED"]
    BY <1>2, <2>1
  <2>5. /\ jobs'[at].m_pid = jobs[at].m_pid /\ jobs'[at].m_id = jobs[at].m_id
        /\ jobs'[at].mySt = "TERMINATED"
    BY <1>1, <1>2, <2>4 DEF JobRecords
  <2>6. QED
    BY <1>2, <1>4, <2>2, <2>3, <2>5
<1>5. QED
  BY <1>3, <1>4

\* Where the list changes.
LEMMA ListSteps ==
  ASSUME TypeOK, [Next]_vars
  PROVE  \/ UNCHANGED jobs
         \/ Push
         \/ Lock /\ Shrinks(DOMAIN jobs \ Unmarked)
         \/ Poll /\ at \in DOMAIN jobs /\ Erase /\ Shrinks({at})
              /\ (~Alive(jobs[at].m_pid) \/ jobs[at].m_pid \in continued)
         \/ Mark
<1>1. CASE Poll /\ at <= Len(jobs)
  <2>1. at \in DOMAIN jobs
    BY <1>1, ListIs DEF TypeOK
  <2>2. QED
    BY <1>1, <2>1, EraseShrinks DEF Poll
<1>2. CASE Poll /\ ~(at <= Len(jobs))
  <2>1. at > Len(jobs)
    BY <1>2, ListIs DEF TypeOK
  <2>2. QED
    BY <1>2, <2>1 DEF Poll
<1>3. CASE \E k \in {"job", "foreground", "stage"}, state \in {"held", "running"},
              next \in {"forked", "waiting", "stages"} : Forks(k, state, next)
  BY <1>3 DEF Forks, Fork
<1>4. CASE Work
  BY <1>4 DEF Work, ReadId, Release, WaitReturns, Lookup, Signal, Exit
<1>5. CASE Handler
  BY <1>1, <1>2, <1>5, LockShrinks DEF Handler, Deliver, WaitAny, Unlock
<1>6. CASE \E p \in Pids : Die(p)
  BY <1>6 DEF Die
<1>7. CASE UNCHANGED vars
  BY <1>7 DEF vars
<1>8. QED
  BY <1>3, <1>4, <1>5, <1>6, <1>7, NextCases

\* The numbers grow along the list, and the one the loop has read is larger than all,
\* however many jobs the handler erases before the loop lists the new one.
IdInv ==
    /\ IdsIncrease
    /\ main = "adding" => \A k \in DOMAIN jobs : jobs[k].m_id < newId

\* Every step keeps the order of the numbers.
LEMMA IdStep ==
  ASSUME TypeOK, TypeOK', IdInv, [Next]_vars
  PROVE  IdInv'
<1>1. /\ DOMAIN jobs = 1 .. Len(jobs) /\ Len(jobs) \in Nat
      /\ \A k \in DOMAIN jobs : jobs[k].m_id \in Int
  BY ListIs
<1>2. CASE Push
  <2> DEFINE new == [m_pid |-> current, m_id |-> newId, mySt |-> "RUNNING"]
  <2>1. /\ DOMAIN jobs' = 1 .. Len(jobs) + 1
        /\ \A k \in DOMAIN jobs : jobs'[k] = jobs[k]
        /\ jobs'[Len(jobs) + 1].m_id = newId
    <3>1. jobs' = Append(jobs, new) /\ jobs \in Seq(JobRecords \cup {new})
      BY <1>2, ListIs DEF Push
    <3>2. new.m_id = newId
      OBVIOUS
    <3> HIDE DEF new
    <3>3. QED
      BY <1>1, <3>1, <3>2, AppendProperties
  <2>2. main = "adding" /\ main' = "pushed"
    BY <1>2 DEF Push
  <2>3. \A j, k \in DOMAIN jobs' : j < k => jobs'[j].m_id < jobs'[k].m_id
    <3>1. SUFFICES ASSUME NEW j \in DOMAIN jobs', NEW k \in DOMAIN jobs', j < k
                   PROVE  jobs'[j].m_id < jobs'[k].m_id
      OBVIOUS
    <3>2. j \in DOMAIN jobs
      BY <1>1, <2>1, <3>1
    <3>3. CASE k \in DOMAIN jobs
      BY <2>1, <3>1, <3>2, <3>3 DEF IdInv, IdsIncrease
    <3>4. CASE k \notin DOMAIN jobs
      <4>1. k = Len(jobs) + 1
        BY <1>1, <2>1, <3>4
      <4>2. QED
        BY <2>1, <2>2, <3>2, <4>1 DEF IdInv
    <3>5. QED
      BY <3>3, <3>4
  <2>4. QED
    BY <2>2, <2>3 DEF IdInv, IdsIncrease
<1>3. CASE ReadId
  <2>1. UNCHANGED jobs
    BY <1>3 DEF ReadId
  <2>2. ASSUME NEW k \in DOMAIN jobs PROVE jobs[k].m_id < newId'
    <3>1. Len(jobs) \in DOMAIN jobs /\ jobs # <<>>
      BY <1>1
    <3>2. newId' = jobs[Len(jobs)].m_id + 1
      BY <1>3, <3>1 DEF ReadId
    <3>3. CASE k = Len(jobs)
      BY <1>1, <3>1, <3>2, <3>3
    <3>4. CASE k # Len(jobs)
      <4>1. k < Len(jobs)
        BY <1>1, <3>4
      <4>2. jobs[k].m_id < jobs[Len(jobs)].m_id
        BY <3>1, <4>1 DEF IdInv, IdsIncrease
      <4>3. QED
        BY <1>1, <3>1, <3>2, <4>2
    <3>5. QED
      BY <3>3, <3>4
  <2>3. QED
    BY <2>1, <2>2 DEF IdInv, IdsIncrease
<1>4. CASE ~(Push \/ ReadId)
  <2>1. main' = "adding" => main = "adding" /\ newId' = newId
    <3>1. CASE \E k \in {"job", "foreground", "stage"}, state \in {"held", "running"},
                  next \in {"forked", "waiting", "stages"} : Forks(k, state, next)
      BY <3>1 DEF Forks, Fork
    <3>2. CASE Work
      BY <1>4, <3>2 DEF Work, Release, WaitReturns, Lookup, Signal, Exit
    <3>3. CASE Handler
      BY <3>3 DEF Handler, Deliver, WaitAny, Lock, Poll, Mark, Unlock, loop
    <3>4. CASE \E p \in Pids : Die(p)
      BY <3>4 DEF Die, loop
    <3>5. CASE UNCHANGED vars
      BY <3>5 DEF vars, loop
    <3>6. QED
      BY <3>1, <3>2, <3>3, <3>4, <3>5, NextCases
  <2>2. Sublist
    <3>1. CASE Mark
      <4> DEFINE place == [k \in DOMAIN jobs |-> k]
      <4>1. DOMAIN jobs' = DOMAIN jobs /\ place \in [DOMAIN jobs' -> DOMAIN jobs]
        BY <3>1, MarkKeeps
      <4>2. \A k \in DOMAIN jobs : place[k] = k
        OBVIOUS
      <4> HIDE DEF place
      <4>3. QED
        BY <3>1, <4>1, <4>2, MarkKeeps DEF Sublist
    <3>2. QED
      BY <1>4, <3>1, ListSteps, SameIsSublist, ShrinksIsSublist
  <2>3. PICK place \in [DOMAIN jobs' -> DOMAIN jobs] :
           /\ \A k \in DOMAIN jobs' : jobs'[k].m_id = jobs[place[k]].m_id
           /\ \A j, k \in DOMAIN jobs' : j < k => place[j] < place[k]
    BY <2>2 DEF Sublist
  <2>4. QED
    BY <2>1, <2>3 DEF IdInv, IdsIncrease
<1>5. QED
  BY <1>2, <1>3, <1>4

\* The numbers of the jobs grow along the list: kill finds the job that jobs shows,
\* although the loop reads the last number without the mutex.
THEOREM IdsAlwaysIncrease == Spec => []IdsIncrease
<1>1. Init => IdInv
  BY DEF Init, IdInv, IdsIncrease
<1>2. TypeOK /\ TypeOK' /\ IdInv /\ [Next]_vars => IdInv'
  BY IdStep
<1>3. IdInv => IdsIncrease
  BY DEF IdInv
<1>4. QED
  BY <1>1, <1>2, <1>3, TypeCorrect, PTL DEF Spec


-----------------------------------------------------------------------------
(* Running jobs stay listed *)

\* What a step that forks nothing can do to a child: the dead stay dead, nobody goes
\* back to where it was never stopped, and a death leaves a SIGCHLD behind.
ChildMoves ==
    \A p \in Pids :
       /\ child'[p] = "none" <=> child[p] = "none"
       /\ ~Alive(p) => ~Alive(p)'
       /\ child'[p] \in {"held", "running"} => child[p] \in {"held", "running"}
       /\ Alive(p) /\ ~Alive(p)' => pending'

\* Only a child that was stopped is reported as continued.
ContinuedInv == \A p \in continued : child[p] = "resumed"

\* A signal of the shell moves a child as the system may.
LEMMA SignalMoves ==
  ASSUME TypeOK, ForkInv, ContinuedInv, Signal
  PROVE  ChildMoves /\ ContinuedInv'
<1>1. current \in Pids /\ child \in [Pids -> States] /\ continued \subseteq Pids
  BY DEF Signal, ForkInv, TypeOK, States
<1>2. PICK state \in Outcomes(child[current]) :
         /\ child' = [child EXCEPT ![current] = state]
         /\ pending' = (pending \/ state # child[current])
         /\ continued' = IF state = child[current] THEN continued
                         ELSE IF state = "resumed" THEN continued \cup {current}
                         ELSE continued \ {current}
  BY DEF Signal
<1>3. /\ state = "none" <=> child[current] = "none"
      /\ child[current] \in {"zombie", "reaped"} => state = child[current]
      /\ state \in {"held", "running"} => state = child[current]
  BY <1>1, <1>2 DEF Outcomes, States
<1>4. state # child[current] => pending'
  BY <1>2, Zenon
<1>5. ChildMoves
  BY <1>1, <1>2, <1>3, <1>4 DEF ChildMoves, Alive, States
<1>6. ContinuedInv'
  <2>1. CASE state = child[current]
    <3>1. continued' = continued
      BY <1>2, <2>1
    <3>2. \A p \in Pids : child'[p] = child[p]
      BY <1>1, <1>2, <2>1
    <3>3. QED
      BY <1>1, <3>1, <3>2 DEF ContinuedInv
  <2>2. CASE state # child[current] /\ state = "resumed"
    <3>1. continued' = continued \cup {current} /\ child'[current] = "resumed"
      BY <1>1, <1>2, <2>2
    <3>2. QED
      BY <1>1, <1>2, <3>1 DEF ContinuedInv
  <2>3. CASE state # child[current] /\ state # "resumed"
    <3>1. continued' = continued \ {current}
      BY <1>2, <2>3
    <3>2. QED
      BY <1>1, <1>2, <3>1 DEF ContinuedInv
  <2>4. QED
    BY <2>1, <2>2, <2>3
<1>7. QED
  BY <1>5, <1>6

\* So do all steps but a fork.
LEMMA StepMoves ==
  ASSUME TypeOK, ForkInv, ContinuedInv,
         Work \/ Handler \/ (\E p \in Pids : Die(p)) \/ UNCHANGED vars
  PROVE  ChildMoves /\ ContinuedInv' /\ UNCHANGED kind
<1> USE DEF ChildMoves, ContinuedInv, Alive
<1>1. /\ child \in [Pids -> States] /\ continued \subseteq Pids
      /\ \A k \in DOMAIN jobs : jobs[k].m_pid \in Pids
  BY ListIs DEF TypeOK, States
<1>2. CASE Work
  <2>1. CASE ReadId \/ Push \/ Lookup \/ Exit
    BY <1>1, <2>1 DEF ReadId, Push, Lookup, Exit, kernel
  <2>2. CASE Release
    BY <1>1, <2>2 DEF Release, States
  <2>3. CASE WaitReturns
    BY <1>1, <2>3 DEF WaitReturns, Reaped, States
  <2>4. CASE Signal
    BY <2>4, SignalMoves DEF Signal
  <2>5. QED
    BY <1>2, <2>1, <2>2, <2>3, <2>4 DEF Work
<1>3. CASE Handler
  <2>1. CASE Deliver \/ Lock \/ Unlock
    BY <1>1, <2>1 DEF Deliver, Lock, Unlock, kernel
  <2>2. CASE WaitAny
    BY <1>1, <2>2 DEF WaitAny, Reaped, States
  <2>3. CASE Poll
    <3>1. kind' = kind /\ continued' \subseteq continued
      BY <2>3 DEF Poll
    <3>2. child' = child \/ \E p \in Pids : child' = Reaped(p)
      <4>1. CASE at > Len(jobs)
        BY <2>3, <4>1 DEF Poll
      <4>2. CASE ~(at > Len(jobs))
        <5>1. at \in DOMAIN jobs
          BY <4>2, ListIs DEF TypeOK
        <5>2. child' = child \/ child' = Reaped(jobs[at].m_pid)
          BY <2>3, <4>2 DEF Poll
        <5>3. QED
          BY <1>1, <5>1, <5>2
      <4>3. QED
        BY <4>1, <4>2
    <3>3. QED
      BY <1>1, <3>1, <3>2 DEF Reaped, States
  <2>4. CASE Mark
    BY <1>1, <2>4, MarkKeeps DEF Mark, Reaped, States
  <2>5. QED
    BY <1>3, <2>1, <2>2, <2>3, <2>4 DEF Handler
<1>4. ASSUME NEW p \in Pids, Die(p) PROVE ChildMoves /\ ContinuedInv' /\ UNCHANGED kind
  BY <1>1, <1>4 DEF Die, States
<1>5. CASE UNCHANGED vars
  BY <1>1, <1>5 DEF vars, kernel
<1>6. QED
  BY <1>2, <1>3, <1>4, <1>5


\* Jobs are listed once, after their child was forked and no longer while the loop is
\* about to list it; what is marked as terminated has ended.
ListedInv ==
    /\ \A k \in DOMAIN jobs :
          /\ child[jobs[k].m_pid] # "none" /\ ~Unlisted(jobs[k].m_pid)
          /\ jobs[k].mySt = "TERMINATED" => ~Alive(jobs[k].m_pid)
    /\ \A j, k \in DOMAIN jobs : jobs[j].m_pid = jobs[k].m_pid => j = k
    /\ main \in {"forked", "adding"} => child[current] # "none"

\* The jobs that must be listed.
MustList(p) == kind[p] = "job" /\ child[p] \in {"held", "running"} /\ ~Unlisted(p)

\* Every job that must be in the list is there.
AllListed ==
    \A p \in Pids : MustList(p) =>
        \E k \in DOMAIN jobs : jobs[k].m_pid = p /\ jobs[k].mySt = "RUNNING"

\* The inductive invariant of RunningAreListed.
RunningInv == ContinuedInv /\ ListedInv /\ AllListed

\* A fork keeps it: the new child is not to be listed yet.
LEMMA RunningOfFork ==
  ASSUME TypeOK, ForkInv, RunningInv,
         NEW k \in {"job", "foreground", "stage"}, NEW state \in {"held", "running"},
         NEW next \in {"forked", "waiting", "stages"}, Forks(k, state, next)
  PROVE  RunningInv'
<1> USE DEF RunningInv
<1>1. PICK new \in Pids :
          /\ child[new] = "none" /\ child' = [child EXCEPT ![new] = state]
          /\ kind' = [kind EXCEPT ![new] = k]
          /\ current' = new /\ main' = next
  BY ForkIsNew DEF Forks
<1>2. /\ UNCHANGED <<continued, jobs>> /\ main \in {"prompt", "stages"}
      /\ k = "job" <=> next = "forked"
  BY DEF Forks, Fork
<1>3. /\ child \in [Pids -> States] /\ continued \subseteq Pids
      /\ kind \in [Pids -> {"none", "job", "foreground", "stage"}]
      /\ \A m \in DOMAIN jobs : jobs[m].m_pid \in Pids
  BY ListIs DEF TypeOK, States
<1>4. \A p \in Pids : ~Unlisted(p)
  BY <1>2 DEF Unlisted
<1>5. \A p \in Pids : Unlisted(p)' => p = new
  BY <1>1 DEF Unlisted
<1>6. \A p \in Pids \ {new} : child'[p] = child[p] /\ kind'[p] = kind[p]
  BY <1>1, <1>3
<1>7. \A m \in DOMAIN jobs : jobs[m].m_pid # new
  BY <1>1 DEF ListedInv
<1>8. ContinuedInv'
  BY <1>1, <1>2, <1>3, <1>6 DEF ContinuedInv
<1>9. ListedInv'
  <2>1. ASSUME NEW m \in DOMAIN jobs
        PROVE  /\ child'[jobs[m].m_pid] # "none" /\ ~Unlisted(jobs[m].m_pid)'
               /\ jobs[m].mySt = "TERMINATED" => ~Alive(jobs[m].m_pid)'
    BY <1>2, <1>3, <1>5, <1>6, <1>7 DEF ListedInv, Alive
  <2>2. child'[current'] # "none"
    BY <1>1, <1>3
  <2>3. QED
    BY <1>2, <2>1, <2>2 DEF ListedInv, Alive, Unlisted
<1>10. AllListed'
  <2>1. ASSUME NEW p \in Pids, MustList(p)' PROVE p # new /\ MustList(p)
    <3>1. CASE p = new
      <4>1. kind'[new] = k
        BY <1>1, <1>3
      <4>2. QED
        BY <1>1, <1>2, <2>1, <3>1, <4>1 DEF MustList, Unlisted
    <3>2. CASE p # new
      BY <1>4, <1>6, <2>1, <3>2 DEF MustList
    <3>3. QED
      BY <3>1, <3>2
  <2>2. ASSUME NEW p \in Pids, MustList(p)'
        PROVE  \E m \in DOMAIN jobs' : jobs'[m].m_pid = p /\ jobs'[m].mySt = "RUNNING"
    BY <1>2, <2>1, <2>2 DEF AllListed
  <2>3. QED
    BY <2>2 DEF AllListed, MustList, Unlisted
<1>11. QED
  BY <1>8, <1>9, <1>10

\* The loop's own bookkeeping only changes which child is unlisted when it forks and
\* when it lists it.
LEMMA UnlistedStays ==
  ASSUME TypeOK,
         Work \/ Handler \/ (\E p \in Pids : Die(p)) \/ UNCHANGED vars, ~Push
  PROVE  /\ \A p \in Pids : Unlisted(p)' <=> Unlisted(p)
         /\ main' \in {"forked", "adding"}
               => main \in {"forked", "adding"} /\ current' = current
<1> USE DEF Unlisted
<1>1. CASE Work
  BY <1>1 DEF Work, ReadId, Release, WaitReturns, Lookup, Signal, Exit
<1>2. CASE Handler
  BY <1>2 DEF Handler, Deliver, WaitAny, Lock, Poll, Mark, Unlock, loop
<1>3. CASE (\E p \in Pids : Die(p)) \/ UNCHANGED vars
  BY <1>3 DEF Die, vars, loop
<1>4. QED
  BY <1>1, <1>2, <1>3

\* The new job gets into the list.
LEMMA RunningOfPush ==
  ASSUME TypeOK, ForkInv, RunningInv, Push
  PROVE  RunningInv'
<1> USE DEF RunningInv
<1> DEFINE new == [m_pid |-> current, m_id |-> newId, mySt |-> "RUNNING"]
           n == Len(jobs)
<1>1. /\ DOMAIN jobs = 1 .. n /\ n \in Nat
      /\ \A k \in DOMAIN jobs : jobs[k].m_pid \in Pids
  BY ListIs
<1>2. /\ main = "adding" /\ main' = "pushed" /\ jobs' = Append(jobs, new)
      /\ UNCHANGED <<child, kind, continued, current>> /\ current \in Pids
  BY DEF Push, kernel, ForkInv
<1>3. new.m_pid = current /\ new.mySt = "RUNNING"
  OBVIOUS
<1>4. jobs \in Seq(JobRecords \cup {new})
  BY ListIs
<1> HIDE DEF new
<1>5. /\ DOMAIN jobs' = 1 .. n + 1 /\ jobs'[n + 1] = new
      /\ \A k \in 1 .. n : jobs'[k] = jobs[k]
  BY <1>1, <1>2, <1>4, AppendProperties
<1> HIDE DEF n
<1>6. /\ \A p \in Pids : ~Unlisted(p)'
      /\ \A p \in Pids : Unlisted(p) <=> p = current
  BY <1>2 DEF Unlisted
<1>7. \A k \in 1 .. n : jobs[k].m_pid # current
  BY <1>1, <1>6 DEF ListedInv
<1>8. ContinuedInv'
  BY <1>2 DEF ContinuedInv
<1>9. ListedInv'
  <2>1. ASSUME NEW k \in DOMAIN jobs'
        PROVE  /\ child'[jobs'[k].m_pid] # "none"
               /\ jobs'[k].mySt = "TERMINATED"
                     => child'[jobs'[k].m_pid] \notin {"held", "running", "stopped", "resumed"}
    <3>1. CASE k = n + 1
      <4>1. jobs'[k].m_pid = current /\ jobs'[k].mySt # "TERMINATED"
        BY <1>3, <1>5, <3>1
      <4>2. QED
        BY <1>2, <4>1 DEF ListedInv
    <3>2. CASE k # n + 1
      <4>1. k \in 1 .. n
        BY <1>1, <1>5, <3>2
      <4>2. QED
        BY <1>1, <1>2, <1>5, <4>1 DEF ListedInv, Alive
    <3>3. QED
      BY <3>1, <3>2
  <2>2. ASSUME NEW j \in DOMAIN jobs', NEW k \in DOMAIN jobs', jobs'[j].m_pid = jobs'[k].m_pid
        PROVE  j = k
    <3>1. (j \in 1 .. n \/ j = n + 1) /\ (k \in 1 .. n \/ k = n + 1)
      BY <1>1, <1>5
    <3>2. QED
      BY <1>1, <1>3, <1>5, <1>7, <2>2, <3>1 DEF ListedInv
  <2>3. QED
    BY <1>2, <2>1, <2>2 DEF ListedInv, Unlisted, Alive
<1>10. AllListed'
  <2>1. ASSUME NEW p \in Pids, MustList(p)'
        PROVE  \E k \in DOMAIN jobs' : jobs'[k].m_pid = p /\ jobs'[k].mySt = "RUNNING"
    <3>1. CASE p = current
      <4>1. n + 1 \in DOMAIN jobs'
        BY <1>1, <1>5
      <4>2. QED
        BY <1>3, <1>5, <3>1, <4>1
    <3>2. CASE p # current
      <4>1. MustList(p)
        BY <1>2, <1>6, <2>1, <3>2 DEF MustList
      <4>2. PICK k \in DOMAIN jobs : jobs[k].m_pid = p /\ jobs[k].mySt = "RUNNING"
        BY <4>1 DEF AllListed
      <4>3. k \in DOMAIN jobs' /\ jobs'[k] = jobs[k]
        BY <1>1, <1>5
      <4>4. QED
        BY <4>2, <4>3
    <3>3. QED
      BY <3>1, <3>2
  <2>2. QED
    BY <2>1 DEF AllListed
<1>11. QED
  BY <1>8, <1>9, <1>10


\* A new list made of jobs of the old one, of which only dead ones may be newly marked.
LEMMA ListedStays ==
  ASSUME TypeOK, TypeOK', ListedInv, ChildMoves,
         \A p \in Pids : Unlisted(p)' <=> Unlisted(p),
         main' \in {"forked", "adding"} => main \in {"forked", "adding"} /\ current' = current,
         ForkInv,
         NEW place \in [DOMAIN jobs' -> DOMAIN jobs],
         \A k \in DOMAIN jobs' :
            /\ jobs'[k].m_pid = jobs[place[k]].m_pid
            /\ jobs'[k].mySt = "TERMINATED"
                  => jobs[place[k]].mySt = "TERMINATED" \/ ~Alive(jobs[place[k]].m_pid),
         \A j, k \in DOMAIN jobs' : place[j] = place[k] => j = k
  PROVE  ListedInv'
<1>1. \A k \in DOMAIN jobs : jobs[k].m_pid \in Pids
  BY ListIs
<1>2. ASSUME NEW k \in DOMAIN jobs'
      PROVE  /\ child'[jobs'[k].m_pid] # "none"
             /\ ~(jobs'[k].m_pid = current' /\ main' \in {"forked", "adding"})
             /\ jobs'[k].mySt = "TERMINATED"
                   => child'[jobs'[k].m_pid] \notin {"held", "running", "stopped", "resumed"}
  <2>1. PICK p \in Pids : p = jobs[place[k]].m_pid
    BY <1>1
  <2>2. child[p] # "none" /\ ~Unlisted(p)
    BY <2>1 DEF ListedInv
  <2>3. jobs'[k].mySt = "TERMINATED" => ~Alive(p)
    BY <2>1 DEF ListedInv
  <2>4. /\ child'[p] # "none" /\ ~Unlisted(p)'
        /\ jobs'[k].mySt = "TERMINATED" => ~Alive(p)'
    BY <2>1, <2>2, <2>3 DEF ChildMoves
  <2>5. QED
    BY <2>1, <2>4 DEF Unlisted, Alive
<1>3. main' \in {"forked", "adding"} => child'[current'] # "none"
  BY DEF ListedInv, ChildMoves, ForkInv
<1>4. ASSUME NEW j \in DOMAIN jobs', NEW k \in DOMAIN jobs', jobs'[j].m_pid = jobs'[k].m_pid
      PROVE  j = k
  BY <1>4 DEF ListedInv
<1>5. QED
  BY <1>2, <1>3, <1>4 DEF ListedInv, Unlisted, Alive

\* No other step takes a job that must be listed from the list.
LEMMA RunningOfRest ==
  ASSUME TypeOK, TypeOK', ForkInv, RunningInv, [Next]_vars, ~Push,
         Work \/ Handler \/ (\E p \in Pids : Die(p)) \/ UNCHANGED vars
  PROVE  RunningInv'
<1> USE DEF RunningInv
<1>1. ChildMoves /\ ContinuedInv' /\ UNCHANGED kind
  BY StepMoves
<1>2. /\ \A p \in Pids : Unlisted(p)' <=> Unlisted(p)
      /\ main' \in {"forked", "adding"}
            => main \in {"forked", "adding"} /\ current' = current
  BY UnlistedStays
<1>3. /\ DOMAIN jobs = 1 .. Len(jobs) /\ Len(jobs) \in Nat
      /\ DOMAIN jobs' \subseteq Nat
      /\ \A k \in DOMAIN jobs : jobs[k].m_pid \in Pids
  <2>1. jobs' \in Seq(JobRecords)
    BY DEF TypeOK, JobRecords
  <2>2. QED
    BY <2>1, ListIs
<1>4. \A p \in Pids : MustList(p)' => MustList(p)
  BY <1>1, <1>2 DEF MustList, ChildMoves
<1>5. SUFFICES /\ ListedInv'
               /\ \A p \in Pids : MustList(p) /\ MustList(p)' =>
                     \E k \in DOMAIN jobs' : jobs'[k].m_pid = p /\ jobs'[k].mySt = "RUNNING"
  BY <1>1, <1>4 DEF AllListed
<1>6. ASSUME NEW gone, Shrinks(gone),
             \A p \in Pids, m \in DOMAIN jobs :
                MustList(p) /\ jobs[m].m_pid = p /\ jobs[m].mySt = "RUNNING" => m \notin gone
      PROVE  /\ ListedInv'
             /\ \A p \in Pids : MustList(p) /\ MustList(p)' =>
                   \E k \in DOMAIN jobs' : jobs'[k].m_pid = p /\ jobs'[k].mySt = "RUNNING"
  <2>1. PICK place \in [DOMAIN jobs' -> DOMAIN jobs] :
          /\ \A k \in DOMAIN jobs' : jobs'[k] = jobs[place[k]]
          /\ \A j, k \in DOMAIN jobs' : j < k => place[j] < place[k]
          /\ \A m \in DOMAIN jobs \ gone : \E k \in DOMAIN jobs' : place[k] = m
    BY <1>6 DEF Shrinks
  <2>2. \A j, k \in DOMAIN jobs' : place[j] = place[k] => j = k
    <3>1. SUFFICES ASSUME NEW j \in DOMAIN jobs', NEW k \in DOMAIN jobs', place[j] = place[k],
                          j # k
                   PROVE  FALSE
      OBVIOUS
    <3>2. j < k \/ k < j
      BY <1>3, <3>1
    <3>3. place[j] \in Nat /\ place[k] \in Nat
      BY <1>3
    <3>4. QED
      BY <2>1, <3>1, <3>2, <3>3
  <2>3. ListedInv'
    BY <1>1, <1>2, <2>1, <2>2, ListedStays
  <2>4. ASSUME NEW p \in Pids, MustList(p)
        PROVE  \E k \in DOMAIN jobs' : jobs'[k].m_pid = p /\ jobs'[k].mySt = "RUNNING"
    <3>1. PICK m \in DOMAIN jobs : jobs[m].m_pid = p /\ jobs[m].mySt = "RUNNING"
      BY <2>4 DEF AllListed
    <3>2. PICK k \in DOMAIN jobs' : place[k] = m
      BY <1>6, <2>1, <2>4, <3>1
    <3>3. QED
      BY <2>1, <3>1, <3>2
  <2>5. QED
    BY <2>3, <2>4
<1>7. CASE Lock /\ Shrinks(DOMAIN jobs \ Unmarked)
  BY <1>6, <1>7 DEF Unmarked
<1>8. CASE /\ Poll /\ at \in DOMAIN jobs /\ Erase /\ Shrinks({at})
           /\ ~Alive(jobs[at].m_pid) \/ jobs[at].m_pid \in continued
  <2>1. \A p \in Pids : MustList(p) => Alive(p) /\ p \notin continued
    BY DEF MustList, Alive, ContinuedInv
  <2>2. QED
    BY <1>6, <1>8, <2>1
<1>9. CASE Mark
  <2> DEFINE place == [k \in DOMAIN jobs |-> k]
  <2>1. place \in [DOMAIN jobs -> DOMAIN jobs] /\ \A k \in DOMAIN jobs : place[k] = k
    OBVIOUS
  <2> HIDE DEF place
  <2>2. /\ at \in DOMAIN jobs /\ DOMAIN jobs' = DOMAIN jobs
        /\ \A k \in DOMAIN jobs :
              /\ jobs'[k].m_pid = jobs[k].m_pid
              /\ k # at => jobs'[k].mySt = jobs[k].mySt
        /\ IF Alive(jobs[at].m_pid) THEN jobs' = jobs ELSE jobs'[at].mySt = "TERMINATED"
    BY <1>9, MarkKeeps
  <2>3. \A k \in DOMAIN jobs : jobs'[k].mySt = "TERMINATED"
            => jobs[k].mySt = "TERMINATED" \/ ~Alive(jobs[k].m_pid)
    BY <2>2
  <2>4. ListedInv'
    BY <1>1, <1>2, <2>1, <2>2, <2>3, ListedStays
  <2>5. ASSUME NEW p \in Pids, MustList(p)
        PROVE  \E k \in DOMAIN jobs' : jobs'[k].m_pid = p /\ jobs'[k].mySt = "RUNNING"
    <3>1. PICK m \in DOMAIN jobs : jobs[m].m_pid = p /\ jobs[m].mySt = "RUNNING"
      BY <2>5 DEF AllListed
    <3>2. jobs'[m].mySt = "RUNNING"
      BY <2>2, <2>5, <3>1 DEF MustList, Alive
    <3>3. QED
      BY <2>2, <3>1, <3>2
  <2>6. QED
    BY <2>4, <2>5
<1>10. CASE UNCHANGED jobs
  <2>1. Shrinks({})
    <3> DEFINE place == [k \in DOMAIN jobs |-> k]
    <3>1. place \in [DOMAIN jobs -> DOMAIN jobs] /\ \A k \in DOMAIN jobs : place[k] = k
      OBVIOUS
    <3> HIDE DEF place
    <3>2. jobs' \in Seq(JobRecords)
      BY <1>10, ListIs
    <3>3. QED
      BY <1>10, <3>1, <3>2 DEF Shrinks
  <2>2. QED
    BY <1>6, <2>1
<1>11. QED
  BY <1>7, <1>8, <1>9, <1>10, ListSteps

\* A background child that runs and was never stopped stays on the list, once and
\* unmarked, through every erasing and marking of the handler.
THEOREM RunningStayListed == Spec => []RunningAreListed
<1>1. Init => RunningInv
  BY DEF Init, RunningInv, ContinuedInv, ListedInv, AllListed, MustList
<1>2. /\ TypeOK /\ TypeOK' /\ ForkInv /\ RunningInv /\ [Next]_vars
      => RunningInv'
  <2> SUFFICES ASSUME TypeOK, TypeOK', ForkInv, RunningInv, [Next]_vars PROVE RunningInv'
    OBVIOUS
  <2>1. CASE \E k \in {"job", "foreground", "stage"}, state \in {"held", "running"},
                next \in {"forked", "waiting", "stages"} : Forks(k, state, next)
    BY <2>1, RunningOfFork
  <2>2. CASE Push
    BY <2>2, RunningOfPush
  <2>3. CASE ~Push /\ (Work \/ Handler \/ (\E p \in Pids : Die(p)) \/ UNCHANGED vars)
    BY <2>3, RunningOfRest
  <2>4. QED
    BY <2>1, <2>2, <2>3, NextCases
<1>3. RunningInv => RunningAreListed
  BY DEF RunningInv, ListedInv, AllListed, MustList, RunningAreListed
<1>4. QED
  BY <1>1, <1>2, <1>3, TypeAndForks, PTL DEF Spec


-----------------------------------------------------------------------------
(* An update of the list misses no dead job *)

\* A job that needs no mark.
Settled(k) == Alive(jobs[k].m_pid) \/ jobs[k].mySt = "TERMINATED"

\* The marking loop leaves settled jobs behind it, or a SIGCHLD is on its way.
MarkInv == handler = "mark" => pending \/ \A k \in DOMAIN jobs : k < at => Settled(k)

\* Steps of the loop and of the children while the handler marks.
LEMMA MarkOfOthers ==
  ASSUME TypeOK, ForkInv, MarkInv, handler = "mark",
         UNCHANGED <<jobs, handler, at>>, pending => pending',
         \A p \in Pids : Alive(p) /\ ~Alive(p)' => pending'
  PROVE  MarkInv'
<1>1. \A k \in DOMAIN jobs : jobs[k].m_pid \in Pids
  BY ListIs
<1>2. CASE pending'
  BY <1>2 DEF MarkInv
<1>3. CASE ~pending'
  <2>1. ASSUME NEW k \in DOMAIN jobs, k < at PROVE Settled(k)'
    <3>1. PICK p \in Pids : p = jobs[k].m_pid
      BY <1>1
    <3>2. Alive(p) \/ jobs[k].mySt = "TERMINATED"
      BY <1>3, <2>1, <3>1 DEF MarkInv, Settled
    <3>3. Alive(p) => Alive(p)'
      BY <1>3
    <3>4. QED
      BY <3>1, <3>2, <3>3 DEF Settled, Alive
  <2>2. QED
    BY <2>1 DEF MarkInv
<1>4. QED
  BY <1>2, <1>3

\* Every step keeps what was marked.
LEMMA MarkStep ==
  ASSUME TypeOK, ForkInv, ContinuedInv, MarkInv, [Next]_vars
  PROVE  MarkInv'
<1>1. CASE \E k \in {"job", "foreground", "stage"}, state \in {"held", "running"},
              next \in {"forked", "waiting", "stages"} : Forks(k, state, next)
  <2>1. PICK k \in {"job", "foreground", "stage"}, state \in {"held", "running"},
             next \in {"forked", "waiting", "stages"} : Forks(k, state, next)
    BY <1>1
  <2>2. PICK new \in Pids : child[new] = "none" /\ child' = [child EXCEPT ![new] = state]
    BY <2>1, ForkIsNew DEF Forks
  <2>3. \A p \in Pids : Alive(p) => Alive(p)'
    BY <2>2 DEF Alive, TypeOK
  <2>4. UNCHANGED <<jobs, handler, at, pending>>
    BY <2>1 DEF Forks, Fork
  <2>5. CASE handler = "mark"
    BY <2>3, <2>4, <2>5, MarkOfOthers
  <2>6. CASE handler # "mark"
    BY <2>4, <2>6 DEF MarkInv
  <2>7. QED
    BY <2>5, <2>6
<1>2. CASE Work \/ (\E p \in Pids : Die(p)) \/ UNCHANGED vars
  <2>1. handler' = handler
    BY <1>2 DEF Work, ReadId, Push, Release, WaitReturns, Lookup, Signal, Exit, Die, vars
  <2>2. ChildMoves
    BY <1>2, StepMoves
  <2>3. pending => pending'
    <3>1. CASE Signal
      <4>1. PICK state \in Outcomes(child[current]) :
               pending' = (pending \/ state # child[current])
        BY <3>1 DEF Signal
      <4>2. QED
        BY <4>1, Zenon
    <3>2. CASE ~Signal
      BY <1>2, <3>2
         DEF Work, ReadId, Push, Release, WaitReturns, Lookup, Exit, Die, vars, kernel
    <3>3. QED
      BY <3>1, <3>2
  <2>4. handler = "mark" => UNCHANGED <<jobs, at>>
    BY <1>2 DEF Work, ReadId, Push, Unlocked, Release, WaitReturns, Lookup, Signal, Exit,
                Die, vars
  <2>5. CASE handler = "mark"
    BY <2>1, <2>2, <2>3, <2>4, <2>5, MarkOfOthers DEF ChildMoves
  <2>6. CASE handler # "mark"
    BY <2>1, <2>6 DEF MarkInv
  <2>7. QED
    BY <2>5, <2>6
<1>3. CASE Mark
  <2>1. /\ at \in DOMAIN jobs /\ DOMAIN jobs' = DOMAIN jobs
        /\ \A k \in DOMAIN jobs :
              /\ jobs'[k].m_pid = jobs[k].m_pid /\ jobs[k].m_pid \in Pids
              /\ k # at => jobs'[k].mySt = jobs[k].mySt
        /\ IF Alive(jobs[at].m_pid) THEN jobs' = jobs ELSE jobs'[at].mySt = "TERMINATED"
    BY <1>3, MarkKeeps, ListIs
  <2>2. at' = at + 1 /\ pending' = pending /\ handler = "mark"
    BY <1>3 DEF Mark
  <2>3. \A p \in Pids : child[p] # "zombie" => child'[p] = child[p]
    BY <1>3, <2>1 DEF Mark, Reaped, TypeOK
  <2>4. ASSUME NEW k \in DOMAIN jobs, Settled(k) \/ k = at
        PROVE  Settled(k)'
    <3>1. PICK p \in Pids : p = jobs[k].m_pid /\ p = jobs'[k].m_pid
      BY <2>1
    <3>2. Alive(p) => Alive(p)'
      BY <2>3 DEF Alive
    <3>3. Alive(p) \/ jobs'[k].mySt = "TERMINATED"
      BY <2>1, <2>4, <3>1 DEF Settled
    <3>4. QED
      BY <3>1, <3>2, <3>3 DEF Settled, Alive
  <2>5. \A k \in DOMAIN jobs : k < at + 1 => k < at \/ k = at
    BY ListIs, <2>1
  <2>6. QED
    BY <2>1, <2>2, <2>4, <2>5 DEF MarkInv
<1>4. CASE Poll
  <2>1. CASE handler' = "mark"
    <3>1. at' = 1
      BY <1>4, <2>1 DEF Poll, Erase
    <3>2. DOMAIN jobs' \subseteq Nat \ {0}
      <4>1. DOMAIN jobs' = 1 .. Len(jobs')
        BY <1>4, ListSteps, ListIs DEF Shrinks
      <4>2. QED
        BY <4>1
    <3>3. \A k \in DOMAIN jobs' : ~(k < 1)
      BY <3>2
    <3>4. QED
      BY <3>1, <3>3 DEF MarkInv
  <2>2. QED
    BY <2>1 DEF MarkInv
<1>5. CASE Deliver \/ WaitAny \/ Lock \/ Unlock
  BY <1>5 DEF Deliver, WaitAny, Lock, Unlock, MarkInv
<1>6. QED
  BY <1>1, <1>2, <1>3, <1>4, <1>5, NextCases DEF Handler

\* When the handler unlocks the list, every job on it runs or is marked, or another
\* SIGCHLD is pending: no death falls between the handler's calls of waitpid.
THEOREM UpdatesAreComplete == Spec => UpdateIsComplete
<1>1. Init => MarkInv
  BY DEF Init, MarkInv
<1>2. TypeOK /\ ForkInv /\ ContinuedInv /\ MarkInv /\ [Next]_vars => MarkInv'
  BY MarkStep
<1>3. TypeOK /\ MarkInv /\ [Next]_vars
        => [handler = "mark" /\ handler' = "idle" =>
              pending \/ \A k \in DOMAIN jobs :
                            Alive(jobs[k].m_pid) \/ jobs[k].mySt = "TERMINATED"]_vars
  <2> SUFFICES ASSUME TypeOK, MarkInv, Next, handler = "mark", handler' = "idle", ~pending,
                      NEW k \in DOMAIN jobs
               PROVE  Alive(jobs[k].m_pid) \/ jobs[k].mySt = "TERMINATED"
    OBVIOUS
  <2>1. Unlock
    <3>1. CASE \E j \in {"job", "foreground", "stage"}, state \in {"held", "running"},
                  next \in {"forked", "waiting", "stages"} : Forks(j, state, next)
      BY <3>1 DEF Forks, Fork
    <3>2. CASE Work \/ (\E p \in Pids : Die(p)) \/ UNCHANGED vars
      BY <3>2 DEF Work, ReadId, Push, Release, WaitReturns, Lookup, Signal, Exit, Die, vars
    <3>3. CASE Handler
      BY <3>3 DEF Handler, Deliver, WaitAny, Lock, Poll, Mark
    <3>4. QED
      BY <3>1, <3>2, <3>3, NextCases
  <2>2. k < at
    BY <2>1, ListIs DEF Unlock, TypeOK
  <2>3. QED
    BY <2>2 DEF MarkInv, Settled
<1>4. Spec => []ContinuedInv
  <2>1. Init => ContinuedInv
    BY DEF Init, ContinuedInv
  <2>2. TypeOK /\ ForkInv /\ ContinuedInv /\ [Next]_vars => ContinuedInv'
    <3> SUFFICES ASSUME TypeOK, ForkInv, ContinuedInv, [Next]_vars PROVE ContinuedInv'
      OBVIOUS
    <3>1. ASSUME NEW k \in {"job", "foreground", "stage"}, NEW state \in {"held", "running"},
                 NEW next \in {"forked", "waiting", "stages"}, Forks(k, state, next)
          PROVE  ContinuedInv'
      <4>1. PICK new \in Pids : child[new] = "none" /\ child' = [child EXCEPT ![new] = state]
        BY <3>1, ForkIsNew DEF Forks
      <4>2. continued' = continued
        BY <3>1 DEF Forks, Fork
      <4>3. QED
        BY <4>1, <4>2 DEF ContinuedInv, TypeOK
    <3>2. QED
      BY <3>1, StepMoves, NextCases
  <2>3. QED
    BY <2>1, <2>2, TypeAndForks, PTL DEF Spec
<1>5. QED
  BY <1>1, <1>2, <1>3, <1>4, TypeAndForks, PTL DEF Spec, UpdateIsComplete


=============================================================================
