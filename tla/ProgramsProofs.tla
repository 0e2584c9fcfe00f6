--------------------------- MODULE ProgramsProofs ---------------------------
(***************************************************************************)
(* Proofs about the four smaller programs that MCPrograms joins, for all   *)
(* values of their constants: the pipelines, the two synchronised          *)
(* processes of pipe-sync.c, the shell of quash_final.cpp and the question *)
(* of signals.c; and that every variable of all five programs keeps its    *)
(* type.  QuashProofs has the fifth one, quash.                            *)
(***************************************************************************)
EXTENDS MCPrograms, QuashProofs, FiniteSetTheorems

-----------------------------------------------------------------------------
(* Pipelines *)

\* All ends of the job's pipes, the lines a stage gets to write, and the last stage
\* that was forked.
JobEnds == (1 .. job.stages - 1) \X {"r", "w"}
Produced(i) == IF i = 1 THEN job.lines ELSE lines_read[i]
Forked == IF parent = "fork" THEN next_stage - 1 ELSE job.stages

\* What the parent has done tells which stages exist.
ParentStands ==
    /\ job \in IF parent = "start" THEN {NoJob} ELSE Jobs
    /\ parent = "start" => next_stage = 1
    /\ parent \in {"fork", "wait"} => next_stage <= job.stages
    /\ \A i \in Stages : stage[i] = "unborn" <=> i > Forked

\* No line is lost or doubled between two stages.
Flow ==
    /\ unwritten[LongestPipe] = 0
    /\ \A i \in Pipes :
          IF i < job.stages
            THEN Produced(i) = unwritten[i] + pipe[i] + lines_read[i + 1]
            ELSE unwritten[i] = 0 /\ pipe[i] = 0 /\ lines_read[i + 1] = 0

\* Nobody lets go of an end that it needs.
Holding ==
    /\ parent \in {"fork", "close"} => open[Parent] = JobEnds
    /\ \A i \in Stages :
          /\ stage[i] = "fresh" => open[i] = JobEnds
          /\ stage[i] = "running" => /\ i < job.stages => <<i, "w">> \in open[i]
                                     /\ i > 1 => <<i - 1, "r">> \in open[i]

\* Whoever has seen the end of a pipe has read it empty, and nobody can write to it any more.
EndSeen(i) ==
    eof[i] => /\ i > 1
              /\ pipe[i - 1] = 0
              /\ ~ Held(<<i - 1, "w">>)
              /\ stage[i] \notin {"unborn", "fresh"}

\* A stage ends only when it has nothing left to do, and SIGPIPE comes only when its
\* reader has gone without having seen an end.
HowEnded(i) ==
    /\ stage[i] = "ended" /\ i < job.stages => unwritten[i] = 0 /\ (i = 1 \/ eof[i])
    /\ stage[i] = "killed" => /\ i < job.stages
                              /\ stage[i + 1] \in Gone
                              /\ ~ eof[i + 1]

\* EofIsEnd is not inductive: that the end a stage sees is that of all lines rests on
\* how the stages before it ended and on who holds which ends.
PipelineInv ==
    /\ PipelineTypeOK
    /\ ParentStands
    /\ Flow
    /\ Holding
    /\ \A i \in Stages : EndSeen(i) /\ HowEnded(i)


\* There are at least the four stages of finder.
LEMMA StagesAre == LongestPipe \in Nat /\ LongestPipe >= 4
BY PipelineAssumption

\* The numbers of stages and of the pipes between them.
LEMMA StageNumbers ==
    /\ Parent \notin Stages
    /\ \A i \in Stages : i \in Nat /\ i >= 1 /\ i <= LongestPipe
    /\ \A k \in Pipes : k \in Nat /\ k >= 1 /\ k \in Stages /\ k + 1 \in Stages /\ k < LongestPipe
BY StagesAre DEF Stages, Pipes, Parent

\* The numbers of a job.
LEMMA JobFacts ==
  ASSUME NEW j \in Jobs \cup {NoJob}
  PROVE  /\ j.stages \in {0} \cup 2 .. LongestPipe /\ j.lines \in 0 .. MaxLines /\ j.lines \in Nat
         /\ j \in Jobs => j.stages \in 2 .. LongestPipe
<1>1. MaxLines \in Nat /\ ShellStages \subseteq 2 .. LongestPipe /\ 4 \in 2 .. LongestPipe
  BY PipelineAssumption
<1>2. j \in Jobs => j.stages \in 2 .. LongestPipe /\ j.lines \in 0 .. MaxLines
  <2>1. ASSUME NEW c, NEW S, NEW l \in [code : {c}, stages : S, lines : 0 .. MaxLines]
        PROVE  l.stages \in S /\ l.lines \in 0 .. MaxLines
    OBVIOUS
  <2>2. CASE j \in [code : {"finder"}, stages : {4}, lines : 0 .. MaxLines]
    <3>1. j.stages \in {4} /\ j.lines \in 0 .. MaxLines
      BY <2>1, <2>2
    <3> QED
      BY <1>1, <3>1
  <2>3. CASE j \in [code : {"shell"}, stages : ShellStages, lines : 0 .. MaxLines]
    BY <1>1, <2>1, <2>3
  <2> QED
    BY <2>2, <2>3 DEF Jobs
<1>3. NoJob.stages = 0 /\ NoJob.lines = 0 /\ 0 \in 0 .. MaxLines
  BY <1>1 DEF NoJob
<1>4. j \in Jobs \/ j = NoJob
  OBVIOUS
<1> QED
  BY <1>1, <1>2, <1>3, <1>4

\* The pipes between the stages and the numbers of what comes next.
LEMMA PipelineInvInit == PipelineInit => PipelineInv
<1> USE StagesAre
<1> SUFFICES ASSUME PipelineInit PROVE PipelineInv
  OBVIOUS
<1> USE DEF PipelineInit
<1>1. PipelineTypeOK
  BY PipelineAssumption DEF PipelineTypeOK, Stages, Pipes
<1>2. ParentStands
  BY DEF ParentStands, Forked, NoJob, Stages
<1>3. Flow
  BY DEF Flow, NoJob, Stages, Pipes
<1>4. Holding /\ \A i \in Stages : EndSeen(i) /\ HowEnded(i)
  BY DEF Holding, EndSeen, HowEnded
<1> QED
  BY <1>1, <1>2, <1>3, <1>4 DEF PipelineInv

\* The pipes of a job are made: nothing flows yet.
LEMMA MakeKeeps ==
  ASSUME PipelineInv, NEW j \in Jobs, MakePipes(j)
  PROVE  PipelineInv'
<1> USE StagesAre
<1>1. /\ job = NoJob /\ job.stages = 0 /\ job' = j /\ j.stages \in 2 .. LongestPipe /\ j.lines \in 0 .. MaxLines
      /\ j.lines \in Nat
      /\ next_stage = 1 /\ parent' = "fork"
      /\ \A i \in Stages : stage[i] = "unborn" 
  BY JobFacts DEF PipelineInv, MakePipes, ParentStands, Forked, NoJob, Stages
<1>2. \A i \in Stages : ~ eof[i]
  BY <1>1 DEF PipelineInv, EndSeen
<1>3. JobEnds' = (1 .. j.stages - 1) \X {"r", "w"} /\ JobEnds' \subseteq Ends
  BY <1>1 DEF JobEnds, Ends, Pipes
<1>4. /\ open' \in [{Parent} \cup Stages -> SUBSET Ends] /\ open'[Parent] = JobEnds'
  BY <1>1, <1>3 DEF MakePipes, PipelineInv, PipelineTypeOK
<1>5. PipelineTypeOK'
  BY <1>1, <1>4 DEF MakePipes, PipelineInv, PipelineTypeOK, Stages
<1>6. ParentStands'
  BY <1>1 DEF MakePipes, ParentStands, Forked, PipelineInv, PipelineTypeOK, Stages
<1>7. Flow'
  <2>1. /\ \A i \in Pipes : pipe[i] = 0 /\ lines_read[i + 1] = 0
        /\ \A i \in Stages : unwritten[i] = 0
    BY <1>1 DEF PipelineInv, Flow, Pipes, Stages
  <2>2. /\ pipe' = pipe /\ lines_read' = lines_read /\ unwritten'[1] = j.lines
        /\ \A i \in 2 .. LongestPipe : unwritten'[i] = 0
    BY <2>1 DEF MakePipes, PipelineInv, PipelineTypeOK, Stages
  <2> QED
    BY <1>1, <2>1, <2>2 DEF Flow, Produced, Pipes, Stages
<1>8. Holding'
  BY <1>1, <1>4 DEF Holding, MakePipes
<1>9. ASSUME NEW i \in Stages PROVE EndSeen(i)' /\ HowEnded(i)'
  BY <1>1, <1>2 DEF EndSeen, HowEnded, MakePipes
<1> QED
  BY <1>5, <1>6, <1>7, <1>8, <1>9 DEF PipelineInv

\* The child inherits all ends.
LEMMA ForkKeeps ==
  ASSUME PipelineInv, ForkStage
  PROVE  PipelineInv'
<1> USE StagesAre
<1>1. PICK n \in Stages : n = next_stage
  BY JobFacts DEF PipelineInv, PipelineTypeOK, ParentStands, ForkStage, Stages
<1>2. /\ n <= job.stages /\ job \in Jobs /\ job.stages \in 2 .. LongestPipe
      /\ next_stage' = n + 1 /\ job' = job
      /\ parent' = IF n = job.stages THEN "close" ELSE "fork"
      /\ stage[n] = "unborn"
      /\ stage' = [stage EXCEPT ![n] = "fresh"]
      /\ open' = [open EXCEPT ![n] = open[Parent]]
      /\ open[Parent] = JobEnds
  BY <1>1, JobFacts DEF PipelineInv, PipelineTypeOK, ParentStands, Holding, Forked, ForkStage, Stages
<1>3. PipelineTypeOK'
  BY <1>1, <1>2 DEF ForkStage, PipelineInv, PipelineTypeOK, Stages, Parent
<1>4. ParentStands'
  <2>1. Forked = n - 1 /\ Forked' = n
    <3>1. n \in Nat /\ (n + 1) - 1 = n /\ parent = "fork"
      BY <1>1 DEF ForkStage, Stages
    <3>2. parent' = "fork" \/ (parent' = "close" /\ job'.stages = n)
      BY <1>2
    <3> QED
      BY <1>1, <1>2, <3>1, <3>2 DEF Forked
  <2>2. \A i \in Stages : stage'[i] = "unborn" <=> i > n
    BY <1>1, <1>2, <2>1, StageNumbers DEF PipelineInv, ParentStands, PipelineTypeOK
  <2> QED
    BY <1>1, <1>2, <2>1, <2>2, StageNumbers DEF ForkStage, ParentStands
<1>5. Flow'
  BY DEF ForkStage, PipelineInv, Flow, Produced
<1>6. Holding'
  BY <1>1, <1>2 DEF ForkStage, Holding, PipelineInv, PipelineTypeOK, Stages, Parent, JobEnds
<1>7. ASSUME NEW i \in Stages PROVE EndSeen(i)'
  <2> SUFFICES ASSUME eof[i] PROVE FALSE
    BY DEF ForkStage, EndSeen
  <2>1. i > 1 /\ ~ Held(<<i - 1, "w">>) /\ i <= job.stages
    BY <1>1, <1>2 DEF PipelineInv, EndSeen, ParentStands, Forked, ForkStage, Stages
  <2>2. <<i - 1, "w">> \in JobEnds
    BY <1>2, <2>1 DEF JobEnds, Stages
  <2> QED
    BY <1>2, <2>1, <2>2 DEF Held
<1>8. ASSUME NEW i \in Stages PROVE HowEnded(i)'
  BY <1>2 DEF ForkStage, PipelineInv, HowEnded, PipelineTypeOK, Gone
<1> QED
  BY <1>3, <1>4, <1>5, <1>6, <1>7, <1>8 DEF PipelineInv

\* The parent lets go of its ends.
LEMMA CloseAllKeeps ==
  ASSUME PipelineInv, CloseAll
  PROVE  PipelineInv'
<1> USE StagesAre
<1>1. job \in Jobs /\ job.stages \in 2 .. LongestPipe /\ job' = job
  BY JobFacts DEF PipelineInv, ParentStands, CloseAll
<1>3. PipelineTypeOK'
  <2>1. job.stages \in 1 .. LongestPipe + 1 /\ 1 \in 1 .. LongestPipe + 1
    BY <1>1
  <2> QED
    BY <2>1 DEF CloseAll, PipelineInv, PipelineTypeOK
<1>4. ParentStands'
  BY <1>1 DEF CloseAll, ParentStands, Forked, PipelineInv, PipelineTypeOK, Stages
<1>5. Flow'
  BY DEF CloseAll, PipelineInv, Flow, Produced
<1>6. Holding'
  BY <1>1, StageNumbers DEF CloseAll, Holding, PipelineInv, PipelineTypeOK, JobEnds
<1>7. ASSUME NEW i \in Stages PROVE EndSeen(i)' /\ HowEnded(i)'
  BY DEF CloseAll, PipelineInv, PipelineTypeOK, EndSeen, HowEnded, Held
<1> QED
  BY <1>3, <1>4, <1>5, <1>6, <1>7 DEF PipelineInv

\* A stage that the parent has waited for stays what it is.
LEMMA WaitStageKeeps ==
  ASSUME PipelineInv, WaitStage
  PROVE  PipelineInv'
<1> USE StagesAre
<1>1. job \in Jobs /\ job.stages \in 2 .. LongestPipe /\ job' = job /\ next_stage <= job.stages
  BY JobFacts DEF PipelineInv, ParentStands, WaitStage
<1>3. PipelineTypeOK'
  BY <1>1 DEF WaitStage, PipelineInv, PipelineTypeOK
<1>4. ParentStands'
  BY <1>1 DEF WaitStage, ParentStands, Forked, PipelineInv, PipelineTypeOK
<1>5. Flow'
  BY DEF WaitStage, PipelineInv, Flow, Produced
<1>6. Holding'
  BY <1>1 DEF WaitStage, Holding, PipelineInv, JobEnds
<1>7. ASSUME NEW i \in Stages PROVE EndSeen(i)' /\ HowEnded(i)'
  BY DEF WaitStage, PipelineInv, EndSeen, HowEnded, Held
<1> QED
  BY <1>3, <1>4, <1>5, <1>6, <1>7 DEF PipelineInv

\* A stage that runs or is about to is one of the job's stages.
LEMMA RunningStage ==
  ASSUME PipelineInv, NEW i \in Stages, stage[i] \in {"fresh", "running"}
  PROVE  job \in Jobs /\ job.stages \in 2 .. LongestPipe /\ i <= job.stages /\ job.lines \in 0 .. MaxLines
<1> USE StagesAre
<1>1. job.stages \in {0} \cup 2 .. LongestPipe /\ job.lines \in 0 .. MaxLines
  BY JobFacts DEF PipelineInv, PipelineTypeOK
<1>2. i <= job.stages
  BY <1>1 DEF PipelineInv, PipelineTypeOK, ParentStands, Forked, Stages
<1> QED
  BY <1>1, <1>2 DEF PipelineInv, PipelineTypeOK, Stages, NoJob

\* A stage keeps the ends that it needs.
LEMMA CloseUnusedKeeps ==
  ASSUME PipelineInv, NEW i \in Stages, CloseUnused(i)
  PROVE  PipelineInv'
<1> USE StagesAre
<1>1. job \in Jobs /\ job.stages \in 2 .. LongestPipe /\ i <= job.stages
  BY RunningStage DEF CloseUnused
<1>2. /\ open[i] = JobEnds /\ Keeps(i) \subseteq open[i]
      /\ i < job.stages => <<i, "w">> \in Keeps(i)
      /\ i > 1 => <<i - 1, "r">> \in Keeps(i)
  <2>1. open[i] = JobEnds
    BY DEF PipelineInv, Holding, CloseUnused
  <2>2. i < job.stages => <<i, "w">> \in JobEnds
    BY <1>1 DEF JobEnds, Stages
  <2>3. i > 1 => <<i - 1, "r">> \in JobEnds
    BY <1>1 DEF JobEnds, Stages
  <2> QED
    BY <2>1, <2>2, <2>3 DEF Keeps, Input, Output
<1>3. PipelineTypeOK'
  BY <1>2 DEF CloseUnused, PipelineInv, PipelineTypeOK
<1>4. ParentStands'
  BY <1>1 DEF CloseUnused, ParentStands, Forked, PipelineInv, PipelineTypeOK
<1>5. Flow'
  BY DEF CloseUnused, PipelineInv, Flow, Produced
<1>6. Holding'
  BY <1>1, <1>2, StageNumbers DEF CloseUnused, Holding, PipelineInv, PipelineTypeOK, JobEnds
<1>7. ASSUME NEW k \in Stages PROVE EndSeen(k)' /\ HowEnded(k)'
  <2>1. \A p \in {Parent} \cup Stages : open'[p] \subseteq open[p]
    BY <1>2 DEF CloseUnused, PipelineInv, PipelineTypeOK
  <2>2. EndSeen(k)'
    BY <2>1 DEF CloseUnused, PipelineInv, PipelineTypeOK, EndSeen, Held
  <2>3. HowEnded(k)'
    BY DEF CloseUnused, PipelineInv, PipelineTypeOK, HowEnded, Gone, Stages
  <2> QED
    BY <2>2, <2>3
<1> QED
  BY <1>3, <1>4, <1>5, <1>6, <1>7 DEF PipelineInv

\* A stage that ends lets go of all its ends.
LEMMA StageEndKeeps ==
  ASSUME PipelineInv, NEW i \in Stages, stage[i] \in {"fresh", "running"},
         NEW how \in Gone, End(i, how),
         how = "ended" /\ i < job.stages => unwritten[i] = 0 /\ (i = 1 \/ eof[i]),
         how = "killed" => i < job.stages /\ stage[i + 1] \in Gone /\ ~ eof[i + 1]
  PROVE  PipelineInv'
<1> USE StagesAre
<1>3. PipelineTypeOK'
  BY DEF End, PipelineInv, PipelineTypeOK
<1>4. ParentStands'
  BY DEF End, ParentStands, Forked, PipelineInv, PipelineTypeOK, Gone
<1>5. Flow'
  BY DEF End, PipelineInv, Flow, Produced
<1>6. Holding'
  BY StageNumbers DEF End, Holding, PipelineInv, PipelineTypeOK, JobEnds, Gone
<1>7. ASSUME NEW k \in Stages PROVE EndSeen(k)' /\ HowEnded(k)'
  <2>1. \A p \in {Parent} \cup Stages : open'[p] \subseteq open[p]
    BY DEF End, PipelineInv, PipelineTypeOK
  <2>2. EndSeen(k)'
    BY <2>1 DEF End, PipelineInv, PipelineTypeOK, EndSeen, Held, Gone
  <2>3. HowEnded(k)'
    <3>1. CASE k = i
      BY <3>1 DEF End, PipelineInv, PipelineTypeOK, HowEnded, Gone, Stages
    <3>2. CASE k # i
      BY <3>2 DEF End, PipelineInv, PipelineTypeOK, HowEnded, Stages
    <3> QED
      BY <3>1, <3>2
  <2> QED
    BY <2>2, <2>3
<1> QED
  BY <1>3, <1>4, <1>5, <1>6, <1>7 DEF PipelineInv

\* A line moves from the pipe to the stage.
LEMMA ReadLineKeeps ==
  ASSUME PipelineInv, NEW i \in Stages, ReadLine(i)
  PROVE  PipelineInv'
<1> USE StagesAre
<1>1. job \in Jobs /\ job.stages \in 2 .. LongestPipe /\ i <= job.stages /\ i \in 2 .. LongestPipe /\ i - 1 \in Pipes
      /\ job.lines \in 0 .. MaxLines
  BY RunningStage DEF ReadLine, Stages, Pipes
<1>2. /\ unwritten \in [Stages -> Nat] /\ lines_read \in [Stages -> Nat] /\ pipe \in [Pipes -> Nat]
      /\ unwritten' \in [Stages -> Nat] /\ lines_read' \in [Stages -> Nat] /\ pipe' \in [Pipes -> 0 .. Capacity]
  <2>1. /\ unwritten \in [Stages -> 0 .. MaxLines] /\ lines_read \in [Stages -> 0 .. MaxLines]
        /\ pipe \in [Pipes -> 0 .. Capacity] /\ Capacity \in Nat /\ MaxLines \in Nat
    BY PipelineAssumption DEF PipelineInv, PipelineTypeOK
  <2>2. /\ pipe' = [pipe EXCEPT ![i - 1] = @ - 1] /\ pipe[i - 1] > 0
        /\ lines_read' = [lines_read EXCEPT ![i] = @ + 1]
        /\ unwritten' = unwritten \/ unwritten' = [unwritten EXCEPT ![i] = @ + 1]
    BY DEF ReadLine
  <2>3. pipe' \in [Pipes -> 0 .. Capacity]
    BY <1>1, <2>1, <2>2
  <2> QED
    BY <2>1, <2>2, <2>3
<1>3. /\ \A k \in Pipes : pipe'[k] = IF k = i - 1 THEN pipe[k] - 1 ELSE pipe[k]
      /\ \A k \in Stages : lines_read'[k] = IF k = i THEN lines_read[k] + 1 ELSE lines_read[k]
      /\ \A k \in Stages : unwritten'[k] = IF k = i /\ i # job.stages THEN unwritten[k] + 1 ELSE unwritten[k]
      /\ job' = job /\ pipe[i - 1] > 0
  BY <1>1, <1>2 DEF ReadLine
<1>4. \A k \in Pipes : /\ unwritten[k] \in Nat /\ pipe[k] \in Nat
                       /\ lines_read[k] \in Nat /\ lines_read[k + 1] \in Nat
  BY <1>2, StageNumbers
<1>10. ASSUME NEW k \in Pipes
       PROVE  IF k < job.stages
                THEN Produced(k)' = unwritten'[k] + pipe'[k] + lines_read'[k + 1]
                ELSE unwritten'[k] = 0 /\ pipe'[k] = 0 /\ lines_read'[k + 1] = 0
  <2>1. k \in Nat /\ k \in Stages /\ k + 1 \in Stages /\ i \in Nat /\ job.stages \in Nat
    BY <1>1, StageNumbers
  <2>2. IF k < job.stages
          THEN (IF k = 1 THEN job.lines ELSE lines_read[k]) = unwritten[k] + pipe[k] + lines_read[k + 1]
          ELSE unwritten[k] = 0 /\ pipe[k] = 0 /\ lines_read[k + 1] = 0
    BY DEF PipelineInv, Flow, Produced
  <2>3. Produced(k)' = IF k = 1 THEN job.lines ELSE lines_read'[k]
    BY <1>3 DEF Produced
  <2>4. CASE k = i - 1
    BY <1>1, <1>3, <1>4, <2>1, <2>2, <2>3, <2>4
  <2>5. CASE k = i
    BY <1>1, <1>3, <1>4, <2>1, <2>2, <2>3, <2>5
  <2>6. CASE k # i - 1 /\ k # i
    <3>1. k + 1 # i
      BY <2>1, <2>6
    <3> QED
      BY <1>1, <1>3, <1>4, <2>1, <2>2, <2>3, <2>6, <3>1
  <2> QED
    BY <2>4, <2>5, <2>6
<1>11. Flow'
  <2>1. unwritten'[LongestPipe] = 0
    BY <1>1, <1>3 DEF PipelineInv, Flow, Stages
  <2> QED
    BY <1>3, <1>10, <2>1 DEF Flow
<1>12. PipelineTypeOK'
  <2>1. \A k \in Pipes : unwritten'[k] \in Nat /\ lines_read'[k + 1] \in Nat /\ pipe'[k] \in Nat
    BY <1>2, <1>4, StageNumbers, PipelineAssumption
  <2>2. MaxLines \in Nat /\ \A k \in Stages : lines_read[k] <= MaxLines
    BY PipelineAssumption DEF PipelineInv, PipelineTypeOK
  <2>3. lines_read'[i] <= MaxLines /\ unwritten'[i] <= MaxLines
    <3>1. i - 1 < job.stages /\ i - 1 \in Nat /\ (i - 1) + 1 = i
      BY <1>1
    <3>2. /\ Produced(i - 1)' = unwritten'[i - 1] + pipe'[i - 1] + lines_read'[i]
          /\ unwritten'[i - 1] \in Nat /\ pipe'[i - 1] \in Nat /\ lines_read'[i] \in Nat
      BY <1>1, <1>10, <2>1, <3>1
    <3>3. Produced(i - 1)' <= MaxLines /\ Produced(i - 1)' \in Nat
      <4>1. Produced(i - 1)' = IF i - 1 = 1 THEN job.lines ELSE lines_read[i - 1]
        <5>1. i - 1 \in Stages /\ i - 1 # i
          BY <1>1, StageNumbers
        <5> QED
          BY <1>3, <5>1 DEF Produced
      <4> QED
        BY <1>1, <1>4, <2>2, <4>1, StageNumbers
    <3>4. lines_read'[i] <= MaxLines
      BY <2>2, <3>2, <3>3
    <3>5. CASE i \in Pipes /\ i < job.stages
      <4>1. /\ lines_read'[i] = unwritten'[i] + pipe'[i] + lines_read'[i + 1]
            /\ unwritten'[i] \in Nat /\ pipe'[i] \in Nat /\ lines_read'[i + 1] \in Nat
        BY <1>1, <1>10, <2>1, <3>5 DEF Produced
      <4> QED
        BY <2>2, <3>2, <3>4, <4>1
    <3>6. CASE ~ (i \in Pipes /\ i < job.stages)
      <4>1. i = job.stages
        BY <1>1, <3>6 DEF Pipes
      <4>2. unwritten'[i] = unwritten[i] /\ unwritten[i] \in 0 .. MaxLines
        BY <1>3, <4>1 DEF PipelineInv, PipelineTypeOK
      <4> QED
        BY <2>2, <3>4, <4>2
    <3> QED
      BY <3>4, <3>5, <3>6
  <2>4. \A k \in Stages : unwritten[k] \in 0 .. MaxLines /\ lines_read[k] \in 0 .. MaxLines
    BY DEF PipelineInv, PipelineTypeOK
  <2>5. \A k \in Stages : unwritten'[k] \in 0 .. MaxLines /\ lines_read'[k] \in 0 .. MaxLines
    <3>1. ASSUME NEW k \in Stages, k # i PROVE unwritten'[k] \in 0 .. MaxLines /\ lines_read'[k] \in 0 .. MaxLines
      BY <1>3, <2>4, <3>1
    <3>2. unwritten'[i] \in 0 .. MaxLines /\ lines_read'[i] \in 0 .. MaxLines
      BY <1>2, <2>2, <2>3
    <3> QED
      BY <3>1, <3>2
  <2>6. unwritten' \in [Stages -> 0 .. MaxLines] /\ lines_read' \in [Stages -> 0 .. MaxLines]
    BY <1>2, <2>5
  <2> QED
    BY <1>2, <2>6 DEF ReadLine, PipelineInv, PipelineTypeOK
<1>5. ParentStands'
  BY DEF ReadLine, ParentStands, Forked, PipelineInv
<1>6. Holding'
  BY DEF ReadLine, Holding, PipelineInv, JobEnds
<1>7. ASSUME NEW k \in Stages PROVE EndSeen(k)' /\ HowEnded(k)'
  <2>1. EndSeen(k)'
    <3>1. ASSUME eof[k], k - 1 \in Pipes, pipe[k - 1] = 0 PROVE pipe'[k - 1] = 0
      <4>1. k - 1 # i - 1
        BY <1>3, <3>1
      <4> QED
        BY <1>3, <3>1, <4>1
    <3>2. k > 1 => k - 1 \in Pipes
      BY DEF Stages, Pipes
    <3> QED
      BY <3>1, <3>2 DEF ReadLine, PipelineInv, EndSeen, Held
  <2>2. HowEnded(k)'
    BY DEF ReadLine, PipelineInv, PipelineTypeOK, HowEnded
  <2> QED
    BY <2>1, <2>2
<1> QED
  BY <1>5, <1>6, <1>7, <1>11, <1>12 DEF PipelineInv

\* The end is seen.
LEMMA ReadEofKeeps ==
  ASSUME PipelineInv, NEW i \in Stages, ReadEof(i)
  PROVE  PipelineInv'
<1> USE StagesAre
<1>1. PipelineTypeOK'
  BY DEF ReadEof, PipelineInv, PipelineTypeOK
<1>2. Flow'
  BY DEF ReadEof, PipelineInv, Flow, Produced
<1>5. ParentStands'
  BY DEF ReadEof, ParentStands, Forked, PipelineInv
<1>6. Holding'
  BY DEF ReadEof, Holding, PipelineInv, JobEnds
<1>7. ASSUME NEW k \in Stages PROVE EndSeen(k)' /\ HowEnded(k)'
  <2>1. EndSeen(k)'
    BY DEF ReadEof, PipelineInv, PipelineTypeOK, EndSeen, Held
  <2>2. HowEnded(k)'
    BY DEF ReadEof, PipelineInv, PipelineTypeOK, HowEnded, Gone
  <2> QED
    BY <2>1, <2>2
<1> QED
  BY <1>1, <1>2, <1>5, <1>6, <1>7 DEF PipelineInv

\* A line moves from the stage into the pipe.
LEMMA WriteKeeps ==
  ASSUME PipelineInv, NEW i \in Stages, WriteLine(i)
  PROVE  PipelineInv'
<1> USE StagesAre
<1>1. /\ job \in Jobs /\ job.stages \in 2 .. LongestPipe /\ i < job.stages /\ i \in Pipes
      /\ i + 1 \in Stages
  <2>1. job \in Jobs /\ job.stages \in 2 .. LongestPipe /\ i <= job.stages
    BY RunningStage DEF WriteLine
  <2> QED
    BY <2>1 DEF WriteLine, PipelineInv, Flow, Stages, Pipes
<1>2. ~ eof[i + 1]
  <2>1. <<i, "w">> \in open[i]
    BY <1>1 DEF PipelineInv, Holding, WriteLine
  <2> QED
    BY <1>1, <2>1 DEF PipelineInv, EndSeen, Held, Stages
<1>3. CASE ~ Held(<<i, "r">>) /\ End(i, "killed")
  <2>1. parent \notin {"fork", "close"}
    <3>1. <<i, "r">> \in JobEnds
      BY <1>1 DEF JobEnds, Stages
    <3> QED
      BY <1>3, <3>1 DEF PipelineInv, Holding, Held
  <2>2. stage[i + 1] # "unborn"
    BY <1>1, <2>1 DEF PipelineInv, ParentStands, Forked, Stages
  <2>3. stage[i + 1] \notin {"fresh", "running"}
    <3>1. <<i, "r">> \in JobEnds
      BY <1>1 DEF JobEnds, Stages
    <3> QED
      <4>1. i + 1 > 1 /\ (i + 1) - 1 = i
        BY <1>1, StageNumbers
      <4>2. <<i, "r">> \notin open[i + 1]
        BY <1>1, <1>3 DEF Held
      <4>3. stage[i + 1] = "fresh" => open[i + 1] = JobEnds
        BY <1>1 DEF PipelineInv, Holding
      <4>4. stage[i + 1] = "running" => <<i, "r">> \in open[i + 1]
        BY <1>1, <4>1 DEF PipelineInv, Holding
      <4> QED
        BY <3>1, <4>2, <4>3, <4>4
  <2>4. stage[i + 1] \in Gone
    BY <1>1, <2>2, <2>3 DEF PipelineInv, PipelineTypeOK, Gone
  <2> QED
    BY <1>1, <1>2, <1>3, <2>4, StageEndKeeps DEF WriteLine, Gone
<1>4. CASE /\ pipe[i] < Capacity
           /\ pipe' = [pipe EXCEPT ![i] = @ + 1]
           /\ unwritten' = [unwritten EXCEPT ![i] = @ - 1]
           /\ UNCHANGED <<job, parent, next_stage, stage, open, lines_read, eof>>
  <2>1. PipelineTypeOK'
    <3>1. /\ Capacity \in Nat /\ MaxLines \in Nat /\ i \in Stages /\ unwritten[i] > 0
          /\ pipe \in [Pipes -> 0 .. Capacity] /\ unwritten \in [Stages -> 0 .. MaxLines]
      BY <1>1, PipelineAssumption DEF WriteLine, PipelineInv, PipelineTypeOK
    <3>2. pipe' \in [Pipes -> 0 .. Capacity]
      BY <1>1, <1>4, <3>1
    <3>3. unwritten' \in [Stages -> 0 .. MaxLines]
      BY <1>4, <3>1
    <3> QED
      BY <1>4, <3>2, <3>3 DEF PipelineInv, PipelineTypeOK
  <2>2. Flow'
    <3>2. /\ unwritten \in [Stages -> Nat] /\ lines_read \in [Stages -> Nat] /\ pipe \in [Pipes -> Nat]
      BY PipelineAssumption DEF PipelineInv, PipelineTypeOK
    <3>3. /\ \A k \in Pipes : pipe'[k] = IF k = i THEN pipe[k] + 1 ELSE pipe[k]
          /\ \A k \in Stages : unwritten'[k] = IF k = i THEN unwritten[k] - 1 ELSE unwritten[k]
          /\ lines_read' = lines_read /\ job' = job
      BY <1>1, <1>4, <3>2
    <3>4. ASSUME NEW k \in Pipes
          PROVE  IF k < job.stages
                   THEN Produced(k)' = unwritten'[k] + pipe'[k] + lines_read'[k + 1]
                   ELSE unwritten'[k] = 0 /\ pipe'[k] = 0 /\ lines_read'[k + 1] = 0
      <4>1. /\ k \in Stages /\ k + 1 \in Stages
            /\ unwritten[k] \in Nat /\ pipe[k] \in Nat /\ lines_read[k + 1] \in Nat
        BY <3>2, StageNumbers
      <4>2. IF k < job.stages
              THEN Produced(k) = unwritten[k] + pipe[k] + lines_read[k + 1]
              ELSE unwritten[k] = 0 /\ pipe[k] = 0 /\ lines_read[k + 1] = 0
        BY DEF PipelineInv, Flow
      <4>3. Produced(k)' = Produced(k)
        BY <3>3 DEF Produced
      <4> QED
        BY <1>1, <3>3, <4>1, <4>2, <4>3
    <3>5. unwritten'[LongestPipe] = 0
      BY <1>1, <3>3 DEF PipelineInv, Flow, Stages, Pipes
    <3> QED
      BY <3>3, <3>4, <3>5 DEF Flow
  <2>3. ParentStands'
    BY <1>4 DEF ParentStands, Forked, PipelineInv
  <2>4. Holding'
    BY <1>4 DEF Holding, PipelineInv, JobEnds
  <2>5. ASSUME NEW k \in Stages PROVE EndSeen(k)' /\ HowEnded(k)'
    <3>1. EndSeen(k)'
      <4>1. k > 1 => k - 1 \in Pipes
        BY DEF Stages, Pipes
      <4>2. ASSUME eof[k], k > 1 PROVE k - 1 # i
        <5>1. k - 1 = i => k = i + 1
          BY <1>1, StageNumbers
        <5> QED
          BY <1>2, <4>2, <5>1
      <4>3. \A m \in Pipes : m # i => pipe'[m] = pipe[m]
        BY <1>4 DEF PipelineInv, PipelineTypeOK
      <4> QED
        BY <1>4, <4>1, <4>2, <4>3 DEF PipelineInv, EndSeen, Held
    <3>2. HowEnded(k)'
      BY <1>1, <1>4 DEF WriteLine, PipelineInv, PipelineTypeOK, HowEnded
    <3> QED
      BY <3>1, <3>2
  <2> QED
    BY <2>1, <2>2, <2>3, <2>4, <2>5 DEF PipelineInv
<1> QED
  BY <1>3, <1>4 DEF WriteLine

\* Every step of the parent and of the stages keeps the invariant.
LEMMA PipelineInvStep == PipelineInv /\ [PipelineNext]_pipelineVars => PipelineInv'
<1> USE StagesAre
<1> SUFFICES ASSUME PipelineInv, [PipelineNext]_pipelineVars PROVE PipelineInv'
  OBVIOUS
<1>1. CASE ParentStep
  BY <1>1, MakeKeeps, ForkKeeps, CloseAllKeeps, WaitStageKeeps DEF ParentStep
<1>2. ASSUME NEW i \in Stages, StageStep(i) PROVE PipelineInv'
  <2>1. CASE ExecFails(i)
    BY <2>1, StageEndKeeps DEF ExecFails, Gone
  <2>2. CASE EndOfStage(i)
    <3>1. i <= job.stages /\ End(i, "ended") /\ job.stages \in 2 .. LongestPipe
      BY <2>2, RunningStage DEF EndOfStage
    <3> QED
      BY <2>2, <3>1, StageEndKeeps DEF EndOfStage, Gone, Stages
  <2> QED
    BY <1>2, <2>1, <2>2, CloseUnusedKeeps, ReadLineKeeps, ReadEofKeeps, WriteKeeps DEF StageStep
<1>3. CASE PipelineDone \/ UNCHANGED pipelineVars
  BY <1>3 DEF PipelineDone, pipelineVars, PipelineInv, PipelineTypeOK, ParentStands, Forked, Flow,
              Produced, Holding, JobEnds, EndSeen, HowEnded, Held
<1> QED
  BY <1>1, <1>2, <1>3 DEF PipelineNext

\* Whoever sees the end after stages that were all executed has read every line: none of
\* them was killed, because the stage after it has read to the end.
LEMMA EofIsEndHolds == PipelineInv => EofIsEnd
<1> USE StagesAre
<1> SUFFICES ASSUME PipelineInv, NEW i \in Stages, eof[i], \A k \in 1 .. i - 1 : stage[k] # "failed"
             PROVE  lines_read[i] = job.lines
  BY DEF EofIsEnd
<1>0. job.stages \in {0} \cup 2 .. LongestPipe /\ job.lines \in Nat
  BY JobFacts DEF PipelineInv, PipelineTypeOK
<1>2. /\ unwritten \in [Stages -> Nat] /\ lines_read \in [Stages -> Nat] /\ pipe \in [Pipes -> Nat]
  BY PipelineAssumption DEF PipelineInv, PipelineTypeOK
<1>1. ASSUME NEW k \in Stages, eof[k], \A m \in 1 .. k - 1 : stage[m] # "failed"
      PROVE  /\ k > 1 /\ k - 1 \in Pipes /\ k - 1 \in Stages
             /\ k > 2 => eof[k - 1]
             /\ lines_read[k] = Produced(k - 1)
  <2>1. /\ k \in 2 .. LongestPipe /\ k - 1 \in Pipes /\ k - 1 \in Stages /\ k <= job.stages
    <3>1. k > 1 /\ stage[k] # "unborn"
      BY <1>1 DEF PipelineInv, EndSeen
    <3>2. k \in Nat /\ k <= Forked /\ Forked <= job.stages
      <4>1. k \in Nat /\ k <= Forked
        <5>1. k \in Nat /\ Forked \in Int /\ ~ k > Forked
          BY <1>0, <3>1 DEF PipelineInv, ParentStands, PipelineTypeOK, Forked, Stages
        <5> QED
          BY <5>1
      <4>2. Forked <= job.stages
        BY <1>0 DEF PipelineInv, ParentStands, PipelineTypeOK, Forked
      <4> QED
        BY <4>1, <4>2
    <3> QED
      <4>1. k \in Nat /\ k >= 2 /\ k <= LongestPipe /\ k <= job.stages
        <5>1. Forked \in Int /\ job.stages \in Int
          BY <1>0 DEF PipelineInv, PipelineTypeOK, Forked, Stages
        <5> QED
          BY <3>1, <3>2, <5>1 DEF Stages
      <4> QED
        BY <4>1 DEF Stages, Pipes
  <2>2. pipe[k - 1] = 0 /\ ~ Held(<<k - 1, "w">>)
    BY <1>1 DEF PipelineInv, EndSeen
  <2>3. <<k - 1, "w">> \in JobEnds
    BY <1>0, <2>1 DEF JobEnds
  <2>4. stage[k - 1] \notin {"fresh", "running"} /\ parent \notin {"fork", "close"}
    <3>1. k - 1 < job.stages
      BY <1>0, <2>1
    <3>2. <<k - 1, "w">> \notin open[k - 1] /\ <<k - 1, "w">> \notin open[Parent]
      BY <2>1, <2>2 DEF Held
    <3> QED
      BY <2>1, <2>3, <3>1, <3>2 DEF PipelineInv, Holding
  <2>5. stage[k - 1] # "unborn"
    BY <1>0, <2>1, <2>4 DEF PipelineInv, ParentStands, Forked
  <2>6. stage[k - 1] # "killed"
    BY <1>1, <2>1 DEF PipelineInv, HowEnded
  <2>7. stage[k - 1] = "ended"
    BY <1>1, <2>1, <2>4, <2>5, <2>6 DEF PipelineInv, PipelineTypeOK, Gone
  <2>8. unwritten[k - 1] = 0 /\ (k > 2 => eof[k - 1])
    BY <1>0, <2>1, <2>7 DEF PipelineInv, HowEnded
  <2>9. Produced(k - 1) = unwritten[k - 1] + pipe[k - 1] + lines_read[k]
    BY <1>0, <2>1 DEF PipelineInv, Flow
  <2> QED
    BY <1>2, <2>1, <2>2, <2>8, <2>9
<1> DEFINE Missed == {k \in 1 .. i : eof[k] /\ lines_read[k] # job.lines}
<1> SUFFICES ASSUME Missed # {} PROVE FALSE
  BY DEF Stages
<1>3. PICK n \in Missed : \A m \in Missed : n <= m
  <2>1. Missed \subseteq Nat
    BY DEF Stages
  <2> HIDE DEF Missed
  <2> QED
    BY <2>1, LeastNumber
<1>4. /\ n \in Stages /\ n \in 1 .. i /\ eof[n] /\ lines_read[n] # job.lines
      /\ \A m \in 1 .. n - 1 : stage[m] # "failed"
  BY <1>3 DEF Stages
<1>5. n > 1 /\ (n > 2 => eof[n - 1]) /\ lines_read[n] = Produced(n - 1)
  BY <1>1, <1>4
<1>6. n > 2 /\ lines_read[n - 1] # job.lines
  BY <1>4, <1>5 DEF Produced, Stages
<1>7. n - 1 \in Missed /\ ~ n <= n - 1
  BY <1>4, <1>5, <1>6 DEF Stages
<1> QED
  BY <1>3, <1>7

\* For all numbers of stages and lines and all capacities of the pipes: a stage that sees
\* the end of its input has read all there was, unless a stage before it was not executed
\* (finder.c 49-118, Functions.cpp 236-255).
THEOREM EndOfFileIsEnd == PipelineSpec => []EofIsEnd
BY PipelineInvInit, PipelineInvStep, EofIsEndHolds, PTL DEF PipelineSpec

-----------------------------------------------------------------------------
(* The lines of pipe-sync.c *)

\* The lines in the order in which the processes exit, and where they arrive like that.
ByProcess == <<"Child_line_1", "Child_line_2", "Parent_line_1", "Parent_line_2">>
LinesByProcess ==
    ~ terminal =>
        /\ IsPrefix(output, ByProcess)
        /\ (\A p \in Procs : at[p] > Len(Program[p])) => output = ByProcess

\* s is the first n lines of t.
Begins(s, t, n) == s \in Seq(Lines) /\ Len(s) = n /\ \A i \in 1 .. n : s[i] = t[i]

\* How many lines a process has printed before its statement a.
Printed(p, a) ==
    IF p = "child"
      THEN IF a > 4 THEN 2 ELSE IF a > 1 THEN 1 ELSE 0
      ELSE IF a > 5 THEN 2 ELSE IF a > 2 THEN 1 ELSE 0

\* The two lines of a process.
LinesOf(p) ==
    IF p = "child" THEN <<"Child_line_1", "Child_line_2">> ELSE <<"Parent_line_1", "Parent_line_2">>

\* How many lines arrived when each process keeps its own until it exits.
Flushed == IF at["parent"] > 7 THEN 4 ELSE IF at["child"] > 6 THEN 2 ELSE 0

\* The pipe j holds a message while its writer has passed the statement that writes it
\* and its reader has not passed the one that reads it.
Passed(j, writer, w, reader, r) ==
    /\ at[reader] > r => at[writer] > w
    /\ message[j] = IF at[writer] > w /\ at[reader] <= r THEN 1 ELSE 0

\* The three messages.
InStep ==
    /\ Passed(1, "child", 2, "parent", 1)
    /\ Passed(2, "parent", 3, "child", 3)
    /\ Passed(3, "child", 5, "parent", 4)

\* What arrived, and what is still kept.
Arrived ==
    /\ terminal => /\ \A p \in Procs : buffer[p] = <<>>
                   /\ Begins(output, InTurn, Printed("child", at["child"]) + Printed("parent", at["parent"]))
    /\ ~ terminal =>
          /\ \A p \in Procs :
                Begins(buffer[p], LinesOf(p), IF at[p] > Len(Program[p]) THEN 0 ELSE Printed(p, at[p]))
          /\ Begins(output, ByProcess, Flushed)

\* LinesInOrder is not inductive: that the next line is the right one rests on the
\* messages that let its process go on.
SyncInv ==
    /\ SyncTypeOK
    /\ at["child"] <= 7
    /\ at["child"] = 0 <=> at["parent"] = 0
    /\ at["parent"] > 6 => at["child"] > 6
    /\ InStep
    /\ Arrived

-----------------------------------------------------------------------------
(* The statements *)

\* The six statements of the child,
LEMMA ChildCode ==
  /\ Len(Program["child"]) = 6 /\ DOMAIN Program["child"] = 1 .. 6
  /\ Program["child"][1][1] = "print" /\ Program["child"][1][2] = "Child_line_1"
  /\ Program["child"][2][1] = "write" /\ Program["child"][2][2] = 1
  /\ Program["child"][3][1] = "read" /\ Program["child"][3][2] = 2
  /\ Program["child"][4][1] = "print" /\ Program["child"][4][2] = "Child_line_2"
  /\ Program["child"][5][1] = "write" /\ Program["child"][5][2] = 3
  /\ Program["child"][6][1] = "exit"
<1> DEFINE s == << <<"print", "Child_line_1">>, <<"write", 1>>, <<"read", 2>>,
                   <<"print", "Child_line_2">>, <<"write", 3>>, <<"exit">> >>
<1>1. Program["child"] = s
  BY DEF Program
<1>2. Len(s) = 6 /\ DOMAIN s = 1 .. 6
  OBVIOUS
<1>3. s[1][1] = "print" /\ s[1][2] = "Child_line_1" /\ s[2][1] = "write" /\ s[2][2] = 1
  OBVIOUS
<1>4. s[3][1] = "read" /\ s[3][2] = 2 /\ s[4][1] = "print" /\ s[4][2] = "Child_line_2"
  OBVIOUS
<1>5. s[5][1] = "write" /\ s[5][2] = 3 /\ s[6][1] = "exit"
  OBVIOUS
<1> HIDE DEF s
<1> QED
  BY <1>1, <1>2, <1>3, <1>4, <1>5

\* and the seven of the parent.
LEMMA ParentCode ==
  /\ Len(Program["parent"]) = 7 /\ DOMAIN Program["parent"] = 1 .. 7
  /\ Program["parent"][1][1] = "read" /\ Program["parent"][1][2] = 1
  /\ Program["parent"][2][1] = "print" /\ Program["parent"][2][2] = "Parent_line_1"
  /\ Program["parent"][3][1] = "write" /\ Program["parent"][3][2] = 2
  /\ Program["parent"][4][1] = "read" /\ Program["parent"][4][2] = 3
  /\ Program["parent"][5][1] = "print" /\ Program["parent"][5][2] = "Parent_line_2"
  /\ Program["parent"][6][1] = "wait"
  /\ Program["parent"][7][1] = "exit"
<1> DEFINE s == << <<"read", 1>>, <<"print", "Parent_line_1">>, <<"write", 2>>,
                   <<"read", 3>>, <<"print", "Parent_line_2">>, <<"wait">>, <<"exit">> >>
<1>1. Program["parent"] = s
  BY DEF Program
<1>2. Len(s) = 7 /\ DOMAIN s = 1 .. 7
  OBVIOUS
<1>3. s[1][1] = "read" /\ s[1][2] = 1 /\ s[2][1] = "print" /\ s[2][2] = "Parent_line_1"
  OBVIOUS
<1>4. s[3][1] = "write" /\ s[3][2] = 2 /\ s[4][1] = "read" /\ s[4][2] = 3
  OBVIOUS
<1>5. s[5][1] = "print" /\ s[5][2] = "Parent_line_2" /\ s[6][1] = "wait" /\ s[7][1] = "exit"
  OBVIOUS
<1> HIDE DEF s
<1> QED
  BY <1>1, <1>2, <1>3, <1>4, <1>5

\* How many there are.
LEMMA CodeLength == Len(Program["child"]) = 6 /\ Len(Program["parent"]) = 7
BY ChildCode, ParentCode

\* The statement a process stands at when it does an operation.
LEMMA StandsAt ==
  ASSUME SyncInv, NEW p \in Procs, NEW op, Does(p, op)
  PROVE  /\ at' = [at EXCEPT ![p] = at[p] + 1]
         /\ at["child"] \in 0 .. 7 /\ at["parent"] \in 0 .. 8
         /\ p = "child" =>
               /\ at[p] \in 1 .. 6
               /\ op = "print" => at[p] \in {1, 4}
               /\ op = "write" => at[p] \in {2, 5}
               /\ op = "read" => at[p] = 3
               /\ op # "wait"
               /\ op = "exit" => at[p] = 6
               /\ at'["child"] = at["child"] + 1 /\ at'["parent"] = at["parent"]
         /\ p = "parent" =>
               /\ at[p] \in 1 .. 7
               /\ op = "print" => at[p] \in {2, 5}
               /\ op = "write" => at[p] = 3
               /\ op = "read" => at[p] \in {1, 4}
               /\ op = "wait" => at[p] = 6
               /\ op = "exit" => at[p] = 7
               /\ at'["parent"] = at["parent"] + 1 /\ at'["child"] = at["child"]
         /\ at' \in [Procs -> 0 .. 8]
         /\ at'["child"] <= 7 /\ (at'["child"] = 0 <=> at'["parent"] = 0)
<1>1. /\ at[p] \in DOMAIN Program[p] /\ Program[p][at[p]][1] = op
      /\ at' = [at EXCEPT ![p] = at[p] + 1]
      /\ at \in [Procs -> 0 .. 8] /\ at["child"] <= 7
  BY DEF Does, SyncInv, SyncTypeOK
<1>2. at["child"] \in 0 .. 7 /\ at["parent"] \in 0 .. 8
  BY <1>1 DEF Procs
<1>3. CASE p = "child"
  <2>1. at[p] \in 1 .. 6
    BY <1>1, <1>3, ChildCode, ParentCode
  <2>2. at[p] = 1 \/ at[p] = 2 \/ at[p] = 3 \/ at[p] = 4 \/ at[p] = 5 \/ at[p] = 6
    BY <2>1
  <2>3. /\ op = "print" => at[p] \in {1, 4}
        /\ op = "write" => at[p] \in {2, 5}
        /\ op = "read" => at[p] = 3
        /\ op # "wait"
        /\ op = "exit" => at[p] = 6
    BY <1>1, <1>3, <2>2, ChildCode, ParentCode
  <2>4. at'["child"] = at["child"] + 1 /\ at'["parent"] = at["parent"] /\ at' \in [Procs -> 0 .. 8]
    BY <1>1, <1>3, <2>1 DEF Procs
  <2> QED
    BY <1>1, <1>2, <1>3, <2>1, <2>3, <2>4 DEF SyncInv
<1>4. CASE p = "parent"
  <2>1. at[p] \in 1 .. 7
    BY <1>1, <1>4, ChildCode, ParentCode
  <2>2. at[p] = 1 \/ at[p] = 2 \/ at[p] = 3 \/ at[p] = 4 \/ at[p] = 5 \/ at[p] = 6 \/ at[p] = 7
    BY <2>1
  <2>3. /\ op = "print" => at[p] \in {2, 5}
        /\ op = "write" => at[p] = 3
        /\ op = "read" => at[p] \in {1, 4}
        /\ op = "wait" => at[p] = 6
        /\ op = "exit" => at[p] = 7
    BY <1>1, <1>4, <2>2, ChildCode, ParentCode
  <2>4. at'["parent"] = at["parent"] + 1 /\ at'["child"] = at["child"] /\ at' \in [Procs -> 0 .. 8]
    BY <1>1, <1>4, <2>1 DEF Procs
  <2> QED
    BY <1>1, <1>2, <1>4, <2>1, <2>3, <2>4 DEF SyncInv
<1> QED
  BY <1>3, <1>4 DEF Procs

-----------------------------------------------------------------------------
(* The lines *)

\* The lines of the two orders.
LEMMA TheLines ==
  /\ InTurn \in Seq(Lines) /\ Len(InTurn) = 4
  /\ InTurn[1] = "Child_line_1" /\ InTurn[2] = "Parent_line_1"
  /\ InTurn[3] = "Child_line_2" /\ InTurn[4] = "Parent_line_2"
  /\ ByProcess \in Seq(Lines) /\ Len(ByProcess) = 4
  /\ ByProcess[1] = "Child_line_1" /\ ByProcess[2] = "Child_line_2"
  /\ ByProcess[3] = "Parent_line_1" /\ ByProcess[4] = "Parent_line_2"
  /\ LinesOf("child")[1] = "Child_line_1" /\ LinesOf("child")[2] = "Child_line_2"
  /\ LinesOf("parent")[1] = "Parent_line_1" /\ LinesOf("parent")[2] = "Parent_line_2"
<1>1. InTurn \in Seq(Lines) /\ Len(InTurn) = 4
  BY DEF InTurn, Lines
<1>2. ByProcess \in Seq(Lines) /\ Len(ByProcess) = 4
  BY DEF ByProcess, Lines
<1>3. /\ InTurn[1] = "Child_line_1" /\ InTurn[2] = "Parent_line_1"
      /\ InTurn[3] = "Child_line_2" /\ InTurn[4] = "Parent_line_2"
  BY DEF InTurn
<1>4. /\ ByProcess[1] = "Child_line_1" /\ ByProcess[2] = "Child_line_2"
      /\ ByProcess[3] = "Parent_line_1" /\ ByProcess[4] = "Parent_line_2"
  BY DEF ByProcess
<1>5. LinesOf("child")[1] = "Child_line_1" /\ LinesOf("child")[2] = "Child_line_2"
  BY DEF LinesOf
<1>6. LinesOf("parent")[1] = "Parent_line_1" /\ LinesOf("parent")[2] = "Parent_line_2"
  BY DEF LinesOf
<1> QED
  BY <1>1, <1>2, <1>3, <1>4, <1>5, <1>6

\* Nothing is the first no lines.
LEMMA BeginsEmpty == ASSUME NEW t, NEW s PROVE Begins(s, t, 0) <=> s = <<>>
<1>1. <<>> \in Seq(Lines) /\ Len(<<>>) = 0
  BY EmptySeq
<1>2. ASSUME s \in Seq(Lines), Len(s) = 0 PROVE s = <<>>
  BY <1>2, EmptySeq
<1>3. ~ \E i : i \in 1 .. 0
  OBVIOUS
<1>4. ASSUME s = <<>> PROVE s \in Seq(Lines) /\ Len(s) = 0
  BY <1>1, <1>4
<1> QED
  BY <1>2, <1>3, <1>4, Zenon DEF Begins

\* One line more.
LEMMA BeginsAppend ==
  ASSUME NEW s, NEW t, NEW n \in Nat, NEW text \in Lines, Begins(s, t, n), t[n + 1] = text
  PROVE  Begins(Append(s, text), t, n + 1)
<1>1. s \in Seq(Lines) /\ Len(s) = n /\ \A i \in 1 .. n : s[i] = t[i]
  BY DEF Begins
<1>2. PICK u : u = Append(s, text)
  OBVIOUS
<1>3. /\ u \in Seq(Lines) /\ Len(u) = n + 1
      /\ (\A i \in 1 .. n : u[i] = s[i]) /\ u[n + 1] = text
  BY <1>1, <1>2, AppendProperties
<1>4. \A i \in 1 .. n + 1 : u[i] = t[i]
  BY <1>1, <1>3
<1> QED
  BY <1>2, <1>3, <1>4 DEF Begins

\* A process's two lines behind the n that arrived before.
LEMMA BeginsConcat ==
  ASSUME NEW s, NEW t, NEW n \in Nat, NEW u, NEW v, Begins(s, t, n), Begins(u, v, 2),
         t[n + 1] = v[1], t[n + 2] = v[2]
  PROVE  Begins(s \o u, t, n + 2)
<1>1. /\ s \in Seq(Lines) /\ Len(s) = n /\ \A i \in 1 .. n : s[i] = t[i]
      /\ u \in Seq(Lines) /\ Len(u) = 2 /\ u[1] = v[1] /\ u[2] = v[2]
  BY DEF Begins
<1>2. PICK w : w = s \o u
  OBVIOUS
<1>3. /\ w \in Seq(Lines) /\ Len(w) = n + 2
      /\ \A i \in 1 .. n + 2 : w[i] = IF i <= n THEN s[i] ELSE u[i - n]
  <2>1. /\ w \in Seq(Lines) /\ Len(w) = Len(s) + Len(u)
        /\ \A i \in 1 .. Len(s) + Len(u) : w[i] = IF i <= Len(s) THEN s[i] ELSE u[i - Len(s)]
    BY <1>1, <1>2, ConcatProperties, Zenon
  <2> QED
    BY <1>1, <2>1
<1>4. ASSUME NEW i \in 1 .. n + 2 PROVE w[i] = t[i]
  <2>1. i \in 1 .. n \/ i = n + 1 \/ i = n + 2
    OBVIOUS
  <2>2. CASE i \in 1 .. n
    BY <1>1, <1>3, <2>2
  <2>3. CASE i = n + 1
    BY <1>1, <1>3, <2>3
  <2>4. CASE i = n + 2
    BY <1>1, <1>3, <2>4
  <2> QED
    BY <2>1, <2>2, <2>3, <2>4
<1> QED
  BY <1>2, <1>3, <1>4 DEF Begins

\* A sequence that agrees with the begin of another one is a prefix.
LEMMA PrefixOf ==
  ASSUME NEW S, NEW s \in Seq(S), NEW t \in Seq(S), Len(s) <= Len(t),
         \A i \in 1 .. Len(s) : s[i] = t[i]
  PROVE  IsPrefix(s, t)
<1> DEFINE n == Len(s)
           u == SubSeq(s, 1, n)
           v == SubSeq(t, 1, n)
<1>1. n \in Nat /\ Len(t) \in Nat /\ \A i \in 1 .. n : s[i] \in S /\ t[i] \in S
  OBVIOUS
<1>2. /\ u \in Seq(S) /\ Len(u) = n /\ \A i \in 1 .. n : u[i] = s[i]
      /\ v \in Seq(S) /\ Len(v) = n /\ \A i \in 1 .. n : v[i] = t[i]
  <2> HIDE DEF n
  <2>1. 1 \in Int /\ n \in Int /\ \A i \in 1 .. n : s[i] \in S
    BY <1>1
  <2>2. 1 \in Int /\ n \in Int /\ \A i \in 1 .. n : t[i] \in S
    BY <1>1
  <2>3. /\ u \in Seq(S) /\ Len(u) = (IF 1 <= n THEN n - 1 + 1 ELSE 0)
        /\ \A i \in 1 .. n - 1 + 1 : u[i] = s[1 + i - 1]
    BY <2>1, SubSeqProperties
  <2>4. /\ v \in Seq(S) /\ Len(v) = (IF 1 <= n THEN n - 1 + 1 ELSE 0)
        /\ \A i \in 1 .. n - 1 + 1 : v[i] = t[1 + i - 1]
    BY <2>2, SubSeqProperties
  <2>5. n - 1 + 1 = n /\ \A i \in 1 .. n : 1 + i - 1 = i
    BY <1>1
  <2>6. (IF 1 <= n THEN n - 1 + 1 ELSE 0) = n
    BY <1>1
  <2> QED
    BY <2>3, <2>4, <2>5, <2>6
<1>3. \A i \in 1 .. n : u[i] = v[i]
  BY <1>2
<1> HIDE DEF u, v
<1>4. u = v
  BY <1>2, <1>3, SeqEqual
<1> QED
  BY <1>4 DEF IsPrefix, u, v


\* What begins a sequence is a prefix of it.
LEMMA BeginsPrefix ==
  ASSUME NEW t \in Seq(Lines), NEW n \in 0 .. Len(t), NEW s, Begins(s, t, n)
  PROVE  IsPrefix(s, t) /\ (n = Len(t) => s = t)
<1>1. s \in Seq(Lines) /\ Len(s) = n /\ n \in Nat /\ n <= Len(t) /\ \A i \in 1 .. n : s[i] = t[i]
  BY DEF Begins
<1>2. IsPrefix(s, t)
  BY <1>1, PrefixOf
<1>3. n = Len(t) => s = t
  BY <1>1, SeqEqual
<1> QED
  BY <1>2, <1>3

-----------------------------------------------------------------------------
(* The steps *)

\* Nobody has done anything yet.
LEMMA SyncInvInit == SyncInit => SyncInv
<1> SUFFICES ASSUME SyncInit PROVE SyncInv
  OBVIOUS
<1>1. /\ at["child"] = 0 /\ at["parent"] = 0 /\ output = <<>> /\ ~ terminal
      /\ \A p \in Procs : buffer[p] = <<>> /\ at[p] = 0
  BY DEF SyncInit, Procs
<1>2. SyncTypeOK
  <2>1. <<>> \in Seq(Lines)
    BY EmptySeq
  <2>2. buffer = [p \in Procs |-> <<>>] /\ output = <<>>
    BY DEF SyncInit
  <2>3. buffer \in [Procs -> Seq(Lines)] /\ output \in Seq(Lines)
    BY <2>1, <2>2, Zenon
  <2>4. at \in [Procs -> 0 .. 8]
    BY DEF SyncInit
  <2>5. message \in [1 .. 3 -> 0 .. 1]
    BY DEF SyncInit
  <2>6. terminal \in BOOLEAN
    BY DEF SyncInit
  <2> QED
    BY <2>3, <2>4, <2>5, <2>6 DEF SyncTypeOK
<1>3. InStep
  BY <1>1 DEF SyncInit, InStep, Passed
<1>4. Arrived
  BY <1>1, BeginsEmpty, CodeLength DEF Arrived, Printed, Flushed, Procs
<1> QED
  BY <1>1, <1>2, <1>3, <1>4 DEF SyncInv

\* Both processes start at their first statements.
LEMMA SyncForkKeeps ==
  ASSUME SyncInv, NEW tty \in BOOLEAN, SyncFork(tty)
  PROVE  SyncInv'
<1>1. /\ at["child"] = 0 /\ at["parent"] = 0 /\ at'["child"] = 1 /\ at'["parent"] = 1
      /\ at' \in [Procs -> 0 .. 8] /\ message' = message /\ terminal' = tty
      /\ output' = output /\ buffer' = buffer
  BY DEF SyncFork, Procs
<1>2. Printed("child", at["child"]) = 0 /\ Printed("parent", at["parent"]) = 0 /\ Flushed = 0
  BY <1>1 DEF Printed, Flushed
<1>3. output = <<>> /\ \A p \in Procs : buffer[p] = <<>>
  BY <1>1, <1>2, BeginsEmpty, CodeLength DEF SyncInv, Arrived, Procs
<1>4. Printed("child", at'["child"]) = 0 /\ Printed("parent", at'["parent"]) = 0 /\ Flushed' = 0
  BY <1>1 DEF Printed, Flushed
<1>5. Arrived'
  BY <1>1, <1>3, <1>4, BeginsEmpty, CodeLength DEF Arrived, Procs
<1>6. InStep'
  BY <1>1 DEF SyncInv, InStep, Passed
<1>7. SyncTypeOK'
  BY <1>1 DEF SyncInv, SyncTypeOK
<1> QED
  BY <1>1, <1>5, <1>6, <1>7 DEF SyncInv

\* A step that prints nothing.
LEMMA SilentKeeps ==
  ASSUME SyncInv, NEW p \in Procs, NEW op \in {"write", "read", "wait"}, Does(p, op),
         UNCHANGED <<terminal, buffer, output>>, message' \in [1 .. 3 -> 0 .. 1], InStep',
         op = "wait" => at["child"] > 6
  PROVE  SyncInv'
<1>1. /\ at["child"] \in 0 .. 7 /\ at["parent"] \in 0 .. 8
      /\ at' \in [Procs -> 0 .. 8] /\ at'["child"] <= 7 /\ (at'["child"] = 0 <=> at'["parent"] = 0)
  BY StandsAt, Zenon
<1>2. p = "child" => /\ at["child"] \in {2, 3, 5}
                     /\ at'["child"] = at["child"] + 1 /\ at'["parent"] = at["parent"]
  BY StandsAt
<1>3. p = "parent" => /\ at["parent"] \in {1, 3, 4, 6}
                      /\ at["parent"] = 6 => at["child"] > 6
                      /\ at'["parent"] = at["parent"] + 1 /\ at'["child"] = at["child"]
  BY StandsAt
<1>4. /\ Printed("child", at'["child"]) = Printed("child", at["child"]) /\ Printed("parent", at'["parent"]) = Printed("parent", at["parent"])
      /\ Flushed' = Flushed
      /\ at'["child"] > 6 <=> at["child"] > 6
      /\ at'["parent"] > 7 <=> at["parent"] > 7
  BY <1>1, <1>2, <1>3 DEF Printed, Flushed, Procs
<1>5. at'["parent"] > 6 => at'["child"] > 6
  BY <1>1, <1>2, <1>3 DEF SyncInv, Procs
<1>6. Arrived'
  BY <1>4, CodeLength DEF SyncInv, Arrived, Procs
<1>7. SyncTypeOK'
  BY <1>1 DEF SyncInv, SyncTypeOK
<1> QED
  BY <1>1, <1>5, <1>6, <1>7 DEF SyncInv

\* A message is written or read.
LEMMA MessageKeeps ==
  ASSUME SyncInv, NEW p \in Procs, WriteMessage(p) \/ ReadMessage(p)
  PROVE  SyncInv'
<1>1. PICK op \in {"write", "read"} :
        /\ Does(p, op)
        /\ op = "write" => message' = [message EXCEPT ![Program[p][at[p]][2]] = @ + 1]
        /\ op = "read" => /\ message[Program[p][at[p]][2]] > 0
                          /\ message' = [message EXCEPT ![Program[p][at[p]][2]] = @ - 1]
        /\ UNCHANGED <<terminal, buffer, output>>
  BY DEF WriteMessage, ReadMessage
<1>2. /\ p = "child" => /\ op = "write" => at[p] \in {2, 5}
                        /\ op = "read" => at[p] = 3
                        /\ at'["child"] = at["child"] + 1 /\ at'["parent"] = at["parent"]
      /\ p = "parent" => /\ op = "write" => at[p] = 3
                         /\ op = "read" => at[p] \in {1, 4}
                         /\ at'["parent"] = at["parent"] + 1 /\ at'["child"] = at["child"]
      /\ at["child"] \in 0 .. 7 /\ at["parent"] \in 0 .. 8
  BY <1>1, StandsAt, Zenon
<1>3. message \in [1 .. 3 -> 0 .. 1] /\ InStep
  BY DEF SyncInv, SyncTypeOK
<1>4. message' \in [1 .. 3 -> 0 .. 1] /\ InStep'
  <2>1. CASE p = "child" /\ op = "write" /\ at[p] = 2
    <3>1. message' = [message EXCEPT ![1] = @ + 1]
      <4>1. Program[p][at[p]][2] = 1
        BY <2>1, ChildCode
      <4> QED
        BY <1>1, <2>1, <4>1
    <3> QED
      BY <1>2, <1>3, <2>1, <3>1 DEF InStep, Passed
  <2>2. CASE p = "child" /\ op = "write" /\ at[p] = 5
    <3>1. message' = [message EXCEPT ![3] = @ + 1]
      <4>1. Program[p][at[p]][2] = 3
        BY <2>2, ChildCode
      <4> QED
        BY <1>1, <2>2, <4>1
    <3> QED
      BY <1>2, <1>3, <2>2, <3>1 DEF InStep, Passed
  <2>3. CASE p = "child" /\ op = "read" /\ at[p] = 3
    <3>1. message' = [message EXCEPT ![2] = @ - 1] /\ message[2] > 0
      BY <1>1, <2>3, ChildCode
    <3> QED
      BY <1>2, <1>3, <2>3, <3>1 DEF InStep, Passed
  <2>4. CASE p = "parent" /\ op = "write" /\ at[p] = 3
    <3>1. message' = [message EXCEPT ![2] = @ + 1]
      <4>1. Program[p][at[p]][2] = 2
        BY <2>4, ParentCode
      <4> QED
        BY <1>1, <2>4, <4>1
    <3> QED
      BY <1>2, <1>3, <2>4, <3>1 DEF InStep, Passed
  <2>5. CASE p = "parent" /\ op = "read" /\ at[p] = 1
    <3>1. message' = [message EXCEPT ![1] = @ - 1] /\ message[1] > 0
      BY <1>1, <2>5, ParentCode
    <3> QED
      BY <1>2, <1>3, <2>5, <3>1 DEF InStep, Passed
  <2>6. CASE p = "parent" /\ op = "read" /\ at[p] = 4
    <3>1. message' = [message EXCEPT ![3] = @ - 1] /\ message[3] > 0
      BY <1>1, <2>6, ParentCode
    <3> QED
      BY <1>2, <1>3, <2>6, <3>1 DEF InStep, Passed
  <2> QED
    BY <1>1, <1>2, <2>1, <2>2, <2>3, <2>4, <2>5, <2>6 DEF Procs
<1> QED
  BY <1>1, <1>4, SilentKeeps

\* The parent goes on when the child has exited.
LEMMA WaitChildKeeps ==
  ASSUME SyncInv, NEW p \in Procs, WaitChild(p)
  PROVE  SyncInv'
<1>1. /\ p = "parent" /\ at["parent"] = 6 /\ at'["parent"] = 7 /\ at'["child"] = at["child"]
      /\ message' = message /\ at["child"] > 6
  BY StandsAt, CodeLength DEF WaitChild, Procs
<1>2. message' \in [1 .. 3 -> 0 .. 1] /\ InStep'
  BY <1>1 DEF SyncInv, SyncTypeOK, InStep, Passed
<1> QED
  BY <1>1, <1>2, SilentKeeps DEF WaitChild

\* A line is printed by the process whose turn it is.
LEMMA PrintKeeps ==
  ASSUME SyncInv, NEW p \in Procs, PrintLine(p)
  PROVE  SyncInv'
<1>1. /\ at' \in [Procs -> 0 .. 8] /\ at'["child"] <= 7 /\ (at'["child"] = 0 <=> at'["parent"] = 0)
      /\ at["child"] \in 0 .. 7 /\ at["parent"] \in 0 .. 8
  BY StandsAt, Zenon DEF PrintLine
<1>2. /\ p = "child" => /\ at["child"] \in {1, 4}
                        /\ at'["child"] = at["child"] + 1 /\ at'["parent"] = at["parent"]
      /\ p = "parent" => /\ at["parent"] \in {2, 5}
                         /\ at'["parent"] = at["parent"] + 1 /\ at'["child"] = at["child"]
  BY StandsAt, Zenon DEF PrintLine
<1>3. PICK text : text = Program[p][at[p]][2]
  OBVIOUS
<1>4. \/ p = "child" /\ at["child"] = 1 /\ text = "Child_line_1"
      \/ p = "child" /\ at["child"] = 4 /\ text = "Child_line_2"
      \/ p = "parent" /\ at["parent"] = 2 /\ text = "Parent_line_1"
      \/ p = "parent" /\ at["parent"] = 5 /\ text = "Parent_line_2"
  BY <1>2, <1>3, ChildCode, ParentCode DEF Procs
<1>5. text \in Lines
  BY <1>4 DEF Lines
<1>6. /\ terminal' = terminal /\ message' = message
      /\ terminal => output' = Append(output, text) /\ buffer' = buffer
      /\ ~ terminal => buffer' = [buffer EXCEPT ![p] = Append(@, text)] /\ output' = output
  BY <1>3 DEF PrintLine
<1>7. /\ at["parent"] > 1 => at["child"] > 2
      /\ at["child"] > 3 => at["parent"] > 3
      /\ at["parent"] > 4 => at["child"] > 5
  BY DEF SyncInv, InStep, Passed
<1>8. /\ InStep'
      /\ at'["parent"] > 6 => at'["child"] > 6
      /\ at["child"] <= 6 \/ p = "parent"
      /\ at'["child"] > 6 <=> at["child"] > 6
      /\ at["parent"] <= 7 /\ at'["parent"] <= 7
  <2>1. CASE p = "child"
    <3>1. /\ \/ at["child"] = 1 /\ at'["child"] = 2
             \/ at["child"] = 4 /\ at'["child"] = 5
          /\ at'["parent"] = at["parent"] /\ at["parent"] <= 4
      BY <1>1, <1>2, <1>7, <2>1
    <3> QED
      BY <1>1, <1>6, <2>1, <3>1 DEF SyncInv, InStep, Passed
  <2>2. CASE p = "parent"
    <3>1. /\ \/ at["parent"] = 2 /\ at'["parent"] = 3 /\ at["child"] <= 3
             \/ at["parent"] = 5 /\ at'["parent"] = 6
          /\ at'["child"] = at["child"] /\ at["child"] > 2
      BY <1>1, <1>2, <1>7, <2>2
    <3> QED
      BY <1>1, <1>6, <2>2, <3>1 DEF SyncInv, InStep, Passed
  <2> QED
    BY <2>1, <2>2 DEF Procs
<1>0. Printed("child", at["child"]) \in Nat /\ Printed("parent", at["parent"]) \in Nat
  BY DEF Printed
<1>9. PICK k, n : k = Printed("child", at["child"]) /\ n = Printed("parent", at["parent"]) /\ k \in Nat /\ n \in Nat
  BY <1>0
<1>10. /\ \/ p = "child" /\ k = 0 /\ n = 0 /\ text = "Child_line_1"
          \/ p = "child" /\ k = 1 /\ n = 1 /\ text = "Child_line_2"
          \/ p = "parent" /\ k = 1 /\ n = 0 /\ text = "Parent_line_1"
          \/ p = "parent" /\ k = 2 /\ n = 1 /\ text = "Parent_line_2"
       /\ p = "child" => Printed("child", at'["child"]) = k + 1 /\ Printed("parent", at'["parent"]) = n
       /\ p = "parent" => Printed("child", at'["child"]) = k /\ Printed("parent", at'["parent"]) = n + 1
       /\ Flushed' = Flushed
  <2>1. CASE p = "child" /\ at["child"] = 1
    <3>1. at'["child"] = 2 /\ at'["parent"] = at["parent"] /\ at["parent"] <= 1
      BY <1>1, <1>2, <1>7, <2>1
    <3> QED
      BY <1>1, <1>4, <1>9, <2>1, <3>1 DEF Printed, Flushed
  <2>2. CASE p = "child" /\ at["child"] = 4
    <3>1. at'["child"] = 5 /\ at'["parent"] = at["parent"] /\ at["parent"] = 4
      BY <1>1, <1>2, <1>7, <2>2
    <3> QED
      BY <1>1, <1>4, <1>9, <2>2, <3>1 DEF Printed, Flushed
  <2>3. CASE p = "parent" /\ at["parent"] = 2
    <3>1. at'["parent"] = 3 /\ at'["child"] = at["child"] /\ at["child"] = 3
      BY <1>1, <1>2, <1>7, <2>3
    <3> QED
      BY <1>1, <1>4, <1>9, <2>3, <3>1 DEF Printed, Flushed
  <2>4. CASE p = "parent" /\ at["parent"] = 5
    <3>1. at'["parent"] = 6 /\ at'["child"] = at["child"] /\ at["child"] > 5
      BY <1>1, <1>2, <1>7, <2>4
    <3> QED
      BY <1>1, <1>4, <1>9, <2>4, <3>1 DEF Printed, Flushed
  <2> QED
    BY <1>4, <2>1, <2>2, <2>3, <2>4
<1>11. CASE terminal
  <2>1. InTurn[k + n + 1] = text
    BY <1>10, TheLines
  <2>2. Begins(output', InTurn, k + n + 1)
    <3>1. Begins(output, InTurn, k + n) /\ k + n \in Nat
      BY <1>9, <1>11 DEF SyncInv, Arrived
    <3> QED
      BY <1>5, <1>6, <1>11, <2>1, <3>1, BeginsAppend
  <2>3. k + n + 1 = Printed("child", at'["child"]) + Printed("parent", at'["parent"])
    BY <1>9, <1>10
  <2>4. Arrived'
    BY <1>6, <1>11, <2>2, <2>3 DEF SyncInv, Arrived
  <2>5. SyncTypeOK'
    BY <1>1, <1>6, <1>11, <2>2 DEF SyncInv, SyncTypeOK, Begins
  <2> QED
    BY <1>1, <1>8, <2>4, <2>5 DEF SyncInv
<1>12. CASE ~ terminal
  <2>1. PICK m \in Nat : /\ m = Printed(p, at[p]) /\ Printed(p, at'[p]) = m + 1 /\ LinesOf(p)[m + 1] = text
                         /\ \A q \in Procs : q # p => Printed(q, at'[q]) = Printed(q, at[q]) /\ at'[q] = at[q]
    <3>1. CASE p = "child"
      BY <1>2, <1>9, <1>10, <3>1, TheLines DEF Procs
    <3>2. CASE p = "parent"
      BY <1>2, <1>9, <1>10, <3>2, TheLines DEF Procs
    <3> QED
      BY <3>1, <3>2 DEF Procs
  <2>2. ~ at[p] > Len(Program[p]) /\ ~ at'[p] > Len(Program[p])
    <3>1. CASE p = "child"
      BY <1>1, <1>2, <3>1, CodeLength
    <3>2. CASE p = "parent"
      BY <1>1, <1>2, <3>2, CodeLength
    <3> QED
      BY <3>1, <3>2 DEF Procs
  <2>3. Begins(buffer[p], LinesOf(p), m)
    BY <1>12, <2>1, <2>2 DEF SyncInv, Arrived
  <2>4. Begins(Append(buffer[p], text), LinesOf(p), m + 1)
    BY <1>5, <2>1, <2>3, BeginsAppend
  <2>5. /\ buffer \in [Procs -> Seq(Lines)] /\ buffer' \in [Procs -> Seq(Lines)]
        /\ buffer'[p] = Append(buffer[p], text) /\ \A q \in Procs : q # p => buffer'[q] = buffer[q]
    <3>1. buffer \in [Procs -> Seq(Lines)] /\ buffer[p] \in Seq(Lines)
      BY DEF SyncInv, SyncTypeOK
    <3>2. PICK u : u = Append(buffer[p], text)
      OBVIOUS
    <3>3. u \in Seq(Lines)
      BY <1>5, <3>1, <3>2, AppendProperties
    <3> QED
      BY <1>6, <1>12, <3>1, <3>2, <3>3
  <2>6. ASSUME NEW q \in Procs
        PROVE  Begins(buffer[q], LinesOf(q), IF at[q] > Len(Program[q]) THEN 0 ELSE Printed(q, at[q]))'
    <3>1. CASE q = p
      BY <2>1, <2>2, <2>4, <2>5, <3>1 DEF Begins, LinesOf
    <3>2. CASE q # p
      <4>1. buffer'[q] = buffer[q] /\ at'[q] = at[q] /\ Printed(q, at'[q]) = Printed(q, at[q])
        BY <2>1, <2>5, <3>2
      <4>2. Begins(buffer[q], LinesOf(q), IF at[q] > Len(Program[q]) THEN 0 ELSE Printed(q, at[q]))
        BY <1>12 DEF SyncInv, Arrived
      <4> QED
        BY <4>1, <4>2
    <3> QED
      BY <3>1, <3>2
  <2>7. Begins(output, ByProcess, Flushed)'
    BY <1>6, <1>10, <1>12 DEF SyncInv, Arrived
  <2>8. Arrived'
    BY <1>6, <1>12, <2>6, <2>7 DEF Arrived
  <2>9. SyncTypeOK'
    BY <1>1, <1>6, <1>12, <2>5 DEF SyncInv, SyncTypeOK
  <2> QED
    BY <1>1, <1>8, <2>8, <2>9 DEF SyncInv
<1> QED
  BY <1>11, <1>12

\* What a process has kept arrives in one piece when it exits.
LEMMA ExitKeeps ==
  ASSUME SyncInv, NEW p \in Procs, ExitFlushes(p)
  PROVE  SyncInv'
<1>1. /\ p = "child" => at["child"] = 6 /\ at'["child"] = 7 /\ at'["parent"] = at["parent"]
      /\ p = "parent" => at["parent"] = 7 /\ at'["parent"] = 8 /\ at'["child"] = at["child"]
      /\ at' \in [Procs -> 0 .. 8] /\ at'["child"] <= 7 /\ (at'["child"] = 0 <=> at'["parent"] = 0)
      /\ at["child"] \in 0 .. 7 /\ at["parent"] \in 0 .. 8
      /\ message' = message /\ terminal' = terminal
      /\ buffer' = [buffer EXCEPT ![p] = <<>>] /\ output' = output \o buffer[p]
  BY StandsAt DEF ExitFlushes
<1>2. \/ p = "child" /\ at["child"] = 6 /\ at["parent"] <= 6
      \/ p = "parent" /\ at["parent"] = 7 /\ at["child"] = 7
  BY <1>1 DEF SyncInv, Procs
<1>3. InStep' /\ (at'["parent"] > 6 => at'["child"] > 6)
  BY <1>1, <1>2 DEF SyncInv, InStep, Passed
<1>4. Printed("child", at'["child"]) = Printed("child", at["child"]) /\ Printed("parent", at'["parent"]) = Printed("parent", at["parent"]) /\ Printed(p, at[p]) = 2
  BY <1>1, <1>2 DEF Printed
<1>5. /\ buffer \in [Procs -> Seq(Lines)] /\ buffer' \in [Procs -> Seq(Lines)] /\ buffer'[p] = <<>>
      /\ \A q \in Procs : q # p => buffer'[q] = buffer[q] /\ at'[q] = at[q] /\ Printed(q, at'[q]) = Printed(q, at[q])
  BY <1>1, <1>4, EmptySeq DEF SyncInv, SyncTypeOK, Procs
<1>6. CASE terminal
  <2>1. output' = output
    BY <1>1, <1>6, ConcatEmptySeq DEF SyncInv, Arrived, Begins
  <2>2. Arrived'
    BY <1>1, <1>4, <1>5, <1>6, <2>1 DEF SyncInv, Arrived
  <2>3. SyncTypeOK'
    BY <1>1, <1>5, <2>1 DEF SyncInv, SyncTypeOK
  <2> QED
    BY <1>1, <1>3, <2>2, <2>3 DEF SyncInv
<1>7. CASE ~ terminal
  <2>1. /\ ~ at[p] > Len(Program[p]) /\ at'[p] > Len(Program[p])
    <3>1. CASE p = "child"
      BY <1>1, <3>1, CodeLength
    <3>2. CASE p = "parent"
      BY <1>1, <3>2, CodeLength
    <3> QED
      BY <3>1, <3>2 DEF Procs
  <2>2. Begins(buffer[p], LinesOf(p), 2) /\ Begins(output, ByProcess, Flushed)
    BY <1>4, <1>7, <2>1 DEF SyncInv, Arrived
  <2>3. Begins(output \o buffer[p], ByProcess, Flushed')
    <3>1. CASE p = "child"
      <4>1. Flushed = 0 /\ Flushed' = 2
        BY <1>1, <1>2, <3>1 DEF Flushed
      <4> QED
        BY <2>2, <3>1, <4>1, TheLines, BeginsConcat
    <3>2. CASE p = "parent"
      <4>1. Flushed = 2 /\ Flushed' = 4
        BY <1>1, <1>2, <3>2 DEF Flushed
      <4> QED
        BY <2>2, <3>2, <4>1, TheLines, BeginsConcat
    <3> QED
      BY <3>1, <3>2 DEF Procs
  <2>4. Begins(output, ByProcess, Flushed)'
    BY <1>1, <2>3
  <2>5. ASSUME NEW q \in Procs
        PROVE  Begins(buffer[q], LinesOf(q), IF at[q] > Len(Program[q]) THEN 0 ELSE Printed(q, at[q]))'
    <3>1. CASE q = p
      <4>1. Begins(<<>>, LinesOf(q), 0)
        BY BeginsEmpty
      <4> QED
        BY <1>5, <2>1, <3>1, <4>1 DEF Begins, LinesOf
    <3>2. CASE q # p
      <4>1. buffer'[q] = buffer[q] /\ at'[q] = at[q] /\ Printed(q, at'[q]) = Printed(q, at[q])
        BY <1>5, <3>2
      <4>2. Begins(buffer[q], LinesOf(q), IF at[q] > Len(Program[q]) THEN 0 ELSE Printed(q, at[q]))
        BY <1>7 DEF SyncInv, Arrived
      <4> QED
        BY <4>1, <4>2
    <3> QED
      BY <3>1, <3>2
  <2>6. Arrived'
    BY <1>1, <1>7, <2>4, <2>5 DEF Arrived
  <2>7. SyncTypeOK'
    BY <1>1, <1>5, <2>4 DEF SyncInv, SyncTypeOK, Begins
  <2> QED
    BY <1>1, <1>3, <2>6, <2>7 DEF SyncInv
<1> QED
  BY <1>6, <1>7

\* Every statement keeps the invariant.
LEMMA SyncInvStep == SyncInv /\ [SyncNext]_syncVars => SyncInv'
<1> SUFFICES ASSUME SyncInv, [SyncNext]_syncVars PROVE SyncInv'
  OBVIOUS
<1>1. CASE SyncOver \/ UNCHANGED syncVars
  BY <1>1 DEF SyncOver, syncVars, SyncInv, SyncTypeOK, InStep, Arrived, Passed, Printed, Flushed
<1> QED
  BY <1>1, SyncForkKeeps, PrintKeeps, MessageKeeps, WaitChildKeeps, ExitKeeps DEF SyncNext

\* It says what arrives, on a terminal and elsewhere.
LEMMA SyncInvLines == SyncInv => LinesInOrder /\ LinesByProcess
<1> SUFFICES ASSUME SyncInv PROVE LinesInOrder /\ LinesByProcess
  OBVIOUS
<1>1. /\ Printed("child", at["child"]) + Printed("parent", at["parent"]) \in 0 .. 4 /\ Flushed \in 0 .. 4
  BY DEF Printed, Flushed
<1>2. ASSUME \A p \in Procs : at[p] > Len(Program[p])
      PROVE  Printed("child", at["child"]) + Printed("parent", at["parent"]) = 4 /\ Flushed = 4
  <2>1. at["child"] > 6 /\ at["parent"] > 7 /\ at["child"] \in 0 .. 8 /\ at["parent"] \in 0 .. 8
    BY <1>2, CodeLength DEF Procs, SyncInv, SyncTypeOK
  <2> QED
    BY <2>1 DEF Printed, Flushed
<1>3. CASE terminal
  <2>1. PICK n : n = Printed("child", at["child"]) + Printed("parent", at["parent"])
    OBVIOUS
  <2>2. n \in 0 .. Len(InTurn) /\ InTurn \in Seq(Lines) /\ Begins(output, InTurn, n)
    BY <1>1, <1>3, <2>1, TheLines DEF SyncInv, Arrived
  <2>3. IsPrefix(output, InTurn) /\ (n = 4 => output = InTurn)
    BY <2>2, TheLines, BeginsPrefix
  <2> QED
    BY <1>2, <1>3, <2>1, <2>3 DEF LinesInOrder, LinesByProcess
<1>4. CASE ~ terminal
  <2>1. Flushed \in 0 .. Len(ByProcess) /\ ByProcess \in Seq(Lines) /\ Begins(output, ByProcess, Flushed)
    BY <1>1, <1>4, TheLines DEF SyncInv, Arrived
  <2>2. IsPrefix(output, ByProcess) /\ (Flushed = 4 => output = ByProcess)
    BY <2>1, TheLines, BeginsPrefix
  <2> QED
    BY <1>2, <1>4, <2>2 DEF LinesInOrder, LinesByProcess
<1> QED
  BY <1>3, <1>4

\* However the two processes are scheduled, on a terminal the lines arrive in the order
\* that the messages enforce (pipe-sync.c 10-14).
THEOREM LinesAreInOrder == SyncSpec => []LinesInOrder
BY SyncInvInit, SyncInvStep, SyncInvLines, PTL DEF SyncSpec

\* Elsewhere the order is another one, always the same: the parent exits, and hands over
\* what it printed, after it has waited for the child (pipe-sync.c 51).
THEOREM RedirectedLines == SyncSpec => []LinesByProcess
BY SyncInvInit, SyncInvStep, SyncInvLines, PTL DEF SyncSpec

-----------------------------------------------------------------------------
(* The shell of quash_final.cpp *)

\* The foreground children of s still to be waited for, and the background ones that
\* a wait has taken.
Unwaited(s) == {c \in Pids : forker[c] = s /\ c \notin back /\ doing[c] # "reaped"}
Taken(s) == {c \in Pids : forker[c] = s /\ c \in back /\ doing[c] = "reaped"}

\* Between two commands the waits that took a job are made up by foreground children
\* left over; during a wait there is one child more.
Lag(s) ==
    /\ doing[s] \in {"prompt", "line"} => Cardinality(Unwaited(s)) = Cardinality(Taken(s))
    /\ doing[s] \in Waiting => Cardinality(Unwaited(s)) = Cardinality(Taken(s)) + 1

\* Who has forked, or was forked for an &, exists.
Forks ==
    /\ doing \in [Pids -> Doings]
    /\ forker \in [Pids -> Pids \cup {0}]
    /\ back \subseteq Pids
    /\ \A p \in Pids : doing[p] = "none" => forker[p] = 0 /\ p \notin back
    /\ \A p \in Pids : forker[p] # 0 => doing[forker[p]] # "none"

\* WaitsLag is not inductive: it speaks of shells at their prompt only.
ShellInv == Forks /\ \A s \in Pids : Lag(s)

-----------------------------------------------------------------------------
(* The sets of children *)

\* They are the sets that WaitsLag counts.
LEMMA ChildrenAre ==
  ASSUME NEW s
  PROVE  /\ {c \in Children(s, TRUE) : doing[c] # "reaped"} = Unwaited(s)
         /\ {c \in Children(s, FALSE) : doing[c] = "reaped"} = Taken(s)
<1>1. Children(s, TRUE) = {c \in Pids : forker[c] = s /\ c \notin back}
  BY DEF Children
<1>2. Children(s, FALSE) = {c \in Pids : forker[c] = s /\ c \in back}
  BY DEF Children
<1> QED
  BY <1>1, <1>2 DEF Unwaited, Taken

\* They are finite.
LEMMA ChildrenFinite ==
  ASSUME NEW s
  PROVE  /\ IsFiniteSet(Unwaited(s)) /\ Cardinality(Unwaited(s)) \in Nat
         /\ IsFiniteSet(Taken(s)) /\ Cardinality(Taken(s)) \in Nat
<1>1. IsFiniteSet(Pids)
  BY QuashShellAssumption, FS_Interval DEF Pids
<1>2. Unwaited(s) \subseteq Pids /\ Taken(s) \subseteq Pids
  BY DEF Unwaited, Taken
<1> QED
  BY <1>1, <1>2, FS_Subset, FS_CardinalityType

\* A step that forks nobody and takes no child of s leaves the two sets of s.
LEMMA SameChildren ==
  ASSUME NEW s \in Pids, UNCHANGED <<forker, back>>,
         \A c \in Pids : forker[c] = s => (doing'[c] = "reaped" <=> doing[c] = "reaped")
  PROVE  Unwaited(s)' = Unwaited(s) /\ Taken(s)' = Taken(s)
BY DEF Unwaited, Taken

\* So does the fork of a process c that did not exist and is not a child of s.
LEMMA ForkedElsewhere ==
  ASSUME Forks, NEW s \in Pids, NEW c \in Pids, doing[c] = "none", forker'[c] # s, s # 0,
         \A p \in Pids \ {c} : /\ forker'[p] = forker[p]
                               /\ p \in back' <=> p \in back
                               /\ doing'[p] = "reaped" <=> doing[p] = "reaped"
  PROVE  Unwaited(s)' = Unwaited(s) /\ Taken(s)' = Taken(s)
BY DEF Unwaited, Taken, Forks

\* A step after which s counts as before keeps its balance.
LEMMA LagKept ==
  ASSUME NEW s \in Pids, Lag(s), Unwaited(s)' = Unwaited(s), Taken(s)' = Taken(s),
         doing'[s] \in {"prompt", "line"} => doing[s] \in {"prompt", "line"},
         doing'[s] \in Waiting => doing[s] \in Waiting
  PROVE  Lag(s)'
BY DEF Lag, Waiting

-----------------------------------------------------------------------------
(* The steps *)

\* The first shell has no children yet.
LEMMA ShellInvInit == ShellInit => ShellInv
<1> SUFFICES ASSUME ShellInit PROVE ShellInv
  OBVIOUS
<1>1. Forks
  BY DEF ShellInit, Forks, Pids, Doings
<1>2. ASSUME NEW s \in Pids PROVE Lag(s)
  <2>1. Unwaited(s) = {} /\ Taken(s) = {}
    BY DEF Unwaited, Taken, ShellInit, Pids
  <2> QED
    BY <2>1, FS_EmptySet DEF Lag, ShellInit, Waiting
<1> QED
  BY <1>1, <1>2 DEF ShellInv

\* A program in the foreground: one child more, and s waits.
LEMMA ForegroundKeeps ==
  ASSUME ShellInv, NEW s \in Pids, NEW c \in Pids, Foreground_command(s, c)
  PROVE  ShellInv'
<1>1. /\ doing[c] = "none" /\ doing[s] \in {"prompt", "line"} /\ c # s
      /\ doing' \in [Pids -> Doings] /\ forker' \in [Pids -> Pids \cup {0}] /\ back' = back
      /\ doing'[c] = "program" /\ doing'[s] \in Waiting
      /\ forker'[c] = s
      /\ \A p \in Pids \ {c} : forker'[p] = forker[p]
      /\ \A p \in Pids \ {c, s} : doing'[p] = doing[p]
  BY DEF ShellInv, Forks, Foreground_command, Executes, Next_pid, Doings, Waiting
<1>2. Forks'
  BY <1>1 DEF ShellInv, Forks, Waiting, Pids
<1>3. ASSUME NEW q \in Pids PROVE Lag(q)'
  <2>1. CASE q = s
    <3>1. c \notin Unwaited(s) /\ Unwaited(s)' = Unwaited(s) \cup {c} /\ Taken(s)' = Taken(s)
      BY <1>1 DEF Unwaited, Taken, ShellInv, Forks, Waiting, Pids
    <3>2. Cardinality(Unwaited(s))' = Cardinality(Unwaited(s)) + 1
      BY <3>1, ChildrenFinite, FS_AddElement
    <3>3. Cardinality(Unwaited(s)) = Cardinality(Taken(s))
      BY <1>1 DEF ShellInv, Lag
    <3>4. Cardinality(Taken(s))' = Cardinality(Taken(s))
      BY <3>1
    <3> QED
      BY <1>1, <2>1, <3>2, <3>3, <3>4 DEF Lag, Waiting
  <2>2. CASE q # s
    <3>1. Unwaited(q)' = Unwaited(q) /\ Taken(q)' = Taken(q)
      BY <1>1, <2>2, ForkedElsewhere DEF ShellInv, Waiting, Pids
    <3>2. CASE q = c
      BY <1>1, <3>2 DEF Lag, Waiting
    <3>3. CASE q # c
      BY <1>1, <2>2, <3>1, <3>3, LagKept DEF ShellInv
    <3> QED
      BY <3>2, <3>3
  <2> QED
    BY <2>1, <2>2
<1> QED
  BY <1>2, <1>3 DEF ShellInv

\* A line that ends in &: the new process has no children.
LEMMA BackgroundKeeps ==
  ASSUME ShellInv, NEW s \in Pids, NEW c \in Pids, Background_command(s, c)
  PROVE  ShellInv'
<1>1. /\ doing[c] = "none" /\ doing[s] = "prompt" /\ c # s
      /\ doing' \in [Pids -> Doings] /\ forker' \in [Pids -> Pids \cup {0}]
      /\ back' = back \cup {c}
      /\ doing'[c] = "line" /\ forker'[c] = s
      /\ \A p \in Pids \ {c} : forker'[p] = forker[p] /\ doing'[p] = doing[p]
  BY DEF ShellInv, Forks, Background_command, Next_pid, Doings
<1>2. Forks'
  BY <1>1 DEF ShellInv, Forks, Pids
<1>3. ASSUME NEW q \in Pids PROVE Lag(q)'
  <2>1. Unwaited(q)' = Unwaited(q) /\ Taken(q)' = Taken(q)
    <3>1. CASE q = s
      BY <1>1, <3>1 DEF Unwaited, Taken, ShellInv, Forks, Pids
    <3>2. CASE q # s
      BY <1>1, <3>2, ForkedElsewhere DEF ShellInv, Pids
    <3> QED
      BY <3>1, <3>2
  <2>2. CASE q = c
    <3>1. Unwaited(c) = {} /\ Taken(c) = {}
      BY <1>1 DEF Unwaited, Taken, ShellInv, Forks, Pids
    <3> QED
      BY <1>1, <2>1, <2>2, <3>1, FS_EmptySet DEF Lag, Waiting
  <2>3. CASE q # c
    BY <1>1, <2>1, <2>3, LagKept DEF ShellInv
  <2> QED
    BY <2>2, <2>3
<1> QED
  BY <1>2, <1>3 DEF ShellInv

\* The first shell ends, and with it the model.
LEMMA FirstExitKeeps ==
  ASSUME ShellInv, 1 \in Pids, ShellAlive(1), doing' = [doing EXCEPT ![1] = "zombie"],
         UNCHANGED <<forker, back>>
  PROVE  ShellInv'
<1>1. Forks'
  BY DEF ShellInv, Forks, Doings, ShellAlive
<1>2. ASSUME NEW q \in Pids PROVE Lag(q)'
  <2>1. Unwaited(q)' = Unwaited(q) /\ Taken(q)' = Taken(q)
    BY SameChildren DEF ShellInv, Forks, ShellAlive
  <2> QED
    BY <2>1, LagKept DEF ShellInv, Forks, Waiting
<1> QED
  BY <1>1, <1>2 DEF ShellInv

\* Another process ends: its forker can still wait for it, or does not wait any more.
LEMMA LaterEndKeeps ==
  ASSUME ShellInv, NEW c \in Pids, c # 1, ShellAlive(c), Process_ends(c),
         UNCHANGED <<forker, back>>
  PROVE  ShellInv'
<1>1. /\ doing[c] \notin {"none", "zombie", "reaped"}
      /\ doing' \in [Pids -> Doings]
      /\ doing'[c] \in {"zombie", "reaped"}
      /\ forker[c] # 0 /\ ShellAlive(forker[c]) => doing'[c] = "zombie"
      /\ \A p \in Pids \ {c} :
            \/ doing'[p] = doing[p]
            \/ forker[p] = c /\ doing[p] = "zombie" /\ doing'[p] = "reaped"
  <2>1. /\ doing[c] \notin {"none", "zombie", "reaped"} /\ doing \in [Pids -> Doings]
        /\ doing' = [p \in Pids |-> Ends_as(c, p)]
    BY DEF ShellInv, Forks, Process_ends, ShellAlive
  <2>2. Ends_as(c, c) = IF ShellAlive(forker[c]) THEN "zombie" ELSE "reaped"
    BY DEF Ends_as
  <2>3. ASSUME NEW p \in Pids, p # c
        PROVE  Ends_as(c, p) = IF forker[p] = c /\ doing[p] = "zombie" THEN "reaped" ELSE doing[p]
    BY <2>3 DEF Ends_as
  <2> QED
    BY <2>1, <2>2, <2>3 DEF Doings
<1>2. Forks'
  BY <1>1 DEF ShellInv, Forks
<1>3. ASSUME NEW q \in Pids PROVE Lag(q)'
  <2>1. CASE ~ ShellAlive(q) \/ q = c
    <3>1. doing'[q] \in {"none", "zombie", "reaped"}
      BY <1>1, <2>1 DEF ShellAlive
    <3> QED
      BY <3>1 DEF Lag, Waiting
  <2>2. CASE ShellAlive(q) /\ q # c
    <3>1. doing'[q] = doing[q] /\ q # 0
      BY <1>1, <2>2 DEF ShellAlive, Pids
    <3>2. Unwaited(q)' = Unwaited(q) /\ Taken(q)' = Taken(q)
      BY <1>1, <2>2, <3>1, SameChildren
    <3> QED
      BY <3>1, <3>2, LagKept DEF ShellInv
  <2> QED
    BY <2>1, <2>2
<1> QED
  BY <1>2, <1>3 DEF ShellInv

\* Both together.
LEMMA EndKeeps ==
  ASSUME ShellInv, NEW c \in Pids, ShellAlive(c), Process_ends(c), UNCHANGED <<forker, back>>
  PROVE  ShellInv'
<1>1. CASE c = 1
  BY <1>1, FirstExitKeeps DEF Process_ends
<1>2. CASE c # 1
  BY <1>2, LaterEndKeeps
<1> QED
  BY <1>1, <1>2

\* A wait takes one child: the program, or a job in its place.
LEMMA WaitKeeps ==
  ASSUME ShellInv, NEW s \in Pids, Wait_returns(s)
  PROVE  ShellInv'
<1>1. PICK c \in Pids : /\ forker[c] = s /\ doing[c] = "zombie"
                        /\ doing' = [doing EXCEPT ![c] = "reaped", ![s] = "prompt"]
  BY DEF Wait_returns
<1>2. /\ doing[s] \in Waiting /\ c # s /\ forker' = forker /\ back' = back
      /\ doing' \in [Pids -> Doings] /\ doing'[c] = "reaped" /\ doing'[s] = "prompt"
      /\ \A p \in Pids \ {c, s} : doing'[p] = doing[p]
  BY <1>1 DEF Wait_returns, Waiting, ShellInv, Forks, Doings
<1>3. Forks'
  BY <1>1, <1>2 DEF ShellInv, Forks, Waiting
<1>4. Lag(s)'
  <2>1. Cardinality(Unwaited(s)) = Cardinality(Taken(s)) + 1
    BY <1>2 DEF ShellInv, Lag
  <2>2. CASE c \in back
    <3>1. c \notin Taken(s) /\ Taken(s)' = Taken(s) \cup {c} /\ Unwaited(s)' = Unwaited(s)
      BY <1>1, <1>2, <2>2 DEF Unwaited, Taken, Waiting
    <3>2. Cardinality(Taken(s)') = Cardinality(Taken(s)) + 1
      BY <3>1, ChildrenFinite, FS_AddElement
    <3> QED
      BY <1>2, <2>1, <3>1, <3>2 DEF Lag, Waiting
  <2>3. CASE c \notin back
    <3>1. c \in Unwaited(s) /\ Unwaited(s)' = Unwaited(s) \ {c} /\ Taken(s)' = Taken(s)
      BY <1>1, <1>2, <2>3 DEF Unwaited, Taken, Waiting
    <3>2. Cardinality(Unwaited(s)') = Cardinality(Unwaited(s)) - 1
      BY <3>1, ChildrenFinite, FS_RemoveElement
    <3> QED
      BY <1>2, <2>1, <3>1, <3>2, ChildrenFinite DEF Lag, Waiting
  <2> QED
    BY <2>2, <2>3
<1>5. ASSUME NEW q \in Pids, q # s PROVE Lag(q)'
  <2>1. Unwaited(q)' = Unwaited(q) /\ Taken(q)' = Taken(q)
    BY <1>1, <1>2, <1>5 DEF Unwaited, Taken, Waiting
  <2> QED
    BY <1>2, <1>5, <2>1, LagKept DEF ShellInv, Waiting
<1> QED
  BY <1>3, <1>4, <1>5 DEF ShellInv

\* A step that changes no process keeps the invariant.
LEMMA StutterKeeps ==
  ASSUME ShellInv, UNCHANGED <<doing, forker, back>>
  PROVE  ShellInv'
<1>1. Forks'
  BY DEF ShellInv, Forks
<1>2. ASSUME NEW q \in Pids PROVE Lag(q)'
  BY SameChildren, LagKept DEF ShellInv
<1> QED
  BY <1>1, <1>2 DEF ShellInv

\* A shell whose command was a builtin is at its prompt.
LEMMA BuiltinKeeps ==
  ASSUME ShellInv, NEW s \in Pids, Builtin(s)
  PROVE  ShellInv'
<1>1. /\ doing[s] = "line" /\ doing' = [doing EXCEPT ![s] = "prompt"]
      /\ forker' = forker /\ back' = back
  BY DEF Builtin, Complete
<1>2. Forks'
  BY <1>1 DEF ShellInv, Forks, Doings
<1>3. ASSUME NEW q \in Pids PROVE Lag(q)'
  <2>1. Unwaited(q)' = Unwaited(q) /\ Taken(q)' = Taken(q)
    BY <1>1, SameChildren DEF ShellInv, Forks
  <2> QED
    BY <1>1, <2>1, LagKept DEF ShellInv, Forks, Waiting
<1> QED
  BY <1>2, <1>3 DEF ShellInv

\* Every step of every process keeps the invariant.
LEMMA ShellInvStep == ShellInv /\ [ShellNext]_shellVars => ShellInv'
<1> SUFFICES ASSUME ShellInv, [ShellNext]_shellVars PROVE ShellInv'
  OBVIOUS
<1>1. ASSUME NEW s \in Pids, NEW c \in Pids, Foreground_command(s, c) \/ Background_command(s, c)
      PROVE  ShellInv'
  BY <1>1, ForegroundKeeps, BackgroundKeeps
<1>2. ASSUME NEW s \in Pids, NEW pid \in Pids, NEW effect \in {"ends", "stops", "continues", "none"},
             Kill_command(s, pid, effect)
      PROVE  ShellInv'
  <2>1. CASE effect = "ends" /\ ShellAlive(pid)
    BY <1>2, <2>1, EndKeeps DEF Kill_command
  <2>2. CASE ~ (effect = "ends" /\ ShellAlive(pid))
    <3>1. UNCHANGED <<doing, forker, back>>
      BY <1>2, <2>2 DEF Kill_command
    <3> QED
      BY <3>1, StutterKeeps
  <2> QED
    BY <2>1, <2>2
<1>3. ASSUME NEW p \in Pids, Builtin(p) \/ Wait_returns(p) PROVE ShellInv'
  BY <1>3, BuiltinKeeps, WaitKeeps
<1>4. ASSUME NEW p \in Pids, Program_ends(p) PROVE ShellInv'
  BY <1>4, EndKeeps DEF Program_ends, ShellAlive
<1>5. ASSUME NEW p \in Pids, Exit_shell(p) PROVE ShellInv'
  <2>1. ShellAlive(p) /\ UNCHANGED <<forker, back>>
    BY <1>5 DEF Exit_shell, Executes, ShellAlive
  <2> QED
    BY <1>5, <2>1, EndKeeps DEF Exit_shell
<1>6. CASE ShellOver \/ UNCHANGED shellVars
  BY <1>6, StutterKeeps DEF ShellOver, shellVars
<1> QED
  BY <1>1, <1>2, <1>3, <1>4, <1>5, <1>6 DEF ShellNext, ShellStep

-----------------------------------------------------------------------------
(* Types *)

\* Removing a job leaves a list of jobs.
LEMMA RemoveJobsType ==
  ASSUME NEW list \in Seq(Job), NEW pid
  PROVE  removeJobs(list, pid) \in Seq(Job)
<1> DEFINE found == {i \in DOMAIN list : list[i].job_pid = pid}
           least == CHOOSE i \in found : \A k \in found : i <= k
<1>1. CASE found = {}
  BY <1>1 DEF removeJobs
<1>2. CASE found # {}
  <2>1. found \subseteq Nat
    OBVIOUS
  <2>2. \E i \in found : \A k \in found : i <= k
    BY <1>2, <2>1, LeastNumber
  <2>3. PICK n : n = least /\ n \in 1 .. Len(list)
    BY <2>2
  <2>4. /\ SubSeq(list, 1, n - 1) \in Seq(Job)
        /\ SubSeq(list, n + 1, Len(list)) \in Seq(Job)
    <3>1. /\ n - 1 \in Int /\ n + 1 \in Int /\ Len(list) \in Int
          /\ \A i \in 1 .. n - 1 : list[i] \in Job
          /\ \A i \in n + 1 .. Len(list) : list[i] \in Job
      <4>1. Len(list) \in Nat /\ n \in 1 .. Len(list) /\ \A i \in 1 .. Len(list) : list[i] \in Job
        BY <2>3
      <4> HIDE DEF least
      <4> QED
        BY <4>1
    <3> QED
      BY <3>1, SubSeqProperties
  <2>5. RemoveAt(list, n) \in Seq(Job)
    BY <2>4, ConcatProperties DEF RemoveAt
  <2> QED
    BY <1>2, <2>3, <2>5 DEF removeJobs
<1> QED
  BY <1>1, <1>2

\* The types of the first state.
LEMMA ShellTypeInit == ShellInit => ShellTypeOK
<1> SUFFICES ASSUME ShellInit PROVE ShellTypeOK
  OBVIOUS
<1>1. waitlist \in [Pids -> Seq(Job)]
  <2>1. <<>> \in Seq(Job)
    BY EmptySeq
  <2>2. waitlist = [p \in Pids |-> <<>>]
    BY DEF ShellInit
  <2> QED
    BY <2>1, <2>2, Zenon
<1>2. doing \in [Pids -> Doings]
  BY DEF ShellInit, Doings
<1> QED
  BY <1>1, <1>2 DEF ShellInit, ShellTypeOK, Pids

\* A program in the foreground keeps the types.
LEMMA ForegroundType ==
  ASSUME ShellTypeOK, NEW s \in Pids, NEW c \in Pids, Foreground_command(s, c)
  PROVE  ShellTypeOK'
BY DEF ShellTypeOK, Foreground_command, Executes, Next_pid, Doings, Pids

\* So does a line that ends in &, whose list of jobs is copied,
LEMMA BackgroundType ==
  ASSUME ShellTypeOK, NEW s \in Pids, NEW c \in Pids, Background_command(s, c)
  PROVE  ShellTypeOK'
<1>0. jobid[s] + 1 \in Nat
  BY DEF ShellTypeOK
<1>1. PICK j \in Job : j = [job_id |-> jobid[s] + 1, job_pid |-> c]
  BY <1>0 DEF Job
<1>2. PICK w \in Seq(Job) : w = waitlist[s]
  BY DEF ShellTypeOK
<1>3. PICK w1 \in Seq(Job) : w1 = Append(w, j)
  BY <1>1, <1>2, AppendProperties
<1>4. waitlist' = [waitlist EXCEPT ![s] = w1, ![c] = w]
  BY <1>1, <1>2, <1>3 DEF Background_command
<1>5. waitlist' \in [Pids -> Seq(Job)]
  BY <1>4 DEF ShellTypeOK
<1>6. jobid' \in [Pids -> Nat]
  BY <1>0 DEF ShellTypeOK, Background_command
<1>7. doing' \in [Pids -> Doings] /\ forker' \in [Pids -> Pids \cup {0}]
      /\ \A p \in Pids : doing'[p] = "none" <=> p > 1 /\ forker'[p] = 0
  BY DEF ShellTypeOK, Background_command, Doings, Next_pid, Pids
<1> QED
  BY <1>5, <1>6, <1>7 DEF ShellTypeOK, Background_command

\* the end of a process,
LEMMA EndType ==
  ASSUME ShellTypeOK, NEW c \in Pids, ShellAlive(c), Process_ends(c), UNCHANGED <<forker, back, jobid>>,
         waitlist' \in [Pids -> Seq(Job)]
  PROVE  ShellTypeOK'
<1> SUFFICES doing' \in [Pids -> Doings] /\ \A p \in Pids : doing'[p] = "none" <=> doing[p] = "none"
  BY DEF ShellTypeOK, Process_ends
<1>1. CASE c = 1
  BY <1>1 DEF ShellTypeOK, Process_ends, ShellAlive, Doings
<1>2. CASE c # 1
  <2>1. /\ doing[c] \notin {"none", "zombie", "reaped"} /\ doing \in [Pids -> Doings]
        /\ doing' = [p \in Pids |-> Ends_as(c, p)]
    BY <1>2 DEF ShellTypeOK, Process_ends, ShellAlive
  <2>2. Ends_as(c, c) \in {"zombie", "reaped"}
    BY DEF Ends_as
  <2>3. ASSUME NEW p \in Pids, p # c
        PROVE  Ends_as(c, p) = IF forker[p] = c /\ doing[p] = "zombie" THEN "reaped" ELSE doing[p]
    BY <2>3 DEF Ends_as
  <2> QED
    BY <2>1, <2>2, <2>3 DEF Doings
<1> QED
  BY <1>1, <1>2

\* and the command kill, after which the job is out of the list.
LEMMA KillType ==
  ASSUME ShellTypeOK, NEW s \in Pids, NEW pid \in Pids,
         NEW effect \in {"ends", "stops", "continues", "none"}, Kill_command(s, pid, effect)
  PROVE  ShellTypeOK'
<1>1. waitlist' \in [Pids -> Seq(Job)]
  <2>1. PICK w : w = removeJobs(waitlist[s], pid)
    OBVIOUS
  <2>2. w \in Seq(Job)
    BY <2>1, RemoveJobsType DEF ShellTypeOK
  <2> QED
    BY <2>1, <2>2 DEF ShellTypeOK, Kill_command
<1>2. UNCHANGED <<forker, back, jobid>>
  BY DEF Kill_command
<1>3. CASE effect = "ends" /\ ShellAlive(pid)
  BY <1>1, <1>2, <1>3, EndType DEF Kill_command
<1>4. CASE ~ (effect = "ends" /\ ShellAlive(pid))
  <2>1. doing' = doing /\ stopped' \subseteq Pids
    BY <1>4 DEF Kill_command, ShellTypeOK
  <2> QED
    BY <1>1, <1>2, <2>1 DEF ShellTypeOK
<1> QED
  BY <1>3, <1>4

\* Every step keeps the types.
LEMMA ShellTypeStep == ShellTypeOK /\ [ShellNext]_shellVars => ShellTypeOK'
<1> SUFFICES ASSUME ShellTypeOK, [ShellNext]_shellVars PROVE ShellTypeOK'
  OBVIOUS
<1>1. ASSUME NEW s \in Pids, NEW c \in Pids, Foreground_command(s, c) \/ Background_command(s, c)
      PROVE  ShellTypeOK'
  BY <1>1, ForegroundType, BackgroundType
<1>2. ASSUME NEW s \in Pids, NEW pid \in Pids, NEW effect \in {"ends", "stops", "continues", "none"},
             Kill_command(s, pid, effect)
      PROVE  ShellTypeOK'
  BY <1>2, KillType
<1>3. ASSUME NEW p \in Pids, Builtin(p) PROVE ShellTypeOK'
  BY <1>3 DEF Builtin, Complete, ShellTypeOK, Doings
<1>4. ASSUME NEW p \in Pids, Wait_returns(p) PROVE ShellTypeOK'
  <2>1. PICK c \in Pids : /\ doing[c] = "zombie" /\ doing[p] \in Waiting
                          /\ doing' = [doing EXCEPT ![c] = "reaped", ![p] = "prompt"]
                          /\ stopped' \subseteq Pids /\ UNCHANGED <<forker, back, waitlist, jobid>>
    BY <1>4 DEF Wait_returns, ShellTypeOK
  <2> QED
    BY <2>1 DEF ShellTypeOK, Doings, Waiting
<1>5. ASSUME NEW p \in Pids, Program_ends(p) PROVE ShellTypeOK'
  BY <1>5, EndType DEF Program_ends, ShellAlive, ShellTypeOK
<1>6. ASSUME NEW p \in Pids, Exit_shell(p) PROVE ShellTypeOK'
  <2>1. ShellAlive(p) /\ UNCHANGED <<forker, back, waitlist, jobid>>
    BY <1>6 DEF Exit_shell, Executes, ShellAlive
  <2> QED
    BY <1>6, <2>1, EndType DEF Exit_shell, ShellTypeOK
<1>7. CASE ShellOver \/ UNCHANGED shellVars
  BY <1>7 DEF ShellOver, shellVars, ShellTypeOK
<1> QED
  BY <1>1, <1>2, <1>3, <1>4, <1>5, <1>6, <1>7 DEF ShellNext, ShellStep

\* However many processes there are and however jobs are stopped, killed and ended: a
\* shell at its prompt has waited once for every command, though not always for it.
THEOREM WaitsLagCorrect == ShellSpec => []WaitsLag
<1>1. ShellInv => WaitsLag
  BY ChildrenAre DEF ShellInv, Lag, WaitsLag
<1> QED
  BY <1>1, ShellInvInit, ShellInvStep, PTL DEF ShellSpec

-----------------------------------------------------------------------------
(* The question of signals.c *)

\* How often Ctrl-C was counted, and whether the alarm is set, by where the program
\* stands.  AlarmOnlyWhileAsked alone is not inductive: that the question comes at
\* the threshold exactly rests on the count before it.
AlarmInv ==
    /\ AlarmTypeOK
    /\ standing = "pause" => ctrl_c_count < CTRL_C_THRESHOLD
    /\ standing \in {"ask", "fgets", "yes", "no"} => ctrl_c_count = CTRL_C_THRESHOLD
    /\ alarm_set <=> standing \in {"fgets", "yes", "no"}

\* The bounds that are left when the count is 0.
LEMMA ZeroCount == 0 \in 0 .. CTRL_C_THRESHOLD /\ 0 < CTRL_C_THRESHOLD
BY AlarmAssumption

\* The program starts within AlarmInv.
LEMMA AlarmInvInit == AlarmInit => AlarmInv
BY ZeroCount, Zenon DEF AlarmInit, AlarmInv, AlarmTypeOK

\* Every signal, answer and exit keeps AlarmInv.
LEMMA AlarmInvStep == AlarmInv /\ [AlarmNext]_alarmVars => AlarmInv'
<1> SUFFICES ASSUME AlarmInv, [AlarmNext]_alarmVars PROVE AlarmInv'
  OBVIOUS
<1> USE DEF AlarmInv, AlarmTypeOK
<1>1. CASE Ctrl_c
  BY <1>1 DEF Ctrl_c
<1>2. CASE Catch_int
  <2>1. /\ ctrl_c_count' = ctrl_c_count + 1 /\ ctrl_c_count' \in 0 .. CTRL_C_THRESHOLD
        /\ ctrl_c_count' >= CTRL_C_THRESHOLD => ctrl_c_count' = CTRL_C_THRESHOLD
        /\ ~ (ctrl_c_count' >= CTRL_C_THRESHOLD) => ctrl_c_count' < CTRL_C_THRESHOLD
    BY <1>2, AlarmAssumption DEF Catch_int
  <2>2. CASE ctrl_c_count' >= CTRL_C_THRESHOLD
    BY <1>2, <2>1, <2>2 DEF Catch_int
  <2>3. CASE ~ (ctrl_c_count' >= CTRL_C_THRESHOLD)
    BY <1>2, <2>1, <2>3 DEF Catch_int
  <2> QED
    BY <2>2, <2>3
<1>3. CASE Ask
  BY <1>3 DEF Ask
<1>4. CASE Go_on
  BY <1>4, ZeroCount, Zenon DEF Go_on
<1>5. CASE Leave_program
  BY <1>5 DEF Leave_program
<1>6. CASE Catch_alrm
  BY <1>6 DEF Catch_alrm
<1>7. CASE Timeout_exit
  BY <1>7 DEF Timeout_exit
<1>8. ASSUME NEW said \in {"yes", "no"}, Answer(said) PROVE AlarmInv'
  BY <1>8 DEF Answer
<1>9. CASE Exited \/ UNCHANGED alarmVars
  BY <1>9 DEF Exited, alarmVars
<1> QED
  BY <1>1, <1>2, <1>3, <1>4, <1>5, <1>6, <1>7, <1>8, <1>9 DEF AlarmNext

\* Whatever the threshold and whenever signals, the answer and the alarm come: an
\* alarm is set exactly while a question is open, and only after enough Ctrl-C.
THEOREM AlarmIsOfTheQuestion == AlarmSpec => []AlarmOnlyWhileAsked
<1>1. AlarmInv => AlarmOnlyWhileAsked
  BY DEF AlarmInv, AlarmOnlyWhileAsked
<1> QED
  BY <1>1, AlarmInvInit, AlarmInvStep, PTL DEF AlarmSpec

-----------------------------------------------------------------------------
(* All programs *)

\* The programs share no variable: what holds of each one by itself holds of all.
ProgramsInv ==
    /\ program \in Programs
    /\ QuashInv /\ ScriptInv
    /\ PipelineInv
    /\ SyncInv
    /\ ShellTypeOK
    /\ AlarmInv

\* Every program starts within its invariant.
LEMMA ProgramsInvInit == Init => ProgramsInv
BY QuashInvInit, ScriptInvInit, PipelineInvInit, SyncInvInit, ShellTypeInit, AlarmInvInit
   DEF Init, ProgramsInv

\* The one that was chosen keeps it, and the others stand still.
LEMMA ProgramsInvStep == ProgramsInv /\ [Next]_programVars => ProgramsInv'
<1> SUFFICES ASSUME ProgramsInv, [Next]_programVars PROVE ProgramsInv'
  OBVIOUS
<1>1. [QuashNext]_quashVars /\ [PipelineNext]_pipelineVars /\ [SyncNext]_syncVars
      /\ [ShellNext]_shellVars /\ [AlarmNext]_alarmVars /\ program' = program
  BY DEF Next, RunQuash, Pipelining, RunSync, Shelling, RunAlarm, programVars
<1> QED
  BY <1>1, QuashInvStep, ScriptInvStep, PipelineInvStep, SyncInvStep, ShellTypeStep, AlarmInvStep
     DEF ProgramsInv

\* Whatever the sizes, the numbers of processes and lines, the threshold and the
\* capacity: every variable of the five programs keeps its type.
THEOREM ProgramsTypes == Spec => []TypeOK
<1>1. ProgramsInv => TypeOK
  BY QuashTypes DEF ProgramsInv, TypeOK, PipelineInv, SyncInv, AlarmInv
<1> QED
  BY <1>1, ProgramsInvInit, ProgramsInvStep, PTL DEF Spec
=============================================================================
