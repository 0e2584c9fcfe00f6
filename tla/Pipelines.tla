----------------------------- MODULE Pipelines ------------------------------
(***************************************************************************)
(* Programs joined by pipes: find, grep, sort and head as                  *)
(* src/Lab03_Johnson_Umeike_3094849/finder.c starts them, and the          *)
(* pipelines of the shell in src/QuashProj/Functions.cpp (execStatement;   *)
(* execute_redirections of src/Quash_Project/quash_final.cpp makes and     *)
(* closes the same ends).  The parent makes all pipes, forks the stages    *)
(* one after the other, closes its ends and waits; each child closes the   *)
(* ends it does not use.  Who still holds which end decides who sees the   *)
(* end of a file and who is killed by SIGPIPE.                             *)
(*                                                                         *)
(* Pipe i leads from stage i to stage i + 1.  What flows is counted in     *)
(* lines; a pipe holds Capacity of them.                                   *)
(***************************************************************************)
EXTENDS Naturals

CONSTANTS
    Capacity,    \* lines a pipe can hold
    MaxLines,    \* bound: lines the first stage writes
    LongestPipe, \* bound: stages of a pipeline
    ShellStages, \* the lengths of the shell's pipelines
    Wanted       \* the last stage may leave when it has read so many lines

ASSUME PipelineAssumption ==
    /\ Capacity \in Nat \ {0}
    /\ MaxLines \in Nat
    /\ LongestPipe \in Nat /\ LongestPipe >= 4
    /\ ShellStages \subseteq 2 .. LongestPipe
    /\ Wanted \in Nat

Parent == 0
Stages == 1 .. LongestPipe
Pipes == 1 .. LongestPipe - 1
Ends == Pipes \X {"r", "w"}

VARIABLES
    job,        \* which program runs, its number of stages, lines it produces
    parent,     \* where the parent stands
    next_stage, \* the stage it forks or waits for next
    stage,      \* what became of each stage
    open,       \* the ends of pipes each process holds
    pipe,       \* lines in each pipe
    unwritten,  \* lines a stage has to write yet
    lines_read, \* lines a stage has read
    eof         \* the stage has seen the end of its input

pipelineVars == <<job, parent, next_stage, stage, open, pipe, unwritten, lines_read, eof>>

NoJob == [code |-> "none", stages |-> 0, lines |-> 0]
Jobs == [code : {"finder"}, stages : {4}, lines : 0 .. MaxLines] \cup
        [code : {"shell"}, stages : ShellStages, lines : 0 .. MaxLines]

\* "failed" is a child whose exec failed, "killed" one that got SIGPIPE.
Gone == {"ended", "failed", "killed"}

PipelineTypeOK ==
    /\ job \in Jobs \cup {NoJob}
    /\ parent \in {"start", "fork", "close", "wait", "done"}
    /\ next_stage \in 1 .. LongestPipe + 1
    /\ stage \in [Stages -> {"unborn", "fresh", "running"} \cup Gone]
    /\ open \in [{Parent} \cup Stages -> SUBSET Ends]
    /\ pipe \in [Pipes -> 0 .. Capacity]
    /\ unwritten \in [Stages -> 0 .. MaxLines]
    /\ lines_read \in [Stages -> 0 .. MaxLines]
    /\ eof \in [Stages -> BOOLEAN]

PipelineInit ==
    /\ job = NoJob
    /\ parent = "start"
    /\ next_stage = 1
    /\ stage = [i \in Stages |-> "unborn"]
    /\ open = [p \in {Parent} \cup Stages |-> {}]
    /\ pipe = [j \in Pipes |-> 0]
    /\ unwritten = [i \in Stages |-> 0]
    /\ lines_read = [i \in Stages |-> 0]
    /\ eof = [i \in Stages |-> FALSE]

-----------------------------------------------------------------------------
\* The parent

MakePipes(j) ==
    /\ parent = "start"
    /\ job' = j
    /\ open' = [open EXCEPT ![Parent] = (1 .. j.stages - 1) \X {"r", "w"}]
    /\ unwritten' = [unwritten EXCEPT ![1] = j.lines]
    /\ parent' = "fork"
    /\ UNCHANGED <<next_stage, stage, pipe, lines_read, eof>>

ForkStage ==
    /\ parent = "fork"
    /\ stage' = [stage EXCEPT ![next_stage] = "fresh"]
    /\ open' = [open EXCEPT ![next_stage] = open[Parent]]
    /\ next_stage' = next_stage + 1
    /\ parent' = IF next_stage = job.stages THEN "close" ELSE "fork"
    /\ UNCHANGED <<job, pipe, unwritten, lines_read, eof>>

\* finder waits for all its children in turn, the shell for the last one only.
CloseAll ==
    /\ parent = "close"
    /\ open' = [open EXCEPT ![Parent] = {}]
    /\ next_stage' = IF job.code = "finder" THEN 1 ELSE job.stages
    /\ parent' = "wait"
    /\ UNCHANGED <<job, stage, pipe, unwritten, lines_read, eof>>

WaitStage ==
    /\ parent = "wait"
    /\ stage[next_stage] \in Gone
    /\ next_stage' = next_stage + 1
    /\ parent' = IF next_stage = job.stages THEN "done" ELSE "wait"
    /\ UNCHANGED <<job, stage, open, pipe, unwritten, lines_read, eof>>

ParentStep == (\E j \in Jobs : MakePipes(j)) \/ ForkStage \/ CloseAll \/ WaitStage

-----------------------------------------------------------------------------
\* The stages

Input(i) == {<<i - 1, "r">>}
Output(i) == {<<i, "w">>}

\* Mutants of Keeps: a stage that keeps the wrong end of its output pipe; one that
\* does not close the writing end of its input.
KeepsReader(i) == open[i] \cap (Input(i) \cup {<<i, "r">>})
KeepsWriter(i) == open[i] \cap (Input(i) \cup {<<i - 1, "w">>} \cup Output(i))

\* What a child does not close.  The sorting child of finder leaves p3[0] open, too.
Keeps(i) ==
    open[i] \cap (Input(i) \cup Output(i) \cup
                  (IF job.code = "finder" /\ i = 3 THEN {<<3, "r">>} ELSE {}))

CloseUnused(i) ==
    /\ stage[i] = "fresh"
    /\ stage' = [stage EXCEPT ![i] = "running"]
    /\ open' = [open EXCEPT ![i] = Keeps(i)]
    /\ UNCHANGED <<job, parent, next_stage, pipe, unwritten, lines_read, eof>>

End(i, how) ==
    /\ stage' = [stage EXCEPT ![i] = how]
    /\ open' = [open EXCEPT ![i] = {}]
    /\ UNCHANGED <<job, parent, next_stage, pipe, unwritten, lines_read, eof>>

ExecFails(i) == stage[i] = "fresh" /\ End(i, "failed")

Held(e) == \E p \in {Parent} \cup Stages : e \in open[p]

\* Every line read is a line the stage will write; the last one writes to the terminal.
ReadLine(i) ==
    /\ stage[i] = "running"
    /\ i > 1
    /\ pipe[i - 1] > 0
    /\ pipe' = [pipe EXCEPT ![i - 1] = @ - 1]
    /\ lines_read' = [lines_read EXCEPT ![i] = @ + 1]
    /\ unwritten' = IF i = job.stages THEN unwritten ELSE [unwritten EXCEPT ![i] = @ + 1]
    /\ UNCHANGED <<job, parent, next_stage, stage, open, eof>>

ReadEof(i) ==
    /\ stage[i] = "running"
    /\ i > 1
    /\ ~ eof[i]
    /\ pipe[i - 1] = 0
    /\ ~ Held(<<i - 1, "w">>)
    /\ eof' = [eof EXCEPT ![i] = TRUE]
    /\ UNCHANGED <<job, parent, next_stage, stage, open, pipe, unwritten, lines_read>>

\* sort reads everything before it writes.  A pipe that nobody can read kills the
\* writer; a full one blocks it.
WriteLine(i) ==
    /\ stage[i] = "running"
    /\ unwritten[i] > 0
    /\ job.code = "finder" /\ i = 3 => eof[i]
    /\ \/ /\ ~ Held(<<i, "r">>)
          /\ End(i, "killed")
       \/ /\ Held(<<i, "r">>)
          /\ pipe[i] < Capacity
          /\ pipe' = [pipe EXCEPT ![i] = @ + 1]
          /\ unwritten' = [unwritten EXCEPT ![i] = @ - 1]
          /\ UNCHANGED <<job, parent, next_stage, stage, open, lines_read, eof>>

EndOfStage(i) ==
    /\ stage[i] = "running"
    /\ \/ unwritten[i] = 0 /\ (i = 1 \/ eof[i])
       \/ i = job.stages /\ lines_read[i] >= Wanted
    /\ End(i, "ended")

StageStep(i) ==
    CloseUnused(i) \/ ExecFails(i) \/ ReadLine(i) \/ ReadEof(i) \/ WriteLine(i) \/ EndOfStage(i)

\* finder's sort waits for room in a pipe that nobody but itself can read.
SortBlocksItself ==
    /\ job.code = "finder"
    /\ stage[3] = "running"
    /\ stage[4] \in Gone
    /\ unwritten[3] > 0
    /\ pipe[3] = Capacity

PipelineDone == (parent = "done" \/ SortBlocksItself) /\ UNCHANGED pipelineVars

PipelineNext == ParentStep \/ (\E i \in Stages : StageStep(i)) \/ PipelineDone

PipelineFairness == WF_pipelineVars(ParentStep) /\ \A i \in Stages : WF_pipelineVars(StageStep(i))

PipelineSpec == PipelineInit /\ [][PipelineNext]_pipelineVars /\ PipelineFairness

-----------------------------------------------------------------------------
\* A stage that is told its input has ended has read every line the first stage
\* had to write, unless a program before it could not be started: no descriptor
\* is closed while somebody still needs it (finder.c 49-118, Functions.cpp 236-255).
EofIsEnd ==
    \A i \in Stages :
        eof[i] => \/ lines_read[i] = job.lines
                  \/ \E k \in 1 .. i - 1 : stage[k] = "failed"

\* Once the parent waits, every stage ends, whichever of them fails or leaves early,
\* and the parent returns: no process keeps the end of a pipe that another one waits
\* for, except the sort of finder (finder.c 94-97 and 143-158, Functions.cpp 284-288).
PipelineEnds ==
    parent = "wait" ~>
        \/ parent = "done" /\ \A i \in 1 .. job.stages : stage[i] \in Gone
        \/ SortBlocksItself
=============================================================================
