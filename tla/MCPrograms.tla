----------------------------- MODULE MCPrograms -----------------------------
(***************************************************************************)
(* Five programs that share nothing, checked in one run: the first state   *)
(* chooses one of them and only that one takes steps.  A leads-to property *)
(* of a program holds trivially where another one was chosen, because the  *)
(* state it starts from is never reached.                                  *)
(***************************************************************************)
EXTENDS Quash, Pipelines, PipeSync, QuashShell, AlarmAnswer

VARIABLE program    \* the one that runs

Programs == {"quash", "pipelines", "pipe-sync", "shell", "signals"}

\* Stages with files for both directions, named twice, and without any.
MCRedirections == {<<>>, <<"<", ">>", ">">>}

programVars == <<program, quashVars, pipelineVars, syncVars, shellVars, alarmVars>>

Init ==
    /\ program \in Programs
    /\ QuashInit
    /\ PipelineInit
    /\ SyncInit
    /\ ShellInit
    /\ AlarmInit

RunQuash ==
    /\ program = "quash"
    /\ QuashNext
    /\ UNCHANGED <<program, pipelineVars, syncVars, shellVars, alarmVars>>

Pipelining(step) ==
    /\ program = "pipelines"
    /\ step
    /\ UNCHANGED <<program, quashVars, syncVars, shellVars, alarmVars>>

RunSync ==
    /\ program = "pipe-sync"
    /\ SyncNext
    /\ UNCHANGED <<program, quashVars, pipelineVars, shellVars, alarmVars>>

Shelling(step) ==
    /\ program = "shell"
    /\ step
    /\ UNCHANGED <<program, quashVars, pipelineVars, syncVars, alarmVars>>

RunAlarm ==
    /\ program = "signals"
    /\ AlarmNext
    /\ UNCHANGED <<program, quashVars, pipelineVars, syncVars, shellVars>>

Next == RunQuash \/ Pipelining(PipelineNext) \/ RunSync \/ Shelling(ShellNext) \/ RunAlarm

\* The fairness of PipelineSpec and of ShellSpec.
Fairness ==
    /\ WF_programVars(Pipelining(ParentStep))
    /\ \A i \in Stages : WF_programVars(Pipelining(StageStep(i)))
    /\ \A p \in Pids :
          /\ WF_programVars(Shelling(doing[1] # "zombie" /\ Program_ends(p)))
          /\ WF_programVars(Shelling(doing[1] # "zombie" /\ Wait_returns(p)))

Spec == Init /\ [][Next]_programVars /\ Fairness

TypeOK ==
    /\ program \in Programs
    /\ QuashTypeOK
    /\ PipelineTypeOK
    /\ SyncTypeOK
    /\ ShellTypeOK
    /\ AlarmTypeOK
=============================================================================
