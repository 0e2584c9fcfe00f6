----------------------------- MODULE QuashShell -----------------------------
(***************************************************************************)
(* The shell of src/Quash_Project/quash_final.cpp: one thread, its job     *)
(* list and its children.  A command in the foreground is a fork and a     *)
(* wait for any child.  A command followed by & runs in a child of its own,*)
(* a copy of the shell, which stops itself when the command is done; who   *)
(* continues it has a second shell, with a second copy of the list.        *)
(*                                                                         *)
(* Process 1 is the shell the user started.  What happens after it has     *)
(* exited is left out, and so are the commands that change neither the     *)
(* list nor a process, and a kill in a line that ends in &.                *)
(***************************************************************************)
EXTENDS Naturals, Sequences, FiniteSets, SequencesExt

CONSTANT MaxPid    \* bound: processes forked, the first shell included

ASSUME QuashShellAssumption == MaxPid \in Nat \ {0}

Pids == 1 .. MaxPid

VARIABLES
    doing,     \* what each process does
    stopped,   \* the stopped processes
    forker,    \* who forked it, 0 for the first shell and those not forked yet
    back,      \* the processes forked for a line that ends in &
    waitlist,  \* JobWaitList of each process
    jobid      \* the counter of main in each process

shellVars == <<doing, stopped, forker, back, waitlist, jobid>>

\* At the prompt; running the line it was forked for; in wait, for a command from
\* the prompt or for that line; a program started by exec; ended; taken by wait.
Doings == {"none", "prompt", "line", "wait", "line_wait", "program", "zombie", "reaped"}
Waiting == {"wait", "line_wait"}

Job == [job_id : Nat, job_pid : Pids]

ShellTypeOK ==
    /\ doing \in [Pids -> Doings]
    /\ stopped \subseteq Pids
    /\ forker \in [Pids -> Pids \cup {0}]
    /\ back \subseteq Pids
    /\ waitlist \in [Pids -> Seq(Job)]
    /\ jobid \in [Pids -> Nat]
    /\ \A p \in Pids : doing[p] = "none" <=> p > 1 /\ forker[p] = 0

ShellInit ==
    /\ doing = [p \in Pids |-> IF p = 1 THEN "prompt" ELSE "none"]
    /\ stopped = {}
    /\ forker = [p \in Pids |-> 0]
    /\ back = {}
    /\ waitlist = [p \in Pids |-> <<>>]
    /\ jobid = [p \in Pids |-> 0]

-----------------------------------------------------------------------------
ShellAlive(p) == doing[p] \notin {"none", "zombie", "reaped"}
Next_pid(c) == doing[c] = "none" /\ \A p \in 1 .. c - 1 : doing[p] # "none"

\* Process s may execute a command.
Executes(s) == doing[s] \in {"prompt", "line"} /\ s \notin stopped

\* The command is done.  A shell goes on to the next line; the child of an & stops
\* itself, and goes on to the next line should it be continued.
Complete(s) ==
    /\ doing' = [doing EXCEPT ![s] = "prompt"]
    /\ stopped' = IF doing[s] \in {"line", "line_wait"} THEN stopped \cup {s} ELSE stopped

Foreground_command(s, c) ==
    /\ Executes(s)
    /\ Next_pid(c)
    /\ doing' = [doing EXCEPT ![s] = IF @ = "prompt" THEN "wait" ELSE "line_wait",
                              ![c] = "program"]
    /\ forker' = [forker EXCEPT ![c] = s]
    /\ UNCHANGED <<stopped, back, waitlist, jobid>>

\* The child has the list as it was at the fork, without itself.
Background_command(s, c) ==
    /\ doing[s] = "prompt"
    /\ s \notin stopped
    /\ Next_pid(c)
    /\ jobid' = [jobid EXCEPT ![s] = @ + 1, ![c] = jobid[s] + 1]
    /\ waitlist' = [waitlist EXCEPT
                       ![s] = Append(@, [job_id |-> jobid[s] + 1, job_pid |-> c]),
                       ![c] = waitlist[s]]
    /\ doing' = [doing EXCEPT ![c] = "line"]
    /\ forker' = [forker EXCEPT ![c] = s]
    /\ back' = back \cup {c}
    /\ UNCHANGED stopped

\* A command without a process of its own, in the child of an &.
Builtin(s) ==
    /\ doing[s] = "line"
    /\ s \notin stopped
    /\ Complete(s)
    /\ UNCHANGED <<forker, back, waitlist, jobid>>

\* Process c ends; what it had not waited for goes to init, which does.  After the end
\* of the first shell nothing is of interest.
Ends_as(c, p) ==
    CASE p = c -> IF ShellAlive(forker[c]) THEN "zombie" ELSE "reaped"
      [] p # c /\ forker[p] = c /\ doing[p] = "zombie" -> "reaped"
      [] OTHER -> doing[p]

Process_ends(c) ==
    /\ doing' = IF c = 1 THEN [doing EXCEPT ![1] = "zombie"] ELSE [p \in Pids |-> Ends_as(c, p)]
    /\ stopped' = stopped \ {c}

Program_ends(c) ==
    /\ doing[c] = "program"
    /\ c \notin stopped
    /\ Process_ends(c)
    /\ UNCHANGED <<forker, back, waitlist, jobid>>

\* removeJobs erases the first job with this process number.
removeJobs(list, pid) ==
    LET found == {i \in DOMAIN list : list[i].job_pid = pid}
    IN  IF found = {} THEN list
        ELSE RemoveAt(list, CHOOSE i \in found : \A k \in found : i <= k)

\* kill SIGNAL PID: the job leaves the list whatever the signal does.  The process may be
\* anyone, the shell itself or another one, a command in the foreground or one that has
\* ended; a stop of the first shell, which hands over to the user's login, is left out.
Kill_command(s, pid, effect) ==
    /\ doing[s] = "prompt"
    /\ s \notin stopped
    /\ doing[pid] # "none"
    /\ effect = "stops" => pid # 1
    /\ waitlist' = [waitlist EXCEPT ![s] = removeJobs(@, pid)]
    /\ CASE effect = "ends" /\ ShellAlive(pid) -> Process_ends(pid)
         [] effect = "stops" /\ ShellAlive(pid) ->
                stopped' = stopped \cup {pid} /\ UNCHANGED doing
         [] effect = "continues" ->
                stopped' = stopped \ {pid} /\ UNCHANGED doing
         [] OTHER -> UNCHANGED <<doing, stopped>>
    /\ UNCHANGED <<forker, back, jobid>>

\* exit, quit or the end of the input.
Exit_shell(s) ==
    /\ Executes(s)
    /\ Process_ends(s)
    /\ UNCHANGED <<forker, back, waitlist, jobid>>

\* Mutants of Wait_returns: the child that ended is left to the next wait; the shell
\* waits until no child is left.
WaitLeaves(s) ==
    /\ doing[s] \in Waiting
    /\ s \notin stopped
    /\ \E c \in Pids : forker[c] = s /\ doing[c] = "zombie"
    /\ Complete(s)
    /\ UNCHANGED <<forker, back, waitlist, jobid>>

WaitAll(s) ==
    /\ doing[s] \in Waiting
    /\ s \notin stopped
    /\ \A c \in Pids : forker[c] = s => ~ ShellAlive(c)
    /\ Complete(s)
    /\ UNCHANGED <<forker, back, waitlist, jobid>>

\* wait(NULL) takes any child that ended, the foreground command or a job; there
\* always is a child to wait for, see WaitsLag.
Wait_returns(s) ==
    /\ doing[s] \in Waiting
    /\ s \notin stopped
    /\ \E c \in Pids :
          /\ forker[c] = s
          /\ doing[c] = "zombie"
          /\ doing' = [doing EXCEPT ![c] = "reaped", ![s] = "prompt"]
          /\ stopped' = IF doing[s] = "line_wait" THEN stopped \cup {s} ELSE stopped
    /\ UNCHANGED <<forker, back, waitlist, jobid>>

ShellStep ==
    \/ \E s, c \in Pids : Foreground_command(s, c) \/ Background_command(s, c)
    \/ \E s, pid \in Pids, effect \in {"ends", "stops", "continues", "none"} :
           Kill_command(s, pid, effect)
    \/ \E p \in Pids : Builtin(p) \/ Program_ends(p) \/ Exit_shell(p) \/ Wait_returns(p)

\* A second shell has stopped a command that the first one ran in the foreground, and
\* may never continue it.
CommandStopped == \E c \in stopped \ back : forker[c] = 1

ShellOver == (doing[1] = "zombie" \/ CommandStopped) /\ UNCHANGED shellVars

ShellNext == (doing[1] # "zombie" /\ ShellStep) \/ ShellOver

\* A program started in the foreground ends unless it is stopped, and a shell whose
\* wait can return is scheduled.
ShellFairness ==
    \A p \in Pids :
        /\ WF_shellVars(doing[1] # "zombie" /\ Program_ends(p))
        /\ WF_shellVars(doing[1] # "zombie" /\ Wait_returns(p))

ShellSpec == ShellInit /\ [][ShellNext]_shellVars /\ ShellFairness

-----------------------------------------------------------------------------
Children(s, foreground) == {c \in Pids : forker[c] = s /\ (c \notin back) = foreground}

\* A shell at its prompt has waited once for every command it ran in the foreground,
\* but not always for that command: as many foreground children are still to be
\* waited for as background jobs were taken in their place (line 750, wait(NULL)).
\* So a killed job brings the prompt back early, and from then on each wait is
\* one behind; none is lost and none is waited for twice.
WaitsLag ==
    \A s \in Pids :
        doing[s] = "prompt" =>
            Cardinality({c \in Children(s, TRUE) : doing[c] # "reaped"})
                = Cardinality({c \in Children(s, FALSE) : doing[c] = "reaped"})

\* The prompt of the first shell comes back after every foreground command, however
\* many jobs are stopped, killed or taken by the wrong wait, unless a second shell kills
\* the first one or stops its command.
PromptReturns == doing[1] = "wait" ~> doing[1] # "wait" \/ CommandStopped
=============================================================================
