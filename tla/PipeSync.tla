------------------------------ MODULE PipeSync ------------------------------
(***************************************************************************)
(* src/Lab04_Johnson_Umeike_3094849/pipe-sync.c: a child and its parent    *)
(* print two lines each, in turn.  A process reads a message from a pipe   *)
(* before it prints and writes one to the next pipe after it printed.      *)
(* What is printed reaches a terminal line by line; anything else it       *)
(* reaches when the process that printed it exits.                         *)
(***************************************************************************)
EXTENDS Naturals, Sequences, SequencesExt

VARIABLES
    at,        \* the next statement of each process
    message,   \* messages in p1, p2 and p3
    terminal,  \* stdout is a terminal
    buffer,    \* what a process has printed and not handed to the system
    output     \* what arrived

syncVars == <<at, message, terminal, buffer, output>>

Procs == {"child", "parent"}

\* The code of both processes: what each statement does with which pipe or line.
Program ==
    [child |-> << <<"print", "Child_line_1">>, <<"write", 1>>, <<"read", 2>>,
                  <<"print", "Child_line_2">>, <<"write", 3>>, <<"exit">> >>,
     parent |-> << <<"read", 1>>, <<"print", "Parent_line_1">>, <<"write", 2>>,
                   <<"read", 3>>, <<"print", "Parent_line_2">>, <<"wait">>, <<"exit">> >>]

Lines == {"Child_line_1", "Parent_line_1", "Child_line_2", "Parent_line_2"}

SyncTypeOK ==
    /\ at \in [Procs -> 0 .. 8]
    /\ message \in [1 .. 3 -> 0 .. 1]
    /\ terminal \in BOOLEAN
    /\ buffer \in [Procs -> Seq(Lines)]
    /\ output \in Seq(Lines)

SyncInit ==
    /\ at = [p \in Procs |-> 0]
    /\ message = [j \in 1 .. 3 |-> 0]
    /\ terminal = FALSE
    /\ buffer = [p \in Procs |-> <<>>]
    /\ output = <<>>

-----------------------------------------------------------------------------
\* The pipes are made and the child is forked; the first output finds out what stdout is.
SyncFork(tty) ==
    /\ \A p \in Procs : at[p] = 0
    /\ at' = [p \in Procs |-> 1]
    /\ terminal' = tty
    /\ UNCHANGED <<message, buffer, output>>

\* Process p is at a statement that does op.
Does(p, op) ==
    /\ at[p] \in DOMAIN Program[p]
    /\ Program[p][at[p]][1] = op
    /\ at' = [at EXCEPT ![p] = @ + 1]

PrintLine(p) ==
    /\ Does(p, "print")
    /\ LET text == Program[p][at[p]][2]
       IN  IF terminal
             THEN output' = Append(output, text) /\ UNCHANGED buffer
             ELSE buffer' = [buffer EXCEPT ![p] = Append(@, text)] /\ UNCHANGED output
    /\ UNCHANGED <<message, terminal>>

WriteMessage(p) ==
    /\ Does(p, "write")
    /\ message' = [message EXCEPT ![Program[p][at[p]][2]] = @ + 1]
    /\ UNCHANGED <<terminal, buffer, output>>

\* Mutant of ReadMessage: the process does not wait for the message.
ReadNothing(p) ==
    /\ Does(p, "read")
    /\ UNCHANGED <<message, terminal, buffer, output>>

\* Both processes hold both ends of every pipe: an empty pipe blocks its reader, always.
ReadMessage(p) ==
    /\ Does(p, "read")
    /\ message[Program[p][at[p]][2]] > 0
    /\ message' = [message EXCEPT ![Program[p][at[p]][2]] = @ - 1]
    /\ UNCHANGED <<terminal, buffer, output>>

WaitChild(p) ==
    /\ Does(p, "wait")
    /\ at["child"] > Len(Program["child"])
    /\ UNCHANGED <<message, terminal, buffer, output>>

ExitFlushes(p) ==
    /\ Does(p, "exit")
    /\ output' = output \o buffer[p]
    /\ buffer' = [buffer EXCEPT ![p] = <<>>]
    /\ UNCHANGED <<message, terminal>>

SyncOver == (\A p \in Procs : at[p] > Len(Program[p])) /\ UNCHANGED syncVars

SyncNext ==
    \/ \E tty \in BOOLEAN : SyncFork(tty)
    \/ \E p \in Procs : \/ PrintLine(p) \/ WriteMessage(p) \/ ReadMessage(p)
                        \/ WaitChild(p) \/ ExitFlushes(p)
    \/ SyncOver

SyncSpec == SyncInit /\ [][SyncNext]_syncVars

-----------------------------------------------------------------------------
InTurn == <<"Child_line_1", "Parent_line_1", "Child_line_2", "Parent_line_2">>

\* On a terminal the four lines arrive in the order that the comment at line 10
\* guarantees, whichever process runs first, and all of them do.
LinesInOrder ==
    terminal =>
        /\ IsPrefix(output, InTurn)
        /\ (\A p \in Procs : at[p] > Len(Program[p])) => output = InTurn

\* The comment at line 10 as it stands, wherever the lines go.
GuaranteedSequence == IsPrefix(output, InTurn)
=============================================================================
