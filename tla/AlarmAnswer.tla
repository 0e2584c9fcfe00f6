---------------------------- MODULE AlarmAnswer -----------------------------
(***************************************************************************)
(* src/Lab02_Johnson_Umeike_3094849/signals.c: Ctrl-C is counted; at the   *)
(* fifth one the handler asks whether to exit and sets an alarm, which the *)
(* answer must beat.  Every signal but SIGALRM is blocked in the handlers. *)
(***************************************************************************)
EXTENDS Naturals

CONSTANT CTRL_C_THRESHOLD

ASSUME AlarmAssumption == CTRL_C_THRESHOLD \in Nat \ {0}

VARIABLES
    ctrl_c_count,
    standing,    \* where the program stands
    pending,     \* SIGINT is pending
    alarm_set    \* an alarm is set and has not fired

alarmVars == <<ctrl_c_count, standing, pending, alarm_set>>

AlarmTypeOK ==
    /\ ctrl_c_count \in 0 .. CTRL_C_THRESHOLD
    /\ standing \in {"pause", "ask", "fgets", "yes", "no", "timeout", "exited"}
    /\ pending \in BOOLEAN
    /\ alarm_set \in BOOLEAN

AlarmInit ==
    /\ ctrl_c_count = 0
    /\ standing = "pause"
    /\ pending = FALSE
    /\ alarm_set = FALSE

-----------------------------------------------------------------------------
\* The user presses Ctrl-C; several of them before one is delivered are one.
Ctrl_c ==
    /\ standing # "exited"
    /\ ~ pending
    /\ pending' = TRUE
    /\ UNCHANGED <<ctrl_c_count, standing, alarm_set>>

\* Mutant of Catch_int: the question comes one Ctrl-C too late.
CatchIntLate ==
    /\ standing = "pause"
    /\ pending
    /\ pending' = FALSE
    /\ ctrl_c_count' = ctrl_c_count + 1
    /\ standing' = IF ctrl_c_count' > CTRL_C_THRESHOLD THEN "ask" ELSE "pause"
    /\ UNCHANGED alarm_set

\* catch_int is entered: only from pause, since SIGINT is blocked in every handler.
Catch_int ==
    /\ standing = "pause"
    /\ pending
    /\ pending' = FALSE
    /\ ctrl_c_count' = ctrl_c_count + 1
    /\ standing' = IF ctrl_c_count' >= CTRL_C_THRESHOLD THEN "ask" ELSE "pause"
    /\ UNCHANGED alarm_set

Ask ==
    /\ standing = "ask"
    /\ alarm_set' = TRUE
    /\ standing' = "fgets"
    /\ UNCHANGED <<ctrl_c_count, pending>>

\* fgets returns a line, the user's or the rest of a longer one.  At the end of the
\* input it leaves answer[] as it is, which nothing has initialized.  Whichever it
\* is, the first character may be n or not.
Answer(said) ==
    /\ standing = "fgets"
    /\ standing' = said
    /\ UNCHANGED <<ctrl_c_count, pending, alarm_set>>

\* Mutant of Go_on: the alarm is not cancelled.
GoOnOnly ==
    /\ standing = "no"
    /\ ctrl_c_count' = 0
    /\ standing' = "pause"
    /\ UNCHANGED <<pending, alarm_set>>

\* alarm(got_response) is alarm(0), which cancels.
Go_on ==
    /\ standing = "no"
    /\ alarm_set' = FALSE
    /\ ctrl_c_count' = 0
    /\ standing' = "pause"
    /\ UNCHANGED pending

Leave_program ==
    /\ standing = "yes"
    /\ alarm_set' = FALSE
    /\ standing' = "exited"
    /\ UNCHANGED <<ctrl_c_count, pending>>

\* The time is up, whatever the program is doing: it may have the answer already.
Catch_alrm ==
    /\ alarm_set
    /\ alarm_set' = FALSE
    /\ standing' = "timeout"
    /\ UNCHANGED <<ctrl_c_count, pending>>

Timeout_exit ==
    /\ standing = "timeout"
    /\ standing' = "exited"
    /\ UNCHANGED <<ctrl_c_count, pending, alarm_set>>

Exited == standing = "exited" /\ UNCHANGED alarmVars

AlarmNext ==
    \/ Ctrl_c \/ Catch_int \/ Ask \/ Go_on \/ Leave_program \/ Catch_alrm \/ Timeout_exit
    \/ \E said \in {"yes", "no"} : Answer(said)
    \/ Exited

AlarmSpec == AlarmInit /\ [][AlarmNext]_alarmVars

-----------------------------------------------------------------------------
\* An alarm is set exactly while a question is open, that is, asked after enough
\* Ctrl-C and not acted on: no alarm of an answered question ends the program later,
\* and no question waits without one (lines 21-46, and the comment at 59).
AlarmOnlyWhileAsked ==
    /\ alarm_set <=> standing \in {"fgets", "yes", "no"}
    /\ alarm_set => ctrl_c_count = CTRL_C_THRESHOLD
=============================================================================
