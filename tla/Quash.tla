------------------------------- MODULE Quash --------------------------------
(***************************************************************************)
(* The main loop of src/quash/EECS_678/quash/src/quash.c, the script that  *)
(* the rules of parsing/parse.y build for it and the memory pool that      *)
(* holds the script.  The pool is made before each line, survives blank    *)
(* lines and syntax errors, and is destroyed when the script was run.      *)
(*                                                                         *)
(* Strings are left out: a stage of a pipeline is the marks of its         *)
(* redirections, from left to right, and whether an & follows it.          *)
(***************************************************************************)
EXTENDS MemoryPool

CONSTANTS
    InitSize,     \* the size main asks for, 1024
    Redirections, \* the sequences of marks a stage may have
    MaxStages     \* bound: the stages of a pipeline

ASSUME QuashAssumption ==
    /\ InitSize \in Nat
    /\ MaxStages \in Nat \ {0}
    /\ Redirections \subseteq Seq({"<", ">", ">>"})

VARIABLES
    phase,      \* where main stands
    running,    \* state.running
    line,       \* the stages the parser has read
    cmds        \* the Cmds it has made of the last of them

quashVars == <<phase, running, line, cmds, poolVars>>

Flags == {"REDIRECT_IN", "REDIRECT_OUT", "REDIRECT_APPEND",
          "PIPE_IN", "PIPE_OUT", "BACKGROUND"}

QuashTypeOK ==
    /\ PoolTypeOK
    /\ phase \in {"loop", "parse", "stringify", "run", "over"}
    /\ running \in BOOLEAN
    /\ line \in Seq([redir : Redirections, bg : BOOLEAN])
    /\ cmds \in Seq(SUBSET Flags)
    /\ Len(cmds) <= Len(line)

QuashInit ==
    /\ PoolInit
    /\ phase = "loop"
    /\ running = TRUE
    /\ line = <<>>
    /\ cmds = <<>>

-----------------------------------------------------------------------------
\* redir_inner is right recursive: the marks further left override.
Override(mark, flags) ==
    CASE mark = "<"  -> flags \cup {"REDIRECT_IN"}
      [] mark = ">"  -> (flags \cup {"REDIRECT_OUT"}) \ {"REDIRECT_APPEND"}
      [] mark = ">>" -> flags \cup {"REDIRECT_OUT", "REDIRECT_APPEND"}

cmd_top(stage) ==
    FoldRight(Override, stage.redir, {}) \cup (IF stage.bg THEN {"BACKGROUND"} ELSE {})

\* Mutant of PipeTo: the file of an earlier stage is kept beside the pipe.
PipeToKeeps(stage, prev) == stage \cup {"PIPE_OUT"} \cup (prev \cap {"BACKGROUND"})

\* The rule cmd_top PIPE cmds: the stage on the left writes to a pipe, the one
\* that was first reads from it, and & holds for all.
PipeTo(stage, prev) ==
    (stage \ {"REDIRECT_OUT", "REDIRECT_APPEND"}) \cup {"PIPE_OUT"}
        \cup (prev \cap {"BACKGROUND"})

PipeFrom(prev) == (prev \ {"REDIRECT_IN"}) \cup {"PIPE_IN"}

\* The exit handlers run: what the pool holds is freed.  The loop ends when it is not
\* running, and the program ends when malloc cannot provide a single byte.
Leave ==
    /\ destroy_memory_pool
    /\ phase' = "over"
    /\ line' = <<>>
    /\ cmds' = <<>>
    /\ UNCHANGED running

LoopStart ==
    /\ phase = "loop"
    /\ \/ /\ running
          /\ initialize_memory_pool(InitSize)
          /\ phase' = "parse"
          /\ UNCHANGED <<running, line, cmds>>
       \/ Leave

\* The lexer and the parser copy strings into the pool as they go.  This changes
\* nothing that the rules read, so the model lets it come before the first stage of
\* a line.  One piece of MaxBlocks is kept for Stringify.
ParserAlloc(size) ==
    /\ phase = "parse"
    /\ line = <<>>
    /\ Cardinality(blocks) + 1 < MaxBlocks
    /\ AllocCall(size)
    /\ UNCHANGED <<phase, running, line, cmds>>

MemoryStep ==
    \/ (AllocGrow \/ AllocTake) /\ UNCHANGED <<phase, running, line, cmds>>
    \/ AllocFails /\ Leave

Parsing == phase = "parse" /\ want = 0

ReadStage(redir, bg) ==
    /\ Parsing
    /\ cmds = <<>>
    /\ Len(line) < MaxStages
    /\ line' = Append(line, [redir |-> redir, bg |-> bg])
    /\ UNCHANGED <<phase, running, cmds, poolVars>>

ReduceLast ==
    /\ Parsing
    /\ line # <<>>
    /\ cmds = <<>>
    /\ cmds' = <<cmd_top(Last(line))>>
    /\ UNCHANGED <<phase, running, line, poolVars>>

ReducePipe ==
    /\ Parsing
    /\ cmds # <<>>
    /\ Len(cmds) < Len(line)
    /\ LET stage == cmd_top(line[Len(line) - Len(cmds)])
           prev == Head(cmds)
       IN  cmds' = <<PipeTo(stage, prev), PipeFrom(prev)>> \o Tail(cmds)
    /\ UNCHANGED <<phase, running, line, poolVars>>

\* cmds EOC_TOK or cmds END: the line is complete.
Accept(end) ==
    /\ Parsing
    /\ cmds # <<>>
    /\ Len(cmds) = Len(line)
    /\ phase' = "stringify"
    /\ running' = (running /\ ~ end)
    /\ UNCHANGED <<line, cmds, poolVars>>

\* EOC_TOK alone, or a syntax error up to the end of the line or of the input:
\* parse returns NULL and main calls it again, whatever running says.
NoScript(error, end) ==
    /\ Parsing
    /\ error \/ (line = <<>> /\ ~ end)
    /\ running' = (running /\ ~ end)
    /\ line' = <<>>
    /\ cmds' = <<>>
    /\ UNCHANGED <<phase, poolVars>>

\* parse writes the script as a string into the pool.
Stringify(size) ==
    /\ phase = "stringify"
    /\ AllocCall(size)
    /\ phase' = "run"
    /\ UNCHANGED <<running, line, cmds>>

\* run_script, then the pool is destroyed.  A script that is exit alone ends the loop.
RunScript(exits) ==
    /\ phase = "run"
    /\ want = 0
    /\ exits => Len(cmds) = 1
    /\ running' = (running /\ ~ exits)
    /\ destroy_memory_pool
    /\ phase' = "loop"
    /\ line' = <<>>
    /\ cmds' = <<>>

Quit == phase = "over" /\ UNCHANGED quashVars

QuashNext ==
    \/ LoopStart
    \/ MemoryStep
    \/ \E size \in Sizes : ParserAlloc(size) \/ Stringify(size)
    \/ \E redir \in Redirections, bg \in BOOLEAN : ReadStage(redir, bg)
    \/ ReduceLast
    \/ ReducePipe
    \/ \E end \in BOOLEAN : Accept(end)
    \/ \E error, end \in BOOLEAN : NoScript(error, end)
    \/ \E exits \in BOOLEAN : RunScript(exits)
    \/ Quit

QuashSpec == QuashInit /\ [][QuashNext]_quashVars

-----------------------------------------------------------------------------
\* What the marks of a stage say when they are read from the left.
Reads(redir) == \E k \in DOMAIN redir : redir[k] = "<"
Writes(redir) == \E k \in DOMAIN redir : redir[k] # "<"
Appends(redir) ==
    \E k \in DOMAIN redir : redir[k] = ">>" /\ \A j \in 1 .. k - 1 : redir[j] = "<"

\* A script handed to run_script agrees with the line that was typed: pipes join
\* neighbouring stages from both sides, a stage whose input or output is a pipe
\* has no file there, the last stage's output goes to the file named first, in
\* the mode of its mark, and the whole job runs in the background exactly if some
\* stage has an & (parse.y 100-131 and 185-213).  Its strings are still in the pool.
ScriptWellFormed ==
    phase = "run" =>
        LET n == Len(line)
            Piped(i) == "PIPE_OUT" \in cmds[i]
        IN  /\ Len(cmds) = n
            /\ pools # <<>>
            /\ \A i \in 1 .. n :
                  /\ Piped(i) <=> i < n
                  /\ "PIPE_IN" \in cmds[i] <=> i > 1
                  /\ "REDIRECT_IN" \in cmds[i] <=> i = 1 /\ Reads(line[i].redir)
                  /\ "REDIRECT_OUT" \in cmds[i] <=> i = n /\ Writes(line[i].redir)
                  /\ "REDIRECT_APPEND" \in cmds[i] <=> i = n /\ Appends(line[i].redir)
            /\ \A i \in 1 .. n :
                  "BACKGROUND" \in cmds[i] <=> \E j \in i .. n : line[j].bg
=============================================================================
