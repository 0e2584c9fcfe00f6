\* Three pieces of memory per line from pools of 4, 8, 16 ... bytes; pipelines of two
\* to four stages and four lines; four processes of the shell.
CONSTANTS
    InitSize = 4
    Sizes = {3, 9}
    MaxBlocks = 3
    MaxStages = 3
    Redirections <- MCRedirections
    Capacity = 2
    MaxLines = 4
    LongestPipe = 4
    ShellStages = {2, 3, 4}
    Wanted = 1
    MaxPid = 4
    CTRL_C_THRESHOLD = 5
SPECIFICATION Spec
INVARIANTS
    TypeOK
    PoolSound
    ScriptWellFormed
    EofIsEnd
    LinesInOrder
    WaitsLag
    AlarmOnlyWhileAsked
PROPERTIES
    PipelineEnds
    PromptReturns
