\* Lab9's server with two peers sending two messages each, and
\* Assignment3's logger with two log lines and two server commands.
CONSTANTS
    p1 = p1
    p2 = p2
    MaxMsgs = 2
    MsgLevels = {0, 3}
    MsgWords = {0, 1}
    CmdInputs = {0, 3, 4}
    MaxLogs = 2
    MaxCmds = 2

SPECIFICATION Spec

INVARIANT TypeOK
INVARIANT StreamIntact
INVARIANT LogFileInOrder
INVARIANT CumulativeDumpComplete
PROPERTY ShutdownCompletes
PROPERTY JoinsReturn

\* Each program may end: Lab9's server returns after its joins; the logging
\* client after ExitLog(), its server after option 0, a failed bind() or an
\* aborted input.
CHECK_DEADLOCK FALSE
