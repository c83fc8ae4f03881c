\* Client 3's shmget() or shmat() may fail; no Ctrl-C, a fresh system.
CONSTANTS
    NumMessages = 3
    Retries = 2
    SigIntEnabled = FALSE
    StaleIpc = FALSE
    SetupFails = TRUE

SPECIFICATION Spec

PROPERTY Termination

\* All three clients end after NUM_MESSAGES passes.
CHECK_DEADLOCK FALSE
