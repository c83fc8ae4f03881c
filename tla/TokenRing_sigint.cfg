CONSTANTS
    NumMessages = 3
    Retries = 2
    SigIntEnabled = TRUE
    StaleIpc = FALSE
    SetupFails = FALSE

SPECIFICATION Spec

INVARIANT MessageConsistent

\* All three clients end after NUM_MESSAGES passes.
CHECK_DEADLOCK FALSE
