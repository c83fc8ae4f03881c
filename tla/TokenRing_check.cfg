CONSTANTS
    NumMessages = 3
    Retries = 2
    SigIntEnabled = TRUE
    StaleIpc = FALSE
    SetupFails = FALSE

SPECIFICATION Spec

INVARIANT TypeOK
INVARIANT SemaphoreAccounting
INVARIANT ConsistentUntilEintr
PROPERTY Termination
PROPERTY RingRefinement

\* All three clients end after NUM_MESSAGES passes.
CHECK_DEADLOCK FALSE
