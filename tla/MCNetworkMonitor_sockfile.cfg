CONSTANTS
    eth0 = eth0
    eth1 = eth1
    eth2 = eth2
    Ifaces <- MCIfaces2
    MaxDown = 1
    CrashEnabled = FALSE
    FortifiedBuild = FALSE

SPECIFICATION Spec

INVARIANT ShutdownRemovesSocket

\* Both programs terminate: a state where every process has exited is final.
CHECK_DEADLOCK FALSE
