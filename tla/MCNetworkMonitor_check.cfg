CONSTANTS
    eth0 = eth0
    eth1 = eth1
    eth2 = eth2
    Ifaces <- MCIfaces2
    MaxDown = 2
    CrashEnabled = TRUE
    FortifiedBuild = TRUE

SPECIFICATION Spec

INVARIANT TypeOK
INVARIANT RegistryTracksOpenConns
INVARIANT RemediationAccounting
PROPERTY HandshakeCompletes
PROPERTY CtrlCTerminates

\* Both programs terminate: a state where every process has exited is final.
CHECK_DEADLOCK FALSE
