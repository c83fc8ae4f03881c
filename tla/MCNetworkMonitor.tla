-------------------------- MODULE MCNetworkMonitor --------------------------
(* Model-checking instance of NetworkMonitor: interface names are model    *)
(* values, in the order the user enters them.                              *)
EXTENDS NetworkMonitor

CONSTANTS eth0, eth1, eth2

\* Two interfaces: enough for out-of-order connects and for one worker to
\* outlive the other.
MCIfaces2 == <<eth0, eth1>>
=============================================================================
