--------------------------- MODULE MCThreadedServer ---------------------------
EXTENDS ThreadedServer

CONSTANTS p1, p2

\* Two peers: enough for two threads pushing between two drains.
MCClients == {p1, p2}
=============================================================================
