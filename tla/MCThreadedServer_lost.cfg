CONSTANTS
    p1 = p1
    p2 = p2
    Clients <- MCClients
    MaxMsgs = 2

SPECIFICATION Spec

INVARIANT NoMessageLost


\* The server returns from main() after the joins; that state is final.
CHECK_DEADLOCK FALSE
