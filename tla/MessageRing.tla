----------------------------- MODULE MessageRing -----------------------------
(***************************************************************************)
(* What the Lab10 ring promises, without semaphores or shared memory: one *)
(* message circulates among three clients; a client takes a lock, answers *)
(* the message if it is addressed to it, in one step, and releases the    *)
(* lock, which counts as one of its passes.  The answer's destination is  *)
(* Dest(client, pass).  Client 3 writes the first message, to client 1.   *)
(*                                                                         *)
(* The lock is only as good as the waits on it: once a wait has been cut  *)
(* short (broken), the specification no longer constrains anything.       *)
(***************************************************************************)
EXTENDS Naturals

CONSTANTS
    NumMessages,   \* passes each client makes
    Dest(_, _)     \* where client c sends its answer on pass p

Clients == {1, 2, 3}
NoOne   == 0

\* A message is <<from, to>>; <<0, 0>> is the zeroed segment.
Messages == {<<0, 0>>} \cup {<<s, d>> : s, d \in Clients}

VARIABLES holder, msg, pass, broken

vars == <<holder, msg, pass, broken>>

\* A fresh segment, or the message an earlier run left in it.
Init ==
    /\ holder = NoOne
    /\ msg \in Messages
    /\ pass = [c \in Clients |-> 0]
    /\ broken = FALSE

\* Client 3 writes the first message, to client 1.
Start ==
    /\ holder = NoOne /\ \A c \in Clients : pass[c] = 0
    /\ msg' = <<3, 1>>
    /\ UNCHANGED <<holder, pass, broken>>

Acquire(c) ==
    /\ holder = NoOne /\ pass[c] < NumMessages
    /\ holder' = c
    /\ UNCHANGED <<msg, pass, broken>>

\* The holder answers a message addressed to it, header and text at once.
Answer(c) ==
    /\ holder = c /\ msg[2] = c
    /\ msg' = <<c, Dest(c, pass[c])>>
    /\ UNCHANGED <<holder, pass, broken>>

Release(c) ==
    /\ holder = c
    /\ holder' = NoOne
    /\ pass' = [pass EXCEPT ![c] = @ + 1]
    /\ UNCHANGED <<msg, broken>>

\* A wait on the lock is cut short; from then on any state may follow.
Break ==
    /\ broken' = TRUE
    /\ holder' \in Clients \cup {NoOne}
    /\ msg' \in Messages
    /\ pass' \in [Clients -> 0 .. NumMessages]

Next ==
    \/ Start \/ Break
    \/ \E c \in Clients : Acquire(c) \/ Answer(c) \/ Release(c)

Spec == Init /\ [][Next]_vars

=============================================================================
