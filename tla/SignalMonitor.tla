---------------------------- MODULE SignalMonitor ----------------------------
(***************************************************************************)
(* Lab5b (src/Lab5b/intfMonitor.cpp): an interface monitor started and    *)
(* stopped by signals.  One handler serves SIGUSR1 (isRunning = true),    *)
(* SIGUSR2 (isRunning = false), SIGINT and SIGTSTP (discarded); it is     *)
(* installed with an empty sa_mask, so a handler runs with only its own   *)
(* signal blocked and the others nest on top of it.  main() sleeps until  *)
(* isRunning is set, then writes statistics once a second while it stays  *)
(* set.                                                                    *)
(*                                                                         *)
(* The sender (the lab's parent, or the terminal) is the environment: it  *)
(* sends up to MaxSends signals, in any order, at any time.  A standard   *)
(* signal is pending at most once, and Linux delivers the lowest-numbered *)
(* deliverable one first.                                                 *)
(***************************************************************************)
EXTENDS Naturals, Sequences

CONSTANTS Sigs, MaxSends

\* The signal numbers on Linux, which fix the order of delivery.
SigNum == [s \in {"INT", "USR1", "USR2", "TSTP"} |-> CASE s = "INT"  -> 2
                                                       [] s = "USR1" -> 10
                                                       [] s = "USR2" -> 12
                                                       [] s = "TSTP" -> 20]

\* The process has ended: returned, killed, or stopped by a default action.
Gone == {"done", "killed", "stopped"}

VARIABLES
    mpc,        \* where main() is
    isRunning,  \* the global flag
    pending,    \* signals sent and not yet delivered
    frames,     \* the handler frames on the stack, innermost last
    lastSent,   \* the last signal sent ("none" before any)
    nsent,      \* signals sent so far
    lost        \* history: a SIGUSR2 handler ran where its stop is undone

vars == <<mpc, isRunning, pending, frames, lastSent, nsent, lost>>

Init ==
    /\ mpc = "start" /\ isRunning = FALSE /\ pending = {} /\ frames = <<>>
    /\ lastSent = "none" /\ nsent = 0 /\ lost = FALSE

-----------------------------------------------------------------------------
(* The sender and the kernel.                                              *)

Send(s) ==
    /\ mpc \notin Gone /\ nsent < MaxSends
    /\ pending' = pending \cup {s}
    /\ lastSent' = s /\ nsent' = nsent + 1
    /\ UNCHANGED <<mpc, isRunning, frames, lost>>

Blocked == {frames[k].sig : k \in 1 .. Len(frames)}

Deliverable == pending \ Blocked

\* Before main() installs the handler, each signal takes its default
\* action: SIGTSTP stops the process, the others terminate it.  After, the
\* handler's frame is pushed.
Deliver(s) ==
    /\ mpc \notin Gone
    /\ s \in Deliverable
    /\ \A t \in Deliverable : SigNum[s] <= SigNum[t]
    /\ pending' = pending \ {s}
    /\ IF mpc = "start"
         THEN /\ mpc' = IF s = "TSTP" THEN "stopped" ELSE "killed"
              /\ UNCHANGED frames
         ELSE /\ frames' = Append(frames, [sig |-> s, pc |-> "print"])
              /\ UNCHANGED mpc
    /\ UNCHANGED <<isRunning, lastSent, nsent, lost>>

-----------------------------------------------------------------------------
(* signalHandler(): the cout of its case, then the assignment, if any.     *)

Top == frames[Len(frames)]

Pop == SubSeq(frames, 1, Len(frames) - 1)

HandlerPrint ==
    /\ frames # <<>> /\ Top.pc = "print"
    /\ frames' = IF Top.sig \in {"USR1", "USR2"}
                   THEN [frames EXCEPT ![Len(frames)].pc = "set"]
                   ELSE Pop
    /\ UNCHANGED <<mpc, isRunning, pending, lastSent, nsent, lost>>

\* A SIGUSR2 handler stores FALSE where it does not stop the program.  The
\* stop is undone when a SIGUSR1 handler below it has still to
\* store TRUE, or when main() has not yet left its start loop.
HandlerSet ==
    /\ frames # <<>> /\ Top.pc = "set"
    /\ isRunning' = (Top.sig = "USR1")
    /\ frames' = Pop
    /\ lost' = \/ lost
               \/ /\ Top.sig = "USR2"
                  /\ \/ mpc \in {"wait", "sleep"}
                     \/ \E k \in 1 .. Len(frames) - 1 : frames[k].sig = "USR1"
    /\ UNCHANGED <<mpc, pending, lastSent, nsent>>

-----------------------------------------------------------------------------
(* main(); it runs only while no handler is on the stack.                  *)

\* sigaction() for the four signals (it cannot fail for these), then
\* strncpy(), open() and the cout.
Register ==
    /\ frames = <<>> /\ mpc = "start"
    /\ mpc' = "wait"
    /\ UNCHANGED <<isRunning, pending, frames, lastSent, nsent, lost>>

\* while (!isRunning) sleep(1);
WaitCheck ==
    /\ frames = <<>> /\ mpc = "wait"
    /\ mpc' = IF isRunning THEN "loop" ELSE "sleep"
    /\ UNCHANGED <<isRunning, pending, frames, lastSent, nsent, lost>>

Sleep ==
    /\ frames = <<>> /\ mpc = "sleep"
    /\ mpc' = "wait"
    /\ UNCHANGED <<isRunning, pending, frames, lastSent, nsent, lost>>

\* isRunning read once and kept in a register: the loop never sees a stop.
LoopCheckCached ==
    /\ frames = <<>> /\ mpc = "loop"
    /\ mpc' = "stats"
    /\ UNCHANGED <<isRunning, pending, frames, lastSent, nsent, lost>>

\* while (isRunning) { ... }
LoopCheck ==
    /\ frames = <<>> /\ mpc = "loop"
    /\ mpc' = IF isRunning THEN "stats" ELSE "close"
    /\ UNCHANGED <<isRunning, pending, frames, lastSent, nsent, lost>>

\* Read the four counters, write them to Network.log, sleep(1).
Collect ==
    /\ frames = <<>> /\ mpc = "stats"
    /\ mpc' = "loop"
    /\ UNCHANGED <<isRunning, pending, frames, lastSent, nsent, lost>>

\* close(fd); return 0;
Close ==
    /\ frames = <<>> /\ mpc = "close"
    /\ mpc' = "done"
    /\ UNCHANGED <<isRunning, pending, frames, lastSent, nsent, lost>>

\* The monitor's one thread: a handler step while a frame is on the stack,
\* else main()'s step at mpc.  At most one of these is ever enabled.
Thread ==
    \/ HandlerPrint \/ HandlerSet
    \/ Register \/ WaitCheck \/ Sleep \/ LoopCheck \/ Collect \/ Close

Next ==
    \/ \E s \in Sigs : Send(s) \/ Deliver(s)
    \/ Thread

\* The thread and the kernel's delivery are fair, so fairness of the whole
\* thread is fairness of each step; the sender is not: it may stop sending
\* at any point.
Fairness ==
    /\ WF_vars(Thread)
    /\ WF_vars(\E s \in Sigs : Deliver(s))

Spec == Init /\ [][Next]_vars /\ Fairness

-----------------------------------------------------------------------------
(* Properties.                                                             *)

TypeOK ==
    /\ mpc \in {"start", "wait", "sleep", "loop", "stats", "close"} \cup Gone
    /\ isRunning \in BOOLEAN
    /\ pending \subseteq Sigs
    /\ frames \in Seq([sig : Sigs, pc : {"print", "set"}])
    /\ lastSent \in Sigs \cup {"none"}
    /\ nsent \in 0 .. MaxSends
    /\ lost \in BOOLEAN

\* The handler's comment: SIGUSR2 "stops your program".  If the last
\* signal sent is SIGUSR2, the monitor ends, unless that stop was undone:
\* it landed before main() had seen the start, or under a SIGUSR1 handler
\* that had still to store TRUE.
StopHonoured ==
    <>[](lastSent = "USR2") => (<>(mpc \in Gone) \/ <>lost)

=============================================================================
