--------------------------- MODULE NetworkMonitor ---------------------------
(***************************************************************************)
(* Assignment2: the networkMonitor supervisor and its intfMonitor workers, *)
(* one per configured interface, talking over one AF_UNIX SOCK_STREAM      *)
(* connection each (src/Assignment2/networkMonitor.cpp, intfMonitor.cpp).  *)
(*                                                                         *)
(* A worker is identified by the interface name it was started with        *)
(* (argv[1]); its connection is identified by the same name.  A stream     *)
(* keeps no message boundaries: one recv() returns everything queued, so   *)
(* two queued tokens are read as their concatenation.  Sending to a peer   *)
(* whose end is closed raises SIGPIPE, whose default action kills the      *)
(* sender: neither program ignores it.                                     *)
(***************************************************************************)
EXTENDS Naturals, Sequences, SequencesExt, Functions, TLC

CONSTANTS
    Ifaces,       \* the configured interface names, in the order entered
    MaxDown,      \* bound on the "Link Down" reports of one worker
    CrashEnabled, \* whether a worker may be killed from outside (kill -9)
    FortifiedBuild \* built with _FORTIFY_SOURCE: FD_ISSET(-1) aborts

Workers == Range(Ifaces)

ASSUME /\ Len(Ifaces) > 0         \* main() exits 1 on an empty list
       /\ IsInjective(Ifaces)
       /\ MaxDown \in Nat
       /\ CrashEnabled \in BOOLEAN
       /\ FortifiedBuild \in BOOLEAN

\* Tokens of the wire protocol, by sender.
WorkerTokens == {"Ready", "Monitoring", "Link Down", "Done"}
SupTokens    == {"Monitor", "Set Link Up", "Shut Down"}

VARIABLES
    sup_pc,     \* where networkMonitor's main() is
    running,    \* networkMonitor's running flag (cleared by SIGINT)
    listening,  \* master_socket_fd is open
    sockfile,   \* SOCKET_PATH exists in the file system
    nforked,    \* how many names of Ifaces the fork loop has handled
    registry,   \* client_fds: accepted connection -> interface name
    backlog,    \* connections queued on the listener, not yet accepted
    ready,      \* client fds select() reported readable this iteration
    lready,     \* select() reported the listener readable
    wpc,        \* where each intfMonitor is
    wrunning,   \* each intfMonitor's running flag
    wEnd,       \* state of the worker's end of its connection
    supEnd,     \* state of the supervisor's end: backlog, open, closed
    wErr,       \* ECONNRESET pending on the worker's socket
    toSup,      \* bytes queued for the supervisor, as tokens
    toWk,       \* bytes queued for the worker, as tokens
    downs,      \* "Link Down" reports sent by each worker
    setups,     \* "Set Link Up" commands sent to each worker
    fixes,      \* SIOCSIFFLAGS requests made by each worker
    ctrlC       \* Ctrl-C has hit the whole process group

supVars == <<sup_pc, running, listening, sockfile, nforked, registry,
             backlog, ready, lready>>
wkVars  == <<wpc, wrunning, wEnd>>
netVars == <<supEnd, wErr, toSup, toWk>>
histVars == <<downs, setups, fixes, ctrlC>>
vars == <<supVars, wkVars, netVars, histVars>>

Terminal == {"exited", "failed", "killed"}
SupGone  == sup_pc \in {"exited", "killed"}

-----------------------------------------------------------------------------
(* The stream socket.                                                      *)

\* What one recv() returns when the tokens q are queued: all of them.
Recv(q) == FoldLeft(LAMBDA a, b : a \o b, "", q)

\* The worker's recv() can return: data, a pending error, or end of stream.
CanRecv(w) == toWk[w] # <<>> \/ wErr[w] \/ supEnd[w] = "closed"
Received(w) == IF toWk[w] # <<>> THEN Recv(toWk[w]) ELSE ""
AtEOF(w) == toWk[w] = <<>> /\ ~wErr[w]

\* The worker's recv(): the queue is drained; the error is reported only
\* when no data is queued, and is cleared by reporting it.
WorkerRecv(w) ==
    /\ toWk' = [toWk EXCEPT ![w] = <<>>]
    /\ wErr' = [wErr EXCEPT ![w] = IF toWk[w] = <<>> THEN FALSE ELSE @]

\* The supervisor closes its ends of the connections S, q being what is
\* queued for it then.  Unread data, or a connection still unaccepted,
\* makes the worker's next read fail with ECONNRESET.
CloseSupEnds(S, q) ==
    /\ supEnd' = [v \in Workers |-> IF v \in S THEN "closed" ELSE supEnd[v]]
    /\ wErr' = [v \in Workers |->
                  wErr[v] \/ (v \in S /\ (q[v] # <<>> \/ supEnd[v] = "backlog"))]
    /\ toSup' = [v \in Workers |-> IF v \in S THEN <<>> ELSE q[v]]

LiveSupEnds == {v \in Workers : supEnd[v] \in {"backlog", "open"}}

NoConns == [v \in {} |-> v]

-----------------------------------------------------------------------------
(* networkMonitor                                                          *)

\* The supervisor process dies (SIGPIPE, or abort): the kernel closes its
\* descriptors; the socket file stays behind.  q is what is queued for it.
SupDies(q) ==
    /\ sup_pc' = "killed"
    /\ CloseSupEnds(LiveSupEnds, q)
    /\ listening' = FALSE
    /\ registry' = NoConns
    /\ backlog' = <<>>

\* send_message(): appends m to w's queue, or dies of SIGPIPE if the
\* worker's end is closed.  q is what is queued for the supervisor.
SupSend(w, m, q) ==
    \/ /\ wEnd[w] = "open"
       /\ toWk' = [toWk EXCEPT ![w] = Append(@, m)]
       /\ toSup' = q
       /\ UNCHANGED <<sup_pc, listening, registry, backlog, supEnd, wErr>>
    \/ /\ wEnd[w] = "closed"
       /\ SupDies(q)
       /\ UNCHANGED toWk

\* The fork loop: fork() may fail, in which case the name gets no worker.
SupFork ==
    /\ sup_pc = "fork"
    /\ LET w == Ifaces[nforked + 1] IN
         \/ wpc' = [wpc EXCEPT ![w] = "exec"]
         \/ UNCHANGED wpc
    /\ nforked' = nforked + 1
    /\ sup_pc' = IF nforked + 1 = Len(Ifaces) THEN "select" ELSE "fork"
    /\ UNCHANGED <<running, listening, sockfile, registry, backlog, ready,
                   lready, wrunning, wEnd, netVars, histVars>>

\* sig_handler(): clears running and closes the listener, which resets the
\* connections still queued on it.
\* Mutant: the handler closes the listener but leaves running set.
SupSigIntEffectKeepRunning ==
    /\ UNCHANGED running
    /\ listening' = FALSE
    /\ backlog' = <<>>
    /\ CloseSupEnds({v \in Workers : supEnd[v] = "backlog"}, toSup)

SupSigIntEffect ==
    /\ running' = FALSE
    /\ listening' = FALSE
    /\ backlog' = <<>>
    /\ CloseSupEnds({v \in Workers : supEnd[v] = "backlog"}, toSup)

SupSigInt ==
    /\ ~SupGone
    /\ running
    /\ SupSigIntEffect
    /\ UNCHANGED <<sup_pc, sockfile, nforked, registry, ready, lready,
                   wkVars, toWk, histVars>>

\* The client fds that select() reports readable: data or end of stream.
ReadyFds == {w \in DOMAIN registry : toSup[w] # <<>> \/ wEnd[w] = "closed"}

\* select() returns with something readable; a timeout changes nothing.
SupSelect ==
    /\ sup_pc = "select"
    /\ running
    /\ ReadyFds # {} \/ (listening /\ backlog # <<>>)
    /\ ready' = ReadyFds
    /\ lready' = (listening /\ backlog # <<>>)
    /\ sup_pc' = "accept"
    /\ UNCHANGED <<running, listening, sockfile, nforked, registry, backlog,
                   wkVars, netVars, histVars>>

\* accept() and positional naming: the new connection gets the first
\* configured name no registered connection holds.  If SIGINT closed the
\* listener after select(), master_socket_fd is -1 and FD_ISSET(-1) is
\* undefined: a fortified build aborts; otherwise the test reads a stray
\* bit and, if set, accept(-1) fails; either way the loop goes on.
FreeName == SelectInSeq(Ifaces, LAMBDA n : n \notin Range(registry))

SupAccept ==
    /\ sup_pc = "accept"
    /\ \/ /\ lready /\ listening
          /\ LET c == Head(backlog) IN
               IF FreeName # 0
               THEN /\ registry' = registry @@ (c :> Ifaces[FreeName])
                    /\ supEnd' = [supEnd EXCEPT ![c] = "open"]
                    /\ UNCHANGED <<wErr, toSup>>
               ELSE /\ CloseSupEnds({c}, toSup)
                    /\ UNCHANGED registry
          /\ backlog' = Tail(backlog)
          /\ sup_pc' = "handle"
          /\ UNCHANGED listening
       \/ /\ (listening /\ ~lready) \/ (~listening /\ ~FortifiedBuild)
          /\ sup_pc' = "handle"
          /\ UNCHANGED <<listening, registry, backlog, netVars>>
       \/ /\ ~listening /\ FortifiedBuild
          /\ SupDies(toSup)
    /\ UNCHANGED <<running, sockfile, nforked, ready, lready, wkVars, toWk,
                   histVars>>

\* Mutant: "Ready" is answered with the wrong token.
SupHandleTypo(w) ==
    /\ sup_pc = "handle"
    /\ w \in ready /\ w \in DOMAIN registry
    /\ ready' = ready \ {w}
    /\ LET msg == Recv(toSup[w])
           q   == [toSup EXCEPT ![w] = <<>>]
       IN  \/ /\ toSup[w] # <<>> /\ msg = "Ready"
              /\ SupSend(w, "Monitoring", q)
              /\ UNCHANGED setups
           \/ /\ toSup[w] # <<>> /\ msg # "Ready"
              /\ toSup' = q
              /\ UNCHANGED <<sup_pc, listening, registry, backlog, supEnd,
                             wErr, toWk, setups>>
    /\ UNCHANGED <<running, sockfile, nforked, lready, wkVars,
                   downs, fixes, ctrlC>>

\* Mutant: end of stream or "Done" closes the fd but leaves it in client_fds.
SupHandleNoErase(w) ==
    /\ sup_pc = "handle"
    /\ w \in ready /\ w \in DOMAIN registry
    /\ ready' = ready \ {w}
    /\ LET msg == Recv(toSup[w])
           q   == [toSup EXCEPT ![w] = <<>>]
       IN  \/ /\ toSup[w] # <<>> /\ msg \notin {"Done"}
              /\ toSup' = q
              /\ UNCHANGED <<sup_pc, listening, registry, backlog, supEnd,
                             wErr, toWk, setups>>
           \/ /\ toSup[w] = <<>> \/ msg = "Done"
              /\ CloseSupEnds({w}, q)
              /\ UNCHANGED <<sup_pc, listening, registry, backlog, toWk, setups>>
    /\ UNCHANGED <<running, sockfile, nforked, lready, wkVars,
                   downs, fixes, ctrlC>>

\* Mutant: "Ready" is not among the recognised messages and is dropped.
SupHandleNoReady(w) ==
    /\ sup_pc = "handle"
    /\ w \in ready /\ w \in DOMAIN registry
    /\ ready' = ready \ {w}
    /\ LET msg == Recv(toSup[w])
           q   == [toSup EXCEPT ![w] = <<>>]
       IN  \/ /\ toSup[w] # <<>> /\ msg = "Link Down"
              /\ SupSend(w, "Set Link Up", q)
              /\ setups' = [setups EXCEPT ![w] = IF wEnd[w] = "open"
                                                 THEN @ + 1 ELSE @]
           \/ /\ toSup[w] # <<>> /\ msg \notin {"Link Down", "Done"}
              /\ toSup' = q
              /\ UNCHANGED <<sup_pc, listening, registry, backlog, supEnd,
                             wErr, toWk, setups>>
           \/ /\ toSup[w] = <<>> \/ msg = "Done"
              /\ CloseSupEnds({w}, q)
              /\ registry' = Restrict(registry, DOMAIN registry \ {w})
              /\ UNCHANGED <<sup_pc, listening, backlog, toWk, setups>>
    /\ UNCHANGED <<running, sockfile, nforked, lready, wkVars,
                   downs, fixes, ctrlC>>

\* handle_client_message() for one readable fd.
SupHandle(w) ==
    /\ sup_pc = "handle"
    /\ w \in ready
    /\ w \in DOMAIN registry
    /\ ready' = ready \ {w}
    /\ LET msg == Recv(toSup[w])
           q   == [toSup EXCEPT ![w] = <<>>]
       IN  \/ /\ toSup[w] # <<>> /\ msg = "Ready"
              /\ SupSend(w, "Monitor", q)
              /\ UNCHANGED setups
           \/ /\ toSup[w] # <<>> /\ msg = "Link Down"
              /\ SupSend(w, "Set Link Up", q)
              /\ setups' = [setups EXCEPT ![w] = IF wEnd[w] = "open"
                                                 THEN @ + 1 ELSE @]
           \/ /\ toSup[w] # <<>> /\ msg \notin {"Ready", "Link Down", "Done"}
              /\ toSup' = q
              /\ UNCHANGED <<sup_pc, listening, registry, backlog, supEnd,
                             wErr, toWk, setups>>
           \/ /\ toSup[w] = <<>> \/ msg = "Done"
              /\ CloseSupEnds({w}, q)
              /\ registry' = Restrict(registry, DOMAIN registry \ {w})
              /\ UNCHANGED <<sup_pc, listening, backlog, toWk, setups>>
    /\ UNCHANGED <<running, sockfile, nforked, lready, wkVars,
                   downs, fixes, ctrlC>>

\* The end of the handling loop: back to the top of while (running).
SupHandleDone ==
    /\ sup_pc = "handle"
    /\ ready \cap DOMAIN registry = {}
    /\ sup_pc' = "select"
    /\ ready' = {}
    /\ UNCHANGED <<running, listening, sockfile, nforked, registry, backlog,
                   lready, wkVars, netVars, histVars>>

\* while (running) fails: cleanup_sockets() starts.
SupLoopExit ==
    /\ sup_pc = "select"
    /\ ~running
    /\ sup_pc' = "cleanup"
    /\ UNCHANGED <<running, listening, sockfile, nforked, registry, backlog,
                   ready, lready, wkVars, netVars, histVars>>

\* cleanup_sockets(): "Shut Down" to one registered connection, then close.
SupShutDownOne(w) ==
    /\ sup_pc = "cleanup"
    /\ w \in DOMAIN registry
    /\ \/ /\ wEnd[w] = "open"
          /\ toWk' = [toWk EXCEPT ![w] = Append(@, "Shut Down")]
          /\ CloseSupEnds({w}, toSup)
          /\ registry' = Restrict(registry, DOMAIN registry \ {w})
          /\ UNCHANGED <<sup_pc, listening, backlog, ready>>
       \/ /\ wEnd[w] = "closed"
          /\ SupDies(toSup)
          /\ UNCHANGED toWk
    /\ UNCHANGED <<running, sockfile, nforked, ready, lready, wkVars,
                   histVars>>

\* cleanup_sockets(), the rest: close the listener, remove the socket
\* file, reap with WNOHANG; then main() returns 0.
SupExit ==
    /\ sup_pc = "cleanup"
    /\ DOMAIN registry = {}
    /\ listening' = FALSE
    /\ sockfile' = FALSE
    /\ sup_pc' = "exited"
    /\ UNCHANGED <<running, nforked, registry, backlog, ready, lready,
                   wkVars, netVars, histVars>>

-----------------------------------------------------------------------------
(* intfMonitor                                                             *)

\* The worker dies (SIGPIPE, or killed from outside): its end closes and
\* what was queued for it is lost.
WorkerDies(w) ==
    /\ wpc' = [wpc EXCEPT ![w] = "killed"]
    /\ wEnd' = [wEnd EXCEPT ![w] = IF @ = "open" THEN "closed" ELSE @]
    /\ toWk' = [toWk EXCEPT ![w] = <<>>]

\* send_message() of the worker, then continue at pc.
WorkerSend(w, m, pc) ==
    \/ /\ supEnd[w] # "closed"
       /\ toSup' = [toSup EXCEPT ![w] = Append(@, m)]
       /\ wpc' = [wpc EXCEPT ![w] = pc]
       /\ UNCHANGED <<wEnd, toWk>>
    \/ /\ supEnd[w] = "closed"
       /\ WorkerDies(w)
       /\ UNCHANGED toSup

\* The child: execve() fails and it exits 1, or intfMonitor starts,
\* installs its SIGINT handler and connects; connect() fails unless the
\* supervisor still listens.
WStart(w) ==
    /\ wpc[w] = "exec"
    /\ \/ /\ listening
          /\ backlog' = Append(backlog, w)
          /\ supEnd' = [supEnd EXCEPT ![w] = "backlog"]
          /\ wEnd' = [wEnd EXCEPT ![w] = "open"]
          /\ wpc' = [wpc EXCEPT ![w] = "sendReady"]
       \/ /\ wpc' = [wpc EXCEPT ![w] = "failed"]
          /\ UNCHANGED <<backlog, supEnd, wEnd>>
    /\ UNCHANGED <<sup_pc, running, listening, sockfile, nforked, registry,
                   ready, lready, wrunning, wErr, toSup, toWk, histVars>>

WSendReady(w) ==
    /\ wpc[w] = "sendReady"
    /\ WorkerSend(w, "Ready", "awaitMonitor")
    /\ UNCHANGED <<supVars, wrunning, supEnd, wErr, histVars>>

\* The blocking wait for "Monitor"; anything else ends the worker.
WRecvMonitor(w) ==
    /\ wpc[w] = "awaitMonitor"
    /\ CanRecv(w)
    /\ WorkerRecv(w)
    /\ wpc' = [wpc EXCEPT ![w] = IF Received(w) = "Monitor"
                                  THEN "sendMonitoring" ELSE "loopCheck"]
    /\ wrunning' = [wrunning EXCEPT ![w] = @ /\ Received(w) = "Monitor"]
    /\ UNCHANGED <<supVars, wEnd, supEnd, toSup, histVars>>

WSendMonitoring(w) ==
    /\ wpc[w] = "sendMonitoring"
    /\ WorkerSend(w, "Monitoring", "loopCheck")
    /\ UNCHANGED <<supVars, wrunning, supEnd, wErr, histVars>>

\* while (running)
WLoopCheck(w) ==
    /\ wpc[w] = "loopCheck"
    /\ wpc' = [wpc EXCEPT ![w] = IF wrunning[w] THEN "tick" ELSE "sendDone"]
    /\ UNCHANGED <<supVars, wrunning, wEnd, netVars, histVars>>

\* One pass of the monitoring loop: operstate is read; "up" only prints
\* and sleeps, "down" reports to the supervisor and waits for its answer.
WTick(w) ==
    /\ wpc[w] = "tick"
    /\ \/ /\ wpc' = [wpc EXCEPT ![w] = "loopCheck"]
          /\ UNCHANGED <<wEnd, toSup, toWk, downs>>
       \/ /\ downs[w] < MaxDown
          /\ WorkerSend(w, "Link Down", "awaitLinkCmd")
          /\ downs' = [downs EXCEPT ![w] = @ + 1]
    /\ UNCHANGED <<supVars, wrunning, supEnd, wErr, setups, fixes, ctrlC>>

\* Mutant: every answer but "Shut Down" is taken for "Set Link Up".
WRecvLinkCmdAnyFix(w) ==
    /\ wpc[w] = "awaitLinkCmd"
    /\ CanRecv(w)
    /\ WorkerRecv(w)
    /\ wpc' = [wpc EXCEPT ![w] = "loopCheck"]
    /\ wrunning' = [wrunning EXCEPT ![w] =
                      @ /\ Received(w) # "Shut Down" /\ ~AtEOF(w)]
    /\ fixes' = [fixes EXCEPT ![w] = IF Received(w) # "Shut Down"
                                     THEN @ + 1 ELSE @]
    /\ UNCHANGED <<supVars, wEnd, supEnd, toSup, downs, setups, ctrlC>>

\* The blocking wait for the answer to "Link Down".  "Set Link Up" makes
\* the SIOCSIFFLAGS request; "Shut Down" or end of stream stops the loop;
\* anything else (an error reads as "") is ignored.
WRecvLinkCmd(w) ==
    /\ wpc[w] = "awaitLinkCmd"
    /\ CanRecv(w)
    /\ WorkerRecv(w)
    /\ wpc' = [wpc EXCEPT ![w] = "loopCheck"]
    /\ wrunning' = [wrunning EXCEPT ![w] =
                      @ /\ Received(w) # "Shut Down" /\ ~AtEOF(w)]
    /\ fixes' = [fixes EXCEPT ![w] = IF Received(w) = "Set Link Up"
                                     THEN @ + 1 ELSE @]
    /\ UNCHANGED <<supVars, wEnd, supEnd, toSup, downs, setups, ctrlC>>

\* Graceful shutdown: "Done", then close.
WSendDone(w) ==
    /\ wpc[w] = "sendDone"
    /\ \/ /\ supEnd[w] # "closed"
          /\ toSup' = [toSup EXCEPT ![w] = Append(@, "Done")]
          /\ wpc' = [wpc EXCEPT ![w] = "exited"]
          /\ wEnd' = [wEnd EXCEPT ![w] = "closed"]
          /\ toWk' = [toWk EXCEPT ![w] = <<>>]
       \/ /\ supEnd[w] = "closed"
          /\ WorkerDies(w)
          /\ UNCHANGED toSup
    /\ UNCHANGED <<supVars, wrunning, supEnd, wErr, histVars>>

\* SIGINT reaching worker w: before intfMonitor installed its handler the
\* default action kills it; after, the handler clears running.  A blocked
\* recv() is restarted (signal() installs with SA_RESTART).
Handled(w) == wpc[w] \notin {"none", "exec"} \cup Terminal

WSigInt(w) ==
    /\ \/ /\ Handled(w) /\ wrunning[w]
          /\ wrunning' = [wrunning EXCEPT ![w] = FALSE]
          /\ UNCHANGED <<wpc, wEnd, toWk>>
       \/ /\ wpc[w] = "exec"
          /\ WorkerDies(w)
          /\ UNCHANGED wrunning
    /\ UNCHANGED <<supVars, supEnd, wErr, toSup, histVars>>

\* A worker killed from outside at any point of its life.
WCrash(w) ==
    /\ CrashEnabled
    /\ wpc[w] \notin {"none"} \cup Terminal
    /\ WorkerDies(w)
    /\ UNCHANGED <<supVars, wrunning, supEnd, wErr, toSup, histVars>>

\* Ctrl-C at the terminal: SIGINT to the supervisor and every worker at
\* once.  A child between fork() and execve() may lose it.
CtrlC ==
    /\ ~ctrlC
    /\ ctrlC' = TRUE
    /\ IF ~SupGone /\ running
         THEN SupSigIntEffect
         ELSE UNCHANGED <<running, listening, backlog, supEnd, wErr, toSup>>
    /\ \E lost \in SUBSET {w \in Workers : wpc[w] = "exec"} :
         LET dead == {w \in Workers : wpc[w] = "exec"} \ lost IN
         /\ wpc' = [w \in Workers |-> IF w \in dead THEN "killed" ELSE wpc[w]]
         /\ wrunning' = [w \in Workers |-> wrunning[w] /\ ~Handled(w)]
    /\ UNCHANGED <<sup_pc, sockfile, nforked, registry, ready, lready,
                   wEnd, toWk, downs, setups, fixes>>

-----------------------------------------------------------------------------

Init ==
    /\ sup_pc = "fork"
    /\ running = TRUE
    /\ listening = TRUE
    /\ sockfile = TRUE
    /\ nforked = 0
    /\ registry = NoConns
    /\ backlog = <<>>
    /\ ready = {}
    /\ lready = FALSE
    /\ wpc = [w \in Workers |-> "none"]
    /\ wrunning = [w \in Workers |-> TRUE]
    /\ wEnd = [w \in Workers |-> "none"]
    /\ supEnd = [w \in Workers |-> "none"]
    /\ wErr = [w \in Workers |-> FALSE]
    /\ toSup = [w \in Workers |-> <<>>]
    /\ toWk = [w \in Workers |-> <<>>]
    /\ downs = [w \in Workers |-> 0]
    /\ setups = [w \in Workers |-> 0]
    /\ fixes = [w \in Workers |-> 0]
    /\ ctrlC = FALSE

Supervisor ==
    \/ SupFork \/ SupSigInt \/ SupSelect \/ SupAccept
    \/ \E w \in Workers : SupHandle(w) \/ SupShutDownOne(w)
    \/ SupHandleDone \/ SupLoopExit \/ SupExit

Worker(w) ==
    \/ WStart(w) \/ WSendReady(w) \/ WRecvMonitor(w) \/ WSendMonitoring(w)
    \/ WLoopCheck(w) \/ WTick(w) \/ WRecvLinkCmd(w) \/ WSendDone(w)
    \/ WSigInt(w) \/ WCrash(w)

Next == Supervisor \/ (\E w \in Workers : Worker(w)) \/ CtrlC

\* Both programs are scheduled by the kernel: a step a process can take
\* is eventually taken.  Signals, crashes and the interface going down are
\* the environment's and are not assumed to happen.
Fairness ==
    /\ WF_vars(SupFork) /\ WF_vars(SupSelect) /\ WF_vars(SupAccept)
    /\ WF_vars(\E w \in Workers : SupHandle(w)) /\ WF_vars(SupHandleDone)
    /\ WF_vars(SupLoopExit) /\ WF_vars(\E w \in Workers : SupShutDownOne(w))
    /\ WF_vars(SupExit)
    /\ \A w \in Workers :
         /\ WF_vars(WStart(w)) /\ WF_vars(WSendReady(w))
         /\ WF_vars(WRecvMonitor(w)) /\ WF_vars(WSendMonitoring(w))
         /\ WF_vars(WLoopCheck(w)) /\ WF_vars(WTick(w))
         /\ WF_vars(WRecvLinkCmd(w)) /\ WF_vars(WSendDone(w))

Spec == Init /\ [][Next]_vars /\ Fairness

-----------------------------------------------------------------------------
(* Properties                                                              *)

WorkerPcs == {"none", "exec", "sendReady", "awaitMonitor", "sendMonitoring",
              "loopCheck", "tick", "awaitLinkCmd", "sendDone"} \cup Terminal

\* Every variable has the type the code gives it.
TypeOK ==
    /\ sup_pc \in {"fork", "select", "accept", "handle", "cleanup",
                   "exited", "killed"}
    /\ running \in BOOLEAN /\ listening \in BOOLEAN /\ sockfile \in BOOLEAN
    /\ nforked \in 0 .. Len(Ifaces)
    /\ registry \in UNION {[D -> Workers] : D \in SUBSET Workers}
    /\ backlog \in Seq(Workers)
    /\ ready \subseteq Workers /\ lready \in BOOLEAN
    /\ wpc \in [Workers -> WorkerPcs]
    /\ wrunning \in [Workers -> BOOLEAN]
    /\ wEnd \in [Workers -> {"none", "open", "closed"}]
    /\ supEnd \in [Workers -> {"none", "backlog", "open", "closed"}]
    /\ wErr \in [Workers -> BOOLEAN]
    /\ toSup \in [Workers -> Seq(WorkerTokens)]
    /\ toWk \in [Workers -> Seq(SupTokens)]
    /\ downs \in [Workers -> 0 .. MaxDown]
    /\ setups \in [Workers -> 0 .. MaxDown]
    /\ fixes \in [Workers -> 0 .. MaxDown]
    /\ ctrlC \in BOOLEAN

\* client_fds holds exactly the connections whose descriptor the supervisor
\* still has open: handle_client_message() and cleanup_sockets() close a
\* descriptor in the same step as they erase it, so no fd leaks and no
\* closed fd is passed to select().
RegistryTracksOpenConns ==
    \A w \in Workers : (w \in DOMAIN registry) <=> (supEnd[w] = "open")

\* SIOCSIFFLAGS is requested only on a "Set Link Up", and the supervisor
\* sends "Set Link Up" only in answer to a "Link Down" it read: one
\* remediation at most per report, whatever the two processes interleave.
RemediationAccounting ==
    \A w \in Workers : fixes[w] <= setups[w] /\ setups[w] <= downs[w]

\* A worker blocked in recv() for "Monitor" is eventually released: the
\* supervisor accepts it, reads its "Ready" and answers, or closes it.
HandshakeCompletes ==
    \A w \in Workers : wpc[w] = "awaitMonitor" ~> wpc[w] # "awaitMonitor"

AllTerminated == SupGone /\ \A w \in Workers : wpc[w] \in Terminal \cup {"none"}

\* After Ctrl-C at the terminal, every process of the fleet terminates:
\* no worker stays blocked in recv() and the supervisor leaves its loop.
CtrlCTerminates == ctrlC ~> AllTerminated

\* spec 4.3, 8 (scenario B): a "Link Down" is answered, so a worker waiting
\* for the answer is eventually released.
LinkDownAnswered ==
    \A w \in Workers : wpc[w] = "awaitLinkCmd" ~> wpc[w] # "awaitLinkCmd"

\* spec 4.1: once the supervisor has terminated, the rendezvous socket file
\* is removed (cleanup_sockets() removes SOCKET_PATH).
ShutdownRemovesSocket == SupGone => ~sockfile

\* spec 4.2, 8 (scenario C): after the supervisor shuts down cleanly, every
\* worker terminates ("Stop() on receiving Shut Down at any point").
WorkersStopAfterSupervisor ==
    \A w \in Workers : sup_pc = "exited" ~> wpc[w] \in Terminal \cup {"none"}

=============================================================================
