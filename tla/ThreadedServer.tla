---------------------------- MODULE ThreadedServer ----------------------------
(***************************************************************************)
(* Lab9: a TCP server (src/Lab9/server.cpp).  main() polls a non-blocking *)
(* accept(), starts one receive_thread per connection, and once a second  *)
(* prints and empties message_queue under queue_mutex.  Each receive      *)
(* thread reads with a 5 s SO_RCVTIMEO and pushes what it read, as one    *)
(* string, under the same mutex.  SIGINT clears is_running; main() then   *)
(* writes "Quit" to and closes every client fd, joins every thread and    *)
(* closes the listener.                                                    *)
(*                                                                         *)
(* The clients are the environment: they connect, send numbered messages *)
(* and may close.  A message is <<client, number>>; one read() returns    *)
(* everything the socket holds, so a queue entry is a sequence of them.   *)
(* Holding queue_mutex makes each push and each drain one step.           *)
(***************************************************************************)
EXTENDS Naturals, Sequences, SequencesExt

CONSTANTS
    Clients,    \* the peers that connect
    MaxMsgs     \* messages each peer sends at most

ASSUME MaxMsgs \in Nat

Msgs == Clients \X (1..MaxMsgs)

VARIABLES
    is_running,   \* the global flag
    mainPc,       \* where main() is
    backlog,      \* connections waiting in the listener
    client_fds,   \* accepted connections, in accept order
    shutIdx,      \* how far the shutdown loop over client_fds has got
    srvFd,        \* the server's fd for each peer: none, open, closed
    tpc,          \* where each receive thread is
    message_queue,\* the shared queue: one entry per read()
    printed,      \* what main() has printed, message by message
    cstate,       \* each peer: idle, connected, closed
    nsent,        \* messages each peer has sent
    wire          \* bytes queued in the server's socket for each peer

vars == <<is_running, mainPc, backlog, client_fds, shutIdx, srvFd, tpc,
          message_queue, printed, cstate, nsent, wire>>

srvVars  == <<is_running, mainPc, backlog, client_fds, shutIdx, srvFd>>
peerVars == <<cstate, nsent, wire>>

\* The globals, and main() after listen().
Init ==
    /\ is_running = TRUE
    /\ mainPc = "test"
    /\ backlog = <<>> /\ client_fds = <<>> /\ shutIdx = 0
    /\ srvFd = [c \in Clients |-> "none"]
    /\ tpc = [c \in Clients |-> "none"]
    /\ message_queue = <<>> /\ printed = <<>>
    /\ cstate = [c \in Clients |-> "idle"]
    /\ nsent = [c \in Clients |-> 0]
    /\ wire = [c \in Clients |-> <<>>]

-----------------------------------------------------------------------------
(* signal_handler.                                                        *)

SigInt ==
    /\ is_running
    /\ is_running' = FALSE
    /\ UNCHANGED <<mainPc, backlog, client_fds, shutIdx, srvFd, tpc,
                   message_queue, printed, peerVars>>

-----------------------------------------------------------------------------
(* main().                                                                *)

\* while (is_running)
MainTest ==
    /\ mainPc = "test"
    /\ mainPc' = IF is_running THEN "accept" ELSE "quit"
    /\ UNCHANGED <<is_running, backlog, client_fds, shutIdx, srvFd, tpc,
                   message_queue, printed, peerVars>>

\* The non-blocking accept(); on success the fd is recorded and its
\* receive thread created.
MainAccept ==
    /\ mainPc = "accept"
    /\ IF backlog # <<>>
         THEN LET c == Head(backlog) IN
              /\ backlog' = Tail(backlog)
              /\ client_fds' = Append(client_fds, c)
              /\ srvFd' = [srvFd EXCEPT ![c] = "open"]
              /\ tpc' = [tpc EXCEPT ![c] = "test"]
         ELSE UNCHANGED <<backlog, client_fds, srvFd, tpc>>
    /\ mainPc' = "drain"
    /\ UNCHANGED <<is_running, shutIdx, message_queue, printed, peerVars>>

\* A drain that prints the entries newest first.
MainDrainLifo ==
    /\ mainPc = "drain"
    /\ printed' = printed \o FlattenSeq(Reverse(message_queue))
    /\ message_queue' = <<>>
    /\ mainPc' = "test"
    /\ UNCHANGED <<is_running, backlog, client_fds, shutIdx, srvFd, tpc,
                   peerVars>>

\* Under queue_mutex: print and pop every entry; then sleep(1).
MainDrain ==
    /\ mainPc = "drain"
    /\ printed' = printed \o FlattenSeq(message_queue)
    /\ message_queue' = <<>>
    /\ mainPc' = "test"
    /\ UNCHANGED <<is_running, backlog, client_fds, shutIdx, srvFd, tpc,
                   peerVars>>

\* A shutdown loop that steps over two fds per pass.
ShutdownOneTwice ==
    /\ mainPc = "quit"
    /\ shutIdx < Len(client_fds)
    /\ srvFd' = [srvFd EXCEPT ![client_fds[shutIdx + 1]] = "closed"]
    /\ shutIdx' = shutIdx + 2
    /\ UNCHANGED <<is_running, mainPc, backlog, client_fds, tpc,
                   message_queue, printed, peerVars>>

\* One pass of the shutdown loop: write(fd, "Quit", 4) and close(fd).
\* Data a peer sends after the close is discarded with a reset.
ShutdownOne ==
    /\ mainPc = "quit"
    /\ shutIdx < Len(client_fds)
    /\ srvFd' = [srvFd EXCEPT ![client_fds[shutIdx + 1]] = "closed"]
    /\ shutIdx' = shutIdx + 1
    /\ UNCHANGED <<is_running, mainPc, backlog, client_fds, tpc,
                   message_queue, printed, peerVars>>

\* pthread_join() on every thread in turn, close(server_fd), return 0.
MainJoin ==
    /\ mainPc = "quit"
    /\ shutIdx = Len(client_fds)
    /\ \A i \in 1..Len(client_fds) : tpc[client_fds[i]] = "exited"
    /\ mainPc' = "done"
    /\ UNCHANGED <<is_running, backlog, client_fds, shutIdx, srvFd, tpc,
                   message_queue, printed, peerVars>>

-----------------------------------------------------------------------------
(* receive_thread(c).                                                      *)

\* Thread start-up, then while (is_running).
ThreadTest(c) ==
    /\ tpc[c] = "test"
    /\ tpc' = [tpc EXCEPT ![c] = IF is_running THEN "read" ELSE "exited"]
    /\ UNCHANGED <<srvVars, message_queue, printed, peerVars>>

\* read() > 0: everything queued in the socket, pushed under queue_mutex.
ThreadRecv(c) ==
    /\ tpc[c] = "read"
    /\ wire[c] # <<>>
    /\ message_queue' = Append(message_queue, wire[c])
    /\ wire' = [wire EXCEPT ![c] = <<>>]
    /\ tpc' = [tpc EXCEPT ![c] = "test"]
    /\ UNCHANGED <<srvVars, printed, cstate, nsent>>

\* read() == 0: the peer closed; break and exit.
ThreadEof(c) ==
    /\ tpc[c] = "read"
    /\ wire[c] = <<>> /\ cstate[c] = "closed"
    /\ tpc' = [tpc EXCEPT ![c] = "exited"]
    /\ UNCHANGED <<srvVars, message_queue, printed, peerVars>>

\* A read() that never times out.
RecvTimeoutNever(c) == FALSE

\* read() < 0: SO_RCVTIMEO expired with nothing to read; loop.
RecvTimeout(c) ==
    /\ tpc[c] = "read"
    /\ wire[c] = <<>> /\ cstate[c] # "closed"
    /\ tpc' = [tpc EXCEPT ![c] = "test"]
    /\ UNCHANGED <<srvVars, message_queue, printed, peerVars>>

-----------------------------------------------------------------------------
(* The peers.                                                              *)

PeerConnect(c) ==
    /\ cstate[c] = "idle" /\ mainPc # "done"
    /\ cstate' = [cstate EXCEPT ![c] = "connected"]
    /\ backlog' = Append(backlog, c)
    /\ UNCHANGED <<is_running, mainPc, client_fds, shutIdx, srvFd, tpc,
                   message_queue, printed, nsent, wire>>

PeerSend(c) ==
    /\ cstate[c] = "connected" /\ nsent[c] < MaxMsgs
    /\ nsent' = [nsent EXCEPT ![c] = @ + 1]
    /\ wire' = IF srvFd[c] = "closed" THEN wire
               ELSE [wire EXCEPT ![c] = Append(@, <<c, nsent[c] + 1>>)]
    /\ UNCHANGED <<srvVars, tpc, message_queue, printed, cstate>>

PeerClose(c) ==
    /\ cstate[c] = "connected"
    /\ cstate' = [cstate EXCEPT ![c] = "closed"]
    /\ UNCHANGED <<srvVars, tpc, message_queue, printed, nsent, wire>>

-----------------------------------------------------------------------------

Thread(c) == ThreadTest(c) \/ ThreadRecv(c) \/ ThreadEof(c) \/ RecvTimeout(c)

Next ==
    \/ SigInt
    \/ MainTest \/ MainAccept \/ MainDrain \/ ShutdownOne \/ MainJoin
    \/ \E c \in Clients : Thread(c)
    \/ \E c \in Clients : PeerConnect(c) \/ PeerSend(c) \/ PeerClose(c)

\* The kernel schedules main() and every thread; SO_RCVTIMEO makes a read()
\* on a silent socket return.  SIGINT and the peers are the environment's.
Fairness ==
    /\ WF_vars(MainTest) /\ WF_vars(MainAccept) /\ WF_vars(MainDrain)
    /\ WF_vars(ShutdownOne) /\ WF_vars(MainJoin)
    /\ \A c \in Clients : WF_vars(Thread(c))

Spec == Init /\ [][Next]_vars /\ Fairness

-----------------------------------------------------------------------------
(* Properties.                                                             *)

TypeOK ==
    /\ is_running \in BOOLEAN
    /\ mainPc \in {"test", "accept", "drain", "quit", "done"}
    /\ backlog \in Seq(Clients) /\ client_fds \in Seq(Clients)
    /\ shutIdx \in 0..Len(client_fds)
    /\ srvFd \in [Clients -> {"none", "open", "closed"}]
    /\ tpc \in [Clients -> {"none", "test", "read", "exited"}]
    /\ message_queue \in Seq(Seq(Msgs)) /\ printed \in Seq(Msgs)
    /\ cstate \in [Clients -> {"idle", "connected", "closed"}]
    /\ nsent \in [Clients -> 0..MaxMsgs]
    /\ wire \in [Clients -> Seq(Msgs)]

\* Peer c's messages, in the order they are held at one stage.
Of(c, s) == SelectSeq(s, LAMBDA m : m[1] = c)

\* Everything of peer c the server holds: printed, queued, in the socket.
Pipeline(c) == Of(c, printed) \o Of(c, FlattenSeq(message_queue)) \o wire[c]

\* The reads, pushes and once-a-second drains never lose, repeat or reorder
\* a peer's messages: printed, then queued, then unread, they are exactly
\* what the peer sent, in order, until the server closes the connection
\* (after which the peer's later sends are discarded).
StreamIntact ==
    \A c \in Clients :
        LET sentSeq == [k \in 1..nsent[c] |-> <<c, k>>] IN
        /\ IsPrefix(Pipeline(c), sentSeq)
        /\ srvFd[c] # "closed" => Pipeline(c) = sentSeq

\* After Ctrl-C the server exits: every receive thread leaves its loop
\* within a read timeout, whatever the peers do, so every join returns.
ShutdownCompletes == ~is_running ~> (mainPc = "done")

\* Every message a receive thread pushed is printed before the server exits.
NoMessageLost == mainPc = "done" => message_queue = <<>>

=============================================================================
