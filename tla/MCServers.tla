------------------------------ MODULE MCServers ------------------------------
(***************************************************************************)
(* The two threaded servers checked in one model: a behaviour runs Lab9   *)
(* (ThreadedServer: receive threads, a shared queue, Ctrl-C) or           *)
(* Assignment3 (LogSystem: the logging client with its listener thread,   *)
(* and the server with its receive thread, over UDP).  Init chooses which; *)
(* the other module's variables keep their initial values.                *)
(*                                                                         *)
(* Each module's fairness is restated here for the behaviours that run    *)
(* it, as WF of "prog = ... /\ step": prog never changes, so this is the  *)
(* module's own fairness there and nothing elsewhere.                     *)
(***************************************************************************)
EXTENDS Naturals, Sequences

CONSTANTS
    p1, p2,                 \* the Lab9 peers
    MaxMsgs,
    MsgLevels, MsgWords, CmdInputs, MaxLogs, MaxCmds

Programs == {"Lab9", "Assignment3"}

VARIABLES
    prog,
    \* Lab9 (ThreadedServer)
    tsIsRunning, tsMainPc, tsBacklog, tsClientFds, tsShutIdx, tsSrvFd, tsTpc,
    tsMessageQueue, tsPrinted, tsCstate, tsNsent, tsWire,
    \* Assignment3 (LogSystem)
    lgCapp, lgClientFd, lgListenFlag, lgLpc, lgLogLevel, lgNlogs, lgSent,
    lgSpc, lgSrvSock, lgShutdownFlag, lgRpc, lgServerLevel, lgNcmds, lgFile,
    lgShown, lgToServer, lgToClient

TS == INSTANCE ThreadedServer
        WITH Clients <- {p1, p2},
             is_running <- tsIsRunning, mainPc <- tsMainPc,
             backlog <- tsBacklog, client_fds <- tsClientFds,
             shutIdx <- tsShutIdx, srvFd <- tsSrvFd, tpc <- tsTpc,
             message_queue <- tsMessageQueue, printed <- tsPrinted,
             cstate <- tsCstate, nsent <- tsNsent, wire <- tsWire

LG == INSTANCE LogSystem
        WITH capp <- lgCapp, client_fd <- lgClientFd,
             listen_flag <- lgListenFlag, lpc <- lgLpc,
             log_level <- lgLogLevel, nlogs <- lgNlogs, sent <- lgSent,
             spc <- lgSpc, srvSock <- lgSrvSock,
             shutdown_flag <- lgShutdownFlag, rpc <- lgRpc,
             current_server_log_level <- lgServerLevel, ncmds <- lgNcmds,
             file <- lgFile, shown <- lgShown, toServer <- lgToServer,
             toClient <- lgToClient

lab9Vars == <<tsIsRunning, tsMainPc, tsBacklog, tsClientFds, tsShutIdx,
              tsSrvFd, tsTpc, tsMessageQueue, tsPrinted, tsCstate, tsNsent,
              tsWire>>

loggerVars == <<lgCapp, lgClientFd, lgListenFlag, lgLpc, lgLogLevel, lgNlogs,
                lgSent, lgSpc, lgSrvSock, lgShutdownFlag, lgRpc, lgServerLevel,
                lgNcmds, lgFile, lgShown, lgToServer, lgToClient>>

vars == <<prog, lab9Vars, loggerVars>>

Init == prog \in Programs /\ TS!Init /\ LG!Init

\* A step of one program, the other's variables left alone.
Lab9Step(A) == prog = "Lab9" /\ A /\ UNCHANGED <<prog, loggerVars>>
LoggerStep(A) == prog = "Assignment3" /\ A /\ UNCHANGED <<prog, lab9Vars>>

Next == Lab9Step(TS!Next) \/ LoggerStep(LG!Next)

\* The steps of one sequential routine are told apart by its pc, so at most
\* one is enabled at a time and fairness of their disjunction is fairness
\* of each: main() of Lab9, and the logging server's main loop.  A receive
\* loop may have a datagram and its exit flag at once, so its two steps
\* keep a condition each.
Spec ==
    /\ Init /\ [][Next]_vars
    \* ThreadedServer's Fairness
    /\ WF_vars(Lab9Step(TS!MainTest \/ TS!MainAccept \/ TS!MainDrain
                        \/ TS!ShutdownOne \/ TS!MainJoin))
    /\ \A c \in {p1, p2} : WF_vars(Lab9Step(TS!Thread(c)))
    \* LogSystem's Fairness
    /\ WF_vars(LoggerStep(LG!ExitLogEnd))
    /\ WF_vars(LoggerStep(LG!ListenerRecv)) /\ WF_vars(LoggerStep(LG!ListenerExit))
    /\ WF_vars(LoggerStep(LG!ServerStart \/ LG!DumpExact \/ LG!ServerJoin))
    /\ WF_vars(LoggerStep(LG!ReceiveLog)) /\ WF_vars(LoggerStep(LG!ReceiveExit))

-----------------------------------------------------------------------------

\* Both modules' variables keep their types.
TypeOK == prog \in Programs /\ TS!TypeOK /\ LG!TypeOK

\* Lab9: while a peer's connection is open, what main() has printed of it,
\* then the queue, then its socket, is what it sent, in order (see
\* ThreadedServer).
StreamIntact == TS!StreamIntact

\* Lab9: once Ctrl-C has cleared is_running, main() returns (see
\* ThreadedServer).
ShutdownCompletes == prog = "Lab9" => TS!ShutdownCompletes

\* Assignment3: server_log.txt holds only lines Log() sent, each at most
\* once, in the order sent (see LogSystem).
LogFileInOrder == LG!LogFileInOrder

\* Assignment3: a cumulative dump shows every line at or above its level
\* (see LogSystem).
CumulativeDumpComplete == LG!CumulativeDumpComplete

\* Assignment3: both programs' joins return (see LogSystem).
JoinsReturn == prog = "Assignment3" => LG!JoinsReturn

=============================================================================
