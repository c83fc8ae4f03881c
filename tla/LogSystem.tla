------------------------------- MODULE LogSystem -------------------------------
(***************************************************************************)
(* Assignment3: a client logging library (src/Assignment3/Logger.cpp) and  *)
(* the log server it reports to (src/Assignment3/LogServer.cpp), over UDP  *)
(* on 127.0.0.1.                                                           *)
(*                                                                         *)
(* Log() drops a message below log_level and sends the rest as one         *)
(* datagram to port 8080.  The server's receive thread appends each        *)
(* datagram to server_log.txt.  Menu option 1 sets the server's level,     *)
(* sends "Set Log Level=<n>" to port 8081 (the client's listener thread    *)
(* sets log_level from it), sleeps 5 s and dumps the lines of exactly      *)
(* that level; option 2 dumps the lines of that level or above; option 0   *)
(* shuts down.  A dump classifies a line by the level names it contains.   *)
(*                                                                         *)
(* A message is [id, lvl, word]: its number in the client's sends, its     *)
(* level, and the highest level whose name appears elsewhere in the line   *)
(* (timestamp, file, function or text; 0 when none does).  Loopback UDP    *)
(* neither reorders nor duplicates, but it drops: a datagram to a port     *)
(* nobody has bound, one that finds the receive buffer full, and what a    *)
(* socket still holds when it is closed.                                   *)
(***************************************************************************)
EXTENDS Naturals, Sequences, SequencesExt

CONSTANTS
    MsgLevels,  \* the levels the application logs at
    MsgWords,   \* the level names its lines may mention besides the level
    CmdInputs,  \* the numbers the operator enters at option 1
    MaxLogs,    \* Log() calls the application makes at most
    MaxCmds     \* option-1 commands the operator gives at most

\* enum LOG_LEVEL { DEBUG, WARNING, ERROR, CRITICAL }
Levels == 0 .. 3

ASSUME /\ MsgLevels \subseteq Levels /\ MsgWords \subseteq Levels
       /\ CmdInputs \subseteq Nat
       /\ MaxLogs \in Nat /\ MaxCmds \in Nat

Msgs == [id : 1 .. MaxLogs, lvl : Levels, word : Levels]

\* Mutant: the checks in the order WARNING, ERROR, CRITICAL.
GetLevelWarningFirst(m) ==
    CASE 1 \in {m.lvl, m.word} -> 1
      [] 2 \in {m.lvl, m.word} -> 2
      [] 3 \in {m.lvl, m.word} -> 3
      [] OTHER -> 0

\* get_log_level_from_string: the first of CRITICAL, ERROR, WARNING found
\* anywhere in the line, else DEBUG.
get_log_level_from_string(m) ==
    CASE 3 \in {m.lvl, m.word} -> 3
      [] 2 \in {m.lvl, m.word} -> 2
      [] 1 \in {m.lvl, m.word} -> 1
      [] OTHER -> 0

VARIABLES
    \* the client process
    capp,          \* the application: start, running, joining, exited
    client_fd,     \* unset, invalid (-1), open, closed
    listen_flag,
    lpc,           \* listen_thread: none, recv, exited
    log_level,
    nlogs,         \* Log() calls made
    sent,          \* the datagrams Log() has sent, in order
    \* the server process
    spc,           \* main(): start, menu, sleeping, join, done, failed, aborted
    srvSock,       \* server_fd: none, open, closed
    shutdown_flag,
    rpc,           \* receive_thread: none, recv, exited
    current_server_log_level,
    ncmds,         \* option-1 commands given
    file,          \* server_log.txt, one message per line
    shown,         \* the last dump: its mode, level, lines read and output
    \* the network
    toServer,      \* datagrams queued on port 8080
    toClient       \* commands queued on port 8081

clientVars == <<capp, client_fd, listen_flag, lpc, log_level, nlogs, sent>>
serverVars == <<spc, srvSock, shutdown_flag, rpc, current_server_log_level,
                ncmds, file, shown>>
vars == <<clientVars, serverVars, toServer, toClient>>

NoDump == [exact |-> FALSE, level |-> 0, upto |-> 0, lines |-> <<>>]

\* Both programs before main(); globals at their initial values.
Init ==
    /\ capp = "start" /\ client_fd = "unset" /\ listen_flag = FALSE
    /\ lpc = "none" /\ log_level = 0 /\ nlogs = 0 /\ sent = <<>>
    /\ spc = "start" /\ srvSock = "none" /\ shutdown_flag = FALSE
    /\ rpc = "none" /\ current_server_log_level = 0 /\ ncmds = 0
    /\ file = <<>> /\ shown = NoDump
    /\ toServer = <<>> /\ toClient = <<>>

-----------------------------------------------------------------------------
(* Logger.cpp, called by the application.                                  *)

\* InitializeLog(): socket(), SO_REUSEADDR, bind(8081), the server address,
\* then the listener.  A failed socket() or bind() leaves client_fd = -1; a
\* failed setsockopt() returns with no server address, so every later
\* sendto() fails as well: all three send nothing and start no listener.
InitializeLog ==
    /\ capp = "start"
    /\ capp' = "running"
    /\ \/ /\ client_fd' = "open" /\ listen_flag' = TRUE /\ lpc' = "recv"
       \/ /\ client_fd' = "invalid"
          /\ UNCHANGED <<listen_flag, lpc>>
    /\ UNCHANGED <<log_level, nlogs, sent, serverVars, toServer, toClient>>

SetLogLevel(level) ==
    /\ capp = "running"
    /\ log_level' = level
    /\ UNCHANGED <<capp, client_fd, listen_flag, lpc, nlogs, sent,
                   serverVars, toServer, toClient>>

\* Log(): below log_level it returns; otherwise it formats the line and,
\* if client_fd != -1, sends it to 127.0.0.1:8080.  sendto() succeeds
\* whether or not the server's socket has room: the kernel may drop the
\* datagram there, and nobody learns of it.
Log(level, word) ==
    /\ capp = "running" /\ nlogs < MaxLogs
    /\ nlogs' = nlogs + 1
    /\ IF level >= log_level /\ client_fd = "open"
         THEN LET m == [id |-> nlogs + 1, lvl |-> level, word |-> word] IN
              /\ sent' = Append(sent, m)
              /\ toServer' \in IF srvSock = "open"
                                THEN {Append(toServer, m), toServer}
                                ELSE {toServer}
         ELSE UNCHANGED <<sent, toServer>>
    /\ UNCHANGED <<capp, client_fd, listen_flag, lpc, log_level, serverVars,
                   toClient>>

\* ExitLog(): listen_flag = false, then join the listener.
ExitLogBegin ==
    /\ capp = "running"
    /\ capp' = "joining" /\ listen_flag' = FALSE
    /\ UNCHANGED <<client_fd, lpc, log_level, nlogs, sent, serverVars,
                   toServer, toClient>>

\* The join returns; close(client_fd) discards any queued command.
ExitLogEnd ==
    /\ capp = "joining" /\ lpc # "recv"
    /\ capp' = "exited"
    /\ client_fd' = IF client_fd = "open" THEN "closed" ELSE client_fd
    /\ toClient' = <<>>
    /\ UNCHANGED <<listen_flag, lpc, log_level, nlogs, sent, serverVars,
                   toServer>>

-----------------------------------------------------------------------------
(* listen_for_commands(): recvfrom() with a 1 s SO_RCVTIMEO.               *)

\* A command arrives: the level after '=' is taken if it is in range.
ListenerRecv ==
    /\ lpc = "recv" /\ toClient # <<>>
    /\ log_level' = IF Head(toClient) \in Levels THEN Head(toClient)
                                                ELSE log_level
    /\ toClient' = Tail(toClient)
    /\ UNCHANGED <<capp, client_fd, listen_flag, lpc, nlogs, sent, serverVars,
                   toServer>>

\* A listener whose recvfrom() never times out.
ListenerExitBlocking == FALSE

\* while (listen_flag) fails, after a datagram or a timeout.
ListenerExit ==
    /\ lpc = "recv" /\ ~listen_flag
    /\ lpc' = "exited"
    /\ UNCHANGED <<capp, client_fd, listen_flag, log_level, nlogs, sent,
                   serverVars, toServer, toClient>>

-----------------------------------------------------------------------------
(* LogServer.cpp main().                                                   *)

\* Truncate server_log.txt, socket(), bind(8080), start receive_thread; a
\* failed socket() or bind() exits.
ServerStart ==
    /\ spc = "start"
    /\ file' = <<>>
    /\ \/ /\ spc' = "menu" /\ srvSock' = "open" /\ rpc' = "recv"
       \/ /\ spc' = "failed"
          /\ UNCHANGED <<srvSock, rpc>>
    /\ UNCHANGED <<shutdown_flag, current_server_log_level, ncmds, shown,
                   clientVars, toServer, toClient>>

\* The lines of the file a dump prints, read in order.
DumpOf(exact, level) ==
    [exact |-> exact, level |-> level, upto |-> Len(file),
     lines |-> SelectSeq(file, LAMBDA m :
                  IF exact THEN get_log_level_from_string(m) = level
                           ELSE get_log_level_from_string(m) >= level)]

\* Option 1 taking the number without the range check.
SetLevelOptionUnchecked(level) ==
    /\ spc = "menu" /\ ncmds < MaxCmds
    /\ ncmds' = ncmds + 1
    /\ current_server_log_level' = level
    /\ \/ /\ spc' = "sleeping"
          /\ toClient' = IF client_fd = "open" THEN Append(toClient, level)
                                               ELSE toClient
       \/ /\ UNCHANGED <<spc, toClient>>
    /\ UNCHANGED <<srvSock, shutdown_flag, rpc, file, shown, clientVars,
                   toServer>>

\* Option 1: a number outside 0..3 is refused ("Invalid level.").  For one
\* inside, the server's level changes first; a failed socket() then breaks
\* out of the switch, back to the menu.  Else the command goes to
\* 127.0.0.1:8081, delivered if the client has that port bound, and main()
\* sleeps 5 s.
SetLevelOption(level) ==
    /\ spc = "menu" /\ ncmds < MaxCmds
    /\ level >= 0 /\ level <= 3
    /\ ncmds' = ncmds + 1
    /\ current_server_log_level' = level
    /\ \/ /\ spc' = "sleeping"
          /\ toClient' = IF client_fd = "open" THEN Append(toClient, level)
                                               ELSE toClient
       \/ /\ UNCHANGED <<spc, toClient>>
    /\ UNCHANGED <<srvSock, shutdown_flag, rpc, file, shown, clientVars,
                   toServer>>

\* After the sleep: dump_log_file(true).
DumpExact ==
    /\ spc = "sleeping"
    /\ shown' = DumpOf(TRUE, current_server_log_level)
    /\ spc' = "menu"
    /\ UNCHANGED <<srvSock, shutdown_flag, rpc, current_server_log_level,
                   ncmds, file, clientVars, toServer, toClient>>

\* Option 1 with a level that is not a number: std::stoi() throws, nothing
\* catches it, and the process aborts with its receive thread.
BadLevelOption ==
    /\ spc = "menu"
    /\ spc' = "aborted" /\ rpc' = "exited" /\ srvSock' = "closed"
    /\ toServer' = <<>>
    /\ UNCHANGED <<shutdown_flag, current_server_log_level, ncmds, file,
                   shown, clientVars, toClient>>

\* Option 2: dump_log_file(false).
DumpOption ==
    /\ spc = "menu"
    /\ shown' = DumpOf(FALSE, current_server_log_level)
    /\ UNCHANGED <<spc, srvSock, shutdown_flag, rpc, current_server_log_level,
                   ncmds, file, clientVars, toServer, toClient>>

\* Option 0: shutdown_flag = true; the loop ends.
ShutdownOption ==
    /\ spc = "menu"
    /\ shutdown_flag' = TRUE /\ spc' = "join"
    /\ UNCHANGED <<srvSock, rpc, current_server_log_level, ncmds, file, shown,
                   clientVars, toServer, toClient>>

\* receive_thread.join() returns; close(server_fd) drops what it holds.
ServerJoin ==
    /\ spc = "join" /\ rpc = "exited"
    /\ spc' = "done" /\ srvSock' = "closed" /\ toServer' = <<>>
    /\ UNCHANGED <<shutdown_flag, rpc, current_server_log_level, ncmds, file,
                   shown, clientVars, toClient>>

-----------------------------------------------------------------------------
(* receive_logs(): recvfrom() with a 1 s SO_RCVTIMEO.                      *)

\* A receive that writes the datagram but leaves it queued.
ReceiveLogRepeat ==
    /\ rpc = "recv" /\ toServer # <<>>
    /\ file' = Append(file, Head(toServer))
    /\ UNCHANGED <<spc, srvSock, shutdown_flag, rpc, current_server_log_level,
                   ncmds, shown, clientVars, toServer, toClient>>

\* A datagram arrives: log_message() opens server_log.txt for appending
\* and writes it; if the open fails it prints an error, and the datagram,
\* already taken from the socket, is lost.
ReceiveLog ==
    /\ rpc = "recv" /\ toServer # <<>>
    /\ file' \in {Append(file, Head(toServer)), file}
    /\ toServer' = Tail(toServer)
    /\ UNCHANGED <<spc, srvSock, shutdown_flag, rpc, current_server_log_level,
                   ncmds, shown, clientVars, toClient>>

\* while (!shutdown_flag) fails, after a datagram or a timeout.
ReceiveExit ==
    /\ rpc = "recv" /\ shutdown_flag
    /\ rpc' = "exited"
    /\ UNCHANGED <<spc, srvSock, shutdown_flag, current_server_log_level,
                   ncmds, file, shown, clientVars, toServer, toClient>>

-----------------------------------------------------------------------------

Next ==
    \/ InitializeLog \/ ExitLogBegin \/ ExitLogEnd
    \/ \E l \in MsgLevels : SetLogLevel(l)
    \/ \E l \in MsgLevels, w \in MsgWords : Log(l, w)
    \/ ListenerRecv \/ ListenerExit
    \/ ServerStart \/ DumpExact \/ BadLevelOption \/ DumpOption
    \/ ShutdownOption \/ ServerJoin
    \/ \E l \in CmdInputs : SetLevelOption(l)
    \/ ReceiveLog \/ ReceiveExit

\* The threads are scheduled by the kernel, and the 1 s receive timeouts
\* bring each loop back to its test.  The application's calls and the
\* operator's choices are the environment's and are not assumed.
Fairness ==
    /\ WF_vars(ExitLogEnd) /\ WF_vars(ListenerRecv) /\ WF_vars(ListenerExit)
    /\ WF_vars(ServerStart) /\ WF_vars(DumpExact) /\ WF_vars(ServerJoin)
    /\ WF_vars(ReceiveLog) /\ WF_vars(ReceiveExit)

Spec == Init /\ [][Next]_vars /\ Fairness

-----------------------------------------------------------------------------
(* Properties.                                                             *)

TypeOK ==
    /\ capp \in {"start", "running", "joining", "exited"}
    /\ client_fd \in {"unset", "invalid", "open", "closed"}
    /\ listen_flag \in BOOLEAN /\ lpc \in {"none", "recv", "exited"}
    /\ log_level \in Levels /\ nlogs \in 0 .. MaxLogs /\ sent \in Seq(Msgs)
    /\ spc \in {"start", "menu", "sleeping", "join", "done", "failed",
                "aborted"}
    /\ srvSock \in {"none", "open", "closed"} /\ shutdown_flag \in BOOLEAN
    /\ rpc \in {"none", "recv", "exited"}
    /\ current_server_log_level \in Levels /\ ncmds \in 0 .. MaxCmds
    /\ file \in Seq(Msgs) /\ toServer \in Seq(Msgs)
    /\ toClient \in Seq(Levels)
    /\ shown \in [exact : BOOLEAN, level : Levels, upto : Nat,
                  lines : Seq(Msgs)]

\* Lines may be lost (a full receive buffer, a failed open of the file),
\* but server_log.txt followed by the datagrams waiting on port 8080 holds
\* only lines Log() sent, each at most once and in the order they were
\* sent: one receive thread, which takes each datagram off the socket
\* before writing it, never repeats or reorders one.
LogFileInOrder ==
    LET log == file \o toServer IN
    /\ \A k \in 1 .. Len(log) : \E j \in 1 .. Len(sent) : sent[j] = log[k]
    /\ \A k \in 1 .. Len(log) - 1 : log[k].id < log[k + 1].id

\* A cumulative dump (option 2) at level L prints every line of the file
\* it read that was logged at L or above: the level parsed from a line is
\* never lower than the level Log() wrote into it.
CumulativeDumpComplete ==
    ~shown.exact =>
        \A i \in 1 .. shown.upto :
            file[i].lvl >= shown.level => \E j \in DOMAIN shown.lines :
                                              shown.lines[j] = file[i]

\* Every join returns: after ExitLog() clears listen_flag, and after
\* option 0 sets shutdown_flag, each loop sees the flag within a receive
\* timeout, whatever the other side sends or does not send.
JoinsReturn ==
    /\ capp = "joining" ~> capp = "exited"
    /\ shutdown_flag ~> spc = "done"

=============================================================================
