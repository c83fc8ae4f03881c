---------------------------- MODULE CommandSocket ----------------------------
(***************************************************************************)
(* Lab6 (src/Lab6/server.cpp, src/Lab6/client.cpp): the server listens on *)
(* the Unix stream socket /tmp/lab6, accepts one client, and sends it the *)
(* commands Pid, Sleep and Quit, reading one answer after each of the     *)
(* first two.  The client reads a command at a time and answers it.       *)
(*                                                                         *)
(* Each direction of the connection is a sequence of the tokens written;  *)
(* a read() takes everything queued, as a Unix stream socket returns it.  *)
(* Either process may be killed (Ctrl-C: neither installs a handler), at  *)
(* most MaxKills times in all.                                            *)
(***************************************************************************)
EXTENDS Naturals, Sequences

CONSTANT MaxKills

\* The server's end: returned, failed, killed, or killed by SIGPIPE.
ServerGone == {"done", "failed", "killed", "sigpipe"}
ClientGone == {"done", "failed", "killed", "sigpipe"}

VARIABLES
    spc,     \* where the server is
    cpc,     \* where the client is
    s2c,     \* bytes queued from the server to the client
    c2s,     \* bytes queued from the client to the server
    srvEnd,  \* the server's end of the connection: none, open, closed
    cliEnd,  \* the client's end: none (not connected), open, closed
    cbuf,    \* the client's buffer after its last read()
    kills    \* processes killed so far

vars == <<spc, cpc, s2c, c2s, srvEnd, cliEnd, cbuf, kills>>

Init ==
    /\ spc = "socket" /\ cpc = "socket"
    /\ s2c = <<>> /\ c2s = <<>>
    /\ srvEnd = "none" /\ cliEnd = "none"
    /\ cbuf = <<>> /\ kills = 0

-----------------------------------------------------------------------------
(* The server.                                                             *)

\* socket(), the address, unlink(SOCKET_PATH); bind(); listen(server_fd, 1).
\* Each failure prints and returns 1.
SrvSocket ==
    /\ spc = "socket"
    /\ spc' \in {"bind", "failed"}
    /\ UNCHANGED <<cpc, s2c, c2s, srvEnd, cliEnd, cbuf, kills>>

SrvBind ==
    /\ spc = "bind"
    /\ spc' \in {"listen", "failed"}
    /\ UNCHANGED <<cpc, s2c, c2s, srvEnd, cliEnd, cbuf, kills>>

SrvListen ==
    /\ spc = "listen"
    /\ spc' \in {"accept", "failed"}
    /\ UNCHANGED <<cpc, s2c, c2s, srvEnd, cliEnd, cbuf, kills>>

\* accept() blocks until a client has connected.  On failure the listening
\* socket is closed, and with it the connection still in the backlog.
Accept ==
    /\ spc = "accept" /\ cliEnd # "none"
    /\ \/ spc' = "writePid" /\ srvEnd' = "open"
       \/ spc' = "failed" /\ srvEnd' = "closed"
    /\ UNCHANGED <<cpc, s2c, c2s, cliEnd, cbuf, kills>>

\* write(): to a connection whose peer has closed it raises SIGPIPE, whose
\* default action kills the server.
SrvWrite(tok, next) ==
    IF cliEnd = "closed"
      THEN spc' = "sigpipe" /\ srvEnd' = "closed" /\ UNCHANGED s2c
      ELSE spc' = next /\ s2c' = Append(s2c, tok) /\ UNCHANGED srvEnd

\* A read() that does not return at end of stream.
SrvReadNoEof(next) ==
    /\ c2s # <<>>
    /\ c2s' = <<>>
    /\ spc' = next

\* read(): blocks until the client has written or closed; at end of stream
\* it returns 0 and the server goes on.
SrvRead(next) ==
    /\ c2s # <<>> \/ cliEnd = "closed"
    /\ c2s' = <<>>
    /\ spc' = next

WritePid ==
    /\ spc = "writePid" /\ SrvWrite("Pid", "readPid")
    /\ UNCHANGED <<cpc, c2s, cliEnd, cbuf, kills>>

\* The server does not wait for the answer to Pid.
ReadPidNoWait ==
    /\ spc = "readPid" /\ spc' = "writeSleep"
    /\ UNCHANGED <<cpc, s2c, c2s, srvEnd, cliEnd, cbuf, kills>>

ReadPid ==
    /\ spc = "readPid" /\ SrvRead("writeSleep")
    /\ UNCHANGED <<cpc, s2c, srvEnd, cliEnd, cbuf, kills>>

WriteSleep ==
    /\ spc = "writeSleep" /\ SrvWrite("Sleep", "readDone")
    /\ UNCHANGED <<cpc, c2s, cliEnd, cbuf, kills>>

ReadDone ==
    /\ spc = "readDone" /\ SrvRead("writeQuit")
    /\ UNCHANGED <<cpc, s2c, srvEnd, cliEnd, cbuf, kills>>

\* The server closes without sending Quit.
WriteQuitSkipped ==
    /\ spc = "writeQuit" /\ spc' = "close"
    /\ UNCHANGED <<cpc, s2c, c2s, srvEnd, cliEnd, cbuf, kills>>

WriteQuit ==
    /\ spc = "writeQuit" /\ SrvWrite("Quit", "close")
    /\ UNCHANGED <<cpc, c2s, cliEnd, cbuf, kills>>

\* close(client_fd), close(server_fd), unlink(SOCKET_PATH), return 0.
SrvClose ==
    /\ spc = "close"
    /\ spc' = "done" /\ srvEnd' = "closed"
    /\ UNCHANGED <<cpc, s2c, c2s, cliEnd, cbuf, kills>>

-----------------------------------------------------------------------------
(* The client.                                                             *)

CliSocket ==
    /\ cpc = "socket"
    /\ cpc' \in {"connect", "failed"}
    /\ UNCHANGED <<spc, s2c, c2s, srvEnd, cliEnd, cbuf, kills>>

\* connect() succeeds only while the server listens and has not accepted:
\* before bind() the path is missing or stale, after a failure or a kill
\* nobody listens.  On failure the client prints and returns 1.
Connect ==
    /\ cpc = "connect"
    /\ IF spc = "accept"
         THEN cpc' = "read" /\ cliEnd' = "open"
         ELSE cpc' = "failed" /\ UNCHANGED cliEnd
    /\ UNCHANGED <<spc, s2c, c2s, srvEnd, cbuf, kills>>

\* memset(); read(): everything queued, or nothing once the server's end
\* is closed (0 at end of stream, -1 after a reset).
CliRead ==
    /\ cpc = "read"
    /\ s2c # <<>> \/ srvEnd = "closed"
    /\ cbuf' = s2c /\ s2c' = <<>>
    /\ cpc' = "dispatch"
    /\ UNCHANGED <<spc, c2s, srvEnd, cliEnd, kills>>

\* The client's write(): SIGPIPE kills it once the server's end is closed.
CliWrite(tok) ==
    IF srvEnd = "closed"
      THEN cpc' = "sigpipe" /\ cliEnd' = "closed" /\ UNCHANGED c2s
      ELSE cpc' = "read" /\ c2s' = Append(c2s, tok) /\ UNCHANGED cliEnd

\* The strcmp() chain: answer Pid with the pid, Sleep with Done after
\* sleep(5), break on Quit; anything else (an empty buffer at end of
\* stream included) goes round the loop again.
Dispatch ==
    /\ cpc = "dispatch"
    /\ CASE cbuf = <<"Pid">>   -> CliWrite("PidReply")
         [] cbuf = <<"Sleep">> -> CliWrite("Done")
         [] cbuf = <<"Quit">>  -> cpc' = "close" /\ UNCHANGED <<c2s, cliEnd>>
         [] OTHER              -> cpc' = "read" /\ UNCHANGED <<c2s, cliEnd>>
    /\ UNCHANGED <<spc, s2c, srvEnd, cbuf, kills>>

\* close(client_fd); return 0.
CliClose ==
    /\ cpc = "close"
    /\ cpc' = "done" /\ cliEnd' = "closed"
    /\ UNCHANGED <<spc, s2c, c2s, srvEnd, cbuf, kills>>

-----------------------------------------------------------------------------
(* Faults: Ctrl-C, or any kill, of either process.                         *)

KillServer ==
    /\ spc \notin ServerGone /\ kills < MaxKills
    /\ spc' = "killed" /\ srvEnd' = "closed"
    /\ kills' = kills + 1
    /\ UNCHANGED <<cpc, s2c, c2s, cliEnd, cbuf>>

KillClient ==
    /\ cpc \notin ClientGone /\ kills < MaxKills
    /\ cpc' = "killed"
    /\ cliEnd' = IF cliEnd = "none" THEN "none" ELSE "closed"
    /\ kills' = kills + 1
    /\ UNCHANGED <<spc, s2c, c2s, srvEnd, cbuf>>

Server ==
    \/ SrvSocket \/ SrvBind \/ SrvListen \/ Accept
    \/ WritePid \/ ReadPid \/ WriteSleep \/ ReadDone \/ WriteQuit \/ SrvClose

Client == CliSocket \/ Connect \/ CliRead \/ Dispatch \/ CliClose

Next == Server \/ Client \/ KillServer \/ KillClient

\* Both processes are scheduled; kills are not bound to happen.  Each
\* process's steps are told apart by its pc, so fairness of the process is
\* fairness of each step.
Fairness == WF_vars(Server) /\ WF_vars(Client)

Spec == Init /\ [][Next]_vars /\ Fairness

-----------------------------------------------------------------------------
(* Properties.                                                             *)

TypeOK ==
    /\ spc \in {"socket", "bind", "listen", "accept", "writePid", "readPid",
               "writeSleep", "readDone", "writeQuit", "close"} \cup ServerGone
    /\ cpc \in {"socket", "connect", "read", "dispatch", "close"} \cup ClientGone
    /\ s2c \in Seq({"Pid", "Sleep", "Quit"})
    /\ c2s \in Seq({"PidReply", "Done"})
    /\ srvEnd \in {"none", "open", "closed"} /\ cliEnd \in {"none", "open", "closed"}
    /\ cbuf \in Seq({"Pid", "Sleep", "Quit"})
    /\ kills \in 0 .. MaxKills

\* Nothing frames the commands: the client's strcmp() needs each read() to
\* return one command whole.  The server writes the next command only after
\* it has read the answer to the last, so a read never holds two.
OneCommandPerRead == Len(cbuf) <= 1

\* Once a client has connected, the server ends (returns, or dies of
\* SIGPIPE) whatever the client does: killed at any point, its reads see
\* end of stream.  Only a client that never connected leaves it blocked in
\* accept() for ever.
ServerReturns == <>(spc \in ServerGone) \/ [](cliEnd = "none")

\* The client ends unless the server failed or was killed: then its read()
\* returns 0 at once, the buffer matches no command, and it loops for ever.
ClientReturns == <>(cpc \in ClientGone) \/ <>(spc \in {"failed", "killed"})

=============================================================================
