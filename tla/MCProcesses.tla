----------------------------- MODULE MCProcesses -----------------------------
(***************************************************************************)
(* The fork-and-wait programs checked in one model: a behaviour runs      *)
(* Assignment1 Part4 (SignalWorkers: three workers, sigsuspend()), the    *)
(* Part2 or Part3 test harness with one worker (WorkerTest), or FinalExam1 *)
(* (SemMutex: five children under a System V semaphore), Lab5b           *)
(* (SignalMonitor: a monitor started and stopped by signals) or Lab6      *)
(* (CommandSocket: a server and a client on a Unix socket).  Init chooses *)
(* which, and the other modules' variables keep their initial values.  The *)
(* space is the sum of the programs', and each module's fairness applies  *)
(* only to the behaviours that run it: prog never changes, so an          *)
(* implication from it applies a module's fairness to exactly its own     *)
(* behaviours.                                                             *)
(***************************************************************************)
EXTENDS Naturals, Sequences

CONSTANTS EmptyFiles, FileChunks, MaxReads, Harnesses, MaxCrashes, Sigs,
          MaxSends, MaxKills

Programs == {"Part4", "FinalExam1", "Lab5b", "Lab6"} \cup Harnesses

VARIABLES
    prog,
    \* Part4 (SignalWorkers)
    p4MainPc, p4Nforked, p4LoopN, p4ProcMask, p4Pending, p4Frames,
    p4MemWarned, p4Completed, p4Wpc, p4Sent, p4Out,
    \* Part2 and Part3 (WorkerTest)
    wtMainPc, wtCount, wtPending, wtFrames, wtWpc, wtSize, wtNread,
    wtMemHigh, wtUsr1Sent, wtSent, wtWexit, wtRaced, wtHarness, wtReceived,
    wtResult,
    \* FinalExam1 (SemMutex)
    fePpc, feSemval, feNforked, feNwaited, feCpc, feCrashes,
    \* Lab5b (SignalMonitor)
    smMpc, smIsRunning, smPending, smFrames, smLastSent, smNsent, smLost,
    \* Lab6 (CommandSocket)
    csSpc, csCpc, csS2c, csC2s, csSrvEnd, csCliEnd, csCbuf, csKills

P4 == INSTANCE SignalWorkers
        WITH mainPc <- p4MainPc, nforked <- p4Nforked, loopN <- p4LoopN,
             procMask <- p4ProcMask, pending <- p4Pending, frames <- p4Frames,
             memWarned <- p4MemWarned, completed <- p4Completed, wpc <- p4Wpc,
             sent <- p4Sent, out <- p4Out

WT == INSTANCE WorkerTest
        WITH mainPc <- wtMainPc, count <- wtCount, pending <- wtPending,
             frames <- wtFrames, wpc <- wtWpc, size <- wtSize,
             nread <- wtNread, memHigh <- wtMemHigh, usr1Sent <- wtUsr1Sent,
             sent <- wtSent, wexit <- wtWexit, raced <- wtRaced,
             harness <- wtHarness, received <- wtReceived, result <- wtResult

FE == INSTANCE SemMutex
        WITH ppc <- fePpc, semval <- feSemval, nforked <- feNforked,
             nwaited <- feNwaited, cpc <- feCpc, crashes <- feCrashes

SM == INSTANCE SignalMonitor
        WITH mpc <- smMpc, isRunning <- smIsRunning, pending <- smPending,
             frames <- smFrames, lastSent <- smLastSent, nsent <- smNsent,
             lost <- smLost

CS == INSTANCE CommandSocket
        WITH spc <- csSpc, cpc <- csCpc, s2c <- csS2c, c2s <- csC2s,
             srvEnd <- csSrvEnd, cliEnd <- csCliEnd, cbuf <- csCbuf,
             kills <- csKills

part4Vars == <<p4MainPc, p4Nforked, p4LoopN, p4ProcMask, p4Pending, p4Frames,
               p4MemWarned, p4Completed, p4Wpc, p4Sent, p4Out>>

part3Vars == <<wtMainPc, wtCount, wtPending, wtFrames, wtWpc, wtSize,
               wtNread, wtMemHigh, wtUsr1Sent, wtSent, wtWexit, wtRaced,
               wtHarness, wtReceived, wtResult>>

finalExamVars == <<fePpc, feSemval, feNforked, feNwaited, feCpc, feCrashes>>

lab5bVars == <<smMpc, smIsRunning, smPending, smFrames, smLastSent, smNsent,
               smLost>>

lab6Vars == <<csSpc, csCpc, csS2c, csC2s, csSrvEnd, csCliEnd, csCbuf, csKills>>

vars == <<prog, part4Vars, part3Vars, finalExamVars, lab5bVars, lab6Vars>>

Init ==
    /\ prog \in Programs /\ P4!Init /\ WT!Init /\ FE!Init /\ SM!Init /\ CS!Init
    /\ prog \in Harnesses => wtHarness = prog

\* The variables of the programs other than prog's.
others == <<lab5bVars, lab6Vars>>
lab5bOthers == <<prog, part4Vars, part3Vars, finalExamVars, lab6Vars>>
lab6Others == <<prog, part4Vars, part3Vars, finalExamVars, lab5bVars>>

Next ==
    \/ prog = "Part4" /\ P4!Next
       /\ UNCHANGED <<prog, part3Vars, finalExamVars, others>>
    \/ prog \in Harnesses /\ WT!Next
       /\ UNCHANGED <<prog, part4Vars, finalExamVars, others>>
    \/ prog = "FinalExam1" /\ FE!Next
       /\ UNCHANGED <<prog, part4Vars, part3Vars, others>>
    \/ prog = "Lab5b" /\ SM!Next /\ UNCHANGED lab5bOthers
    \/ prog = "Lab6" /\ CS!Next /\ UNCHANGED lab6Others

Spec ==
    /\ Init /\ [][Next]_vars
    /\ prog = "Part4" => P4!Fairness
    /\ prog \in Harnesses => WT!Fairness
    /\ prog = "FinalExam1" => FE!Fairness
    /\ WF_vars(prog = "Lab5b" /\ SM!Thread /\ UNCHANGED lab5bOthers)
    /\ WF_vars(prog = "Lab5b" /\ (\E s \in Sigs : SM!Deliver(s))
                                /\ UNCHANGED lab5bOthers)
    /\ WF_vars(prog = "Lab6" /\ CS!Server /\ UNCHANGED lab6Others)
    /\ WF_vars(prog = "Lab6" /\ CS!Client /\ UNCHANGED lab6Others)

-----------------------------------------------------------------------------

\* Every module's variables keep their types.
TypeOK ==
    /\ prog \in Programs
    /\ P4!TypeOK /\ WT!TypeOK /\ FE!TypeOK /\ SM!TypeOK /\ CS!TypeOK

\* Part4: the handler's printf() never runs while another printf() of the
\* parent is under way (see SignalWorkers).
NoReentrantStdio == P4!NoReentrantStdio

\* Part4: worker 3's memory warning, once sent, is printed by the parent.
WarningDelivered == prog = "Part4" => P4!WarningDelivered

\* Part2: the test passes exactly when the worker ran to exit(0) (see
\* WorkerTest).
ReportsCompletion == WT!ReportsCompletion

\* Part3: the parent leaves its pause() loop only after the worker's
\* SIGUSR2 (see WorkerTest).
LeavesLoopOnlyAfterCompletion == WT!LeavesLoopOnlyAfterCompletion

\* Part2 and Part3: the parent returns from main() unless a signal landed
\* in Part3's test/pause() window or in an interrupted increment, or the
\* worker failed or never warned (see WorkerTest).
ParentReturns == prog \in Harnesses => WT!ParentReturns

\* FinalExam1: the semaphore's value, the children inside and the children
\* killed inside add up to 1 (see SemMutex).
SemaphoreAccounting == FE!SemaphoreAccounting

\* FinalExam1: the parent returns from main() unless a child was killed in
\* its critical section (see SemMutex).
AllReaped == prog = "FinalExam1" => FE!ParentReturns

\* Lab5b: if the last signal sent is SIGUSR2, the monitor ends, unless the
\* stop landed before main() saw the start or under an unfinished SIGUSR1
\* handler (see SignalMonitor).
StopHonoured == prog = "Lab5b" => SM!StopHonoured

\* Lab6: every read() of the client returns at most one command (see
\* CommandSocket).
OneCommandPerRead == CS!OneCommandPerRead

\* Lab6: once a client has connected, the server ends whatever the client
\* does (see CommandSocket).
ServerReturns == prog = "Lab6" => CS!ServerReturns

\* Lab6: the client ends unless the server failed or was killed (see
\* CommandSocket).
ClientReturns == prog = "Lab6" => CS!ClientReturns

=============================================================================
