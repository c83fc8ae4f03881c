----------------------------- MODULE WorkerTest -----------------------------
(***************************************************************************)
(* Assignment1's worker_process (src/Assignment1/Part3/worker_process.c)  *)
(* under the two test harnesses that fork it and catch its memory warning *)
(* (SIGUSR1) and its completion (SIGUSR2) with an SA_SIGINFO handler:     *)
(*  - Part3 (Part3/test_worker_main.c) counts the signals and waits with   *)
(*        while (dhsb_signals_received < 2) pause();                       *)
(*    then reaps the worker;                                               *)
(*  - Part2 (Part2/test_worker_main.c) creates a 60 MB file, sets a flag   *)
(*    per signal, waits in waitpid() (retried on EINTR), and fails the     *)
(*    test unless the completion flag is set.                              *)
(*                                                                         *)
(* The handler is installed with an empty sa_mask, so while it handles    *)
(* one signal only that signal is blocked: the other one can interrupt    *)
(* it, between its load and its store of the counter as well.  The        *)
(* worker allocates 55 MB before its first VmRSS check, so every check    *)
(* that reads /proc/self/status finds more than 50000 kB.                 *)
(***************************************************************************)
EXTENDS Naturals, Sequences

CONSTANTS
    FileChunks,   \* possible sizes of worker1.bin, in 4 kB reads
    MaxReads,     \* reads of the loop the model follows
    Harnesses     \* the test harnesses driving the worker

Sigs == {"USR1", "USR2"}

ASSUME FileChunks \subseteq Nat /\ MaxReads \in Nat
ASSUME Harnesses \subseteq {"Part2", "Part3"}

VARIABLES
    mainPc,     \* where the parent's main() is
    count,      \* dhsb_signals_received
    pending,    \* signals sent to the parent and not yet delivered
    frames,     \* active handler invocations: signal, pc, loaded counter
    wpc,        \* where the worker is
    size,       \* chunks in worker1.bin
    nread,      \* chunks the worker has read
    memHigh,    \* mem_usage > 50000: a VmRSS line has been read
    usr1Sent,   \* sigusr1_already_sent
    sent,       \* signals the worker has sent (kill), in order
    wexit,      \* the worker's exit: "none", "fail" (exit(1)) or "ok"
    raced,      \* history: a signal was handled where it could be lost
    harness,    \* which test harness is the parent
    received,   \* Part2: the signals whose sigusrN_received flag is set
    result      \* Part2: the exit status main() returns

vars == <<mainPc, count, pending, frames, wpc, size, nread, memHigh,
          usr1Sent, sent, wexit, raced, harness, received, result>>

part2Vars == <<harness, received, result>>

workerVars == <<wpc, size, nread, memHigh, usr1Sent, wexit>>

Init ==
    /\ mainPc = "fork" /\ count = 0
    /\ pending = {} /\ frames = <<>>
    /\ harness \in Harnesses /\ received = {} /\ result = "none"
    /\ wpc = "none" /\ nread = 0
    \* Part2 runs the worker on the 60 MB file it has just written.
    /\ size \in IF harness = "Part2" THEN {n \in FileChunks : n > 0}
                                     ELSE FileChunks
    /\ memHigh = FALSE /\ usr1Sent = FALSE
    /\ sent = <<>> /\ wexit = "none" /\ raced = FALSE

-----------------------------------------------------------------------------
(* The worker.                                                             *)

\* kill(parent_pid, s): a standard signal already pending is not queued
\* again.
Kill(s) ==
    /\ pending' = pending \cup {s}
    /\ sent' = Append(sent, s)

Exit(how) == wpc' = "exited" /\ wexit' = how

\* open(filename, O_RDONLY); on failure exit(1).
Open ==
    /\ wpc = "open"
    /\ \/ Exit("fail")
       \/ wpc' = "alloc" /\ UNCHANGED wexit
    /\ UNCHANGED <<mainPc, count, pending, frames, size, nread, memHigh,
                   usr1Sent, sent, raced>>
    /\ UNCHANGED part2Vars

\* malloc(55 MB) and memset; on failure close and exit(1).
AllocInitial ==
    /\ wpc = "alloc"
    /\ \/ Exit("fail")
       \/ wpc' = "check" /\ UNCHANGED wexit
    /\ UNCHANGED <<mainPc, count, pending, frames, size, nread, memHigh,
                   usr1Sent, sent, raced>>
    /\ UNCHANGED part2Vars

\* The VmRSS check right after the allocation: if /proc/self/status
\* opens, VmRSS is over 50000 kB and SIGUSR1 is sent; if it does not,
\* the worker carries on without warning.
InitialCheck ==
    /\ wpc = "check"
    /\ \/ /\ memHigh' = TRUE /\ Kill("USR1") /\ usr1Sent' = TRUE
       \/ UNCHANGED <<memHigh, pending, sent, usr1Sent>>
    /\ wpc' = "alloc2"
    /\ UNCHANGED <<mainPc, count, frames, size, nread, wexit, raced>>
    /\ UNCHANGED part2Vars

\* malloc(60 MB) for the file data; on failure free, close and exit(1).
AllocData ==
    /\ wpc = "alloc2"
    /\ \/ Exit("fail")
       \/ wpc' = "read" /\ UNCHANGED wexit
    /\ UNCHANGED <<mainPc, count, pending, frames, size, nread, memHigh,
                   usr1Sent, sent, raced>>
    /\ UNCHANGED part2Vars

\* read(fd, buffer, 4096): another chunk, or 0 at the end of the file.
Read ==
    /\ wpc = "read"
    /\ IF nread < size
         THEN nread < MaxReads /\ wpc' = "loopCheck" /\ nread' = nread + 1
         ELSE wpc' = "complete" /\ UNCHANGED nread
    /\ UNCHANGED <<mainPc, count, pending, frames, size, memHigh, usr1Sent,
                   sent, wexit, raced>>
    /\ UNCHANGED part2Vars

\* The loop's check without the sigusr1_already_sent test.
LoopCheckRepeatWarning ==
    /\ wpc = "loopCheck"
    /\ \/ Exit("fail") /\ UNCHANGED <<memHigh, pending, sent, usr1Sent>>
       \/ /\ memHigh' = TRUE /\ wpc' = "read" /\ UNCHANGED wexit
          /\ Kill("USR1") /\ usr1Sent' = TRUE
    /\ UNCHANGED <<mainPc, count, frames, size, nread, raced>>
    /\ UNCHANGED part2Vars

\* The VmRSS check in the loop: if /proc/self/status does not open, exit(1);
\* otherwise warn unless SIGUSR1 was already sent.
LoopCheck ==
    /\ wpc = "loopCheck"
    /\ \/ Exit("fail") /\ UNCHANGED <<memHigh, pending, sent, usr1Sent>>
       \/ /\ memHigh' = TRUE /\ wpc' = "read" /\ UNCHANGED wexit
          /\ IF ~usr1Sent
               THEN Kill("USR1") /\ usr1Sent' = TRUE
               ELSE UNCHANGED <<pending, sent, usr1Sent>>
    /\ UNCHANGED <<mainPc, count, frames, size, nread, raced>>
    /\ UNCHANGED part2Vars

\* exit(0) placed before the kill(parent_pid, SIGUSR2).
CompleteExitFirst ==
    /\ wpc = "complete"
    /\ Exit("ok")
    /\ UNCHANGED <<mainPc, count, pending, frames, size, nread, memHigh,
                   usr1Sent, sent, raced>>
    /\ UNCHANGED part2Vars

\* close, free, kill(parent_pid, SIGUSR2), exit(0).
Complete ==
    /\ wpc = "complete"
    /\ Kill("USR2")
    /\ Exit("ok")
    /\ UNCHANGED <<mainPc, count, frames, size, nread, memHigh, usr1Sent,
                   raced>>
    /\ UNCHANGED part2Vars

-----------------------------------------------------------------------------
(* The handler.                                                            *)

Top == frames[Len(frames)]
SetTop(f) == frames' = [frames EXCEPT ![Len(frames)] = f]
Pop == frames' = SubSeq(frames, 1, Len(frames) - 1)

\* The signals the kernel holds back: each signal while its own handler
\* runs (no SA_NODEFER); sa_mask adds none, and main() blocks none.
Blocked == {frames[k].sig : k \in 1..Len(frames)}

\* A pending, unblocked signal interrupts whatever the parent is doing.
\* If main() is inside pause(), pause() returns once the handler is done.
\* The history variable records a delivery between the loop's test and
\* pause(), and one between the load and the store of an interrupted
\* increment.
Deliver(s) ==
    /\ s \in pending /\ s \notin Blocked
    /\ mainPc \notin {"done", "failed"}
    /\ frames' = Append(frames, [sig |-> s, pc |-> "print", tmp |-> 0])
    /\ pending' = pending \ {s}
    /\ mainPc' = IF mainPc = "pause" THEN "test" ELSE mainPc
    /\ raced' = (raced \/ mainPc = "call"
                       \/ (frames # <<>> /\ Top.pc = "store"))
    /\ UNCHANGED <<count, sent>> /\ UNCHANGED workerVars
    /\ UNCHANGED part2Vars

\* printf() of the branch for the signal; then Part3 counts it and Part2
\* sets its flag.
HandlerPrint ==
    /\ frames # <<>> /\ Top.pc = "print"
    /\ SetTop([Top EXCEPT !.pc = IF harness = "Part3" THEN "load" ELSE "flag"])
    /\ UNCHANGED <<mainPc, count, pending, sent, raced>> /\ UNCHANGED workerVars
    /\ UNCHANGED part2Vars

\* dhsb_signals_received++ is a load, an add and a store of a volatile.
HandlerLoad ==
    /\ frames # <<>> /\ Top.pc = "load"
    /\ SetTop([Top EXCEPT !.pc = "store", !.tmp = count])
    /\ UNCHANGED <<mainPc, count, pending, sent, raced>> /\ UNCHANGED workerVars
    /\ UNCHANGED part2Vars

HandlerStore ==
    /\ frames # <<>> /\ Top.pc = "store"
    /\ count' = Top.tmp + 1
    /\ Pop
    /\ UNCHANGED <<mainPc, pending, sent, raced>> /\ UNCHANGED workerVars
    /\ UNCHANGED part2Vars

\* Part2's handler with the two flags swapped.
HandlerFlagSwapped ==
    /\ frames # <<>> /\ Top.pc = "flag"
    /\ received' = received \cup (Sigs \ {Top.sig})
    /\ Pop
    /\ UNCHANGED <<mainPc, count, pending, sent, raced, harness, result>>
    /\ UNCHANGED workerVars

\* Part2: sigusr1_received = 1 or sigusr2_received = 1.
HandlerFlag ==
    /\ frames # <<>> /\ Top.pc = "flag"
    /\ received' = received \cup {Top.sig}
    /\ Pop
    /\ UNCHANGED <<mainPc, count, pending, sent, raced, harness, result>>
    /\ UNCHANGED workerVars

-----------------------------------------------------------------------------
(* The parent's main().                                                    *)

MainStep == frames = <<>>

\* fork(), after the handlers are installed (and, in Part2, the file is
\* written): if the file or the fork fails, main() exits with a failure.
Fork ==
    /\ MainStep /\ mainPc = "fork"
    /\ \/ mainPc' = "failed" /\ UNCHANGED wpc
       \/ /\ mainPc' = IF harness = "Part3" THEN "test" ELSE "waitpid"
          /\ wpc' = "open"
    /\ UNCHANGED <<count, pending, frames, size, nread, memHigh, usr1Sent,
                   sent, wexit, raced>>
    /\ UNCHANGED part2Vars

\* while (dhsb_signals_received < 2): the test.
Test ==
    /\ MainStep /\ mainPc = "test"
    /\ mainPc' = IF count < 2 THEN "call" ELSE "wait"
    /\ UNCHANGED <<count, pending, frames, sent, raced>> /\ UNCHANGED workerVars
    /\ UNCHANGED part2Vars

\* The call of pause(): the parent sleeps until a handler has run.
CallPause ==
    /\ MainStep /\ mainPc = "call"
    /\ mainPc' = "pause"
    /\ UNCHANGED <<count, pending, frames, sent, raced>> /\ UNCHANGED workerVars
    /\ UNCHANGED part2Vars

\* waitpid(pid, NULL, 0) returns once the worker has exited; then
\* printf("Done waiting") and return 0.
WaitChild ==
    /\ MainStep /\ mainPc = "wait"
    /\ wpc = "exited"
    /\ mainPc' = "done"
    /\ UNCHANGED <<count, pending, frames, sent, raced>> /\ UNCHANGED workerVars
    /\ UNCHANGED part2Vars

\* Part2: waitpid() is retried while a handler interrupts it, and returns
\* once the worker has exited; a signal the worker sent before exiting is
\* delivered on that return to user mode, before main() goes on.  The test
\* fails unless sigusr2_received is set.
WaitPid ==
    /\ MainStep /\ mainPc = "waitpid"
    /\ wpc = "exited" /\ pending = {}
    /\ mainPc' = "done"
    /\ result' = IF "USR2" \in received THEN "success" ELSE "failure"
    /\ UNCHANGED <<count, pending, frames, sent, raced, harness, received>>
    /\ UNCHANGED workerVars

Next ==
    \/ Fork \/ Test \/ CallPause \/ WaitChild \/ WaitPid
    \/ \E s \in Sigs : Deliver(s)
    \/ HandlerPrint \/ HandlerLoad \/ HandlerStore \/ HandlerFlag
    \/ Open \/ AllocInitial \/ InitialCheck \/ AllocData \/ Read
    \/ LoopCheck \/ Complete

\* Both processes are scheduled, and a pending signal that is not blocked
\* stays deliverable until it is delivered: the handler blocks only its
\* own signal, and each signal is sent once.
Fairness ==
    /\ WF_vars(Fork) /\ WF_vars(Test) /\ WF_vars(CallPause)
    /\ WF_vars(WaitChild) /\ WF_vars(WaitPid)
    /\ \A s \in Sigs : WF_vars(Deliver(s))
    /\ WF_vars(HandlerPrint) /\ WF_vars(HandlerLoad) /\ WF_vars(HandlerStore)
    /\ WF_vars(HandlerFlag)
    /\ WF_vars(Open) /\ WF_vars(AllocInitial) /\ WF_vars(InitialCheck)
    /\ WF_vars(AllocData) /\ WF_vars(Read) /\ WF_vars(LoopCheck)
    /\ WF_vars(Complete)

Spec == Init /\ [][Next]_vars /\ Fairness

-----------------------------------------------------------------------------
(* Properties.                                                             *)

MainPcs == {"fork", "test", "call", "pause", "wait", "waitpid", "done",
            "failed"}
WorkerPcs == {"none", "open", "alloc", "check", "alloc2", "read",
              "loopCheck", "complete", "exited"}

TypeOK ==
    /\ mainPc \in MainPcs /\ count \in 0..2
    /\ pending \subseteq Sigs
    /\ \A k \in 1..Len(frames) :
          frames[k] \in [sig : Sigs, pc : {"print", "load", "store", "flag"}, tmp : 0..2]
    /\ wpc \in WorkerPcs /\ size \in FileChunks /\ nread \in 0..MaxReads
    /\ memHigh \in BOOLEAN /\ usr1Sent \in BOOLEAN
    /\ sent \in Seq(Sigs) /\ wexit \in {"none", "fail", "ok"}
    /\ raced \in BOOLEAN /\ harness \in Harnesses /\ received \subseteq Sigs
    /\ result \in {"none", "success", "failure"}

\* The parent leaves its wait loop, to reap the worker, only after the
\* worker has sent its completion signal: of the two signals the handler
\* counts, only one can be a SIGUSR1, because the worker's
\* sigusr1_already_sent flag lets it warn once.
LeavesLoopOnlyAfterCompletion ==
    harness = "Part3" /\ mainPc \in {"wait", "done"} => \E k \in 1..Len(sent) : sent[k] = "USR2"

\* Part2's verdict is right: the test passes exactly when the worker ran
\* to its exit(0).  A SIGUSR2 sent just before the exit is not missed by
\* main()'s check after waitpid(), and a worker that failed is reported.
ReportsCompletion ==
    harness = "Part2" /\ mainPc = "done" => (result = "success" <=> wexit = "ok")

\* The parent returns from main(), unless one of exactly these happened: a
\* signal was handled between the loop's test and pause() or inside an
\* interrupted increment, the worker left through one of its exit(1)
\* paths, or it never read VmRSS (no status file and an empty input) and
\* so never warned.
ParentReturns ==
    \/ <>(mainPc \in {"done", "failed"})
    \/ <>(raced \/ wexit = "fail" \/ (wexit = "ok" /\ ~memHigh))

\* The harness's comment: the parent waits "for 2 signals from worker".  A
\* worker that read VmRSS over the limit and ran to exit(0) has sent both,
\* SIGUSR1 and SIGUSR2, so the parent leaves its pause() loop, reaps the
\* worker and returns.
CountsBothSignals ==
    (harness = "Part3" /\ wexit = "ok" /\ memHigh) ~> (mainPc = "done")

=============================================================================
