---------------------------- MODULE SignalWorkers ----------------------------
(***************************************************************************)
(* Assignment1 Part4: the parent forks three worker_process children with *)
(* SIGUSR1 and SIGUSR2 blocked, unblocks them, and then waits with         *)
(* sigsuspend() for three flags in turn: worker 3's memory warning        *)
(* (SIGUSR1), worker 1's completion and worker 2's completion (SIGUSR2).  *)
(* The SA_SIGINFO handler finds the sender by si_pid, prints, sets the    *)
(* flag and logs.  Then the parent waits for the three children and       *)
(* prints that it is done (src/Assignment1/Part4/parent_main.c,           *)
(* worker_process.c).                                                      *)
(*                                                                         *)
(* A standard signal is pending at most once: a second SIGUSR2 sent while *)
(* one is pending is lost, and the pending one keeps the first sender's   *)
(* si_pid.  Handlers run on the parent's only thread, so the parent's own *)
(* steps wait for the handler frames above them to return.                *)
(***************************************************************************)
EXTENDS Naturals, Sequences, SequencesExt, FiniteSets

CONSTANT EmptyFiles   \* workers whose file size was entered as 0 MB

Workers == {1, 2, 3}
Sigs    == {"USR1", "USR2"}

ASSUME EmptyFiles \subseteq Workers

\* worker_process: the MB each worker allocates and touches, and the VmRSS
\* check (kB) made after each read of the file.
AllocMB == [w \in Workers |-> CASE w = 1 -> 5 [] w = 2 -> 40 [] w = 3 -> 120]
Warns(w) == w \notin EmptyFiles /\ AllocMB[w] * 1024 > 50000

\* A handler mask left empty: only the signal being handled is blocked.
HandlerMaskEmpty == {}

\* dhsb_setup_signals(): blocked while the handler runs.
HandlerMask == {"USR1", "USR2"}

\* main(): sigsuspend()'s mask is everything but SIGUSR1, SIGUSR2, SIGCHLD.
SuspendMask == Sigs \ {"USR1", "USR2"}

VARIABLES
    mainPc,     \* where the parent's main() is
    nforked,    \* children forked so far
    loopN,      \* which of the three sigsuspend() loops main() is in
    procMask,   \* the parent's signal mask (sigprocmask)
    pending,    \* pending signal -> si_pid of its first sender, 0 if none
    frames,     \* the handler invocations active on the parent's stack
    memWarned,  \* memory_warned_worker_3
    completed,  \* worker_1/2/3_completed
    wpc,        \* where each worker is
    sent,       \* signals each worker has sent, <<signal, worker>>
    out         \* what the parent has printed

vars == <<mainPc, nforked, loopN, procMask, pending, frames, memWarned,
          completed, wpc, sent, out>>

\* The flag the n-th waiting loop of main() tests.
Flag(n) == CASE n = 1 -> memWarned [] n = 2 -> completed[1] [] n = 3 -> completed[2]

\* Signals the kernel will not deliver now.
Blocked ==
    (IF mainPc = "susp" THEN SuspendMask ELSE procMask)
    \cup UNION {HandlerMask \cup {f.sig} : f \in Range(frames)}

Init ==
    /\ mainPc = "fork" /\ nforked = 0 /\ loopN = 1
    /\ procMask = Sigs
    /\ pending = [s \in Sigs |-> 0]
    /\ frames = <<>>
    /\ memWarned = FALSE
    /\ completed = [w \in Workers |-> FALSE]
    /\ wpc = [w \in Workers |-> "none"]
    /\ sent = {}
    /\ out = <<>>

-----------------------------------------------------------------------------
(* The workers.                                                            *)

\* kill(parent_pid, s): lost if s is already pending.
Send(w, s) ==
    /\ pending' = IF pending[s] = 0 THEN [pending EXCEPT ![s] = w] ELSE pending
    /\ sent' = sent \cup {<<s, w>>}

\* The read loop: after the first read the VmRSS check warns the parent
\* once if it is over 50000 kB; an empty file is never checked.
WorkerRun(w) ==
    /\ wpc[w] = "run"
    /\ IF Warns(w) THEN Send(w, "USR1") ELSE UNCHANGED <<pending, sent>>
    /\ wpc' = [wpc EXCEPT ![w] = "complete"]
    /\ UNCHANGED <<mainPc, nforked, loopN, procMask, frames, memWarned,
                   completed, out>>

\* close(), kill(parent_pid, SIGUSR2), free(), exit(0).
WorkerComplete(w) ==
    /\ wpc[w] = "complete"
    /\ Send(w, "USR2")
    /\ wpc' = [wpc EXCEPT ![w] = "exited"]
    /\ UNCHANGED <<mainPc, nforked, loopN, procMask, frames, memWarned,
                   completed, out>>

-----------------------------------------------------------------------------
(* The handler.                                                            *)

\* The kernel delivers pending signal s: a handler frame is pushed with
\* the pending instance's si_pid.  sigsuspend() returns once it is done.
Deliver(s) ==
    /\ pending[s] # 0
    /\ s \notin Blocked
    /\ mainPc # "done"
    /\ frames' = Append(frames, [sig |-> s, pid |-> pending[s], pc |-> "enter"])
    /\ pending' = [pending EXCEPT ![s] = 0]
    /\ mainPc' = IF mainPc = "susp" THEN "chk" ELSE mainPc
    /\ UNCHANGED <<nforked, loopN, procMask, memWarned, completed, wpc, sent,
                   out>>

Top == frames[Len(frames)]
SetTopPc(p) == frames' = [frames EXCEPT ![Len(frames)].pc = p]
Pop == frames' = SubSeq(frames, 1, Len(frames) - 1)

\* The SIGUSR1 branch reading "i == 2" as worker 2 rather than index 2.
HandlerEnterIndexTypo ==
    /\ frames # <<>> /\ Top.pc = "enter"
    /\ LET f == Top IN
       CASE f.sig = "USR1" /\ f.pid = 2 /\ ~memWarned
              -> SetTopPc("print") /\ UNCHANGED completed
         [] f.sig = "USR2" /\ f.pid \in {1, 2} /\ ~completed[f.pid]
              -> SetTopPc("print") /\ UNCHANGED completed
         [] f.sig = "USR2" /\ f.pid = 3 /\ ~completed[3]
              -> SetTopPc("log") /\ completed' = [completed EXCEPT ![3] = TRUE]
         [] OTHER -> Pop /\ UNCHANGED completed
    /\ UNCHANGED <<mainPc, nforked, loopN, procMask, pending, memWarned, wpc,
                   sent, out>>

\* The pid lookup and the flag tests: printf for the memory warning and
\* the first two completions, only a log line for worker 3's completion.
HandlerEnter ==
    /\ frames # <<>> /\ Top.pc = "enter"
    /\ LET f == Top IN
       CASE f.sig = "USR1" /\ f.pid = 3 /\ ~memWarned
              -> SetTopPc("print") /\ UNCHANGED completed
         [] f.sig = "USR2" /\ f.pid \in {1, 2} /\ ~completed[f.pid]
              -> SetTopPc("print") /\ UNCHANGED completed
         [] f.sig = "USR2" /\ f.pid = 3 /\ ~completed[3]
              -> SetTopPc("log") /\ completed' = [completed EXCEPT ![3] = TRUE]
         [] OTHER -> Pop /\ UNCHANGED completed
    /\ UNCHANGED <<mainPc, nforked, loopN, procMask, pending, memWarned, wpc,
                   sent, out>>

\* printf() and fflush() return; the flag is set.
HandlerPrint ==
    /\ frames # <<>> /\ Top.pc = "print"
    /\ LET f == Top IN
       /\ out' = Append(out, IF f.sig = "USR1" THEN "mem"
                             ELSE IF f.pid = 1 THEN "w1" ELSE "w2")
       /\ memWarned' = (memWarned \/ f.sig = "USR1")
       /\ completed' = IF f.sig = "USR2"
                         THEN [completed EXCEPT ![f.pid] = TRUE] ELSE completed
    /\ SetTopPc("log")
    /\ UNCHANGED <<mainPc, nforked, loopN, procMask, pending, wpc, sent>>

\* dhsb_log_event(), and the handler returns.
HandlerLog ==
    /\ frames # <<>> /\ Top.pc = "log"
    /\ Pop
    /\ UNCHANGED <<mainPc, nforked, loopN, procMask, pending, memWarned,
                   completed, wpc, sent, out>>

-----------------------------------------------------------------------------
(* The parent's main().                                                    *)

\* The parent's own steps run only when no handler is active.
MainStep == frames = <<>>

\* A fork loop written with i <= 3.
ForkLoopLe ==
    /\ MainStep /\ mainPc = "fork"
    /\ wpc' = [wpc EXCEPT ![nforked + 1] = "run"]
    /\ nforked' = nforked + 1
    /\ mainPc' = IF nforked + 1 = 4 THEN "unblock" ELSE "fork"
    /\ UNCHANGED <<loopN, procMask, pending, frames, memWarned, completed,
                   sent, out>>

\* fork(); the child restores the mask and execs worker_process.
Fork ==
    /\ MainStep /\ mainPc = "fork"
    /\ wpc' = [wpc EXCEPT ![nforked + 1] = "run"]
    /\ nforked' = nforked + 1
    /\ mainPc' = IF nforked + 1 = 3 THEN "unblock" ELSE "fork"
    /\ UNCHANGED <<loopN, procMask, pending, frames, memWarned, completed,
                   sent, out>>

\* sigprocmask(SIG_SETMASK, &old_mask): nothing is blocked any more.
Unblock ==
    /\ MainStep /\ mainPc = "unblock"
    /\ procMask' = {}
    /\ mainPc' = "chk"
    /\ UNCHANGED <<nforked, loopN, pending, frames, memWarned, completed,
                   wpc, sent, out>>

\* while (!flag): the test, with the signals unblocked.
Check ==
    /\ MainStep /\ mainPc = "chk"
    /\ IF Flag(loopN)
         THEN /\ loopN' = IF loopN < 3 THEN loopN + 1 ELSE loopN
              /\ mainPc' = IF loopN < 3 THEN "chk" ELSE "wait"
         ELSE /\ mainPc' = "call" /\ UNCHANGED loopN
    /\ UNCHANGED <<nforked, procMask, pending, frames, memWarned, completed,
                   wpc, sent, out>>

\* The call of sigsuspend(): from here the parent sleeps until a handler
\* has run.
CallSuspend ==
    /\ MainStep /\ mainPc = "call"
    /\ mainPc' = "susp"
    /\ UNCHANGED <<nforked, loopN, procMask, pending, frames, memWarned,
                   completed, wpc, sent, out>>

\* waitpid() on each child.  SIGCHLD is ignored, so the children are reaped
\* by the kernel and the calls return once all three have exited.
WaitAll ==
    /\ MainStep /\ mainPc = "wait"
    /\ \A w \in Workers : wpc[w] = "exited"
    /\ mainPc' = "printDone"
    /\ UNCHANGED <<nforked, loopN, procMask, pending, frames, memWarned,
                   completed, wpc, sent, out>>

\* printf("Parent done waiting"), unlink the files, return 0.
Finish ==
    /\ MainStep /\ mainPc = "printDone"
    /\ out' = Append(out, "done")
    /\ mainPc' = "done"
    /\ UNCHANGED <<nforked, loopN, procMask, pending, frames, memWarned,
                   completed, wpc, sent>>

Next ==
    \/ Fork \/ Unblock \/ Check \/ CallSuspend \/ WaitAll \/ Finish
    \/ \E s \in Sigs : Deliver(s)
    \/ HandlerEnter \/ HandlerPrint \/ HandlerLog
    \/ \E w \in Workers : WorkerRun(w) \/ WorkerComplete(w)

\* Every process is scheduled; a pending signal that is not blocked is
\* delivered on the parent's next return to user mode, even if handlers
\* block it now and then (strong fairness).
Fairness ==
    /\ WF_vars(Fork) /\ WF_vars(Unblock) /\ WF_vars(Check)
    /\ WF_vars(CallSuspend) /\ WF_vars(WaitAll) /\ WF_vars(Finish)
    /\ WF_vars(HandlerEnter) /\ WF_vars(HandlerPrint) /\ WF_vars(HandlerLog)
    /\ \A s \in Sigs : SF_vars(Deliver(s))
    /\ \A w \in Workers : WF_vars(WorkerRun(w)) /\ WF_vars(WorkerComplete(w))

Spec == Init /\ [][Next]_vars /\ Fairness

-----------------------------------------------------------------------------
(* Properties.                                                             *)

Msgs == {"mem", "w1", "w2", "done"}
MainPcs == {"fork", "unblock", "chk", "call", "susp", "wait", "printDone", "done"}

TypeOK ==
    /\ mainPc \in MainPcs /\ nforked \in 0..3 /\ loopN \in 1..3
    /\ procMask \subseteq Sigs
    /\ pending \in [Sigs -> {0} \cup Workers]
    /\ \A k \in 1..Len(frames) :
          frames[k] \in [sig : Sigs, pid : Workers, pc : {"enter", "print", "log"}]
    /\ memWarned \in BOOLEAN /\ completed \in [Workers -> BOOLEAN]
    /\ wpc \in [Workers -> {"none", "run", "complete", "exited"}]
    /\ sent \subseteq Sigs \X Workers
    /\ out \in Seq(Msgs)

\* stdio is not async-signal-safe: the handler's printf() must never run
\* while another printf() of the parent, in main() or in an interrupted
\* handler, is under way.  The handler's sa_mask and the flags that main()
\* waits on before its own printf() are what keep the calls apart.
NoReentrantStdio ==
    Cardinality({k \in 1..Len(frames) : frames[k].pc = "print"})
      + (IF mainPc = "printDone" THEN 1 ELSE 0) <= 1

\* Worker 3's memory warning, once sent, is printed by the parent.
WarningDelivered == (<<"USR1", 3>> \in sent) ~> memWarned

\* The completion signal of worker 1 or 2 is never lost: once sent it is
\* pending with that worker's si_pid, being handled, or has set its flag.
CompletionNotLost ==
    \A w \in {1, 2} :
        <<"USR2", w>> \in sent =>
            \/ completed[w]
            \/ pending["USR2"] = w
            \/ \E k \in 1..Len(frames) : frames[k].sig = "USR2" /\ frames[k].pid = w

=============================================================================
