\* Part4: every file non-empty, so worker 3 warns.  Part2 and Part3: the
\* worker's file is empty (Part3 only) or two reads long; two reads are
\* enough for the loop's second VmRSS check, the one sigusr1_already_sent
\* must silence.  FinalExam1: one child may be killed in its critical
\* section.  Lab5b: three signals from any of the four, enough for a
\* start, a stop and one Ctrl-C or Ctrl-Z between them.  Lab6: one kill,
\* of either process, at any point.
CONSTANTS
    EmptyFiles = {}
    FileChunks = {0, 2}
    MaxReads = 2
    Harnesses = {"Part2", "Part3"}
    MaxCrashes = 1
    Sigs = {"INT", "USR1", "USR2", "TSTP"}
    MaxSends = 3
    MaxKills = 1

SPECIFICATION Spec

INVARIANT TypeOK
INVARIANT NoReentrantStdio
INVARIANT ReportsCompletion
INVARIANT LeavesLoopOnlyAfterCompletion
INVARIANT SemaphoreAccounting
INVARIANT OneCommandPerRead
PROPERTY WarningDelivered
PROPERTY ParentReturns
PROPERTY AllReaped
PROPERTY StopHonoured
PROPERTY ServerReturns
PROPERTY ClientReturns

\* The parents end at return from main(); Part4's and Part3's may stop for
\* ever in sigsuspend() or pause() when no signal is left to wake them, and
\* FinalExam1's in wait() after a child dies holding the semaphore, which
\* is under study.  Lab5b ends killed or stopped by a signal's default
\* action, and Lab6's processes after a failed system call.
CHECK_DEADLOCK FALSE
