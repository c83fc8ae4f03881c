------------------------------ MODULE SemMutex ------------------------------
(***************************************************************************)
(* FinalExam1 (src/FinalExam1.c): the parent creates System V semaphore   *)
(* KEY 1234 with value 1 and forks five children; each child takes the    *)
(* semaphore with semop(-1), sleeps in its critical section, gives it     *)
(* back with semop(+1) and exits.  The parent waits for five children and *)
(* removes the semaphore.                                                  *)
(*                                                                         *)
(* The semops carry no SEM_UNDO, so a child killed inside its critical    *)
(* section (kill -9, the OOM killer) leaves the value at 0.  Crash models *)
(* that, at most MaxCrashes times.                                         *)
(***************************************************************************)
EXTENDS Integers, FiniteSets

CONSTANT MaxCrashes

\* num_processes
NumProcesses == 5
Children == 1..NumProcesses

VARIABLES
    ppc,       \* where the parent is
    semval,    \* the semaphore's value; -1 once it is removed (IPC_RMID)
    nforked,   \* children forked
    nwaited,   \* wait() calls that have returned
    cpc,       \* where each child is
    crashes    \* children killed so far

vars == <<ppc, semval, nforked, nwaited, cpc, crashes>>

Removed == -1

Init ==
    /\ ppc = "semget" /\ semval = 0 /\ nforked = 0 /\ nwaited = 0
    /\ cpc = [c \in Children |-> "none"]
    /\ crashes = 0

-----------------------------------------------------------------------------
(* The parent.                                                             *)

\* semget(KEY, 1, IPC_CREAT | 0666); on failure exit.
SemGet ==
    /\ ppc = "semget"
    /\ ppc' \in {"setval", "failed"}
    /\ UNCHANGED <<semval, nforked, nwaited, cpc, crashes>>

\* semctl(SETVAL, 1); on failure exit.
SetVal ==
    /\ ppc = "setval"
    /\ \/ ppc' = "fork" /\ semval' = 1
       \/ ppc' = "failed" /\ UNCHANGED semval
    /\ UNCHANGED <<nforked, nwaited, cpc, crashes>>

\* fork(): the child starts; on failure the parent exits and leaves the
\* children already forked running.
Fork ==
    /\ ppc = "fork"
    /\ \/ /\ cpc' = [cpc EXCEPT ![nforked + 1] = "enter"]
          /\ nforked' = nforked + 1
          /\ ppc' = IF nforked + 1 = NumProcesses THEN "wait" ELSE "fork"
       \/ ppc' = "failed" /\ UNCHANGED <<cpc, nforked>>
    /\ UNCHANGED <<semval, nwaited, crashes>>

\* wait(NULL) returns once a child it has not reaped yet has ended.
Wait ==
    /\ ppc = "wait"
    /\ nwaited < Cardinality({c \in Children : cpc[c] \in {"exited", "killed"}})
    /\ nwaited' = nwaited + 1
    /\ ppc' = IF nwaited + 1 = NumProcesses THEN "rmid" ELSE "wait"
    /\ UNCHANGED <<semval, nforked, cpc, crashes>>

\* semctl(IPC_RMID), then return 0; on failure exit.
RemoveSem ==
    /\ ppc = "rmid"
    /\ \/ ppc' = "done" /\ semval' = Removed
       \/ ppc' = "failed" /\ UNCHANGED semval
    /\ UNCHANGED <<nforked, nwaited, cpc, crashes>>

-----------------------------------------------------------------------------
(* The children.                                                           *)

\* The decrement of semop(-1) left out.
EnterNoDecrement(c) ==
    /\ cpc[c] = "enter" /\ semval > 0
    /\ cpc' = [cpc EXCEPT ![c] = "cs"]
    /\ UNCHANGED <<ppc, semval, nforked, nwaited, crashes>>

\* performSemaphoreOperation(sem_id, 0, -1): blocks while the value is 0.
\* (Its failure path is dead: the semaphore is removed only after every
\* child has been reaped.)
Enter(c) ==
    /\ cpc[c] = "enter" /\ semval > 0
    /\ semval' = semval - 1
    /\ cpc' = [cpc EXCEPT ![c] = "cs"]
    /\ UNCHANGED <<ppc, nforked, nwaited, crashes>>

\* The child exits without its semop(+1).
LeaveNoRelease(c) ==
    /\ cpc[c] = "cs"
    /\ cpc' = [cpc EXCEPT ![c] = "exited"]
    /\ UNCHANGED <<ppc, semval, nforked, nwaited, crashes>>

\* sleep(2), performSemaphoreOperation(sem_id, 0, 1), exit(EXIT_SUCCESS).
Leave(c) ==
    /\ cpc[c] = "cs"
    /\ semval' = semval + 1
    /\ cpc' = [cpc EXCEPT ![c] = "exited"]
    /\ UNCHANGED <<ppc, nforked, nwaited, crashes>>

\* A child in its critical section is killed; without SEM_UNDO the kernel
\* does not give its unit back.
Crash(c) ==
    /\ cpc[c] = "cs" /\ crashes < MaxCrashes
    /\ cpc' = [cpc EXCEPT ![c] = "killed"]
    /\ crashes' = crashes + 1
    /\ UNCHANGED <<ppc, semval, nforked, nwaited>>

Next ==
    \/ SemGet \/ SetVal \/ Fork \/ Wait \/ RemoveSem
    \/ \E c \in Children : Enter(c) \/ Leave(c) \/ Crash(c)

\* Every process is scheduled.  Each child enters once, so weak fairness of
\* Enter suffices: only finitely many others can take the semaphore first.
Fairness ==
    /\ WF_vars(SemGet) /\ WF_vars(SetVal) /\ WF_vars(Fork) /\ WF_vars(Wait)
    /\ WF_vars(RemoveSem)
    /\ \A c \in Children : WF_vars(Enter(c)) /\ WF_vars(Leave(c))

Spec == Init /\ [][Next]_vars /\ Fairness

-----------------------------------------------------------------------------
(* Properties.                                                             *)

TypeOK ==
    /\ ppc \in {"semget", "setval", "fork", "wait", "rmid", "done", "failed"}
    /\ semval \in {Removed, 0, 1}
    /\ nforked \in 0..NumProcesses /\ nwaited \in 0..NumProcesses
    /\ cpc \in [Children -> {"none", "enter", "cs", "exited", "killed"}]
    /\ crashes \in 0..MaxCrashes

InCS == {c \in Children : cpc[c] = "cs"}

\* The semaphore is a binary lock: once the children run, its value, the
\* children in their critical sections and the children killed there (who
\* keep their unit) add up to 1, so at most one child is ever inside.
SemaphoreAccounting ==
    nforked > 0 /\ semval # Removed =>
        semval + Cardinality(InCS) + crashes = 1

\* The parent returns from main() unless a child was killed inside its
\* critical section: then the unit is lost and every later child, and the
\* parent's wait(), block for ever.
ParentReturns ==
    \/ <>(ppc \in {"done", "failed"})
    \/ <>(crashes > 0)

=============================================================================
