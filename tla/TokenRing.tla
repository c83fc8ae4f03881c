----------------------------- MODULE TokenRing -----------------------------
(***************************************************************************)
(* Lab10: three processes pass one message around through a System V      *)
(* shared-memory segment (key 1234), under the named POSIX semaphore      *)
(* /shm_mutex; /shm_start lets clients 1 and 2 wait until client 3 has    *)
(* set the segment up (src/Lab10/client1.cpp, client2.cpp, client3.cpp).  *)
(*                                                                         *)
(* Each client makes NUM_MESSAGES passes of its loop; a pass locks the     *)
(* mutex, and if the message is addressed to the client it answers it:    *)
(* srcClientNo, destClientNo, then the text, then unlocks.  The text is   *)
(* abstracted to the client number it names ("... from client %d").       *)
(*                                                                         *)
(* SIGINT is installed with sa_flags = 0, so a sem_wait() blocked when it *)
(* arrives returns -1 (EINTR); no caller checks the result.               *)
(***************************************************************************)
EXTENDS Naturals, FiniteSets

CONSTANTS
    NumMessages,    \* NUM_MESSAGES: passes of each client's loop
    Retries,        \* sem_open() attempts of clients 1 and 2
    SigIntEnabled,  \* whether Ctrl-C may hit a client
    StaleIpc,       \* whether a killed earlier run left its IPC objects
    SetupFails      \* whether client 3's shmget() or shmat() may fail

ASSUME /\ NumMessages \in Nat /\ Retries \in Nat \ {0}
       /\ SigIntEnabled \in BOOLEAN /\ StaleIpc \in BOOLEAN
       /\ SetupFails \in BOOLEAN

Clients == {1, 2, 3}

\* Mutant: client 1's destination formula off by one.
ReplyDestTypo(c, i) ==
    CASE c = 1 -> 3 + (i % 2)
      [] c = 2 -> 1 + 2 * (i % 2)
      [] c = 3 -> 1 + (i % 2)

\* Where each client sends its answer on pass i.
ReplyDest(c, i) ==
    CASE c = 1 -> 2 + (i % 2)
      [] c = 2 -> 1 + 2 * (i % 2)
      [] c = 3 -> 1 + (i % 2)

VARIABLES
    pc,          \* where each client is
    i,           \* each client's loop counter
    is_running,  \* each client's is_running flag
    retries,     \* sem_open() attempts left (clients 1 and 2)
    mutexName,   \* /shm_mutex exists
    startName,   \* /shm_start exists
    mutexVal,    \* value of the mutex semaphore
    startVal,    \* value of the start semaphore
    shmKey,      \* a segment with key 1234 exists
    src,         \* ShmPTR->srcClientNo
    dest,        \* ShmPTR->destClientNo
    msgFrom,     \* the client the text of ShmPTR->message names
    eintr        \* history: some sem_wait(mutex_sem) has failed with EINTR

vars == <<pc, i, is_running, retries, mutexName, startName, mutexVal,
          startVal, shmKey, src, dest, msgFrom, eintr>>

shm == <<src, dest, msgFrom>>

\* The part of a pass between sem_wait() and sem_post().
CriticalPcs == {"check", "writeMsg", "post"}

\* A fresh system, or (StaleIpc) what an earlier run killed before its
\* atexit handler ran leaves behind: both semaphore names, with the mutex
\* taken or free and up to two unconsumed start posts, and the segment
\* with the last message written.
Init ==
    /\ pc = [c \in Clients |-> IF c = 3 THEN "createMutex" ELSE "openMutex"]
    /\ i = [c \in Clients |-> 0]
    /\ is_running = [c \in Clients |-> TRUE]
    /\ retries = [c \in Clients |-> Retries]
    /\ eintr = FALSE
    /\ \/ /\ mutexName = FALSE /\ startName = FALSE /\ shmKey = FALSE
          /\ mutexVal = 0 /\ startVal = 0
          /\ src = 0 /\ dest = 0 /\ msgFrom = 0
       \/ /\ StaleIpc
          /\ mutexName = TRUE /\ startName = TRUE /\ shmKey = TRUE
          /\ mutexVal \in {0, 1} /\ startVal \in 0 .. 2
          /\ src \in Clients /\ msgFrom = src /\ dest \in Clients \ {src}

-----------------------------------------------------------------------------
(* Set-up of client 3: create both semaphores and the segment, write the  *)
(* first message to client 1, post the start semaphore twice.             *)

C3CreateMutex ==
    /\ pc[3] = "createMutex"
    /\ mutexVal' = IF mutexName THEN mutexVal ELSE 1
    /\ mutexName' = TRUE
    /\ pc' = [pc EXCEPT ![3] = "createStart"]
    /\ UNCHANGED <<eintr, i, is_running, retries, startName, startVal, shmKey, shm>>

C3CreateStart ==
    /\ pc[3] = "createStart"
    /\ startVal' = IF startName THEN startVal ELSE 0
    /\ startName' = TRUE
    /\ pc' = [pc EXCEPT ![3] = "init"]
    /\ UNCHANGED <<eintr, i, is_running, retries, mutexName, mutexVal, shmKey, shm>>

\* Mutant: the start semaphore is posted once.
C3InitOnePost ==
    /\ pc[3] = "init"
    /\ shmKey' = TRUE
    /\ src' = 3 /\ dest' = 1 /\ msgFrom' = 3
    /\ startVal' = startVal + 1
    /\ pc' = [pc EXCEPT ![3] = "loop"]
    /\ UNCHANGED <<eintr, i, is_running, retries, mutexName, startName, mutexVal>>

\* Client 3's atexit handler: the segment is removed if it was attached
\* (shmKey' is whether a segment is left), and since both sem_open() calls
\* succeeded, both names are unlinked.  Waiters keep their handles.
CleanupClients(segmentLeft) ==
    /\ shmKey' = segmentLeft
    /\ mutexName' = FALSE /\ startName' = FALSE

\* shmget(IPC_CREAT), shmat(), the first message, and the two posts.  If
\* shmget() fails, or shmat() fails after the segment was created, main()
\* returns -1 before posting, and the atexit handler runs.
C3Init ==
    /\ pc[3] = "init"
    /\ \/ /\ shmKey' = TRUE
          /\ src' = 3 /\ dest' = 1 /\ msgFrom' = 3
          /\ startVal' = startVal + 2
          /\ pc' = [pc EXCEPT ![3] = "loop"]
          /\ UNCHANGED <<mutexName, startName>>
       \/ /\ SetupFails
          /\ CleanupClients(shmKey) \/ CleanupClients(TRUE)
          /\ pc' = [pc EXCEPT ![3] = "failed"]
          /\ UNCHANGED <<startVal, shm>>
    /\ UNCHANGED <<eintr, i, is_running, retries, mutexVal>>

-----------------------------------------------------------------------------
(* Set-up of clients 1 and 2.                                             *)

\* One attempt of a sem_open() retry loop for the semaphore whose name
\* exists iff exists; the last failed attempt makes main() return -1.
OpenSem(c, from, to, exists) ==
    /\ pc[c] = from
    /\ \/ /\ exists
          /\ pc' = [pc EXCEPT ![c] = to]
          /\ retries' = [retries EXCEPT ![c] = Retries]
       \/ /\ ~exists
          /\ retries' = [retries EXCEPT ![c] = @ - 1]
          /\ pc' = [pc EXCEPT ![c] = IF retries[c] = 1 THEN "failed" ELSE from]
    /\ UNCHANGED <<eintr, i, is_running, mutexName, startName, mutexVal, startVal,
                   shmKey, shm>>

OpenMutex(c) == OpenSem(c, "openMutex", "openStart", mutexName)
OpenStart(c) == OpenSem(c, "openStart", "waitStart", startName)

\* sem_wait(start_sem) returns when the value is positive.
WaitStart(c) ==
    /\ pc[c] = "waitStart"
    /\ startVal > 0
    /\ startVal' = startVal - 1
    /\ pc' = [pc EXCEPT ![c] = "attach"]
    /\ UNCHANGED <<eintr, i, is_running, retries, mutexName, startName, mutexVal,
                   shmKey, shm>>

\* shmget(1234, size, 0) and shmat(): main() returns -1 if there is no
\* segment.
Attach(c) ==
    /\ pc[c] = "attach"
    /\ pc' = [pc EXCEPT ![c] = IF shmKey THEN "loop" ELSE "failed"]
    /\ UNCHANGED <<eintr, i, is_running, retries, mutexName, startName, mutexVal,
                   startVal, shmKey, shm>>

-----------------------------------------------------------------------------
(* The message loop, the same in all three clients but for ReplyDest.     *)

\* for (i = 0; i < NUM_MESSAGES && is_running; ++i); leaving it, main()
\* returns and the atexit handler runs: client 3 removes the segment's key
\* and unlinks both semaphores; the others only detach and close.
LoopTest(c) ==
    /\ pc[c] = "loop"
    /\ IF i[c] < NumMessages /\ is_running[c]
         THEN /\ pc' = [pc EXCEPT ![c] = "waitMutex"]
              /\ UNCHANGED <<mutexName, startName, shmKey>>
         ELSE /\ pc' = [pc EXCEPT ![c] = "done"]
              /\ IF c = 3 THEN CleanupClients(FALSE)
                           ELSE UNCHANGED <<mutexName, startName, shmKey>>
    /\ UNCHANGED <<eintr, i, is_running, retries, mutexVal, startVal, shm>>

\* Mutant: sem_trywait() whose failure is not checked.
WaitMutexUnchecked(c) ==
    /\ pc[c] = "waitMutex"
    /\ mutexVal' = IF mutexVal > 0 THEN mutexVal - 1 ELSE mutexVal
    /\ pc' = [pc EXCEPT ![c] = "check"]
    /\ UNCHANGED <<eintr, i, is_running, retries, mutexName, startName, startVal,
                   shmKey, shm>>

\* sem_wait(mutex_sem) returns when the value is positive.
WaitMutex(c) ==
    /\ pc[c] = "waitMutex"
    /\ mutexVal > 0
    /\ mutexVal' = mutexVal - 1
    /\ pc' = [pc EXCEPT ![c] = "check"]
    /\ UNCHANGED <<eintr, i, is_running, retries, mutexName, startName, startVal,
                   shmKey, shm>>

\* Mutant: the answer leaves srcClientNo as it was.
CheckNoSrc(c) ==
    /\ pc[c] = "check"
    /\ IF dest = c
         THEN /\ dest' = ReplyDest(c, i[c])
              /\ pc' = [pc EXCEPT ![c] = "writeMsg"]
         ELSE /\ pc' = [pc EXCEPT ![c] = "post"]
              /\ UNCHANGED dest
    /\ UNCHANGED <<eintr, i, is_running, retries, mutexName, startName, mutexVal,
                   startVal, shmKey, src, msgFrom>>

\* Mutant: every pass answers, whoever the message is addressed to.
CheckAnyDest(c) ==
    /\ pc[c] = "check"
    /\ src' = c
    /\ dest' = ReplyDest(c, i[c])
    /\ pc' = [pc EXCEPT ![c] = "writeMsg"]
    /\ UNCHANGED <<eintr, i, is_running, retries, mutexName, startName, mutexVal,
                   startVal, shmKey, msgFrom>>

\* if (destClientNo == CLIENT_NO): srcClientNo and destClientNo are set.
Check(c) ==
    /\ pc[c] = "check"
    /\ IF dest = c
         THEN /\ src' = c
              /\ dest' = ReplyDest(c, i[c])
              /\ pc' = [pc EXCEPT ![c] = "writeMsg"]
         ELSE /\ pc' = [pc EXCEPT ![c] = "post"]
              /\ UNCHANGED <<src, dest>>
    /\ UNCHANGED <<eintr, i, is_running, retries, mutexName, startName, mutexVal,
                   startVal, shmKey, msgFrom>>

\* memset() and sprintf() of the text.
WriteMsg(c) ==
    /\ pc[c] = "writeMsg"
    /\ msgFrom' = c
    /\ pc' = [pc EXCEPT ![c] = "post"]
    /\ UNCHANGED <<eintr, i, is_running, retries, mutexName, startName, mutexVal,
                   startVal, shmKey, src, dest>>

\* sem_post(mutex_sem), sleep(1), ++i.
Post(c) ==
    /\ pc[c] = "post"
    /\ mutexVal' = mutexVal + 1
    /\ i' = [i EXCEPT ![c] = @ + 1]
    /\ pc' = [pc EXCEPT ![c] = "loop"]
    /\ UNCHANGED <<eintr, is_running, retries, mutexName, startName, startVal,
                   shmKey, shm>>

\* SIGINT: the handler clears is_running; a sem_wait() blocked at that
\* moment fails with EINTR, and the client goes on as if it had returned.
SigInt(c) ==
    /\ SigIntEnabled
    /\ is_running[c]
    /\ pc[c] \notin {"done", "failed"}
    /\ is_running' = [is_running EXCEPT ![c] = FALSE]
    /\ pc' = CASE pc[c] = "waitMutex" /\ mutexVal = 0
                    -> [pc EXCEPT ![c] = "check"]
               [] pc[c] = "waitStart" /\ startVal = 0
                    -> [pc EXCEPT ![c] = "attach"]
               [] OTHER -> pc
    /\ eintr' = (eintr \/ (pc[c] = "waitMutex" /\ mutexVal = 0))
    /\ UNCHANGED <<i, retries, mutexName, startName, mutexVal, startVal,
                   shmKey, shm>>

-----------------------------------------------------------------------------

Next ==
    \/ C3CreateMutex \/ C3CreateStart \/ C3Init
    \/ \E c \in {1, 2} :
         OpenMutex(c) \/ OpenStart(c) \/ WaitStart(c) \/ Attach(c)
    \/ \E c \in Clients :
         \/ LoopTest(c) \/ WaitMutex(c) \/ Check(c) \/ WriteMsg(c) \/ Post(c)
         \/ SigInt(c)

\* The three processes are scheduled by the kernel.  A client blocked in
\* sem_wait() gets the semaphore if it is posted again and again (each
\* holder sleeps a second after sem_post()), hence strong fairness there.
Fairness ==
    /\ WF_vars(C3CreateMutex) /\ WF_vars(C3CreateStart) /\ WF_vars(C3Init)
    /\ \A c \in {1, 2} : WF_vars(OpenMutex(c)) /\ WF_vars(OpenStart(c))
                        /\ WF_vars(WaitStart(c)) /\ WF_vars(Attach(c))
    /\ \A c \in Clients : /\ WF_vars(LoopTest(c)) /\ SF_vars(WaitMutex(c))
                          /\ WF_vars(Check(c)) /\ WF_vars(WriteMsg(c))
                          /\ WF_vars(Post(c))

Spec == Init /\ [][Next]_vars /\ Fairness

-----------------------------------------------------------------------------
(* Properties                                                              *)

\* Every variable has the type the code gives it.
TypeOK ==
    /\ pc \in [Clients -> {"createMutex", "createStart", "init", "openMutex",
                           "openStart", "waitStart", "attach", "loop",
                           "waitMutex", "check", "writeMsg", "post", "done",
                           "failed"}]
    /\ i \in [Clients -> 0 .. NumMessages]
    /\ is_running \in [Clients -> BOOLEAN]
    /\ retries \in [Clients -> 0 .. Retries]
    /\ mutexName \in BOOLEAN /\ startName \in BOOLEAN /\ shmKey \in BOOLEAN
    /\ mutexVal \in Nat /\ startVal \in Nat
    /\ src \in 0 .. 3 /\ dest \in 0 .. 3 /\ msgFrom \in 0 .. 3
    /\ eintr \in BOOLEAN

InCritical == {c \in Clients : pc[c] \in CriticalPcs}

\* Once client 3 has created /shm_mutex, its count plus the clients between
\* sem_wait() and sem_post() is 1: it is a binary semaphore ("Lock access
\* to shared memory"), no pass unlocks twice and none enters unlocked.
\* This holds through any Ctrl-C that does not interrupt a blocked
\* sem_wait(mutex_sem); the unchecked EINTR is the one way in unlocked.
SemaphoreAccounting ==
    ~eintr /\ pc[3] # "createMutex" => mutexVal + Cardinality(InCritical) = 1

\* Whenever no client is between writing the header and the text, the
\* text names the client in srcClientNo: the message a client reads is
\* the one its sender wrote, never the header of one answer with the text
\* of another.
MessageConsistent ==
    (\A c \in Clients : pc[c] # "writeMsg") => msgFrom = src

\* Every message is consistent as long as no sem_wait(mutex_sem) has been
\* cut short by Ctrl-C: SIGINT elsewhere (in sleep(1), in the section, in
\* the wait on /shm_start) never mixes two answers.
ConsistentUntilEintr == ~eintr => MessageConsistent

-----------------------------------------------------------------------------
(* The ring implements MessageRing.  The lock holder is the client between *)
(* sem_wait() and sem_post().  The answer happens when the text is written: *)
(* until then the segment holds the new header over the old text, and the  *)
(* message being answered is the old one, from msgFrom to the writer.      *)

Holder ==
    IF \E c \in Clients : pc[c] \in CriticalPcs
      THEN CHOOSE c \in Clients : pc[c] \in CriticalPcs
      ELSE 0

Msg ==
    IF \E c \in Clients : pc[c] = "writeMsg"
      THEN <<msgFrom, CHOOSE c \in Clients : pc[c] = "writeMsg">>
      ELSE <<src, dest>>

Ring == INSTANCE MessageRing
          WITH holder <- Holder, msg <- Msg, pass <- i, broken <- eintr,
               Dest <- ReplyDest

\* Until Ctrl-C cuts a sem_wait(mutex_sem) short, every step of the three
\* clients is a step of MessageRing: one holder at a time, and only the
\* holder answers, only a message addressed to it, to the destination its
\* pass number gives; the two writes to the segment act as one.
RingRefinement == Ring!Spec

\* Every client eventually leaves: it finishes its NUM_MESSAGES passes or
\* gives up; no client waits on a semaphore for ever.  Clients 1 and 2
\* bound their sem_open() retries so that a missing client 3 makes them
\* give up rather than wait.
Termination == <>(\A c \in Clients : pc[c] \in {"done", "failed"})

=============================================================================
