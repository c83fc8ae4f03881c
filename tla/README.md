# Model checking UNX511

This directory holds TLA+ models of the concurrent programs in `src/`, the TLC
configurations that check them, and `PROJECT.json`. That file records every
component, run, mutant, finding and hazard, and maps each definition to the
source lines it translates.

## The repository

The repository is a set of systems-programming exercises. Only a few of them
run more than one thing at a time:

| Part | Sources | Concurrency | Status |
|------|---------|-------------|--------|
| Network monitor (Assignment2) | `networkMonitor.cpp`, `intfMonitor.cpp` | a supervisor forks one worker per interface; they talk over AF_UNIX stream sockets; SIGINT to the whole group | modelled: `NetworkMonitor` |
| Token ring (Lab10) | `client1/2/3.cpp`, `client.h` | three processes, System V shared memory, two named POSIX semaphores | modelled: `TokenRing` |
| Threaded server (Lab9) | `server.cpp` | receive threads, a mutex-protected queue, shutdown | modelled: `ThreadedServer` |
| UDP logger (Assignment3) | `LogServer.cpp`, `Logger.cpp`, `Logger.h` | a listener thread in the client, a receive thread in the server, UDP both ways | modelled: `LogSystem` |
| Parent/workers (Assignment1 Part4) | `parent_main.c`, `worker_process.c`, `dhsb_logger.c` | SIGUSR1/SIGUSR2 notifications, `sigsuspend` | modelled: `SignalWorkers` |
| Test harnesses (Assignment1 Part2, Part3) | `Part2/test_worker_main.c`, `Part3/test_worker_main.c`, `Part3/worker_process.c` | one worker signalling its parent; nested handlers, `pause()` or `waitpid()` | modelled: `WorkerTest` |
| Semaphore mutex (FinalExam1) | `FinalExam1.c` | five children share one System V semaphore | modelled: `SemMutex` |
| Signal-driven monitor (Lab5b) | `Lab5b/intfMonitor.cpp` | one handler for four signals, nesting; an outside sender | modelled: `SignalMonitor` |
| Command socket (Lab6) | `Lab6/server.cpp`, `Lab6/client.cpp` | a server and a client on a Unix stream socket | modelled: `CommandSocket` |
| Two-command pipe (Lab7) | `Lab7.cpp` | a child and its parent exec the two commands on a pipe | not modelled (see below) |
| Message-queue server (Lab8) | `Lab8/server.cpp` | a forwarding loop on a System V queue; its clients are not in the repository | not modelled (see below) |
| Exam, Lab1, Lab2, Lab4, Assignment1 Part3 file generator | | none: terminal, /proc, sysfs, framebuffer or file I/O | not modelled (pure I/O) |

The three Assignment1 programs, FinalExam1, Lab5b and Lab6 are checked
together by one run of `MCProcesses.tla`, in which `Init` chooses the program a behaviour runs.
Lab9 and Assignment3 are checked together in the same way by `MCServers.tla`.

## The network monitor (`NetworkMonitor.tla`, `MCNetworkMonitor.tla`)

### How the parts interact

`networkMonitor` binds `/tmp/network_monitor_socket` and listens. It forks and
execs one `intfMonitor <iface>` per configured interface, then runs a
`select()` loop with three jobs:

- accept connections;
- answer `Ready` with `Monitor` and `Link Down` with `Set Link Up`;
- drop a connection on `Done`, at end of stream, or on a read error.

Its SIGINT handler clears `running` and closes the listener. `cleanup_sockets()`
then does four things:

1. sends `Shut Down` on each connection and closes it;
2. closes the listener;
3. removes the socket file;
4. reaps children with `WNOHANG`.

Each `intfMonitor` goes through these steps:

1. It connects and sends `Ready`, then waits for `Monitor`.
2. It answers `Monitoring`.
3. It loops, reading its interface's `operstate`. When the link is down, it
   sends `Link Down` and blocks for the answer: `Set Link Up` makes it request
   `SIOCSIFFLAGS`, and `Shut Down` stops the loop.
4. Its SIGINT handler clears `running`. At the end it sends `Done` and closes.

### State and actions

The supervisor's state:

| Variable | What it models |
|----------|----------------|
| `sup_pc` | its position in `main` |
| `running` | its `running` flag |
| `listening` | `master_socket_fd` is open |
| `sockfile` | the socket file exists |
| `nforked` | how far the fork loop has got |
| `registry` | `client_fds`, from connection to the name given to it |
| `backlog` | the listener's queue of pending connections |
| `ready`, `lready` | the `read_fds` that `select()` returned |

Each worker's state:

| Variable | What it models |
|----------|----------------|
| `wpc` | its position in `main` |
| `wrunning` | its `running` flag |
| `wEnd` | its end of the connection |

The connection between them:

- `supEnd` is the supervisor's end: in the backlog, open, or closed.
- `wErr` is an ECONNRESET pending on the worker's end.
- `toSup` and `toWk` are the tokens queued in each direction.

A connection is named after the worker that made it. Counters record what
happened so far: `downs` counts Link Down reports, `setups` counts Set Link Up
replies, and `fixes` counts `SIOCSIFFLAGS` requests. `ctrlC` records that
Ctrl-C has been pressed.

Actions and the code they model:

| Action | Code |
|--------|------|
| `SupFork` | the fork loop; a fork failure skips the name, and an execve failure ends the child |
| `SupSigInt` | `sig_handler` |
| `SupSelect` | `select()` |
| `SupAccept` | accept and positional naming |
| `SupHandle(w)` | `handle_client_message` |
| `SupHandleDone` | the end of the handling loop |
| `SupLoopExit` | `while (running)` fails |
| `SupShutDownOne(w)` | one iteration of `cleanup_sockets()` |
| `SupExit` | the rest of `cleanup_sockets()` |
| `WStart(w)` | execve, `signal()`, `socket()`, `connect()` |
| `WSendReady`, `WRecvMonitor`, `WSendMonitoring` | the handshake |
| `WLoopCheck` | `while (running)` |
| `WTick` | one loop pass; the link is up, or it is down and the report is sent |
| `WRecvLinkCmd` | the blocking wait for the answer |
| `WSendDone` | the final `Done` and close |
| `WSigInt` | the worker's handler |
| `WCrash` | kill -9 from outside |
| `CtrlC` | SIGINT to the whole process group at once |

The model keeps these properties of the kernel:

- **A stream has no message boundaries.** One `recv()` returns everything
  queued: `Recv` folds the queued tokens with `\o`.
- **Writing to a closed peer raises SIGPIPE.** Neither program ignores it, so
  the writer dies (`SupDies`, `WorkerDies`).
- **Closing a socket with unread data, or with connections still in the
  listener's backlog, resets the peer.** The reset is reported only once the
  queued data has been read.
- **`signal()` installs its handler with SA_RESTART.** A worker blocked in
  `recv()` stays blocked when SIGINT arrives.
- **FD_ISSET(-1) is undefined.** After SIGINT, `FD_ISSET(master_socket_fd)` is
  evaluated on -1. With `FortifiedBuild` the process aborts; otherwise the
  accept fails and the loop goes on.

### Runs

| Run | Expect | What it shows |
|-----|--------|---------------|
| `MCNetworkMonitor_check.cfg` | pass | `TypeOK`, `RegistryTracksOpenConns`, `RemediationAccounting`, `HandshakeCompletes` and `CtrlCTerminates` hold (308k states, about 2 minutes). `client_fds` always equals the set of open descriptors. `SIOCSIFFLAGS` requests never outnumber Set Link Up replies, which never outnumber Link Down reports. Every worker blocked for `Monitor` is released, and Ctrl-C ends every process. |
| `MCNetworkMonitor_linkdown.cfg` | violation | `LinkDownAnswered`: Monitoring and Link Down coalesce into one read, which is an unknown message; the worker blocks for ever. |
| `MCNetworkMonitor_sockfile.cfg` | violation | `ShutdownRemovesSocket`: after Ctrl-C a worker sends Done and exits; `cleanup_sockets()` writes Shut Down to it, SIGPIPE kills the supervisor, and the socket file stays. |
| `MCNetworkMonitor_orphans.cfg` | violation | `WorkersStopAfterSupervisor`: a worker whose link stays up never reads Shut Down and outlives the supervisor. |

### Bounds

- **Two interfaces.** Every interaction in the code is between the supervisor
  and one worker, or between two workers that compete for a name or for the
  supervisor's attention. Two workers are enough for each of these.
- **`MaxDown`.** It bounds the Link Down reports of one worker: 2 in the
  passing run, so a second report follows a remediation, and 1 in the
  violation runs.
- **`CrashEnabled`.** It adds kill -9 to the passing run.

Symmetry is not used: names are bound by their position in the configured
list, so the interfaces are not interchangeable.

The positional binding is not checked against the worker that connected.
A fork or exec failure, or a slower worker, makes the registry record eth1's
connection as eth0. The spec prescribes this (§4.1) and lists it as an open
question (§9), and the comment at `networkMonitor.cpp:331-343` says it "might
break if connections are not in order". So it is what the code is meant to
do, not a finding.

### Fairness

Every step either program can take is weakly fair, because the kernel
schedules both processes. Several things happen at the environment's choice
and are not fair:

- Ctrl-C and SIGINT;
- crashes;
- a link going down, since a link may stay up for ever.

### Not modelled

- The contents of the sysfs statistics and the printing.
- Whether `SIOCSIFFLAGS` succeeds. The model counts requests.
- Strangers connecting to the socket path. This is the only way the code's
  "no unassigned name" branch could run: each name gets at most one
  connection, so the branch is dead in the model.
- `listen()`'s backlog limit of 5. Two workers never fill it.
- The `select()` timeout, which only loops. The supervisor also holds a
  window between `while (running)` and `FD_SET(master_socket_fd)` in which
  SIGINT makes `FD_SET(-1)`. It shares the outcome of the `FD_ISSET(-1)` case
  and is folded into it.

## The token ring (`TokenRing.tla`)

### How the parts interact

Client 3 creates `/shm_mutex` (value 1) and `/shm_start` (value 0). It
attaches the segment with key 1234, writes the first message (from 3 to 1),
and posts `/shm_start` twice. Clients 1 and 2 retry `sem_open()` a few times,
wait on `/shm_start`, and attach. Then each client makes `NUM_MESSAGES`
passes of the same loop:

1. `sem_wait(mutex)`;
2. if `destClientNo` is its own number, write `srcClientNo`, then
   `destClientNo`, then the text;
3. `sem_post(mutex)`.

At the end, client 3 unlinks the semaphores and removes the segment.

### State and actions

- `pc`, `i`, `is_running` and `retries` are per client.
- `mutexVal` and `startVal` are the two semaphores' values. `mutexName` and
  `startName` record whether each name exists.
- `shmKey` records whether the segment exists.
- `src`, `dest` and `msgFrom` are the three fields of `struct Memory`. The text
  is abstracted to the client it names.

The actions, one per step of the code, are:

- `C3CreateMutex`, `C3CreateStart`, `C3Init`;
- `OpenMutex` and `OpenStart`, both through `OpenSem`, with the retry count;
- `WaitStart`, `Attach`;
- `LoopTest`, where client 3 also cleans up;
- `WaitMutex`, `Check`, `WriteMsg`, `Post`;
- `SigInt`.

`SigInt` models the handler: it is installed with `sa_flags = 0`, so a
blocked `sem_wait()` returns EINTR. No caller checks the result, so the client
goes on as if it held the lock. The history variable `eintr` records that
this has happened to a `sem_wait(mutex_sem)`. The passing run states its
safety properties up to that moment. Its behaviours include every behaviour
without Ctrl-C, so it checks everything a run without SIGINT would, and also
a Ctrl-C that lands in `sleep(1)`, inside the section or in the wait on
`/shm_start`. `ReplyDest` is each client's destination
formula.

### Runs

| Run | Expect | What it shows |
|-----|--------|---------------|
| `TokenRing_check.cfg` | pass | Ctrl-C may hit any client at any step. `SemaphoreAccounting`: until a blocked `sem_wait(mutex_sem)` fails with EINTR, the mutex value plus the clients inside the section is 1. `ConsistentUntilEintr`: until then, outside a write, the text names the client recorded as the sender. `Termination`: every client ends, done or failed, EINTR or not. `RingRefinement`: the ring implements `MessageRing` (below). 318,621 states. |
| `TokenRing_setup.cfg` | violation | `Termination`: client 3's `shmget()` or `shmat()` fails (`client3.cpp:87-99`). It returns from `main()`, and the `atexit` handler `cleanup_clients` unlinks both semaphores. Clients 1 and 2 have already opened `/shm_start`, so they wait in `sem_wait(start_sem)` for ever: nobody is left to post it. |
| `TokenRing_sigint.cfg` | violation | `MessageConsistent`: client 2's `sem_wait()` is interrupted while client 1 writes. It writes its header over client 1's text. |


#### The abstract ring (`MessageRing.tla`)

`MessageRing` states what the ring promises, without semaphores or shared
memory:

- one lock holder at a time;
- a message `<<from, to>>` that only the holder may answer, and only when it
  is addressed to the holder;
- an answer `<<c, Dest(c, pass)>>` made in one step;
- a release that counts as a pass.

A `broken` flag lets any state follow once a wait on the lock has been cut
short.

`TokenRing` instantiates it with this refinement mapping:

| Abstract | Detailed |
|----------|----------|
| `holder` | the client between `sem_wait()` and `sem_post()` |
| `msg` | `<<src, dest>>`, except while a client is between writing the header and the text. The message being answered is then still the old one, `<<msgFrom, writer>>`. |
| `pass` | `i` |
| `broken` | `eintr` |
| `Dest` | `ReplyDest` |

So `Check` is a stutter, and `WriteMsg` is the abstract `Answer`.

`RingRefinement` (`Ring!Spec`, in `TokenRing_check.cfg`) holds over the whole
state space. Its mutant drops the `destClientNo == CLIENT_NO` test, so every
pass answers. No other property of the ring notices this mutant; the
refinement does.

### Bounds and fairness

- **`NumMessages = 3`.** Three passes let every client answer at least once,
  since the destination alternates with the pass number.
- **`Retries = 2`.** It exercises both the retry and the give-up path.

Every step is weakly fair. `WaitMutex` is strongly fair: after each
`sem_post()` the code sleeps for a second, so a waiting client gets the
mutex. Ctrl-C and leftover IPC objects are the environment's choice.

`StaleIpc = TRUE` starts the ring from the objects a killed run leaves
behind. No configured run uses it. With it, `Termination` fails: client 3
reopens a `/shm_mutex` left at 0, because it opens without `O_EXCL`. This is
recorded as a hazard in `PROJECT.json`.

`SetupFails = TRUE` lets `C3Init` take the failure returns of `shmget()` and
`shmat()`. `CleanupClients` models `cleanup_clients`, which `atexit` runs on
that return as on the normal one: both semaphore names are unlinked, and the
segment is removed only if `shmat()` had succeeded. The client that failed
ends in `failed`. `TokenRing_setup.cfg` shows the result.

## The parent and its workers (`SignalWorkers.tla`)

### How the parts interact

The parent installs one `SA_SIGINFO` handler for SIGUSR1 and SIGUSR2. That
handler's `sa_mask` blocks both signals. SIGCHLD is set to `SIG_IGN`.

The parent blocks SIGUSR1 and SIGUSR2 and forks three `worker_process`
children, then restores its mask. It then runs three loops of the form
`while (!flag) sigsuspend()`: first for worker 3's memory warning, then for
worker 1's completion, then for worker 2's.

Each worker reads its file. After every read it checks its VmRSS, and sends
SIGUSR1 once if the VmRSS is over 50,000 kB. Only worker 3, with 120 MB,
exceeds it. When it has read the whole file, it sends SIGUSR2 and exits. The
handler identifies the sender by `si_pid`, prints, sets the flag and logs.
Worker 3's completion is logged but not printed.

### State and actions

| Variable | What it models |
|----------|----------------|
| `mainPc`, `nforked`, `loopN` | the parent's `main()` |
| `procMask` | the parent's signal mask |
| `pending` | for each signal, the `si_pid` of the first sender while it is pending |
| `frames` | the handler invocations on the parent's stack |
| `memWarned`, `completed` | the flags |
| `wpc` | each worker's position |
| `sent` | a history of the signals sent |
| `out` | a history of the lines printed |

Actions:

- `Fork`, `Unblock`;
- `Check`, which is the `while` test, and `CallSuspend`;
- `WaitAll`, `Finish`;
- `Deliver(s)`;
- `HandlerEnter`, `HandlerPrint` (printf), `HandlerLog` (`dhsb_log_event`
  and return);
- `WorkerRun(w)`, `WorkerComplete(w)`.

A standard signal is pending at most once: `Send` drops a second one. A
signal is delivered only when neither the process mask (the `sigsuspend()`
mask while the parent sleeps) nor an active handler's mask blocks it. A
delivery during `sigsuspend()` makes the call return after the handler.

### Runs

| Run | Expect | What it shows |
|-----|--------|---------------|
| `MCProcesses_check.cfg` (with the harnesses below) | pass | `NoReentrantStdio`: a handler's `printf()` never runs while another `printf()`, a handler's or `main()`'s last one, is under way. `WarningDelivered`: worker 3's warning is always printed. Part4 alone has 3,021 states. |
| `SignalWorkers_coalesce.cfg` | violation | `CompletionNotLost`: workers 1 and 2 finish while the parent is still forking, so their two SIGUSR2s merge and worker 2's completion is lost. The parent then sleeps for ever in the last loop. |

The lost wakeup at line 158 is recorded as a hazard and has no run. The
signals are unblocked before the loops, so a signal handled between the
`while` test and `sigsuspend()` leaves the parent asleep waiting for an event
that has already happened. It ends in the same endless sleep as the
coalescing run.

### Bounds and fairness

- **No bounds are needed.** The code fixes three workers, each sending at
  most two signals, so the state space is finite.
- **`EmptyFiles = {}`.** Every worker reads at least once. With worker 3's
  file empty, the warning is never sent and the parent hangs in its first
  loop at once.

Every process step is weakly fair. `Deliver` is strongly fair: the kernel
delivers a pending, unblocked signal at the next return to user mode, though
an active handler may block it for a while.

### Not modelled

- **The `OTHER` arm of `HandlerEnter`.** It models a signal that matches no
  branch, for example a repeated one or one from an unknown pid. It is dead
  in the model, because each worker sends each signal at most once and only
  worker 3 passes the VmRSS limit.
- **The output order.** The comment at `parent_main.c:156` expects the
  warning, then worker 1, then worker 2. The handler prints in arrival order,
  and the `usleep()` after the warning orders only worker 3's own lines, so
  this is not guaranteed. It affects only what is printed, and no property
  is about it.
- **Failures of `open()`, `malloc()`, `fork()` or `execl()`.** Each ends a
  worker, or the parent, without a signal.
- **The log file's contents and the `fcntl` lock.** The lock is only taken by
  the parent.

## The test harnesses and their worker (`WorkerTest.tla`, `MCProcesses.tla`)

### How the parts interact

Part3's `worker_process.c` is driven by two harnesses. Each installs an
`SA_SIGINFO` handler for SIGUSR1 and SIGUSR2, with an empty `sa_mask`, and
forks one worker.

The worker opens its file and allocates 55 MB. It checks VmRSS once, then
allocates 60 MB more, and reads the file in 4 kB chunks, checking VmRSS after
each read. The first check that reads `/proc/self/status` sends SIGUSR1;
`sigusr1_already_sent` stops any further warnings. At the end of the file the
worker sends SIGUSR2 and calls `exit(0)`. It has four `exit(1)` paths: open,
either malloc, and the status file inside the loop.

- **Part3** (`Part3/test_worker_main.c`). The handler prints and increments
  `dhsb_signals_received`. `main()` runs
  `while (dhsb_signals_received < 2) pause();`, then `waitpid()`.
- **Part2** (`Part2/test_worker_main.c`). The handler prints and sets
  `sigusr1_received` or `sigusr2_received`. `main()` writes a 60 MB file,
  forks, and retries `waitpid()` on EINTR. It fails the test unless
  `sigusr2_received` is set.

### State and actions

| Variable | What it models |
|----------|----------------|
| `harness` | which parent runs: `"Part2"` or `"Part3"` |
| `mainPc` | the parent's `main()` |
| `count` | Part3's `dhsb_signals_received` |
| `received`, `result` | Part2's flags and the status it returns |
| `pending` | the signals sent and not yet delivered |
| `frames` | the handler invocations on the stack; each has its signal, its position (`print`, `load`, `store` or `flag`) and the value it loaded |
| `wpc`, `nread`, `size` | the worker's position, the chunks it has read, the file's length in chunks |
| `memHigh`, `usr1Sent` | `mem_usage > 50000` and `sigusr1_already_sent` |
| `sent`, `wexit` | the history of the worker's kills, and how it exited |
| `raced` | history: a signal was handled in Part3's test/`pause()` window, or between a handler's load and store |

Worker actions: `Open`, `AllocInitial`, `InitialCheck`, `AllocData`, `Read`,
`LoopCheck`, `Complete`. Each failure is a disjunct that ends in `exit(1)`.

Parent actions:

- `Fork`;
- Part3's `Test`, `CallPause` and `WaitChild`;
- Part2's `WaitPid`;
- `Deliver(s)`;
- `HandlerPrint`, then Part3's `HandlerLoad` and `HandlerStore`, or
  Part2's `HandlerFlag`.

Only the signal being handled is blocked, so the other signal can nest
inside a handler. In particular it can land between `HandlerLoad` and
`HandlerStore`: `dhsb_signals_received++` on a `volatile` is a load, an add
and a store. A delivery while Part3 is in `pause()` makes `pause()` return
after the handler.

Part2's `WaitPid` is enabled only once the worker has exited and nothing is
pending. The kernel delivers a pending signal when `waitpid()` returns to user
mode, before `main()` reads the flags.

### Runs

`MCProcesses.tla` checks Part4 (`SignalWorkers`), Part2, Part3, FinalExam1
(`SemMutex`), Lab5b (`SignalMonitor`) and Lab6 (`CommandSocket`) in one
model; the last three are described below.
`Init` sets `prog`, which never changes, to the program the behaviour runs.
The other module's variables stay at their initial values. Each module's
fairness is asserted under `prog = ... =>`, so it constrains only the
behaviours of that program. The state space is the sum of the programs'.

TLC turns each implication `prog = ... => Fairness` into a disjunction in
every liveness check, which doubles the work per implication. The Lab5b and
Lab6 fairness is therefore written as `WF_vars(prog = ... /\ A)`, which says
the same because `prog` never changes.

| Run | Expect | What it shows |
|-----|--------|---------------|
| `MCProcesses_check.cfg` | pass | The Part4 properties above, and three more. `ReportsCompletion`: Part2's test passes exactly when the worker reached `exit(0)`; a SIGUSR2 sent just before the exit is never missed. `LeavesLoopOnlyAfterCompletion`: Part3's parent leaves its loop only after the worker's SIGUSR2, because at most one SIGUSR1 is ever counted. `ParentReturns`: the parent returns, unless one of these happened: a signal was handled in the test/`pause()` window, an increment was interrupted, the worker took an `exit(1)` path, or the worker never read VmRSS. The FinalExam1, Lab5b and Lab6 properties are described below. 20,281 states in all, about 70 s. |

The hangs that `ParentReturns` admits are real and reachable. TLC reaches
`pause()` with the count already at 2 (lost wakeup). It also reaches a count of
1 after both handlers have returned (lost increment). `ParentReturns` does not
forbid them; it shows that nothing else in the two programs makes the parent
hang. The run below shows that they do make it hang.

| Run | Expect | What it shows |
|-----|--------|---------------|
| `WorkerTest_hang.cfg` | violation | `CountsBothSignals`: the harness says the parent waits "for 2 signals from worker". Here the worker reads VmRSS over the limit, sends SIGUSR1 and SIGUSR2, and exits 0, yet the parent never returns. In TLC's trace, SIGUSR1 is handled after the loop's test and before `pause()`. SIGUSR2 then interrupts that handler between its load and its store. The count ends at 1, and `pause()` waits for ever. 447 states, Part3 alone. |

### Bounds and fairness

- **`FileChunks = {0, 2}`, `MaxReads = 2`.** Part2's file is never empty.
  An empty file is the one case in which the read loop never runs. Two reads
  reach the loop's second VmRSS check, which `sigusr1_already_sent` must
  silence.
- **Fairness.** Every step is weakly fair, and so is `Deliver(s)`. A pending
  signal is blocked only while its own handler runs, and the worker sends
  each signal once, so it stays deliverable until it is delivered.

### Not modelled

- **The text printed and the VmRSS figures.** The worker touches 55 MB
  before its first check, so every check that reads `/proc/self/status` is
  over 50,000 kB.
- **Part2's `create_dummy_binary_file()`.** It is folded into `Fork`: a
  failed write or fork ends `main()`, and otherwise the worker's file is
  non-empty.
- **A `waitpid()` error other than EINTR.** It cannot happen here: the child
  exists and is not reaped elsewhere.
- **Nested `printf()` in the handlers.** With the empty `sa_mask`, the
  handlers nest as soon as the two signals arrive close together. This is
  recorded as a hazard and has no invariant.

## The semaphore mutex (`SemMutex.tla`)

### How the parts interact

`FinalExam1.c` creates the System V semaphore `KEY` 1234 and sets it to 1.
It forks five children and then calls `wait()` five times. After that it
removes the semaphore with `IPC_RMID`. Each child does three things through
`performSemaphoreOperation()`:

1. `semop(-1)`, which blocks while the value is 0;
2. its critical section (a `printf()` and `sleep(2)`);
3. `semop(+1)`, and then `exit()`.

The semops pass `sem_flg = 0`, not `SEM_UNDO`. If a child is killed inside
its critical section, the kernel does not give its unit back.

### State and actions

| Variable | What it models |
|----------|----------------|
| `ppc` | where the parent is: `semget`, `setval`, `fork`, `wait`, `rmid`, `done`, `failed` |
| `semval` | the semaphore's value; `Removed` (-1) after `IPC_RMID` |
| `nforked`, `nwaited` | the loop counters of the two `for` loops |
| `cpc[c]` | where child `c` is: `none`, `enter`, `cs`, `exited`, `killed` |
| `crashes` | children killed in their critical section so far |

`SemGet`, `SetVal`, `Fork` and `RemoveSem` each have a failure disjunct for
their `exit(EXIT_FAILURE)`. A failed `fork()` leaves the children already
forked running. `Wait` returns once there is an ended child it has not reaped.
`Enter(c)` and `Leave(c)` are the two semops. `Crash(c)` kills a child in its
critical section.

The semop failure path is left out because it is dead code with one copy of
the program. The semaphore is removed only after all five children have been
reaped.

### Runs

`SemMutex` is checked in `MCProcesses_check.cfg`. On its own it has 945
states.

- `SemaphoreAccounting` (invariant): once a child runs and until the
  semaphore is removed, three things add up to 1: the semaphore's value, the
  children in their critical sections, and the children killed there. So at
  most one child is ever inside, and a crash's unit is lost rather than
  returned.
- `AllReaped` (liveness): the parent returns or fails, unless a child was
  killed in its critical section. TLC confirms the exception is needed: with a
  crash, the remaining children block in `semop(-1)` and the parent blocks in
  `wait()` for ever.

### Bounds and fairness

- **The five children.** They are `num_processes` in the code, not a
  parameter.
- **`MaxCrashes = 1`.** One lost unit already blocks every later child.
- **Fairness.** All actions are weakly fair except `Crash`. Weak fairness of
  `Enter(c)` suffices because each child enters at most once, so only
  finitely many others can take the semaphore ahead of it.

### Not modelled

- **The fixed `KEY` shared by two copies of the program.** A second copy's
  `SETVAL` would reset the value under a holder. Its `IPC_RMID` would make the
  waiting children's `semop()` fail with `EIDRM`. This is recorded as a hazard.
- **The `printf()` output and the `sleep(2)`.**

## The signal-driven monitor (`SignalMonitor.tla`)

### How the parts interact

Lab5b's `intfMonitor` installs one handler for SIGUSR1, SIGUSR2, SIGINT and
SIGTSTP. The handler uses an empty `sa_mask`, so while it runs only its own
signal is blocked. It prints a line, and then:

- SIGUSR1 sets `isRunning` to true;
- SIGUSR2 sets it to false;
- SIGINT and SIGTSTP are discarded.

`main()` sleeps in `while (!isRunning) sleep(1)` until it is started. It then
writes statistics once a second while `isRunning` stays set, closes the log
and returns. The lab's parent, which is not in the repository, and the
terminal send the signals. The model treats the sender as an environment: up
to `MaxSends` signals, of any kind, at any time.

### State and actions

| Variable | What it models |
|----------|----------------|
| `mpc` | where `main()` is: `start`, `wait`, `sleep`, `loop`, `stats`, `close`, and `done`, `killed` or `stopped` |
| `isRunning` | the global flag |
| `pending` | the signals sent and not yet delivered; a standard signal is pending at most once |
| `frames` | the handler frames on the stack, each with its signal and whether it has printed |
| `lastSent`, `nsent` | the sender's last signal and its count |
| `lost` | history: a SIGUSR2 handler stored FALSE where that does not stop the program |

- **`Deliver(s)`.** It delivers the lowest-numbered deliverable pending
  signal, as Linux does. Before `Register` (`sigaction()`), a signal takes its
  default action: SIGTSTP stops the process and the others kill it.
- **The handler.** `HandlerPrint` is its `cout`, and `HandlerSet` the
  assignment that follows for SIGUSR1 and SIGUSR2.
- **`main()`.** `WaitCheck`, `Sleep`, `LoopCheck`, `Collect` (the four
  counters read, the line written, the `sleep(1)`) and `Close` run only while
  no handler is on the stack.

### Runs

`SignalMonitor` is checked in `MCProcesses_check.cfg`, where on its own it has
2,535 states.

`StopHonoured`: if the last signal sent is SIGUSR2, the monitor ends, unless
the stop was undone. TLC reaches both ways a stop is undone, and finds
nothing else:

- **The stop lands while `main()` is still in its start loop.** This happens
  when SIGUSR2 comes before SIGUSR1, or within the second after it. The
  monitor then never starts and waits for ever.
- **The stop runs on top of an unfinished SIGUSR1 handler.** If SIGUSR1 has
  printed but not yet stored TRUE, its store comes last. When both signals are
  pending at once, Linux delivers SIGUSR1 first, so SIGUSR2 lands exactly
  there.

### Bounds and fairness

- **`MaxSends = 3`, over all four signals.** This allows a start, a stop and
  a Ctrl-C or Ctrl-Z between them, and two signals pending at once.
- **Fairness.** The monitor's one thread is weakly fair, and so is the
  kernel's delivery. At most one step of the thread is enabled at a time, so
  this is fairness of each step. The sender is not fair: it may stop at any
  point.

### Not modelled

- **The statistics and the log file.** Their values do not affect control.
- **`isRunning` as a data race.** It is a plain `bool` and not a
  `volatile sig_atomic_t`. The model reads it afresh at each test, which the
  opaque calls in both loops force on the compiler.

## The command socket (`CommandSocket.tla`)

### How the parts interact

Lab6's server does the following, on the Unix stream socket `/tmp/lab6`:

1. It removes any stale `/tmp/lab6`, binds, listens, and accepts one client.
2. It writes `Pid` and reads the answer.
3. It writes `Sleep` and reads `Done`.
4. It writes `Quit`, closes, and removes the path.

The client connects once and loops: it reads, and compares the buffer with
the three commands. It answers `Pid` with its pid and `Sleep` with `Done`
after `sleep(5)`, and leaves the loop on `Quit`. Neither side checks a
`read()` or `write()` result, and neither installs a signal handler.

### State and actions

| Variable | What it models |
|----------|----------------|
| `spc`, `cpc` | where the server and the client are |
| `s2c`, `c2s` | the tokens queued in each direction of the stream |
| `srvEnd`, `cliEnd` | each side's end of the connection: `none`, `open`, `closed` |
| `cbuf` | the client's buffer after its last `read()` |
| `kills` | processes killed so far |

- **Reads.** A `read()` takes everything queued, as a Unix stream socket
  returns it. Once the peer's end is closed and nothing is queued, a read
  returns at once.
- **Writes.** A write to a closed peer raises SIGPIPE, which kills the
  writer.
- **`Connect`.** It succeeds only while the server waits in `accept()`.
  Before that, the path is missing, stale, or not yet listening.
- **Failures.** `socket()`, `bind()`, `listen()` and `accept()` may each
  fail. `KillServer` and `KillClient` model a Ctrl-C or another kill.

### Runs

`CommandSocket` is checked in `MCProcesses_check.cfg`, where it has 85 states.

- **`OneCommandPerRead`.** No read of the client holds two commands. Nothing
  frames them, and `strcmp()` needs each whole and alone; this holds only
  because the server reads each answer before it writes the next command.
- **`ServerReturns`.** Once a client has connected, the server ends whatever
  the client does. A killed client makes the server's reads return 0, and its
  next write raises SIGPIPE. A client that never connected leaves it in
  `accept()` for ever. This happens when the client is started before the
  server's `listen()`, because it does not retry.
- **`ClientReturns`.** The client ends unless the server failed or was
  killed. Then `read()` returns 0 or -1 at once, the buffer matches nothing,
  and the client spins for ever. TLC reaches this.

### Bounds and fairness

- **`MaxKills = 1`.** This allows one kill of either process, at any point.
- **Fairness.** Each process is weakly fair. Its steps are told apart by its
  program counter. Kills are not fair.

## Programs not modelled

- **Lab7.** The parent and its child each `exec` one of the two commands on a
  pipe. The code does nothing concurrent before the `exec`s, and it closes
  the unused pipe ends correctly. What remains is the `strcpy()` of each
  argument into a 64-byte buffer, which a unit test reaches.
- **Lab8.** The server forwards type-4 messages on a System V queue to the
  destination client, and sends `Quit` to clients 1 to 3 on SIGINT. Its
  clients and `client.h` are not in the repository. Every blocking `msgsnd()`
  and every message the server sees depends on them, so a model would check
  an invented environment.

## The threaded server (`ThreadedServer.tla`, `MCThreadedServer.tla`, `MCServers.tla`)

### How the parts interact

`main()` sets the listener non-blocking and loops while `is_running` is set.
Each pass does three things:

1. it tries `accept()`;
2. on success, it records the fd and starts a `receive_thread`;
3. under `queue_mutex`, it prints and pops every entry of `message_queue`,
   then sleeps a second.

Each receive thread loops while `is_running` is set. It calls `read()` with a
5 s `SO_RCVTIMEO`:

- data is pushed, as one string, under the mutex;
- end of stream ends the thread;
- an error or a timeout loops.

SIGINT clears `is_running`. `main()` then writes `Quit` to each fd and closes
it, joins every thread, and closes the listener.

### State and actions

| Variable | What it models |
|----------|----------------|
| `is_running` | the global flag |
| `mainPc` | where `main()` is |
| `backlog` | connections waiting in the listener |
| `client_fds` | accepted connections, in accept order |
| `shutIdx` | how far the shutdown loop has got |
| `srvFd` | the server's fd for each peer |
| `tpc` | each thread's position |
| `message_queue` | the shared queue, one entry per `read()` |
| `printed` | what `main()` has printed |
| `cstate`, `nsent`, `wire` | each peer's state, its count of sent messages, and its unread bytes |

Actions:

- `SigInt`;
- `MainTest`, `MainAccept`, `MainDrain`, `ShutdownOne`, `MainJoin`;
- `ThreadTest`, `ThreadRecv`, `ThreadEof`, `RecvTimeout`;
- for the peers, `PeerConnect`, `PeerSend`, `PeerClose`.

A message is `<<peer, number>>`. One `read()` returns everything the socket
holds. A send after the server closed the fd is discarded. Each push and each
drain is one step, because `queue_mutex` is held around them.

### Runs

| Run | Expect | What it shows |
|-----|--------|---------------|
| `MCServers_check.cfg` (with the logger, below) | pass | `StreamIntact`: while a peer's connection is open, its messages, printed then queued then unread, are exactly what it sent, in order. `ShutdownCompletes`: after Ctrl-C the server always exits. Lab9 alone has 131,740 states. |
| `MCThreadedServer_lost.cfg` | violation | `NoMessageLost`: a thread in `read()` when Ctrl-C comes reads one more message and pushes it. `main()` has already left its loop, so it joins the thread and returns with the message unprinted. |

### Bounds and fairness

- **Two peers, two messages each.** This is enough for two threads to push
  between two drains, and for a message to arrive during the shutdown.

`main()` and every thread are weakly fair. `RecvTimeout` is part of each
thread's fair step, which `SO_RCVTIMEO` justifies: a `read()` on a silent
socket returns within 5 s. Without it, a silent peer would block `pthread_join()`
for ever. SIGINT and the peers are not fair.

### Not modelled

- **The 4096-byte buffer.** `read()` can fill it with no terminating NUL, and
  then `string(buffer)` reads past the end. The model does not represent byte
  lengths, and a unit test with a 4096-byte message reaches this directly.
- **`is_running` as a data race.** It is a plain `bool`, modelled as an atomic
  flag.
- **Bind failure and the `listen()` backlog limit.** With two peers the
  limit is never reached.

## The logger and its server (`LogSystem.tla`, `MCServers.tla`)

### How the parts interact

The client library (`Logger.cpp`) runs inside an application. That
application is not in the repository.

- `InitializeLog()` binds UDP port 8081 and starts `listen_for_commands`.
- `Log()` drops a message below `log_level` and sends the rest, one datagram
  each, to port 8080.
- `ExitLog()` clears `listen_flag`, joins the listener and closes the socket.

The server (`LogServer.cpp`) truncates `server_log.txt`, binds port 8080 and
starts `receive_logs`, which appends every datagram to the file. Its menu
offers three options:

- **1:** set `current_server_log_level`, send `Set Log Level=<n>` to port
  8081, sleep 5 s, and dump the lines of exactly that level;
- **2:** dump the lines of that level or above;
- **0:** shut down and join the receive thread.

Both threads use a 1 s `SO_RCVTIMEO`. A dump classifies each line with
`get_log_level_from_string`: the first of CRITICAL, ERROR and WARNING found
anywhere in the line.

### State and actions

| Variable | What it models |
|----------|----------------|
| `capp`, `client_fd`, `listen_flag`, `lpc`, `log_level` | the application's position, the client socket, the listener flag, the listener's position, the level |
| `nlogs`, `sent` | the `Log()` calls made, and the datagrams sent |
| `spc`, `srvSock`, `shutdown_flag`, `rpc` | the server's `main()`, its socket, the flag, the receive thread |
| `current_server_log_level`, `ncmds` | the server's level, and the option-1 commands given |
| `file`, `shown` | `server_log.txt`, and the last dump: mode, level, lines read, lines printed |
| `toServer`, `toClient` | datagrams queued on ports 8080 and 8081 |

A message is `[id, lvl, word]`. `word` stands for the highest level name
that appears elsewhere in the line: in the timestamp, file, function or text.
`get_log_level_from_string` is therefore the check, in the code's order,
over `{lvl, word}`.

Loopback UDP neither reorders nor duplicates a datagram. It drops one sent
to an unbound port, and it may drop one to a bound port whose receive buffer
is full: `Log()` therefore either queues its datagram or loses it. Closing a
socket discards what it holds. `ReceiveLog` either appends the line or, when
`log_message()`'s `fopen()` fails, prints an error and drops it.

Actions:

- client: `InitializeLog` (success, or one of its three failures),
  `SetLogLevel`, `Log`, `ExitLogBegin`, `ExitLogEnd`, `ListenerRecv`,
  `ListenerExit`;
- server: `ServerStart` (bind or fail), `SetLevelOption`, `DumpExact`,
  `DumpOption`, `ShutdownOption`, `ServerJoin`, `ReceiveLog`, `ReceiveExit`;
- `BadLevelOption`: a non-numeric level makes `std::stoi` throw, and the
  server aborts.

`SetLevelOption` refuses a number outside 0..3. Otherwise it changes the
server's level first; then either `socket()` fails and the menu returns, or
the command is sent.

### Runs

| Run | Expect | What it shows |
|-----|--------|---------------|
| `MCServers_check.cfg` (with Lab9, above) | pass | `LogFileInOrder`: the file followed by the queued datagrams holds only lines `Log()` sent, each at most once, in the order sent. Lines may be missing: see below. `CumulativeDumpComplete`: option 2 prints every line it read that was logged at its level or above, although lines mention other level names. `JoinsReturn`: `ExitLog()` and the server's shutdown both return. The logger alone has 277,670 states; with Lab9, 453,570 states in about 3 minutes. |

`MCServers.tla` checks this module and `ThreadedServer` in one model, as
`MCProcesses.tla` does for the signal programs. `Init` chooses the program,
and the other module's variables keep their initial values. Each module's
fairness is restated as `WF_vars(prog = ... /\ A)`. Steps that are told
apart by one routine's pc share one condition: `main()` of Lab9, and the
server's main loop here. They are never enabled together, so fairness of
their disjunction is fairness of each. The two receive loops keep one
condition per step, because a datagram and the exit flag can both be
present at once.

The mutants show what each property guards against:

- **A dropped range check** at option 1 breaks `TypeOK`.
- **A receive that leaves the datagram queued** breaks `LogFileInOrder`.
- **Checking WARNING before CRITICAL** breaks `CumulativeDumpComplete`.
- **A `recvfrom()` without its timeout** breaks `JoinsReturn`.

### Bounds and fairness

- **Messages logged at DEBUG or CRITICAL, whose text may mention WARNING;
  two `Log()` calls.** This covers a CRITICAL line that also says WARNING,
  and the client's filter both passing and dropping a line.
- **Option 1 with 0, 3 or 4; two commands.** This covers both dump levels and
  the refused input.

The threads, the join in `ExitLog()`, the server's start-up, its sleep and
its join are weakly fair. The receive timeouts justify this for the loops.
The application's calls and the operator's choices are not fair.

### Not modelled or not checked

- **Whether the two levels agree.** The code does not ensure it. The command
  is lost if the client has not bound port 8081. A failed `socket()` at
  option 1 leaves the server's level changed with nothing sent, and
  `SetLogLevel()` overrides the server. These paths are in the model, and
  the lost command is recorded as a hazard.
- **An exact dump can show a line under the wrong level.** A WARNING line
  whose text says CRITICAL appears in the CRITICAL dump. The model can
  express this with `word`, but no run checks it.
- **Formatting.** The timestamp and wording are abstracted, and so is the
  blank line `log_message()` writes after each entry.
- **Lost lines.** A datagram dropped on a full buffer and a line dropped by a
  failed `fopen()` are both in the model. Nothing in the code detects either,
  so no property forbids a missing line; `LogFileInOrder` checks that what
  does arrive is neither repeated nor reordered. The hazard is recorded in
  `PROJECT.json` without a property.
- **The 1024-byte receive buffer.** It truncates long lines. Lengths are not
  modelled.
- **`log_level` as a data race.** It is a plain `int`, taken as atomic.

## Plan

1. Done: the network monitor, the token ring, the parent and its workers,
   the Part2 and Part3 test harnesses, the FinalExam1 semaphore mutex, the
   Lab5b monitor, the Lab6 client and server, the threaded server, and the
   logger with its server.
2. Abstract specifications, checked by refinement: done for the token ring
   (`MessageRing`); the supervisor's connection registry remains.
3. Lab8, if its clients are added to the repository: the forwarding loop
   and its blocking `msgsnd()` calls depend on them.
