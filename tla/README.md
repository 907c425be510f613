# Verification of the ALNP programs

The repository is a collection of small, self-contained C programs on Linux
system and network programming, one directory per chapter.  Each program is a
system of its own: a few threads, processes or signal handlers that meet at a
queue, a semaphore, a session table or a signal.  There is no code shared
between programs and there are no tests, so what the programs promise is read
from the code itself.

This directory models the programs whose correctness depends on interleaving,
on crashes, on reused identifiers or on limits, checks the models with TLC and
proves theorems about them with TLAPS.

## Inventory

| Part | State it keeps | Operations | How its parts meet | What is hard | What makes it correct |
|---|---|---|---|---|---|
| Work queue (`Chapter08/cond_var.c`) | ring `item`, `idx`, `cnt`; mutex; condition variable | `push_item`, `pop_item`, `process_job` | one reader thread, several consumers | lazy wrap-around, broadcast after unlock, full ring | a bounded FIFO, no lost wake-up, no byte twice |
| Work queue with notification (`Chapter10/cond_var_rts.c`) | the same, the process's queue of real-time signals | also `sigqueue`, `sigwaitinfo` | consumers to signal thread | limit on queued signals, start order of threads | every job reported once |
| epoll server with time-outs (`Chapter11/epoll_timerfd.c`) | `fds_list`, epoll set, timers, descriptors | accept, receive, time out, `add_ev`, `del_ev` | one thread, clients and timers | descriptor reuse within a batch, failure half-way through `add_ev` | table and descriptors agree, silent sessions are closed |
| Counting semaphores (`Chapter05/posix_named_sem_cnt.c`, `posix_nameless_sem.c`) | the semaphore, `cur_child` | fork or create, exit, abort, stop and continue, SIGCHLD handler, join | main, its children or threads, the handler | merged signals, one `waitpid` per signal, signals without a dead child, a thread that does not post | tokens are conserved, the lost one and those of empty handler calls excepted |
| System V semaphores (`Chapter05/sysv_sem.c`, `sysv_sem_zwait.c`) | the set behind a fixed key, undo adjustments | create or attach, `SETVAL`, wait, post, wait for zero, remove | several programs at one key | attach before `SETVAL`, abort inside, removal under others | units are conserved, everybody ends |
| Multiplexing servers (`Chapter07`) | session arrays, epoll set | accept, receive, delete | one thread, clients | deletion while iterating, new connections before sessions | array and open sockets agree, ended sessions are closed |
| Signal-driven server (`Chapter10/io_rts.c`) | open sockets, signal queue | accept, receive | one thread, clients, kernel signals | lost edges, overflow to SIGIO, stale `si_fd` | no ready socket is forgotten |
| Child pool (`Chapter11/io_signalfd_chld.c`), SIGCHLD handlers (`Chapter09/sig_waitid.c`, `sig_nocldstop.c`) | children | fork, reap, re-fork | parent, children, merged signals | merged SIGCHLD, stopped children | nothing is left unreaped, the pool is refilled |
| Mutex kinds, cancellation, process-shared mutex (`Chapter08/mutex_type.c`, `cleanup_mutex.c`, `mutex_pshared.c`) | a mutex; `t_arg`; stdout's lock; the shared memory object with `prev_pid`, `prev_idx` | create, lock, relock, unlock, cancel, join, map, overwrite | threads at one mutex, or several processes at one in shared memory | relocking per kind, cancellation inside a print, a mutex overwritten in use, a process that dies between wake-up and lock | the mutex is held by a thread that runs; it is known who is left blocked |
| Forking servers (`Chapter06/inet_tcp_serv1.c`, `inet6_tcp_serv1.c`, `unix_tcp_serv.c`) | the session of each child | accept, receive, echo | children at one listener, clients | error paths that end a child or forget its socket | children are lost only for a reason, an ended session frees its child |
| Asynchronous copy (`Chapter10/aio_listio.c`) | buffers, control blocks, requests in flight | read, hand over a batch, wait, complete | main, the kernel's writes, the notification thread | reuse of buffers, requests refused or failed | the copy equals the source |
| Message queues (`Chapter05/posix_msq.c`, `posix_msq_sigev.c`, `sysv_msg.c`, `sysv_msg_regex.c`) | the queue behind a name or a key, the notification registered with it | create or attach, send a file line by line, receive, be notified, unlink | senders and receivers that are started and killed | the name is unlinked under others, one-shot registration, full queues, an identifier nobody looked at | one queue unless unlinked, lines in order, no receiver left asleep beside a message |
| Barrier, signal demos, timers, one-request copy | a barrier, a signal mask, a timer | one blocking call each | threads that wait once | - | not modelled |
| Clients, utilities, mappings, name resolution, clocks | none that lasts | straight-line system calls | - | - | not modelled |

`PROJECT.json` lists the same parts with their files and, under `hazards`, the
places in the code that are hard to test.

## Modules

| Module | Models | State and actions |
|---|---|---|
| `LossyFifo` | what a work queue promises | `queue`, `offered`, `got`; `Accept`, `Refuse` (only when full), `Take` |
| `WorkQueue` | `Chapter08/cond_var.c` | the fields of `struct workqueue`, one `pc` per thread, the local variables `item`, `j`; one action per step between two points another thread can notice |
| `WorkQueueRts` | `Chapter10/cond_var_rts.c` | extends `WorkQueue` by the signal queue, the signal thread and the tids stored by `pthread_create` |
| `WorkQueueProofs` | - | theorems about `WorkQueue` and `WorkQueueRts` |
| `EpollTimerfd` | `Chapter11/epoll_timerfd.c` | `fds_list`, what each descriptor is, the epoll set, the batch in hand; one action per outcome of an event |
| `CountingSem` | `Chapter05/posix_named_sem_cnt.c`, `posix_nameless_sem.c` | the semaphore, main, each child or thread, the children stopped, the pending signal and the handler, which interrupts main; `program` chooses between the two |
| `SysvSem` | `Chapter05/sysv_sem.c`, `sysv_sem_zwait.c` | the key, the values of sets, each program's main, children with their undo adjustment, zero-waiters; the programs of `ZwaitPrograms` are `sysv_sem_zwait.c`, and both kinds meet at one key |
| `Sockets` | what event-driven servers and their clients share | the state of each connection and which descriptor it has, how many descriptors there are (`nofile`); clients connect, send, end or reset, and connect again when they were refused |
| `SessionServer` | what an event-driven server promises | each connection's state alone; a server accepts or refuses (then the client may try again), closes what it accepted and for a reason, and closes every ended session that is not excused |
| `SelectServer` | `Chapter07/io_select.c` | `sockarr`, the `fd_set` of the last `select()`, the scan position |
| `PollServer` | `Chapter07/io_poll.c` | `pollfds` with old `revents`, `cnt_fd_socket`, `ret_poll` |
| `EpollServer` | `Chapter07/io_epoll.c` | the epoll set, the batch in hand with its descriptor reuse, urgent data, the array of `max_ep_events` that `epoll_wait` may overrun |
| `RtsServer` | `Chapter10/io_rts.c` | the queue of real-time signals, its overflow into SIGIO, armed sockets |
| `SocketServers` | the four servers, one of which runs | composes them over one set of clients and maps each to `SessionServer` |
| `PosixMsq` | `Chapter05/posix_msq.c`, `posix_msq_sigev.c` | queues with identities and the name that leads to one, each program's descriptor, line and place, the one-shot registration; kills and the unlink command belong to the user |
| `SysvMsg` | `Chapter05/sysv_msg.c`, `sysv_msg_regex.c` | the queues of keys and of identifier 0, which is the one the programs work on; types, `IPC_NOWAIT` |
| `MessageQueues` | both families | composes them, one family at a time |
| `MutexThreads` | the `main()` of two programs | creating and joining threads around one mutex |
| `MutexType`, `CleanupMutex` | `Chapter08/mutex_type.c`, `cleanup_mutex.c` | a `pc` per thread, the owner and, by `kind`, how often it locked; deferred cancellation and stdout's lock |
| `MutexPshared` | `Chapter08/mutex_pshared.c` | the shared memory object, the mutex as the C library keeps it (word, owner, kind), sleepers and whom a wake-up can reach, `prev_pid` and `prev_idx` as `prev` |
| `Mutexes` | the three programs, one of which runs | composes them |
| `MutexesProofs` | - | theorems about `Mutexes` |
| `SigchldLoops` | `Chapter11/io_signalfd_chld.c`, `Chapter09/sig_waitid.c`, `sig_nocldstop.c` | children with their unreported news, one pending SIGCHLD, the parent's loop around `waitid()`; `program` chooses between the three |
| `PreforkServer` | `Chapter06/inet_tcp_serv1.c`, `inet6_tcp_serv1.c`, `unix_tcp_serv.c` | the session and the forgotten sockets of each child; `program` chooses the error paths |
| `PreforkServerProofs` | - | theorems about `PreforkServer` |
| `CountingSemProofs` | - | theorems about `CountingSem` |
| `SocketServersProofs` | - | theorems about `SocketServers` |
| `Chapter05Proofs` | - | theorems about `SysvSem` and about `MessageQueues` |
| `Chapter11Proofs` | - | theorems about `EpollTimerfd` and about `SigchldLoops` |
| `AioListio` | `Chapter10/aio_listio.c` | `rbuf`, `aio_blk`, the requests in flight, the notification, the two files as sequences of chunks; `async` chooses the build |
| `AioListioProofs` | - | theorems about `AioListio` |

`MC*` modules and `.cfg` files instantiate them for TLC.  Operators named
`Mut...` are deliberately wrong variants of the definition that follows them;
no specification uses them.

Abstractions used throughout: printing is left out; a byte is its position in
the stream; a connection or a semaphore set has an identity that is never
reused, so that an old and a new owner of the same number can be told apart; a
call that ends the process (`pr_crt`, `exit`) stops all threads in one step.
Failures of start-up calls before the first shared state exists (`calloc`,
`getaddrinfo`, `bind`) are not modelled: they end the program at once.  Where a
program would go on after such a failure (`ftok`, `fopen` and `mq_open` of the
queue programs, `pthread_create` of `mutex_pshared.c`) it is.

## Runs

One run per program or family, named after its module; its configuration is
`MC<module>.cfg`.  In most of them the type invariant is the first conjunct of
the main invariant.  The message queues, the mutex programs and the event-driven
servers are checked as one composition each, whose initial state chooses the
program.

| Run | Instance | Shows |
|---|---|---|
| `workqueue` | ring of 4, reads of 1 or 2 bytes, stream of 7, two consumers | indices stay inside the ring, `j` is the first free slot, no lost wake-up, refinement of `LossyFifo`; every byte in the ring is processed unless the process exits |
| `workqueue_rts` | ring of 2, stream of 4, two queued signals | notifications neither lost, merged nor invented (jobs and signals of different consumers may come in different orders); tid known; all reported unless the process exits |
| `epoll_timerfd` | 2 connections, 1 to 4 descriptors, batches of 4 | table and descriptors agree; no exit before a shortage; time-outs justified; silent sessions are closed |
| `counting_sem` | 4 children, the third gives nothing back, 0 to 2 tokens, 2 stops and continues | tokens, reaping and the final state, and how far handler calls without a dead child can upset them; main ends unless signals merge or its token is lost |
| `sysv_sem` | 2 programs, one of each kind, 3 children each, the third aborts | units conserved, undo exact, who removes a set under whom, a zero-waiter let go only when all units are inside, every program ends or waits for its zero-waiter only |
| `socket_servers` | 3 connections (2 for epoll), arrays with room for 2 sessions, `ep_events` for 2, 3 queued signals, 1 to 3 descriptors | all four implement `SessionServer`; session tables and open sockets agree through deletion while scanning; what `select()`, `poll()` or `epoll_wait()` reported is true when it is used, so `recv()` never waits; queued signals suffice for every session whose arrivals were all signalled; every ended session is closed unless excused, in select and poll once clients connect no more |
| `message_queues` | POSIX: a sender of 2 lines, 2 receivers with notification and 1 without, an unlinker, a queue of 1 message; System V: senders and receivers of both programs, a queue of 2 messages | POSIX programs share one queue unless it is unlinked; what a System V sender has sent is a prefix of its file; a receiver that is not killed does not stop before it has every message that is its |
| `sysv_msg_removal` | the System V programs alone | expects a violation: `QueueRemoved`, see Findings |
| `mutexes` | 4 threads; or 2 processes of 2 threads | who holds the mutex in each of the three programs; the predecessor printed; every process ends unless it is stuck for a named reason |
| `sigchld_loops` | pool of 3 out of 6 processes, symmetric; the two handler programs with one child | nothing unreported is left, unless a continued child ended the pool's loop; the pool is exact up to stopped children; when the status printed is undefined |
| `prefork_server` | 2 children, 3 connections, 1 socket per child | what ends a child; an ended session brings its child back to `accept()`, or ends it, or has used up its descriptors |
| `aio_listio` | 3 buffers, files of up to 5 chunks, both builds | no buffer changes under a write; the copy is right but for refused or failed requests |

Bounds.  The ring wraps and fills within the stream in both instances (7 bytes
for 4 slots, 4 for 2).  Every server gets its number of descriptors (`nofile`,
the system's limit) in its initial state, from one up to what it can ever use:
so each run covers both the case in which they suffice and the one in which
`accept()`, or the timer after it, finds none.  With `epoll_timerfd`'s four
descriptors two sessions are complete; with three the second socket has no
timer; descriptors are closed and used again within one batch.  The servers of
`Chapter07` with an array meet one connection more than it has room for, so
that every refusal path runs.  The epoll server's `ep_events` has
room for one event less than can be ready, so that it is overrun, which may end
the server.  `EPOLLERR` and `EPOLLHUP` come together with
readable data on these sockets, so the branches for them alone are not
entered.  In `CountingSem` four children with two tokens are enough for two to
die under one pending signal with a third one still to be created, and one
token for it to be lost.  In `SigchldLoops` two children can die, and a third
stop and continue, while one SIGCHLD is pending.  `PreforkServer` has room for
one socket per child, so that one leak exhausts it; apart from that shortage
`accept()` does not fail.  In `AioListio` the three buffers are used twice and
the last round can be empty.  A POSIX queue of one message is full after the
first line and empty after the first receive, which is all that the
notification and the blocking calls depend on; two receivers with notification
make one registration refuse the other.  The files of the System V senders have
a line that does not match and a type 0, at which `msgsnd()` fails.  Four
threads in `mutex_type.c` and `cleanup_mutex.c` are two that lock once and two
that lock twice, or the cancelling, the cancelled and two others.  Two processes of two threads give
`mutex_pshared.c` a sleeper in its own and one in the other process.

`MaxNews` lets one child of the counting
semaphore be stopped and continued, or two be stopped: enough for a call of
`check_abrt` that finds nobody, two such calls, and one after the last child,
which ends main.

Deadlock checking is off where the program may really stop: a server with no
clients left; a main that ended; a main that waits for ever, as the properties
of `CountingSem` and `SysvSem` describe or at the barrier of `AioListio` after a
lost notification; the threads that the mutex programs leave blocked; senders
and receivers of a queue that nobody else uses any more.  It is on for the work
queues.

Symmetry is used only for `SigchldLoops`, whose run has no liveness property.

Fairness.  Each thread or process that can take a step takes one eventually
(weak fairness per thread); armed timers expire; a pending signal is
delivered.  Nothing is assumed of clients, with the one exception below, of FIFO
writers, of the user who starts, kills and answers queue and mutex programs, of spurious wake-ups, of
the order in which a mutex or semaphore is granted.  Strong fairness is never
assumed.  The exception: `io_select.c` and `io_poll.c` go back to waiting after
each accept and each refusal, so that a steady stream of connections, or refused
clients that try again, keeps both from reading.  `EndedSessionsClosed` is
stated for them under the premise that clients connect no more from some time
on (`NoMoreClients`); the model's clients do try again for ever, so that without
the premise it is violated.  Likewise `EndsUnlessMerged` speaks of runs in which
no child is stopped for good.  In `sysv_msg_removal` the user who is told to
press a key does so in the end.

What the runs say about weak spots of the code, as properties that hold:

* `SafeUntilShortage`, `SilentSessionsClosed`: once `fds_new_timerfd` has
  failed, a socket without a session exists; its end makes `del_ev` return -1,
  which ends the server, and its data make `get_epollevent` drop events.
* `TimeoutJustified`: a session can be closed although its timer was just set
  again, or although the event belonged to the descriptor's former owner, but
  only within the batch in which that happened.
* `NotifiedOnce`: nothing is locked between `process_job()` and the end of
  `sigqueue()`.  Signals of different consumers may come in another order than
  their jobs were finished, and when `sigqueue()` fails, and the process exits,
  each consumer can leave one finished job that nobody is told of.
* `TokenConservation`, `EmptyCallsAreNews`, `CleanEnd`: a child that is stopped
  or continued makes the handler run, since `signal()` sets no `SA_NOCLDSTOP`.
  `waitpid()` returns 0, the status that is then tested was never set, a token
  may be posted that nobody owed, and `cur_child` goes down: more children may
  work at once than there were tokens, and main may unlink the semaphore with a
  child still unreaped.  If no child is left, `waitpid()` fails and main exits.
* `EndsUnlessMerged`: two SIGCHLDs that merge leave a child unreaped, and then
  main may wait for ever; with one token, the thread that returns early blocks
  main for ever.
* `EveryProgramEnds`: a zero-waiter whose semaphore never reaches zero keeps its
  program from ending; and by `ZeroMeansFull` zero is only the moment at which
  every unit is with a child inside.
* `EndedSessionsClosed`: new connections starve the sessions of `io_select.c` and
  `io_poll.c` (see above); a shortage of descriptors, or (rts) an arrival before
  `F_SETOWN`, can leave a session open for ever; and so can the end of a
  server whose `epoll_wait` has written behind `ep_events`.
* `ImplementsSessions` (epoll): after a failed `recv()` `del_ev` is given the wrong
  descriptor; it is harmless only because that descriptor is -1 by then.  A
  session is also closed when its urgent byte was overtaken by another.
* `NothingLeft`, `PoolExact`: a continued child makes the parent leave others
  unreaped until the next SIGCHLD, and each stopped child adds one to the pool.
* `sig_waitid.c`'s handler has no way out of its loop: after the first SIGCHLD
  main never runs again, which the model shows as a `pc` that stays at
  `"waitid"`; what it reports is right.
* `PoolLoss`, `EndedFreesChild`: the forking servers lose children to the ends
  of sessions and never replace them.  The inet server forgets the socket of a
  session that sends a piece without a newline, the unix server that of one
  which is reset: a child that has no descriptor left comes back to `accept()`
  but serves nobody any more.  The inet6 server spins on a session whose client
  has closed its side.
* `SplitOnlyByUnlink`: a program that unlinks the queue's name leaves the others
  on a queue that no new program can reach.
* `PrefixSent`, `EveryMessageReceived`: the System V programs use the queue of
  identifier 0 whatever their key is, so that programs of different keys, and
  strangers, share it; a sender ends at the first message a full queue refuses.
* `RunsToEnd`: a thread of `mutex_type.c` that locks twice blocks itself
  (normal) or all others (recursive); a thread of `cleanup_mutex.c` cancelled
  while it prints leaves stdout locked; a process of `mutex_pshared.c` that dies
  with the mutex, or after it was woken and before it locks, leaves the others
  asleep; without `c` the mutex is private and wakes no other process; with `c`
  it is overwritten under its users.
* `CopyExact`: a write that is refused or fails leaves a hole in the copy and
  nobody is told; what an older, longer copy had at its end stays.

What the models of these programs take for granted: `malloc()` succeeds after
start-up; nobody kills a child of `posix_named_sem_cnt.c`; a sleep of a second or
more in a thread of `cleanup_mutex.c` lasts
until main has created its few threads; a process of `mutex_pshared.c` creates
its threads in one step, which a thread that runs earlier or later cannot tell
from waiting at its lock; the mutex
in shared memory is the three-state one of the GNU C library, whose kind a
thread reads when it goes to sleep.  Left out is that `inet_tcp_serv1.c:128-131`
writes behind its buffer when `strchr()` finds a newline there only because the
buffer is not terminated; it might end a child in one more way.

## Findings

`sysv_msg_removal`: `sysv_msg.c` and `sysv_msg_regex.c` tell the user that a key
press removes the message queue (`Chapter05/sysv_msg.c:39`).  After the key
press main returns; `sysv_msgrm()` is never called, and the queue, with what is
in it, stays for the next run of the program.  `QueueRemoved` is about that step
alone: a sender that came to the message and was given its key press ends, and
the queue of its key still exists.

## Proofs

`WorkQueueProofs` proves, for every ring size above one, every set of consumers
and every stream length (assumption `WorkQueueAssumption`):

1. `TypeCorrect`.  The type invariant is inductive; the only arithmetic is that
   `(idx + cnt) % MAX_ITEMS` is a slot although `idx` may be `MAX_ITEMS`.
2. `MutexCorrect`.  `MutexInv` is inductive with the type invariant.
3. `PushSlotCorrect`, `NoLostWakeupCorrect`.  The inductive invariant `PushInv`
   adds that `buf` is used up outside `push_item`.  It needs `MutexInv`: `j`
   stays the first free slot only because nobody moves `idx` during a push.
4. `WorkQueueImplementsFifo`.  The refinement mapping reads the ring as a
   sequence (`Contents`).  `StoreAppends` and `TakeRemovesHead` show what a
   store and a take do to it; `SlotValue`, `NextSlot`, `SlotDistinct` and
   `SlotShift` are the modular arithmetic behind them.
5. `FifoOrderCorrect`, `NoDoubleDeliveryCorrect`.  Proved from the steps of
   the abstract FIFO alone, through the refinement (`Ordered`, preserved by
   `Accept`, `Refuse` and `Take`).

The module goes on to `WorkQueueRts` (assumption `WorkQueueRtsAssumption`).  Every step
of it is a step of the queue or one in which the process exits (`RtsQueueStep`,
`Exits`), so that the queue's invariants hold there too (`RtsQueueCorrect`) and
`RtsImplementsFifo` follows.  On top of them:

6. `TidKnownCorrect`.  `TidInv` adds to the property that main has created every
   consumer, and knows its tid, before it creates the signal thread; nothing in
   `start_sigthread` itself says so.
7. `NotifiedOnceCorrect`.  `NotifyInv`: what was printed, is in hand and is queued
   counts for each consumer the jobs it has finished, less the one it may be
   about to notify; `TimesAppend` is the counting behind it.

`MutexInv`, `FifoOrder` and `NoDoubleDelivery` have no place of their own in the
run: a violation of the first two shows as one of `PushSlotInv` or
`ImplementsFifo`, and the last follows from the refinement.

`AioListioProofs` proves `BuffersStableCorrect` and `CopyExactCorrect` for any
number of control blocks and any length of the file (`AioListioAssumption`).
Neither property is inductive: that a buffer may be filled again rests on
everything having been written when main goes on, which rests on how it waited.
`IInv` says, for each place where main may be, which chunks are settled, which
are in the buffers and which are under way: before the batch is handed over the
first `i` buffers hold the `i` chunks read last (`Filled`) and all before them
are settled; after that each chunk is settled or under way (`WaitInv`); the
notification thread is at the barrier only when nothing is (`NotifyInv`).

`MutexesProofs` proves `HeldByRunningCorrect` and `PredecessorStaysCorrect` of
the composition, for any number of threads and processes
(`MutexesAssumption`).  `TypeInv` and `CleanupInv` say which places a thread may
be in while it owns the mutex, and that threads not yet created are nowhere;
for `mutex_pshared.c` `HeldByRunning` needs that threads use the mutex only after
its main has created them (`MainInv`), and `PredecessorStays` needs
`HeldByRunning`.

`PreforkServerProofs` proves `PoolLossCorrect` for any pool and any set of
connections (`PreforkServerAssumption`).  Beneath it is `IInv`: a child has a
session exactly while it receives or sends, and each accepted connection
belongs to one child.  Each way a session can end is one lemma (`ClosesStep`,
`EndsStep`, `LeaksStep`, `GotoStep`) on top of two about sets of sockets
(`GainStep`, `LoseStep`), and each step of the three programs is one of them.
Then every step of a child is either `Harmless` or `Fatal`: it takes with it a
session that its client has ended and that has not been counted yet.

`CountingSemProofs` proves `TokenConservationCorrect`,
`EmptyCallsAreNewsCorrect` and `CleanEndCorrect` for any number of children, of
tokens and of stops (`CountingSemAssumption`) and whichever child keeps its
token.  `CleanEnd` is not inductive: main trusts `cur_child`, so `IInv` says what
it counts while `check_abrt` is under way, empty calls included (`Counted`), that
dead children and the news of stops cover the pending signal and the handler's
call (`Enough`), and that the tokens add up (`TokensInv`).  `MoveTable` says once
what each move of a child does to the three numbers the invariant is made of;
then there is a lemma for each kind of step.

`Chapter05Proofs` proves, of `SysvSem`, `UnitConservationCorrect`, `RemovedByOthersCorrect` and
`ZeroMeansFullCorrect` for any number of programs at the key and of children
(`SysvSemAssumption`).  What makes them inductive is about identifiers: a new
set is known to nobody (`Fresh`), it waits for the SETVAL of the one program
that made it (`OneSetter`), so that nobody is inside before, programs have no
children before they have their set (`Unborn`), and a set is removed only by a
program that is done (`Removed`) and whose children have all ended (`Through`).
`IdsSuffice` shows that there always is an identifier for a new set.  Units
conserved make `ZeroMeansFull` a matter of the two steps that can let a waiter go
(`LetGo`): it tests the value itself, or a child takes the last unit.

Of `MessageQueues` it proves `SplitOnlyByUnlinkCorrect` and `PrefixSentCorrect`
for any programs, files, numbers of lines and sizes of queues
(`MessageQueuesAssumption`: finitely many unlinkers, and the other application's
message is not taken for a sender's).  The first needs a count: a queue is
created only while the name is free, so all queues ever opened but the named one have an
"unlink" of their own (`QueuesCount`); that attaching fails only after an unlink
follows from it for whoever has seen a queue (`Attached`).  `PrefixSent` is
inductive beside the type of `line`; what is hard is that taking the k-th message
out of the middle of the queue moves it to `received` and loses no other
(`RemovedRange`, `AppendRange`), whichever message the type selects (`HasLeast`).

`Chapter11Proofs` proves, of `EpollTimerfd`, `TableMatchesFdsCorrect`, `SafeUntilShortageCorrect`
and the action property `TimeoutJustifiedCorrect` for any clients, any number of
descriptors, any size of `ep_events` and of the `realloc` step
(`EpollTimerfdAssumption`).  `Deletes` and `Appends` say what the swap with the
last entry and the append do to the two sets of descriptors the list names;
`Found` that the searches find the only entry there is; `DelStep` that `del_ev`
ends the process only for a socket without a session, which `Safe` excludes
until a shortage.  For `TimeoutJustified` a second invariant, `Stale`, says that
a running timer with a waiting event was set after `epoll_wait`.

Of `SigchldLoops` it proves `NothingLeftCorrect`, `PoolExactCorrect` and
`StatusSetCorrect` for any pool and any number of processes
(`SigchldLoopsAssumption`).  `NothingLeft` is inductive when it is extended to
the start-up (`NothingMissed`), given that only children that run or are stopped
have news (`NewsFits`).  `StatusSet` rests on `SignalCovers`: what a pending
signal announced is still there or was collected ahead of it.  `PoolCounts` says
how many children there are at each place of the loop; that `extra` is bounded
by the number of processes follows from it.

`SocketServersProofs` proves all the safety of the four event-driven servers for
any clients, any amount of data, any limit of descriptors and any size of their
arrays (`SocketServersAssumption`).  `Inv` is, for the server that runs, one of

* `SelectInv`: each descriptor has one session (`SocketsInv`), the array names the
  listener and the open sockets once, and what `select()` reported of the part of
  the array not yet visited has input;
* `PollInv`: the same, and `ret_poll` counts exactly the entries with events that
  are not yet visited, so that the scan ends where the array does although the
  last entry is moved to the place of a deleted one;
* `EpollInv`: the epoll set is the set of open descriptors; the batch names a
  descriptor at most once, and the ones still to come are open and have input;
  and `fd`, which the code takes for the descriptor of a failed event, is no
  session's (`FdUnset`);
* `RtsInv`: every open socket is armed, and unless one of its arrivals was missed
  it has as many signals in the queue as it has data to read; the backlog is
  ahead of its own signals by `lag`, the connections that came before `F_SETOWN`
  and the failed `accept()`s, as long as the queue has not overflowed (then the
  process ends).

`TableMatchesSocketsCorrect`, `ReportsCurrentCorrect`, `SignalsCoverCorrect` and
`BacklogLagCorrect` follow.  The refinement `ImplementsSessionsCorrect` is proved in
two steps: every step of a server or its clients is one of a few things that can
happen to a session (`Serves`), which needs the invariants, and each of these is
a step of `SessionServer`.  The abstract server knows no descriptors: that a
number used again never touches its former owner's session is the heart of it.

Only model-checked is every liveness property (fairness and ENABLED are out of
the prover's reach).  Every invariant, every action property and every refinement
that a run checks is a theorem.

## Plan

The models were written in the order of how much the programs can go wrong:
work queues, epoll server with timers, semaphores, multiplexing and
signal-driven servers, pools of children, the asynchronous copy, message queues,
mutexes; then the common abstract server.  What is left, in order:

1. The remaining notifications of the kernel: expirations of `timerfd`, the
   counter of `eventfd`.

## Not modelled

Programs without lasting state (clients, printing of addresses, regular
expressions, clocks, mappings) and the internals of libc and the kernel beyond
what the programs rely on.  The threads of `Chapter08/barrier.c` meet once at a
barrier for as many as they are, those of `sum_strnum_tls.c` share nothing, and
in `Chapter09/pthread_sigwait.c` one thread answers signals one at a time while
the others only sleep: what could go wrong there is in the library.
`PROJECT.json` gives the reason per component.
