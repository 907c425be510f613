---------------------------- MODULE MutexPshared ----------------------------
(***************************************************************************)
(* Chapter08/mutex_pshared.c: the threads of several processes lock a      *)
(* mutex in shared memory and note themselves beside it.  A process        *)
(* started with "c" overwrites the mutex, in use or not, by a shared one;  *)
(* before that its bytes are zero, which is a mutex private to a process:  *)
(* it excludes, but unlocking it wakes no sleeper of another process.      *)
(* Only a process that finds the shared memory object gives it a size.     *)
(* The mutex is that of the GNU C library: a word that is 0, 1 or 2        *)
(* (locked, perhaps with sleepers), an owner and a kind.                   *)
(***************************************************************************)
EXTENDS Integers, FiniteSets

CONSTANTS Procs, NUM_THREADS

Threads == Procs \X (0 .. NUM_THREADS - 1)

Nobody == <<"nobody", 0>>

VARIABLES
  shm,       \* the object is "none", "empty" or "sized"
  main,      \* main[p]: what the main thread of p does next
  joined,    \* joined[p]: how many threads it has joined
  pc,
  word, owner, kind,  \* the mutex
  prev,      \* prev_pid and prev_idx
  asleep,    \* asleep[t]: how t waits: "not", "private", "shared"
  seen,      \* history: seen[t] is the prev that t printed
  disturbed  \* history: the mutex was overwritten while a thread used it

mutex == <<word, owner, kind>>
vars == <<shm, main, joined, pc, mutex, prev, asleep, seen, disturbed>>

Using == {"contend", "futex", "asleep", "print", "write", "unlock"}

TypeOK ==
  /\ shm \in {"none", "empty", "sized"}
  /\ main \in [Procs -> {"open", "ftruncate", "memset", "init", "create", "join",
                         "ended", "dead"}]
  /\ joined \in [Procs -> 0 .. NUM_THREADS]
  /\ pc \in [Threads -> {"none", "lock", "ended"} \cup Using]
  /\ word \in 0 .. 2 /\ owner \in Threads \cup {Nobody}
  /\ kind \in {"private", "shared"}
  /\ prev \in Threads \cup {Nobody}
  /\ asleep \in [Threads -> {"not", "private", "shared"}]
  /\ \A t \in Threads : pc[t] = "asleep" <=> asleep[t] # "not"
  /\ seen \in [Threads -> Threads \cup {Nobody}]
  /\ disturbed \in BOOLEAN

\* The object may be left from earlier runs, with an unlocked mutex.
Init ==
  /\ shm \in {"none", "empty", "sized"}
  /\ main = [p \in Procs |-> "open"]
  /\ joined = [p \in Procs |-> 0]
  /\ pc = [t \in Threads |-> "none"]
  /\ word = 0 /\ owner = Nobody
  /\ kind \in IF shm = "sized" THEN {"private", "shared"} ELSE {"private"}
  /\ prev = Nobody
  /\ asleep = [t \in Threads |-> "not"]
  /\ seen = [t \in Threads |-> Nobody]
  /\ disturbed = FALSE

-----------------------------------------------------------------------------
(* main                                                                    *)

MainGoto(p, from, to) == main[p] = from /\ main' = [main EXCEPT ![p] = to]

\* A signal ends the process; the mutex stays as it is.
Dies(p) ==
  /\ main' = [main EXCEPT ![p] = "dead"]
  /\ pc' = [t \in Threads |-> IF t[1] = p THEN "ended" ELSE pc[t]]
  /\ asleep' = [t \in Threads |-> IF t[1] = p THEN "not" ELSE asleep[t]]
  /\ UNCHANGED <<shm, joined, mutex, prev, seen, disturbed>>

\* argv[1] is "c" or not.
Arguments == {"memset", "create"}

shm_open_creates(p) ==
  /\ shm = "none"
  /\ \E next \in Arguments : MainGoto(p, "open", next)
  /\ shm' = "empty"
  /\ UNCHANGED <<joined, pc, mutex, prev, asleep, seen, disturbed>>

shm_open_exists(p) ==
  /\ shm # "none"
  /\ MainGoto(p, "open", "ftruncate")
  /\ UNCHANGED <<shm, joined, pc, mutex, prev, asleep, seen, disturbed>>

ftruncate(p) ==
  /\ \E next \in Arguments : MainGoto(p, "ftruncate", next)
  /\ shm' = "sized"
  /\ UNCHANGED <<joined, pc, mutex, prev, asleep, seen, disturbed>>

Overwritten(new_kind) ==
  /\ word' = 0 /\ owner' = Nobody /\ kind' = new_kind
  /\ disturbed' = (disturbed \/ \E t \in Threads : pc[t] \in Using)

\* SIGBUS: nothing is behind the mapping.
memset_sigbus(p) == shm = "empty" /\ main[p] = "memset" /\ Dies(p)

memset(p) ==
  /\ shm = "sized"
  /\ MainGoto(p, "memset", "init")
  /\ Overwritten("private")
  /\ prev' = Nobody
  /\ UNCHANGED <<shm, joined, pc, asleep, seen>>

pthread_mutex_init(p) ==
  /\ MainGoto(p, "init", "create")
  /\ Overwritten("shared")
  /\ UNCHANGED <<shm, joined, pc, prev, asleep, seen>>

\* Those that fail are reported, and main goes on.
pthread_create(p) ==
  /\ MainGoto(p, "create", "join")
  /\ \E S \in SUBSET ({p} \X (0 .. NUM_THREADS - 1)) :
       pc' = [t \in Threads |-> IF t \in S THEN "lock" ELSE pc[t]]
  /\ UNCHANGED <<shm, joined, mutex, prev, asleep, seen, disturbed>>

\* clean_thread
pthread_join(p) ==
  /\ main[p] = "join" /\ pc[<<p, joined[p]>>] = "ended"
  /\ joined' = [joined EXCEPT ![p] = @ + 1]
  /\ main' = [main EXCEPT ![p] = IF joined'[p] = NUM_THREADS THEN "ended" ELSE @]
  /\ UNCHANGED <<shm, pc, mutex, prev, asleep, seen, disturbed>>

\* The tid of a thread that was not created is 0: SIGSEGV.
pthread_join_sigsegv(p) ==
  /\ main[p] = "join" /\ pc[<<p, joined[p]>>] = "none"
  /\ Dies(p)

kill(p) == main[p] = "join" /\ Dies(p)

-----------------------------------------------------------------------------
(* start_thread                                                            *)

MutAfter(step) ==
  CASE step = "lock" -> "print"
    [] step = "print" -> "unlock"
    [] step = "unlock" -> "write"
    [] step = "write" -> "ended"

\* The order of its statements.
After(step) ==
  CASE step = "lock" -> "print"
    [] step = "print" -> "write"
    [] step = "write" -> "unlock"
    [] step = "unlock" -> "ended"

Steps(t, from, to) == pc[t] = from /\ pc' = [pc EXCEPT ![t] = to]

Acquired(t, w) ==
  /\ word = 0
  /\ Steps(t, pc[t], After("lock"))
  /\ word' = w /\ owner' = t
  /\ UNCHANGED <<shm, main, joined, kind, prev, asleep, seen, disturbed>>

lock(t) == shm = "sized" /\ pc[t] = "lock" /\ Acquired(t, 1)

lock_sigbus(t) == shm = "empty" /\ pc[t] = "lock" /\ Dies(t[1])

lock_contends(t) ==
  /\ word # 0
  /\ Steps(t, "lock", "contend")
  /\ UNCHANGED <<shm, main, joined, mutex, prev, asleep, seen, disturbed>>

contend(t) == pc[t] = "contend" /\ Acquired(t, 2)

contend_fails(t) ==
  /\ word # 0
  /\ Steps(t, "contend", "futex")
  /\ word' = 2
  /\ UNCHANGED <<shm, main, joined, owner, kind, prev, asleep, seen, disturbed>>

futex_wait(t) ==
  /\ word = 2
  /\ Steps(t, "futex", "asleep")
  /\ asleep' = [asleep EXCEPT ![t] = kind]
  /\ UNCHANGED <<shm, main, joined, mutex, prev, seen, disturbed>>

\* EAGAIN
futex_changed(t) ==
  /\ word # 2
  /\ Steps(t, "futex", "contend")
  /\ UNCHANGED <<shm, main, joined, mutex, prev, asleep, seen, disturbed>>

pr_out(t) ==
  /\ Steps(t, "print", After("print"))
  /\ seen' = [seen EXCEPT ![t] = prev]
  /\ UNCHANGED <<shm, main, joined, mutex, prev, asleep, disturbed>>

write_prev(t) ==
  /\ Steps(t, "write", After("write"))
  /\ prev' = t
  /\ UNCHANGED <<shm, main, joined, mutex, asleep, seen, disturbed>>

\* Those whom t's FUTEX_WAKE can reach.
Reachable(t) ==
  {u \in Threads : asleep[u] = kind /\ (kind = "private" => u[1] = t[1])}

\* EPERM: t locked the mutex before it was overwritten.
NotOwner(t) == kind = "shared" /\ owner # t

unlock_fails(t) ==
  /\ NotOwner(t)
  /\ Steps(t, "unlock", After("unlock"))
  /\ UNCHANGED <<shm, main, joined, mutex, prev, asleep, seen, disturbed>>

unlock(t) ==
  /\ pc[t] = "unlock" /\ ~NotOwner(t)
  /\ word' = 0 /\ owner' = Nobody
  /\ IF word = 2 /\ Reachable(t) # {}
       THEN \E u \in Reachable(t) :
              /\ asleep' = [asleep EXCEPT ![u] = "not"]
              /\ pc' = [pc EXCEPT ![t] = After("unlock"), ![u] = "contend"]
       ELSE pc' = [pc EXCEPT ![t] = After("unlock")] /\ UNCHANGED asleep
  /\ UNCHANGED <<shm, main, joined, kind, prev, seen, disturbed>>

-----------------------------------------------------------------------------

Main(p) ==
  \/ ftruncate(p) \/ memset_sigbus(p) \/ memset(p) \/ pthread_mutex_init(p)
  \/ pthread_create(p) \/ pthread_join(p) \/ pthread_join_sigsegv(p)

Thread(t) ==
  \/ lock(t) \/ lock_sigbus(t) \/ lock_contends(t) \/ contend(t) \/ contend_fails(t)
  \/ futex_wait(t) \/ futex_changed(t) \/ pr_out(t) \/ write_prev(t)
  \/ unlock(t) \/ unlock_fails(t)

Next ==
  \/ \E p \in Procs : shm_open_creates(p) \/ shm_open_exists(p) \/ Main(p) \/ kill(p)
  \/ \E t \in Threads : Thread(t)

-----------------------------------------------------------------------------

Inside == {t \in Threads : pc[t] \in {"print", "write", "unlock"}}

\* The mutex is locked exactly while its owner is between lock and unlock, or
\* has died there, unless it was overwritten while it was used.
HeldByRunning ==
  /\ TypeOK
  /\ ~disturbed =>
       /\ Inside \subseteq {owner}
       /\ word = 0 <=> owner = Nobody
       /\ owner \in Inside \cup {Nobody} \/ main[owner[1]] = "dead"

\* What a thread printed as its predecessor is still the last one that wrote
\* when it writes itself, also with a mutex that is private to a process.
PredecessorStays ==
  ~disturbed => \A t \in Threads : pc[t] = "write" => seen[t] = prev

HolderDead == owner # Nobody /\ main[owner[1]] = "dead"

Sleeps(p, kinds) == \E t \in Threads : t[1] = p /\ asleep[t] \in kinds

\* A process died between being woken and locking the mutex: nobody wakes the
\* next one.
WakeupLost(p) ==
  word = 0 /\ Sleeps(p, {"private", "shared"}) /\ \E q \in Procs : main[q] = "dead"

\* Another process unlocked the mutex and did not reach p's threads.
NotReached(p) == Sleeps(p, {"private"}) /\ \E q \in Procs \ {p} : main[q] # "open"

\* p will not come to its end by itself.
Stuck(p) == disturbed \/ HolderDead \/ WakeupLost(p) \/ NotReached(p)

Runs(p) == main[p] \in {"memset", "init", "create", "join"}

=============================================================================
