------------------------------ MODULE Mutexes -------------------------------
(***************************************************************************)
(* The programs of Chapter08 around a mutex, one at a time: mutex_type.c,  *)
(* cleanup_mutex.c, or the processes of mutex_pshared.c.                   *)
(***************************************************************************)
EXTENDS Integers, FiniteSets

CONSTANTS
  NUM_THREADS,   \* of mutex_type.c and cleanup_mutex.c
  Procs,         \* the processes of mutex_pshared.c
  PROC_THREADS   \* threads of each of them

\* Some thread locks twice, and thread 2 exists to be cancelled.  The third
\* keeps MutexPshared's Nobody apart from its threads.
ASSUME MutexesAssumption ==
  /\ NUM_THREADS \in Nat /\ NUM_THREADS > 2
  /\ PROC_THREADS \in Nat \ {0}
  /\ "nobody" \notin Procs

VARIABLES
  program,
  joined, pc, owner, kind,                         \* all, or two of them
  created, exited,                                 \* MutexType, CleanupMutex
  count,                                           \* MutexType
  cancelled, stdout,                               \* CleanupMutex
  shm, main, word, prev, asleep, seen, disturbed   \* MutexPshared

Type == INSTANCE MutexType
Cleanup == INSTANCE CleanupMutex
Pshared == INSTANCE MutexPshared WITH NUM_THREADS <- PROC_THREADS

type_only == <<count>>
cleanup_only == <<cancelled, stdout>>
pshared_only == <<shm, main, word, prev, asleep, seen, disturbed>>
vars ==
  <<program, joined, pc, owner, kind, created, exited, type_only, cleanup_only, pshared_only>>

NoType == count = 0
NoCleanup == cancelled = FALSE /\ stdout = -1
NoPshared ==
  /\ shm = "none" /\ main = << >> /\ word = 0 /\ prev = << >>
  /\ asleep = << >> /\ seen = << >> /\ disturbed = FALSE

Init ==
  \/ program = "type" /\ Type!Init /\ NoCleanup /\ NoPshared
  \/ program = "cleanup" /\ Cleanup!Init /\ kind = "normal" /\ NoType /\ NoPshared
  \/ /\ program = "pshared" /\ Pshared!Init
     /\ created = 0 /\ exited = FALSE /\ NoType /\ NoCleanup

TypeRuns == program = "type" /\ UNCHANGED <<program, cleanup_only, pshared_only>>
CleanupRuns == program = "cleanup" /\ UNCHANGED <<program, kind, type_only, pshared_only>>
PsharedRuns ==
  program = "pshared" /\ UNCHANGED <<program, created, exited, type_only, cleanup_only>>

\* The thread of number i in the single process, or in process p.
Thread(p, i) ==
  \/ TypeRuns /\ i \in Type!Threads /\ Type!Thread(i)
  \/ CleanupRuns /\ i \in Cleanup!Threads /\ Cleanup!Thread(i)
  \/ PsharedRuns /\ <<p, i>> \in Pshared!Threads /\ Pshared!Thread(<<p, i>>)

Main(p) ==
  \/ TypeRuns /\ Type!Main
  \/ CleanupRuns /\ Cleanup!Main
  \/ PsharedRuns /\ Pshared!Main(p)

Next ==
  \/ TypeRuns /\ Type!Next
  \/ CleanupRuns /\ Cleanup!Next
  \/ PsharedRuns /\ Pshared!Next

Spec == Init /\ [][Next]_vars

Numbers == Type!Threads \cup (0 .. PROC_THREADS - 1)

\* Threads run as far as the mutex lets them; starting and killing processes is
\* left to the user.
FairSpec ==
  /\ Spec
  /\ \A p \in Procs : WF_vars(Main(p)) /\ \A i \in Numbers : WF_vars(Thread(p, i))

-----------------------------------------------------------------------------

\* All three: the mutex is held by a thread that has not ended; the exceptions
\* are a recursive mutex locked twice and a process that was killed or that
\* overwrites a mutex in use.
HeldByRunning ==
  /\ program = "type" => Type!HeldByRunning
  /\ program = "cleanup" => Cleanup!HeldByRunning
  /\ program = "pshared" => Pshared!HeldByRunning

\* mutex_pshared.c: the line "=>" a thread prints names the thread that wrote
\* last before it.
PredecessorStays == program = "pshared" => Pshared!PredecessorStays

Runs(p) ==
  IF program = "pshared"
    THEN Pshared!Runs(p)
    ELSE program \in {"type", "cleanup"} /\ Type!Runs

Stuck(p) ==
  \/ program = "type" /\ Type!Stuck
  \/ program = "cleanup" /\ Cleanup!Stuck
  \/ program = "pshared" /\ Pshared!Stuck(p)

\* All three: a process that was started comes to its end, unless it is stuck
\* for good: behind a thread that locked the mutex twice, behind stdout left
\* locked by the cancelled thread, behind a process that died with the mutex or
\* with the wake-up meant for the next, on a mutex that was overwritten under
\* its users, or on a private one that others unlock without waking it.
RunsToEnd == \A p \in Procs : Runs(p) ~> [](~Runs(p) \/ Stuck(p))

=============================================================================
