----------------------------- MODULE MutexType ------------------------------
(***************************************************************************)
(* Chapter08/mutex_type.c in its three builds: each thread locks the mutex *)
(* once, those of idx > 1 lock it a second time, and all unlock it once.   *)
(***************************************************************************)
EXTENDS MutexThreads

VARIABLES
  kind,  \* the build; without any macro the mutex is "normal" as well
  count  \* how often the owner has locked the mutex

vars == <<thread_vars, kind, count>>

TypeOK ==
  /\ created \in 0 .. NUM_THREADS /\ joined \in 0 .. created /\ exited \in BOOLEAN
  /\ kind \in {"normal", "recursive", "errorcheck"}
  /\ pc \in [Threads -> {"none", "lock", "relock", "unlock", "ended"}]
  /\ owner \in Threads \cup {Nobody}
  /\ count \in 0 .. 2 /\ (count = 0 <=> owner = Nobody)

Init ==
  /\ ThreadsInit
  /\ kind \in {"normal", "recursive", "errorcheck"}
  /\ count = 0

start_thread_lock(t) ==
  /\ owner = Nobody
  /\ Goto(t, "lock", IF t > 1 THEN "relock" ELSE "unlock")
  /\ owner' = t /\ count' = 1
  /\ UNCHANGED <<created, joined, exited, kind>>

\* The same thread locks again: in the normal build it waits for itself.
start_thread_relock(t) ==
  /\ kind # "normal"
  /\ Goto(t, "relock", "unlock")
  /\ count' = IF kind = "recursive" THEN count + 1 ELSE count  \* EDEADLK
  /\ UNCHANGED <<created, joined, exited, owner, kind>>

start_thread_unlock(t) ==
  /\ Goto(t, "unlock", "ended")
  /\ count' = count - 1
  /\ owner' = IF count' = 0 THEN Nobody ELSE owner
  /\ UNCHANGED <<created, joined, exited, kind>>

Main == (main_create("lock") \/ main_create_fails \/ main_join) /\ UNCHANGED <<kind, count>>

Thread(t) == start_thread_lock(t) \/ start_thread_relock(t) \/ start_thread_unlock(t)

Next == Main \/ \E t \in Threads : Thread(t)

-----------------------------------------------------------------------------

\* The mutex is held by a thread that has not ended; only the recursive one may
\* stay locked, once, by one that locked it twice.
HeldByRunning ==
  /\ TypeOK
  /\ (owner # Nobody /\ pc[owner] = "ended") => kind = "recursive" /\ owner > 1 /\ count = 1

\* The mutex will not be unlocked any more.
Stuck ==
  /\ owner > 1
  /\ \/ kind = "normal" /\ pc[owner] = "relock"
     \/ kind = "recursive" /\ pc[owner] = "ended"

=============================================================================
