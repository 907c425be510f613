---------------------------- MODULE CleanupMutex ----------------------------
(***************************************************************************)
(* Chapter08/cleanup_mutex.c: thread 1 cancels thread 2, which may be      *)
(* asleep, wait for the mutex, or hold it and have a cleanup handler that  *)
(* unlocks it.  Cancellation is deferred: sleep() is a cancellation point, *)
(* pthread_mutex_lock() and flockfile() are none, and the output in pr_out *)
(* is one if it writes to the terminal.  A thread cancelled there leaves   *)
(* stdout locked: the flockfile() of pr_out has no cleanup handler.        *)
(***************************************************************************)
EXTENDS MutexThreads

VARIABLES
  cancelled,  \* pthread_cancel() has been called for thread 2
  stdout      \* who left stdout locked, or Nobody

vars == <<thread_vars, cancelled, stdout>>

TypeOK ==
  /\ created \in 0 .. NUM_THREADS /\ joined \in 0 .. created /\ exited \in BOOLEAN
  /\ pc \in [Threads -> {"none", "sleep", "lock", "print", "hold", "unlock", "announce",
                         "cancel", "cleanup", "ended"}]
  /\ owner \in Threads \cup {Nobody}
  /\ cancelled \in BOOLEAN /\ stdout \in {2, Nobody}

Init == ThreadsInit /\ cancelled = FALSE /\ stdout = Nobody

Pending(t) == t = 2 /\ cancelled

\* In a thread of idx > 0 sleep() lasts a second or more: by then main has
\* created all threads.
sleep(t) ==
  /\ t > 0 => created = NUM_THREADS
  /\ ~Pending(t)
  /\ Goto(t, "sleep", "lock")
  /\ UNCHANGED <<created, joined, exited, owner, cancelled, stdout>>

\* Cancelled before the mutex is locked: no handler.
sleep_cancelled(t) ==
  /\ Pending(t)
  /\ Goto(t, "sleep", "ended")
  /\ UNCHANGED <<created, joined, exited, owner, cancelled, stdout>>

\* pthread_mutex_lock() and pthread_cleanup_push()
lock(t) ==
  /\ owner = Nobody
  /\ Goto(t, "lock", "print")
  /\ owner' = t
  /\ UNCHANGED <<created, joined, exited, cancelled, stdout>>

pr_out(t) ==
  /\ stdout = Nobody
  /\ Goto(t, "print", "hold")
  /\ UNCHANGED <<created, joined, exited, owner, cancelled, stdout>>

pr_out_cancelled(t) ==
  /\ Pending(t) /\ stdout = Nobody
  /\ Goto(t, "print", "cleanup")
  /\ stdout' = t
  /\ UNCHANGED <<created, joined, exited, owner, cancelled>>

\* The handler is popped, without being called, when all sleeps are over.
AfterSleeps(t) == IF Pending(t) THEN "cleanup" ELSE "unlock"

\* sleep(1) four times
hold(t) ==
  /\ Goto(t, "hold", AfterSleeps(t))
  /\ UNCHANGED <<created, joined, exited, owner, cancelled, stdout>>

unlock(t) ==
  /\ Goto(t, "unlock", IF t = 1 THEN "announce" ELSE "ended")
  /\ owner' = Nobody
  /\ UNCHANGED <<created, joined, exited, cancelled, stdout>>

\* pr_out and sleep(1) of thread 1
announce(t) ==
  /\ stdout = Nobody
  /\ Goto(t, "announce", "cancel")
  /\ UNCHANGED <<created, joined, exited, owner, cancelled, stdout>>

cancel(t) ==
  /\ Goto(t, "cancel", "ended")
  /\ cancelled' = TRUE
  /\ UNCHANGED <<created, joined, exited, owner, stdout>>

MutUnlocked == UNCHANGED owner

Unlocked == owner' = Nobody

\* pr_out works although this thread left stdout locked: the lock is recursive.
cleanup_mutex(t) ==
  /\ stdout \in {t, Nobody}
  /\ Goto(t, "cleanup", "ended")
  /\ Unlocked
  /\ UNCHANGED <<created, joined, exited, cancelled, stdout>>

\* After each pthread_join() main prints a line.
main_joins == stdout = Nobody /\ main_join

Main ==
  /\ main_create("sleep") \/ main_create_fails \/ main_joins
  /\ UNCHANGED <<cancelled, stdout>>

Thread(t) ==
  \/ sleep(t) \/ sleep_cancelled(t) \/ lock(t) \/ pr_out(t) \/ pr_out_cancelled(t)
  \/ hold(t) \/ unlock(t) \/ announce(t) \/ cancel(t) \/ cleanup_mutex(t)

Next == Main \/ \E t \in Threads : Thread(t)

-----------------------------------------------------------------------------

\* Whenever the cancellation is acted on, the mutex is held by a thread that has
\* not ended; and thread 1 names a thread that has not been joined.
HeldByRunning ==
  /\ TypeOK
  /\ owner # Nobody => pc[owner] # "ended"
  /\ pc[1] = "cancel" => joined <= 2

\* Nobody can print any more.
Stuck == stdout # Nobody

=============================================================================
