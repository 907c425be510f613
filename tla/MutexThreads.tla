---------------------------- MODULE MutexThreads ----------------------------
(***************************************************************************)
(* The main() that Chapter08/mutex_type.c and cleanup_mutex.c have in      *)
(* common: it creates NUM_THREADS threads, which lock one mutex, and joins *)
(* them in the order of their creation.                                    *)
(***************************************************************************)
EXTENDS Integers

CONSTANT NUM_THREADS

Threads == 0 .. NUM_THREADS - 1

Nobody == -1

VARIABLES
  created,  \* how many threads main has created
  joined,   \* how many it has joined
  exited,   \* pr_crt was called
  pc,
  owner     \* who holds the mutex, or Nobody

thread_vars == <<created, joined, exited, pc, owner>>

ThreadsInit ==
  /\ created = 0 /\ joined = 0 /\ exited = FALSE
  /\ pc = [t \in Threads |-> "none"]
  /\ owner = Nobody

Goto(t, from, to) == ~exited /\ pc[t] = from /\ pc' = [pc EXCEPT ![t] = to]

main_create(first) ==
  /\ ~exited /\ created < NUM_THREADS
  /\ created' = created + 1
  /\ pc' = [pc EXCEPT ![created] = first]
  /\ UNCHANGED <<joined, exited, owner>>

\* pr_crt
main_create_fails ==
  /\ ~exited /\ created < NUM_THREADS
  /\ exited' = TRUE
  /\ UNCHANGED <<created, joined, pc, owner>>

\* clean_thread: pthread_join() and pr_out().
main_join ==
  /\ ~exited /\ created = NUM_THREADS /\ joined < NUM_THREADS
  /\ pc[joined] = "ended"
  /\ joined' = joined + 1
  /\ UNCHANGED <<created, exited, pc, owner>>

\* The process has not come to its end.
Runs == ~exited /\ joined < NUM_THREADS

=============================================================================
