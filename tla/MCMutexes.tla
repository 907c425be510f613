----------------------------- MODULE MCMutexes ------------------------------
(***************************************************************************)
(* Instance of Mutexes for TLC: four threads (two that lock twice; one     *)
(* that cancels, one that is cancelled and one that needs the mutex after  *)
(* it), two processes of two threads.                                      *)
(***************************************************************************)
EXTENDS Mutexes

=============================================================================
