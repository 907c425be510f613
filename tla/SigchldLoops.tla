---------------------------- MODULE SigchldLoops ----------------------------
(***************************************************************************)
(* Three programs that collect children on SIGCHLD, which does not queue.  *)
(*                                                                         *)
(* "pool": Chapter11/io_signalfd_chld.c keeps a pool of MAX_POOL children. *)
(* It reads SIGCHLD from a signalfd and then calls waitid() until nothing  *)
(* is left to report, forking a new child for each one that ended or       *)
(* stopped; a child that continues makes it leave the loop early.          *)
(*                                                                         *)
(* "waitid": Chapter09/sig_waitid.c has one child, and its handler calls   *)
(* waitid() in a loop without an end.                                      *)
(*                                                                         *)
(* "nocldstop": Chapter09/sig_nocldstop.c has one child and the flag       *)
(* SA_NOCLDSTOP; its handler calls waitpid() until there is no dead child. *)
(***************************************************************************)
EXTENDS Integers, FiniteSets

CONSTANTS
  Pids,     \* bound: the processes ever forked
  MAX_POOL

ASSUME SigchldLoopsAssumption ==
  /\ IsFiniteSet(Pids)
  /\ MAX_POOL \in Nat \ {0}

VARIABLES
  program,
  child,  \* the state of each process
  news,   \* a stop or continuation waitid() has not reported yet, or "none"
  pend,   \* SIGCHLD is pending for the parent
  pc,     \* where the parent is
  i,      \* its loop counter
  told,   \* str_status has been set since the signal was taken
  extra,  \* history: children forked for one that had only stopped
  left,   \* history: the loop was left while other children had news
  ahead   \* history: news was collected while SIGCHLD was pending again

parent == <<program, pc, i, told, extra, left, ahead>>
loops_vars == <<child, news, pend, parent>>

LoopsTypeOK ==
  /\ program \in {"pool", "waitid", "nocldstop"}
  /\ child \in [Pids -> {"unused", "running", "stopped", "dead", "reaped"}]
  /\ news \in [Pids -> {"none", "stopped", "continued"}]
  /\ pend \in BOOLEAN
  /\ pc \in {"start", "read", "waitid", "fork", "exited"}
  /\ i \in 0 .. MAX_POOL
  /\ told \in BOOLEAN
  /\ extra \in 0 .. Cardinality(Pids)
  /\ left \in BOOLEAN
  /\ ahead \in BOOLEAN

\* SIGCHLD is blocked, or its handler installed, before the first fork().
LoopsInit ==
  /\ program \in {"pool", "waitid", "nocldstop"}
  /\ child = [p \in Pids |-> "unused"]
  /\ news = [p \in Pids |-> "none"]
  /\ pend = FALSE
  /\ pc = "start"
  /\ i = 0
  /\ told = FALSE
  /\ extra = 0
  /\ left = FALSE
  /\ ahead = FALSE

-----------------------------------------------------------------------------
(* Children.  A later stop, continuation or end takes the place of news    *)
(* that waitid() has not reported.                                         *)

\* The child exits or is killed.
Dies(p) ==
  /\ child[p] \in {"running", "stopped"}
  /\ child' = [child EXCEPT ![p] = "dead"]
  /\ news' = [news EXCEPT ![p] = "none"]
  /\ pend' = TRUE
  /\ UNCHANGED parent

\* With SA_NOCLDSTOP there is no SIGCHLD for a stop or a continuation.
Raised == pend \/ program # "nocldstop"

Stops(p) ==
  /\ child[p] = "running"
  /\ child' = [child EXCEPT ![p] = "stopped"]
  /\ news' = [news EXCEPT ![p] = "stopped"]
  /\ pend' = Raised
  /\ UNCHANGED parent

Continues(p) ==
  /\ child[p] = "stopped"
  /\ child' = [child EXCEPT ![p] = "running"]
  /\ news' = [news EXCEPT ![p] = "continued"]
  /\ pend' = Raised
  /\ UNCHANGED parent

\* What waitid() or waitpid() would report; the latter reports deaths only.
Waitable ==
  {p \in Pids : child[p] = "dead" \/ (program # "nocldstop" /\ news[p] # "none")}

-----------------------------------------------------------------------------
(* The parent.                                                             *)

\* fork() in the parent; a process id is not used again.
start_child ==
  \E p \in Pids :
    /\ child[p] = "unused"
    /\ child' = [child EXCEPT ![p] = "running"]

InPool == i < IF program = "pool" THEN MAX_POOL ELSE 1

main_start_child ==
  /\ pc = "start" /\ InPool
  /\ start_child
  /\ i' = i + 1
  /\ UNCHANGED <<program, news, pend, pc, told, extra, left, ahead>>

main_started ==
  /\ pc = "start" /\ ~InPool
  /\ pc' = "read"
  /\ UNCHANGED <<program, child, news, pend, i, told, extra, left, ahead>>

\* The parent reads the signalfd, or its handler is called.
main_read ==
  /\ pc = "read" /\ pend
  /\ pend' = FALSE
  /\ told' = FALSE
  /\ pc' = "waitid"
  /\ UNCHANGED <<program, child, news, i, extra, left, ahead>>

\* Where the loop goes after a child that ended: only the pool replaces it.
AfterDeath == IF program = "pool" THEN "fork" ELSE "waitid"

waitid_dead ==
  /\ pc = "waitid"
  /\ \E p \in Pids :
       /\ child[p] = "dead"
       /\ child' = [child EXCEPT ![p] = "reaped"]
  /\ told' = TRUE
  /\ ahead' = (ahead \/ pend)
  /\ pc' = AfterDeath
  /\ UNCHANGED <<program, news, pend, i, extra, left>>

MutAfterStop == "waitid"

\* In the pool a stopped child is replaced like one that ended.
AfterStop == AfterDeath

waitid_stopped ==
  /\ pc = "waitid" /\ program # "nocldstop"
  /\ \E p \in Pids :
       /\ news[p] = "stopped"
       /\ news' = [news EXCEPT ![p] = "none"]
  /\ told' = TRUE
  /\ ahead' = (ahead \/ pend)
  /\ extra' = IF program = "pool" THEN extra + 1 ELSE extra
  /\ pc' = AfterStop
  /\ UNCHANGED <<program, child, pend, i, left>>

\* A continued child is not replaced; the pool's loop ends without is_refork.
waitid_continued ==
  /\ pc = "waitid" /\ program # "nocldstop"
  /\ \E p \in Pids :
       /\ news[p] = "continued"
       /\ news' = [news EXCEPT ![p] = "none"]
       /\ left' = (left \/ Waitable # {p})
  /\ told' = TRUE
  /\ ahead' = (ahead \/ pend)
  /\ pc' = IF program = "pool" THEN "read" ELSE "waitid"
  /\ UNCHANGED <<program, child, pend, i, extra>>

\* Nothing (more) to report.  If the pool's str_status was not set in this round
\* it is printed uninitialised: what it was before, or an invalid pointer.  The
\* handler of sig_waitid.c goes on asking for ever.
waitid_nothing ==
  /\ pc = "waitid" /\ program # "waitid"
  /\ Waitable = {}
  /\ pc' \in (IF told \/ program # "pool" THEN {"read"} ELSE {"read", "exited"})
  /\ left' = FALSE
  /\ UNCHANGED <<program, child, news, pend, i, told, extra, ahead>>

MutAfterFork == pc' = "read" /\ UNCHANGED told
MutAfterForkForgets == pc' = "waitid" /\ told' = FALSE

\* is_refork was set: once more round the loop.
AfterFork == pc' = "waitid" /\ UNCHANGED told

main_fork_again ==
  /\ pc = "fork"
  /\ start_child
  /\ AfterFork
  /\ UNCHANGED <<program, news, pend, i, extra, left, ahead>>

\* Without its child a handler program waits for signals that never come.
main_fork_fails ==
  /\ pc = "fork" \/ (pc = "start" /\ InPool)
  /\ pc' = IF program = "pool" THEN "exited" ELSE "read"
  /\ UNCHANGED <<program, child, news, pend, i, told, extra, left, ahead>>

-----------------------------------------------------------------------------

Parent ==
  \/ main_start_child \/ main_started
  \/ main_read
  \/ waitid_dead \/ waitid_stopped \/ waitid_continued \/ waitid_nothing
  \/ main_fork_again \/ main_fork_fails

Child(p) == Dies(p) \/ Stops(p) \/ Continues(p)

LoopsNext == Parent \/ \E p \in Pids : Child(p)

LoopsSpec == LoopsInit /\ [][LoopsNext]_loops_vars

-----------------------------------------------------------------------------

\* When the parent waits for SIGCHLD and none is pending, no child has news,
\* although signals merge: unless a child that continued has made the pool's
\* parent leave the others for the next signal.  With SA_NOCLDSTOP nobody is
\* told of stops, but no death is missed either.
NothingLeft ==
  pc = "read" /\ ~pend => Waitable = {} \/ (program = "pool" /\ left)

\* io_signalfd_chld.c: the pool has MAX_POOL children, those that have ended
\* unnoticed included, plus one for each that was replaced when it had only
\* stopped.
PoolExact ==
  /\ LoopsTypeOK
  /\ program = "pool" /\ pc \in {"read", "waitid", "fork"} =>
       Cardinality({p \in Pids : child[p] \in {"running", "stopped", "dead"}})
         = MAX_POOL + extra - (IF pc = "fork" THEN 1 ELSE 0)

\* str_status is printed uninitialised only if an earlier round had collected
\* what this SIGCHLD announced; never in the first round.
StatusSet ==
  program = "pool" /\ pc = "waitid" /\ ~told /\ Waitable = {} => ahead

=============================================================================
