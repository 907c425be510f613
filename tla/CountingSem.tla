----------------------------- MODULE CountingSem -----------------------------
(***************************************************************************)
(* Chapter05/posix_named_sem_cnt.c and posix_nameless_sem.c: main starts   *)
(* max_child children, at most n_count of them at a time, with a POSIX     *)
(* semaphore as the counter, and each child gives its token back.          *)
(*                                                                         *)
(* In the first program children are processes; child 11 aborts, and the   *)
(* SIGCHLD handler check_abrt, which reaps one child per call, gives the   *)
(* token back for it.  The handler was installed with signal(), so SIGCHLD *)
(* also comes when a child is stopped or continued; waitpid() may then     *)
(* return 0 and status is read unset.  In the second program they are      *)
(* threads that main joins; thread 11 returns without sem_post and nobody  *)
(* does it for it.                                                         *)
(***************************************************************************)
EXTENDS Integers, FiniteSets

CONSTANTS
  max_child,  \* 30 in both programs
  Quitter,    \* the child that gives nothing back: 11 in the code
  N,          \* n_count, or more tokens an earlier run has left behind
  MaxNews     \* bound: how often children are stopped or continued

ASSUME CountingSemAssumption ==
  /\ max_child \in Nat \ {0}
  /\ N \in Nat \ {0}
  /\ MaxNews \in Nat

Children == 0 .. max_child - 1

VARIABLES
  program,   \* "named" or "nameless"
  start,     \* the semaphore's value when main began
  sem,       \* its value
  mpc,       \* where main is
  i,         \* main's loop counter
  child,     \* the state of each child
  pend,      \* SIGCHLD is pending for main
  hpc,       \* where check_abrt is
  cur_child,
  hoisted,   \* the build reads the plain int cur_child once, before its loop
  merged,    \* history: a child died while SIGCHLD was already pending
  stopped,   \* the children stopped by a signal (a user's SIGSTOP or SIGTSTP)
  news,      \* history: how often a child was stopped or continued
  empty      \* history: the calls of check_abrt that reaped no child

stops == <<stopped, news>>
handler == <<pend, hpc, cur_child, merged, empty>>
chosen == <<program, start, hoisted>>
vars == <<chosen, sem, mpc, i, child, handler, stops>>

TypeOK ==
  /\ program \in {"named", "nameless"}
  /\ start \in 0 .. N
  /\ sem \in Nat
  /\ mpc \in {"wait", "create", "poll", "spin", "stuck", "join", "done", "failed"}
  /\ i \in 0 .. max_child
  /\ child \in [Children -> {"none", "work", "posted", "exited", "aborted", "reaped"}]
  /\ pend \in BOOLEAN
  /\ hpc \in {"idle", "waitpid", "post", "count", "exit"}
  /\ cur_child \in Int
  /\ hoisted \in BOOLEAN
  /\ merged \in BOOLEAN
  /\ stopped \subseteq Children
  /\ news \in 0 .. MaxNews
  /\ empty \in Nat

\* The semaphore has n_count tokens; but sem_open may have attached to one that
\* an earlier run left behind with any number of them.
Init ==
  /\ program \in {"named", "nameless"}
  /\ start \in 0 .. N
  /\ sem = start
  /\ mpc = "wait"
  /\ i = 0
  /\ child = [c \in Children |-> "none"]
  /\ pend = FALSE
  /\ hpc = "idle"
  /\ cur_child = max_child
  /\ hoisted \in (IF program = "named" THEN BOOLEAN ELSE {FALSE})
  /\ merged = FALSE
  /\ stopped = {}
  /\ news = 0
  /\ empty = 0

-----------------------------------------------------------------------------
(* main                                                                    *)

\* main runs except while its signal handler does.
MainAt(here) == hpc = "idle" /\ mpc = here

main_sem_wait ==
  /\ MainAt("wait")
  /\ sem > 0
  /\ sem' = sem - 1
  /\ mpc' = "create"
  /\ UNCHANGED <<chosen, i, child, handler, stops>>

\* fork() or pthread_create().
main_create ==
  /\ MainAt("create")
  /\ child' = [child EXCEPT ![i] = "work"]
  /\ i' = i + 1
  /\ mpc' = IF i + 1 < max_child THEN "wait"
            ELSE IF program = "named" THEN "poll" ELSE "join"
  /\ UNCHANGED <<chosen, sem, handler, stops>>

\* exit(EXIT_FAILURE): a named semaphore stays behind, threads end with main.
main_create_fails ==
  /\ MainAt("create")
  /\ mpc' = "failed"
  /\ UNCHANGED <<chosen, sem, i, child, handler, stops>>

MutPolled == cur_child > 1

Polled == cur_child > 0

\* while (cur_child > 0); the first test, and the only one if it is hoisted.
main_poll ==
  /\ MainAt("poll")
  /\ mpc' = IF ~Polled THEN "done" ELSE IF hoisted THEN "stuck" ELSE "spin"
  /\ UNCHANGED <<chosen, sem, i, child, handler, stops>>

\* The later tests; then the semaphore is unlinked.
main_spin ==
  /\ MainAt("spin")
  /\ ~Polled
  /\ mpc' = "done"
  /\ UNCHANGED <<chosen, sem, i, child, handler, stops>>

\* pthread_join() of each thread in turn (here all are reaped by the last
\* call); then the semaphore is destroyed.
main_join ==
  /\ MainAt("join")
  /\ \A c \in Children : child[c] = "exited"
  /\ child' = [c \in Children |-> "reaped"]
  /\ mpc' = "done"
  /\ UNCHANGED <<chosen, sem, i, handler, stops>>

-----------------------------------------------------------------------------
(* Children.                                                               *)

Running == program = "named" \/ mpc # "failed"

child_sem_post(c) ==
  /\ Running
  /\ child[c] = "work" /\ c # Quitter /\ c \notin stopped
  /\ sem' = sem + 1
  /\ child' = [child EXCEPT ![c] = "posted"]
  /\ UNCHANGED <<chosen, mpc, i, handler, stops>>

\* The process of main has ended: SIGCHLD goes elsewhere.
MainGone == mpc \in {"done", "failed"} \/ hpc = "exit"

\* SIGCHLD does not queue: it is pending or it is not.
Dies(c, how) ==
  /\ c \notin stopped
  /\ child' = [child EXCEPT ![c] = how]
  /\ pend' = ~MainGone
  /\ merged' = (merged \/ pend)
  /\ UNCHANGED <<chosen, sem, mpc, i, hpc, cur_child, empty, stops>>

child_exit(c) ==
  /\ program = "named"
  /\ child[c] = "posted"
  /\ Dies(c, "exited")

child_abort(c) ==
  /\ program = "named"
  /\ child[c] = "work" /\ c = Quitter
  /\ Dies(c, "aborted")

\* A thread returns, thread 11 with its token.
child_return(c) ==
  /\ program = "nameless" /\ Running
  /\ child[c] = IF c = Quitter THEN "work" ELSE "posted"
  /\ child' = [child EXCEPT ![c] = "exited"]
  /\ UNCHANGED <<chosen, sem, mpc, i, handler, stops>>

\* SIGCHLD tells main also that a child process was stopped or continued:
\* signal() sets no SA_NOCLDSTOP.
News ==
  /\ program = "named"
  /\ news < MaxNews /\ news' = news + 1
  /\ pend' = ~MainGone
  /\ UNCHANGED <<chosen, sem, mpc, i, child, hpc, cur_child, merged, empty>>

child_stop(c) ==
  /\ child[c] \in {"work", "posted"} /\ c \notin stopped
  /\ stopped' = stopped \cup {c}
  /\ News

child_continue(c) ==
  /\ c \in stopped
  /\ stopped' = stopped \ {c}
  /\ News

-----------------------------------------------------------------------------
(* check_abrt: SIGCHLD is blocked while it runs (BSD signal()), and        *)
(* sem_wait is restarted when it returns.                                  *)

check_abrt ==
  /\ ~MainGone
  /\ pend /\ hpc = "idle"
  /\ pend' = FALSE
  /\ hpc' = "waitpid"
  /\ UNCHANGED <<chosen, sem, mpc, i, child, cur_child, merged, empty, stops>>

Zombies == {c \in Children : child[c] \in {"exited", "aborted"}}

MutReaped(c) == "count"

\* The handler's next step: sem_post for an aborted child.
Reaped(c) == IF child[c] = "aborted" THEN "post" ELSE "count"

MutWaitpid ==
  /\ hpc = "waitpid"
  /\ Zombies # {}
  /\ child' = [c \in Children |-> IF c \in Zombies THEN "reaped" ELSE child[c]]
  /\ hpc' = "count"
  /\ UNCHANGED <<chosen, sem, mpc, i, pend, cur_child, merged, empty, stops>>

\* waitpid(-1, &status, WNOHANG) reaps any one dead child.
check_abrt_waitpid ==
  /\ hpc = "waitpid"
  /\ \E c \in Zombies :
       /\ child' = [child EXCEPT ![c] = "reaped"]
       /\ hpc' = Reaped(c)
  /\ UNCHANGED <<chosen, sem, mpc, i, pend, cur_child, merged, empty, stops>>

Left == {c \in Children : child[c] \in {"work", "posted", "exited", "aborted"}}

\* It returns 0: there are children, none of them dead.  status is not set, and
\* what is found in it may be zero or not.
check_abrt_nothing ==
  /\ hpc = "waitpid"
  /\ Zombies = {} /\ Left # {}
  /\ hpc' \in {"post", "count"}
  /\ empty' = empty + 1
  /\ UNCHANGED <<chosen, sem, mpc, i, child, pend, cur_child, merged, stops>>

\* It fails with ECHILD when no child is left: exit(EXIT_FAILURE).
check_abrt_fails ==
  /\ hpc = "waitpid"
  /\ Left = {}
  /\ hpc' = "exit"
  /\ empty' = empty + 1
  /\ UNCHANGED <<chosen, sem, mpc, i, child, pend, cur_child, merged, stops>>

check_abrt_post ==
  /\ hpc = "post"
  /\ sem' = sem + 1
  /\ hpc' = "count"
  /\ UNCHANGED <<chosen, mpc, i, child, pend, cur_child, merged, empty, stops>>

check_abrt_count ==
  /\ hpc = "count"
  /\ cur_child' = cur_child - 1
  /\ hpc' = "idle"
  /\ UNCHANGED <<chosen, sem, mpc, i, child, pend, merged, empty, stops>>

-----------------------------------------------------------------------------

Main ==
  \/ main_sem_wait \/ main_create \/ main_create_fails
  \/ main_poll \/ main_spin \/ main_join

Handler ==
  \/ check_abrt
  \/ check_abrt_waitpid \/ check_abrt_nothing \/ check_abrt_fails
  \/ check_abrt_post \/ check_abrt_count

Child(c) ==
  child_sem_post(c) \/ child_exit(c) \/ child_abort(c) \/ child_return(c)

Next ==
  \/ Main \/ Handler
  \/ \E c \in Children : Child(c) \/ child_stop(c) \/ child_continue(c)

Spec == Init /\ [][Next]_vars

\* Every process and thread is scheduled; a pending signal is delivered.
FairSpec ==
  /\ Spec
  /\ WF_vars(Main) /\ WF_vars(Handler)
  /\ \A c \in Children : WF_vars(Child(c))

-----------------------------------------------------------------------------

Count(states) == Cardinality({c \in Children : child[c] \in states})
One(b) == IF b THEN 1 ELSE 0

\* The token thread 11 has taken with it.
Lost ==
  One(program = "nameless" /\ \E c \in Children :
        c = Quitter /\ child[c] \in {"exited", "reaped"})

\* Where tokens are: in the semaphore, with main on its way to create a child,
\* with a child at work, owed for an aborted child until the handler has reaped
\* it, in the handler's hand, or gone with thread 11.
Tokens ==
  sem + Count({"work", "aborted"}) + Lost
      + One(mpc \in {"create", "failed"}) + One(hpc = "post")

\* No token is lost but that of thread 11, and none is made but by a call of
\* check_abrt that reaped nobody and found its unset status not zero.  So while
\* nobody stops a child, never more than n_count children work at once.
TokenConservation ==
  /\ TypeOK
  /\ Tokens \in start .. start + empty

\* A call of check_abrt without a dead child to reap (status unset, cur_child
\* one too low, or the process ended) comes from the news of a stop or a
\* continue, one call at most from each: deaths alone cause none, however their
\* signals merge.
EmptyCallsAreNews ==
  empty + One(hpc = "waitpid" /\ Zombies = {}) <= news

\* When main unlinks or destroys the semaphore, at most as many children are
\* not reaped yet as calls of check_abrt found nobody; without such calls no
\* child will use the semaphore any more and all the tokens are back but the
\* one of thread 11.
CleanEnd ==
  mpc = "done" =>
    /\ Count({"reaped"}) + empty >= max_child
    /\ empty = 0 => sem + Lost = start

\* main ends once no child is stopped for good, unless two SIGCHLDs were merged
\* (a child then stays unreaped, and its token too if it is the aborted one),
\* the build hoists the test of cur_child, there was no token to begin with, or
\* thread 11 took the only one.
EndsUnlessMerged ==
  <>[](stopped = {}) =>
    <>(MainGone \/ merged \/ hoisted \/ start = 0 \/ start = Lost)

=============================================================================
