---------------------------- MODULE WorkQueueRts ----------------------------
(***************************************************************************)
(* Chapter10/cond_var_rts.c: the work queue of WorkQueue, whose consumers  *)
(* report every finished job to one more thread with a queued real-time    *)
(* signal.  tfunc_b calls sigqueue(getpid(), SIGRTMIN, arg), every thread  *)
(* blocks SIGRTMIN (main sets the mask before it creates them) and         *)
(* start_sigthread collects the signals with sigwaitinfo().                *)
(***************************************************************************)
EXTENDS WorkQueue, FiniteSets

CONSTANTS
  SigThread,  \* the thread that runs start_sigthread
  SigPending  \* RLIMIT_SIGPENDING: how many signals the kernel will queue

ASSUME WorkQueueRtsAssumption ==
  /\ SigThread \notin Threads \cup {NoThread}
  /\ SigPending \in Nat \ {0}

VARIABLES
  sigq,     \* the queued SIGRTMINs: for each the sender, i.e. its sival_ptr
  sigpc,    \* where start_sigthread is
  thd,      \* its variable thd (NoThread: not set yet)
  tids,     \* the threads whose tid pthread_create() has stored in t_arg
  notifying,  \* the consumers between process_job and the end of sigqueue()
  jobs,     \* history: jobs[c] is how many jobs c has finished
  reports   \* history: whose notification was printed, in order

sigvars == <<sigq, sigpc, thd, tids, notifying, jobs, reports>>
rtsVars == <<vars, sigvars>>

RtsTypeOK ==
  /\ TypeOK
  /\ sigq \in Seq(Consumers) /\ Len(sigq) <= SigPending
  /\ sigpc \in {"unborn", "sigwait", "report"}
  /\ thd \in Consumers \cup {NoThread}
  /\ tids \subseteq Threads \cup {SigThread}
  /\ notifying \subseteq Consumers
  /\ jobs \in [Consumers -> Nat]
  /\ reports \in Seq(Consumers)

RtsInit ==
  /\ Init
  /\ sigq = << >>
  /\ sigpc = "unborn"
  /\ thd = NoThread
  /\ tids = {}
  /\ notifying = {}
  /\ jobs = [c \in Consumers |-> 0]
  /\ reports = << >>

-----------------------------------------------------------------------------
(* main: pthread_create() starts the thread and stores its tid in t_arg;   *)
(* the new thread may run before the tid is stored, but main does not go   *)
(* on to the next entry of t_arg before that.                              *)

Created == {t \in Threads : pc[t] # "unborn"}
             \cup (IF sigpc = "unborn" THEN {} ELSE {SigThread})

rts_create(t) ==
  /\ Created = tids
  /\ main_create(t)
  /\ UNCHANGED sigvars

MutSigthreadTurn == pc[Producer] # "unborn"

\* start_sigthread is the last entry of t_arg.
SigthreadTurn == \A t \in Threads : t \in tids

rts_create_sigthread ==
  /\ alive
  /\ SigthreadTurn
  /\ sigpc = "unborn" /\ sigpc' = "sigwait"
  /\ UNCHANGED <<vars, sigq, thd, tids, notifying, jobs, reports>>

rts_created ==
  /\ alive
  /\ Created # tids
  /\ tids' = Created
  /\ UNCHANGED <<vars, sigq, sigpc, thd, notifying, jobs, reports>>

\* pthread_create() failed: pr_crt.
rts_create_fails ==
  /\ alive
  /\ Created = tids /\ SigThread \notin tids
  /\ alive' = FALSE
  /\ UNCHANGED <<item, idx, cnt, mutex, pc, got, sent, left, j, sigvars>>

-----------------------------------------------------------------------------
(* The queue, as in Chapter08.                                             *)

rts_push_item ==
  /\ push_item_lock \/ push_item_store \/ push_item_return
  /\ UNCHANGED sigvars

rts_tfunc_a ==
  /\ tfunc_a_read \/ tfunc_a_exit \/ tfunc_a_broadcast
  /\ UNCHANGED sigvars

rts_pop_item(c) ==
  /\ c \notin notifying
  /\ PopStep(c) \/ spurious_wakeup(c)
  /\ UNCHANGED sigvars

-----------------------------------------------------------------------------

MutQueued(q, c) == IF \E i \in 1 .. Len(q) : q[i] = c THEN q ELSE Append(q, c)

\* A real-time signal is queued behind the others, never merged.
Queued(q, c) == Append(q, c)

\* No lock is held from here to the end of sigqueue(): other consumers may pop,
\* finish and notify in between.
tfunc_b_job(c) ==
  /\ c \notin notifying
  /\ process_job(c)
  /\ jobs' = [jobs EXCEPT ![c] = @ + 1]
  /\ notifying' = notifying \cup {c}
  /\ UNCHANGED <<sigq, sigpc, thd, tids, reports>>

tfunc_b_notify(c) ==
  /\ alive /\ c \in notifying
  /\ Len(sigq) < SigPending
  /\ sigq' = Queued(sigq, c)
  /\ notifying' = notifying \ {c}
  /\ UNCHANGED <<vars, sigpc, thd, tids, jobs, reports>>

MutNotifyFails(c) ==
  /\ alive /\ c \in notifying
  /\ Len(sigq) = SigPending
  /\ notifying' = notifying \ {c}
  /\ UNCHANGED <<vars, sigq, sigpc, thd, tids, jobs, reports>>

\* sigqueue() fails with EAGAIN when the limit is reached: pr_crt exits.
tfunc_b_notify_fails(c) ==
  /\ alive /\ c \in notifying
  /\ Len(sigq) = SigPending
  /\ alive' = FALSE
  /\ UNCHANGED <<item, idx, cnt, mutex, pc, got, sent, left, j, sigvars>>

\* sigwaitinfo() takes the signal that was queued first.
start_sigthread_wait ==
  /\ alive
  /\ sigpc = "sigwait" /\ sigpc' = "report"
  /\ sigq # << >>
  /\ thd' = Head(sigq)
  /\ sigq' = Tail(sigq)
  /\ UNCHANGED <<vars, tids, notifying, jobs, reports>>

\* pr_out("... notification from (%lu)", thd->tid)
start_sigthread_report ==
  /\ alive
  /\ sigpc = "report" /\ sigpc' = "sigwait"
  /\ reports' = Append(reports, thd)
  /\ UNCHANGED <<vars, sigq, thd, tids, notifying, jobs>>

-----------------------------------------------------------------------------

NotifyStep(c) == tfunc_b_notify(c) \/ tfunc_b_notify_fails(c)

SigthreadStep == start_sigthread_wait \/ start_sigthread_report

rts_exited == ~alive /\ UNCHANGED rtsVars

RtsNext ==
  \/ \E t \in Threads : rts_create(t)
  \/ rts_create_sigthread \/ rts_created \/ rts_create_fails
  \/ rts_push_item \/ rts_tfunc_a
  \/ \E c \in Consumers :
       rts_pop_item(c) \/ tfunc_b_job(c) \/ NotifyStep(c)
  \/ SigthreadStep
  \/ rts_exited

RtsSpec == RtsInit /\ [][RtsNext]_rtsVars

\* As in WorkQueue: every thread that can run is scheduled.
RtsFairSpec ==
  /\ RtsSpec
  /\ WF_rtsVars(rts_created \/ rts_create_sigthread)
  /\ \A t \in Threads : WF_rtsVars(rts_create(t))
  /\ WF_rtsVars(rts_push_item \/ (tfunc_a_broadcast /\ UNCHANGED sigvars))
  /\ \A c \in Consumers :
       WF_rtsVars((c \notin notifying /\ PopStep(c) /\ UNCHANGED sigvars)
                    \/ tfunc_b_job(c) \/ NotifyStep(c))
  /\ WF_rtsVars(SigthreadStep)

-----------------------------------------------------------------------------

\* The notification start_sigthread has taken but not printed yet.
InHand == IF sigpc = "report" THEN <<thd>> ELSE << >>

\* What was printed, then what is in hand, then what is queued: the calls of
\* sigqueue() that succeeded, in their order.
Told == reports \o InHand \o sigq

Times(c, s) == Cardinality({k \in DOMAIN s : s[k] = c})

\* Notifications are neither lost nor merged nor invented: for each consumer the
\* jobs it has finished are as many as its notifications, whether printed, in
\* hand or queued, and one more while it is between process_job and the end of
\* sigqueue().  So when a failed sigqueue() ends the process, at most one job of
\* each consumer is unsignalled.  (Across consumers jobs and signals need not be
\* in the same order.)
NotifiedOnce ==
  /\ RtsTypeOK
  /\ \A c \in Consumers :
       jobs[c] = Times(c, Told) + (IF c \in notifying THEN 1 ELSE 0)

\* start_sigthread prints thd->tid only after pthread_create() stored it,
\* although the notifying thread may start, finish a job and queue its signal
\* before that.
TidKnown == sigpc = "report" => thd \in tids

\* Every finished job is eventually printed unless the process exits.
EveryJobReported ==
  \A c \in Consumers, n \in 1 .. StreamLen :
    jobs[c] >= n ~> ~alive \/ Times(c, reports) >= n

=============================================================================
