------------------------------ MODULE SysvSem ------------------------------
(***************************************************************************)
(* Chapter05/sysv_sem.c and sysv_sem_zwait.c: main gets the System V       *)
(* semaphore of a fixed key and forks children that pass through a         *)
(* critical section; child 2 aborts inside it and SEM_UNDO gives its unit  *)
(* back.  sysv_sem_zwait.c starts the semaphore at 2 instead of 1 and      *)
(* forks one more child that waits for the value to become zero.           *)
(*                                                                         *)
(* Several programs of both kinds may run at once: they all meet at the    *)
(* same key, one creates and initialises the set, the others attach to it, *)
(* and whoever ends first removes it.  A removed set is never used again   *)
(* by the kernel; its successor has another identifier.                    *)
(***************************************************************************)
EXTENDS Integers, FiniteSets

CONSTANTS
  Programs,       \* the running programs
  ZwaitPrograms,  \* those that run sysv_sem_zwait.c
  NChild,         \* n_child
  Aborter         \* the child that aborts: 2 in the code

ASSUME SysvSemAssumption ==
  /\ IsFiniteSet(Programs)
  /\ ZwaitPrograms \subseteq Programs
  /\ NChild \in Nat

\* The last argument but one of sysv_semget.
SemValue(p) == IF p \in ZwaitPrograms THEN 2 ELSE 1

Kids == Programs \X (0 .. NChild - 1)
Prog(c) == c[1]

NoSet == 0                         \* no set, or sem_id = -1
Ids == 1 .. Cardinality(Programs)  \* a program creates at most one set
Gone == -1                         \* the value of a set that does not exist

VARIABLES
  key,     \* the set the key names
  lastid,  \* the newest identifier
  val,     \* val[id]: the semaphore's value
  given,   \* given[id]: the value SETVAL gave it, 0 before
  mpc,     \* where each main is
  sem_id,  \* main's sem_id, which its children inherit
  forked,  \* how many children it has forked
  cpc,     \* where each child is
  undo,    \* the child's SEM_UNDO adjustment
  zpc      \* where the program's zero-waiter is

vars == <<key, lastid, val, given, mpc, sem_id, forked, cpc, undo, zpc>>

TypeOK ==
  /\ key \in Ids \cup {NoSet}
  /\ lastid \in Ids \cup {NoSet}
  /\ val \in [Ids -> Gone .. 2]
  /\ given \in [Ids -> 0 .. 2]
  /\ mpc \in [Programs -> {"semget", "attach", "setval", "forkz", "fork", "waitpid",
                           "semrm", "done", "failed"}]
  /\ sem_id \in [Programs -> Ids \cup {NoSet}]
  /\ forked \in [Programs -> 0 .. NChild]
  /\ cpc \in [Kids -> {"none", "semwait", "cs", "exited"}]
  /\ undo \in [Kids -> {0, 1}]
  /\ zpc \in [Programs -> {"none", "zwait", "asleep", "exited"}]

Init ==
  /\ key = NoSet /\ lastid = NoSet
  /\ val = [id \in Ids |-> Gone]
  /\ given = [id \in Ids |-> 0]
  /\ mpc = [p \in Programs |-> "semget"]
  /\ sem_id = [p \in Programs |-> NoSet]
  /\ forked = [p \in Programs |-> 0]
  /\ cpc = [c \in Kids |-> "none"]
  /\ undo = [c \in Kids |-> 0]
  /\ zpc = [p \in Programs |-> "none"]

Goto(p, from, to) ==
  /\ mpc[p] = from
  /\ mpc' = [mpc EXCEPT ![p] = to]

Exists(id) == id # NoSet /\ val[id] # Gone

FirstFork(p) == IF p \in ZwaitPrograms THEN "forkz" ELSE "fork"

-----------------------------------------------------------------------------
(* sysv_semget                                                             *)

\* semget(IPC_CREAT | IPC_EXCL) makes a new set; Linux starts it at zero.
semget_creates(p) ==
  /\ key = NoSet
  /\ Goto(p, "semget", "setval")
  /\ lastid' = lastid + 1
  /\ key' = lastid + 1
  /\ val' = [val EXCEPT ![lastid + 1] = 0]
  /\ sem_id' = [sem_id EXCEPT ![p] = lastid + 1]
  /\ UNCHANGED <<given, forked, cpc, undo, zpc>>

semget_exists(p) ==
  /\ key # NoSet
  /\ Goto(p, "semget", "attach")
  /\ UNCHANGED <<key, lastid, val, given, sem_id, forked, cpc, undo, zpc>>

\* The second semget: the set as it is, initialised or not; -1 if it has been
\* removed in the meantime, which main does not check.
semget_attaches(p) ==
  /\ Goto(p, "attach", FirstFork(p))
  /\ sem_id' = [sem_id EXCEPT ![p] = key]
  /\ UNCHANGED <<key, lastid, val, given, forked, cpc, undo, zpc>>

\* SETVAL also clears every process's adjustment; on a removed set it fails
\* and sysv_semget returns -1.
semctl_setval(p) ==
  /\ Goto(p, "setval", FirstFork(p))
  /\ LET id == sem_id[p]
     IN  IF Exists(id)
           THEN /\ val' = [val EXCEPT ![id] = SemValue(p)]
                /\ given' = [given EXCEPT ![id] = SemValue(p)]
                /\ undo' = [c \in Kids |-> IF sem_id[Prog(c)] = id THEN 0 ELSE undo[c]]
                /\ UNCHANGED sem_id
           ELSE /\ sem_id' = [sem_id EXCEPT ![p] = NoSet]
                /\ UNCHANGED <<val, given, undo>>
  /\ UNCHANGED <<key, lastid, forked, cpc, zpc>>

-----------------------------------------------------------------------------
(* main after sysv_semget                                                  *)

\* The zero-waiter is forked first; a failed fork is not noticed.
main_fork_zwaiter(p) ==
  /\ Goto(p, "forkz", "fork")
  /\ zpc' \in {[zpc EXCEPT ![p] = "zwait"], zpc}
  /\ UNCHANGED <<key, lastid, val, given, sem_id, forked, cpc, undo>>

main_fork(p) ==
  /\ Goto(p, "fork", "fork")
  /\ forked[p] < NChild
  /\ cpc' = [cpc EXCEPT ![<<p, forked[p]>>] = "semwait"]
  /\ forked' = [forked EXCEPT ![p] = @ + 1]
  /\ UNCHANGED <<key, lastid, val, given, sem_id, undo, zpc>>

\* exit(EXIT_FAILURE): the children go on and the set stays.
main_fork_fails(p) ==
  /\ Goto(p, "fork", "failed")
  /\ forked[p] < NChild
  /\ UNCHANGED <<key, lastid, val, given, sem_id, forked, cpc, undo, zpc>>

main_forked_all(p) ==
  /\ Goto(p, "fork", "waitpid")
  /\ forked[p] = NChild
  /\ UNCHANGED <<key, lastid, val, given, sem_id, forked, cpc, undo, zpc>>

MutWaited(p) == \E k \in 0 .. NChild - 1 : cpc[<<p, k>>] = "exited"

\* One waitpid per child, which fails at once when there are fewer children.
Waited(p) ==
  /\ \A k \in 0 .. NChild - 1 : cpc[<<p, k>>] = "exited"
  /\ zpc[p] \in {"none", "exited"}

main_waitpid(p) ==
  /\ Goto(p, "waitpid", "semrm")
  /\ Waited(p)
  /\ UNCHANGED <<key, lastid, val, given, sem_id, forked, cpc, undo, zpc>>

\* IPC_RMID; sleepers wake up with EIDRM (see below).
main_semrm(p) ==
  LET id == sem_id[p]
  IN  /\ Exists(id)
      /\ Goto(p, "semrm", "done")
      /\ val' = [val EXCEPT ![id] = Gone]
      /\ key' = NoSet
      /\ UNCHANGED <<lastid, given, sem_id, forked, cpc, undo, zpc>>

\* The set is gone or sem_id is -1: exit(EXIT_FAILURE).
main_semrm_fails(p) ==
  /\ ~Exists(sem_id[p])
  /\ Goto(p, "semrm", "failed")
  /\ UNCHANGED <<key, lastid, val, given, sem_id, forked, cpc, undo, zpc>>

-----------------------------------------------------------------------------
(* handle_criticalsect                                                     *)

ChildGoto(c, from, to) ==
  /\ cpc[c] = from
  /\ cpc' = [cpc EXCEPT ![c] = to]

MutUndoOp(c) == undo

\* semop -1 with SEM_UNDO.
UndoOp(c) == [undo EXCEPT ![c] = @ + 1]

\* A waiter for zero is let go by the very semop that reaches zero.
sysv_semwait(c) ==
  LET id == sem_id[Prog(c)]
  IN  /\ Exists(id) /\ val[id] > 0
      /\ ChildGoto(c, "semwait", "cs")
      /\ val' = [val EXCEPT ![id] = @ - 1]
      /\ undo' = UndoOp(c)
      /\ zpc' = [p \in Programs |->
                   IF val[id] = 1 /\ zpc[p] = "asleep" /\ sem_id[p] = id
                     THEN "exited" ELSE zpc[p]]
      /\ UNCHANGED <<key, lastid, given, mpc, sem_id, forked>>

\* semop on a removed set, before or while it sleeps: the child gives up.
sysv_semwait_fails(c) ==
  /\ ~Exists(sem_id[Prog(c)])
  /\ ChildGoto(c, "semwait", "exited")
  /\ UNCHANGED <<key, lastid, val, given, mpc, sem_id, forked, undo, zpc>>

\* sysv_sempost: +1 and the adjustment back to 0, then exit.  It fails if the
\* set is gone.
sysv_sempost(c) ==
  LET id == sem_id[Prog(c)]
  IN  /\ c[2] # Aborter
      /\ ChildGoto(c, "cs", "exited")
      /\ IF Exists(id)
           THEN /\ val' = [val EXCEPT ![id] = @ + 1]
                /\ undo' = [undo EXCEPT ![c] = @ - 1]
           ELSE UNCHANGED <<val, undo>>
      /\ UNCHANGED <<key, lastid, given, mpc, sem_id, forked, zpc>>

\* abort(): the kernel applies the adjustment.
child_abort(c) ==
  LET id == sem_id[Prog(c)]
  IN  /\ c[2] = Aborter
      /\ ChildGoto(c, "cs", "exited")
      /\ val' = IF Exists(id) THEN [val EXCEPT ![id] = @ + undo[c]] ELSE val
      /\ undo' = [undo EXCEPT ![c] = 0]
      /\ UNCHANGED <<key, lastid, given, mpc, sem_id, forked, zpc>>

-----------------------------------------------------------------------------
(* handle_waitforzero                                                      *)

\* semop 0 sleeps unless the value is zero now or the set is gone.
sysv_semzwait(p) ==
  /\ zpc[p] = "zwait"
  /\ zpc' = [zpc EXCEPT ![p] =
               IF Exists(sem_id[p]) /\ val[sem_id[p]] # 0 THEN "asleep" ELSE "exited"]
  /\ UNCHANGED <<key, lastid, val, given, mpc, sem_id, forked, cpc, undo>>

sysv_semzwait_fails(p) ==
  /\ zpc[p] = "asleep"
  /\ ~Exists(sem_id[p])
  /\ zpc' = [zpc EXCEPT ![p] = "exited"]
  /\ UNCHANGED <<key, lastid, val, given, mpc, sem_id, forked, cpc, undo>>

-----------------------------------------------------------------------------

Main(p) ==
  \/ semget_creates(p) \/ semget_exists(p) \/ semget_attaches(p)
  \/ semctl_setval(p)
  \/ main_fork_zwaiter(p) \/ main_fork(p) \/ main_fork_fails(p)
  \/ main_forked_all(p) \/ main_waitpid(p)
  \/ main_semrm(p) \/ main_semrm_fails(p)

Child(c) ==
  sysv_semwait(c) \/ sysv_semwait_fails(c) \/ sysv_sempost(c) \/ child_abort(c)

Zwaiter(p) == sysv_semzwait(p) \/ sysv_semzwait_fails(p)

Next ==
  \/ \E p \in Programs : Main(p) \/ Zwaiter(p)
  \/ \E c \in Kids : Child(c)

Spec == Init /\ [][Next]_vars

\* Every process is scheduled; nothing is assumed of the order in which the
\* kernel serves the sleepers of a semaphore.
FairSpec ==
  /\ Spec
  /\ \A p \in Programs : WF_vars(Main(p)) /\ WF_vars(Zwaiter(p))
  /\ \A c \in Kids : WF_vars(Child(c))

-----------------------------------------------------------------------------

\* The children inside the critical section of set id.
Inside(id) == {c \in Kids : cpc[c] = "cs" /\ sem_id[Prog(c)] = id}

\* Until a set is removed its value and the children inside add up to what
\* SETVAL gave it, and to zero before: neither an abort in the critical section
\* nor programs that attach before the SETVAL lose or make a unit, so at most
\* as many children are inside, of all programs together, and a set that is
\* left behind is fit for the next program.  And a child's adjustment is 1
\* exactly while it is inside: what the kernel would undo is what it holds.
UnitConservation ==
  /\ TypeOK
  /\ \A id \in Ids :
       val[id] # Gone => val[id] + Cardinality(Inside(id)) = given[id]
  /\ \A c \in Kids :
       Exists(sem_id[Prog(c)]) => (undo[c] = 1 <=> cpc[c] = "cs")

\* A program removes a set only when its own children are through with it; the
\* ones it takes the set away from are another program's.
RemovedByOthers ==
  \A c \in Kids :
    cpc[c] = "cs" /\ ~Exists(sem_id[Prog(c)]) =>
      \E q \in Programs : q # Prog(c) /\ mpc[q] = "done" /\ sem_id[q] = sem_id[Prog(c)]

Over(p) == mpc[p] \in {"done", "failed"}

\* Every program ends, whatever the others do to the set, unless all that is
\* left of it is a zero-waiter whose semaphore never was zero while it waited.
EveryProgramEnds ==
  \A p \in Programs :
    <>(\/ Over(p)
       \/ zpc[p] = "asleep" /\ \A k \in 0 .. NChild - 1 : cpc[<<p, k>>] = "exited")

\* The zero-waiter is let go, other than by the end of its set, only at a moment
\* when as many children, of all programs together, are inside as SETVAL gave the
\* set units: none if the maker's SETVAL is still to come, but never because a
\* child took its unit with it when it aborted.
ZeroMeansFull ==
  [][\A p \in Programs :
       zpc[p] # "exited" /\ zpc'[p] = "exited" /\ Exists(sem_id[p])' =>
         (Cardinality(Inside(sem_id[p])) = given[sem_id[p]])']_vars

=============================================================================
