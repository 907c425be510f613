-------------------------- MODULE Chapter05Proofs --------------------------
(***************************************************************************)
(* Proofs about two modules of Chapter05 that do not share anything:       *)
(* SysvSem, for any set of programs and number of children, and            *)
(* MessageQueues, for any programs, files and sizes of the queues.         *)
(***************************************************************************)
EXTENDS SysvSem, MessageQueues, FiniteSetTheorems, SequenceTheorems,
        WellFoundedInduction, TLAPS

-----------------------------------------------------------------------------
(* The inductive invariant.                                                *)

\* The programs that have called semget: each makes at most one set.
Begun == {p \in Programs : mpc[p] # "semget"}

IdsSuffice == lastid <= Cardinality(Begun)

\* Nobody knows an identifier that has not been given out.
Fresh ==
  /\ key <= lastid
  /\ \A p \in Programs : sem_id[p] <= lastid
  /\ \A id \in Ids : id > lastid => val[id] = Gone /\ given[id] = 0

\* A set waits for the SETVAL of the one program that made it.
OneSetter ==
  \A p \in Programs : mpc[p] = "setval" =>
    /\ sem_id[p] # NoSet
    /\ given[sem_id[p]] = 0
    /\ \A q \in Programs : mpc[q] = "setval" /\ sem_id[q] = sem_id[p] => q = p

\* A program has no children before it has its set.
Unborn ==
  /\ \A p \in Programs :
       /\ mpc[p] \in {"semget", "attach", "setval", "forkz"} => forked[p] = 0
       /\ mpc[p] \in {"semget", "attach", "setval"} => zpc[p] = "none"
  /\ \A c \in Kids :
       /\ c[2] >= forked[Prog(c)] => cpc[c] = "none"
       /\ cpc[c] = "none" => undo[c] = 0

\* main removes the set after its last child.
Through ==
  \A c \in Kids : mpc[Prog(c)] \in {"semrm", "done"} => cpc[c] = "exited"

Entered == \A c \in Kids : cpc[c] = "cs" => sem_id[Prog(c)] # NoSet

Removed ==
  \A id \in Ids : id <= lastid /\ val[id] = Gone =>
    \E q \in Programs : mpc[q] = "done" /\ sem_id[q] = id

Units ==
  \A id \in Ids : val[id] # Gone => val[id] + Cardinality(Inside(id)) = given[id]

Undos ==
  \A c \in Kids :
    Exists(sem_id[Prog(c)]) => (undo[c] = 1 <=> cpc[c] = "cs")

IInv ==
  /\ TypeOK /\ IdsSuffice /\ Fresh /\ OneSetter /\ Unborn /\ Through
  /\ Entered /\ Removed /\ Units /\ Undos

-----------------------------------------------------------------------------
(* Facts about the sets the invariant counts.                              *)

LEMMA KidFacts ==
  /\ IsFiniteSet(Kids)
  /\ \A c \in Kids :
       /\ Prog(c) \in Programs /\ c[1] \in Programs /\ c[2] \in 0 .. NChild - 1
       /\ c = <<Prog(c), c[2]>>
  /\ \A p \in Programs, k \in 0 .. NChild - 1 :
       <<p, k>> \in Kids /\ Prog(<<p, k>>) = p
<1>1. IsFiniteSet(0 .. NChild - 1)
  BY FS_Interval, SysvSemAssumption
<1>2. IsFiniteSet(Kids)
  BY <1>1, FS_Product, SysvSemAssumption DEF Kids
<1> QED
  BY <1>2 DEF Kids, Prog

LEMMA InsideFinite ==
  ASSUME NEW id
  PROVE  /\ IsFiniteSet(Inside(id)) /\ Cardinality(Inside(id)) \in Nat
         /\ Cardinality(Inside(id)) = 0 <=> Inside(id) = {}
<1>1. Inside(id) \in SUBSET Kids
  BY DEF Inside
<1>2. IsFiniteSet(Inside(id))
  BY <1>1, KidFacts, FS_Subset
<1> QED
  BY <1>2, FS_CardinalityType, FS_EmptySet

\* A program that goes on from semget has begun, and nobody leaves Begun.
LEMMA Goes ==
  ASSUME TypeOK, IdsSuffice, NEW p \in Programs, NEW from, NEW to,
         Goto(p, from, to), to # "semget"
  PROVE  /\ lastid \in Nat /\ Cardinality(Programs) \in Nat
         /\ lastid <= Cardinality(Begun')
         /\ from = "semget" =>
              lastid + 1 <= Cardinality(Begun') /\ lastid + 1 <= Cardinality(Programs)
<1>1. /\ IsFiniteSet(Programs) /\ Cardinality(Programs) \in Nat /\ lastid \in Nat
  BY SysvSemAssumption, FS_CardinalityType DEF TypeOK, Ids, NoSet
<1>2. /\ Begun \in SUBSET Programs /\ Begun' \in SUBSET Programs
      /\ Begun' = Begun \cup {p}
  BY DEF Goto, Begun, TypeOK
<1>3. /\ IsFiniteSet(Begun) /\ IsFiniteSet(Begun')
      /\ Cardinality(Begun) \in Nat /\ Cardinality(Begun') \in Nat
      /\ Cardinality(Begun') <= Cardinality(Programs)
  BY <1>1, <1>2, FS_Subset, FS_CardinalityType
<1>4. Cardinality(Begun') = IF p \in Begun THEN Cardinality(Begun)
                                           ELSE Cardinality(Begun) + 1
  BY <1>2, <1>3, FS_AddElement
<1>5. from = "semget" => p \notin Begun
  BY DEF Goto, Begun
<1> QED
  BY <1>1, <1>3, <1>4, <1>5 DEF IdsSuffice

\* Who is inside does not change.
LEMMA SameInside ==
  ASSUME \A c \in Kids : (cpc[c] = "cs" <=> cpc'[c] = "cs"),
         \A c \in Kids : cpc[c] = "cs" => sem_id'[Prog(c)] = sem_id[Prog(c)]
  PROVE  \A id \in Ids : Inside(id)' = Inside(id)
BY DEF Inside

-----------------------------------------------------------------------------
(* Steps of main that leave the sets and the children alone.               *)

Quiet == UNCHANGED <<key, lastid, val, given, sem_id, forked, cpc, undo>>

LEMMA QuietStep ==
  ASSUME IInv, Quiet,
         mpc' \in [Programs -> {"semget", "attach", "setval", "forkz", "fork",
                                "waitpid", "semrm", "done", "failed"}],
         IdsSuffice',
         \A p \in Programs :
           /\ mpc'[p] \in {"semget", "attach", "setval", "forkz"} =>
                mpc[p] \in {"semget", mpc'[p]}
           /\ mpc'[p] = "setval" => mpc[p] = "setval"
           /\ mpc'[p] = "done" <=> mpc[p] = "done"
           /\ mpc'[p] = "semrm" =>
                \A c \in Kids : Prog(c) = p => cpc[c] = "exited"
           /\ mpc'[p] \in {"semget", "attach", "setval"} => zpc'[p] = zpc[p],
         zpc' \in [Programs -> {"none", "zwait", "asleep", "exited"}]
  PROVE  IInv'
<1>1. TypeOK' /\ Fresh' /\ Entered' /\ Undos'
  BY DEF IInv, Quiet, TypeOK, Fresh, Entered, Undos, Exists
<1>2. OneSetter'
  BY DEF IInv, Quiet, OneSetter
<1>3. Unborn'
  BY KidFacts DEF IInv, Quiet, TypeOK, Unborn
<1>4. Through'
  BY KidFacts DEF IInv, Quiet, Through
<1>5. Removed'
  BY DEF IInv, Quiet, Removed
<1>6. Units'
  BY DEF IInv, Quiet, Units, Inside
<1> QED
  BY <1>1, <1>2, <1>3, <1>4, <1>5, <1>6 DEF IInv

LEMMA MainQuiet ==
  ASSUME IInv, NEW p \in Programs,
         \/ semget_exists(p) \/ main_fork_zwaiter(p) \/ main_fork_fails(p)
         \/ main_forked_all(p) \/ main_waitpid(p) \/ main_semrm_fails(p)
  PROVE  IInv'
<1>1. PICK from, to :
        /\ Goto(p, from, to) /\ Quiet
        /\ to \in {"attach", "fork", "waitpid", "semrm", "failed"}
        /\ to = "attach" => from = "semget"
        /\ to # "attach" => from \notin {"semget", "done"}
        /\ to = "semrm" => Waited(p)
        /\ from = "forkz" \/ zpc' = zpc
        /\ zpc' \in {[zpc EXCEPT ![p] = "zwait"], zpc}
  BY DEF semget_exists, main_fork_zwaiter, main_fork_fails, main_forked_all,
         main_waitpid, main_semrm_fails, Goto, Quiet
<1>2. IdsSuffice'
  BY <1>1, Goes DEF IInv, IdsSuffice, Quiet
<1>3. mpc \in [Programs -> {"semget", "attach", "setval", "forkz", "fork",
                            "waitpid", "semrm", "done", "failed"}]
      /\ zpc \in [Programs -> {"none", "zwait", "asleep", "exited"}]
  BY DEF IInv, TypeOK
<1>4. \A c \in Kids :
        (Prog(c) = p /\ to = "semrm") \/ mpc[Prog(c)] = "semrm" => cpc[c] = "exited"
  BY <1>1, KidFacts DEF IInv, Through, Waited
<1>5. /\ mpc' \in [Programs -> {"semget", "attach", "setval", "forkz", "fork",
                                "waitpid", "semrm", "done", "failed"}]
      /\ zpc' \in [Programs -> {"none", "zwait", "asleep", "exited"}]
  BY <1>1, <1>3 DEF Goto
<1>6. \A q \in Programs :
        /\ mpc'[q] = IF q = p THEN to ELSE mpc[q]
        /\ (zpc'[q] = zpc[q]) \/ (q = p /\ from = "forkz")
  <2>1. mpc' = [mpc EXCEPT ![p] = to]
    BY <1>1 DEF Goto
  <2>2. \A q \in Programs : zpc'[q] = zpc[q] \/ (q = p /\ zpc'[q] = "zwait")
    BY <1>1, <1>3
  <2>3. zpc' = zpc \/ from = "forkz"
    BY <1>1
  <2> QED
    BY <1>3, <2>1, <2>2, <2>3
<1> QED
  BY <1>1, <1>2, <1>4, <1>5, <1>6, QuietStep DEF Goto

\* A zero-waiter goes to sleep or ends.
LEMMA ZwaiterStep ==
  ASSUME IInv, NEW p \in Programs, Zwaiter(p)
  PROVE  IInv'
<1>1. /\ Quiet /\ mpc' = mpc
      /\ \E to \in {"asleep", "exited"} : zpc' = [zpc EXCEPT ![p] = to]
      /\ zpc[p] # "none"
  BY DEF Zwaiter, sysv_semzwait, sysv_semzwait_fails, Quiet
<1>2. IdsSuffice'
  BY <1>1 DEF IInv, IdsSuffice, Begun, Quiet
<1>3. zpc' \in [Programs -> {"none", "zwait", "asleep", "exited"}]
  BY <1>1 DEF IInv, TypeOK
<1>4. \A q \in Programs :
        mpc'[q] \in {"semget", "attach", "setval"} => zpc'[q] = zpc[q]
  BY <1>1 DEF IInv, TypeOK, Unborn
<1>5. \A c \in Kids : mpc[Prog(c)] = "semrm" => cpc[c] = "exited"
  BY DEF IInv, Through
<1> QED
  BY <1>1, <1>2, <1>3, <1>4, <1>5, KidFacts, QuietStep DEF IInv, TypeOK

-----------------------------------------------------------------------------
(* How a program comes to its set.                                         *)

\* The new set is known to nobody else, and nobody is inside.
LEMMA CreatesStep ==
  ASSUME IInv, NEW p \in Programs, semget_creates(p)
  PROVE  IInv'
<1> DEFINE new == lastid + 1
<1>1. /\ new \in Ids /\ new # NoSet /\ new > lastid /\ lastid \in Nat
      /\ lastid' = new /\ new <= Cardinality(Begun')
  <2>1. /\ lastid \in Nat /\ Cardinality(Programs) \in Nat
        /\ new <= Cardinality(Begun') /\ new <= Cardinality(Programs)
    BY Goes DEF semget_creates, IInv
  <2> QED
    BY <2>1 DEF semget_creates, Ids, NoSet
<1>2. /\ mpc' = [mpc EXCEPT ![p] = "setval"] /\ mpc[p] = "semget"
      /\ val' = [val EXCEPT ![new] = 0] /\ sem_id' = [sem_id EXCEPT ![p] = new]
      /\ key' = new /\ UNCHANGED <<given, forked, cpc, undo, zpc>>
  BY DEF semget_creates, Goto
<1>3. /\ val[new] = Gone /\ given[new] = 0
      /\ \A q \in Programs : sem_id[q] <= lastid /\ sem_id[q] # new
  BY <1>1 DEF IInv, Fresh, TypeOK, Ids, NoSet
<1>4. /\ forked[p] = 0 /\ zpc[p] = "none"
      /\ \A c \in Kids : Prog(c) = p => cpc[c] = "none" /\ undo[c] = 0
  <2>1. forked[p] = 0 /\ zpc[p] = "none"
    BY <1>2 DEF IInv, Unborn
  <2> QED
    BY <2>1, KidFacts DEF IInv, Unborn
<1>5. TypeOK'
  BY <1>1, <1>2 DEF IInv, TypeOK, Gone
<1>6. IdsSuffice'
  BY <1>1 DEF IdsSuffice
<1>7. Fresh'
  <2>1. \A q \in Programs : sem_id'[q] \in {sem_id[q], new} /\ sem_id[q] \in Int
    BY <1>2 DEF IInv, TypeOK, Ids, NoSet
  <2>2. \A q \in Programs : sem_id'[q] <= lastid'
    BY <1>1, <1>3, <2>1
  <2>3. \A id \in Ids : id > new => id > lastid /\ val'[id] = val[id]
    BY <1>1, <1>2 DEF IInv, TypeOK, Ids
  <2> QED
    BY <1>1, <1>2, <2>2, <2>3 DEF IInv, Fresh
<1>8. OneSetter'
  BY <1>1, <1>2, <1>3 DEF IInv, TypeOK, OneSetter
<1>9. Unborn' /\ Through' /\ Entered'
  BY <1>1, <1>2, <1>4, KidFacts DEF IInv, TypeOK, Unborn, Through, Entered
<1>10. Removed'
  BY <1>1, <1>2 DEF IInv, TypeOK, Removed, Ids, Gone
<1>11. Units'
  <2>1. \A id \in Ids : Inside(id)' = Inside(id)
    BY <1>2, <1>4, KidFacts, SameInside DEF IInv, TypeOK
  <2>2. Inside(new) = {}
    BY <1>3, KidFacts DEF Inside
  <2>3. val'[new] = 0 /\ \A id \in Ids : id # new => val'[id] = val[id]
    BY <1>1, <1>2 DEF IInv, TypeOK
  <2> QED
    <3> SUFFICES ASSUME NEW id \in Ids, val'[id] # Gone
                 PROVE  val'[id] + Cardinality(Inside(id)') = given'[id]
      BY DEF Units
    <3>1. CASE id = new
      <4>1. Inside(id)' = {}
        BY <2>1, <2>2, <3>1
      <4> QED
        BY <1>2, <1>3, <2>3, <3>1, <4>1, FS_EmptySet
    <3>2. CASE id # new
      <4>1. val'[id] = val[id] /\ given'[id] = given[id] /\ Inside(id)' = Inside(id)
        BY <1>2, <2>1, <2>3, <3>2
      <4>2. val[id] + Cardinality(Inside(id)) = given[id]
        BY <4>1 DEF IInv, Units
      <4> QED
        BY <4>1, <4>2
    <3> QED
      BY <3>1, <3>2
<1>12. Undos'
  BY <1>1, <1>2, <1>3, <1>4, KidFacts DEF IInv, TypeOK, Undos, Exists
<1> QED
  BY <1>5, <1>6, <1>7, <1>8, <1>9, <1>10, <1>11, <1>12 DEF IInv

LEMMA AttachesStep ==
  ASSUME IInv, NEW p \in Programs, semget_attaches(p)
  PROVE  IInv'
<1>1. /\ mpc' = [mpc EXCEPT ![p] = FirstFork(p)] /\ mpc[p] = "attach"
      /\ FirstFork(p) \in {"forkz", "fork"}
      /\ sem_id' = [sem_id EXCEPT ![p] = key] /\ key \in Ids \cup {NoSet}
      /\ UNCHANGED <<key, lastid, val, given, forked, cpc, undo, zpc>>
  BY DEF semget_attaches, Goto, FirstFork, IInv, TypeOK
<1>2. /\ forked[p] = 0 /\ zpc[p] = "none"
      /\ \A c \in Kids : Prog(c) = p => cpc[c] = "none" /\ undo[c] = 0
  <2>1. forked[p] = 0 /\ zpc[p] = "none"
    BY <1>1 DEF IInv, Unborn
  <2> QED
    BY <2>1, KidFacts DEF IInv, Unborn
<1>3. TypeOK' /\ Fresh'
  BY <1>1 DEF IInv, TypeOK, Fresh
<1>4. IdsSuffice'
  <2>1. Goto(p, "attach", FirstFork(p)) /\ FirstFork(p) # "semget"
    BY <1>1 DEF semget_attaches
  <2> QED
    BY <1>1, <2>1, Goes DEF IInv, IdsSuffice
<1>5. OneSetter'
  BY <1>1 DEF IInv, TypeOK, OneSetter
<1>6. Unborn' /\ Through' /\ Entered'
  BY <1>1, <1>2, KidFacts DEF IInv, TypeOK, Unborn, Through, Entered
<1>7. Removed'
  BY <1>1 DEF IInv, TypeOK, Removed
<1>8. Units'
  <2>1. \A id \in Ids : Inside(id)' = Inside(id)
    BY <1>1, <1>2, KidFacts, SameInside DEF IInv, TypeOK
  <2> QED
    BY <1>1, <2>1 DEF IInv, Units
<1>9. Undos'
  BY <1>1, <1>2, KidFacts DEF IInv, TypeOK, Undos, Exists
<1> QED
  BY <1>3, <1>4, <1>5, <1>6, <1>7, <1>8, <1>9 DEF IInv

\* Nobody can be inside before SETVAL: the value is zero until then.
LEMMA SetvalStep ==
  ASSUME IInv, NEW p \in Programs, semctl_setval(p)
  PROVE  IInv'
<1> DEFINE set == sem_id[p]
<1>1. /\ mpc' = [mpc EXCEPT ![p] = FirstFork(p)] /\ mpc[p] = "setval"
      /\ FirstFork(p) \in {"forkz", "fork"}
      /\ UNCHANGED <<key, lastid, forked, cpc, zpc>>
  BY DEF semctl_setval, Goto, FirstFork
<1>2. /\ forked[p] = 0 /\ zpc[p] = "none"
      /\ \A c \in Kids : Prog(c) = p => cpc[c] = "none" /\ undo[c] = 0
  <2>1. forked[p] = 0 /\ zpc[p] = "none"
    BY <1>1 DEF IInv, Unborn
  <2> QED
    BY <2>1, KidFacts DEF IInv, Unborn
<1>3. /\ set \in Ids /\ set # NoSet /\ given[set] = 0 /\ set <= lastid
      /\ \A q \in Programs : mpc[q] = "setval" /\ sem_id[q] = set => q = p
  BY <1>1 DEF IInv, TypeOK, OneSetter, Fresh
<1>4. IdsSuffice'
  <2>1. Goto(p, "setval", FirstFork(p)) /\ FirstFork(p) # "semget"
    BY <1>1 DEF semctl_setval
  <2> QED
    BY <1>1, <2>1, Goes DEF IInv, IdsSuffice
<1>5. CASE Exists(set)
  <2>1. /\ val' = [val EXCEPT ![set] = SemValue(p)]
        /\ given' = [given EXCEPT ![set] = SemValue(p)]
        /\ undo' = [c \in Kids |-> IF sem_id[Prog(c)] = set THEN 0 ELSE undo[c]]
        /\ sem_id' = sem_id /\ SemValue(p) \in {1, 2} /\ val[set] # Gone
    BY <1>5 DEF semctl_setval, SemValue, Exists
  <2>2. Inside(set) = {}
    <3>1. val[set] + Cardinality(Inside(set)) = 0 /\ val[set] \in Nat
      BY <1>3, <2>1 DEF IInv, TypeOK, Units, Gone
    <3> QED
      BY <3>1, InsideFinite
  <2>3. TypeOK'
    BY <1>1, <1>3, <2>1 DEF IInv, TypeOK, Gone
  <2>4. Fresh' /\ OneSetter'
    BY <1>1, <1>3, <2>1 DEF IInv, TypeOK, Fresh, OneSetter, Ids
  <2>5. Unborn' /\ Through' /\ Entered'
    BY <1>1, <1>2, <2>1, KidFacts DEF IInv, TypeOK, Unborn, Through, Entered
  <2>6. Removed'
    BY <1>1, <1>3, <2>1 DEF IInv, TypeOK, Removed, Gone
  <2>7. Units'
    <3>1. \A id \in Ids : Inside(id)' = Inside(id)
      BY <1>1, <2>1, SameInside
    <3>2. /\ val'[set] = SemValue(p) /\ given'[set] = SemValue(p)
          /\ \A id \in Ids : id # set => val'[id] = val[id] /\ given'[id] = given[id]
      BY <1>3, <2>1 DEF IInv, TypeOK
    <3> QED
      BY <2>1, <2>2, <3>1, <3>2, FS_EmptySet DEF IInv, Units
  <2>8. Undos'
    <3>1. \A c \in Kids : sem_id[Prog(c)] = set => cpc[c] # "cs"
      BY <2>2 DEF Inside
    <3>2. \A c \in Kids :
            undo'[c] = IF sem_id[Prog(c)] = set THEN 0 ELSE undo[c]
      BY <2>1
    <3>3. \A id \in Ids \cup {NoSet} : Exists(id)' => Exists(id)
      BY <1>3, <2>1 DEF IInv, TypeOK, Exists
    <3> QED
      BY <1>1, <2>1, <3>1, <3>2, <3>3, KidFacts DEF IInv, TypeOK, Undos, Exists
  <2> QED
    BY <1>4, <2>3, <2>4, <2>5, <2>6, <2>7, <2>8 DEF IInv
<1>6. CASE ~Exists(set)
  <2>1. /\ sem_id' = [sem_id EXCEPT ![p] = NoSet]
        /\ UNCHANGED <<val, given, undo>>
    BY <1>6 DEF semctl_setval
  <2>2. TypeOK' /\ Fresh'
    BY <1>1, <2>1 DEF IInv, TypeOK, Fresh, Ids, NoSet
  <2>3. OneSetter'
    BY <1>1, <2>1 DEF IInv, TypeOK, OneSetter
  <2>4. Unborn' /\ Through' /\ Entered'
    BY <1>1, <1>2, <2>1, KidFacts DEF IInv, TypeOK, Unborn, Through, Entered
  <2>5. Removed'
    BY <1>1, <2>1 DEF IInv, TypeOK, Removed
  <2>6. Units'
    <3>1. \A id \in Ids : Inside(id)' = Inside(id)
      BY <1>1, <1>2, <2>1, KidFacts, SameInside DEF IInv, TypeOK
    <3> QED
      BY <2>1, <3>1 DEF IInv, Units
  <2>7. Undos'
    BY <1>1, <1>2, <2>1, KidFacts DEF IInv, TypeOK, Undos, Exists
  <2> QED
    BY <1>4, <2>2, <2>3, <2>4, <2>5, <2>6, <2>7 DEF IInv
<1> QED
  BY <1>5, <1>6

-----------------------------------------------------------------------------
(* Forking and removing.                                                   *)

LEMMA ForkStep ==
  ASSUME IInv, NEW p \in Programs, main_fork(p)
  PROVE  IInv'
<1> DEFINE kid == <<p, forked[p]>>
<1>1. /\ mpc[p] = "fork" /\ mpc' = [mpc EXCEPT ![p] = "fork"]
      /\ cpc' = [cpc EXCEPT ![kid] = "semwait"]
      /\ forked' = [forked EXCEPT ![p] = forked[p] + 1]
      /\ forked[p] < NChild
      /\ UNCHANGED <<key, lastid, val, given, sem_id, undo, zpc>>
  BY DEF main_fork, Goto
<1>2. mpc' = mpc
  BY <1>1 DEF IInv, TypeOK
<1>3. /\ forked[p] \in 0 .. NChild - 1 /\ kid \in Kids /\ Prog(kid) = p
      /\ kid[2] = forked[p] /\ cpc[kid] = "none" /\ undo[kid] = 0
  <2>1. forked[p] \in 0 .. NChild - 1
    BY <1>1, SysvSemAssumption DEF IInv, TypeOK
  <2>2. kid \in Kids /\ Prog(kid) = p /\ kid[2] = forked[p]
    BY <2>1, KidFacts
  <2> QED
    BY <2>1, <2>2 DEF IInv, Unborn
<1>4. TypeOK'
  BY <1>1, <1>2, <1>3, SysvSemAssumption DEF IInv, TypeOK
<1>5. /\ UNCHANGED <<key, lastid, val, given, mpc, sem_id>>
      /\ IdsSuffice' /\ Fresh' /\ OneSetter' /\ Removed'
  <2>1. UNCHANGED <<key, lastid, val, given, mpc, sem_id>>
    BY <1>1, <1>2
  <2>2. IdsSuffice' /\ Fresh'
    BY <2>1 DEF IInv, IdsSuffice, Begun, Fresh
  <2>3. OneSetter' /\ Removed'
    BY <2>1 DEF IInv, OneSetter, Removed
  <2> QED
    BY <2>1, <2>2, <2>3
<1>6. \A c \in Kids :
        /\ cpc'[c] = IF c = kid THEN "semwait" ELSE cpc[c]
        /\ c[2] >= forked'[Prog(c)] => c # kid /\ c[2] >= forked[Prog(c)]
  <2>1. \A c \in Kids : cpc'[c] = IF c = kid THEN "semwait" ELSE cpc[c]
    BY <1>1 DEF IInv, TypeOK
  <2>2. ASSUME NEW c \in Kids, c[2] >= forked'[Prog(c)]
        PROVE  c # kid /\ c[2] >= forked[Prog(c)]
    <3>1. /\ Prog(c) \in Programs /\ c[2] \in Int /\ forked[Prog(c)] \in Int
          /\ forked[p] \in Int
      BY KidFacts DEF IInv, TypeOK
    <3>2. forked'[Prog(c)] = IF Prog(c) = p THEN forked[p] + 1 ELSE forked[Prog(c)]
      BY <1>1, <3>1 DEF IInv, TypeOK
    <3> QED
      BY <1>3, <2>2, <3>1, <3>2
  <2> QED
    BY <2>1, <2>2
<1>7. Unborn'
  BY <1>1, <1>2, <1>6 DEF IInv, TypeOK, Unborn
<1>8. Through' /\ Entered'
  BY <1>1, <1>2, <1>3, <1>6 DEF IInv, Through, Entered
<1>9. Units'
  <2>1. \A id \in Ids : Inside(id)' = Inside(id)
    BY <1>1, <1>3, <1>6, SameInside
  <2> QED
    BY <1>1, <2>1 DEF IInv, Units
<1>10. Undos'
  BY <1>1, <1>3, <1>6 DEF IInv, Undos, Exists
<1> QED
  BY <1>4, <1>5, <1>7, <1>8, <1>9, <1>10 DEF IInv

LEMMA SemrmStep ==
  ASSUME IInv, NEW p \in Programs, main_semrm(p)
  PROVE  IInv'
<1> DEFINE set == sem_id[p]
<1>1. /\ mpc[p] = "semrm" /\ mpc' = [mpc EXCEPT ![p] = "done"]
      /\ Exists(set) /\ val' = [val EXCEPT ![set] = Gone] /\ key' = NoSet
      /\ UNCHANGED <<lastid, given, sem_id, forked, cpc, undo, zpc>>
  BY DEF main_semrm, Goto
<1>2. set \in Ids /\ lastid \in Nat
  BY <1>1 DEF IInv, TypeOK, Exists, Ids, NoSet
<1>3. TypeOK'
  <2>1. Gone \in Gone .. 2
    BY DEF Gone
  <2>2. val' \in [Ids -> Gone .. 2]
    BY <1>1, <1>2, <2>1 DEF IInv, TypeOK
  <2> QED
    BY <1>1, <2>2 DEF IInv, TypeOK
<1>4. IdsSuffice'
  <2>1. Goto(p, "semrm", "done")
    BY DEF main_semrm
  <2> QED
    BY <1>1, <2>1, Goes DEF IInv, IdsSuffice
<1>5. Fresh' /\ OneSetter'
  BY <1>1, <1>2 DEF IInv, TypeOK, Fresh, OneSetter, NoSet
<1>6. Unborn' /\ Through' /\ Entered'
  BY <1>1, KidFacts DEF IInv, TypeOK, Unborn, Through, Entered
<1>7. Removed'
  <2>1. \A id \in Ids : val'[id] = IF id = set THEN Gone ELSE val[id]
    BY <1>1 DEF IInv, TypeOK
  <2>2. mpc'[p] = "done" /\ \A q \in Programs : mpc[q] = "done" => mpc'[q] = "done"
    BY <1>1 DEF IInv, TypeOK
  <2> QED
    BY <1>1, <2>1, <2>2 DEF IInv, Removed
<1>8. Units'
  <2>1. \A id \in Ids : Inside(id)' = Inside(id)
    BY <1>1, SameInside
  <2> QED
    BY <1>1, <2>1 DEF IInv, TypeOK, Units
<1>9. \A id \in Ids \cup {NoSet} : Exists(id)' => Exists(id) /\ val'[id] = val[id]
  BY <1>1, <1>2 DEF IInv, TypeOK, Exists
<1>10. Undos'
  BY <1>1, <1>9, KidFacts DEF IInv, TypeOK, Undos
<1> QED
  BY <1>3, <1>4, <1>5, <1>6, <1>7, <1>8, <1>10 DEF IInv

-----------------------------------------------------------------------------
(* The children.                                                           *)

\* What is left to show for a step of child c, which goes on to `to'.
LEMMA ChildStep ==
  ASSUME IInv, NEW c \in Kids, NEW to \in {"cs", "exited"},
         cpc[c] \in {"semwait", "cs"}, cpc' = [cpc EXCEPT ![c] = to],
         UNCHANGED <<key, lastid, given, mpc, sem_id, forked>>,
         val' \in [Ids -> Gone .. 2],
         \A id \in Ids : val'[id] = Gone <=> val[id] = Gone,
         undo' \in [Kids -> {0, 1}],
         \A d \in Kids : d # c => undo'[d] = undo[d],
         Exists(sem_id[Prog(c)]) => (undo'[c] = 1 <=> to = "cs"),
         to = "cs" => Exists(sem_id[Prog(c)]),
         zpc' \in [Programs -> {"none", "zwait", "asleep", "exited"}],
         \A p \in Programs : zpc[p] = "none" => zpc'[p] = "none",
         Units'
  PROVE  IInv'
<1>1. \A d \in Kids : cpc'[d] = IF d = c THEN to ELSE cpc[d]
  BY DEF IInv, TypeOK
<1>2. TypeOK'
  BY DEF IInv, TypeOK
<1>3. IdsSuffice' /\ OneSetter'
  BY DEF IInv, IdsSuffice, Begun, OneSetter
<1>4. Fresh' /\ Removed'
  BY DEF IInv, Fresh, Removed
<1>5. Unborn'
  BY <1>1 DEF IInv, Unborn
<1>6. Through' /\ Entered'
  BY <1>1 DEF IInv, Through, Entered, Exists
<1>7. \A id \in Ids \cup {NoSet} : Exists(id)' <=> Exists(id)
  BY DEF Exists
<1>8. Undos'
  BY <1>1, <1>7, KidFacts DEF IInv, TypeOK, Undos
<1> QED
  BY <1>2, <1>3, <1>4, <1>5, <1>6, <1>8 DEF IInv

\* Child c enters the section of its set.
LEMMA GoesInside ==
  ASSUME IInv, NEW c \in Kids, NEW to, NEW set, set = sem_id[Prog(c)],
         cpc' = [cpc EXCEPT ![c] = to], sem_id' = sem_id, cpc[c] # "cs", to = "cs"
  PROVE  /\ \A id \in Ids : id # set => Inside(id)' = Inside(id)
         /\ Cardinality(Inside(set)') = Cardinality(Inside(set)) + 1
         /\ Cardinality(Inside(set)) \in Nat /\ Cardinality(Inside(set)') \in Nat
<1>1. \A d \in Kids : cpc'[d] = IF d = c THEN to ELSE cpc[d]
  BY DEF IInv, TypeOK
<1>2. \A id \in Ids : id # set => Inside(id)' = Inside(id)
  BY <1>1 DEF Inside
<1>3. c \notin Inside(set) /\ Inside(set)' = Inside(set) \cup {c}
  BY <1>1 DEF Inside
<1>4. IsFiniteSet(Inside(set)) /\ Cardinality(Inside(set)) \in Nat
  BY InsideFinite
<1>5. /\ Cardinality(Inside(set)') = Cardinality(Inside(set)) + 1
      /\ IsFiniteSet(Inside(set)')
  BY <1>3, <1>4, FS_AddElement
<1>6. Cardinality(Inside(set)') \in Nat
  BY <1>5, FS_CardinalityType
<1> QED
  BY <1>2, <1>4, <1>5, <1>6

\* Child c leaves it.
LEMMA GoesOutside ==
  ASSUME IInv, NEW c \in Kids, NEW to, NEW set, set = sem_id[Prog(c)],
         cpc' = [cpc EXCEPT ![c] = to], sem_id' = sem_id, cpc[c] = "cs", to # "cs"
  PROVE  /\ \A id \in Ids : id # set => Inside(id)' = Inside(id)
         /\ Cardinality(Inside(set)') = Cardinality(Inside(set)) - 1
         /\ Cardinality(Inside(set)) \in Nat /\ Cardinality(Inside(set)') \in Nat
<1>1. \A d \in Kids : cpc'[d] = IF d = c THEN to ELSE cpc[d]
  BY DEF IInv, TypeOK
<1>2. \A id \in Ids : id # set => Inside(id)' = Inside(id)
  BY <1>1 DEF Inside
<1>3. c \in Inside(set) /\ Inside(set)' = Inside(set) \ {c}
  BY <1>1 DEF Inside
<1>4. IsFiniteSet(Inside(set)) /\ Cardinality(Inside(set)) \in Nat
  BY InsideFinite
<1>5. /\ Cardinality(Inside(set)') = Cardinality(Inside(set)) - 1
      /\ IsFiniteSet(Inside(set)')
  BY <1>3, <1>4, FS_RemoveElement
<1>6. Cardinality(Inside(set)') \in Nat
  BY <1>5, FS_CardinalityType
<1> QED
  BY <1>2, <1>4, <1>5, <1>6

\* The last unit wakes the zero-waiters of the set.
LEMMA SemwaitStep ==
  ASSUME IInv, NEW c \in Kids, sysv_semwait(c)
  PROVE  IInv'
<1> PICK set : set = sem_id[Prog(c)]
  OBVIOUS
<1>1. /\ Exists(set) /\ val[set] > 0 /\ cpc[c] = "semwait"
      /\ cpc' = [cpc EXCEPT ![c] = "cs"]
      /\ val' = [val EXCEPT ![set] = val[set] - 1]
      /\ undo' = [undo EXCEPT ![c] = undo[c] + 1]
      /\ zpc' = [p \in Programs |->
                   IF val[set] = 1 /\ zpc[p] = "asleep" /\ sem_id[p] = set
                     THEN "exited" ELSE zpc[p]]
      /\ UNCHANGED <<key, lastid, given, mpc, sem_id, forked>>
  BY DEF sysv_semwait, ChildGoto, UndoOp
<1>2. /\ set \in Ids /\ val[set] \in 1 .. 2 /\ val[set] # Gone
  BY <1>1, KidFacts DEF IInv, TypeOK, Exists, Gone
<1>3. undo[c] = 0
  BY <1>1 DEF IInv, TypeOK, Undos
<1>4. /\ val' \in [Ids -> Gone .. 2]
      /\ \A id \in Ids : val'[id] = IF id = set THEN val[set] - 1 ELSE val[id]
  BY <1>1, <1>2 DEF IInv, TypeOK, Gone
<1>5. /\ undo' \in [Kids -> {0, 1}] /\ undo'[c] = 1
      /\ \A d \in Kids : d # c => undo'[d] = undo[d]
  BY <1>1, <1>3 DEF IInv, TypeOK
<1>6. /\ zpc' \in [Programs -> {"none", "zwait", "asleep", "exited"}]
      /\ \A p \in Programs : zpc[p] = "none" => zpc'[p] = "none"
  BY <1>1 DEF IInv, TypeOK
<1>7. Units'
  <2>1. /\ \A id \in Ids : id # set => Inside(id)' = Inside(id)
        /\ Cardinality(Inside(set)') = Cardinality(Inside(set)) + 1
        /\ Cardinality(Inside(set)) \in Nat
    BY <1>1, GoesInside
  <2>2. val[set] + Cardinality(Inside(set)) = given[set]
    BY <1>2 DEF IInv, Units
  <2>3. val'[set] + Cardinality(Inside(set)') = given[set]
    BY <1>2, <1>4, <2>1, <2>2
  <2> QED
    BY <1>1, <1>4, <2>1, <2>3 DEF IInv, Units
<1>8. \A id \in Ids : val'[id] = Gone <=> val[id] = Gone
  BY <1>2, <1>4 DEF Gone
<1> QED
  BY <1>1, <1>4, <1>5, <1>6, <1>7, <1>8, ChildStep

LEMMA SemwaitFailsStep ==
  ASSUME IInv, NEW c \in Kids, sysv_semwait_fails(c)
  PROVE  IInv'
<1>1. /\ ~Exists(sem_id[Prog(c)]) /\ cpc[c] = "semwait"
      /\ cpc' = [cpc EXCEPT ![c] = "exited"]
      /\ UNCHANGED <<key, lastid, val, given, mpc, sem_id, forked, undo, zpc>>
  BY DEF sysv_semwait_fails, ChildGoto
<1>2. \A d \in Kids : cpc'[d] = "cs" <=> cpc[d] = "cs"
  BY <1>1 DEF IInv, TypeOK
<1>3. \A id \in Ids : Inside(id)' = Inside(id)
  BY <1>1, <1>2, SameInside
<1>4. Units'
  BY <1>1, <1>3 DEF IInv, Units
<1> QED
  BY <1>1, <1>4, ChildStep DEF IInv, TypeOK

\* A child leaves the section: its unit goes back if the set is still there.
LEMMA LeavesStep ==
  ASSUME IInv, NEW c \in Kids, sysv_sempost(c) \/ child_abort(c)
  PROVE  IInv'
<1> PICK set : set = sem_id[Prog(c)]
  OBVIOUS
<1>1. /\ cpc[c] = "cs" /\ cpc' = [cpc EXCEPT ![c] = "exited"]
      /\ UNCHANGED <<key, lastid, given, mpc, sem_id, forked, zpc>>
  BY DEF sysv_sempost, child_abort, ChildGoto
<1>2. set \in Ids
  BY <1>1, KidFacts DEF IInv, TypeOK, Entered
<1>3. /\ \A id \in Ids : id # set => Inside(id)' = Inside(id)
      /\ Cardinality(Inside(set)') = Cardinality(Inside(set)) - 1
      /\ Cardinality(Inside(set)) \in Nat /\ Cardinality(Inside(set)') \in Nat
  <2> PICK to : to = "exited"
    OBVIOUS
  <2>1. /\ cpc' = [cpc EXCEPT ![c] = to] /\ to # "cs"
        /\ cpc[c] = "cs" /\ sem_id' = sem_id /\ set = sem_id[Prog(c)]
    BY <1>1
  <2> QED
    BY <2>1, GoesOutside
<1>4. CASE Exists(set)
  <2>1. undo[c] = 1 /\ val[set] # Gone
    BY <1>1, <1>4 DEF IInv, Undos, Exists
  <2>2. /\ val' = [val EXCEPT ![set] = val[set] + 1]
        /\ undo' = [undo EXCEPT ![c] = 0]
    BY <1>4, <2>1 DEF sysv_sempost, child_abort, IInv, TypeOK
  <2>3. /\ val[set] + Cardinality(Inside(set)) = given[set]
        /\ val[set] \in 0 .. 2 /\ given[set] \in 0 .. 2
    BY <1>2, <2>1 DEF IInv, TypeOK, Units, Gone
  <2>4. /\ val[set] + 1 \in 1 .. 2
        /\ val[set] + 1 + Cardinality(Inside(set)') = given[set]
    BY <1>3, <2>3
  <2>5. /\ val' \in [Ids -> Gone .. 2]
        /\ \A id \in Ids : val'[id] = IF id = set THEN val[set] + 1 ELSE val[id]
    BY <1>2, <2>2, <2>4 DEF IInv, TypeOK, Gone
  <2>6. Units'
    BY <1>1, <1>3, <2>4, <2>5 DEF IInv, Units
  <2>7. \A id \in Ids : val'[id] = Gone <=> val[id] = Gone
    BY <2>1, <2>4, <2>5 DEF Gone
  <2>8. /\ undo' \in [Kids -> {0, 1}] /\ undo'[c] = 0
        /\ \A d \in Kids : d # c => undo'[d] = undo[d]
    BY <2>2 DEF IInv, TypeOK
  <2>9. /\ zpc' \in [Programs -> {"none", "zwait", "asleep", "exited"}]
        /\ UNCHANGED <<key, lastid, given, mpc, sem_id, forked>> /\ zpc' = zpc
    BY <1>1 DEF IInv, TypeOK
  <2> PICK to \in {"cs", "exited"} : to = "exited"
    OBVIOUS
  <2>10. /\ cpc' = [cpc EXCEPT ![c] = to] /\ to # "cs" /\ undo'[c] # 1
         /\ cpc[c] \in {"semwait", "cs"}
         /\ \A p \in Programs : zpc[p] = "none" => zpc'[p] = "none"
    BY <1>1, <2>8, <2>9
  <2> QED
    BY <2>5, <2>6, <2>7, <2>8, <2>9, <2>10, ChildStep
<1>5. CASE ~Exists(set)
  <2>1. /\ val' = val /\ undo' \in {undo, [undo EXCEPT ![c] = 0]}
        /\ val[set] = Gone
    BY <1>2, <1>5 DEF sysv_sempost, child_abort, Exists, Ids, NoSet
  <2>2. Units'
    BY <1>1, <1>3, <2>1 DEF IInv, Units
  <2>3. /\ undo' \in [Kids -> {0, 1}]
        /\ \A d \in Kids : d # c => undo'[d] = undo[d]
    BY <2>1 DEF IInv, TypeOK
  <2> QED
    BY <1>1, <1>5, <2>1, <2>2, <2>3, ChildStep DEF IInv, TypeOK
<1> QED
  BY <1>4, <1>5

-----------------------------------------------------------------------------
(* The theorems.                                                           *)

LEMMA InitIInv == Init => IInv
<1> SUFFICES ASSUME Init
             PROVE  IInv
  OBVIOUS
<1>1. TypeOK
  BY SysvSemAssumption DEF Init, TypeOK, Gone
<1>2. IdsSuffice
  <2>1. Begun = {}
    BY DEF Init, Begun
  <2> QED
    BY <2>1, FS_EmptySet DEF Init, IdsSuffice, NoSet
<1>3. Fresh /\ OneSetter
  BY DEF Init, Fresh, OneSetter, NoSet
<1>4. Unborn /\ Through /\ Entered /\ Undos
  BY KidFacts DEF Init, Unborn, Through, Entered, Undos, Exists
<1>5. Removed /\ Units
  BY DEF Init, Removed, Units, Ids, NoSet
<1> QED
  BY <1>1, <1>2, <1>3, <1>4, <1>5 DEF IInv

LEMMA NextIInv == IInv /\ [Next]_vars => IInv'
<1> SUFFICES ASSUME IInv, [Next]_vars
             PROVE  IInv'
  OBVIOUS
<1>1. ASSUME NEW p \in Programs, Main(p)
      PROVE  IInv'
  BY <1>1, MainQuiet, CreatesStep, AttachesStep, SetvalStep, ForkStep, SemrmStep
     DEF Main
<1>2. ASSUME NEW c \in Kids, Child(c)
      PROVE  IInv'
  BY <1>2, SemwaitStep, SemwaitFailsStep, LeavesStep DEF Child
<1>3. CASE UNCHANGED vars
  <2>1. UNCHANGED <<key, lastid, val, given, mpc, sem_id, forked, cpc, undo, zpc>>
    BY <1>3 DEF vars
  <2>2. TypeOK' /\ IdsSuffice' /\ Fresh' /\ OneSetter' /\ Unborn' /\ Through'
    BY <2>1 DEF IInv, TypeOK, IdsSuffice, Begun, Fresh, OneSetter, Unborn, Through
  <2>3. Entered' /\ Removed' /\ Units' /\ Undos'
    BY <2>1 DEF IInv, Entered, Removed, Units, Inside, Undos, Exists
  <2> QED
    BY <2>2, <2>3 DEF IInv
<1> QED
  BY <1>1, <1>2, <1>3, ZwaiterStep DEF Next

LEMMA Invariance == Spec => []IInv
BY InitIInv, NextIInv, PTL DEF Spec

\* For any number of programs and children at the key, the value of a set and
\* the children inside add up to what SETVAL gave it: no abort and no program
\* that attaches early makes or loses a unit.
THEOREM UnitConservationCorrect == Spec => []UnitConservation
<1>1. IInv => UnitConservation
  BY DEF IInv, Units, Undos, UnitConservation
<1> QED
  BY <1>1, Invariance, PTL

\* A set that is gone while a child of p is inside was removed by another
\* program, which had waited for its own children.
THEOREM RemovedByOthersCorrect == Spec => []RemovedByOthers
<1>1. IInv => RemovedByOthers
  <2> SUFFICES ASSUME IInv, NEW c \in Kids, cpc[c] = "cs",
                      ~Exists(sem_id[Prog(c)])
               PROVE  \E q \in Programs : /\ q # Prog(c) /\ mpc[q] = "done"
                                          /\ sem_id[q] = sem_id[Prog(c)]
    BY DEF RemovedByOthers
  <2>1. /\ sem_id[Prog(c)] \in Ids /\ sem_id[Prog(c)] <= lastid
        /\ val[sem_id[Prog(c)]] = Gone
    BY KidFacts DEF IInv, TypeOK, Entered, Fresh, Exists
  <2>2. PICK q \in Programs : mpc[q] = "done" /\ sem_id[q] = sem_id[Prog(c)]
    BY <2>1 DEF IInv, Removed
  <2>3. q # Prog(c)
    BY <2>2 DEF IInv, Through
  <2> QED
    BY <2>2, <2>3
<1> QED
  BY <1>1, Invariance, PTL

\* The steps that let a zero-waiter go find its set gone or leave it at zero.
LEMMA LetGo ==
  ASSUME IInv, [Next]_vars, NEW p \in Programs,
         zpc[p] # "exited", zpc'[p] = "exited", Exists(sem_id[p])'
  PROVE  sem_id'[p] \in Ids /\ val'[sem_id'[p]] = 0
<1>1. \A q \in Programs : Main(q) => zpc'[p] \in {zpc[p], "zwait"}
  BY DEF Main, semget_creates, semget_exists, semget_attaches, semctl_setval,
         main_fork_zwaiter, main_fork, main_fork_fails, main_forked_all,
         main_waitpid, main_semrm, main_semrm_fails, IInv, TypeOK
<1>2. ASSUME NEW q \in Programs, Zwaiter(q)
      PROVE  sem_id'[p] \in Ids /\ val'[sem_id'[p]] = 0
  <2>1. p = q /\ UNCHANGED <<val, sem_id>>
    BY <1>2 DEF Zwaiter, sysv_semzwait, sysv_semzwait_fails, IInv, TypeOK
  <2>2. Exists(sem_id[p]) /\ sem_id[p] \in Ids
    BY <2>1 DEF Exists, IInv, TypeOK
  <2>3. sysv_semzwait(p)
    BY <1>2, <2>1, <2>2 DEF Zwaiter, sysv_semzwait_fails
  <2> QED
    BY <2>1, <2>2, <2>3 DEF sysv_semzwait, IInv, TypeOK
<1>3. ASSUME NEW c \in Kids, Child(c)
      PROVE  sem_id'[p] \in Ids /\ val'[sem_id'[p]] = 0
  <2>1. sysv_semwait(c)
    BY <1>3 DEF Child, sysv_semwait_fails, sysv_sempost, child_abort
  <2>2. /\ sem_id[p] = sem_id[Prog(c)] /\ val[sem_id[p]] = 1
        /\ sem_id' = sem_id /\ val' = [val EXCEPT ![sem_id[p]] = @ - 1]
    BY <2>1 DEF sysv_semwait, IInv, TypeOK
  <2>3. sem_id[p] \in Ids
    BY <2>1, <2>2 DEF sysv_semwait, Exists, IInv, TypeOK
  <2> QED
    BY <2>2, <2>3 DEF IInv, TypeOK
<1>4. CASE UNCHANGED vars
  BY <1>4 DEF vars
<1> QED
  BY <1>1, <1>2, <1>3, <1>4 DEF Next

\* For any number of programs and children: the zero that lets a zero-waiter go
\* is one where all the units SETVAL gave are with children inside.
THEOREM ZeroMeansFullCorrect == Spec => ZeroMeansFull
<1>1. IInv /\ IInv' /\ [Next]_vars =>
        [\A p \in Programs :
           zpc[p] # "exited" /\ zpc'[p] = "exited" /\ Exists(sem_id[p])' =>
             (Cardinality(Inside(sem_id[p])) = given[sem_id[p]])']_vars
  <2> SUFFICES ASSUME IInv, IInv', [Next]_vars, NEW p \in Programs,
                      zpc[p] # "exited", zpc'[p] = "exited", Exists(sem_id[p])'
               PROVE  (Cardinality(Inside(sem_id[p])) = given[sem_id[p]])'
    OBVIOUS
  <2>1. sem_id'[p] \in Ids /\ val'[sem_id'[p]] = 0
    BY LetGo
  <2>2. val'[sem_id'[p]] + Cardinality(Inside(sem_id[p]))' = given'[sem_id'[p]]
    BY <2>1 DEF IInv, Units, Gone
  <2>3. Cardinality(Inside(sem_id[p]))' \in Nat
    <3>1. Inside(sem_id[p])' \in SUBSET Kids
      BY DEF Inside
    <3>2. IsFiniteSet(Inside(sem_id[p])')
      BY <3>1, KidFacts, FS_Subset
    <3> QED
      BY <3>2, FS_CardinalityType
  <2> QED
    BY <2>1, <2>2, <2>3
<1> QED
  BY <1>1, Invariance, PTL DEF Spec, ZeroMeansFull

-----------------------------------------------------------------------------
(* The POSIX queue of MessageQueues.                                       *)

\* Every queue but one has been unlinked, by a program of its own.
QueuesCount ==
  created <= Cardinality(Posix!Unlinked) + (IF name = Posix!NoQueue THEN 0 ELSE 1)

\* A program at work has a queue open, only receivers with notification
\* register, and who has seen a queue knows that one was created.
Attached ==
  \A p \in Posix!Progs :
    /\ Posix!IsOpen(p) => mq_fd[p] # Posix!NoQueue
    /\ pc[p] = "notify" => p \in SigevReceivers
    /\ pc[p] = "attach" => created > 0
    /\ pc[p] = "failed" => Posix!Unlinked # {}

Unlinking == \A u \in Unlinkers : pc[u] \in {"open", "ended"} /\ mq_fd[u] = Posix!NoQueue

PosixInv == Posix!TypeOK /\ QueuesCount /\ Attached /\ Unlinking

-----------------------------------------------------------------------------
(* The System V queue of MessageQueues.                                    *)

SysvInv ==
  /\ Sysv!PrefixSent
  /\ line \in [SysvSenders -> Nat \ {0}]

MqInv == (family = "posix" /\ PosixInv) \/ (family = "sysv" /\ SysvInv)

-----------------------------------------------------------------------------
(* Steps of the POSIX programs.  Most of them move one program that is not *)
(* an unlinker and leave the name as it is.                                *)

Places == {"open", "attach", "send", "notify", "receive", "waiting", "failed",
           "ended", "killed"}

\* The instances have their own names for the operators on finite sets.
LEMMA SameCardinality == ASSUME NEW S PROVE Posix!Cardinality(S) = Cardinality(S)
BY Zenon DEF Posix!Cardinality, Cardinality

LEMMA SameFinite == ASSUME NEW S PROVE Posix!IsFiniteSet(S) <=> IsFiniteSet(S)
BY Zenon DEF Posix!IsFiniteSet, IsFiniteSet

LEMMA UnlinkedBound ==
  /\ Posix!PosixMsqAssumption
  /\ Cardinality(Posix!Unlinked) \in Nat
  /\ Cardinality(Posix!Unlinked) <= Cardinality(Unlinkers)
  /\ Cardinality(Unlinkers) \in Nat
  /\ Posix!Unlinked # {} <=> Cardinality(Posix!Unlinked) > 0
  /\ IsFiniteSet(Posix!Unlinked)
  /\ Posix!Queues = 1 .. Cardinality(Unlinkers) + 1
<1>1. Posix!PosixMsqAssumption
  BY MessageQueuesAssumption
<1>2. IsFiniteSet(Unlinkers) /\ Posix!Unlinked \subseteq Unlinkers
  BY <1>1, SameFinite DEF Posix!PosixMsqAssumption, Posix!Unlinked
<1>3. /\ IsFiniteSet(Posix!Unlinked)
      /\ Cardinality(Posix!Unlinked) <= Cardinality(Unlinkers)
  BY <1>2, FS_Subset
<1>4. Cardinality(Posix!Unlinked) \in Nat /\ Cardinality(Unlinkers) \in Nat
  BY <1>2, <1>3, FS_CardinalityType
<1>5. Posix!Unlinked = {} <=> Cardinality(Posix!Unlinked) = 0
  BY <1>3, FS_EmptySet
<1>6. Posix!Unlinked # {} <=> Cardinality(Posix!Unlinked) > 0
  BY <1>4, <1>5
<1>7. Posix!Queues = 1 .. Cardinality(Unlinkers) + 1
  BY SameCardinality DEF Posix!Queues
<1> QED
  BY <1>1, <1>3, <1>4, <1>6, <1>7

LEMMA MoveStep ==
  ASSUME PosixInv, NEW p \in Posix!Progs, p \notin Unlinkers, NEW to \in Places,
         pc' = [pc EXCEPT ![p] = to],
         UNCHANGED <<name, created>>,
         \A o \in Posix!Progs : o # p => mq_fd'[o] = mq_fd[o],
         to \in {"send", "notify", "receive", "waiting"} => mq_fd'[p] # Posix!NoQueue,
         to = "notify" => p \in SigevReceivers,
         to = "attach" => created > 0,
         to = "failed" => Posix!Unlinked # {}
  PROVE  pc' \in [Posix!Progs -> Places] /\ QueuesCount' /\ Attached' /\ Unlinking'
<1>1. pc \in [Posix!Progs -> Places]
  BY DEF PosixInv, Posix!TypeOK, Places
<1>2. Posix!Unlinked' = Posix!Unlinked
  BY <1>1 DEF Posix!Unlinked
<1>3. QueuesCount'
  BY <1>2 DEF PosixInv, QueuesCount, Posix!NoQueue
<1>4. Attached'
  BY <1>1, <1>2 DEF PosixInv, Attached, Posix!IsOpen, Posix!NoQueue
<1>5. Unlinking'
  BY <1>1 DEF PosixInv, Unlinking, Posix!NoQueue, Posix!Progs
<1> QED
  BY <1>1, <1>3, <1>4, <1>5

LEMMA StartPlace ==
  ASSUME NEW p \in Posix!Progs, p \notin Unlinkers
  PROVE  /\ Posix!Start(p) \in {"send", "notify", "receive"}
         /\ Posix!Start(p) = "notify" => p \in SigevReceivers
         /\ Posix!Round(p) \in {"notify", "receive"}
         /\ Posix!Round(p) = "notify" => p \in SigevReceivers
BY DEF Posix!Start, Posix!Round

\* A queue is created only for a name that is free, so the queues created
\* before it have all been unlinked.
LEMMA CreateStep ==
  ASSUME PosixInv, NEW p \in Posix!Progs, Posix!mq_open_creates(p)
  PROVE  PosixInv'
<1> USE DEF PosixInv, Posix!mq_open_creates, Posix!Goto, Posix!NoQueue
<1>1. created \in Nat /\ created' = created + 1 /\ name' = created'
  BY DEF Posix!TypeOK, Posix!Queues
<1>2. created' <= Cardinality(Posix!Unlinked) + 1
  BY <1>1, UnlinkedBound DEF QueuesCount
<1>3. created' \in Posix!Queues
  BY <1>1, <1>2, UnlinkedBound
<1>4. pc' = [pc EXCEPT ![p] = Posix!Start(p)]
      /\ mq_fd' = [mq_fd EXCEPT ![p] = created']
      /\ p \notin Unlinkers
  OBVIOUS
<1>5. Posix!TypeOK'
  <2>1. pc' \in [Posix!Progs -> Places]
    BY <1>4, StartPlace DEF Posix!TypeOK, Places
  <2>2. mq_fd' \in [Posix!Progs -> 0 .. created']
    <3>1. 0 .. created \subseteq 0 .. created' /\ created' \in 0 .. created'
      BY <1>1
    <3> QED
      BY <1>4, <3>1 DEF Posix!TypeOK
  <2>3. name' \in 0 .. created'
    BY <1>1
  <2> QED
    BY <1>3, <2>1, <2>2, <2>3 DEF Posix!TypeOK, Places, Posix!Queues, Posix!Message
<1>6. Posix!Unlinked' = Posix!Unlinked
  BY <1>4 DEF Posix!Unlinked, Posix!TypeOK
<1>7. QueuesCount'
  <2>1. name' # 0
    BY <1>1
  <2> QED
    BY <1>2, <1>6, <2>1 DEF QueuesCount
<1>8. Attached'
  BY <1>1, <1>4, <1>6, StartPlace DEF Attached, Posix!IsOpen, Posix!TypeOK
<1>9. Unlinking'
  BY <1>4 DEF Unlinking, Posix!TypeOK, Posix!Progs
<1> QED
  BY <1>5, <1>7, <1>8, <1>9

\* The queue whose name goes is one more that an unlinker has on its account.
LEMMA UnlinkStep ==
  ASSUME PosixInv, NEW u \in Posix!Progs, Posix!mq_unlink(u)
  PROVE  PosixInv'
<1> USE DEF PosixInv, Posix!mq_unlink, Posix!Goto, Posix!NoQueue
<1>1. u \in Unlinkers /\ u \notin Posix!Unlinked
      /\ Posix!Unlinked' = Posix!Unlinked \cup {u}
  BY DEF Posix!Unlinked, Posix!TypeOK, Posix!Progs
<1>2. Cardinality(Posix!Unlinked') = Cardinality(Posix!Unlinked) + 1
  BY <1>1, UnlinkedBound, FS_AddElement
<1>3. created \in Nat
  BY DEF Posix!TypeOK, Posix!Queues
<1>4. QueuesCount'
  BY <1>2, <1>3, UnlinkedBound DEF QueuesCount
<1>5. Posix!TypeOK'
  BY <1>3 DEF Posix!TypeOK, Posix!Queues, Posix!Message
<1>6. Attached' /\ Unlinking'
  BY <1>1 DEF Attached, Posix!IsOpen, Unlinking, Posix!TypeOK
<1> QED
  BY <1>4, <1>5, <1>6

\* Opening the queue, but for creating it.
LEMMA OpenStep ==
  ASSUME PosixInv, NEW p \in Posix!Progs,
         Posix!mq_open_exists(p) \/ Posix!mq_open_attaches(p) \/ Posix!mq_open_fails(p)
  PROVE  PosixInv'
<1> USE DEF PosixInv, Posix!Goto, Posix!NoQueue
<1>1. CASE Posix!mq_open_exists(p)
  <2> USE <1>1 DEF Posix!mq_open_exists
  <2>1. created > 0
    BY DEF Posix!TypeOK, Posix!Queues
  <2>2. pc' \in [Posix!Progs -> Places] /\ QueuesCount' /\ Attached' /\ Unlinking'
    BY <2>1, MoveStep DEF Places
  <2> QED
    BY <2>2 DEF Posix!TypeOK, Places
<1>2. CASE Posix!mq_open_attaches(p)
  <2> USE <1>2 DEF Posix!mq_open_attaches
  <2>1. p \notin Unlinkers
    BY DEF Unlinking
  <2>2. mq_fd' \in [Posix!Progs -> 0 .. created] /\ mq_fd'[p] = name
        /\ \A o \in Posix!Progs : o # p => mq_fd'[o] = mq_fd[o]
    BY DEF Posix!TypeOK
  <2>3. pc' \in [Posix!Progs -> Places] /\ QueuesCount' /\ Attached' /\ Unlinking'
    BY <2>1, <2>2, MoveStep, StartPlace DEF Places
  <2> QED
    BY <2>2, <2>3 DEF Posix!TypeOK, Places
<1>3. CASE Posix!mq_open_fails(p)
  <2> USE <1>3 DEF Posix!mq_open_fails
  <2>1. p \notin Unlinkers
    BY DEF Unlinking
  <2>2. Posix!Unlinked # {}
    BY UnlinkedBound DEF QueuesCount, Attached, Posix!IsOpen, Posix!TypeOK, Posix!Queues
  <2>3. pc' \in [Posix!Progs -> Places] /\ QueuesCount' /\ Attached' /\ Unlinking'
    BY <2>1, <2>2, MoveStep DEF Places
  <2> QED
    BY <2>3 DEF Posix!TypeOK, Places
<1> QED
  BY <1>1, <1>2, <1>3

\* Whoever is at work has a queue that exists.
LEMMA OpenQueue ==
  ASSUME PosixInv, NEW p \in Posix!Progs,
         pc[p] \in {"send", "notify", "receive", "waiting"}
  PROVE  mq_fd[p] \in Posix!Queues /\ p \notin Unlinkers
<1>1. mq_fd[p] \in 0 .. created /\ mq_fd[p] # 0
  BY DEF PosixInv, Posix!TypeOK, Attached, Posix!IsOpen, Posix!NoQueue
<1>2. created \in 0 .. Cardinality(Unlinkers) + 1
  BY UnlinkedBound DEF PosixInv, Posix!TypeOK, Posix!NoQueue
<1> QED
  BY <1>1, <1>2, UnlinkedBound DEF PosixInv, Unlinking

LEMMA SenderStep ==
  ASSUME PosixInv, NEW s \in PosixSenders,
         Posix!mq_send_hands_over(s) \/ Posix!mq_send(s) \/ Posix!sender_ends(s)
  PROVE  PosixInv'
<1> USE DEF PosixInv, Posix!Goto, Posix!NoQueue
<1>0. s \in Posix!Progs /\ NLines \in Nat
  BY UnlinkedBound DEF Posix!Progs, Posix!PosixMsqAssumption
<1>1. CASE Posix!mq_send_hands_over(s)
  <2> USE <1>1 DEF Posix!mq_send_hands_over
  <2>1. PICK r \in Posix!Waiting(mq_fd[s]) : pc' = [pc EXCEPT ![r] = Posix!Round(r)]
    OBVIOUS
  <2>2. r \in Posix!Progs /\ pc[r] = "waiting"
    BY <2>1 DEF Posix!Waiting, Posix!Progs
  <2>3. r \notin Unlinkers
    BY <2>2, OpenQueue
  <2>4. mq_fd[r] # 0
    BY <2>2 DEF Attached, Posix!IsOpen
  <2>5. Posix!Round(r) \in {"notify", "receive"}
        /\ (Posix!Round(r) = "notify" => r \in SigevReceivers)
    BY <2>2, <2>3, StartPlace
  <2>6. pc' \in [Posix!Progs -> Places] /\ QueuesCount' /\ Attached' /\ Unlinking'
    BY <2>1, <2>2, <2>3, <2>4, <2>5, MoveStep DEF Places
  <2>7. line' \in [PosixSenders -> 1 .. NLines + 1]
    BY <1>0 DEF Posix!TypeOK, Posix!Sending
  <2> QED
    BY <2>6, <2>7 DEF Posix!TypeOK, Places
<1>2. CASE Posix!mq_send(s)
  <2> USE <1>2 DEF Posix!mq_send
  <2> DEFINE q == mq_fd[s]
  <2>1. q \in Posix!Queues
    BY <1>0, OpenQueue DEF Posix!Sending
  <2>2. line[s] \in 1 .. NLines
    BY <1>0 DEF Posix!Sending, Posix!TypeOK
  <2>3. <<s, line[s]>> \in Posix!Message
    BY <2>2 DEF Posix!Message
  <2>4. queue' = [queue EXCEPT ![q] = Append(queue[q], <<s, line[s]>>)]
        /\ Len(queue[q]) < mq_maxmsg
    OBVIOUS
  <2>5. mq_maxmsg \in Nat
    BY UnlinkedBound DEF Posix!PosixMsqAssumption
  <2>6. queue[q] \in Seq(Posix!Message)
    BY <2>1 DEF Posix!TypeOK
  <2>7. Append(queue[q], <<s, line[s]>>) \in Seq(Posix!Message)
        /\ Len(Append(queue[q], <<s, line[s]>>)) = Len(queue[q]) + 1
        /\ Len(queue[q]) \in Nat
    BY <2>3, <2>6
  <2>8. queue' \in [Posix!Queues -> Seq(Posix!Message)]
    BY <2>4, <2>7 DEF Posix!TypeOK
  <2>9. \A k \in Posix!Queues : Len(queue'[k]) <= mq_maxmsg
    <3> TAKE k \in Posix!Queues
    <3>1. CASE k = q
      <4>1. Len(queue'[k]) = Len(queue[q]) + 1
        BY <2>1, <2>4, <2>7, <3>1 DEF Posix!TypeOK
      <4> QED
        BY <2>4, <2>5, <2>7, <4>1
    <3>2. CASE k # q
      BY <2>1, <2>4, <3>2 DEF Posix!TypeOK
    <3> QED
      BY <3>1, <3>2
  <2>10. line' \in [PosixSenders -> 1 .. NLines + 1]
    BY <1>0, <2>2 DEF Posix!TypeOK
  <2>11. registered' \in [Posix!Queues -> SigevReceivers \cup {Posix!Nobody}]
         /\ signals' \in [SigevReceivers -> Nat]
    <3>1. registered[q] \in SigevReceivers \cup {Posix!Nobody}
      BY <2>1 DEF Posix!TypeOK
    <3>2. CASE queue[q] = << >> /\ registered[q] # Posix!Nobody
      <4>1. PICK r \in SigevReceivers : r = registered[q]
        BY <3>1, <3>2
      <4>2. signals' = [signals EXCEPT ![r] = signals[r] + 1]
            /\ registered' = [registered EXCEPT ![q] = Posix!Nobody]
        BY <3>2, <4>1
      <4>3. signals[r] + 1 \in Nat
        BY <4>1 DEF Posix!TypeOK
      <4> QED
        BY <4>2, <4>3 DEF Posix!TypeOK
    <3>3. CASE ~(queue[q] = << >> /\ registered[q] # Posix!Nobody)
      BY <3>3 DEF Posix!TypeOK
    <3> QED
      BY <3>2, <3>3
  <2>12. Posix!TypeOK'
    BY <2>8, <2>9, <2>10, <2>11 DEF Posix!TypeOK
  <2> QED
    BY <2>12 DEF QueuesCount, Attached, Posix!IsOpen, Unlinking, Posix!Unlinked
<1>3. CASE Posix!sender_ends(s)
  <2> USE <1>3 DEF Posix!sender_ends, Posix!Closes, Posix!AtClose, Posix!Deregistered
  <2>1. s \notin Unlinkers
    BY <1>0, OpenQueue
  <2>2. pc' \in [Posix!Progs -> Places] /\ QueuesCount' /\ Attached' /\ Unlinking'
    BY <1>0, <2>1, MoveStep DEF Places
  <2>3. registered' \in [Posix!Queues -> SigevReceivers \cup {Posix!Nobody}]
    BY DEF Posix!TypeOK
  <2> QED
    BY <2>2, <2>3 DEF Posix!TypeOK, Places
<1> QED
  BY <1>1, <1>2, <1>3

LEMMA ReceiverStep ==
  ASSUME PosixInv, NEW r \in PosixReceivers,
         \/ Posix!mq_notify(r) \/ Posix!mq_receive(r) \/ Posix!mq_receive_waits(r)
         \/ Posix!chk_rt(r)
  PROVE  PosixInv'
<1> USE DEF PosixInv, Posix!Goto, Posix!NoQueue
<1>0. r \in Posix!Progs
  BY DEF Posix!Progs
<1>1. CASE Posix!mq_notify(r)
  <2> USE <1>1 DEF Posix!mq_notify, Posix!NotifyBusy
  <2>1. mq_fd[r] \in Posix!Queues /\ r \notin Unlinkers /\ r \in SigevReceivers
        /\ mq_fd[r] # 0
    BY <1>0, OpenQueue DEF Attached, Posix!IsOpen
  <2>2. pc' = [pc EXCEPT ![r] = "receive"]
    OBVIOUS
  <2>3. pc' \in [Posix!Progs -> Places] /\ QueuesCount' /\ Attached' /\ Unlinking'
    BY <1>0, <2>1, <2>2, MoveStep DEF Places
  <2>4. registered' \in [Posix!Queues -> SigevReceivers \cup {Posix!Nobody}]
    BY <2>1 DEF Posix!TypeOK
  <2> QED
    BY <2>3, <2>4 DEF Posix!TypeOK, Places
<1>2. CASE Posix!mq_receive(r)
  <2> USE <1>2 DEF Posix!mq_receive
  <2> DEFINE q == mq_fd[r]
  <2>1. q \in Posix!Queues /\ r \notin Unlinkers /\ q # 0
    BY <1>0, OpenQueue DEF Attached, Posix!IsOpen
  <2>2. pc' = [pc EXCEPT ![r] = Posix!Round(r)]
        /\ queue' = [queue EXCEPT ![q] = Tail(queue[q])]
        /\ queue[q] # << >>
    OBVIOUS
  <2>3. pc' \in [Posix!Progs -> Places] /\ QueuesCount' /\ Attached' /\ Unlinking'
    BY <1>0, <2>1, <2>2, MoveStep, StartPlace DEF Places
  <2>4. queue[q] \in Seq(Posix!Message)
    BY <2>1 DEF Posix!TypeOK
  <2>5. Tail(queue[q]) \in Seq(Posix!Message) /\ Len(Tail(queue[q])) = Len(queue[q]) - 1
        /\ Len(queue[q]) \in Nat
    BY <2>2, <2>4
  <2>6. mq_maxmsg \in Nat /\ Len(queue[q]) <= mq_maxmsg
    BY <2>1, UnlinkedBound DEF Posix!PosixMsqAssumption, Posix!TypeOK
  <2>7. queue' \in [Posix!Queues -> Seq(Posix!Message)]
    BY <2>2, <2>5 DEF Posix!TypeOK
  <2>8. \A k \in Posix!Queues : Len(queue'[k]) <= mq_maxmsg
    <3> TAKE k \in Posix!Queues
    <3>1. CASE k = q
      <4>1. Len(queue'[k]) = Len(queue[q]) - 1
        BY <2>1, <2>2, <2>5, <3>1 DEF Posix!TypeOK
      <4> QED
        BY <2>5, <2>6, <4>1
    <3>2. CASE k # q
      BY <2>1, <2>2, <3>2 DEF Posix!TypeOK
    <3> QED
      BY <3>1, <3>2
  <2> QED
    BY <2>3, <2>7, <2>8 DEF Posix!TypeOK, Places
<1>3. CASE Posix!mq_receive_waits(r)
  <2> USE <1>3 DEF Posix!mq_receive_waits
  <2>1. r \notin Unlinkers /\ mq_fd[r] # 0
    BY <1>0, OpenQueue DEF Attached, Posix!IsOpen
  <2>2. pc' \in [Posix!Progs -> Places] /\ QueuesCount' /\ Attached' /\ Unlinking'
    BY <1>0, <2>1, MoveStep DEF Places
  <2> QED
    BY <2>2 DEF Posix!TypeOK, Places
<1>4. CASE Posix!chk_rt(r)
  <2> USE <1>4 DEF Posix!chk_rt, Posix!AfterHandler
  <2>1. signals' \in [SigevReceivers -> Nat]
    BY DEF Posix!TypeOK
  <2>2. CASE pc[r] = "waiting"
    <3>1. r \notin Unlinkers /\ mq_fd[r] # 0 /\ pc' = [pc EXCEPT ![r] = "receive"]
      BY <1>0, <2>2, OpenQueue DEF Attached, Posix!IsOpen
    <3>2. pc' \in [Posix!Progs -> Places] /\ QueuesCount' /\ Attached' /\ Unlinking'
      BY <1>0, <3>1, MoveStep DEF Places
    <3> QED
      BY <2>1, <3>2 DEF Posix!TypeOK, Places
  <2>3. CASE pc[r] # "waiting"
    <3>1. pc' = pc /\ UNCHANGED <<name, created, queue, registered, mq_fd, line>>
      BY <2>3 DEF Posix!TypeOK
    <3>2. Posix!TypeOK'
      BY <2>1, <3>1 DEF Posix!TypeOK
    <3> QED
      BY <3>1, <3>2 DEF QueuesCount, Attached, Posix!IsOpen, Unlinking, Posix!Unlinked
  <2> QED
    BY <2>2, <2>3
<1> QED
  BY <1>1, <1>2, <1>3, <1>4

LEMMA KillStep ==
  ASSUME PosixInv, NEW p \in Posix!Progs, Posix!kill(p)
  PROVE  PosixInv'
<1> USE DEF PosixInv, Posix!kill, Posix!Deregistered, Posix!NoQueue
<1>1. p \notin Unlinkers
  BY OpenQueue DEF Posix!IsOpen
<1>2. pc' \in [Posix!Progs -> Places] /\ QueuesCount' /\ Attached' /\ Unlinking'
  BY <1>1, MoveStep DEF Places
<1>3. registered' \in [Posix!Queues -> SigevReceivers \cup {Posix!Nobody}]
      /\ signals' \in [SigevReceivers -> Nat]
  BY DEF Posix!TypeOK
<1> QED
  BY <1>2, <1>3 DEF Posix!TypeOK, Places

LEMMA PosixInitInv == Posix!Init => PosixInv
<1> SUFFICES ASSUME Posix!Init PROVE PosixInv
  OBVIOUS
<1> USE DEF Posix!Init, Posix!NoQueue
<1>1. NLines \in Nat /\ mq_maxmsg \in Nat
  BY UnlinkedBound DEF Posix!PosixMsqAssumption
<1>2. Posix!TypeOK
  <2>1. 0 \in 0 .. 0 /\ 1 \in 1 .. NLines + 1
    BY <1>1
  <2>2. Len(<< >>) = 0 /\ << >> \in Seq(Posix!Message)
    OBVIOUS
  <2>3. \A q \in Posix!Queues : Len(queue[q]) <= mq_maxmsg
    BY <1>1, <2>2
  <2> QED
    BY <2>1, <2>2, <2>3 DEF Posix!TypeOK
<1>3. QueuesCount
  BY UnlinkedBound DEF QueuesCount
<1>4. Attached /\ Unlinking
  BY DEF Attached, Posix!IsOpen, Unlinking, Posix!Progs
<1> QED
  BY <1>2, <1>3, <1>4 DEF PosixInv

LEMMA PosixNextInv == PosixInv /\ Posix!Next => PosixInv'
<1> SUFFICES ASSUME PosixInv, Posix!Next PROVE PosixInv'
  OBVIOUS
<1>1. ASSUME NEW s \in PosixSenders, Posix!Sender(s) PROVE PosixInv'
  <2>1. s \in Posix!Progs
    BY DEF Posix!Progs
  <2> QED
    BY <1>1, <2>1, CreateStep, OpenStep, SenderStep DEF Posix!Sender, Posix!Open
<1>2. ASSUME NEW r \in PosixReceivers, Posix!Receiver(r) PROVE PosixInv'
  <2>1. r \in Posix!Progs
    BY DEF Posix!Progs
  <2> QED
    BY <1>2, <2>1, CreateStep, OpenStep, ReceiverStep DEF Posix!Receiver, Posix!Open
<1>3. ASSUME NEW u \in Unlinkers, Posix!mq_unlink(u) PROVE PosixInv'
  BY <1>3, UnlinkStep DEF Posix!Progs
<1> QED
  BY <1>1, <1>2, <1>3, KillStep DEF Posix!Next

LEMMA PosixStutter == PosixInv /\ UNCHANGED Posix!vars => PosixInv'
BY DEF Posix!vars, PosixInv, Posix!TypeOK, QueuesCount, Attached, Posix!IsOpen, Unlinking, Posix!Unlinked

\* The queues in use are among those created.
LEMMA PosixSplit == PosixInv => Posix!SplitOnlyByUnlink
<1> SUFFICES ASSUME PosixInv PROVE Posix!SplitOnlyByUnlink
  OBVIOUS
<1> USE DEF PosixInv, Posix!NoQueue
<1> DEFINE open == {mq_fd[p] : p \in Posix!Progs} \ {0}
<1>1. created \in Nat /\ created <= Cardinality(Posix!Unlinked) + 1
  BY UnlinkedBound DEF Posix!TypeOK, QueuesCount
<1>2. open \subseteq 1 .. created
  BY <1>1 DEF Posix!TypeOK
<1>3. IsFiniteSet(1 .. created) /\ Cardinality(1 .. created) = created
  BY <1>1, FS_Interval
<1>4. Cardinality(open) <= created /\ Cardinality(open) \in Nat
  BY <1>2, <1>3, FS_Subset, FS_CardinalityType
<1>5. Posix!Cardinality(open) <= 1 + Posix!Cardinality(Posix!Unlinked)
  BY <1>1, <1>4, SameCardinality, UnlinkedBound
<1>6. (\E p \in Posix!Progs : pc[p] = "failed") => Posix!Unlinked # {}
  BY DEF Attached, Posix!IsOpen
<1> QED
  BY <1>5, <1>6 DEF Posix!SplitOnlyByUnlink

-----------------------------------------------------------------------------
(* Steps of the System V programs.                                         *)

LEMMA SysvAssumed ==
  /\ Sysv!SysvMsgAssumption
  /\ QueueSize \in Nat
  /\ \A s \in SysvSenders : s # "other" /\ File[s] \in Seq(Nat \cup {-1})
BY MessageQueuesAssumption DEF Sysv!SysvMsgAssumption

\* The type of a line: -1 if it does not match.
LEMMA MtypeType ==
  ASSUME NEW s \in SysvSenders, NEW n \in 1 .. Len(File[s])
  PROVE  Sysv!Mtype(s, n) \in Nat \cup {-1}
BY SysvAssumed DEF Sysv!Mtype

Elems(q) == {q[k] : k \in DOMAIN q}

\* What is in the queue or has been received.
InTransit == received \cup Elems(queue)

\* Steps that send and skip nothing.
LEMMA NothingSent ==
  ASSUME SysvInv, UNCHANGED line,
         zero' # "gone" => zero # "gone" /\ InTransit' = InTransit,
         zero' \in {"none", "ours", "other", "gone"},
         made' \subseteq {"plain", "regex"},
         queue' \in Seq(Sysv!Message), Len(queue') <= QueueSize,
         pc' \in [Sysv!Progs -> {"msgget", "send", "getchar", "receive", "failed",
                                 "ended", "killed"}],
         received' \subseteq Sysv!Message
  PROVE  SysvInv'
<1>1. Sysv!TypeOK'
  BY DEF SysvInv, Sysv!PrefixSent, Sysv!TypeOK
<1>2. ASSUME zero' # "gone", NEW s \in SysvSenders
      PROVE  Sysv!Sent(s)' = {n \in 1 .. line'[s] - 1 : Sysv!Mtype(s, n) # -1}
  <2>1. Sysv!Sent(s) = {n \in 1 .. line[s] - 1 : Sysv!Mtype(s, n) # -1}
    BY <1>2 DEF SysvInv, Sysv!PrefixSent
  <2>2. Sysv!Sent(s)' = Sysv!Sent(s)
    BY <1>2 DEF Sysv!Sent, InTransit, Elems
  <2> QED
    BY <2>1, <2>2
<1> QED
  BY <1>1, <1>2 DEF SysvInv, Sysv!PrefixSent, Sysv!Mtype

LEMMA SysvQuietStep ==
  ASSUME SysvInv, NEW p \in Sysv!Progs,
         \/ Sysv!sysv_msgget(p) \/ Sysv!sysv_msgget_fails(p) \/ Sysv!ftok_fails(p)
         \/ p \in SysvSenders /\ (Sysv!msgsnd_fails(p) \/ Sysv!file_ends(p) \/ Sysv!getchar(p))
         \/ Sysv!msgrcv_fails(p) \/ Sysv!kill(p)
  PROVE  SysvInv'
<1> USE DEF Sysv!Goto
<1>1. UNCHANGED <<queue, line, received>>
  BY DEF Sysv!sysv_msgget, Sysv!sysv_msgget_fails, Sysv!ftok_fails, Sysv!msgsnd_fails,
     Sysv!file_ends, Sysv!getchar, Sysv!msgrcv_fails, Sysv!kill, Sysv!AfterFailure
<1>2. /\ zero' \in {"none", "ours", "other", "gone"}
      /\ zero' # "gone" => zero # "gone"
      /\ made' \subseteq {"plain", "regex"}
      /\ pc' \in [Sysv!Progs -> {"msgget", "send", "getchar", "receive", "failed",
                                 "ended", "killed"}]
  BY DEF Sysv!sysv_msgget, Sysv!sysv_msgget_fails, Sysv!ftok_fails, Sysv!msgsnd_fails,
     Sysv!file_ends, Sysv!getchar, Sysv!msgrcv_fails, Sysv!kill, Sysv!AfterFailure,
     Sysv!Start, Sysv!Key, SysvInv, Sysv!PrefixSent, Sysv!TypeOK
<1>3. InTransit' = InTransit
  BY <1>1 DEF InTransit
<1> QED
  BY <1>1, <1>2, <1>3, NothingSent DEF SysvInv, Sysv!PrefixSent, Sysv!TypeOK

LEMMA RemovedStep == ASSUME SysvInv, Sysv!removed PROVE SysvInv'
<1>1. << >> \in Seq(Sysv!Message) /\ Len(<< >>) = 0
  OBVIOUS
<1> QED
  BY <1>1, NothingSent, SysvAssumed
     DEF Sysv!removed, SysvInv, Sysv!PrefixSent, Sysv!TypeOK

\* A line that does not match is not sent.
LEMMA SkippedStep ==
  ASSUME SysvInv, NEW s \in SysvSenders, Sysv!line_skipped(s)
  PROVE  SysvInv'
<1> USE DEF SysvInv, Sysv!PrefixSent, Sysv!line_skipped, Sysv!Sending
<1>1. line[s] \in Nat \ {0} /\ line[s] <= Len(File[s]) /\ Len(File[s]) \in Nat
  BY SysvAssumed
<1>2. line' = [line EXCEPT ![s] = line[s] + 1] /\ line'[s] = line[s] + 1
      /\ line' \in [SysvSenders -> Nat \ {0}]
  BY <1>1
<1>3. Sysv!TypeOK'
  <2>1. \A r \in SysvSenders : line'[r] \in 1 .. Len(File[r]) + 1
    <3> TAKE r \in SysvSenders
    <3>1. CASE r = s
      BY <1>1, <1>2, <3>1
    <3>2. CASE r # s
      BY <1>2, <3>2 DEF Sysv!TypeOK
    <3> QED
      BY <3>1, <3>2
  <2> QED
    BY <2>1 DEF Sysv!TypeOK
<1>4. ASSUME zero # "gone", NEW r \in SysvSenders
      PROVE  Sysv!Sent(r)' = {n \in 1 .. line'[r] - 1 : Sysv!Mtype(r, n) # -1}
  <2>1. Sysv!Sent(r)' = Sysv!Sent(r)
    BY DEF Sysv!Sent
  <2>2. Sysv!Sent(r) = {n \in 1 .. line[r] - 1 : Sysv!Mtype(r, n) # -1}
    BY <1>4
  <2>3. CASE r = s
    <3>1. 1 .. line'[s] - 1 = (1 .. line[s] - 1) \cup {line[s]}
      BY <1>1, <1>2
    <3> QED
      BY <2>1, <2>2, <2>3, <3>1
  <2>4. CASE r # s
    <3>1. line'[r] = line[r]
      BY <1>2, <2>4
    <3> QED
      BY <2>1, <2>2, <3>1
  <2> QED
    BY <2>3, <2>4
<1> QED
  BY <1>2, <1>3, <1>4 DEF Sysv!Mtype

LEMMA AppendRange ==
  ASSUME NEW S, NEW q \in Seq(S), NEW e \in S
  PROVE  /\ Append(q, e) \in Seq(S) /\ Len(Append(q, e)) = Len(q) + 1
         /\ Elems(Append(q, e)) = Elems(q) \cup {e}
<1>1. /\ DOMAIN q = 1 .. Len(q) /\ Len(q) \in Nat
      /\ Append(q, e) \in Seq(S) /\ Len(Append(q, e)) = Len(q) + 1
      /\ DOMAIN Append(q, e) = 1 .. Len(q) + 1
      /\ \A k \in 1 .. Len(q) : Append(q, e)[k] = q[k]
      /\ Append(q, e)[Len(q) + 1] = e
  OBVIOUS
<1>2. 1 .. Len(q) + 1 = (1 .. Len(q)) \cup {Len(q) + 1}
  BY <1>1
<1>3. {Append(q, e)[k] : k \in 1 .. Len(q) + 1}
        = {Append(q, e)[k] : k \in 1 .. Len(q)} \cup {Append(q, e)[Len(q) + 1]}
  BY <1>2
<1>4. {Append(q, e)[k] : k \in 1 .. Len(q)} = {q[k] : k \in 1 .. Len(q)}
  BY <1>1
<1> QED
  BY <1>1, <1>3, <1>4 DEF Elems

\* A sequence without its k-th element.
LEMMA RemovedRange ==
  ASSUME NEW S, NEW q \in Seq(S), NEW k \in DOMAIN q,
         NEW r, r = SubSeq(q, 1, k - 1) \o SubSeq(q, k + 1, Len(q))
  PROVE  /\ r \in Seq(S) /\ Len(r) = Len(q) - 1
         /\ Elems(q) = Elems(r) \cup {q[k]}
<1> DEFINE a == SubSeq(q, 1, k - 1)
           b == SubSeq(q, k + 1, Len(q))
<1>1. DOMAIN q = 1 .. Len(q) /\ Len(q) \in Nat /\ k \in 1 .. Len(q)
      /\ \A j \in 1 .. Len(q) : q[j] \in S
  BY ElementOfSeq
<1>2. /\ a \in Seq(S) /\ Len(a) = k - 1 /\ \A j \in 1 .. k - 1 : a[j] = q[j]
  BY <1>1
<1>3. /\ b \in Seq(S) /\ Len(b) = Len(q) - k
      /\ \A j \in 1 .. Len(q) - k : b[j] = q[k + j]
  <2>1. PICK m, n : m = k + 1 /\ n = Len(q)
    OBVIOUS
  <2>2. m \in Int /\ n \in Int /\ \A j \in m .. n : q[j] \in S
    BY <1>1, <2>1
  <2>3. /\ SubSeq(q, m, n) \in Seq(S)
        /\ Len(SubSeq(q, m, n)) = IF m <= n THEN n - m + 1 ELSE 0
        /\ \A j \in 1 .. n - m + 1 : SubSeq(q, m, n)[j] = q[m + j - 1]
    BY <2>2, SubSeqProperties
  <2>4. b = SubSeq(q, m, n)
    BY <2>1
  <2> HIDE DEF b
  <2>5. /\ (IF m <= n THEN n - m + 1 ELSE 0) = Len(q) - k
        /\ n - m + 1 = Len(q) - k
    BY <1>1, <2>1
  <2>6. \A j \in 1 .. Len(q) - k : m + j - 1 = k + j
    BY <1>1, <2>1
  <2> QED
    BY <2>3, <2>4, <2>5, <2>6
<1> HIDE DEF a, b
<1>4. r = a \o b
  BY DEF a, b
<1>5. /\ r \in Seq(S) /\ Len(r) = Len(q) - 1 /\ DOMAIN r = 1 .. Len(q) - 1
      /\ \A j \in 1 .. Len(q) - 1 : r[j] = IF j <= Len(a) THEN a[j] ELSE b[j - Len(a)]
  <2>1. /\ a \o b \in Seq(S) /\ Len(a \o b) = Len(a) + Len(b)
        /\ \A j \in 1 .. Len(a) + Len(b) :
             (a \o b)[j] = IF j <= Len(a) THEN a[j] ELSE b[j - Len(a)]
    BY <1>2, <1>3, ConcatProperties
  <2>2. Len(a) + Len(b) = Len(q) - 1
    BY <1>1, <1>2, <1>3
  <2>3. DOMAIN (a \o b) = 1 .. Len(a \o b)
    BY <2>1, LenProperties
  <2> QED
    BY <1>4, <2>1, <2>2, <2>3
<1>6. ASSUME NEW j \in 1 .. Len(q) - 1
      PROVE  r[j] = IF j < k THEN q[j] ELSE q[j + 1]
  <2>1. CASE j < k
    <3>1. j <= Len(a) /\ j \in 1 .. k - 1
      BY <1>1, <1>2, <2>1
    <3> QED
      BY <1>2, <1>5, <2>1, <3>1
  <2>2. CASE ~(j < k)
    <3>1. ~(j <= Len(a)) /\ j - Len(a) \in 1 .. Len(q) - k /\ k + (j - Len(a)) = j + 1
      BY <1>1, <1>2, <2>2
    <3> QED
      BY <1>3, <1>5, <2>2, <3>1
  <2> QED
    BY <2>1, <2>2
<1>7. ASSUME NEW j \in 1 .. Len(q), j # k
      PROVE  \E l \in 1 .. Len(q) - 1 : r[l] = q[j]
  <2>1. CASE j < k
    <3>1. j \in 1 .. Len(q) - 1
      BY <1>1, <2>1
    <3> QED
      BY <1>6, <2>1, <3>1
  <2>2. CASE ~(j < k)
    <3>1. j - 1 \in 1 .. Len(q) - 1 /\ ~(j - 1 < k) /\ (j - 1) + 1 = j
      BY <1>1, <1>7, <2>2
    <3>2. r[j - 1] = q[(j - 1) + 1]
      BY <1>6, <3>1
    <3> QED
      BY <3>1, <3>2
  <2> QED
    BY <2>1, <2>2
<1>8. ASSUME NEW l \in 1 .. Len(q) - 1
      PROVE  \E j \in 1 .. Len(q) : r[l] = q[j]
  <2>1. l \in 1 .. Len(q) /\ l + 1 \in 1 .. Len(q)
    BY <1>1
  <2> QED
    BY <1>6, <2>1
<1>9. {q[j] : j \in 1 .. Len(q)} = {r[j] : j \in 1 .. Len(q) - 1} \cup {q[k]}
  <2>1. \A j \in 1 .. Len(q) : q[j] \in {r[l] : l \in 1 .. Len(q) - 1} \cup {q[k]}
    <3> TAKE j \in 1 .. Len(q)
    <3>1. CASE j = k
      BY <3>1
    <3>2. CASE j # k
      <4>1. PICK l \in 1 .. Len(q) - 1 : r[l] = q[j]
        BY <1>7, <3>2
      <4> QED
        BY <4>1
    <3> QED
      BY <3>1, <3>2
  <2>2. \A l \in 1 .. Len(q) - 1 : r[l] \in {q[j] : j \in 1 .. Len(q)}
    <3> TAKE l \in 1 .. Len(q) - 1
    <3>1. PICK j \in 1 .. Len(q) : r[l] = q[j]
      BY <1>8
    <3> QED
      BY <3>1
  <2>3. q[k] \in {q[j] : j \in 1 .. Len(q)}
    BY <1>1
  <2> QED
    BY <2>1, <2>2, <2>3
<1> QED
  BY <1>1, <1>5, <1>9 DEF Elems

LEMMA SendStep ==
  ASSUME SysvInv, NEW s \in SysvSenders, Sysv!msgsnd(s)
  PROVE  SysvInv'
<1> USE DEF Sysv!msgsnd, Sysv!Sending
<1> DEFINE m == [from |-> s, line |-> line[s], mtype |-> Sysv!Mtype(s, line[s])]
<1>1. /\ line[s] \in Nat \ {0} /\ line[s] <= Len(File[s]) /\ Len(File[s]) \in Nat
      /\ line[s] \in 1 .. Len(File[s])
  BY SysvAssumed DEF SysvInv
<1>2. /\ line' = [line EXCEPT ![s] = line[s] + 1] /\ line'[s] = line[s] + 1
      /\ line' \in [SysvSenders -> Nat \ {0}]
  BY <1>1 DEF SysvInv
<1>3. Sysv!Mtype(s, line[s]) \in Nat \ {0}
  BY <1>1, MtypeType
<1>4. m \in Sysv!Message /\ queue' = Append(queue, m)
  BY <1>1, <1>3 DEF Sysv!Message
<1> HIDE DEF m
<1>5. queue \in Seq(Sysv!Message) /\ Len(queue) < QueueSize
  BY DEF SysvInv, Sysv!PrefixSent, Sysv!TypeOK
<1>6. /\ queue' \in Seq(Sysv!Message) /\ Len(queue') = Len(queue) + 1
      /\ InTransit' = InTransit \cup {m}
  BY <1>4, <1>5, AppendRange DEF InTransit
<1>7. Sysv!TypeOK'
  <2>1. \A r \in SysvSenders : line'[r] \in 1 .. Len(File[r]) + 1
    <3> TAKE r \in SysvSenders
    <3>1. CASE r = s
      BY <1>1, <1>2, <3>1
    <3>2. CASE r # s
      BY <1>2, <3>2 DEF SysvInv, Sysv!PrefixSent, Sysv!TypeOK
    <3> QED
      BY <3>1, <3>2
  <2>2. Len(queue') <= QueueSize
    BY <1>5, <1>6, SysvAssumed
  <2> QED
    BY <1>6, <2>1, <2>2 DEF SysvInv, Sysv!PrefixSent, Sysv!TypeOK
<1>8. m.from = s /\ m.line = line[s]
  BY DEF m
<1>9. ASSUME zero # "gone", NEW r \in SysvSenders
      PROVE  Sysv!Sent(r)' = {n \in 1 .. line'[r] - 1 : Sysv!Mtype(r, n) # -1}
  <2>1. Sysv!Sent(r) = {n \in 1 .. line[r] - 1 : Sysv!Mtype(r, n) # -1}
    BY <1>9 DEF SysvInv, Sysv!PrefixSent
  <2>2. Sysv!Sent(r) = {l.line : l \in {n \in InTransit : n.from = r}}
        /\ Sysv!Sent(r)' = {l.line : l \in {n \in InTransit' : n.from = r}}
    BY DEF Sysv!Sent, InTransit, Elems
  <2>3. CASE r = s
    <3>1. Sysv!Sent(s)' = Sysv!Sent(s) \cup {line[s]}
      BY <1>6, <1>8, <2>2, <2>3
    <3>2. 1 .. line'[s] - 1 = (1 .. line[s] - 1) \cup {line[s]}
      BY <1>1, <1>2
    <3>3. Sysv!Mtype(s, line[s]) # -1
      BY <1>3
    <3> QED
      BY <2>1, <2>3, <3>1, <3>2, <3>3
  <2>4. CASE r # s
    <3>1. line'[r] = line[r]
      BY <1>2, <2>4 DEF SysvInv
    <3>2. Sysv!Sent(r)' = Sysv!Sent(r)
      BY <1>6, <1>8, <2>2, <2>4
    <3> QED
      BY <2>1, <3>1, <3>2
  <2> QED
    BY <2>3, <2>4
<1>10. zero' = zero
  OBVIOUS
<1> QED
  BY <1>2, <1>7, <1>9, <1>10 DEF SysvInv, Sysv!PrefixSent, Sysv!Mtype

LEMMA HasLeast ==
  ASSUME NEW S \in SUBSET Nat, S # {}
  PROVE  \E m \in S : \A n \in S : m <= n
<1>1. PICK m \in S : \A n \in S : ~ (<<n, m>> \in OpToRel(<, Nat))
  BY NatLessThanWellFounded, WFMin
<1>2. \A n \in S : ~ (n < m)
  BY <1>1 DEF OpToRel
<1> QED
  BY <1>2

\* A message that is received leaves the queue and nothing else changes.
LEMMA ReceiveStep ==
  ASSUME SysvInv, NEW r \in SysvReceivers, Sysv!msgrcv(r)
  PROVE  SysvInv'
<1> USE DEF Sysv!msgrcv
<1> DEFINE k == Sysv!Min(Sysv!Candidates(r))
<1>1. queue \in Seq(Sysv!Message) /\ Len(queue) <= QueueSize
      /\ received \subseteq Sysv!Message /\ zero \in {"none", "ours", "other", "gone"}
      /\ made \subseteq {"plain", "regex"}
      /\ pc \in [Sysv!Progs -> {"msgget", "send", "getchar", "receive", "failed",
                                "ended", "killed"}]
  BY DEF SysvInv, Sysv!PrefixSent, Sysv!TypeOK
<1>2. Sysv!Candidates(r) \subseteq DOMAIN queue
  BY DEF Sysv!Candidates
<1>3. DOMAIN queue \in SUBSET Nat
  BY <1>1
<1>4. k \in DOMAIN queue
  BY <1>2, <1>3, HasLeast DEF Sysv!Min
<1> HIDE DEF k
<1>5. queue' = SubSeq(queue, 1, k - 1) \o SubSeq(queue, k + 1, Len(queue))
      /\ received' = received \cup {queue[k]}
  BY DEF k
<1>6. /\ queue' \in Seq(Sysv!Message) /\ Len(queue') = Len(queue) - 1
      /\ Elems(queue) = Elems(queue)' \cup {queue[k]}
  <2>1. PICK q : q = queue'
    OBVIOUS
  <2>2. q = SubSeq(queue, 1, k - 1) \o SubSeq(queue, k + 1, Len(queue))
    BY <1>5, <2>1
  <2>3. queue \in Seq(Sysv!Message)
    BY <1>1
  <2>4. /\ q \in Seq(Sysv!Message) /\ Len(q) = Len(queue) - 1
        /\ Elems(queue) = Elems(q) \cup {queue[k]}
    BY <1>4, <2>2, <2>3, RemovedRange
  <2> QED
    BY <2>1, <2>4
<1>7. InTransit' = InTransit
  BY <1>5, <1>6 DEF InTransit
<1>8. queue[k] \in Sysv!Message
  BY <1>1, <1>4, ElementOfSeq
<1>9. Len(queue') <= QueueSize
  <2>1. Len(queue) \in Nat
    BY <1>1
  <2> QED
    BY <1>1, <1>6, <2>1, SysvAssumed
<1> QED
  BY <1>1, <1>5, <1>6, <1>7, <1>8, <1>9, NothingSent

-----------------------------------------------------------------------------

LEMMA SysvInitInv == Sysv!Init => SysvInv
<1> SUFFICES ASSUME Sysv!Init PROVE SysvInv
  OBVIOUS
<1> USE DEF Sysv!Init
<1>1. queue \in Seq(Sysv!Message) /\ Len(queue) \in {0, 1}
      /\ \A k \in DOMAIN queue : queue[k].from = "other"
  <2>1. [from |-> "other", line |-> 1, mtype |-> 1] \in Sysv!Message
    BY DEF Sysv!Message
  <2> DEFINE m == [from |-> "other", line |-> 1, mtype |-> 1]
  <2>2. m.from = "other"
    OBVIOUS
  <2> HIDE DEF m
  <2>3. queue \in {<< >>, <<m>>}
    BY DEF m
  <2>4. m \in Sysv!Message
    BY <2>1 DEF m
  <2>5. CASE queue = << >>
    BY <2>5
  <2>6. CASE queue = <<m>>
    <3>1. Len(queue) = 1 /\ DOMAIN queue = {1} /\ queue[1] = m
      BY <2>6
    <3> QED
      BY <2>2, <2>4, <2>6, <3>1
  <2> QED
    BY <2>3, <2>5, <2>6
<1>2. \A s \in SysvSenders : Sysv!Sent(s) = {}
  BY <1>1, SysvAssumed DEF Sysv!Sent
<1>3. Sysv!TypeOK
  <2>1. \A s \in SysvSenders : 1 \in 1 .. Len(File[s]) + 1
    BY SysvAssumed
  <2>2. QueueSize \in Nat \ {0}
    BY SysvAssumed DEF Sysv!SysvMsgAssumption
  <2>3. Len(queue) <= QueueSize
    BY <1>1, <2>2
  <2> QED
    BY <1>1, <2>1, <2>3 DEF Sysv!TypeOK
<1>4. line \in [SysvSenders -> Nat \ {0}] /\ \A s \in SysvSenders : 1 .. line[s] - 1 = {}
  OBVIOUS
<1> QED
  BY <1>2, <1>3, <1>4 DEF SysvInv, Sysv!PrefixSent

LEMMA SysvNextInv == SysvInv /\ Sysv!Next => SysvInv'
<1> SUFFICES ASSUME SysvInv, Sysv!Next PROVE SysvInv'
  OBVIOUS
<1>1. ASSUME NEW s \in SysvSenders, Sysv!Sender(s) \/ Sysv!getchar(s) PROVE SysvInv'
  <2>1. s \in Sysv!Progs
    BY DEF Sysv!Progs
  <2> QED
    BY <1>1, <2>1, SysvQuietStep, SkippedStep, SendStep DEF Sysv!Sender
<1>2. ASSUME NEW r \in SysvReceivers, Sysv!Receiver(r) \/ Sysv!kill(r) PROVE SysvInv'
  <2>1. r \in Sysv!Progs
    BY DEF Sysv!Progs
  <2> QED
    BY <1>2, <2>1, SysvQuietStep, ReceiveStep DEF Sysv!Receiver
<1> QED
  BY <1>1, <1>2, RemovedStep DEF Sysv!Next

LEMMA SysvStutter == SysvInv /\ UNCHANGED Sysv!vars => SysvInv'
BY DEF Sysv!vars, SysvInv, Sysv!PrefixSent, Sysv!TypeOK, Sysv!Sent

-----------------------------------------------------------------------------
(* The composition: the programs of one family run, the others' state does *)
(* not change.                                                             *)

LEMMA MqInitInv == MqInit => MqInv
BY PosixInitInv, SysvInitInv DEF MqInit, MqInv

LEMMA MqNextInv == MqInv /\ [MqNext]_mq_vars => MqInv'
<1> SUFFICES ASSUME MqInv, [MqNext]_mq_vars PROVE MqInv'
  OBVIOUS
<1>1. CASE PosixRuns /\ Posix!Next
  BY <1>1, PosixNextInv DEF MqInv, PosixRuns
<1>2. CASE SysvRuns /\ Sysv!Next
  BY <1>2, SysvNextInv DEF MqInv, SysvRuns
<1>3. CASE UNCHANGED mq_vars
  <2>1. UNCHANGED <<family, Posix!vars, Sysv!vars>>
    BY <1>3 DEF mq_vars, posix_only, sysv_only, Posix!vars, Sysv!vars
  <2> QED
    BY <2>1, PosixStutter, SysvStutter DEF MqInv
<1> QED
  BY <1>1, <1>2, <1>3 DEF MqNext

LEMMA MqInvCorrect == MqSpec => []MqInv
BY MqInitInv, MqNextInv, PTL DEF MqSpec

\* posix_msq.c, posix_msq_sigev.c: for any senders, receivers and unlinkers, any
\* mq_maxmsg and any number of lines, there are never more queues in use at one
\* name than one and another for each "unlink", and attaching fails only after
\* one.
THEOREM SplitOnlyByUnlinkCorrect == MqSpec => []SplitOnlyByUnlink
<1>1. MqInv => SplitOnlyByUnlink
  BY PosixSplit DEF MqInv, SplitOnlyByUnlink
<1> QED
  BY <1>1, MqInvCorrect, PTL

\* sysv_msg.c, sysv_msg_regex.c: for any files, receivers and size of the queue,
\* however messages of all programs mix in it, what a sender has sent is a prefix
\* of the matching lines of its file.
THEOREM PrefixSentCorrect == MqSpec => []PrefixSent
<1>1. MqInv => PrefixSent
  BY DEF MqInv, SysvInv, PrefixSent
<1> QED
  BY <1>1, MqInvCorrect, PTL

=============================================================================
