--------------------------- MODULE MutexesProofs ---------------------------
(***************************************************************************)
(* Proofs about Mutexes, for any number of threads and processes: the      *)
(* inductive invariants of mutex_type.c, cleanup_mutex.c and               *)
(* mutex_pshared.c, and what holds of whichever program runs.              *)
(***************************************************************************)
EXTENDS Mutexes, TLAPS

USE DEF Type!Threads, Type!Nobody, Cleanup!Threads, Cleanup!Nobody

-----------------------------------------------------------------------------
(* mutex_type.c                                                            *)

\* Only the owner is past its lock; a second lock counts in the recursive build
\* only, and is never given back.
TypeInv ==
  /\ Type!TypeOK
  /\ \A t \in Type!Threads :
       /\ t >= created => pc[t] = "none"
       /\ pc[t] \in {"relock", "unlock"} => owner = t
       /\ pc[t] = "relock" => t > 1 /\ count = 1
       /\ pc[t] = "unlock" =>
            count = IF kind = "recursive" /\ t > 1 THEN 2 ELSE 1
       /\ owner = t => pc[t] \in {"relock", "unlock", "ended"}
       /\ (owner = t /\ pc[t] = "ended") => kind = "recursive" /\ t > 1 /\ count = 1

LEMMA TypeInit ==
  ASSUME Type!Init
  PROVE  TypeInv
<1> USE MutexesAssumption DEF Type!Init, Type!ThreadsInit
<1>1. /\ created \in 0 .. NUM_THREADS /\ joined \in 0 .. created
      /\ kind \in {"normal", "recursive", "errorcheck"}
      /\ pc \in [Type!Threads -> {"none", "lock", "relock", "unlock", "ended"}]
      /\ count \in 0 .. 2 /\ (count = 0 <=> owner = Type!Nobody)
  OBVIOUS
<1>2. exited \in BOOLEAN /\ owner \in Type!Threads \cup {Type!Nobody}
  BY Zenon
<1>3. Type!TypeOK
  BY <1>1, <1>2, Zenon DEF Type!TypeOK
<1> QED
  BY <1>3 DEF TypeInv

LEMMA TypeMainStep ==
  ASSUME TypeInv, Type!Main
  PROVE  TypeInv'
<1> USE MutexesAssumption DEF TypeInv, Type!Main, Type!TypeOK
<1>1. CASE Type!main_create("lock")
  <2>1. pc[created] = "none" /\ created \in Type!Threads
    BY <1>1 DEF Type!main_create
  <2> QED
    BY <1>1, <2>1 DEF Type!main_create
<1>2. CASE Type!main_create_fails
  BY <1>2 DEF Type!main_create_fails
<1>3. CASE Type!main_join
  BY <1>3 DEF Type!main_join
<1> QED
  BY <1>1, <1>2, <1>3

LEMMA TypeThreadStep ==
  ASSUME TypeInv, NEW t \in Type!Threads, Type!Thread(t)
  PROVE  TypeInv'
<1> USE MutexesAssumption DEF TypeInv, Type!TypeOK, Type!Goto
<1>1. CASE Type!start_thread_lock(t)
  BY <1>1 DEF Type!start_thread_lock
<1>2. CASE Type!start_thread_relock(t)
  BY <1>2 DEF Type!start_thread_relock
<1>3. CASE Type!start_thread_unlock(t)
  BY <1>3 DEF Type!start_thread_unlock
<1> QED
  BY <1>1, <1>2, <1>3 DEF Type!Thread

-----------------------------------------------------------------------------
(* cleanup_mutex.c                                                         *)

Holding == {"print", "hold", "unlock", "cleanup"}

\* Only the owner holds the mutex, also when it is cancelled; a thread that has
\* been joined has ended.
CleanupInv ==
  /\ Cleanup!TypeOK
  /\ \A t \in Cleanup!Threads :
       /\ t >= created => pc[t] = "none"
       /\ t < joined => pc[t] = "ended"
       /\ pc[t] \in Holding <=> owner = t

LEMMA CleanupInit ==
  ASSUME Cleanup!Init
  PROVE  CleanupInv
<1> USE MutexesAssumption DEF Cleanup!Init, Cleanup!ThreadsInit
<1>1. /\ created \in 0 .. NUM_THREADS /\ joined \in 0 .. created
      /\ pc \in [Cleanup!Threads ->
                 {"none", "sleep", "lock", "print", "hold", "unlock", "announce",
                  "cancel", "cleanup", "ended"}]
      /\ stdout \in {2, Cleanup!Nobody}
  OBVIOUS
<1>2. /\ exited \in BOOLEAN /\ owner \in Cleanup!Threads \cup {Cleanup!Nobody}
      /\ cancelled \in BOOLEAN
  BY Zenon
<1>3. Cleanup!TypeOK
  BY <1>1, <1>2, Zenon DEF Cleanup!TypeOK
<1> QED
  BY <1>3 DEF CleanupInv, Holding

LEMMA CleanupMainStep ==
  ASSUME CleanupInv, Cleanup!Main
  PROVE  CleanupInv'
<1> USE MutexesAssumption DEF CleanupInv, Cleanup!Main, Cleanup!TypeOK, Holding
<1>1. CASE Cleanup!main_create("sleep")
  <2>1. pc[created] = "none" /\ created \in Cleanup!Threads
    BY <1>1 DEF Cleanup!main_create
  <2> QED
    BY <1>1, <2>1 DEF Cleanup!main_create
<1>2. CASE Cleanup!main_create_fails
  BY <1>2 DEF Cleanup!main_create_fails
<1>3. CASE Cleanup!main_joins
  BY <1>3 DEF Cleanup!main_joins, Cleanup!main_join
<1> QED
  BY <1>1, <1>2, <1>3

LEMMA CleanupThreadStep ==
  ASSUME CleanupInv, NEW t \in Cleanup!Threads, Cleanup!Thread(t)
  PROVE  CleanupInv'
<1> USE MutexesAssumption DEF CleanupInv, Cleanup!TypeOK, Holding, Cleanup!Goto
<1>1. CASE Cleanup!sleep(t) \/ Cleanup!sleep_cancelled(t)
  BY <1>1 DEF Cleanup!sleep, Cleanup!sleep_cancelled
<1>2. CASE Cleanup!lock(t)
  BY <1>2 DEF Cleanup!lock
<1>3. CASE Cleanup!pr_out(t)
  BY <1>3 DEF Cleanup!pr_out
<1>4. CASE Cleanup!pr_out_cancelled(t)
  BY <1>4 DEF Cleanup!pr_out_cancelled, Cleanup!Pending
<1>5. CASE Cleanup!hold(t)
  BY <1>5 DEF Cleanup!hold, Cleanup!AfterSleeps
<1>6. CASE Cleanup!unlock(t) \/ Cleanup!cleanup_mutex(t)
  BY <1>6 DEF Cleanup!unlock, Cleanup!cleanup_mutex, Cleanup!Unlocked
<1>7. CASE Cleanup!announce(t) \/ Cleanup!cancel(t)
  BY <1>7 DEF Cleanup!announce, Cleanup!cancel
<1> QED
  BY <1>1, <1>2, <1>3, <1>4, <1>5, <1>6, <1>7 DEF Cleanup!Thread

-----------------------------------------------------------------------------
(* mutex_pshared.c: the inductive invariant, and the steps of main.        *)

\* mutex_pshared.c: Nobody is not a thread.
Distinct == "nobody" \notin Procs /\ PROC_THREADS \in Nat \ {0}

Early == {"open", "ftruncate", "memset", "init", "create"}

\* A process has no thread before main creates them, joins them one by one, and
\* no more than there are.
MainInv ==
  \A p \in Procs :
    /\ main[p] \in Early =>
         joined[p] = 0 /\ \A t \in Pshared!Threads : t[1] = p => pc[t] = "none"
    /\ main[p] = "join" => joined[p] < PROC_THREADS

HeldInv ==
  ~disturbed =>
    /\ Pshared!Inside \subseteq {owner}
    /\ word = 0 <=> owner = Pshared!Nobody
    /\ owner \in Pshared!Inside \cup {Pshared!Nobody} \/ main[owner[1]] = "dead"

PsharedInv == Pshared!TypeOK /\ MainInv /\ HeldInv /\ Pshared!PredecessorStays

LEMMA ThreadFacts ==
  ASSUME Distinct
  PROVE  /\ Pshared!Nobody \notin Pshared!Threads
         /\ \A t \in Pshared!Threads : t[1] \in Procs
         /\ \A p \in Procs, n \in 0 .. PROC_THREADS - 1 :
              <<p, n>> \in Pshared!Threads /\ <<p, n>>[1] = p
BY DEF Distinct, Pshared!Nobody, Pshared!Threads

\* Nobody uses the mutex at the start, which is unlocked.
LEMMA PsharedInit ==
  ASSUME Distinct, Pshared!Init
  PROVE  PsharedInv
<1>1. /\ main \in [Procs -> {"open", "ftruncate", "memset", "init", "create", "join",
                             "ended", "dead"}]
      /\ joined \in [Procs -> 0 .. PROC_THREADS]
  BY DEF Distinct, Pshared!Init
<1>2. /\ pc \in [Pshared!Threads -> {"none", "lock", "ended"} \cup Pshared!Using]
      /\ asleep \in [Pshared!Threads -> {"not", "private", "shared"}]
      /\ seen \in [Pshared!Threads -> Pshared!Threads \cup {Pshared!Nobody}]
      /\ \A t \in Pshared!Threads : pc[t] = "asleep" <=> asleep[t] # "not"
  BY DEF Pshared!Init
<1>3. kind \in {"private", "shared"} /\ shm \in {"none", "empty", "sized"}
  BY DEF Pshared!Init
<1>4. word \in 0 .. 2
  BY DEF Pshared!Init
<1>5. /\ owner \in Pshared!Threads \cup {Pshared!Nobody}
      /\ prev \in Pshared!Threads \cup {Pshared!Nobody}
  BY Zenon DEF Pshared!Init
<1>6. disturbed \in BOOLEAN
  BY Zenon DEF Pshared!Init
<1>7. Pshared!TypeOK
  BY <1>1, <1>2, <1>3, <1>4, <1>5, <1>6, Zenon DEF Pshared!TypeOK
<1>8. MainInv
  BY DEF Distinct, Pshared!Init, MainInv, Early
<1>9. Pshared!Inside = {}
  BY DEF Pshared!Init, Pshared!Inside
<1>10. HeldInv /\ Pshared!PredecessorStays
  BY <1>9 DEF HeldInv, Pshared!PredecessorStays, Pshared!Init
<1> QED
  BY <1>7, <1>8, <1>10 DEF PsharedInv

-----------------------------------------------------------------------------
(* mutex_pshared.c: main.                                                  *)

\* A step of main that leaves the mutex and the threads alone.
LEMMA MainKeeps ==
  ASSUME Distinct, PsharedInv, Pshared!TypeOK', MainInv',
         UNCHANGED <<pc, word, owner, prev, seen, disturbed>>,
         \A p \in Procs : main[p] = "dead" => main'[p] = "dead"
  PROVE  PsharedInv'
<1>1. Pshared!Inside' = Pshared!Inside
  BY DEF Pshared!Inside
<1>2. owner \in Pshared!Threads \cup {Pshared!Nobody}
  BY DEF PsharedInv, Pshared!TypeOK
<1>3. HeldInv'
  BY <1>1, <1>2, ThreadFacts DEF PsharedInv, HeldInv
<1>4. Pshared!PredecessorStays'
  BY DEF PsharedInv, Pshared!PredecessorStays
<1> QED
  BY <1>3, <1>4 DEF PsharedInv

LEMMA OpenStep ==
  ASSUME Distinct, PsharedInv, NEW p \in Procs,
         Pshared!shm_open_creates(p) \/ Pshared!shm_open_exists(p) \/ Pshared!ftruncate(p)
  PROVE  PsharedInv'
<1>1. UNCHANGED <<joined, pc, word, owner, kind, prev, asleep, seen, disturbed>>
  BY DEF Pshared!shm_open_creates, Pshared!shm_open_exists, Pshared!ftruncate,
         Pshared!mutex
<1>2. PICK to \in {"ftruncate", "memset", "create"} :
        main' = [main EXCEPT ![p] = to] /\ main[p] \in {"open", "ftruncate"}
  BY DEF Pshared!shm_open_creates, Pshared!shm_open_exists, Pshared!ftruncate,
         Pshared!MainGoto, Pshared!Arguments
<1>3. shm' \in {"none", "empty", "sized"}
  BY DEF Pshared!shm_open_creates, Pshared!shm_open_exists, Pshared!ftruncate,
         PsharedInv, Pshared!TypeOK
<1>4. main' \in [Procs -> {"open", "ftruncate", "memset", "init", "create", "join",
                           "ended", "dead"}]
  BY <1>2 DEF PsharedInv, Pshared!TypeOK
<1>5. Pshared!TypeOK'
  BY <1>1, <1>3, <1>4 DEF PsharedInv, Pshared!TypeOK
<1>6. MainInv'
  BY <1>1, <1>2 DEF PsharedInv, Pshared!TypeOK, MainInv, Early
<1>7. \A q \in Procs : main[q] = "dead" => main'[q] = "dead"
  BY <1>2 DEF PsharedInv, Pshared!TypeOK
<1> QED
  BY <1>1, <1>5, <1>6, <1>7, MainKeeps

LEMMA JoinStep ==
  ASSUME Distinct, PsharedInv, NEW p \in Procs, Pshared!pthread_join(p)
  PROVE  PsharedInv'
<1>1. UNCHANGED <<shm, pc, word, owner, kind, prev, asleep, seen, disturbed>>
  BY DEF Pshared!pthread_join, Pshared!mutex
<1>2. /\ main[p] = "join" /\ joined[p] \in Nat /\ joined[p] < PROC_THREADS
      /\ PROC_THREADS \in Nat
  BY DEF Pshared!pthread_join, PsharedInv, Pshared!TypeOK, MainInv, Distinct
<1>3. joined' = [joined EXCEPT ![p] = joined[p] + 1]
  BY DEF Pshared!pthread_join
<1>4. joined' \in [Procs -> 0 .. PROC_THREADS] /\ joined'[p] = joined[p] + 1
  BY <1>2, <1>3 DEF PsharedInv, Pshared!TypeOK
<1>5. main' = [main EXCEPT ![p] = IF joined'[p] = PROC_THREADS THEN "ended" ELSE "join"]
  BY <1>2 DEF Pshared!pthread_join
<1>6. main' \in [Procs -> {"open", "ftruncate", "memset", "init", "create", "join",
                           "ended", "dead"}]
  BY <1>5 DEF PsharedInv, Pshared!TypeOK
<1>7. Pshared!TypeOK'
  BY <1>1, <1>4, <1>6 DEF PsharedInv, Pshared!TypeOK
<1>8. MainInv'
  <2>1. \A q \in Procs : q # p => joined'[q] = joined[q] /\ main'[q] = main[q]
    BY <1>3, <1>5 DEF PsharedInv, Pshared!TypeOK
  <2>2. main'[p] \in {"join", "ended"} /\ (main'[p] = "join" => joined'[p] # PROC_THREADS)
    BY <1>5 DEF PsharedInv, Pshared!TypeOK
  <2>3. main'[p] = "join" => joined'[p] < PROC_THREADS
    BY <1>2, <1>4, <2>2
  <2> QED
    BY <1>1, <2>1, <2>2, <2>3 DEF PsharedInv, MainInv, Early
<1>9. \A q \in Procs : main[q] = "dead" => main'[q] = "dead"
  BY <1>2, <1>5 DEF PsharedInv, Pshared!TypeOK
<1> QED
  BY <1>1, <1>7, <1>8, <1>9, MainKeeps

\* The mutex is overwritten: if no thread uses it nobody is inside, and if one
\* does there is nothing more to say.
LEMMA OverwrittenStep ==
  ASSUME Distinct, PsharedInv, NEW p \in Procs,
         Pshared!memset(p) \/ Pshared!pthread_mutex_init(p)
  PROVE  PsharedInv'
<1>1. /\ UNCHANGED <<shm, joined, pc, asleep, seen>>
      /\ word' = 0 /\ owner' = Pshared!Nobody /\ kind' \in {"private", "shared"}
      /\ disturbed' = (disturbed \/ \E t \in Pshared!Threads : pc[t] \in Pshared!Using)
      /\ prev' = prev \/ prev' = Pshared!Nobody
  BY DEF Pshared!memset, Pshared!pthread_mutex_init, Pshared!Overwritten
<1>2. PICK to \in {"init", "create"} :
        main' = [main EXCEPT ![p] = to] /\ main[p] \in {"memset", "init"}
  BY DEF Pshared!memset, Pshared!pthread_mutex_init, Pshared!MainGoto
<1>3. main' \in [Procs -> {"open", "ftruncate", "memset", "init", "create", "join",
                           "ended", "dead"}]
  BY <1>2 DEF PsharedInv, Pshared!TypeOK
<1>4. disturbed' \in BOOLEAN
  BY <1>1, Zenon DEF PsharedInv, Pshared!TypeOK
<1>5. Pshared!TypeOK'
  BY <1>1, <1>3, <1>4 DEF PsharedInv, Pshared!TypeOK
<1>6. MainInv'
  BY <1>1, <1>2 DEF PsharedInv, Pshared!TypeOK, MainInv, Early
<1>7. ASSUME ~disturbed'
      PROVE  \A t \in Pshared!Threads : pc'[t] \notin Pshared!Using
  BY <1>1, <1>7, Zenon
<1>8. HeldInv' /\ Pshared!PredecessorStays'
  BY <1>1, <1>7 DEF HeldInv, Pshared!PredecessorStays, Pshared!Inside, Pshared!Using
<1> QED
  BY <1>5, <1>6, <1>8 DEF PsharedInv

\* The new threads do not use the mutex yet.
LEMMA CreateStep ==
  ASSUME Distinct, PsharedInv, NEW p \in Procs, Pshared!pthread_create(p)
  PROVE  PsharedInv'
<1>1. UNCHANGED <<shm, joined, word, owner, kind, prev, asleep, seen, disturbed>>
  BY DEF Pshared!pthread_create, Pshared!mutex
<1>2. main' = [main EXCEPT ![p] = "join"] /\ main[p] = "create"
  BY DEF Pshared!pthread_create, Pshared!MainGoto
<1>3. PICK S \in SUBSET ({p} \X (0 .. PROC_THREADS - 1)) :
        pc' = [t \in Pshared!Threads |-> IF t \in S THEN "lock" ELSE pc[t]]
  BY DEF Pshared!pthread_create
<1>4. \A t \in S : t \in Pshared!Threads /\ t[1] = p /\ pc[t] = "none" /\ asleep[t] = "not"
  <2> SUFFICES ASSUME NEW t \in S
               PROVE  t \in Pshared!Threads /\ t[1] = p /\ pc[t] = "none" /\ asleep[t] = "not"
    OBVIOUS
  <2>1. t \in Pshared!Threads /\ t[1] = p
    BY DEF Pshared!Threads
  <2>2. pc[t] = "none"
    BY <1>2, <2>1 DEF PsharedInv, MainInv, Early
  <2> QED
    BY <2>1, <2>2 DEF PsharedInv, Pshared!TypeOK
<1>5. main' \in [Procs -> {"open", "ftruncate", "memset", "init", "create", "join",
                           "ended", "dead"}]
  BY <1>2 DEF PsharedInv, Pshared!TypeOK
<1>6. /\ pc' \in [Pshared!Threads -> {"none", "lock", "ended"} \cup Pshared!Using]
      /\ \A t \in Pshared!Threads : pc'[t] = "asleep" <=> asleep[t] # "not"
  BY <1>3, <1>4 DEF PsharedInv, Pshared!TypeOK
<1>7. Pshared!TypeOK'
  BY <1>1, <1>5, <1>6 DEF PsharedInv, Pshared!TypeOK
<1>8. MainInv'
  BY <1>1, <1>2, <1>3, <1>4 DEF PsharedInv, Pshared!TypeOK, MainInv, Early, Distinct
<1>9. \A t \in Pshared!Threads : pc'[t] \in {"print", "write", "unlock"} => pc'[t] = pc[t]
  BY <1>3
<1>10. \A t \in Pshared!Threads : pc[t] \in {"print", "write", "unlock"} => pc'[t] = pc[t]
  BY <1>3, <1>4
<1>11. Pshared!Inside' = Pshared!Inside
  BY <1>9, <1>10 DEF Pshared!Inside
<1>12. \A q \in Procs : main[q] = "dead" => main'[q] = "dead"
  BY <1>2 DEF PsharedInv, Pshared!TypeOK
<1>13. HeldInv'
  BY <1>1, <1>11, <1>12, ThreadFacts DEF PsharedInv, Pshared!TypeOK, HeldInv
<1>14. Pshared!PredecessorStays'
  BY <1>1, <1>9 DEF PsharedInv, Pshared!PredecessorStays
<1> QED
  BY <1>7, <1>8, <1>13, <1>14 DEF PsharedInv

\* A process that ends takes its threads out; if one was inside, the owner is
\* dead now.
LEMMA DiesStep ==
  ASSUME Distinct, PsharedInv, NEW p \in Procs, Pshared!Dies(p)
  PROVE  PsharedInv'
<1>1. UNCHANGED <<shm, joined, word, owner, kind, prev, seen, disturbed>>
  BY DEF Pshared!Dies, Pshared!mutex
<1>2. /\ main' = [main EXCEPT ![p] = "dead"]
      /\ pc' = [t \in Pshared!Threads |-> IF t[1] = p THEN "ended" ELSE pc[t]]
      /\ asleep' = [t \in Pshared!Threads |-> IF t[1] = p THEN "not" ELSE asleep[t]]
  BY DEF Pshared!Dies
<1>3. main' \in [Procs -> {"open", "ftruncate", "memset", "init", "create", "join",
                           "ended", "dead"}]
  BY <1>2 DEF PsharedInv, Pshared!TypeOK
<1>4. /\ pc' \in [Pshared!Threads -> {"none", "lock", "ended"} \cup Pshared!Using]
      /\ asleep' \in [Pshared!Threads -> {"not", "private", "shared"}]
      /\ \A t \in Pshared!Threads : pc'[t] = "asleep" <=> asleep'[t] # "not"
  BY <1>2 DEF PsharedInv, Pshared!TypeOK
<1>5. Pshared!TypeOK'
  BY <1>1, <1>3, <1>4 DEF PsharedInv, Pshared!TypeOK
<1>6. MainInv'
  BY <1>1, <1>2 DEF PsharedInv, Pshared!TypeOK, MainInv, Early
<1>7. Pshared!Inside' = {t \in Pshared!Inside : t[1] # p}
  BY <1>2 DEF Pshared!Inside
<1>8. /\ owner \in Pshared!Threads \cup {Pshared!Nobody}
      /\ \A t \in Pshared!Threads : t[1] \in Procs
      /\ Pshared!Nobody \notin Pshared!Threads
  BY ThreadFacts DEF PsharedInv, Pshared!TypeOK
<1>9. owner \in Pshared!Threads /\ main[owner[1]] = "dead" => main'[owner[1]] = "dead"
  BY <1>2, <1>8 DEF PsharedInv, Pshared!TypeOK
<1>10. owner \in Pshared!Threads /\ owner[1] = p => main'[owner[1]] = "dead"
  BY <1>2 DEF PsharedInv, Pshared!TypeOK
<1>11. HeldInv'
  BY <1>1, <1>7, <1>8, <1>9, <1>10 DEF PsharedInv, HeldInv, Pshared!Inside
<1>12. Pshared!PredecessorStays'
  BY <1>1, <1>2 DEF PsharedInv, Pshared!PredecessorStays
<1> QED
  BY <1>5, <1>6, <1>11, <1>12 DEF PsharedInv

-----------------------------------------------------------------------------
(* start_thread: first what the kinds of steps have in common.             *)

Busy == {"contend", "futex", "print", "write", "unlock", "ended"}

\* t goes from one place to another where nobody sleeps.
LEMMA StepTypes ==
  ASSUME Distinct, PsharedInv, NEW t \in Pshared!Threads, NEW to \in Busy,
         pc[t] \notin {"none", "asleep"},
         pc' = [pc EXCEPT ![t] = to],
         UNCHANGED <<shm, main, joined, kind, asleep, disturbed>>,
         word' \in 0 .. 2,
         owner' \in Pshared!Threads \cup {Pshared!Nobody},
         prev' \in Pshared!Threads \cup {Pshared!Nobody},
         seen' \in [Pshared!Threads -> Pshared!Threads \cup {Pshared!Nobody}]
  PROVE  Pshared!TypeOK' /\ MainInv'
<1>1. pc' \in [Pshared!Threads -> {"none", "lock", "ended"} \cup Pshared!Using]
  BY DEF PsharedInv, Pshared!TypeOK, Busy, Pshared!Using
<1>2. \A u \in Pshared!Threads : pc'[u] = "asleep" <=> asleep[u] # "not"
  BY DEF PsharedInv, Pshared!TypeOK, Busy
<1>3. Pshared!TypeOK'
  BY <1>1, <1>2 DEF PsharedInv, Pshared!TypeOK
<1>4. \A u \in Pshared!Threads : pc[u] = "none" => pc'[u] = "none"
  BY DEF PsharedInv, Pshared!TypeOK
<1>5. MainInv'
  BY <1>4 DEF PsharedInv, MainInv, Early
<1> QED
  BY <1>3, <1>5

\* A thread that is neither inside nor comes in.
LEMMA OutsideStep ==
  ASSUME Distinct, PsharedInv, NEW t \in Pshared!Threads, NEW to,
         to \notin {"print", "write", "unlock"},
         pc[t] \notin {"print", "write", "unlock"},
         pc' = [pc EXCEPT ![t] = to],
         UNCHANGED <<main, owner, prev, seen, disturbed>>,
         word' = 0 <=> word = 0,
         Pshared!TypeOK', MainInv'
  PROVE  PsharedInv'
<1>1. \A u \in Pshared!Threads : pc'[u] = IF u = t THEN to ELSE pc[u]
  <2>1. pc = [u \in Pshared!Threads |-> pc[u]]
    BY Zenon DEF PsharedInv, Pshared!TypeOK
  <2> QED
    BY <2>1
<1>2. Pshared!Inside' = Pshared!Inside
  BY <1>1 DEF Pshared!Inside
<1>3. HeldInv'
  BY <1>2 DEF PsharedInv, HeldInv
<1>4. Pshared!PredecessorStays'
  BY <1>1 DEF PsharedInv, Pshared!PredecessorStays
<1> QED
  BY <1>3, <1>4 DEF PsharedInv

\* The mutex is free, so that nobody else is inside.
LEMMA AcquiredStep ==
  ASSUME Distinct, PsharedInv, NEW t \in Pshared!Threads, NEW w \in 1 .. 2,
         pc[t] \in {"lock", "contend"}, Pshared!Acquired(t, w)
  PROVE  PsharedInv'
<1>1. /\ word = 0 /\ word' = w /\ owner' = t
      /\ pc' = [pc EXCEPT ![t] = "print"]
      /\ UNCHANGED <<shm, main, joined, kind, prev, asleep, seen, disturbed>>
  BY DEF Pshared!Acquired, Pshared!Steps, Pshared!After
<1>2. Pshared!TypeOK' /\ MainInv'
  <2>1. "print" \in Busy /\ pc[t] \notin {"none", "asleep"} /\ word' \in 0 .. 2
    BY <1>1 DEF Busy
  <2>2. /\ owner' \in Pshared!Threads \cup {Pshared!Nobody}
        /\ prev' \in Pshared!Threads \cup {Pshared!Nobody}
    BY <1>1 DEF PsharedInv, Pshared!TypeOK
  <2>3. seen' \in [Pshared!Threads -> Pshared!Threads \cup {Pshared!Nobody}]
    BY <1>1 DEF PsharedInv, Pshared!TypeOK
  <2> QED
    BY <1>1, <2>1, <2>2, <2>3, StepTypes
<1>3. \A u \in Pshared!Threads : u # t => pc'[u] = pc[u]
  BY <1>1 DEF PsharedInv, Pshared!TypeOK
<1>4. pc'[t] = "print"
  BY <1>1 DEF PsharedInv, Pshared!TypeOK
<1>5. Pshared!Inside' = Pshared!Inside \cup {t}
  BY <1>3, <1>4 DEF Pshared!Inside
<1>6. ~disturbed => Pshared!Inside \subseteq {Pshared!Nobody}
  BY <1>1 DEF PsharedInv, HeldInv
<1>7. Pshared!Nobody \notin Pshared!Inside /\ t # Pshared!Nobody
  BY ThreadFacts DEF Pshared!Inside
<1>8. HeldInv'
  BY <1>1, <1>5, <1>6, <1>7 DEF HeldInv
<1>9. Pshared!PredecessorStays'
  BY <1>1, <1>3, <1>4 DEF PsharedInv, Pshared!PredecessorStays
<1> QED
  BY <1>2, <1>8, <1>9 DEF PsharedInv

-----------------------------------------------------------------------------
(* Its steps.                                                              *)

LEMMA ContendsStep ==
  ASSUME Distinct, PsharedInv, NEW t \in Pshared!Threads,
         Pshared!lock_contends(t) \/ Pshared!contend_fails(t) \/ Pshared!futex_changed(t)
  PROVE  PsharedInv'
<1>1. PICK to \in {"contend", "futex"} :
        pc[t] \in {"lock", "contend", "futex"} /\ pc' = [pc EXCEPT ![t] = to]
  BY DEF Pshared!lock_contends, Pshared!contend_fails, Pshared!futex_changed,
         Pshared!Steps
<1>2. /\ UNCHANGED <<shm, main, joined, owner, kind, prev, asleep, seen, disturbed>>
      /\ word' = word \/ (word # 0 /\ word' = 2)
  <2>1. CASE Pshared!lock_contends(t)
    BY <2>1 DEF Pshared!lock_contends, Pshared!mutex
  <2>2. CASE Pshared!contend_fails(t)
    BY <2>2 DEF Pshared!contend_fails
  <2>3. CASE Pshared!futex_changed(t)
    BY <2>3 DEF Pshared!futex_changed, Pshared!mutex
  <2> QED
    BY <2>1, <2>2, <2>3
<1>3. Pshared!TypeOK' /\ MainInv'
  <2>1. to \in Busy /\ pc[t] \notin {"none", "asleep"}
    BY <1>1 DEF Busy
  <2>2. /\ word' \in 0 .. 2
        /\ owner' \in Pshared!Threads \cup {Pshared!Nobody}
        /\ prev' \in Pshared!Threads \cup {Pshared!Nobody}
        /\ seen' \in [Pshared!Threads -> Pshared!Threads \cup {Pshared!Nobody}]
    BY <1>2 DEF PsharedInv, Pshared!TypeOK
  <2> QED
    BY <1>1, <1>2, <2>1, <2>2, StepTypes
<1>4. to \notin {"print", "write", "unlock"} /\ pc[t] \notin {"print", "write", "unlock"}
  BY <1>1
<1>5. word' = 0 <=> word = 0
  BY <1>2
<1> QED
  BY <1>1, <1>2, <1>3, <1>4, <1>5, OutsideStep

LEMMA FutexStep ==
  ASSUME Distinct, PsharedInv, NEW t \in Pshared!Threads, Pshared!futex_wait(t)
  PROVE  PsharedInv'
<1>1. /\ pc[t] = "futex" /\ pc' = [pc EXCEPT ![t] = "asleep"]
      /\ asleep' = [asleep EXCEPT ![t] = kind]
      /\ UNCHANGED <<shm, main, joined, word, owner, kind, prev, seen, disturbed>>
  BY DEF Pshared!futex_wait, Pshared!Steps, Pshared!mutex
<1>2. /\ pc' \in [Pshared!Threads -> {"none", "lock", "ended"} \cup Pshared!Using]
      /\ asleep' \in [Pshared!Threads -> {"not", "private", "shared"}]
  BY <1>1 DEF PsharedInv, Pshared!TypeOK, Pshared!Using
<1>3. \A u \in Pshared!Threads : pc'[u] = "asleep" <=> asleep'[u] # "not"
  BY <1>1 DEF PsharedInv, Pshared!TypeOK
<1>4. Pshared!TypeOK'
  BY <1>1, <1>2, <1>3 DEF PsharedInv, Pshared!TypeOK
<1>5. \A u \in Pshared!Threads : pc[u] = "none" => pc'[u] = "none"
  BY <1>1 DEF PsharedInv, Pshared!TypeOK
<1>6. MainInv'
  BY <1>1, <1>5 DEF PsharedInv, MainInv
<1> QED
  BY <1>1, <1>4, <1>6, OutsideStep

LEMMA PrintStep ==
  ASSUME Distinct, PsharedInv, NEW t \in Pshared!Threads, Pshared!pr_out(t)
  PROVE  PsharedInv'
<1>1. /\ pc[t] = "print" /\ pc' = [pc EXCEPT ![t] = "write"]
      /\ seen' = [seen EXCEPT ![t] = prev]
      /\ UNCHANGED <<shm, main, joined, word, owner, kind, prev, asleep, disturbed>>
  BY DEF Pshared!pr_out, Pshared!Steps, Pshared!After, Pshared!mutex
<1>2. seen' \in [Pshared!Threads -> Pshared!Threads \cup {Pshared!Nobody}]
  BY <1>1 DEF PsharedInv, Pshared!TypeOK
<1>3. Pshared!TypeOK' /\ MainInv'
  BY <1>1, <1>2, StepTypes DEF Busy, PsharedInv, Pshared!TypeOK
<1>4. Pshared!Inside' = Pshared!Inside
  BY <1>1 DEF Pshared!Inside, PsharedInv, Pshared!TypeOK
<1>5. HeldInv'
  BY <1>1, <1>4 DEF PsharedInv, HeldInv
<1>6. Pshared!PredecessorStays'
  BY <1>1 DEF PsharedInv, Pshared!TypeOK, Pshared!PredecessorStays
<1> QED
  BY <1>3, <1>5, <1>6 DEF PsharedInv

\* Nobody else is between printing and writing.
LEMMA WriteStep ==
  ASSUME Distinct, PsharedInv, NEW t \in Pshared!Threads, Pshared!write_prev(t)
  PROVE  PsharedInv'
<1>1. /\ pc[t] = "write" /\ pc' = [pc EXCEPT ![t] = "unlock"] /\ prev' = t
      /\ UNCHANGED <<shm, main, joined, word, owner, kind, asleep, seen, disturbed>>
  BY DEF Pshared!write_prev, Pshared!Steps, Pshared!After, Pshared!mutex
<1>2. Pshared!TypeOK' /\ MainInv'
  BY <1>1, StepTypes DEF Busy, PsharedInv, Pshared!TypeOK
<1>3. Pshared!Inside' = Pshared!Inside
  BY <1>1 DEF Pshared!Inside, PsharedInv, Pshared!TypeOK
<1>4. HeldInv'
  BY <1>1, <1>3 DEF PsharedInv, HeldInv
<1>5. ASSUME ~disturbed, NEW u \in Pshared!Threads
      PROVE  pc'[u] # "write"
  <2>1. t \in Pshared!Inside /\ Pshared!Inside \subseteq {owner}
    BY <1>1, <1>5 DEF Pshared!Inside, PsharedInv, HeldInv
  <2>2. pc[u] = "write" => u = t
    BY <2>1 DEF Pshared!Inside
  <2> QED
    BY <1>1, <2>2 DEF PsharedInv, Pshared!TypeOK
<1>6. Pshared!PredecessorStays'
  BY <1>1, <1>5 DEF Pshared!PredecessorStays
<1> QED
  BY <1>2, <1>4, <1>6 DEF PsharedInv

\* Only the owner is inside: it unlocks the mutex and leaves.
LEMMA UnlockStep ==
  ASSUME Distinct, PsharedInv, NEW t \in Pshared!Threads, Pshared!unlock(t)
  PROVE  PsharedInv'
<1>1. /\ pc[t] = "unlock" /\ word' = 0 /\ owner' = Pshared!Nobody
      /\ UNCHANGED <<shm, main, joined, kind, prev, seen, disturbed>>
  BY DEF Pshared!unlock
<1>2. \/ pc' = [pc EXCEPT ![t] = "ended"] /\ asleep' = asleep
      \/ \E u \in Pshared!Threads :
           /\ pc[u] = "asleep" /\ asleep' = [asleep EXCEPT ![u] = "not"]
           /\ pc' = [pc EXCEPT ![t] = "ended", ![u] = "contend"]
  <2>1. \A u \in Pshared!Reachable(t) : u \in Pshared!Threads /\ pc[u] = "asleep"
    BY DEF Pshared!Reachable, PsharedInv, Pshared!TypeOK
  <2> QED
    BY <2>1 DEF Pshared!unlock, Pshared!After
<1>3. /\ pc' \in [Pshared!Threads -> {"none", "lock", "ended"} \cup Pshared!Using]
      /\ asleep' \in [Pshared!Threads -> {"not", "private", "shared"}]
      /\ \A u \in Pshared!Threads : pc'[u] = "asleep" <=> asleep'[u] # "not"
  BY <1>1, <1>2 DEF PsharedInv, Pshared!TypeOK, Pshared!Using
<1>4. \A u \in Pshared!Threads :
        /\ pc[u] = "none" => pc'[u] = "none"
        /\ pc'[u] \in {"print", "write", "unlock"} => u # t /\ pc'[u] = pc[u]
  BY <1>1, <1>2 DEF PsharedInv, Pshared!TypeOK
<1>5. Pshared!TypeOK'
  BY <1>1, <1>3 DEF PsharedInv, Pshared!TypeOK
<1>6. MainInv'
  BY <1>1, <1>4 DEF PsharedInv, MainInv
<1>7. ~disturbed => Pshared!Inside' = {}
  BY <1>1, <1>4 DEF PsharedInv, HeldInv, Pshared!Inside
<1>8. HeldInv' /\ Pshared!PredecessorStays'
  BY <1>1, <1>7 DEF HeldInv, Pshared!PredecessorStays, Pshared!Inside
<1> QED
  BY <1>5, <1>6, <1>8 DEF PsharedInv

\* Unlocking fails only if the mutex was overwritten.
LEMMA UnlockFailsStep ==
  ASSUME Distinct, PsharedInv, NEW t \in Pshared!Threads, Pshared!unlock_fails(t)
  PROVE  PsharedInv'
<1>1. /\ pc[t] = "unlock" /\ pc' = [pc EXCEPT ![t] = "ended"] /\ owner # t
      /\ UNCHANGED <<shm, main, joined, word, owner, kind, prev, asleep, seen, disturbed>>
  BY DEF Pshared!unlock_fails, Pshared!NotOwner, Pshared!Steps, Pshared!After,
         Pshared!mutex
<1>2. Pshared!TypeOK' /\ MainInv'
  BY <1>1, StepTypes DEF Busy, PsharedInv, Pshared!TypeOK
<1>3. disturbed
  BY <1>1 DEF PsharedInv, HeldInv, Pshared!Inside
<1>4. HeldInv' /\ Pshared!PredecessorStays'
  BY <1>1, <1>3 DEF HeldInv, Pshared!PredecessorStays
<1> QED
  BY <1>2, <1>4 DEF PsharedInv

LEMMA PsharedStutter ==
  ASSUME PsharedInv, UNCHANGED Pshared!vars
  PROVE  PsharedInv'
<1>1. UNCHANGED <<shm, main, joined, pc, word, owner, kind, prev, asleep, seen, disturbed>>
  BY DEF Pshared!vars, Pshared!mutex
<1>2. Pshared!TypeOK' /\ MainInv'
  BY <1>1 DEF PsharedInv, Pshared!TypeOK, MainInv
<1>3. HeldInv' /\ Pshared!PredecessorStays'
  BY <1>1 DEF PsharedInv, HeldInv, Pshared!PredecessorStays, Pshared!Inside
<1> QED
  BY <1>2, <1>3 DEF PsharedInv

-----------------------------------------------------------------------------

LEMMA PsharedNext ==
  ASSUME Distinct, PsharedInv, Pshared!Next \/ UNCHANGED Pshared!vars
  PROVE  PsharedInv'
<1>1. ASSUME NEW p \in Procs,
             \/ Pshared!shm_open_creates(p) \/ Pshared!shm_open_exists(p)
             \/ Pshared!ftruncate(p)
      PROVE  PsharedInv'
  BY <1>1, OpenStep
<1>2. ASSUME NEW p \in Procs, Pshared!memset(p) \/ Pshared!pthread_mutex_init(p)
      PROVE  PsharedInv'
  BY <1>2, OverwrittenStep
<1>3. ASSUME NEW p \in Procs, Pshared!pthread_create(p)
      PROVE  PsharedInv'
  BY <1>3, CreateStep
<1>4. ASSUME NEW p \in Procs, Pshared!pthread_join(p)
      PROVE  PsharedInv'
  BY <1>4, JoinStep
<1>5. ASSUME NEW p \in Procs,
             \/ Pshared!memset_sigbus(p) \/ Pshared!pthread_join_sigsegv(p)
             \/ Pshared!kill(p)
      PROVE  PsharedInv'
  BY <1>5, DiesStep DEF Pshared!memset_sigbus, Pshared!pthread_join_sigsegv, Pshared!kill
<1>6. ASSUME NEW t \in Pshared!Threads, Pshared!lock_sigbus(t)
      PROVE  PsharedInv'
  BY <1>6, ThreadFacts, DiesStep DEF Pshared!lock_sigbus
<1>7. ASSUME NEW t \in Pshared!Threads, Pshared!lock(t) \/ Pshared!contend(t)
      PROVE  PsharedInv'
  <2>1. /\ 1 \in 1 .. 2 /\ 2 \in 1 .. 2
        /\ pc[t] \in {"lock", "contend"}
        /\ Pshared!Acquired(t, 1) \/ Pshared!Acquired(t, 2)
    BY <1>7 DEF Pshared!lock, Pshared!contend
  <2> QED
    BY <2>1, AcquiredStep
<1>8. ASSUME NEW t \in Pshared!Threads,
             \/ Pshared!lock_contends(t) \/ Pshared!contend_fails(t)
             \/ Pshared!futex_changed(t)
      PROVE  PsharedInv'
  BY <1>8, ContendsStep
<1>9. ASSUME NEW t \in Pshared!Threads, Pshared!futex_wait(t)
      PROVE  PsharedInv'
  BY <1>9, FutexStep
<1>10. ASSUME NEW t \in Pshared!Threads, Pshared!pr_out(t) \/ Pshared!write_prev(t)
       PROVE  PsharedInv'
  BY <1>10, PrintStep, WriteStep
<1>11. ASSUME NEW t \in Pshared!Threads, Pshared!unlock(t) \/ Pshared!unlock_fails(t)
       PROVE  PsharedInv'
  BY <1>11, UnlockStep, UnlockFailsStep
<1>12. CASE UNCHANGED Pshared!vars
  BY <1>12, PsharedStutter
<1> QED
  BY <1>1, <1>2, <1>3, <1>4, <1>5, <1>6, <1>7, <1>8, <1>9, <1>10, <1>11, <1>12
  DEF Pshared!Next, Pshared!Main, Pshared!Thread

\* What the invariant says of a mutex in use.
LEMMA PsharedImplies ==
  ASSUME PsharedInv
  PROVE  Pshared!HeldByRunning /\ Pshared!PredecessorStays
BY DEF PsharedInv, HeldInv, Pshared!HeldByRunning

-----------------------------------------------------------------------------
(* Whichever program runs.                                                 *)

Inv ==
  /\ program = "type" => TypeInv
  /\ program = "cleanup" => CleanupInv
  /\ program = "pshared" => PsharedInv

LEMMA InitInv ==
  ASSUME Init
  PROVE  Inv
<1>1. CASE program = "type" /\ Type!Init
  BY <1>1, TypeInit DEF Inv
<1>2. CASE program = "cleanup" /\ Cleanup!Init
  BY <1>2, CleanupInit DEF Inv
<1>3. CASE program = "pshared" /\ Pshared!Init
  <2>1. PsharedInv
    BY <1>3, MutexesAssumption, PsharedInit DEF Distinct
  <2> QED
    BY <1>3, <2>1 DEF Inv
<1> QED
  BY <1>1, <1>2, <1>3 DEF Init

LEMMA NextPreserves ==
  ASSUME Inv, [Next]_vars
  PROVE  Inv'
<1>1. CASE TypeRuns /\ Type!Next
  <2>1. program = "type" /\ program' = program
    BY <1>1 DEF TypeRuns
  <2>2. TypeInv'
    BY <1>1, <2>1, TypeMainStep, TypeThreadStep DEF Inv, Type!Next
  <2> QED
    BY <2>1, <2>2 DEF Inv
<1>2. CASE CleanupRuns /\ Cleanup!Next
  <2>1. program = "cleanup" /\ program' = program
    BY <1>2 DEF CleanupRuns
  <2>2. CleanupInv'
    BY <1>2, <2>1, CleanupMainStep, CleanupThreadStep DEF Inv, Cleanup!Next
  <2> QED
    BY <2>1, <2>2 DEF Inv
<1>3. CASE PsharedRuns /\ Pshared!Next
  <2>1. program = "pshared" /\ program' = program
    BY <1>3 DEF PsharedRuns
  <2>2. PsharedInv'
    BY <1>3, <2>1, MutexesAssumption, PsharedNext DEF Inv, Distinct
  <2> QED
    BY <2>1, <2>2 DEF Inv
<1>4. CASE UNCHANGED vars
  <2>1. program' = program
    BY <1>4 DEF vars
  <2>2. TypeInv => TypeInv'
    BY <1>4 DEF vars, type_only, TypeInv, Type!TypeOK
  <2>3. CleanupInv => CleanupInv'
    BY <1>4 DEF vars, cleanup_only, CleanupInv, Cleanup!TypeOK
  <2>4. UNCHANGED Pshared!vars
    BY <1>4 DEF vars, pshared_only, Pshared!vars, Pshared!mutex
  <2>5. program = "pshared" => PsharedInv'
    BY <2>1, <2>4, MutexesAssumption, PsharedStutter DEF Inv, Distinct
  <2> QED
    BY <2>1, <2>2, <2>3, <2>5 DEF Inv
<1> QED
  BY <1>1, <1>2, <1>3, <1>4 DEF Next

LEMMA Inductive == Spec => []Inv
BY InitInv, NextPreserves, PTL DEF Spec

\* For any number of threads and processes: whichever of the three programs
\* runs, its mutex is held by a thread between lock and unlock, with no other
\* exceptions than a recursive mutex locked twice, a process that died with the
\* mutex, and a mutex that was overwritten while it was used.
THEOREM HeldByRunningCorrect == Spec => []HeldByRunning
<1>1. Inv => HeldByRunning
  <2> SUFFICES ASSUME Inv
               PROVE  HeldByRunning
    OBVIOUS
  <2>1. TypeInv => Type!HeldByRunning
    BY MutexesAssumption DEF TypeInv, Type!HeldByRunning, Type!TypeOK
  <2>2. CleanupInv => Cleanup!HeldByRunning
    BY MutexesAssumption DEF CleanupInv, Cleanup!HeldByRunning, Cleanup!TypeOK, Holding
  <2>3. PsharedInv => Pshared!HeldByRunning
    BY PsharedImplies
  <2> QED
    BY <2>1, <2>2, <2>3 DEF Inv, HeldByRunning
<1> QED
  BY <1>1, Inductive, PTL

\* For any number of processes and threads: the predecessor that a thread of
\* mutex_pshared.c prints is still the last that wrote when it writes itself.
THEOREM PredecessorStaysCorrect == Spec => []PredecessorStays
<1>1. Inv => PredecessorStays
  BY PsharedImplies DEF Inv, PredecessorStays
<1> QED
  BY <1>1, Inductive, PTL

=============================================================================
