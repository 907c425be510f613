-------------------------- MODULE WorkQueueProofs --------------------------
(***************************************************************************)
(* Proofs about WorkQueue and WorkQueueRts, for every ring size above one, *)
(* every number of consumers and every length of the stream and of the     *)
(* signal queue.                                                           *)
(***************************************************************************)
EXTENDS WorkQueueRts, FiniteSetTheorems, SequenceTheorems, TLAPS

USE DEF Threads, ConsumerPC, ProducerPC, ring

-----------------------------------------------------------------------------
(* Arithmetic of the ring.                                                 *)

\* The remainder of a number below twice the divisor.
LEMMA ModBelowTwice ==
  ASSUME NEW M \in Nat, M > 0, NEW a \in Nat, a < 2 * M
  PROVE  a % M = IF a < M THEN a ELSE a - M
<1>1. CASE a < M
  BY <1>1
<1>2. CASE M <= a
  BY <1>2
<1> QED
  BY <1>1, <1>2

\* The slot of the k-th byte when the next slot to pop is i.
LEMMA SlotValue ==
  ASSUME NEW i \in 0 .. MAX_ITEMS
  PROVE  \A k \in 0 .. MAX_ITEMS :
           (i + k) % MAX_ITEMS =
             IF i + k < MAX_ITEMS THEN i + k
             ELSE IF i + k < 2 * MAX_ITEMS THEN i + k - MAX_ITEMS ELSE 0
<1> SUFFICES ASSUME NEW k \in 0 .. MAX_ITEMS
             PROVE  (i + k) % MAX_ITEMS =
                      IF i + k < MAX_ITEMS THEN i + k
                      ELSE IF i + k < 2 * MAX_ITEMS THEN i + k - MAX_ITEMS ELSE 0
  OBVIOUS
<1>1. MAX_ITEMS \in Nat /\ MAX_ITEMS > 0
  BY WorkQueueAssumption
<1>2. CASE i + k < 2 * MAX_ITEMS
  <2>1. i + k \in Nat
    BY <1>1
  <2> QED
    BY <1>1, <1>2, <2>1, ModBelowTwice
<1>3. CASE i + k = 2 * MAX_ITEMS
  <2>1. (2 * MAX_ITEMS) % MAX_ITEMS = 0
    BY <1>1
  <2> QED
    BY <1>1, <1>3, <2>1
<1> QED
  BY <1>1, <1>2, <1>3

\* The slot after the k-th one, wrapped, is the (k + 1)-th.
LEMMA NextSlot ==
  ASSUME NEW i \in 0 .. MAX_ITEMS, NEW k \in 0 .. MAX_ITEMS - 1
  PROVE  Wrap(((i + k) % MAX_ITEMS) + 1) = (i + (k + 1)) % MAX_ITEMS
<1>1. MAX_ITEMS \in Nat /\ MAX_ITEMS > 1
  BY WorkQueueAssumption
<1>2. k \in 0 .. MAX_ITEMS /\ k + 1 \in 0 .. MAX_ITEMS
  BY <1>1
<1>3. (i + k) % MAX_ITEMS = IF i + k < MAX_ITEMS THEN i + k ELSE i + k - MAX_ITEMS
  <2>1. i + k < 2 * MAX_ITEMS
    BY <1>1
  <2> QED
    BY <1>1, <1>2, <2>1, SlotValue
<1>4. (i + (k + 1)) % MAX_ITEMS =
        IF i + (k + 1) < MAX_ITEMS THEN i + (k + 1)
        ELSE IF i + (k + 1) < 2 * MAX_ITEMS THEN i + (k + 1) - MAX_ITEMS ELSE 0
  BY <1>2, SlotValue
<1> QED
  BY <1>1, <1>3, <1>4 DEF Wrap

-----------------------------------------------------------------------------
(* Type correctness.                                                       *)

LEMMA InitType == Init => TypeOK
  BY WorkQueueAssumption DEF Init, TypeOK

LEMMA NextType == TypeOK /\ [Next]_vars => TypeOK'
<1> SUFFICES ASSUME TypeOK, [Next]_vars
             PROVE  TypeOK'
  OBVIOUS
<1> USE WorkQueueAssumption
<1>1. ASSUME NEW t \in Threads, main_create(t)
      PROVE  TypeOK'
  BY <1>1 DEF TypeOK, main_create, Goto
<1>2. CASE main_create_fails
  BY <1>2 DEF TypeOK, main_create_fails
<1>3. CASE tfunc_a_read
  BY <1>3 DEF TypeOK, tfunc_a_read, Goto
<1>4. CASE tfunc_a_exit
  BY <1>4 DEF TypeOK, tfunc_a_exit
<1>5. CASE push_item_lock
  <2>1. FirstSlot \in 0 .. MAX_ITEMS
    BY SlotValue DEF TypeOK, FirstSlot
  <2> QED
    BY <1>5, <2>1 DEF TypeOK, push_item_lock, Goto, Lock
<1>6. CASE push_item_store
  BY <1>6 DEF TypeOK, push_item_store, Goto, Wrap
<1>7. CASE push_item_return
  BY <1>7 DEF TypeOK, push_item_return, Goto, Unlock
<1>8. CASE tfunc_a_broadcast
  BY <1>8 DEF TypeOK, tfunc_a_broadcast, Waiting
<1>9. ASSUME NEW c \in Consumers, pop_item_lock(c)
      PROVE  TypeOK'
  BY <1>9 DEF TypeOK, pop_item_lock, Goto, Lock
<1>10. ASSUME NEW c \in Consumers, pop_item_take(c)
       PROVE  TypeOK'
  BY <1>10 DEF TypeOK, pop_item_take, Goto, Wrap
<1>11. ASSUME NEW c \in Consumers, pop_item_wait(c)
       PROVE  TypeOK'
  BY <1>11 DEF TypeOK, pop_item_wait, Goto, Unlock
<1>12. ASSUME NEW c \in Consumers, pop_item_unlock(c)
       PROVE  TypeOK'
  BY <1>12 DEF TypeOK, pop_item_unlock, Goto, Unlock
<1>13. ASSUME NEW c \in Consumers, spurious_wakeup(c)
       PROVE  TypeOK'
  BY <1>13 DEF TypeOK, spurious_wakeup, Goto
<1>14. ASSUME NEW c \in Consumers, process_job(c)
       PROVE  TypeOK'
  BY <1>14 DEF TypeOK, process_job, Goto
<1>15. CASE UNCHANGED vars
  BY <1>15 DEF TypeOK, vars
<1> QED
  BY <1>1, <1>2, <1>3, <1>4, <1>5, <1>6, <1>7, <1>8, <1>9, <1>10, <1>11,
     <1>12, <1>13, <1>14, <1>15
  DEF Next, ProducerStep, PopStep, Exited

\* Every index push_item and pop_item use lies inside wq->item, whatever the
\* size of the ring and however the threads interleave.
THEOREM TypeCorrect == Spec => []TypeOK
<1> QED
  BY InitType, NextType, PTL DEF Spec

-----------------------------------------------------------------------------
(* The critical section.                                                   *)

LEMMA NextMutex == TypeOK /\ MutexInv /\ [Next]_vars => MutexInv'
<1> SUFFICES ASSUME TypeOK, MutexInv, [Next]_vars
             PROVE  MutexInv'
  OBVIOUS
<1> USE WorkQueueAssumption DEF TypeOK, MutexInv, InRing
<1>1. ASSUME NEW t \in Threads, main_create(t)
      PROVE  MutexInv'
  BY <1>1 DEF main_create, Goto
<1>2. CASE main_create_fails
  BY <1>2 DEF main_create_fails
<1>3. CASE tfunc_a_read
  BY <1>3 DEF tfunc_a_read, Goto
<1>4. CASE tfunc_a_exit
  BY <1>4 DEF tfunc_a_exit
<1>5. CASE push_item_lock
  BY <1>5 DEF push_item_lock, Goto, Lock
<1>6. CASE push_item_store
  BY <1>6 DEF push_item_store, Goto
<1>7. CASE push_item_return
  BY <1>7 DEF push_item_return, Goto, Unlock
<1>8. CASE tfunc_a_broadcast
  BY <1>8 DEF tfunc_a_broadcast, Waiting
<1>9. ASSUME NEW c \in Consumers, pop_item_lock(c)
      PROVE  MutexInv'
  BY <1>9 DEF pop_item_lock, Goto, Lock
<1>10. ASSUME NEW c \in Consumers, pop_item_take(c)
       PROVE  MutexInv'
  BY <1>10 DEF pop_item_take, Goto
<1>11. ASSUME NEW c \in Consumers, pop_item_wait(c)
       PROVE  MutexInv'
  BY <1>11 DEF pop_item_wait, Goto, Unlock
<1>12. ASSUME NEW c \in Consumers, pop_item_unlock(c)
       PROVE  MutexInv'
  BY <1>12 DEF pop_item_unlock, Goto, Unlock
<1>13. ASSUME NEW c \in Consumers, spurious_wakeup(c)
       PROVE  MutexInv'
  BY <1>13 DEF spurious_wakeup, Goto
<1>14. ASSUME NEW c \in Consumers, process_job(c)
       PROVE  MutexInv'
  BY <1>14 DEF process_job, Goto
<1>15. CASE UNCHANGED vars
  BY <1>15 DEF vars
<1> QED
  BY <1>1, <1>2, <1>3, <1>4, <1>5, <1>6, <1>7, <1>8, <1>9, <1>10, <1>11,
     <1>12, <1>13, <1>14, <1>15
  DEF Next, ProducerStep, PopStep, Exited

\* push_item and pop_item are mutually exclusive: whoever is between its lock
\* and its unlock owns wq->mutex, also after pthread_cond_wait() returns.
THEOREM MutexCorrect == Spec => []MutexInv
<1>1. Init => MutexInv
  BY WorkQueueAssumption DEF Init, MutexInv, InRing
<1> QED
  BY <1>1, NextMutex, TypeCorrect, PTL DEF Spec

-----------------------------------------------------------------------------
(* What push_item and tfunc_a keep while they run.  push_item's j can only *)
(* be kept right because idx and cnt stand still under the mutex.          *)

\* buf is used up outside of push_item.
BufUsedUp == pc[Producer] \in {"unborn", "read", "broadcast"} => left = 0

PushInv == PushSlotInv /\ BufUsedUp /\ NoLostWakeup

LEMMA NextPush == TypeOK /\ MutexInv /\ PushInv /\ [Next]_vars => PushInv'
<1> SUFFICES ASSUME TypeOK, MutexInv, PushInv, [Next]_vars
             PROVE  PushInv'
  OBVIOUS
<1> USE WorkQueueAssumption DEF PushInv, PushSlotInv, BufUsedUp, NoLostWakeup, Slot
<1>1. ASSUME NEW t \in Threads, main_create(t)
      PROVE  PushInv'
  BY <1>1 DEF TypeOK, main_create, Goto, Wrap
<1>2. CASE main_create_fails
  BY <1>2 DEF main_create_fails, Wrap
<1>3. CASE tfunc_a_read
  BY <1>3 DEF TypeOK, tfunc_a_read, Goto
<1>4. CASE tfunc_a_exit
  BY <1>4 DEF tfunc_a_exit, Wrap
<1>5. CASE push_item_lock
  <2>1. Wrap(FirstSlot) = FirstSlot
    BY SlotValue DEF TypeOK, FirstSlot, Wrap
  <2> QED
    BY <1>5, <2>1 DEF TypeOK, push_item_lock, Goto, FirstSlot, Wrap
<1>6. CASE push_item_store
  <2>1. PushSlotInv'
    <3>1. Wrap(j) = (idx + cnt) % MAX_ITEMS /\ cnt \in 0 .. MAX_ITEMS - 1
      BY <1>6 DEF TypeOK, push_item_store, Goto
    <3>2. Wrap(Wrap(j) + 1) = (idx + (cnt + 1)) % MAX_ITEMS
      BY <3>1, NextSlot DEF TypeOK
    <3> QED
      BY <1>6, <3>2 DEF push_item_store, Wrap
  <2> QED
    BY <1>6, <2>1 DEF TypeOK, push_item_store, Goto
<1>7. CASE push_item_return
  BY <1>7 DEF TypeOK, push_item_return, Goto
<1>8. CASE tfunc_a_broadcast
  BY <1>8 DEF TypeOK, tfunc_a_broadcast, Waiting, Woken
<1>9. ASSUME NEW c \in Consumers, pop_item_lock(c)
      PROVE  PushInv'
  BY <1>9 DEF TypeOK, pop_item_lock, Goto, Wrap
<1>10. ASSUME NEW c \in Consumers, pop_item_take(c)
       PROVE  PushInv'
  <2>1. pc[Producer] # "push"
    BY <1>10 DEF TypeOK, MutexInv, InRing, pop_item_take, Goto
  <2> QED
    BY <1>10, <2>1 DEF TypeOK, pop_item_take, Goto
<1>11. ASSUME NEW c \in Consumers, pop_item_wait(c)
       PROVE  PushInv'
  BY <1>11 DEF TypeOK, pop_item_wait, Goto, Wrap
<1>12. ASSUME NEW c \in Consumers, pop_item_unlock(c)
       PROVE  PushInv'
  BY <1>12 DEF TypeOK, pop_item_unlock, Goto, Wrap
<1>13. ASSUME NEW c \in Consumers, spurious_wakeup(c)
       PROVE  PushInv'
  BY <1>13 DEF TypeOK, spurious_wakeup, Goto, Wrap
<1>14. ASSUME NEW c \in Consumers, process_job(c)
       PROVE  PushInv'
  BY <1>14 DEF TypeOK, process_job, Goto, Wrap
<1>15. CASE UNCHANGED vars
  BY <1>15 DEF vars, Wrap
<1> QED
  BY <1>1, <1>2, <1>3, <1>4, <1>5, <1>6, <1>7, <1>8, <1>9, <1>10, <1>11,
     <1>12, <1>13, <1>14, <1>15
  DEF Next, ProducerStep, PopStep, Exited

LEMMA PushCorrect == Spec => []PushInv
<1>1. Init => PushInv
  BY WorkQueueAssumption
  DEF Init, PushInv, PushSlotInv, BufUsedUp, NoLostWakeup
<1> QED
  BY <1>1, NextPush, TypeCorrect, MutexCorrect, PTL DEF Spec

\* push_item always stores into the first free slot of the ring.
THEOREM PushSlotCorrect == Spec => []PushSlotInv
<1>1. PushInv => PushSlotInv
  BY DEF PushInv
<1> QED
  BY <1>1, PushCorrect, PTL

\* No consumer sleeps beside a non-empty queue unless the broadcast that will
\* wake it is still to come.
THEOREM NoLostWakeupCorrect == Spec => []NoLostWakeup
<1>1. PushInv => NoLostWakeup
  BY DEF PushInv
<1> QED
  BY <1>1, PushCorrect, PTL

-----------------------------------------------------------------------------
(* The ring as a sequence.                                                 *)

\* Different bytes of the ring are in different slots.
LEMMA SlotDistinct ==
  ASSUME NEW i \in 0 .. MAX_ITEMS,
         NEW k \in 0 .. MAX_ITEMS - 1, NEW l \in 0 .. MAX_ITEMS - 1, k < l
  PROVE  /\ (i + k) % MAX_ITEMS # (i + l) % MAX_ITEMS
         /\ (i + k) % MAX_ITEMS \in 0 .. MAX_ITEMS - 1
         /\ (i + l) % MAX_ITEMS \in 0 .. MAX_ITEMS - 1
<1>1. MAX_ITEMS \in Nat /\ MAX_ITEMS > 1
  BY WorkQueueAssumption
<1>2. k \in 0 .. MAX_ITEMS /\ l \in 0 .. MAX_ITEMS
  BY <1>1
<1>3. /\ (i + k) % MAX_ITEMS =
           IF i + k < MAX_ITEMS THEN i + k
           ELSE IF i + k < 2 * MAX_ITEMS THEN i + k - MAX_ITEMS ELSE 0
      /\ (i + l) % MAX_ITEMS =
           IF i + l < MAX_ITEMS THEN i + l
           ELSE IF i + l < 2 * MAX_ITEMS THEN i + l - MAX_ITEMS ELSE 0
  BY <1>2, SlotValue
<1> QED
  BY <1>1, <1>3

\* After pop_item wraps and advances idx, each byte is one place nearer.
LEMMA SlotShift ==
  ASSUME NEW i \in 0 .. MAX_ITEMS, NEW k \in 1 .. MAX_ITEMS - 1
  PROVE  (Wrap(i) + 1 + (k - 1)) % MAX_ITEMS = (i + k) % MAX_ITEMS
<1>1. MAX_ITEMS \in Nat /\ MAX_ITEMS > 1
  BY WorkQueueAssumption
<1>2. CASE i = MAX_ITEMS
  <2>1. Wrap(i) + 1 + (k - 1) = k
    BY <1>1, <1>2 DEF Wrap
  <2>2. k % MAX_ITEMS = k
    BY <1>1, ModBelowTwice
  <2>3. (i + k) % MAX_ITEMS = k
    <3>1. i + k \in Nat /\ i + k < 2 * MAX_ITEMS /\ i + k - MAX_ITEMS = k
      BY <1>1, <1>2
    <3> QED
      BY <1>1, <3>1, ModBelowTwice
  <2> QED
    BY <2>1, <2>2, <2>3
<1>3. CASE i # MAX_ITEMS
  <2>1. Wrap(i) + 1 + (k - 1) = i + k
    BY <1>1, <1>3 DEF Wrap
  <2> QED
    BY <2>1
<1> QED
  BY <1>2, <1>3

LEMMA ContentsType == TypeOK => Contents \in Seq(0 .. StreamLen) /\ Len(Contents) = cnt
<1> SUFFICES ASSUME TypeOK
             PROVE  Contents \in Seq(0 .. StreamLen) /\ Len(Contents) = cnt
  OBVIOUS
<1>1. ASSUME NEW k \in 1 .. cnt
      PROVE  item[Slot(k - 1)] \in 0 .. StreamLen
  <2>1. MAX_ITEMS \in Nat /\ MAX_ITEMS > 1
    BY WorkQueueAssumption
  <2>2. k - 1 \in 0 .. MAX_ITEMS /\ idx + (k - 1) < 2 * MAX_ITEMS
    BY <2>1 DEF TypeOK
  <2>3. Slot(k - 1) \in 0 .. MAX_ITEMS - 1
    BY <2>1, <2>2, SlotValue DEF TypeOK, Slot
  <2> QED
    BY <2>3 DEF TypeOK
<1> QED
  BY <1>1 DEF TypeOK, Contents

LEMMA NextContentsType ==
  TypeOK' => Contents' \in Seq(0 .. StreamLen) /\ Len(Contents') = cnt'
<1>1. (TypeOK => Contents \in Seq(0 .. StreamLen) /\ Len(Contents) = cnt)'
  BY ContentsType, PTL
<1> QED
  BY <1>1

\* A store appends the next byte of the stream.
LEMMA StoreAppends ==
  ASSUME TypeOK, TypeOK', PushSlotInv, push_item_store
  PROVE  Contents' = Append(Contents, sent - left + 1)
<1> DEFINE e == sent - left + 1
<1>1. MAX_ITEMS \in Nat /\ MAX_ITEMS > 1
  BY WorkQueueAssumption
<1>2. /\ idx \in 0 .. MAX_ITEMS /\ cnt \in 0 .. MAX_ITEMS - 1
      /\ Wrap(j) = (idx + cnt) % MAX_ITEMS
      /\ idx' = idx /\ cnt' = cnt + 1
      /\ item' = [item EXCEPT ![(idx + cnt) % MAX_ITEMS] = e]
      /\ item \in [0 .. MAX_ITEMS - 1 -> 0 .. StreamLen]
  <2>1. Wrap(j) = (idx + cnt) % MAX_ITEMS
    BY DEF PushSlotInv, push_item_store, Goto, Slot
  <2>2. item' = [item EXCEPT ![(idx + cnt) % MAX_ITEMS] = e]
    BY <2>1 DEF push_item_store
  <2> QED
    BY <1>1, <2>1, <2>2 DEF TypeOK, push_item_store
<1>3. ASSUME NEW k \in 1 .. cnt
      PROVE  Contents'[k] = Contents[k]
  <2>1. k - 1 \in 0 .. MAX_ITEMS - 1 /\ k - 1 < cnt
    BY <1>1, <1>2
  <2>2. /\ (idx + (k - 1)) % MAX_ITEMS # (idx + cnt) % MAX_ITEMS
        /\ (idx + (k - 1)) % MAX_ITEMS \in 0 .. MAX_ITEMS - 1
    BY <1>2, <2>1, SlotDistinct
  <2>3. item'[(idx + (k - 1)) % MAX_ITEMS] = item[(idx + (k - 1)) % MAX_ITEMS]
    BY <1>2, <2>2
  <2>4. k \in 1 .. cnt'
    BY <1>2
  <2> QED
    BY <1>2, <2>3, <2>4 DEF Contents, Slot
<1>4. Contents'[cnt + 1] = e
  <2>1. (idx + cnt) % MAX_ITEMS \in 0 .. MAX_ITEMS - 1
    <3>1. cnt \in 0 .. MAX_ITEMS /\ idx + cnt < 2 * MAX_ITEMS
      BY <1>1, <1>2
    <3> QED
      BY <1>1, <1>2, <3>1, SlotValue
  <2>2. cnt + 1 \in 1 .. cnt' /\ (cnt + 1) - 1 = cnt
    BY <1>2
  <2> QED
    BY <1>2, <2>1, <2>2 DEF Contents, Slot
<1>5. Contents \in Seq(0 .. StreamLen) /\ Len(Contents) = cnt
  BY ContentsType
<1>6. Contents' \in Seq(0 .. StreamLen) /\ Len(Contents') = cnt + 1
  BY <1>2, NextContentsType
<1>7. e \in 0 .. StreamLen
  BY WorkQueueAssumption DEF TypeOK, push_item_store
<1> HIDE DEF e
<1>8. /\ Append(Contents, e) \in Seq(0 .. StreamLen)
      /\ Len(Append(Contents, e)) = cnt + 1
      /\ \A k \in 1 .. cnt : Append(Contents, e)[k] = Contents[k]
      /\ Append(Contents, e)[cnt + 1] = e
  BY <1>5, <1>7, AppendProperties
<1>9. \A k \in 1 .. cnt + 1 : Contents'[k] = Append(Contents, e)[k]
  <2>1. \A k \in 1 .. cnt + 1 : k = cnt + 1 \/ k \in 1 .. cnt
    BY <1>2
  <2> QED
    BY <1>3, <1>4, <1>8, <2>1
<1>10. Contents' = Append(Contents, e)
  BY <1>6, <1>8, <1>9, SeqEqual
<1> QED
  BY <1>10 DEF e

\* A take removes the head and hands it to the consumer.
LEMMA TakeRemovesHead ==
  ASSUME TypeOK, TypeOK', NEW c \in Consumers, pop_item_take(c)
  PROVE  /\ Contents # << >>
         /\ Contents' = Tail(Contents)
         /\ got' = [got EXCEPT ![c] = Head(Contents)]
<1>1. MAX_ITEMS \in Nat /\ MAX_ITEMS > 1
  BY WorkQueueAssumption
<1>2. /\ idx \in 0 .. MAX_ITEMS /\ cnt \in 1 .. MAX_ITEMS
      /\ idx' = Wrap(idx) + 1 /\ cnt' = cnt - 1
      /\ item' = item
      /\ got' = [got EXCEPT ![c] = item[Wrap(idx)]]
  BY DEF TypeOK, pop_item_take, Goto
<1>3. Contents \in Seq(0 .. StreamLen) /\ Len(Contents) = cnt
  BY ContentsType
<1>4. ASSUME NEW k \in 1 .. cnt - 1
      PROVE  Contents'[k] = Contents[k + 1]
  <2>1. k \in 1 .. MAX_ITEMS - 1 /\ k \in 1 .. cnt' /\ k + 1 \in 1 .. cnt /\ (k + 1) - 1 = k
    BY <1>1, <1>2
  <2>2. (idx' + (k - 1)) % MAX_ITEMS = (idx + k) % MAX_ITEMS
    BY <1>2, <2>1, SlotShift
  <2> QED
    BY <1>2, <2>1, <2>2 DEF Contents, Slot
<1>5. Contents # << >>
  BY <1>2, <1>3, EmptySeq
<1>6. Contents' = Tail(Contents)
  <2>1. Contents' \in Seq(0 .. StreamLen) /\ Len(Contents') = cnt - 1
    BY <1>2, NextContentsType
  <2>2. /\ Tail(Contents) \in Seq(0 .. StreamLen)
        /\ Len(Tail(Contents)) = cnt - 1
        /\ \A k \in 1 .. cnt - 1 : Tail(Contents)[k] = Contents[k + 1]
    BY <1>3, <1>5, HeadTailProperties
  <2> QED
    BY <1>4, <2>1, <2>2, SeqEqual
<1>7. Head(Contents) = item[Wrap(idx)]
  <2>1. (idx + 0) % MAX_ITEMS = Wrap(idx)
    <3>1. idx + 0 = idx /\ idx \in Nat /\ idx < 2 * MAX_ITEMS
      BY <1>1, <1>2
    <3>2. idx % MAX_ITEMS = IF idx < MAX_ITEMS THEN idx ELSE idx - MAX_ITEMS
      BY <1>1, <3>1, ModBelowTwice
    <3> QED
      BY <1>1, <1>2, <3>1, <3>2 DEF Wrap
  <2>2. Contents[1] = item[(idx + 0) % MAX_ITEMS]
    BY <1>2 DEF Contents, Slot
  <2> QED
    BY <1>3, <2>1, <2>2
<1> QED
  BY <1>2, <1>5, <1>6, <1>7

-----------------------------------------------------------------------------
(* The ring implements the bounded FIFO.  push_item_store is its Accept,   *)
(* push_item_return its Refuse (when bytes of buf are left), pop_item_take *)
(* its Take; every other step leaves the FIFO alone.                       *)

LEMMA FifoInit == Init => Fifo!Init
<1> SUFFICES ASSUME Init
             PROVE  Fifo!Init
  OBVIOUS
<1>1. Contents \in Seq(0 .. StreamLen) /\ Len(Contents) = 0
  BY InitType, ContentsType DEF Init
<1>2. Contents = << >>
  BY <1>1, EmptySeq
<1> QED
  BY <1>2 DEF Init, Fifo!Init

LEMMA FifoNext ==
  TypeOK /\ TypeOK' /\ PushInv /\ [Next]_vars => [Fifo!Next]_(Fifo!vars)
<1> SUFFICES ASSUME TypeOK, TypeOK', PushInv, [Next]_vars
             PROVE  [Fifo!Next]_(Fifo!vars)
  OBVIOUS
<1>0. MAX_ITEMS \in Nat /\ sent \in Nat /\ left \in 0 .. sent /\ cnt \in 0 .. MAX_ITEMS
  BY WorkQueueAssumption DEF TypeOK
<1>1. Contents \in Seq(0 .. StreamLen) /\ Len(Contents) = cnt
  BY ContentsType
<1>2. ASSUME UNCHANGED ring, UNCHANGED got, sent' - left' = sent - left
      PROVE  UNCHANGED Fifo!vars
  BY <1>2 DEF Fifo!vars, Contents, Slot
<1>3. ASSUME NEW t \in Threads, main_create(t)
      PROVE  UNCHANGED Fifo!vars
  BY <1>2, <1>3 DEF main_create
<1>4. CASE main_create_fails
  BY <1>2, <1>4 DEF main_create_fails
<1>5. CASE tfunc_a_read
  <2>1. left = 0
    BY <1>5 DEF PushInv, BufUsedUp, tfunc_a_read, Goto
  <2>2. sent' - left' = sent - left
    BY <1>0, <1>5, <2>1, WorkQueueAssumption DEF tfunc_a_read
  <2> QED
    BY <1>2, <1>5, <2>2 DEF tfunc_a_read
<1>6. CASE tfunc_a_exit
  BY <1>2, <1>6 DEF tfunc_a_exit
<1>7. CASE push_item_lock
  BY <1>2, <1>7 DEF push_item_lock
<1>8. CASE push_item_store
  <2>1. Contents' = Append(Contents, sent - left + 1)
    BY <1>8, StoreAppends DEF PushInv
  <2>2. cnt < MAX_ITEMS /\ sent' - left' = sent - left + 1 /\ UNCHANGED got
    BY <1>0, <1>8 DEF push_item_store
  <2>3. Fifo!Accept
    BY <1>1, <2>1, <2>2 DEF Fifo!Accept
  <2> QED
    BY <2>3 DEF Fifo!Next
<1>9. CASE push_item_return
  <2>1. CASE left = 0
    BY <1>0, <1>2, <1>9, <2>1 DEF push_item_return
  <2>2. CASE left # 0
    <3>1. Len(Contents) = MAX_ITEMS
      BY <1>1, <1>9, <2>2 DEF push_item_return, PushStops
    <3>2. sent' - left' \in Nat /\ sent' - left' > sent - left
      BY <1>0, <1>9, <2>2 DEF push_item_return
    <3>3. UNCHANGED <<Contents, got>>
      BY <1>9 DEF push_item_return, Contents, Slot
    <3>4. Fifo!Refuse
      BY <3>1, <3>2, <3>3 DEF Fifo!Refuse
    <3> QED
      BY <3>4 DEF Fifo!Next
  <2> QED
    BY <2>1, <2>2
<1>10. CASE tfunc_a_broadcast
  BY <1>2, <1>10 DEF tfunc_a_broadcast
<1>11. ASSUME NEW c \in Consumers, pop_item_lock(c)
       PROVE  UNCHANGED Fifo!vars
  BY <1>2, <1>11 DEF pop_item_lock
<1>12. ASSUME NEW c \in Consumers, pop_item_take(c)
       PROVE  Fifo!Take(c)
  BY <1>12, TakeRemovesHead DEF Fifo!Take, pop_item_take
<1>13. ASSUME NEW c \in Consumers, pop_item_wait(c)
       PROVE  UNCHANGED Fifo!vars
  BY <1>2, <1>13 DEF pop_item_wait
<1>14. ASSUME NEW c \in Consumers, pop_item_unlock(c)
       PROVE  UNCHANGED Fifo!vars
  BY <1>2, <1>14 DEF pop_item_unlock
<1>15. ASSUME NEW c \in Consumers, spurious_wakeup(c)
       PROVE  UNCHANGED Fifo!vars
  BY <1>2, <1>15 DEF spurious_wakeup
<1>16. ASSUME NEW c \in Consumers, process_job(c)
       PROVE  UNCHANGED Fifo!vars
  BY <1>2, <1>16 DEF process_job
<1>17. CASE UNCHANGED vars
  BY <1>2, <1>17 DEF vars
<1> QED
  BY <1>3, <1>4, <1>5, <1>6, <1>7, <1>8, <1>9, <1>10, <1>11, <1>12, <1>13,
     <1>14, <1>15, <1>16, <1>17
  DEF Next, ProducerStep, PopStep, Exited, Fifo!Next

\* struct workqueue with push_item and pop_item is a bounded FIFO that refuses
\* bytes only when it is full, for any number of consumers.
THEOREM WorkQueueImplementsFifo == Spec => ImplementsFifo
<1> QED
  BY FifoInit, FifoNext, TypeCorrect, PushCorrect, PTL DEF Spec, ImplementsFifo, Fifo!Spec

-----------------------------------------------------------------------------
(* Delivery.  That bytes come out in order, each once, follows from the    *)
(* steps of the abstract FIFO alone.                                       *)

\* The queue q of a stream whose first o bytes were offered, and the bytes g
\* that the consumers took last.
Ordered(q, o, g) ==
  /\ \A k \in 1 .. Len(q) : q[k] \in 1 .. o
  /\ \A k, l \in 1 .. Len(q) : k < l => q[k] < q[l]
  /\ \A c \in Consumers, k \in 1 .. Len(q) : g[c] < q[k]
  /\ \A c, d \in Consumers : g[c] = g[d] /\ g[c] # 0 => c = d
  /\ \A c \in Consumers : g[c] <= o

LEMMA OrderedAccept ==
  ASSUME NEW q \in Seq(Nat), NEW o \in Nat, NEW g \in [Consumers -> Nat],
         Ordered(q, o, g)
  PROVE  Ordered(Append(q, o + 1), o + 1, g)
<1> DEFINE a == Append(q, o + 1)
<1>1. Len(q) \in Nat /\ o + 1 \in Nat
  OBVIOUS
<1>2. /\ Len(a) = Len(q) + 1
      /\ \A k \in 1 .. Len(q) : a[k] = q[k]
      /\ a[Len(q) + 1] = o + 1
  BY <1>1, AppendProperties
<1>3. \A k \in 1 .. Len(a) : k = Len(q) + 1 \/ k \in 1 .. Len(q)
  BY <1>1, <1>2
<1>4. \A k \in 1 .. Len(q) : q[k] \in Nat
  BY ElementOfSeq
<1> HIDE DEF a
<1>5. \A k \in 1 .. Len(a) : a[k] \in 1 .. o + 1
  BY <1>1, <1>2, <1>3 DEF Ordered
<1>6. \A k, l \in 1 .. Len(a) : k < l => a[k] < a[l]
  <2> SUFFICES ASSUME NEW k \in 1 .. Len(a), NEW l \in 1 .. Len(a), k < l
               PROVE  a[k] < a[l]
    OBVIOUS
  <2>1. k \in 1 .. Len(q)
    BY <1>1, <1>2
  <2>2. q[k] \in 1 .. o
    BY <2>1 DEF Ordered
  <2>3. CASE l = Len(q) + 1
    BY <1>2, <2>1, <2>2, <2>3
  <2>4. CASE l \in 1 .. Len(q)
    BY <1>2, <2>1, <2>4 DEF Ordered
  <2> QED
    BY <1>3, <2>3, <2>4
<1>7. \A c \in Consumers, k \in 1 .. Len(a) : g[c] < a[k]
  BY <1>2, <1>3 DEF Ordered
<1>8. \A c \in Consumers : g[c] <= o + 1
  BY DEF Ordered
<1>9. Ordered(a, o + 1, g)
  BY <1>5, <1>6, <1>7, <1>8 DEF Ordered
<1> QED
  BY <1>9 DEF a

LEMMA OrderedRefuse ==
  ASSUME NEW q \in Seq(Nat), NEW o \in Nat, NEW p \in Nat, p > o,
         NEW g \in [Consumers -> Nat], Ordered(q, o, g)
  PROVE  Ordered(q, p, g)
<1>1. \A k \in 1 .. Len(q) : q[k] \in 1 .. p
  BY DEF Ordered
<1> QED
  BY <1>1 DEF Ordered

LEMMA OrderedTake ==
  ASSUME NEW q \in Seq(Nat), q # << >>, NEW o \in Nat,
         NEW g \in [Consumers -> Nat], NEW b \in Consumers, Ordered(q, o, g)
  PROVE  Ordered(Tail(q), o, [g EXCEPT ![b] = Head(q)])
<1> DEFINE r == Tail(q)
           h == [g EXCEPT ![b] = Head(q)]
<1>1. Len(q) \in Nat /\ Len(q) > 0
  BY EmptySeq
<1>2. Len(r) = Len(q) - 1 /\ \A k \in 1 .. Len(r) : r[k] = q[k + 1]
  BY HeadTailProperties
<1>3. Head(q) = q[1] /\ 1 \in 1 .. Len(q) /\ \A k \in 1 .. Len(r) : k + 1 \in 1 .. Len(q)
  BY <1>1, <1>2
<1>4. \A c \in Consumers : h[c] = IF c = b THEN q[1] ELSE g[c]
  BY <1>3
<1> HIDE DEF r, h
<1>5. q[1] \in 1 .. o /\ \A c \in Consumers : g[c] < q[1]
  BY <1>3 DEF Ordered
<1>6. \A k \in 1 .. Len(r) : r[k] \in 1 .. o
  BY <1>2, <1>3 DEF Ordered
<1>7. \A k, l \in 1 .. Len(r) : k < l => r[k] < r[l]
  <2> SUFFICES ASSUME NEW k \in 1 .. Len(r), NEW l \in 1 .. Len(r), k < l
               PROVE  r[k] < r[l]
    OBVIOUS
  <2>1. k + 1 \in 1 .. Len(q) /\ l + 1 \in 1 .. Len(q) /\ k + 1 < l + 1
    BY <1>3
  <2>2. q[k + 1] < q[l + 1]
    BY <2>1 DEF Ordered
  <2> QED
    BY <1>2, <2>2
<1>8. \A c \in Consumers, k \in 1 .. Len(r) : h[c] < r[k]
  <2> SUFFICES ASSUME NEW c \in Consumers, NEW k \in 1 .. Len(r)
               PROVE  h[c] < r[k]
    OBVIOUS
  <2>1. k + 1 \in 1 .. Len(q) /\ 1 < k + 1
    BY <1>3
  <2>2. q[1] < q[k + 1] /\ g[c] < q[k + 1]
    BY <1>3, <2>1 DEF Ordered
  <2> QED
    BY <1>2, <1>4, <2>2
<1>9. \A c, d \in Consumers : h[c] = h[d] /\ h[c] # 0 => c = d
  <2>1. \A c \in Consumers : g[c] # q[1]
    BY <1>5
  <2> QED
    BY <1>4, <2>1 DEF Ordered
<1>10. \A c \in Consumers : h[c] <= o
  BY <1>4, <1>5 DEF Ordered
<1>11. Ordered(r, o, h)
  BY <1>6, <1>7, <1>8, <1>9, <1>10 DEF Ordered
<1> QED
  BY <1>11 DEF r, h

DeliveryInv == Ordered(Contents, sent - left, got)

LEMMA NextDelivery ==
  TypeOK /\ DeliveryInv /\ [Fifo!Next]_(Fifo!vars) => DeliveryInv'
<1> SUFFICES ASSUME TypeOK, DeliveryInv, [Fifo!Next]_(Fifo!vars)
             PROVE  Ordered(Contents', sent' - left', got')
  BY DEF DeliveryInv, Ordered
<1>1. sent - left \in Nat /\ got \in [Consumers -> Nat]
  BY WorkQueueAssumption DEF TypeOK
<1>2. Contents \in Seq(Nat)
  <2>1. 0 .. StreamLen \subseteq Nat
    BY WorkQueueAssumption
  <2> QED
    BY <2>1, ContentsType, SeqMonotonic
<1>3. Ordered(Contents, sent - left, got)
  BY DEF DeliveryInv
<1>4. CASE Fifo!Accept
  BY <1>1, <1>2, <1>3, <1>4, OrderedAccept DEF Fifo!Accept
<1>5. CASE Fifo!Refuse
  BY <1>1, <1>2, <1>3, <1>5, OrderedRefuse DEF Fifo!Refuse
<1>6. ASSUME NEW c \in Consumers, Fifo!Take(c)
      PROVE  Ordered(Contents', sent' - left', got')
  BY <1>1, <1>2, <1>3, <1>6, OrderedTake DEF Fifo!Take
<1>7. CASE UNCHANGED Fifo!vars
  BY <1>3, <1>7 DEF Fifo!vars
<1> QED
  BY <1>4, <1>5, <1>6, <1>7 DEF Fifo!Next

LEMMA DeliveryCorrect == Spec => []DeliveryInv
<1>1. Init => DeliveryInv
  <2> SUFFICES ASSUME Init
               PROVE  Ordered(Contents, sent - left, got)
    BY DEF DeliveryInv
  <2>1. Len(Contents) = 0
    BY InitType, ContentsType DEF Init
  <2> QED
    BY <2>1 DEF Init, Ordered
<1> QED
  BY <1>1, NextDelivery, FifoNext, TypeCorrect, PushCorrect, PTL DEF Spec

LEMMA DeliveryMeans == TypeOK /\ DeliveryInv => FifoOrder /\ NoDoubleDelivery
  BY ContentsType DEF DeliveryInv, Ordered, FifoOrder, NoDoubleDelivery

\* The ring holds the bytes in the order of the stream, all of them newer than
\* anything any consumer ever took.
THEOREM FifoOrderCorrect == Spec => []FifoOrder
<1> QED
  BY DeliveryMeans, DeliveryCorrect, TypeCorrect, PTL

\* No byte of the stream is handed to two consumers.
THEOREM NoDoubleDeliveryCorrect == Spec => []NoDoubleDelivery
<1> QED
  BY DeliveryMeans, DeliveryCorrect, TypeCorrect, PTL

-----------------------------------------------------------------------------
(* Chapter10/cond_var_rts.c.  Its queue is that of Chapter08, but one more *)
(* thread and a failing sigqueue() may end the process.                    *)

\* exit(), called by pr_crt.
Exits ==
  /\ alive' = FALSE
  /\ UNCHANGED <<item, idx, cnt, mutex, pc, got, sent, left, j>>

LEMMA RtsQueueStep == [RtsNext]_rtsVars => [Next]_vars \/ Exits
<1>1. \A t \in Threads : rts_create(t) => Next
  BY DEF rts_create, Next
<1>2. rts_create_sigthread \/ rts_created \/ SigthreadStep => UNCHANGED vars
  BY DEF rts_create_sigthread, rts_created, SigthreadStep, start_sigthread_wait,
         start_sigthread_report
<1>3. rts_create_fails => Exits
  BY DEF rts_create_fails, Exits
<1>4. rts_push_item \/ rts_tfunc_a => Next
  BY DEF rts_push_item, rts_tfunc_a, ProducerStep, Next
<1>5. \A c \in Consumers : rts_pop_item(c) \/ tfunc_b_job(c) => Next
  BY DEF rts_pop_item, tfunc_b_job, Next
<1>6. \A c \in Consumers : tfunc_b_notify_fails(c) => Exits
  BY DEF tfunc_b_notify_fails, Exits
<1>7. rts_exited \/ UNCHANGED rtsVars => UNCHANGED vars
  BY DEF rts_exited, rtsVars
<1>8. \A c \in Consumers : tfunc_b_notify(c) => UNCHANGED vars
  BY DEF tfunc_b_notify
<1> QED
  BY <1>1, <1>2, <1>3, <1>4, <1>5, <1>6, <1>7, <1>8 DEF RtsNext, NotifyStep

\* The queue's own invariants hold here too.
QueueInv == TypeOK /\ MutexInv /\ PushInv

LEMMA RtsQueueInv == QueueInv /\ [RtsNext]_rtsVars => QueueInv'
<1> SUFFICES ASSUME QueueInv, [RtsNext]_rtsVars
             PROVE  QueueInv'
  OBVIOUS
<1>1. CASE [Next]_vars
  BY <1>1, NextType, NextMutex, NextPush DEF QueueInv
<1>2. CASE Exits
  <2>1. TypeOK'
    BY <1>2 DEF QueueInv, TypeOK, Exits
  <2>2. MutexInv'
    BY <1>2 DEF QueueInv, MutexInv, InRing, Exits
  <2>3. PushInv'
    BY <1>2
    DEF QueueInv, PushInv, PushSlotInv, BufUsedUp, NoLostWakeup, Slot, Wrap, Exits
  <2> QED
    BY <2>1, <2>2, <2>3 DEF QueueInv
<1> QED
  BY <1>1, <1>2, RtsQueueStep

LEMMA RtsQueueCorrect == RtsSpec => []QueueInv
<1>1. RtsInit => QueueInv
  <2> SUFFICES ASSUME RtsInit
               PROVE  QueueInv
    OBVIOUS
  <2>1. Init
    BY DEF RtsInit
  <2>2. MutexInv /\ PushInv
    BY <2>1, WorkQueueAssumption
    DEF Init, MutexInv, InRing, PushInv, PushSlotInv, BufUsedUp, NoLostWakeup
  <2> QED
    BY <2>1, <2>2, InitType DEF QueueInv
<1> QED
  BY <1>1, RtsQueueInv, PTL DEF RtsSpec

\* The copy of the queue in cond_var_rts.c implements the same bounded FIFO.
THEOREM RtsImplementsFifo == RtsSpec => ImplementsFifo
<1>1. RtsInit => Fifo!Init
  BY FifoInit DEF RtsInit
<1>2. QueueInv /\ QueueInv' /\ [RtsNext]_rtsVars => [Fifo!Next]_(Fifo!vars)
  <2>1. Exits => UNCHANGED Fifo!vars
    BY DEF Exits, Fifo!vars, Contents, Slot
  <2> QED
    BY <2>1, RtsQueueStep, FifoNext DEF QueueInv
<1> QED
  BY <1>1, <1>2, RtsQueueCorrect, PTL DEF RtsSpec, ImplementsFifo, Fifo!Spec

-----------------------------------------------------------------------------
(* The notifications.                                                      *)

\* main waits for pthread_create() to store a tid before it goes on, and
\* creates the signal thread last; thd is set once a signal was taken.
TidInv ==
  /\ tids \subseteq Created
  /\ sigpc # "unborn" => Threads \subseteq tids
  /\ sigpc = "report" => thd \in Consumers

NotifyInv ==
  \A c \in Consumers :
    jobs[c] = Times(c, Told) + (IF c \in notifying THEN 1 ELSE 0)

SigTyped ==
  /\ sigq \in Seq(Consumers) /\ Len(sigq) <= SigPending
  /\ sigpc \in {"unborn", "sigwait", "report"}
  /\ thd \in Consumers \cup {NoThread}
  /\ tids \subseteq Threads \cup {SigThread}
  /\ notifying \subseteq Consumers
  /\ jobs \in [Consumers -> Nat]
  /\ reports \in Seq(Consumers)

RtsInv == QueueInv /\ SigTyped /\ TidInv /\ NotifyInv

\* No thread is undone.
LEMMA NeverUnborn ==
  ASSUME TypeOK, [Next]_vars \/ Exits, NEW t \in Threads, pc[t] # "unborn"
  PROVE  pc'[t] # "unborn"
<1>1. \A u \in Threads, from, to \in (ConsumerPC \cup ProducerPC) \ {"unborn"} :
        Goto(u, from, to) => pc'[t] # "unborn"
  BY DEF TypeOK, Goto
<1>2. \A u \in Threads : main_create(u) => pc'[t] # "unborn"
  BY DEF TypeOK, main_create, Goto
<1>3. tfunc_a_broadcast => pc'[t] # "unborn"
  BY DEF TypeOK, tfunc_a_broadcast
<1>4. main_create_fails \/ tfunc_a_exit \/ Exited \/ Exits \/ UNCHANGED vars
        => pc'[t] # "unborn"
  BY DEF main_create_fails, tfunc_a_exit, Exited, Exits, vars
<1>5. tfunc_a_read \/ push_item_lock \/ push_item_store \/ push_item_return
        => pc'[t] # "unborn"
  BY <1>1 DEF tfunc_a_read, push_item_lock, push_item_store, push_item_return
<1>6. \A c \in Consumers :
        PopStep(c) \/ spurious_wakeup(c) \/ process_job(c) => pc'[t] # "unborn"
  BY <1>1
  DEF PopStep, pop_item_lock, pop_item_take, pop_item_wait, pop_item_unlock,
      spurious_wakeup, process_job
<1> QED
  BY <1>2, <1>3, <1>4, <1>5, <1>6 DEF Next, ProducerStep

LEMMA CreatedGrows ==
  ASSUME QueueInv, [RtsNext]_rtsVars, sigpc # "unborn" => sigpc' # "unborn"
  PROVE  Created \subseteq Created'
<1>1. \A t \in Threads : pc[t] # "unborn" => pc'[t] # "unborn"
  BY NeverUnborn, RtsQueueStep DEF QueueInv
<1> QED
  BY <1>1 DEF Created

\* A step that takes and prints no signal and finishes no job.
LEMMA NotifyFrame ==
  ASSUME RtsInv, [RtsNext]_rtsVars, UNCHANGED <<sigq, sigpc, thd, notifying, jobs, reports>>,
         tids' \in {tids, Created}, alive' # alive => alive' = FALSE
  PROVE  RtsInv'
<1>1. QueueInv'
  BY RtsQueueInv DEF RtsInv
<1>2. Created \subseteq Created' /\ Created \subseteq Threads \cup {SigThread}
  BY CreatedGrows DEF RtsInv, Created
<1>3. SigTyped'
  BY <1>2 DEF RtsInv, SigTyped
<1>4. TidInv'
  BY <1>2 DEF RtsInv, TidInv
<1>5. NotifyInv'
  BY DEF RtsInv, NotifyInv, Told, InHand
<1> QED
  BY <1>1, <1>3, <1>4, <1>5 DEF RtsInv

\* The signal thread starts when all the others' tids are stored.
LEMMA SigthreadStarts ==
  ASSUME RtsInv, rts_create_sigthread
  PROVE  RtsInv'
<1>1. /\ UNCHANGED <<vars, sigq, thd, tids, notifying, jobs, reports>>
      /\ sigpc = "unborn" /\ sigpc' = "sigwait" /\ Threads \subseteq tids
  BY DEF rts_create_sigthread, SigthreadTurn
<1>2. QueueInv'
  <2>1. [RtsNext]_rtsVars
    BY DEF RtsNext
  <2> QED
    BY <2>1, RtsQueueInv DEF RtsInv
<1>3. SigTyped'
  BY <1>1 DEF RtsInv, SigTyped
<1>4. TidInv'
  BY <1>1 DEF RtsInv, TidInv, Created, vars
<1>5. NotifyInv'
  BY <1>1 DEF RtsInv, NotifyInv, Told, InHand, vars
<1> QED
  BY <1>2, <1>3, <1>4, <1>5 DEF RtsInv

\* What was printed, what is in hand and what is queued, as one sequence.
LEMMA ToldType ==
  ASSUME SigTyped, TidInv
  PROVE  InHand \in Seq(Consumers) /\ Told \in Seq(Consumers)
<1>1. InHand \in Seq(Consumers)
  BY DEF SigTyped, TidInv, InHand
<1>2. reports \o InHand \in Seq(Consumers)
  BY <1>1, ConcatProperties DEF SigTyped
<1> QED
  BY <1>1, <1>2, ConcatProperties DEF Told, SigTyped

LEMMA AppendLast ==
  ASSUME NEW S, NEW s \in Seq(S), NEW t \in Seq(S), NEW e \in S
  PROVE  s \o Append(t, e) = Append(s \o t, e)
<1>1. <<e>> \in Seq(S) /\ s \o t \in Seq(S)
  BY ConcatProperties
<1>2. Append(t, e) = t \o <<e>> /\ Append(s \o t, e) = (s \o t) \o <<e>>
  BY <1>1, AppendIsConcat
<1> QED
  BY <1>1, <1>2, ConcatAssociative

LEMMA HeadFirst ==
  ASSUME NEW S, NEW s \in Seq(S), s # << >>
  PROVE  <<Head(s)>> \o Tail(s) = s
<1>1. /\ Head(s) \in S /\ Tail(s) \in Seq(S) /\ Len(Tail(s)) = Len(s) - 1
      /\ \A k \in 1 .. Len(s) - 1 : Tail(s)[k] = s[k + 1]
      /\ Len(s) \in Nat \ {0} /\ Head(s) = s[1]
  BY HeadTailProperties, EmptySeq
<1> DEFINE h == <<Head(s)>>
           t == Tail(s)
<1>2. h \in Seq(S) /\ Len(h) = 1 /\ h[1] = s[1]
  BY <1>1
<1> HIDE DEF h, t
<1>3. /\ h \o t \in Seq(S) /\ Len(h \o t) = Len(h) + Len(t)
      /\ \A k \in 1 .. Len(h) + Len(t) :
           (h \o t)[k] = IF k <= Len(h) THEN h[k] ELSE t[k - Len(h)]
  BY <1>1, <1>2, ConcatProperties DEF t
<1>4. Len(t) = Len(s) - 1 /\ \A k \in 1 .. Len(s) - 1 : t[k] = s[k + 1]
  BY <1>1 DEF t
<1>5. \A k \in 1 .. Len(s) : (h \o t)[k] = s[k]
  <2> SUFFICES ASSUME NEW k \in 1 .. Len(s)
               PROVE  (h \o t)[k] = s[k]
    OBVIOUS
  <2>1. CASE k = 1
    BY <1>1, <1>2, <1>3, <1>4, <2>1
  <2>2. CASE k # 1
    <3>1. k - 1 \in 1 .. Len(s) - 1 /\ (k - 1) + 1 = k /\ ~(k <= 1)
      BY <1>1, <2>2
    <3>2. t[k - 1] = s[k]
      BY <1>4, <3>1
    <3> QED
      BY <1>1, <1>2, <1>3, <1>4, <3>1, <3>2
  <2> QED
    BY <2>1, <2>2
<1>6. Len(h \o t) = Len(s)
  BY <1>1, <1>2, <1>3, <1>4
<1>7. h \o t = s
  BY <1>3, <1>5, <1>6, SeqEqual
<1> QED
  BY <1>7 DEF h, t

\* How often c occurs in a sequence that gets one element more.
LEMMA TimesAppend ==
  ASSUME NEW S, NEW s \in Seq(S), NEW e \in S, NEW c
  PROVE  /\ Times(c, s) \in Nat
         /\ Times(c, Append(s, e)) = Times(c, s) + (IF e = c THEN 1 ELSE 0)
<1> DEFINE n == Len(s)
           K == {k \in DOMAIN s : s[k] = c}
           L == {k \in DOMAIN Append(s, e) : Append(s, e)[k] = c}
<1>1. /\ n \in Nat /\ DOMAIN s = 1 .. n /\ DOMAIN Append(s, e) = 1 .. n + 1
      /\ \A k \in 1 .. n : Append(s, e)[k] = s[k]
      /\ Append(s, e)[n + 1] = e
  BY LenProperties, AppendProperties
<1>2. K \subseteq 1 .. n /\ n + 1 \notin K
  BY <1>1
<1>3. IsFiniteSet(K) /\ Cardinality(K) \in Nat
  <2>1. IsFiniteSet(1 .. n)
    BY <1>1, FS_Interval
  <2>2. K \subseteq 1 .. n
    BY <1>2
  <2> HIDE DEF K, n
  <2>3. IsFiniteSet(K)
    BY <2>1, <2>2, FS_Subset
  <2> QED
    BY <2>3, FS_CardinalityType
<1>4. L = IF e = c THEN K \cup {n + 1} ELSE K
  <2>1. \A k : k \in 1 .. n + 1 <=> k \in 1 .. n \/ k = n + 1
    BY <1>1
  <2>2. n + 1 \notin 1 .. n
    BY <1>1
  <2> HIDE DEF n
  <2> QED
    BY <1>1, <2>1, <2>2
<1>5. Cardinality(K \cup {n + 1}) = Cardinality(K) + 1
  <2> HIDE DEF K
  <2> QED
    BY <1>2, <1>3, FS_AddElement
<1>6. Times(c, s) = Cardinality(K) /\ Times(c, Append(s, e)) = Cardinality(L)
  BY DEF Times
<1> HIDE DEF K, L
<1> QED
  BY <1>3, <1>4, <1>5, <1>6

\* A job is finished, and its notification still to come.
LEMMA JobDone ==
  ASSUME RtsInv, NEW c \in Consumers, tfunc_b_job(c)
  PROVE  RtsInv'
<1>1. /\ c \notin notifying /\ notifying' = notifying \cup {c}
      /\ jobs' = [jobs EXCEPT ![c] = @ + 1]
      /\ UNCHANGED <<sigq, sigpc, thd, tids, reports>>
  BY DEF tfunc_b_job
<1>2. [RtsNext]_rtsVars
  BY DEF RtsNext
<1>3. QueueInv' /\ Created \subseteq Created'
  BY <1>1, <1>2, RtsQueueInv, CreatedGrows DEF RtsInv
<1>4. SigTyped'
  BY <1>1 DEF RtsInv, SigTyped
<1>5. TidInv'
  BY <1>1, <1>3 DEF RtsInv, TidInv
<1>6. Told' = Told /\ Told \in Seq(Consumers)
  BY <1>1, ToldType DEF RtsInv, Told, InHand
<1>7. NotifyInv'
  <2> SUFFICES ASSUME NEW d \in Consumers
               PROVE  jobs'[d] = Times(d, Told) + (IF d \in notifying' THEN 1 ELSE 0)
    BY <1>6 DEF NotifyInv
  <2>1. jobs[d] = Times(d, Told) + (IF d \in notifying THEN 1 ELSE 0)
    BY DEF RtsInv, NotifyInv
  <2>2. Times(d, Told) \in Nat
    BY <1>6, TimesAppend
  <2>3. jobs'[d] = IF d = c THEN jobs[d] + 1 ELSE jobs[d]
    BY <1>1 DEF RtsInv, SigTyped
  <2> QED
    BY <1>1, <2>1, <2>2, <2>3
<1> QED
  BY <1>3, <1>4, <1>5, <1>7 DEF RtsInv

LEMMA Notifies ==
  ASSUME RtsInv, NEW c \in Consumers, tfunc_b_notify(c)
  PROVE  RtsInv'
<1>1. /\ UNCHANGED vars /\ Len(sigq) < SigPending
      /\ c \in notifying /\ notifying' = notifying \ {c}
      /\ sigq' = Append(sigq, c)
      /\ UNCHANGED <<sigpc, thd, tids, jobs, reports>>
  BY DEF tfunc_b_notify, Queued
<1>2. [RtsNext]_rtsVars
  BY DEF RtsNext, NotifyStep
<1>3. QueueInv' /\ Created \subseteq Created'
  BY <1>1, <1>2, RtsQueueInv, CreatedGrows DEF RtsInv
<1>4. SigTyped'
  <2>1. sigq' \in Seq(Consumers) /\ Len(sigq') <= SigPending
    BY <1>1, WorkQueueRtsAssumption, AppendProperties DEF RtsInv, SigTyped
  <2> QED
    BY <1>1, <2>1 DEF RtsInv, SigTyped
<1>5. TidInv'
  BY <1>1, <1>3 DEF RtsInv, TidInv
<1>6. Told' = Append(Told, c) /\ Told \in Seq(Consumers)
  <2>1. InHand' = InHand /\ InHand \in Seq(Consumers) /\ Told \in Seq(Consumers)
    BY <1>1, ToldType DEF RtsInv, InHand
  <2>2. reports \o InHand \in Seq(Consumers)
    BY <2>1, ConcatProperties DEF RtsInv, SigTyped
  <2>3. (reports \o InHand) \o Append(sigq, c) = Append(Told, c)
    BY <2>2, AppendLast DEF RtsInv, SigTyped, Told
  <2> QED
    BY <1>1, <2>1, <2>3 DEF Told
<1>7. NotifyInv'
  <2> SUFFICES ASSUME NEW d \in Consumers
               PROVE  jobs[d] = Times(d, Append(Told, c))
                                  + (IF d \in notifying' THEN 1 ELSE 0)
    BY <1>1, <1>6 DEF NotifyInv
  <2>1. jobs[d] = Times(d, Told) + (IF d \in notifying THEN 1 ELSE 0)
    BY DEF RtsInv, NotifyInv
  <2>2. /\ Times(d, Told) \in Nat
        /\ Times(d, Append(Told, c)) = Times(d, Told) + (IF c = d THEN 1 ELSE 0)
    BY <1>6, TimesAppend
  <2> QED
    BY <1>1, <2>1, <2>2
<1> QED
  BY <1>3, <1>4, <1>5, <1>7 DEF RtsInv

LEMMA SigthreadWaits ==
  ASSUME RtsInv, start_sigthread_wait
  PROVE  RtsInv'
<1>1. /\ UNCHANGED <<vars, tids, notifying, jobs, reports>> /\ alive
      /\ sigpc = "sigwait" /\ sigpc' = "report" /\ sigq # << >>
      /\ thd' = Head(sigq) /\ sigq' = Tail(sigq)
  BY DEF start_sigthread_wait
<1>2. [RtsNext]_rtsVars
  BY DEF RtsNext, SigthreadStep
<1>3. QueueInv' /\ Created \subseteq Created'
  BY <1>1, <1>2, RtsQueueInv, CreatedGrows DEF RtsInv
<1>4. sigq \in Seq(Consumers) /\ reports \in Seq(Consumers) /\ Len(sigq) \in Nat
      /\ Len(sigq) <= SigPending
  BY LenProperties DEF RtsInv, SigTyped
<1>5. /\ thd' \in Consumers /\ sigq' \in Seq(Consumers) /\ Len(sigq') = Len(sigq) - 1
      /\ <<thd'>> \o sigq' = sigq
  BY <1>1, <1>4, HeadTailProperties, HeadFirst
<1>6. SigTyped'
  <2>1. Len(sigq') <= SigPending
    BY <1>4, <1>5, WorkQueueRtsAssumption
  <2> QED
    BY <1>1, <1>5, <2>1 DEF RtsInv, SigTyped
<1>7. TidInv'
  BY <1>1, <1>3, <1>5 DEF RtsInv, TidInv
<1>8. Told' = Told
  <2>1. Told = reports \o sigq
    BY <1>1, <1>4, ConcatEmptySeq DEF Told, InHand
  <2>2. Told' = (reports \o <<thd'>>) \o sigq'
    BY <1>1 DEF Told, InHand
  <2>3. <<thd'>> \in Seq(Consumers)
    BY <1>5
  <2>4. (reports \o <<thd'>>) \o sigq' = reports \o (<<thd'>> \o sigq')
    BY <1>4, <1>5, <2>3, ConcatAssociative
  <2> QED
    BY <1>5, <2>1, <2>2, <2>4
<1> QED
  BY <1>1, <1>3, <1>6, <1>7, <1>8 DEF RtsInv, NotifyInv

LEMMA SigthreadReports ==
  ASSUME RtsInv, start_sigthread_report
  PROVE  RtsInv'
<1>1. /\ UNCHANGED <<vars, sigq, thd, tids, notifying, jobs>> /\ alive
      /\ sigpc = "report" /\ sigpc' = "sigwait" /\ reports' = Append(reports, thd)
  BY DEF start_sigthread_report
<1>2. [RtsNext]_rtsVars
  BY DEF RtsNext, SigthreadStep
<1>3. QueueInv' /\ Created \subseteq Created'
  BY <1>1, <1>2, RtsQueueInv, CreatedGrows DEF RtsInv
<1>4. thd \in Consumers /\ reports \in Seq(Consumers) /\ sigq \in Seq(Consumers)
  BY <1>1 DEF RtsInv, TidInv, SigTyped
<1>5. reports' \in Seq(Consumers) /\ reports' = reports \o <<thd>>
  BY <1>1, <1>4, AppendProperties, AppendIsConcat
<1>6. SigTyped'
  BY <1>1, <1>5 DEF RtsInv, SigTyped
<1>7. TidInv'
  BY <1>1, <1>3 DEF RtsInv, TidInv
<1>8. Told' = Told
  <2>1. Told' = (reports' \o << >>) \o sigq
    BY <1>1 DEF Told, InHand
  <2>2. reports' \o << >> = reports'
    BY <1>5, ConcatEmptySeq
  <2>3. Told = (reports \o <<thd>>) \o sigq
    BY <1>1 DEF Told, InHand
  <2> QED
    BY <1>5, <2>1, <2>2, <2>3
<1> QED
  BY <1>1, <1>3, <1>6, <1>7, <1>8 DEF RtsInv, NotifyInv

LEMMA RtsStep == RtsInv /\ [RtsNext]_rtsVars => RtsInv'
<1> SUFFICES ASSUME RtsInv, [RtsNext]_rtsVars
             PROVE  RtsInv'
  OBVIOUS
<1>1. alive' = alive \/ alive' = FALSE
  BY RtsQueueStep, WorkQueueAssumption
  DEF Exits, Next, main_create, main_create_fails, tfunc_a_read, tfunc_a_exit,
      ProducerStep, push_item_lock, push_item_store, push_item_return,
      tfunc_a_broadcast, PopStep, pop_item_lock, pop_item_take, pop_item_wait,
      pop_item_unlock, spurious_wakeup, process_job, Exited, vars
<1>2. CASE \/ \E t \in Threads : rts_create(t)
           \/ rts_created \/ rts_create_fails \/ rts_push_item \/ rts_tfunc_a
           \/ \E c \in Consumers : rts_pop_item(c) \/ tfunc_b_notify_fails(c)
           \/ rts_exited \/ UNCHANGED rtsVars
  <2>1. UNCHANGED <<sigq, sigpc, thd, notifying, jobs, reports>> /\ tids' \in {tids, Created}
    BY <1>2
    DEF rts_create, rts_created, rts_create_fails, rts_push_item, rts_tfunc_a,
        rts_pop_item, tfunc_b_notify_fails, rts_exited, rtsVars, sigvars
  <2> QED
    BY <1>1, <2>1, NotifyFrame
<1>3. CASE rts_create_sigthread \/ SigthreadStep
  BY <1>3, SigthreadStarts, SigthreadWaits, SigthreadReports DEF SigthreadStep
<1>4. CASE \E c \in Consumers : tfunc_b_job(c) \/ tfunc_b_notify(c)
  BY <1>4, JobDone, Notifies
<1> QED
  BY <1>2, <1>3, <1>4 DEF RtsNext, NotifyStep

LEMMA RtsInvCorrect == RtsSpec => []RtsInv
<1>1. RtsInit => SigTyped /\ TidInv /\ NotifyInv
  <2> SUFFICES ASSUME RtsInit
               PROVE  SigTyped /\ TidInv /\ NotifyInv
    OBVIOUS
  <2>1. /\ sigq = << >> /\ reports = << >> /\ thd = NoThread
        /\ sigpc = "unborn" /\ tids = {} /\ notifying = {}
        /\ jobs = [c \in Consumers |-> 0]
    BY DEF RtsInit
  <2>2. << >> \in Seq(Consumers) /\ Len(<< >>) = 0
    BY EmptySeq
  <2>3. SigTyped
    BY <2>1, <2>2, WorkQueueRtsAssumption DEF SigTyped
  <2>4. TidInv
    BY <2>1 DEF TidInv
  <2>5. Told = << >>
    BY <2>1, <2>2, ConcatEmptySeq DEF Told, InHand
  <2>6. \A c \in Consumers : Times(c, << >>) = 0
    <3>1. \A c \in Consumers : {k \in DOMAIN << >> : << >>[k] = c} = {}
      OBVIOUS
    <3> QED
      BY <3>1, FS_EmptySet DEF Times
  <2>7. NotifyInv
    BY <2>1, <2>5, <2>6 DEF NotifyInv
  <2> QED
    BY <2>3, <2>4, <2>7
<1>2. RtsSpec => RtsInit /\ [][RtsNext]_rtsVars
  BY DEF RtsSpec
<1>3. QueueInv /\ SigTyped /\ TidInv /\ NotifyInv => RtsInv
  BY DEF RtsInv
<1> QED
  BY <1>1, <1>2, <1>3, RtsStep, RtsQueueCorrect, PTL

\* Notifications are neither lost nor merged nor invented, although jobs and
\* signals of different consumers interleave without a lock: each consumer's
\* finished jobs are its printed, held and queued notifications, and one more
\* while it is on its way through sigqueue().
THEOREM NotifiedOnceCorrect == RtsSpec => []NotifiedOnce
<1>1. RtsInv => NotifiedOnce
  BY DEF RtsInv, QueueInv, SigTyped, NotifyInv, NotifiedOnce, RtsTypeOK
<1> QED
  BY <1>1, RtsInvCorrect, PTL

\* start_sigthread prints thd->tid only after pthread_create() stored it.
THEOREM TidKnownCorrect == RtsSpec => []TidKnown
<1>1. RtsInv => TidKnown
  BY DEF RtsInv, TidInv, TidKnown
<1> QED
  BY <1>1, RtsInvCorrect, PTL

=============================================================================
