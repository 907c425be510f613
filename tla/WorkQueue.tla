----------------------------- MODULE WorkQueue -----------------------------
(***************************************************************************)
(* Chapter08/cond_var.c: one thread running tfunc_a reads a FIFO and       *)
(* pushes its bytes into the ring buffer *wq; several threads running      *)
(* tfunc_b pop bytes and process them.  The ring is guarded by wq->mutex   *)
(* and consumers sleep on wq->cv.  (Chapter10/cond_var_rts.c holds the     *)
(* same code; WorkQueueRts adds what is new there.)                        *)
(*                                                                         *)
(* A byte is represented by its position in the FIFO's stream, so that two *)
(* bytes are never confused.  A step is what a thread does between two     *)
(* points where another thread can notice it; a push is one step per       *)
(* iteration of its loop.                                                  *)
(***************************************************************************)
EXTENDS Integers, Sequences

CONSTANTS
  Producer,   \* the thread that runs tfunc_a
  Consumers,  \* the threads that run tfunc_b
  NoThread,   \* the owner of a free mutex
  MAX_ITEMS,  \* the slots of wq->item
  StreamLen   \* bound: how many bytes are ever written to the FIFO

ASSUME WorkQueueAssumption ==
  /\ MAX_ITEMS \in Nat /\ MAX_ITEMS > 1
  /\ StreamLen \in Nat
  /\ Producer \notin Consumers
  /\ NoThread \notin Consumers \cup {Producer}

Threads == Consumers \cup {Producer}

VARIABLES
  item, idx, cnt,  \* struct workqueue: the ring, the next slot to pop, the fill
  mutex,           \* the owner of wq->mutex
  pc,              \* where each thread is
  got,             \* the variable item of each tfunc_b (0: not set yet)
  sent,            \* bytes tfunc_a has read from the FIFO so far
  left,            \* bytes of its buf that push_item has not looked at yet
  j,               \* push_item's j
  alive            \* the process has not called exit()

ring == <<item, idx, cnt>>
vars == <<item, idx, cnt, mutex, pc, got, sent, left, j, alive>>

-----------------------------------------------------------------------------

ConsumerPC == {"unborn", "lock", "check", "wait", "unlock", "job"}
ProducerPC == {"unborn", "read", "lock", "push", "broadcast"}

\* One type invariant: every index the code uses stays inside wq->item or is
\* the one-past-the-end value that the code wraps before it uses it.
TypeOK ==
  /\ item \in [0 .. MAX_ITEMS - 1 -> 0 .. StreamLen]
  /\ idx \in 0 .. MAX_ITEMS
  /\ cnt \in 0 .. MAX_ITEMS
  /\ mutex \in Threads \cup {NoThread}
  /\ pc \in [Threads -> ConsumerPC \cup ProducerPC]
  /\ \A c \in Consumers : pc[c] \in ConsumerPC
  /\ pc[Producer] \in ProducerPC
  /\ got \in [Consumers -> 0 .. StreamLen]
  /\ sent \in 0 .. StreamLen
  /\ left \in 0 .. sent
  /\ j \in 0 .. MAX_ITEMS
  /\ alive \in BOOLEAN

\* main() up to the loop that creates the threads: calloc() zeroes *wq.
Init ==
  /\ item = [s \in 0 .. MAX_ITEMS - 1 |-> 0]
  /\ idx = 0 /\ cnt = 0
  /\ mutex = NoThread
  /\ pc = [t \in Threads |-> "unborn"]
  /\ got = [c \in Consumers |-> 0]
  /\ sent = 0 /\ left = 0 /\ j = 0
  /\ alive = TRUE

Goto(t, from, to) ==
  /\ alive
  /\ pc[t] = from
  /\ pc' = [pc EXCEPT ![t] = to]

Lock(t) == mutex = NoThread /\ mutex' = t

Unlock == mutex' = NoThread

-----------------------------------------------------------------------------
(* main: t_arg lists the producer first, then the consumers.               *)

main_create(t) ==
  /\ t # Producer => pc[Producer] # "unborn"
  /\ Goto(t, "unborn", IF t = Producer THEN "read" ELSE "lock")
  /\ UNCHANGED <<ring, mutex, got, sent, left, j, alive>>

\* pthread_create() failed: exit(EXIT_FAILURE).
main_create_fails ==
  /\ alive
  /\ \E t \in Threads : pc[t] = "unborn"
  /\ alive' = FALSE
  /\ UNCHANGED <<ring, mutex, pc, got, sent, left, j>>

-----------------------------------------------------------------------------
(* tfunc_a and push_item.                                                  *)

\* read() returns between 1 and sizeof(buf) = MAX_ITEMS / 2 bytes.
tfunc_a_read ==
  /\ Goto(Producer, "read", "lock")
  /\ \E n \in 1 .. MAX_ITEMS \div 2 :
       /\ sent + n <= StreamLen
       /\ sent' = sent + n
       /\ left' = n
  /\ UNCHANGED <<ring, mutex, got, j, alive>>

\* read() failed or found that every writer closed the FIFO: pr_crt exits the
\* process at once, whatever the queue still holds.
tfunc_a_exit ==
  /\ alive
  /\ pc[Producer] = "read"
  /\ alive' = FALSE
  /\ UNCHANGED <<ring, mutex, pc, got, sent, left, j>>

MutFirstSlot == idx + cnt

\* Where the push starts.
FirstSlot == (idx + cnt) % MAX_ITEMS

push_item_lock ==
  /\ Goto(Producer, "lock", "push")
  /\ Lock(Producer)
  /\ j' = FirstSlot
  /\ UNCHANGED <<ring, got, sent, left, alive>>

\* "if (x == MAX_ITEMS) x = 0", which both push_item and pop_item do.
Wrap(i) == IF i = MAX_ITEMS THEN 0 ELSE i

\* One iteration of the loop that stores a byte.
push_item_store ==
  /\ Goto(Producer, "push", "push")
  /\ left > 0 /\ cnt # MAX_ITEMS
  /\ item' = [item EXCEPT ![Wrap(j)] = sent - left + 1]
  /\ j' = Wrap(j) + 1
  /\ cnt' = cnt + 1
  /\ left' = left - 1
  /\ UNCHANGED <<idx, mutex, got, sent, alive>>

MutPushStops == left = 0 \/ cnt + 1 >= MAX_ITEMS

\* The loop ends when buf is used up or the queue is full.
PushStops == left = 0 \/ cnt = MAX_ITEMS

\* The caller ignores how many bytes went in: the rest of buf is lost.
push_item_return ==
  /\ Goto(Producer, "push", "broadcast")
  /\ PushStops
  /\ left' = 0
  /\ j' = 0
  /\ Unlock
  /\ UNCHANGED <<ring, got, sent, alive>>

Waiting == {c \in Consumers : pc[c] = "wait"}

MutWoken(S) == S = {} \/ \E c \in Waiting : S = {c}

\* Whom pthread_cond_broadcast() wakes: every waiter.
Woken(S) == S = Waiting

\* pthread_cond_broadcast(), called after the mutex was released.
tfunc_a_broadcast ==
  /\ alive
  /\ pc[Producer] = "broadcast"
  /\ \E S \in SUBSET Waiting :
       /\ Woken(S)
       /\ pc' = [t \in Threads |-> IF t \in S THEN "lock"
                                   ELSE IF t = Producer THEN "read" ELSE pc[t]]
  /\ UNCHANGED <<ring, mutex, got, sent, left, j, alive>>

-----------------------------------------------------------------------------
(* tfunc_b, pop_item and process_job.                                      *)

\* The mutex is taken on entry, and again when pthread_cond_wait() returns.
pop_item_lock(c) ==
  /\ Goto(c, "lock", "check")
  /\ Lock(c)
  /\ UNCHANGED <<ring, got, sent, left, j, alive>>

pop_item_take(c) ==
  /\ Goto(c, "check", "unlock")
  /\ cnt > 0
  /\ got' = [got EXCEPT ![c] = item[Wrap(idx)]]
  /\ idx' = Wrap(idx) + 1
  /\ cnt' = cnt - 1
  /\ UNCHANGED <<item, mutex, sent, left, j, alive>>

\* pthread_cond_wait() releases the mutex and starts to wait in one step.
pop_item_wait(c) ==
  /\ Goto(c, "check", "wait")
  /\ cnt = 0
  /\ Unlock
  /\ UNCHANGED <<ring, got, sent, left, j, alive>>

\* POSIX lets pthread_cond_wait() return without a broadcast.
spurious_wakeup(c) ==
  /\ Goto(c, "wait", "lock")
  /\ UNCHANGED <<ring, mutex, got, sent, left, j, alive>>

pop_item_unlock(c) ==
  /\ Goto(c, "unlock", "job")
  /\ Unlock
  /\ UNCHANGED <<ring, got, sent, left, j, alive>>

process_job(c) ==
  /\ Goto(c, "job", "lock")
  /\ UNCHANGED <<ring, mutex, got, sent, left, j, alive>>

-----------------------------------------------------------------------------

ProducerStep ==
  push_item_lock \/ push_item_store \/ push_item_return \/ tfunc_a_broadcast

PopStep(c) ==
  \/ pop_item_lock(c) \/ pop_item_take(c) \/ pop_item_wait(c)
  \/ pop_item_unlock(c)

\* After exit() nothing runs any more.
Exited == ~alive /\ UNCHANGED vars

Next ==
  \/ \E t \in Threads : main_create(t)
  \/ main_create_fails
  \/ tfunc_a_read \/ tfunc_a_exit \/ ProducerStep
  \/ \E c \in Consumers : PopStep(c) \/ spurious_wakeup(c) \/ process_job(c)
  \/ Exited

Spec == Init /\ [][Next]_vars

\* The scheduler runs every thread that can run.  Nothing is assumed of the
\* FIFO's writers, of spurious wake-ups or of who wins the mutex.
Fairness ==
  /\ \A t \in Threads : WF_vars(main_create(t))
  /\ WF_vars(ProducerStep)
  /\ \A c \in Consumers : WF_vars(PopStep(c) \/ process_job(c))

FairSpec == Spec /\ Fairness

-----------------------------------------------------------------------------

\* The bytes in the ring, oldest first.
Slot(k) == (idx + k) % MAX_ITEMS
Contents == [k \in 1 .. cnt |-> item[Slot(k - 1)]]

\* The threads inside push_item's or pop_item's critical section.
InRing(t) == pc[t] \in {"push", "check", "unlock"}

\* push_item and pop_item touch *wq only while they own wq->mutex, and the
\* mutex is owned by nobody else: this is what makes the steps of the two
\* functions on item, idx and cnt a critical section, also across the release
\* and re-acquisition inside pthread_cond_wait().
MutexInv == \A t \in Threads : InRing(t) <=> mutex = t

\* While push_item runs, its private j is the first free slot of the ring that
\* idx and cnt describe, although idx is wrapped lazily by pop_item and j by
\* push_item itself.
PushSlotInv == pc[Producer] = "push" => Wrap(j) = Slot(cnt)

\* No lost wake-up: a consumer sleeps on wq->cv beside a non-empty queue only
\* while tfunc_a still owes the broadcast it makes after releasing the mutex.
NoLostWakeup ==
  \A c \in Consumers :
    pc[c] = "wait" /\ cnt > 0 => pc[Producer] \in {"push", "broadcast"}

\* The ring holds bytes in the order of the stream, all older than what is
\* still to be pushed and all newer than anything a consumer ever took.
FifoOrder ==
  /\ \A k \in 1 .. cnt : Contents[k] \in 1 .. sent - left
  /\ \A k, l \in 1 .. cnt : k < l => Contents[k] < Contents[l]
  /\ \A c \in Consumers, k \in 1 .. cnt : got[c] < Contents[k]

\* No byte is handed to two consumers.
NoDoubleDelivery ==
  \A c, d \in Consumers : got[c] = got[d] /\ got[c] # 0 => c = d

\* The ring and its two functions implement a bounded FIFO.
Fifo == INSTANCE LossyFifo WITH
          Capacity <- MAX_ITEMS, queue <- Contents, offered <- sent - left

\* Every step of the threads is a step of that FIFO or none at all.
ImplementsFifo == Fifo!Spec

\* Every byte that got into the ring reaches process_job, unless the process
\* exits: the broadcast after the unlock, the waiters that re-check cnt and the
\* consumers that never wait while cnt > 0 leave no byte behind.
EveryByteProcessed ==
  \A b \in 1 .. StreamLen :
    (\E k \in 1 .. cnt : Contents[k] = b)
      ~> (~alive \/ \E c \in Consumers : pc[c] = "job" /\ got[c] = b)

=============================================================================
