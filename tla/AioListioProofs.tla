-------------------------- MODULE AioListioProofs --------------------------
(***************************************************************************)
(* Proofs about AioListio, for every number of control blocks and every    *)
(* length of the file.                                                     *)
(***************************************************************************)
EXTENDS AioListio, TLAPS

-----------------------------------------------------------------------------
(* The inductive invariant: which chunks are in their places, which are in *)
(* the buffers and which are under way, at each place where main may be.   *)

Settled(k) == out[k] = k \/ k \in failed

SettledUpTo(n) == \A k \in 1 .. n : Settled(k)

\* The first b buffers hold the b chunks read last, in order.
Filled(b) ==
  \A s \in Slots :
    s < b => rbuf[s] = tot_len - b + s + 1 /\ aio_blk[s] = tot_len - b + s + 1

BatchLen == IF ret THEN i ELSE i - 1

ReadInv ==
  pc = "read" =>
    /\ ret /\ AllDone /\ notify = "none"
    /\ i < NUM_AIOCB_ARRAY /\ i <= tot_len
    /\ Filled(i) /\ SettledUpTo(tot_len - i)

ListioInv ==
  pc = "listio" =>
    /\ AllDone /\ notify = "none"
    /\ i > 0 /\ BatchLen <= tot_len
    /\ Filled(BatchLen) /\ SettledUpTo(tot_len - BatchLen)

WaitInv ==
  pc = "wait" =>
    \A k \in 1 .. tot_len : Settled(k) \/ \E s \in Slots : flying[s] = k

DoneInv == pc = "done" => AllDone /\ SettledUpTo(len)

EndInv == ~ret => tot_len = len /\ pc # "read"

NotifyInv == notify = "barrier" => AllDone

FlyingInv ==
  \A s \in Slots :
    flying[s] # None =>
      rbuf[s] = flying[s] /\ aio_blk[s] = flying[s] /\ flying[s] <= tot_len

Behind == \A k \in len + 1 .. MaxLen : out[k] \in {Old, None}

IInv ==
  /\ TypeOK
  /\ ReadInv /\ ListioInv /\ WaitInv /\ DoneInv
  /\ EndInv /\ NotifyInv /\ FlyingInv /\ Behind

-----------------------------------------------------------------------------
(* It holds at the start, and every action preserves it.                   *)

USE DEF Slots, None, Old

\* The copy starts with empty buffers and nothing under way.
LEMMA InitInv == Init => IInv
<1> SUFFICES ASSUME Init
             PROVE  IInv
  OBVIOUS
<1>1. TypeOK
  BY AioListioAssumption DEF Init, TypeOK
<1>2. ReadInv /\ ListioInv /\ WaitInv /\ DoneInv
  BY AioListioAssumption
  DEF Init, ReadInv, ListioInv, WaitInv, DoneInv, AllDone, Filled, SettledUpTo
<1>3. EndInv /\ NotifyInv /\ FlyingInv /\ Behind
  BY AioListioAssumption DEF Init, EndInv, NotifyInv, FlyingInv, Behind
<1> QED
  BY <1>1, <1>2, <1>3 DEF IInv

\* One more chunk is in the buffers.
LEMMA ReadStep ==
  ASSUME IInv, main_read
  PROVE  IInv'
<1> USE AioListioAssumption DEF IInv
<1>1. /\ pc = "read" /\ tot_len < len /\ ret /\ AllDone /\ notify = "none"
      /\ i \in Nat /\ i < NUM_AIOCB_ARRAY /\ i <= tot_len
      /\ tot_len \in Nat /\ len \in Nat /\ len <= MaxLen
  BY DEF main_read, ReadInv, TypeOK
<1>2. /\ rbuf' = [rbuf EXCEPT ![i] = tot_len + 1]
      /\ aio_blk' = [aio_blk EXCEPT ![i] = tot_len + 1]
      /\ tot_len' = tot_len + 1 /\ i' = i + 1
      /\ out' = out /\ failed' = failed /\ flying' = flying
      /\ notify' = notify /\ len' = len /\ async' = async
      /\ pc' = IF i' = NUM_AIOCB_ARRAY THEN "listio" ELSE "read"
  BY DEF main_read
<1>3. ret' = ret
  BY DEF main_read
<1>4. TypeOK'
  <2>1. tot_len + 1 \in 0 .. len /\ tot_len + 1 \in 0 .. MaxLen
    BY <1>1
  <2>2. rbuf' \in [Slots -> 0 .. MaxLen]
    BY <1>2, <2>1 DEF TypeOK
  <2>6. aio_blk' \in [Slots -> 0 .. MaxLen + 1]
    <3>1. tot_len + 1 \in 0 .. MaxLen + 1
      BY <1>1
    <3> QED
      BY <1>2, <3>1 DEF TypeOK
  <2>3. async' \in BOOLEAN /\ ret' \in BOOLEAN
    BY <1>2, <1>3, Zenon DEF TypeOK
  <2>4. len' \in 0 .. MaxLen /\ tot_len' \in 0 .. len' /\ i' \in 0 .. NUM_AIOCB_ARRAY
    BY <1>1, <1>2, <2>1
  <2>5. pc' \in {"read", "listio", "wait", "done", "exited"}
    BY <1>2
  <2> QED
    BY <1>2, <2>2, <2>3, <2>4, <2>5, <2>6 DEF TypeOK
<1>5. Filled(i)'
  <2>1. i \in Slots
    BY <1>1
  <2> SUFFICES ASSUME NEW s \in Slots, s < i + 1
               PROVE  /\ rbuf'[s] = tot_len - i + s + 1
                      /\ aio_blk'[s] = tot_len - i + s + 1
    BY <1>1, <1>2 DEF Filled
  <2>2. CASE s = i
    BY <1>1, <1>2, <2>1, <2>2 DEF TypeOK
  <2>3. CASE s # i
    <3>1. s < i
      BY <1>1, <2>3
    <3>2. rbuf[s] = tot_len - i + s + 1 /\ aio_blk[s] = tot_len - i + s + 1
      BY <1>1, <3>1 DEF ReadInv, Filled
    <3> QED
      BY <1>2, <2>3, <3>2 DEF TypeOK
  <2> QED
    BY <2>2, <2>3
<1>6. tot_len' - i' = tot_len - i
  BY <1>1, <1>2
<1>7. SettledUpTo(tot_len - i)' /\ AllDone'
  BY <1>1, <1>2, <1>6 DEF SettledUpTo, Settled, AllDone, ReadInv
<1>8. ReadInv'
  BY <1>1, <1>2, <1>3, <1>5, <1>7 DEF ReadInv
<1>9. ListioInv'
  <2>1. BatchLen' = i'
    BY <1>1, <1>3 DEF BatchLen
  <2> QED
    BY <1>1, <1>2, <1>5, <1>7, <2>1 DEF ListioInv, Filled, SettledUpTo, Settled
<1>10. WaitInv' /\ DoneInv' /\ EndInv' /\ NotifyInv'
  BY <1>1, <1>2, <1>3 DEF WaitInv, DoneInv, EndInv, NotifyInv
<1>11. FlyingInv' /\ Behind'
  BY <1>1, <1>2 DEF FlyingInv, Behind, AllDone
<1> QED
  BY <1>4, <1>8, <1>9, <1>10, <1>11

\* The end of the file: the buffers stay as they are, and the control block
\* it takes is not part of the batch.
LEMMA ReadEndStep ==
  ASSUME IInv, main_read_end
  PROVE  IInv'
<1> USE AioListioAssumption DEF IInv
<1>1. /\ pc = "read" /\ tot_len = len /\ ret /\ AllDone /\ notify = "none"
      /\ i \in Nat /\ i < NUM_AIOCB_ARRAY /\ i <= tot_len
      /\ tot_len \in Nat /\ len \in Nat /\ len <= MaxLen
  BY DEF main_read_end, ReadInv, TypeOK
<1>2. /\ aio_blk' = [aio_blk EXCEPT ![i] = tot_len + 1]
      /\ rbuf' = rbuf /\ tot_len' = tot_len /\ i' = i + 1
      /\ out' = out /\ failed' = failed /\ flying' = flying
      /\ notify' = notify /\ len' = len /\ async' = async /\ pc' = "listio"
  BY DEF main_read_end
<1>3. ret' = FALSE
  BY DEF main_read_end
<1>4. TypeOK'
  <2>1. tot_len + 1 \in 0 .. MaxLen + 1
    BY <1>1
  <2>2. aio_blk' \in [Slots -> 0 .. MaxLen + 1]
    BY <1>1, <1>2, <2>1 DEF TypeOK
  <2>3. async' \in BOOLEAN /\ ret' \in BOOLEAN
    BY <1>2, <1>3, Zenon DEF TypeOK
  <2>4. i' \in 0 .. NUM_AIOCB_ARRAY
    BY <1>1, <1>2
  <2> QED
    BY <1>2, <2>2, <2>3, <2>4 DEF TypeOK
<1>5. BatchLen' = i
  BY <1>1, <1>2, <1>3 DEF BatchLen
<1>6. Filled(BatchLen)'
  <2> SUFFICES ASSUME NEW s \in Slots, s < i
               PROVE  /\ rbuf'[s] = tot_len - i + s + 1
                      /\ aio_blk'[s] = tot_len - i + s + 1
    BY <1>2, <1>5 DEF Filled
  <2>1. rbuf[s] = tot_len - i + s + 1 /\ aio_blk[s] = tot_len - i + s + 1
    BY <1>1 DEF ReadInv, Filled
  <2>2. s # i
    BY <1>1
  <2> QED
    BY <1>2, <2>1, <2>2 DEF TypeOK
<1>7. SettledUpTo(tot_len - BatchLen)' /\ AllDone'
  BY <1>1, <1>2, <1>5 DEF SettledUpTo, Settled, AllDone, ReadInv
<1>8. ListioInv'
  BY <1>1, <1>2, <1>5, <1>6, <1>7 DEF ListioInv
<1>9. ReadInv' /\ WaitInv' /\ DoneInv' /\ EndInv' /\ NotifyInv'
  BY <1>1, <1>2 DEF ReadInv, WaitInv, DoneInv, EndInv, NotifyInv
<1>10. FlyingInv' /\ Behind'
  BY <1>1, <1>2 DEF FlyingInv, Behind, AllDone
<1> QED
  BY <1>4, <1>8, <1>9, <1>10

\* The batch is handed over: each of its chunks is under way or refused.
LEMMA ListioStep ==
  ASSUME IInv, lio_listio
  PROVE  IInv'
<1> USE AioListioAssumption DEF IInv
<1>1. /\ pc = "listio" /\ AllDone /\ notify = "none"
      /\ BatchLen \in Nat /\ BatchLen <= NUM_AIOCB_ARRAY /\ BatchLen <= tot_len
      /\ Filled(BatchLen) /\ SettledUpTo(tot_len - BatchLen)
      /\ tot_len \in Nat /\ len \in Nat /\ tot_len <= len /\ len <= MaxLen
  BY DEF lio_listio, ListioInv, TypeOK, BatchLen
<1>2. Batch = 0 .. BatchLen - 1
  BY DEF Batch, BatchLen
<1>3. PICK taken \in SUBSET Batch :
        /\ flying' = [s \in Slots |-> IF s \in taken THEN aio_blk[s] ELSE None]
        /\ failed' = failed \cup {aio_blk[s] : s \in Batch \ taken}
  BY DEF lio_listio
<1>4. /\ pc' = "wait" /\ out' = out /\ rbuf' = rbuf /\ aio_blk' = aio_blk
      /\ tot_len' = tot_len /\ len' = len /\ i' = i
      /\ notify' \in {"none", "armed", "lost"}
  BY DEF lio_listio
<1>5. async' = async /\ ret' = ret
  BY DEF lio_listio
<1>6. \A s \in Batch :
        /\ s \in Slots
        /\ rbuf[s] = tot_len - BatchLen + s + 1
        /\ aio_blk[s] = tot_len - BatchLen + s + 1
        /\ aio_blk[s] \in 1 .. tot_len
  BY <1>1, <1>2 DEF Filled
<1>7. TypeOK'
  <2>1. \A s \in Batch : aio_blk[s] \in 0 .. MaxLen /\ aio_blk[s] \in 1 .. MaxLen
    BY <1>1, <1>6
  <2>2. flying' \in [Slots -> 0 .. MaxLen]
    BY <1>3, <2>1
  <2>3. failed' \subseteq 1 .. MaxLen
    BY <1>3, <2>1 DEF TypeOK
  <2>4. async' \in BOOLEAN /\ ret' \in BOOLEAN
    BY <1>5, Zenon DEF TypeOK
  <2> QED
    BY <1>4, <2>2, <2>3, <2>4 DEF TypeOK
<1>8. WaitInv'
  <2> SUFFICES ASSUME NEW k \in 1 .. tot_len
               PROVE  out'[k] = k \/ k \in failed' \/ \E s \in Slots : flying'[s] = k
    BY <1>4 DEF WaitInv, Settled
  <2>1. CASE k <= tot_len - BatchLen
    BY <1>1, <1>3, <1>4, <2>1 DEF SettledUpTo, Settled
  <2>2. CASE k > tot_len - BatchLen
    <3> DEFINE s == k - 1 - (tot_len - BatchLen)
    <3>1. s \in Batch /\ aio_blk[s] = k
      BY <1>1, <1>2, <1>6, <2>2
    <3>2. CASE s \in taken
      BY <1>3, <1>6, <3>1, <3>2
    <3>3. CASE s \notin taken
      BY <1>3, <3>1, <3>3
    <3> QED
      BY <3>2, <3>3
  <2> QED
    BY <1>1, <2>1, <2>2
<1>9. ReadInv' /\ ListioInv' /\ DoneInv' /\ NotifyInv' /\ Behind'
  BY <1>4 DEF ReadInv, ListioInv, DoneInv, NotifyInv, Behind
<1>10. EndInv'
  BY <1>4, <1>5 DEF EndInv
<1>11. FlyingInv'
  BY <1>1, <1>3, <1>4, <1>6 DEF FlyingInv
<1> QED
  BY <1>7, <1>8, <1>9, <1>10, <1>11

\* What is written is the chunk the request was made for, in its place.
LEMMA WriteStep ==
  ASSUME IInv, NEW s \in Slots, Write(s)
  PROVE  IInv'
<1> USE AioListioAssumption DEF IInv
<1>1. /\ async' = async /\ ret' = ret /\ len' = len /\ pc' = pc /\ i' = i
      /\ tot_len' = tot_len /\ rbuf' = rbuf /\ aio_blk' = aio_blk
      /\ notify' = notify
      /\ flying' = [flying EXCEPT ![s] = None]
  BY DEF Write
<1> PICK k : k = flying[s]
  OBVIOUS
<1>2. /\ k # None /\ rbuf[s] = k /\ aio_blk[s] = k /\ k \in 1 .. tot_len
      /\ k \in 1 .. MaxLen /\ k \in 1 .. len /\ ~AllDone
      /\ tot_len \in Nat /\ len \in Nat /\ tot_len <= len /\ len <= MaxLen
  BY DEF Write, FlyingInv, TypeOK, AllDone
<1>3. \/ out' = [out EXCEPT ![k] = k] /\ failed' = failed
      \/ out' = out /\ failed' = failed \cup {k}
  BY <1>2 DEF Write
<1>4. Settled(k)' /\ \A n \in 1 .. MaxLen : Settled(n) => Settled(n)'
  BY <1>2, <1>3 DEF Settled, TypeOK
<1>5. pc \in {"wait", "exited"}
  BY <1>2 DEF ReadInv, ListioInv, DoneInv, TypeOK
<1>6. TypeOK'
  <2>1. flying' \in [Slots -> 0 .. MaxLen]
    BY <1>1 DEF TypeOK
  <2>2. failed' \subseteq 1 .. MaxLen
    BY <1>2, <1>3 DEF TypeOK
  <2>3. k \in Old .. MaxLen
    BY <1>2
  <2>4. out' \in [1 .. MaxLen -> Old .. MaxLen]
    BY <1>3, <2>3 DEF TypeOK
  <2> QED
    BY <1>1, <2>1, <2>2, <2>4 DEF TypeOK
<1>7. WaitInv'
  <2> SUFFICES ASSUME pc = "wait", NEW n \in 1 .. tot_len
               PROVE  Settled(n)' \/ \E t \in Slots : flying'[t] = n
    BY <1>1 DEF WaitInv
  <2>1. CASE n = k
    BY <1>4, <2>1
  <2>2. CASE n # k
    <3>1. Settled(n) \/ \E t \in Slots : flying[t] = n
      BY DEF WaitInv
    <3>2. n \in 1 .. MaxLen
      BY <1>2
    <3> QED
      BY <1>1, <1>4, <2>2, <3>1, <3>2 DEF TypeOK
  <2> QED
    BY <2>1, <2>2
<1>8. ReadInv' /\ ListioInv' /\ DoneInv' /\ EndInv'
  BY <1>1, <1>5 DEF ReadInv, ListioInv, DoneInv, EndInv
<1>9. NotifyInv'
  BY <1>1, <1>2 DEF NotifyInv
<1>10. FlyingInv'
  BY <1>1 DEF FlyingInv, TypeOK
<1>11. Behind'
  <2> SUFFICES ASSUME NEW n \in len + 1 .. MaxLen
               PROVE  out'[n] = out[n]
    BY <1>1 DEF Behind
  <2>1. n # k /\ n \in 1 .. MaxLen
    BY <1>2
  <2> QED
    BY <1>3, <2>1 DEF TypeOK
<1> QED
  BY <1>6, <1>7, <1>8, <1>9, <1>10, <1>11

\* The notification thread is at the barrier only when nothing is under way.
LEMMA NotifyStep ==
  ASSUME IInv, start_sigev_aio
  PROVE  IInv'
<1> USE DEF IInv
<1>1. AllDone /\ notify' = "barrier"
  BY DEF start_sigev_aio
<1>2. UNCHANGED <<async, len, out, pc, i, ret, tot_len, rbuf, aio_blk, flying, failed>>
  BY DEF start_sigev_aio
<1>3. pc # "read" /\ pc # "listio"
  BY DEF start_sigev_aio, ReadInv, ListioInv
<1>4. TypeOK'
  BY <1>1, <1>2 DEF TypeOK
<1>5. ReadInv' /\ ListioInv' /\ NotifyInv'
  BY <1>1, <1>2, <1>3 DEF ReadInv, ListioInv, NotifyInv, AllDone
<1>6. WaitInv' /\ DoneInv' /\ EndInv'
  BY <1>2 DEF WaitInv, DoneInv, EndInv, Settled, SettledUpTo, AllDone
<1>7. FlyingInv' /\ Behind'
  BY <1>2 DEF FlyingInv, Behind
<1> QED
  BY <1>4, <1>5, <1>6, <1>7

\* main goes on when nothing is under way: either way of waiting says so.
LEMMA NextStep ==
  ASSUME IInv, main_next
  PROVE  IInv'
<1> USE AioListioAssumption DEF IInv
<1>1. pc = "wait" /\ AllDone
  BY DEF main_next, Returned, NotifyInv
<1>2. /\ notify' = "none" /\ aio_blk' = [s \in Slots |-> 0] /\ i' = 0
      /\ pc' = IF ret THEN "read" ELSE "done"
      /\ len' = len /\ out' = out /\ tot_len' = tot_len /\ rbuf' = rbuf
      /\ flying' = flying /\ failed' = failed
  BY DEF main_next
<1>3. async' = async /\ ret' = ret
  BY DEF main_next
<1>4. tot_len \in Nat /\ len \in Nat /\ tot_len <= len
  BY DEF TypeOK
<1>5. SettledUpTo(tot_len)
  BY <1>1, <1>4 DEF WaitInv, AllDone, SettledUpTo
<1>6. TypeOK'
  <2>1. async' \in BOOLEAN /\ ret' \in BOOLEAN
    BY <1>3, Zenon DEF TypeOK
  <2>2. pc' \in {"read", "listio", "wait", "done", "exited"}
    BY <1>2
  <2>3. aio_blk' \in [Slots -> 0 .. MaxLen + 1] /\ i' \in 0 .. NUM_AIOCB_ARRAY
    BY <1>2
  <2> QED
    BY <1>2, <2>1, <2>2, <2>3 DEF TypeOK
<1>7. AllDone'
  BY <1>1, <1>2 DEF AllDone
<1>8. SettledUpTo(tot_len)'
  BY <1>2, <1>5 DEF SettledUpTo, Settled
<1>9. ReadInv'
  <2>1. Filled(i)'
    BY <1>2 DEF Filled
  <2>2. tot_len' - i' = tot_len'
    BY <1>2, <1>4
  <2> QED
    BY <1>2, <1>3, <1>4, <1>7, <1>8, <2>1, <2>2 DEF ReadInv, SettledUpTo, Settled
<1>10. DoneInv'
  BY <1>2, <1>3, <1>7, <1>8 DEF DoneInv, EndInv
<1>11. ListioInv' /\ WaitInv' /\ NotifyInv' /\ EndInv'
  BY <1>2, <1>3, <1>7 DEF ListioInv, WaitInv, NotifyInv, EndInv
<1>12. FlyingInv' /\ Behind'
  BY <1>1, <1>2 DEF FlyingInv, Behind, AllDone
<1> QED
  BY <1>6, <1>9, <1>10, <1>11, <1>12

\* Giving up leaves what is under way as it is.
LEMMA FailStep ==
  ASSUME IInv, main_read_fails
  PROVE  IInv'
<1> USE DEF IInv
<1>1. pc' = "exited"
  BY DEF main_read_fails
<1>2. UNCHANGED <<async, len, out, i, ret, tot_len, rbuf, aio_blk, flying, notify, failed>>
  BY DEF main_read_fails
<1>3. TypeOK'
  BY <1>1, <1>2 DEF TypeOK
<1>4. ReadInv' /\ ListioInv' /\ WaitInv' /\ DoneInv'
  BY <1>1 DEF ReadInv, ListioInv, WaitInv, DoneInv
<1>5. EndInv' /\ NotifyInv' /\ FlyingInv' /\ Behind'
  BY <1>1, <1>2 DEF EndInv, NotifyInv, FlyingInv, Behind, AllDone
<1> QED
  BY <1>3, <1>4, <1>5

\* Nor does a step of anything else change any of it.
LEMMA StutterStep ==
  ASSUME IInv, UNCHANGED vars
  PROVE  IInv'
<1> USE DEF IInv, vars
<1>1. TypeOK'
  BY DEF TypeOK
<1>2. ReadInv' /\ ListioInv' /\ WaitInv' /\ DoneInv'
  BY DEF ReadInv, ListioInv, WaitInv, DoneInv, AllDone, Filled, BatchLen,
         SettledUpTo, Settled
<1>3. EndInv' /\ NotifyInv' /\ FlyingInv' /\ Behind'
  BY DEF EndInv, NotifyInv, FlyingInv, Behind, AllDone
<1> QED
  BY <1>1, <1>2, <1>3

\* The inductive invariant holds in every reachable state of every copy.
THEOREM Inductive == Spec => []IInv
<1>1. IInv /\ [Next]_vars => IInv'
  <2> SUFFICES ASSUME IInv, [Next]_vars
               PROVE  IInv'
    OBVIOUS
  <2>1. CASE main_read
    BY <2>1, ReadStep
  <2>2. CASE main_read_end
    BY <2>2, ReadEndStep
  <2>3. CASE main_read_fails
    BY <2>3, FailStep
  <2>4. CASE lio_listio
    BY <2>4, ListioStep
  <2>5. CASE main_next
    BY <2>5, NextStep
  <2>6. CASE start_sigev_aio
    BY <2>6, NotifyStep
  <2>7. ASSUME NEW s \in Slots, Write(s)
        PROVE  IInv'
    BY <2>7, WriteStep
  <2>8. CASE UNCHANGED vars
    BY <2>8, StutterStep
  <2> QED
    BY <2>1, <2>2, <2>3, <2>4, <2>5, <2>6, <2>7, <2>8 DEF Next, Main
<1> QED
  BY <1>1, InitInv, PTL DEF Spec

-----------------------------------------------------------------------------

\* main() never reads into a buffer, nor sets or clears the control block, that
\* a request under way may still use, with LIO_WAIT as with the barrier.
THEOREM BuffersStableCorrect == Spec => []BuffersStable
<1>1. IInv => BuffersStable
  BY DEF IInv, FlyingInv, BuffersStable
<1> QED
  BY <1>1, Inductive, PTL

\* When main() says that the write is complete, every chunk of a file of any
\* length is in its place, but for those whose requests were refused or failed,
\* and nothing of this file is behind it.
THEOREM CopyExactCorrect == Spec => []CopyExact
<1>1. IInv => CopyExact
  <2> SUFFICES ASSUME IInv, pc = "done", NEW k \in 1 .. MaxLen
               PROVE  IF k > len THEN out[k] \in {Old, None}
                                 ELSE out[k] = k \/ k \in failed
    BY DEF CopyExact
  <2>1. len \in Nat /\ MaxLen \in Nat
    BY AioListioAssumption DEF IInv, TypeOK
  <2>2. CASE k > len
    BY <2>1, <2>2 DEF IInv, Behind
  <2>3. CASE k <= len
    BY <2>1, <2>3 DEF IInv, DoneInv, SettledUpTo, Settled
  <2> QED
    BY <2>1, <2>2, <2>3
<1> QED
  BY <1>1, Inductive, PTL

=============================================================================
