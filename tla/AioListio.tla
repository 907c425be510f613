------------------------------ MODULE AioListio ------------------------------
(***************************************************************************)
(* Chapter10/aio_listio.c copies a file with batches of asynchronous       *)
(* writes.  main fills NUM_AIOCB_ARRAY buffers, hands them to lio_listio() *)
(* and uses them again when all are done: it calls with LIO_WAIT, or, if   *)
(* built with ASYNCHRONIZED_IO, meets the notification thread at a         *)
(* barrier.  What lio_listio() returns is not looked at.                   *)
(*                                                                         *)
(* The file is a sequence of chunks, one read() each; a request writes     *)
(* what is in its buffer, to the place its control block names, when the   *)
(* system gets round to it.                                                *)
(***************************************************************************)
EXTENDS Integers

CONSTANTS
  NUM_AIOCB_ARRAY,
  MaxLen            \* bound: the chunks of a file

ASSUME AioListioAssumption ==
  /\ NUM_AIOCB_ARRAY \in Nat \ {0}
  /\ MaxLen \in Nat

Slots == 0 .. NUM_AIOCB_ARRAY - 1
None == 0   \* no chunk; chunks count from 1
Old == -1   \* a chunk of the file that had the copy's name before

VARIABLES
  async,    \* built with ASYNCHRONIZED_IO
  len,      \* the chunks of the source
  out,      \* the chunks of the copy
  pc,       \* where main is
  i,
  ret,      \* the last read() returned something
  tot_len,
  rbuf,     \* the chunk in each buffer
  aio_blk,  \* the place each control block names
  flying,   \* the chunk each unfinished request was made for
  notify,   \* the notification thread
  failed    \* history: the chunks of requests refused or failed

vars == <<async, len, out, pc, i, ret, tot_len, rbuf, aio_blk, flying, notify, failed>>

TypeOK ==
  /\ async \in BOOLEAN /\ ret \in BOOLEAN
  /\ len \in 0 .. MaxLen /\ tot_len \in 0 .. len
  /\ out \in [1 .. MaxLen -> Old .. MaxLen]
  /\ pc \in {"read", "listio", "wait", "done", "exited"}
  /\ i \in 0 .. NUM_AIOCB_ARRAY
  /\ rbuf \in [Slots -> 0 .. MaxLen]
  /\ aio_blk \in [Slots -> 0 .. MaxLen + 1]
  /\ flying \in [Slots -> 0 .. MaxLen]
  /\ notify \in {"none", "armed", "barrier", "lost"}
  /\ failed \subseteq 1 .. MaxLen

\* Without O_TRUNC the copy starts as the file that was there.
Init ==
  /\ async \in BOOLEAN
  /\ len \in 0 .. MaxLen
  /\ \E old \in 0 .. MaxLen :
       out = [k \in 1 .. MaxLen |-> IF k <= old THEN Old ELSE None]
  /\ pc = "read" /\ i = 0 /\ ret = TRUE /\ tot_len = 0
  /\ rbuf = [s \in Slots |-> None]
  /\ aio_blk = [s \in Slots |-> 0]
  /\ flying = [s \in Slots |-> None]
  /\ notify = "none"
  /\ failed = {}

-----------------------------------------------------------------------------

main_read ==
  /\ pc = "read" /\ tot_len < len
  /\ rbuf' = [rbuf EXCEPT ![i] = tot_len + 1]
  /\ aio_blk' = [aio_blk EXCEPT ![i] = tot_len + 1]
  /\ tot_len' = tot_len + 1
  /\ i' = i + 1
  /\ pc' = IF i' = NUM_AIOCB_ARRAY THEN "listio" ELSE "read"
  /\ UNCHANGED <<async, len, out, ret, flying, notify, failed>>

\* The end of the file also takes a control block.
main_read_end ==
  /\ pc = "read" /\ tot_len = len
  /\ ret' = FALSE
  /\ aio_blk' = [aio_blk EXCEPT ![i] = tot_len + 1]
  /\ i' = i + 1
  /\ pc' = "listio"
  /\ UNCHANGED <<async, len, out, tot_len, rbuf, flying, notify, failed>>

main_read_fails ==
  /\ pc = "read"
  /\ pc' = "exited"
  /\ UNCHANGED <<async, len, out, i, ret, tot_len, rbuf, aio_blk, flying, notify, failed>>

MutBatch == 0 .. i - 2

\* The requests of the call: without the one for the end of the file.
Batch == 0 .. (IF ret THEN i ELSE i - 1) - 1

\* Any of the requests may be refused; and the notification may fail, for want
\* of memory or of a thread, while requests run.
lio_listio ==
  /\ pc = "listio"
  /\ \E taken \in SUBSET Batch :
       /\ flying' = [s \in Slots |-> IF s \in taken THEN aio_blk[s] ELSE None]
       /\ failed' = failed \cup {aio_blk[s] : s \in Batch \ taken}
  /\ notify' \in (IF async THEN {"armed", "lost"} ELSE {"none"})
  /\ pc' = "wait"
  /\ UNCHANGED <<async, len, out, i, ret, tot_len, rbuf, aio_blk>>

\* A request is carried out, or fails.
Write(s) ==
  /\ flying[s] # None
  /\ \/ out' = [out EXCEPT ![aio_blk[s]] = rbuf[s]] /\ UNCHANGED failed
     \/ failed' = failed \cup {flying[s]} /\ UNCHANGED out
  /\ flying' = [flying EXCEPT ![s] = None]
  /\ UNCHANGED <<async, len, pc, i, ret, tot_len, rbuf, aio_blk, notify>>

AllDone == \A s \in Slots : flying[s] = None

\* The notification thread starts when all requests of the list are finished,
\* at once if there are none.
start_sigev_aio ==
  /\ notify = "armed" /\ AllDone
  /\ notify' = "barrier"
  /\ UNCHANGED <<async, len, out, pc, i, ret, tot_len, rbuf, aio_blk, flying, failed>>

MutReturned == async \/ AllDone

\* LIO_WAIT, or the barrier for two.
Returned == IF async THEN notify = "barrier" ELSE AllDone

\* The control blocks are cleared; after the end of the file main is done.
main_next ==
  /\ pc = "wait" /\ Returned
  /\ notify' = "none"
  /\ aio_blk' = [s \in Slots |-> 0]
  /\ i' = 0
  /\ pc' = IF ret THEN "read" ELSE "done"
  /\ UNCHANGED <<async, len, out, ret, tot_len, rbuf, flying, failed>>

-----------------------------------------------------------------------------

Main == main_read \/ main_read_end \/ main_read_fails \/ lio_listio \/ main_next

Next == Main \/ start_sigev_aio \/ \E s \in Slots : Write(s)

Spec == Init /\ [][Next]_vars

-----------------------------------------------------------------------------

\* Neither a buffer nor its control block changes while the request it was
\* handed over with may still use it, whichever build, whatever was refused,
\* and also in the round that ends the file.
BuffersStable ==
  /\ TypeOK
  /\ \A s \in Slots :
       flying[s] # None => rbuf[s] = flying[s] /\ aio_blk[s] = flying[s]

\* When main says that the write is complete, every chunk is in its place,
\* except those whose requests were refused or failed, which nobody is told;
\* and behind the copy there is what the old file had there.
CopyExact ==
  pc = "done" =>
    \A k \in 1 .. MaxLen :
      IF k > len THEN out[k] \in {Old, None}
                 ELSE out[k] = k \/ k \in failed

=============================================================================
