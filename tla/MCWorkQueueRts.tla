--------------------------- MODULE MCWorkQueueRts ---------------------------
(***************************************************************************)
(* Instance of WorkQueueRts for TLC: the ring is as small as it can be     *)
(* (reads of one byte), the signal queue holds two signals so that it can  *)
(* overflow, and the stream is longer than both together.                  *)
(***************************************************************************)
EXTENDS WorkQueueRts

=============================================================================
