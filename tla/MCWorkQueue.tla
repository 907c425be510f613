---------------------------- MODULE MCWorkQueue ----------------------------
(***************************************************************************)
(* Instance of WorkQueue for TLC: a ring of 4 slots, so that reads deliver *)
(* 1 or 2 bytes, and a stream long enough to wrap the ring, to fill it and *)
(* to lose bytes.                                                          *)
(***************************************************************************)
EXTENDS WorkQueue

=============================================================================
