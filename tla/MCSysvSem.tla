----------------------------- MODULE MCSysvSem -----------------------------
(***************************************************************************)
(* Instance of SysvSem for TLC: two programs of three children at the same *)
(* key, one with and one without a zero-waiter.                            *)
(***************************************************************************)
EXTENDS SysvSem

=============================================================================
