----------------------------- MODULE MCSysvMsg -----------------------------
(***************************************************************************)
(* Instance of SysvMsg for TLC: one sender and one receiver of each        *)
(* program, a queue of two messages.                                       *)
(***************************************************************************)
EXTENDS SysvMsg, TLC

CONSTANTS s1, s2, r1, r2

MCFile == (s1 :> <<0, 0, 0>>) @@ (s2 :> <<2, -1, 1, 0>>)
MCMsgType == (r1 :> -2) @@ (r2 :> 2)

=============================================================================
