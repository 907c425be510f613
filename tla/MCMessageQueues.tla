-------------------------- MODULE MCMessageQueues ---------------------------
(***************************************************************************)
(* Instance of MessageQueues for TLC.  POSIX: two lines for a queue of one *)
(* message, two receivers with notification and one without, and one       *)
(* "unlink".  System V: a queue of two messages, sysv_msg.c with a file of *)
(* two lines, sysv_msg_regex.c with types 2 and 1, a line that does not    *)
(* match between them and a type 0 at the end, and a receiver for type 2   *)
(* and one for the lowest type up to 2.                                    *)
(***************************************************************************)
EXTENDS MessageQueues, TLC

CONSTANTS s1, s2, r1, r2

MCFile == (s1 :> <<0, 0>>) @@ (s2 :> <<2, -1, 1, 0>>)
MCMsgType == (r1 :> -2) @@ (r2 :> 2)

=============================================================================
