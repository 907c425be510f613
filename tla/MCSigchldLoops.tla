--------------------------- MODULE MCSigchldLoops ---------------------------
(***************************************************************************)
(* Instance of SigchldLoops for TLC: a pool of three children out of six   *)
(* processes, so that three can be replaced, and the programs with one.    *)
(***************************************************************************)
EXTENDS SigchldLoops, TLC

PidSymmetry == Permutations(Pids)

=============================================================================
