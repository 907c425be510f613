-------------------------- MODULE MCPreforkServer ---------------------------
(***************************************************************************)
(* Instance of PreforkServer for TLC: two children, three connections, and *)
(* room for one socket in each child, so that one forgotten socket is a    *)
(* shortage.                                                               *)
(***************************************************************************)
EXTENDS PreforkServer

=============================================================================
