--------------------------- MODULE MCCountingSem ---------------------------
(***************************************************************************)
(* Instance of CountingSem for TLC: four children of which the third gives *)
(* nothing back, and up to two tokens, so that children overlap and        *)
(* signals merge, or the only token is lost.  A child is stopped and       *)
(* continued, or two are stopped.                                          *)
(***************************************************************************)
EXTENDS CountingSem

=============================================================================
