--------------------------- MODULE MCEpollTimerfd ---------------------------
(***************************************************************************)
(* Instance of EpollTimerfd for TLC: two connections and up to four        *)
(* descriptors. With four both sessions are complete; with three the       *)
(* second socket gets the last one and no timer; in both a session and its *)
(* timer can be closed and their descriptors reused within a batch.        *)
(***************************************************************************)
EXTENDS EpollTimerfd

=============================================================================
