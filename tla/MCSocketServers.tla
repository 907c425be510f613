-------------------------- MODULE MCSocketServers ---------------------------
(***************************************************************************)
(* Instance of SocketServers for TLC: three connections (two for           *)
(* io_epoll.c), arrays with room for two sessions, ep_events for two       *)
(* events, three signals, and one to three descriptors, so that each of    *)
(* them can run out.                                                       *)
(***************************************************************************)
EXTENDS SocketServers

=============================================================================
