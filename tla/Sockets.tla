------------------------------- MODULE Sockets -------------------------------
(***************************************************************************)
(* The kernel's side of a TCP server, as the servers of Chapter07 and      *)
(* Chapter10/io_rts.c use it: clients that connect, send and hang up, the  *)
(* listen backlog, and descriptors, of which the lowest free one is given  *)
(* out.  A connection that had a descriptor is never reused, so that the   *)
(* old and the new owner of one can be told apart; a client whose          *)
(* connection was refused may try again, as often as it likes.  What the   *)
(* client sends is counted in pieces that one recv() returns.              *)
(***************************************************************************)
EXTENDS Integers, Sequences, FiniteSets, FiniteSetsExt

CONSTANTS
  Conns,   \* bound: the connections that become sessions or wait to
  NoConn,  \* no connection
  NFds,    \* bound: descriptors a process may have for sockets
  MaxData, \* bound: unread pieces of a connection
  MAX_FD_SOCKET,  \* io_select.c, io_poll.c: entries of the socket array
  max_ep_events,  \* io_epoll.c: entries of ep_events
  SigMax          \* io_rts.c: RLIMIT_SIGPENDING

ASSUME SocketsAssumption ==
  /\ IsFiniteSet(Conns) /\ NoConn \notin Conns
  /\ {NFds, MaxData, MAX_FD_SOCKET, max_ep_events, SigMax} \subseteq Nat \ {0}

Fds == 1 .. NFds
Listener == 0  \* fd_listener

VARIABLES
  conn,  \* each connection: "none", "queued", "accepted" or "closed"
  data,  \* data[c]: unread pieces of c in its socket
  end,   \* how c's client ended it: "open", "eof" or "rst"
  sock,  \* sock[fd]: the connection that descriptor fd is a socket of
  nofile \* RLIMIT_NOFILE: how many descriptors it does have

sockets == <<conn, data, end, sock, nofile>>

SocketsTypeOK ==
  /\ conn \in [Conns -> {"none", "queued", "accepted", "closed"}]
  /\ data \in [Conns -> 0 .. MaxData]
  /\ end \in [Conns -> {"open", "eof", "rst"}]
  /\ sock \in [Fds -> Conns \cup {NoConn}]
  /\ nofile \in Fds

SocketsInit ==
  /\ conn = [c \in Conns |-> "none"]
  /\ data = [c \in Conns |-> 0]
  /\ end = [c \in Conns |-> "open"]
  /\ sock = [fd \in Fds |-> NoConn]
  /\ nofile \in Fds

-----------------------------------------------------------------------------
(* Clients.                                                                *)

Connect(c) ==
  /\ conn[c] = "none"
  /\ conn' = [conn EXCEPT ![c] = "queued"]
  /\ UNCHANGED <<data, end, sock, nofile>>

Send(c) ==
  /\ conn[c] \in {"queued", "accepted"} /\ end[c] = "open"
  /\ data[c] < MaxData
  /\ data' = [data EXCEPT ![c] = @ + 1]
  /\ UNCHANGED <<conn, end, sock, nofile>>

Hangup(c) ==
  /\ conn[c] \in {"queued", "accepted"} /\ end[c] = "open"
  /\ \E how \in {"eof", "rst"} : end' = [end EXCEPT ![c] = how]
  /\ UNCHANGED <<conn, data, sock, nofile>>

Client(c) == Connect(c) \/ Send(c) \/ Hangup(c)

-----------------------------------------------------------------------------
(* System calls of the server.                                             *)

Queued == {c \in Conns : conn[c] = "queued"}
OpenFds == {fd \in Fds : sock[fd] # NoConn}
FreeFds == (1 .. nofile) \ OpenFds

Readable(fd) ==
  IF fd = Listener
    THEN Queued # {}
    ELSE sock[fd] # NoConn /\ (data[sock[fd]] > 0 \/ end[sock[fd]] # "open")

\* accept() takes connection c; its descriptor is AcceptFd.
AcceptFd == Min(FreeFds)

Accept(c) ==
  /\ c \in Queued /\ FreeFds # {}
  /\ conn' = [conn EXCEPT ![c] = "accepted"]
  /\ sock' = [sock EXCEPT ![AcceptFd] = c]
  /\ UNCHANGED <<data, end, nofile>>

\* accept() and, at once, close(): the client may connect again.
AcceptAndClose(c) ==
  /\ c \in Queued /\ FreeFds # {}
  /\ conn' = [conn EXCEPT ![c] = "none"]
  /\ data' = [data EXCEPT ![c] = 0]
  /\ end' = [end EXCEPT ![c] = "open"]
  /\ UNCHANGED <<sock, nofile>>

Close(fd) ==
  /\ conn' = [conn EXCEPT ![sock[fd]] = "closed"]
  /\ sock' = [sock EXCEPT ![fd] = NoConn]
  /\ UNCHANGED <<data, end, nofile>>

\* recv() returns data, -1 (ECONNRESET, once), or 0; otherwise it waits, or
\* fails with EAGAIN if the socket is non-blocking.
RecvData(fd) ==
  /\ sock[fd] # NoConn /\ data[sock[fd]] > 0
  /\ data' = [data EXCEPT ![sock[fd]] = @ - 1]
  /\ UNCHANGED <<conn, end, sock, nofile>>

AtReset(fd) == sock[fd] # NoConn /\ data[sock[fd]] = 0 /\ end[sock[fd]] = "rst"

RecvReset(fd) ==
  /\ AtReset(fd)
  /\ end' = [end EXCEPT ![sock[fd]] = "eof"]
  /\ UNCHANGED <<conn, data, sock, nofile>>

AtEof(fd) == sock[fd] # NoConn /\ data[sock[fd]] = 0 /\ end[sock[fd]] = "eof"

=============================================================================
