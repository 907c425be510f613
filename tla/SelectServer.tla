---------------------------- MODULE SelectServer ----------------------------
(***************************************************************************)
(* Chapter07/io_select.c: a single-threaded server around select().  The   *)
(* array fd_socket holds the listener in its first place and the sessions  *)
(* behind it; del_socket fills the gap with the last entry while main is   *)
(* walking through the array.  All sockets are blocking: main must never   *)
(* call recv() on one that has nothing to read.                            *)
(***************************************************************************)
EXTENDS Sockets

VARIABLES
  fd_socket,  \* fd_socket[0 .. cnt_fd_socket - 1]
  fds_read,   \* what select() left in the set
  phase,      \* where main is
  i           \* main's loop counter, as an index of the sequence fd_socket

server == <<fd_socket, fds_read, phase, i>>
vars == <<sockets, server>>

TypeOK ==
  /\ SocketsTypeOK
  /\ fd_socket \in Seq(Fds \cup {Listener})
  /\ Len(fd_socket) \in 1 .. MAX_FD_SOCKET
  /\ fds_read \subseteq Fds \cup {Listener}
  /\ phase \in {"select", "accept", "scan", "exited"}
  /\ i \in 2 .. MAX_FD_SOCKET + 1

Init ==
  /\ SocketsInit
  /\ fd_socket = <<Listener>>
  /\ fds_read = {}
  /\ phase = "select"
  /\ i = 2

-----------------------------------------------------------------------------

\* The set mk_fds builds.
mk_fds == {fd_socket[k] : k \in DOMAIN fd_socket}

\* select() fails with EBADF if a descriptor is closed; otherwise it waits
\* until one is readable and leaves those that are.
select ==
  /\ phase = "select"
  /\ IF mk_fds \subseteq OpenFds \cup {Listener}
       THEN /\ fds_read' = {fd \in mk_fds : Readable(fd)}
            /\ fds_read' # {}
            /\ phase' = IF Listener \in fds_read' THEN "accept" ELSE "scan"
       ELSE phase' = "exited" /\ UNCHANGED fds_read
  /\ i' = 2
  /\ UNCHANGED <<sockets, fd_socket>>

\* add_socket succeeds.
Room == Len(fd_socket) < MAX_FD_SOCKET

\* While connections wait, main accepts one per round and reads nothing.
accept_add ==
  /\ phase = "accept"
  /\ Room
  /\ \E c \in Conns : Accept(c)
  /\ fd_socket' = Append(fd_socket, AcceptFd)
  /\ phase' = "select"
  /\ UNCHANGED <<fds_read, i>>

accept_full ==
  /\ phase = "accept"
  /\ ~Room
  /\ \E c \in Conns : AcceptAndClose(c)
  /\ phase' = "select"
  /\ UNCHANGED <<fd_socket, fds_read, i>>

\* EMFILE.
accept_fails ==
  /\ phase = "accept"
  /\ FreeFds = {}
  /\ phase' = "select"
  /\ UNCHANGED <<sockets, fd_socket, fds_read, i>>

-----------------------------------------------------------------------------

FD_ISSET(fd) == fd \in fds_read

Scanning == phase = "scan" /\ i <= Len(fd_socket)

scan_skip ==
  /\ Scanning /\ ~FD_ISSET(fd_socket[i])
  /\ i' = i + 1
  /\ UNCHANGED <<sockets, fd_socket, fds_read, phase>>

\* recv() returned data, or failed, which is only printed.
scan_recv ==
  /\ Scanning /\ FD_ISSET(fd_socket[i])
  /\ RecvData(fd_socket[i]) \/ RecvReset(fd_socket[i])
  /\ i' = i + 1
  /\ UNCHANGED <<fd_socket, fds_read, phase>>

MutDelSocket(fd) == SubSeq(fd_socket, 1, Len(fd_socket) - 1)

\* The last entry takes the place of the deleted one.
del_socket(fd) ==
  LET k == Min({n \in DOMAIN fd_socket : fd_socket[n] = fd})
  IN  SubSeq([fd_socket EXCEPT ![k] = fd_socket[Len(fd_socket)]],
             1, Len(fd_socket) - 1)

\* The session ends.  The entry moved to place i is not looked at in this
\* round.
scan_eof ==
  /\ Scanning /\ FD_ISSET(fd_socket[i])
  /\ AtEof(fd_socket[i])
  /\ Close(fd_socket[i])
  /\ fd_socket' = del_socket(fd_socket[i])
  /\ i' = i + 1
  /\ UNCHANGED <<fds_read, phase>>

scan_done ==
  /\ phase = "scan" /\ i > Len(fd_socket)
  /\ phase' = "select"
  /\ UNCHANGED <<sockets, fd_socket, fds_read, i>>

-----------------------------------------------------------------------------

Server ==
  \/ select
  \/ accept_add \/ accept_full \/ accept_fails
  \/ scan_skip \/ scan_recv \/ scan_eof \/ scan_done

Clients == (\E c \in Conns : Client(c)) /\ UNCHANGED server

Next == Server \/ Clients

Spec == Init /\ [][Next]_vars

\* The server's thread runs whenever it can; clients may stop at any moment.
FairSpec == Spec /\ WF_vars(Server)

-----------------------------------------------------------------------------

\* The array holds the listener and then each open socket once, whatever
\* del_socket has moved: no closed descriptor makes select() fail and no
\* session is forgotten.
TableMatchesSockets ==
  /\ TypeOK
  /\ fd_socket[1] = Listener
  /\ {fd_socket[k] : k \in 2 .. Len(fd_socket)} = OpenFds
  /\ Cardinality(OpenFds) = Len(fd_socket) - 1
  /\ phase # "exited"

\* Whenever main calls recv() the socket can be read, although entries have
\* been deleted and moved since select() returned: the server never waits for
\* one client in a blocking recv().
RecvNeverWaits ==
  Scanning /\ FD_ISSET(fd_socket[i]) => Readable(fd_socket[i])

\* Sessions may stay open although their clients ended them: while connections
\* wait and accept() has no descriptor for them, main tries to accept for ever
\* and reads from nobody.  (A stream of new connections that never ends keeps it
\* from reading as well: see NoMoreClients in SocketServers.)
Excused(c) == FreeFds = {} /\ Queued # {}

=============================================================================
