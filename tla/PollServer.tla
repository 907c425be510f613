----------------------------- MODULE PollServer -----------------------------
(***************************************************************************)
(* Chapter07/io_poll.c: a single-threaded server around poll().  An entry  *)
(* of pollfds carries the events of the last poll() with it when           *)
(* del_socket moves it, main visits the moved entry again, and ret_poll    *)
(* counts the entries that still have events.  del_socket marks the entry  *)
(* behind the last one, not the last one itself, so old entries stay in    *)
(* the array, and with a full array the mark lands outside it.             *)
(***************************************************************************)
EXTENDS Sockets

VARIABLES
  pollfds,        \* the array, as it is in memory
  cnt_fd_socket,
  ret_poll,
  phase,          \* where main is
  i               \* main's loop counter

server == <<pollfds, cnt_fd_socket, ret_poll, phase, i>>
vars == <<sockets, server>>

Slots == 0 .. MAX_FD_SOCKET - 1
Used == 0 .. cnt_fd_socket - 1

TypeOK ==
  /\ SocketsTypeOK
  /\ pollfds \in [Slots -> [fd : Fds \cup {Listener, -1},
                            revents : {"none", "POLLIN", "POLLNVAL"}]]
  /\ cnt_fd_socket \in 1 .. MAX_FD_SOCKET
  /\ ret_poll \in 0 .. MAX_FD_SOCKET
  /\ phase \in {"poll", "accept", "scan", "exited"}
  /\ i \in 1 .. MAX_FD_SOCKET

\* pollfds is static and starts as zeros; its first entry is the listener.
Init ==
  /\ SocketsInit
  /\ pollfds = [k \in Slots |-> [fd |-> 0, revents |-> "none"]]
  /\ cnt_fd_socket = 1
  /\ ret_poll = 0
  /\ phase = "poll"
  /\ i = 1

-----------------------------------------------------------------------------

Revents(fd) ==
  IF fd \notin OpenFds \cup {Listener} THEN "POLLNVAL"
  ELSE IF Readable(fd) THEN "POLLIN" ELSE "none"

\* poll() waits until an entry has events, and counts those that have.
poll ==
  /\ phase = "poll"
  /\ pollfds' = [k \in Slots |->
       IF k \in Used
         THEN [pollfds[k] EXCEPT !.revents = Revents(pollfds[k].fd)]
         ELSE pollfds[k]]
  /\ ret_poll' = Cardinality({k \in Used : Revents(pollfds[k].fd) # "none"})
  /\ ret_poll' > 0
  /\ phase' = IF pollfds'[0].revents = "POLLIN" THEN "accept" ELSE "scan"
  /\ i' = 1
  /\ UNCHANGED <<sockets, cnt_fd_socket>>

\* add_socket succeeds.
Room == cnt_fd_socket < MAX_FD_SOCKET

\* continue: the sessions wait for a round without a new connection.
AfterAccept == "poll"

\* add_socket leaves the old revents of the entry alone.
accept_add ==
  /\ phase = "accept"
  /\ Room
  /\ \E c \in Conns : Accept(c)
  /\ pollfds' = [pollfds EXCEPT ![cnt_fd_socket].fd = AcceptFd]
  /\ cnt_fd_socket' = cnt_fd_socket + 1
  /\ phase' = AfterAccept
  /\ UNCHANGED <<ret_poll, i>>

accept_full ==
  /\ phase = "accept"
  /\ ~Room
  /\ \E c \in Conns : AcceptAndClose(c)
  /\ phase' = AfterAccept
  /\ UNCHANGED <<pollfds, cnt_fd_socket, ret_poll, i>>

\* EMFILE.
accept_fails ==
  /\ phase = "accept"
  /\ FreeFds = {}
  /\ phase' = AfterAccept
  /\ UNCHANGED <<sockets, pollfds, cnt_fd_socket, ret_poll, i>>

-----------------------------------------------------------------------------

Scanning == phase = "scan" /\ i < cnt_fd_socket /\ ret_poll > 0

\* No event, or POLLNVAL, which is counted.
scan_skip ==
  /\ Scanning /\ pollfds[i].revents # "POLLIN"
  /\ ret_poll' = IF pollfds[i].revents = "none" THEN ret_poll ELSE ret_poll - 1
  /\ i' = i + 1
  /\ UNCHANGED <<sockets, pollfds, cnt_fd_socket, phase>>

\* recv() returned data, or failed, which is only printed.
scan_recv ==
  /\ Scanning /\ pollfds[i].revents = "POLLIN"
  /\ RecvData(pollfds[i].fd) \/ RecvReset(pollfds[i].fd)
  /\ ret_poll' = ret_poll - 1
  /\ i' = i + 1
  /\ UNCHANGED <<pollfds, cnt_fd_socket, phase>>

\* The last entry takes the place of the deleted one; the entry behind the
\* last one, if there is one, is marked.
del_socket(fd) ==
  LET k == Min({n \in Used : pollfds[n].fd = fd})
      filled == [pollfds EXCEPT ![k] = pollfds[cnt_fd_socket - 1]]
  IN  IF cnt_fd_socket \in Slots
        THEN [filled EXCEPT ![cnt_fd_socket].fd = -1]
        ELSE filled

\* With a full array the mark is written behind it: on nothing that matters, or
\* on cnt_fd_socket, and then poll() is called with a negative number of
\* entries, fails, and main exits.
AfterDel ==
  IF cnt_fd_socket \in Slots THEN {"scan"} ELSE {"scan", "exited"}

MutScanEof ==
  /\ Scanning /\ pollfds[i].revents = "POLLIN"
  /\ AtEof(pollfds[i].fd)
  /\ Close(pollfds[i].fd)
  /\ pollfds' = del_socket(pollfds[i].fd)
  /\ phase' \in AfterDel
  /\ cnt_fd_socket' = cnt_fd_socket - 1
  /\ ret_poll' = ret_poll - 1
  /\ i' = i + 1

\* The session ends, and the entry moved to place i is visited next.
scan_eof ==
  /\ Scanning /\ pollfds[i].revents = "POLLIN"
  /\ AtEof(pollfds[i].fd)
  /\ Close(pollfds[i].fd)
  /\ pollfds' = del_socket(pollfds[i].fd)
  /\ phase' \in AfterDel
  /\ cnt_fd_socket' = cnt_fd_socket - 1
  /\ ret_poll' = ret_poll - 1
  /\ UNCHANGED i

scan_done ==
  /\ phase = "scan"
  /\ i >= cnt_fd_socket \/ ret_poll = 0
  /\ phase' = "poll"
  /\ UNCHANGED <<sockets, pollfds, cnt_fd_socket, ret_poll, i>>

-----------------------------------------------------------------------------

Server ==
  \/ poll
  \/ accept_add \/ accept_full \/ accept_fails
  \/ scan_skip \/ scan_recv \/ scan_eof \/ scan_done

Clients == (\E c \in Conns : Client(c)) /\ UNCHANGED server

Next == Server \/ Clients

Spec == Init /\ [][Next]_vars

\* The server's thread runs whenever it can; clients may stop at any moment.
FairSpec == Spec /\ WF_vars(Server)

-----------------------------------------------------------------------------

\* The first cnt_fd_socket entries are the listener and each open socket once,
\* although del_socket does not clear the entry it frees.
TableMatchesSockets ==
  /\ TypeOK
  /\ pollfds[0].fd = Listener
  /\ {pollfds[k].fd : k \in Used \ {0}} = OpenFds
  /\ Cardinality(OpenFds) = cnt_fd_socket - 1

\* ret_poll is exactly the number of entries with events that main has not
\* visited, moved entries included: leaving the loop when it is zero skips
\* nobody, and the loop does not run past it.
PollCountExact ==
  phase = "scan" =>
    ret_poll =
      Cardinality({k \in i .. cnt_fd_socket - 1 : pollfds[k].revents # "none"})

\* Sessions may stay open although their clients ended them: the server exits
\* (only after the array was full), or has no descriptor for a waiting
\* connection and tries to accept it for ever.  (A stream of new connections
\* that never ends keeps it from reading as well: see NoMoreClients in
\* SocketServers.)
Excused(c) == phase = "exited" \/ (FreeFds = {} /\ Queued # {})

=============================================================================
