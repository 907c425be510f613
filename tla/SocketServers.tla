--------------------------- MODULE SocketServers ----------------------------
(***************************************************************************)
(* One of the four servers of Chapter07 and Chapter10/io_rts.c with its    *)
(* clients; program says which.  Select, Poll, Epoll and Rts share the     *)
(* sockets, and the variables of the three that do not run stay idle.      *)
(***************************************************************************)
EXTENDS Sockets

CONSTANTS
  FewConns,  \* bounds: connections of io_epoll.c and io_rts.c,
  RtsData    \* and, for io_rts.c, unread pieces of a connection

ASSUME SocketServersAssumption ==
  /\ FewConns \subseteq Conns
  /\ RtsData \in Nat \ {0}

VARIABLES
  program,
  fd_socket, fds_read,                         \* SelectServer
  pollfds, cnt_fd_socket, ret_poll,            \* PollServer
  phase, i,                                    \* both
  urgent, interest, batch, fd, exit,           \* EpollServer
  listenq, ioq, alive, missed, lag, armed, arming  \* RtsServer

Select == INSTANCE SelectServer
Poll == INSTANCE PollServer
Epoll == INSTANCE EpollServer WITH Conns <- FewConns
Rts == INSTANCE RtsServer WITH Conns <- FewConns, MaxData <- RtsData

select_only == <<fd_socket, fds_read>>
poll_only == <<pollfds, cnt_fd_socket, ret_poll>>
loop == <<phase, i>>
epoll_only == <<urgent, interest, batch, fd, exit>>
rts_only == <<listenq, ioq, alive, missed, lag, armed, arming>>
vars ==
  <<program, sockets, select_only, poll_only, loop, epoll_only, rts_only>>

-----------------------------------------------------------------------------

NoSelect == fd_socket = << >> /\ fds_read = {}
NoPoll == pollfds = << >> /\ cnt_fd_socket = 0 /\ ret_poll = 0
NoLoop == phase = "none" /\ i = 0
NoEpoll == urgent = {} /\ interest = {} /\ batch = << >> /\ fd = -1 /\ exit = "no"
NoRts ==
  /\ listenq = 0 /\ ioq = << >> /\ alive = TRUE /\ missed = {} /\ lag = 0
  /\ armed = {} /\ arming = -1

Init ==
  \/ program = "select" /\ Select!Init /\ NoPoll /\ NoEpoll /\ NoRts
  \/ program = "poll" /\ Poll!Init /\ NoSelect /\ NoEpoll /\ NoRts
  \/ program = "epoll" /\ Epoll!Init /\ NoSelect /\ NoPoll /\ NoLoop /\ NoRts
  \/ program = "rts" /\ Rts!Init /\ NoSelect /\ NoPoll /\ NoLoop /\ NoEpoll

Runs(name) == program = name /\ UNCHANGED program

SelectRuns == Runs("select") /\ UNCHANGED <<poll_only, epoll_only, rts_only>>
PollRuns == Runs("poll") /\ UNCHANGED <<select_only, epoll_only, rts_only>>
EpollRuns == Runs("epoll") /\ UNCHANGED <<select_only, poll_only, loop, rts_only>>
RtsRuns == Runs("rts") /\ UNCHANGED <<select_only, poll_only, loop, epoll_only>>

Server ==
  \/ SelectRuns /\ Select!Server
  \/ PollRuns /\ Poll!Server
  \/ EpollRuns /\ Epoll!Server
  \/ RtsRuns /\ Rts!Server

Clients ==
  \/ SelectRuns /\ Select!Clients
  \/ PollRuns /\ Poll!Clients
  \/ EpollRuns /\ Epoll!Clients
  \/ RtsRuns /\ Rts!Clients

Next == Server \/ Clients

Spec == Init /\ [][Next]_vars

\* The server's thread runs whenever it can; clients may stop at any moment.
FairSpec == Spec /\ WF_vars(Server)

-----------------------------------------------------------------------------

\* Select and poll: the array holds the listener and each open socket once,
\* whatever del_socket has moved or left behind, so that no closed descriptor
\* makes select() fail and no session is forgotten.
TableMatchesSockets ==
  /\ program = "select" => Select!TableMatchesSockets
  /\ program = "poll" => Poll!TableMatchesSockets

\* What the last select(), poll() or epoll_wait() reported is still true when
\* the loop comes to use it, although entries and descriptors have been closed,
\* moved and given out again since: io_select.c never calls recv() on a socket
\* with nothing to read, io_poll.c's ret_poll counts what is left to visit, and
\* io_epoll.c's events are about the connections they were raised for.
ReportsCurrent ==
  /\ program = "select" => Select!RecvNeverWaits
  /\ program = "poll" => Poll!PollCountExact
  /\ program = "epoll" => Epoll!EventsCurrent

\* io_rts.c: queued signals suffice to read all data of the sessions none of
\* whose arrivals was missed.
SignalsCover == program = "rts" => Rts!SignalsCover

\* io_rts.c: while the process lives, the listen backlog is ahead of its queued
\* signals by the connections that came before F_SETOWN and the failed accept()s.
BacklogLag == program = "rts" => Rts!BacklogLag

MayDrop(c) == program = "epoll" /\ Epoll!MayDrop(c)

Excused(c) ==
  \/ program = "select" /\ Select!Excused(c)
  \/ program = "poll" /\ Poll!Excused(c)
  \/ program = "epoll" /\ Epoll!Excused(c)
  \/ program = "rts" /\ Rts!Excused(c)

\* Clients outside the bound have never connected.
ForAll(f, never) == [c \in Conns |-> IF c \in DOMAIN f THEN f[c] ELSE never]

Sessions ==
  INSTANCE SessionServer
    WITH conn <- ForAll(conn, "none"),
         data <- ForAll(data, 0),
         end <- ForAll(end, "open"),
         dropped <- {c \in DOMAIN conn : MayDrop(c)},
         excused <- {c \in DOMAIN conn : Excused(c)}

\* All four implement the abstract server: each connection is accepted or
\* refused, its data is read in pieces, and a session is closed only after its
\* client's end and all data before it were read, or, in io_epoll.c alone, when
\* its own urgent byte could not be read.
ImplementsSessions == Sessions!Spec

\* From some time on nobody connects, so nobody is refused and tries again.
NoMoreClients ==
  <>[][\A c \in DOMAIN conn : conn[c] = "none" => conn'[c] = "none"]_conn

\* A session whose client has ended it is closed, but for the cases the servers
\* name: descriptors, array or signal queue exhausted, or signals lost.  Select
\* and poll serve sessions only in rounds without a new connection; for them
\* that is said once clients connect no more.
EndedSessionsClosed ==
  (program \in {"select", "poll"} => NoMoreClients) => Sessions!EndedSessionsClosed

=============================================================================
