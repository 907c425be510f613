----------------------------- MODULE EpollServer -----------------------------
(***************************************************************************)
(* Chapter07/io_epoll.c: a single-threaded server around a level-triggered *)
(* epoll set.  A batch of events is worked through while sockets are       *)
(* closed and accepted.  When recv() fails the code deletes fd, the        *)
(* variable of the accept loop, and not the descriptor of the event.       *)
(* Urgent data is read with MSG_OOB when there is nothing else to read.    *)
(*                                                                         *)
(* EPOLLERR and the last branch never come without EPOLLIN or EPOLLPRI on  *)
(* a TCP socket.                                                           *)
(***************************************************************************)
EXTENDS Sockets, Functions

VARIABLES
  urgent,    \* urgent[c]: "none", announced but "notyet" there, or "valid"
  interest,  \* the sockets in the epoll set (the listener always is in it)
  batch,     \* the events still to be handled; .of, the connection, is history
  fd,        \* the variable fd of main
  exit       \* "no", or what made the process exit

server == <<interest, batch, fd, exit>>
vars == <<sockets, urgent, server>>

Kinds == {"EPOLLIN", "EPOLLPRI"}

TypeOK ==
  /\ SocketsTypeOK
  /\ urgent \in [Conns -> {"none", "notyet", "valid"}]
  /\ interest \subseteq Fds
  /\ batch \in Seq([fd : Fds \cup {Listener}, kind : Kinds,
                    of : Conns \cup {NoConn}])
  /\ fd \in Fds \cup {Listener, -1}
  /\ exit \in {"no", "add_ev", "del_ev", "overrun"}

\* fd is not initialised.
Init ==
  /\ SocketsInit
  /\ urgent = [c \in Conns |-> "none"]
  /\ interest = {}
  /\ batch = << >>
  /\ fd \in Fds \cup {Listener, -1}
  /\ exit = "no"

-----------------------------------------------------------------------------
(* Urgent data: the announcement and the byte may come apart, and a new    *)
(* announcement takes the place of an urgent byte that was not read.       *)

UrgentAnnounced(c) ==
  /\ conn[c] \in {"queued", "accepted"} /\ end[c] = "open"
  /\ urgent' = [urgent EXCEPT ![c] = "notyet"]
  /\ UNCHANGED <<sockets, server>>

UrgentArrives(c) ==
  /\ urgent[c] = "notyet" /\ end[c] = "open"
  /\ urgent' = [urgent EXCEPT ![c] = "valid"]
  /\ UNCHANGED <<sockets, server>>

\* recv(MSG_OOB) fails with ENOTCONN or EAGAIN.
OobFails(c) == end[c] = "rst" \/ (end[c] = "open" /\ urgent[c] = "notyet")

-----------------------------------------------------------------------------

Kind(f) == IF Readable(f) THEN "EPOLLIN" ELSE "EPOLLPRI"

Ready ==
  {f \in interest \cup {Listener} :
     Readable(f) \/ (f # Listener /\ sock[f] # NoConn /\ urgent[sock[f]] = "valid")}

\* epoll_wait() is allowed max_open_files events, but ep_events has room for
\* max_ep_events: with more than that the kernel writes past its end, which may
\* hit nothing of importance or break the process.
AfterWait ==
  IF Cardinality(Ready) <= max_ep_events THEN {"no"} ELSE {"no", "overrun"}

\* The kernel reports the ready descriptors in any order.
epoll_wait ==
  /\ exit = "no" /\ batch = << >>
  /\ Ready # {}
  /\ \E order \in {b \in [1 .. Cardinality(Ready) -> Ready] : IsInjective(b)} :
       batch' = [k \in DOMAIN order |->
                   [fd |-> order[k], kind |-> Kind(order[k]),
                    of |-> IF order[k] = Listener THEN NoConn ELSE sock[order[k]]]]
  /\ exit' \in AfterWait
  /\ UNCHANGED <<sockets, urgent, interest, fd>>

Event == Head(batch)

Handling(kind) ==
  exit = "no" /\ batch # << >> /\ Event.fd # Listener /\ Event.kind = kind

Accepting == exit = "no" /\ batch # << >> /\ Event.fd = Listener

-----------------------------------------------------------------------------
(* The accept loop.                                                        *)

MutAddEv == UNCHANGED interest

\* EPOLL_CTL_ADD
add_ev == interest' = interest \cup {AcceptFd}

MutRemaining == Tail(batch)

\* The accept loop goes on until accept() fails.
Remaining == batch

accept_add ==
  /\ Accepting
  /\ \E c \in Conns : Accept(c)
  /\ fd' = AcceptFd
  /\ add_ev
  /\ batch' = Remaining
  /\ UNCHANGED <<urgent, exit>>

\* ENOMEM or ENOSPC.
accept_add_fails ==
  /\ Accepting
  /\ \E c \in Conns : Accept(c)
  /\ fd' = AcceptFd
  /\ exit' = "add_ev"
  /\ UNCHANGED <<urgent, interest, batch>>

\* EAGAIN, or EMFILE.
accept_stops ==
  /\ Accepting
  /\ Queued = {} \/ FreeFds = {}
  /\ fd' = -1
  /\ batch' = Tail(batch)
  /\ UNCHANGED <<sockets, urgent, interest, exit>>

-----------------------------------------------------------------------------
(* Events of sessions.                                                     *)

\* del_ev under DEL_EV: EPOLL_CTL_DEL and close(), or the process exits.
del_ev(f) ==
  IF f \in interest
    THEN Close(f) /\ interest' = interest \ {f} /\ UNCHANGED exit
    ELSE exit' = "del_ev" /\ UNCHANGED <<sockets, interest>>

recv_data ==
  /\ Handling("EPOLLIN")
  /\ RecvData(Event.fd)
  /\ batch' = Tail(batch)
  /\ UNCHANGED <<urgent, interest, fd, exit>>

recv_eof ==
  /\ Handling("EPOLLIN")
  /\ AtEof(Event.fd)
  /\ del_ev(Event.fd)
  /\ batch' = Tail(batch)
  /\ UNCHANGED <<urgent, fd>>

\* ECONNRESET, EBADF, or EAGAIN from a socket that has nothing to read.
recv_fails ==
  /\ Handling("EPOLLIN")
  /\ AtReset(Event.fd) \/ ~Readable(Event.fd)
  /\ del_ev(fd)
  /\ batch' = Tail(batch)
  /\ UNCHANGED <<urgent, fd>>

recv_oob ==
  /\ Handling("EPOLLPRI")
  /\ LET c == sock[Event.fd]
     IN  /\ c # NoConn /\ ~OobFails(c)
         /\ urgent' = [urgent EXCEPT ![c] = "none"]
  /\ batch' = Tail(batch)
  /\ UNCHANGED <<sockets, interest, fd, exit>>

recv_oob_fails ==
  /\ Handling("EPOLLPRI")
  /\ sock[Event.fd] = NoConn \/ OobFails(sock[Event.fd])
  /\ del_ev(Event.fd)
  /\ batch' = Tail(batch)
  /\ UNCHANGED <<urgent, fd>>

-----------------------------------------------------------------------------

Server ==
  \/ epoll_wait
  \/ accept_add \/ accept_add_fails \/ accept_stops
  \/ recv_data \/ recv_eof \/ recv_fails \/ recv_oob \/ recv_oob_fails

Clients ==
  \/ (\E c \in Conns : Client(c)) /\ UNCHANGED <<urgent, server>>
  \/ \E c \in Conns : UrgentAnnounced(c) \/ UrgentArrives(c)

Next == Server \/ Clients

Spec == Init /\ [][Next]_vars

\* The server's thread runs whenever it can; nothing is assumed of clients.
FairSpec == Spec /\ WF_vars(Server)

-----------------------------------------------------------------------------

\* Every event still in the batch is about the connection it was raised for,
\* although descriptors are closed and reused within the batch, and a socket
\* reported with EPOLLIN can still be read: recv() fails on a reset only.  The
\* epoll set and the open sockets agree throughout.
EventsCurrent ==
  /\ TypeOK
  /\ exit = "no" =>
       /\ interest = OpenFds
       /\ \A k \in DOMAIN batch :
            batch[k].fd # Listener =>
              /\ sock[batch[k].fd] = batch[k].of
              /\ batch[k].kind = "EPOLLIN" => Readable(batch[k].fd)

\* Sessions are cut off while their clients are there and have data unread only
\* when their own urgent byte could not be read: because of a reset, or because
\* a second announcement came after epoll_wait.  The wrong DEL_EV after a failed
\* recv() cuts off nobody: fd always is -1 by then, never garbage and never
\* another session's socket.
MayDrop(c) == batch # << >> /\ Event.of = c /\ OobFails(c)

\* Sessions may stay open although their clients ended them when the process
\* exits: because of epoll_ctl(), or, if there can be more sockets than
\* ep_events has room for, because of its overrun.
Excused(c) == exit \in {"add_ev", "del_ev"} \/ (exit = "overrun" /\ nofile >= max_ep_events)

=============================================================================
