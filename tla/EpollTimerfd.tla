---------------------------- MODULE EpollTimerfd ----------------------------
(***************************************************************************)
(* Chapter11/epoll_timerfd.c: a single-threaded TCP server that gives each *)
(* connection a timerfd and closes the connection when the timer expires.  *)
(* One epoll set watches the listener, the sockets and the timers; an      *)
(* event carries nothing but a descriptor number, and get_epollevent works *)
(* through a whole batch of events while the descriptors it closes may     *)
(* already be in use again.                                                *)
(*                                                                         *)
(* The kernel's side (lowest free descriptor, what is readable, timers) is *)
(* modelled from how the code uses it.  A connection is never reused, so   *)
(* that a descriptor's old and new owner can be told apart.                *)
(***************************************************************************)
EXTENDS Integers, Sequences, FiniteSets, Functions

CONSTANTS
  Conns,          \* bound: the connections clients ever make
  NoConn,         \* no connection
  NFds,           \* bound: descriptors a process may have for sessions
  max_ep_events,  \* the size of ep_events
  AllocStep       \* how many entries a realloc adds (16 in the code)

ASSUME EpollTimerfdAssumption ==
  /\ NoConn \notin Conns
  /\ NFds \in Nat \ {0}
  /\ max_ep_events \in Nat \ {0}
  /\ AllocStep \in Nat \ {0}

Fds == 1 .. NFds
Listener == 0  \* fd_listener

VARIABLES
  conn,         \* each connection: "none", "queued", "accepted" or "closed"
  data,         \* data[c]: unread bytes of c wait in the socket
  end,          \* how c's client ended it: "open", "eof" or "rst"
  nofile,       \* RLIMIT_NOFILE: how many descriptors it does have
  sock,         \* sock[fd]: the connection descriptor fd is a socket of
  timer,        \* timer[fd]: "none" if fd is no timer, else "armed", "expired"
  interest,     \* the descriptors in the epoll set, the listener left out
  list,         \* fds_list.list[0 .. n_used - 1]
  n_allocated,  \* fds_list.n_allocated
  batch,        \* the events get_epollevent has still to handle
  alive,        \* the process has not exited
  fresh,        \* history: timers set since epoll_wait returned
  shortage      \* history: fds_new_timerfd has failed once

kernel == <<conn, data, end, nofile>>
table == <<sock, timer, interest, list, n_allocated>>
vars == <<kernel, table, batch, alive, fresh, shortage>>

Session == [socketfd : Fds, timerfd : Fds]

TypeOK ==
  /\ conn \in [Conns -> {"none", "queued", "accepted", "closed"}]
  /\ data \in [Conns -> BOOLEAN]
  /\ end \in [Conns -> {"open", "eof", "rst"}]
  /\ nofile \in Fds
  /\ sock \in [Fds -> Conns \cup {NoConn}]
  /\ timer \in [Fds -> {"none", "armed", "expired"}]
  /\ interest \subseteq Fds
  /\ list \in Seq(Session)
  /\ n_allocated \in Nat /\ Len(list) <= n_allocated
  /\ batch \in Seq(Fds \cup {Listener})
  /\ alive \in BOOLEAN
  /\ fresh \subseteq Fds
  /\ shortage \in BOOLEAN

\* main up to its loop: the listener is in the epoll set, without a timer.
Init ==
  /\ conn = [c \in Conns |-> "none"]
  /\ data = [c \in Conns |-> FALSE]
  /\ end = [c \in Conns |-> "open"]
  /\ nofile \in Fds
  /\ sock = [fd \in Fds |-> NoConn]
  /\ timer = [fd \in Fds |-> "none"]
  /\ interest = {}
  /\ list = << >>
  /\ n_allocated = 0
  /\ batch = << >>
  /\ alive = TRUE
  /\ fresh = {}
  /\ shortage = FALSE

-----------------------------------------------------------------------------
(* Clients and time.                                                       *)

Connect(c) ==
  /\ conn[c] = "none"
  /\ conn' = [conn EXCEPT ![c] = "queued"]
  /\ UNCHANGED <<data, end, nofile, table, batch, alive, fresh, shortage>>

Send(c) ==
  /\ conn[c] \in {"queued", "accepted"} /\ end[c] = "open" /\ ~data[c]
  /\ data' = [data EXCEPT ![c] = TRUE]
  /\ UNCHANGED <<conn, end, nofile, table, batch, alive, fresh, shortage>>

Hangup(c) ==
  /\ conn[c] \in {"queued", "accepted"} /\ end[c] = "open"
  /\ \E how \in {"eof", "rst"} : end' = [end EXCEPT ![c] = how]
  /\ UNCHANGED <<conn, data, nofile, table, batch, alive, fresh, shortage>>

Expire(fd) ==
  /\ timer[fd] = "armed"
  /\ timer' = [timer EXCEPT ![fd] = "expired"]
  /\ UNCHANGED <<kernel, sock, interest, list, n_allocated, batch, alive,
                 fresh, shortage>>

-----------------------------------------------------------------------------
(* epoll_wait                                                              *)

Queued == {c \in Conns : conn[c] = "queued"}

Readable(fd) ==
  \/ timer[fd] = "expired"
  \/ sock[fd] # NoConn /\ (data[sock[fd]] \/ end[sock[fd]] # "open")

Ready == {fd \in interest : Readable(fd)}
           \cup (IF Queued = {} THEN {} ELSE {Listener})

\* The kernel reports ready descriptors in any order, at most max_ep_events.
epoll_wait ==
  /\ alive /\ batch = << >>
  /\ Ready # {}
  /\ LET n == IF Cardinality(Ready) < max_ep_events
                THEN Cardinality(Ready) ELSE max_ep_events
     IN  batch' \in {b \in [1 .. n -> Ready] : IsInjective(b)}
  /\ fresh' = {}
  /\ UNCHANGED <<kernel, table, alive, shortage>>

Event == Head(batch)

Handling == alive /\ batch # << >>

-----------------------------------------------------------------------------
(* The session table.                                                      *)

FreeFds == {fd \in 1 .. nofile : sock[fd] = NoConn /\ timer[fd] = "none"}

\* The kernel hands out the lowest free descriptor.
LowestFree(S) == CHOOSE fd \in S : \A g \in S : fd <= g

Earliest(hits) == list[CHOOSE i \in hits : \A k \in hits : i <= k]

SocketHits(fd) == {i \in DOMAIN list : list[i].socketfd = fd}
HasSocket(fd) == SocketHits(fd) # {}
fds_findbysocketfd(fd) == Earliest(SocketHits(fd))

MutTimerHits(fd) == {i \in DOMAIN list : list[i].socketfd = fd}

TimerHits(fd) == {i \in DOMAIN list : list[i].timerfd = fd}
HasTimer(fd) == TimerHits(fd) # {}
fds_findbytimerfd(fd) == Earliest(TimerHits(fd))

MutDelete(tfd) == SubSeq(list, 1, Len(list) - 1)

\* The last entry moves into the place of the deleted one.
fds_deletebytimerfd(tfd) ==
  LET i == CHOOSE i \in DOMAIN list :
             list[i].timerfd = tfd /\ \A k \in 1 .. i - 1 : list[k].timerfd # tfd
  IN  SubSeq([list EXCEPT ![i] = list[Len(list)]], 1, Len(list) - 1)

MutDelEv(fd) ==
  IF fd \notin interest \/ ~HasSocket(fd)
    THEN alive' = FALSE /\ UNCHANGED <<conn, table>>
    ELSE LET tfd == fds_findbysocketfd(fd).timerfd
         IN  /\ conn' = [conn EXCEPT ![sock[fd]] = "closed"]
             /\ sock' = [sock EXCEPT ![fd] = NoConn]
             /\ interest' = interest \ {fd, tfd}
             /\ list' = fds_deletebytimerfd(tfd)
             /\ UNCHANGED <<alive, timer, n_allocated>>

\* del_ev under DEL_EV: the socket and its timer leave the epoll set and are
\* closed, and the entry is deleted; whatever fails ends the process.
del_ev(fd) ==
  IF fd \notin interest \/ ~HasSocket(fd)
    THEN alive' = FALSE /\ UNCHANGED <<conn, table>>
    ELSE LET tfd == fds_findbysocketfd(fd).timerfd
         IN  IF tfd \notin interest
               THEN alive' = FALSE /\ UNCHANGED <<conn, table>>
               ELSE /\ conn' = [conn EXCEPT ![sock[fd]] = "closed"]
                    /\ sock' = [sock EXCEPT ![fd] = NoConn]
                    /\ timer' = [timer EXCEPT ![tfd] = "none"]
                    /\ interest' = interest \ {fd, tfd}
                    /\ list' = fds_deletebytimerfd(tfd)
                    /\ UNCHANGED <<alive, n_allocated>>

-----------------------------------------------------------------------------
(* An event of the listener: accept until accept fails.                    *)

\* fds_new_timerfd first makes room in the list, if it is full.
fds_grow ==
  IF Len(list) = n_allocated
    THEN n_allocated' = n_allocated + AllocStep
    ELSE UNCHANGED n_allocated

MutAdded(fd, tfd) == {fd}

\* The two EPOLL_CTL_ADDs of add_ev.
Added(fd, tfd) == {fd, tfd}

\* A descriptor is left for the timer: add_ev does all it should.
accept_session ==
  /\ Handling /\ Event = Listener
  /\ \E c \in Queued :
       /\ Cardinality(FreeFds) > 1
       /\ LET fd == LowestFree(FreeFds)
              tfd == LowestFree(FreeFds \ {fd})
          IN  /\ conn' = [conn EXCEPT ![c] = "accepted"]
              /\ sock' = [sock EXCEPT ![fd] = c]
              /\ timer' = [timer EXCEPT ![tfd] = "armed"]
              /\ interest' = interest \cup Added(fd, tfd)
              /\ list' = Append(list, [socketfd |-> fd, timerfd |-> tfd])
              /\ fresh' = fresh \cup {tfd}
  /\ fds_grow
  /\ UNCHANGED <<data, end, nofile, batch, alive, shortage>>

\* realloc or timerfd_create fails.  add_ev returns errno, which ADD_EV does
\* not take for an error: the socket stays open and watched, without a timer
\* and without an entry in the list.
accept_timerless ==
  /\ Handling /\ Event = Listener
  /\ FreeFds # {}
  /\ \/ Len(list) = n_allocated /\ UNCHANGED n_allocated
     \/ Cardinality(FreeFds) = 1 /\ fds_grow
  /\ \E c \in Queued :
       LET fd == LowestFree(FreeFds)
       IN  /\ conn' = [conn EXCEPT ![c] = "accepted"]
           /\ sock' = [sock EXCEPT ![fd] = c]
           /\ interest' = interest \cup {fd}
  /\ shortage' = TRUE
  /\ UNCHANGED <<data, end, nofile, timer, list, batch, alive, fresh>>

\* EAGAIN, or no descriptor is left: on to the next event.
accept_stops ==
  /\ Handling /\ Event = Listener
  /\ Queued = {} \/ FreeFds = {}
  /\ batch' = Tail(batch)
  /\ UNCHANGED <<kernel, table, alive, fresh, shortage>>

-----------------------------------------------------------------------------
(* Other events.                                                           *)

\* The descriptor is some session's timer: the session is closed.  The timer
\* itself is not read.
handle_timeout ==
  /\ Handling /\ Event # Listener
  /\ HasTimer(Event)
  /\ del_ev(fds_findbytimerfd(Event).socketfd)
  /\ batch' = Tail(batch)
  /\ UNCHANGED <<data, end, nofile, fresh, shortage>>

Receiving == Handling /\ Event # Listener /\ ~HasTimer(Event)

\* recv() has nothing to return: EBADF, or EAGAIN on a reused descriptor.
recv_nothing ==
  /\ Receiving
  /\ sock[Event] # NoConn => ~data[sock[Event]] /\ end[sock[Event]] = "open"
  /\ batch' = Tail(batch)
  /\ UNCHANGED <<kernel, table, alive, fresh, shortage>>

\* ECONNRESET is reported once; after that recv() returns 0.
recv_reset ==
  /\ Receiving
  /\ LET c == sock[Event]
     IN  /\ c # NoConn /\ ~data[c] /\ end[c] = "rst"
         /\ end' = [end EXCEPT ![c] = "eof"]
  /\ batch' = Tail(batch)
  /\ UNCHANGED <<conn, data, nofile, table, alive, fresh, shortage>>

recv_eof ==
  /\ Receiving
  /\ LET c == sock[Event]
     IN  c # NoConn /\ ~data[c] /\ end[c] = "eof"
  /\ del_ev(Event)
  /\ batch' = Tail(batch)
  /\ UNCHANGED <<data, end, nofile, fresh, shortage>>

\* recv() returns up to sizeof(buf) bytes, maybe not all there are.
recv_bytes ==
  /\ Receiving
  /\ LET c == sock[Event]
     IN  /\ c # NoConn /\ data[c]
         /\ data' \in {data, [data EXCEPT ![c] = FALSE]}
  /\ UNCHANGED <<conn, end, nofile, sock, interest, list, n_allocated, alive, shortage>>

\* fds_set_timerfd starts the session's timer again.
recv_data ==
  /\ recv_bytes
  /\ HasSocket(Event)
  /\ LET tfd == fds_findbysocketfd(Event).timerfd
     IN  /\ timer' = [timer EXCEPT ![tfd] = "armed"]
         /\ fresh' = fresh \cup {tfd}
  /\ batch' = Tail(batch)

\* There is no session: get_epollevent returns, and forgets its other events.
recv_data_timerless ==
  /\ recv_bytes
  /\ ~HasSocket(Event)
  /\ batch' = << >>
  /\ UNCHANGED <<timer, fresh>>

-----------------------------------------------------------------------------

Server ==
  \/ epoll_wait
  \/ accept_session \/ accept_timerless \/ accept_stops
  \/ handle_timeout
  \/ recv_nothing \/ recv_reset \/ recv_eof \/ recv_data \/ recv_data_timerless

Clients == \E c \in Conns : Connect(c) \/ Send(c) \/ Hangup(c)

Next == Server \/ Clients \/ \E fd \in Fds : Expire(fd)

Spec == Init /\ [][Next]_vars

\* The server's thread runs whenever it can, and time passes.  Nothing is
\* assumed of the clients.
FairSpec ==
  /\ Spec
  /\ WF_vars(Server)
  /\ \A fd \in Fds : WF_vars(Expire(fd))

-----------------------------------------------------------------------------

Sockets == {fd \in Fds : sock[fd] # NoConn}
Timers == {fd \in Fds : timer[fd] # "none"}

\* The sockets without a session entry.
Timerless == {fd \in Sockets : ~HasSocket(fd)}

\* The session table and the descriptors agree after every event, however
\* descriptor numbers are reused within a batch: sessions own distinct open
\* sockets and distinct open timers, no timer is left without its session, no
\* descriptor is both, and the epoll set holds exactly the open descriptors
\* (so EPOLL_CTL_DEL never fails).
TableMatchesFds ==
  /\ TypeOK
  /\ {list[i].timerfd : i \in DOMAIN list} = Timers
  /\ {list[i].socketfd : i \in DOMAIN list} \subseteq Sockets
  /\ \A i, k \in DOMAIN list :
       list[i].timerfd = list[k].timerfd \/ list[i].socketfd = list[k].socketfd
         => i = k
  /\ Sockets \cap Timers = {}
  /\ interest = Sockets \cup Timers

\* As long as fds_new_timerfd has not failed, every socket has its timer and no
\* order of clients, time-outs and stale events makes the server exit.
SafeUntilShortage == ~shortage => alive /\ Timerless = {}

\* A session is closed by a time-out only if its timer has expired, or if the
\* timer was set while the current batch was being handled: the event was then
\* raised by an expiry before the client's last data, or by the descriptor's
\* former owner.
TimeoutJustified ==
  [][handle_timeout => timer[Event] = "expired" \/ Event \in fresh]_vars

\* A session whose client stays silent is closed, unless a timerless client
\* makes get_epollevent forget events.
SilentSessionsClosed ==
  \A c \in Conns :
    (\E fd \in Sockets : sock[fd] = c /\ HasSocket(fd))
      ~> (conn[c] = "closed" \/ data[c] \/ Timerless # {})

=============================================================================
