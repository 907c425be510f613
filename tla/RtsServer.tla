------------------------------ MODULE RtsServer ------------------------------
(***************************************************************************)
(* Chapter10/io_rts.c: a server that waits for nothing but real-time       *)
(* signals.  The kernel queues one for each arrival on a socket that       *)
(* add_rts_socket has prepared; each signal makes the server call accept() *)
(* or recv() once.  Signals are edges: what arrives before add_rts_socket  *)
(* is done raises none, and nobody looks at the socket again.  When the    *)
(* signal queue is full the kernel sends SIGIO, which ends the process.    *)
(*                                                                         *)
(* Here a piece of data is what arrives at once; recv() may return several *)
(* pieces, but of a burst longer than its buffer only a part.              *)
(***************************************************************************)
EXTENDS Sockets

VARIABLES
  listenq,  \* pending SIGRT_LISTEN_TO
  ioq,      \* pending SIGRT_NORM_IO: si_fd and si_band
  armed,    \* the descriptors add_rts_socket is done with
  arming,   \* the descriptor add_rts_socket is working on, or -1
  alive,
  missed,   \* history: connections of which some arrival raised no POLLIN
  lag       \* history: connections before F_SETOWN, and accept()s that failed

signals == <<listenq, ioq, alive, missed, lag>>
server == <<armed, arming>>
vars == <<sockets, signals, server>>

Signal == [fd : Fds, band : {"POLLIN", "POLLERR"}]

TypeOK ==
  /\ SocketsTypeOK
  /\ listenq \in Nat /\ ioq \in Seq(Signal)
  /\ listenq + Len(ioq) <= SigMax
  /\ armed \subseteq Fds \cup {Listener}
  /\ arming \in Fds \cup {Listener, -1}
  /\ alive \in BOOLEAN
  /\ missed \subseteq Conns
  /\ lag \in 0 .. Cardinality(Conns)

\* make_listener has called listen().
Init ==
  /\ SocketsInit
  /\ listenq = 0 /\ ioq = << >>
  /\ armed = {}
  /\ arming = Listener
  /\ alive = TRUE
  /\ missed = {}
  /\ lag = 0

-----------------------------------------------------------------------------
(* The kernel raises signals for what clients do.                          *)

QueueFull == listenq + Len(ioq) >= SigMax

MutRaise(f, band) ==
  IF \E k \in DOMAIN ioq : ioq[k].fd = f
    THEN UNCHANGED <<ioq, alive>>
    ELSE ioq' = Append(ioq, [fd |-> f, band |-> band]) /\ UNCHANGED alive

\* F_SETSIG with a real-time signal: each one is queued, or SIGIO is sent.
Raise(f, band) ==
  IF QueueFull
    THEN alive' = FALSE /\ UNCHANGED ioq
    ELSE ioq' = Append(ioq, [fd |-> f, band |-> band]) /\ UNCHANGED alive

MutRaiseListen ==
  listenq' = 1 /\ UNCHANGED <<alive, lag>>

RaiseListen ==
  IF QueueFull
    THEN alive' = FALSE /\ UNCHANGED <<listenq, lag>>
    ELSE listenq' = listenq + 1 /\ UNCHANGED <<alive, lag>>

FdOf(c) == CHOOSE f \in Fds : sock[f] = c

ArmedConn(c) == \E f \in armed \ {Listener} : sock[f] = c

Connecting(c) ==
  /\ alive
  /\ Connect(c)
  /\ IF Listener \in armed
       THEN RaiseListen
       ELSE lag' = lag + 1 /\ UNCHANGED <<listenq, alive>>
  /\ UNCHANGED <<ioq, missed, server>>

\* Something arrives on c that can be read.
Arrives(c) ==
  /\ IF ArmedConn(c)
       THEN Raise(FdOf(c), "POLLIN") /\ UNCHANGED missed
       ELSE missed' = missed \cup {c} /\ UNCHANGED <<ioq, alive>>
  /\ UNCHANGED <<listenq, lag, server>>

Sending(c) == alive /\ Send(c) /\ Arrives(c)

\* More than rbuf holds, with one signal.
SendingBurst(c) ==
  /\ alive
  /\ conn[c] = "accepted" /\ end[c] = "open" /\ ArmedConn(c)
  /\ data[c] + 2 <= MaxData
  /\ data' = [data EXCEPT ![c] = @ + 2]
  /\ Raise(FdOf(c), "POLLIN")
  /\ missed' = missed \cup {c}
  /\ UNCHANGED <<conn, end, sock, nofile, listenq, lag, server>>

Ending(c) ==
  /\ alive
  /\ conn[c] \in {"queued", "accepted"} /\ end[c] = "open"
  /\ end' = [end EXCEPT ![c] = "eof"]
  /\ Arrives(c)
  /\ UNCHANGED <<conn, data, sock, nofile>>

\* A reset is reported as POLLERR without POLLIN.
Resetting(c) ==
  /\ alive
  /\ conn[c] \in {"queued", "accepted"} /\ end[c] = "open"
  /\ end' = [end EXCEPT ![c] = "rst"]
  /\ missed' = missed \cup {c}
  /\ IF ArmedConn(c) THEN Raise(FdOf(c), "POLLERR") ELSE UNCHANGED <<ioq, alive>>
  /\ UNCHANGED <<conn, data, sock, nofile, listenq, lag, server>>

-----------------------------------------------------------------------------
(* The server.  sigwaitinfo() takes the lowest signal first: the           *)
(* listener's.                                                             *)

\* O_NONBLOCK and O_ASYNC, F_SETSIG, and last F_SETOWN, which starts the signals.
add_rts_socket ==
  /\ alive /\ arming # -1
  /\ armed' = armed \cup {arming}
  /\ arming' = -1
  /\ UNCHANGED <<sockets, signals>>

Waiting == alive /\ arming = -1

accept_client ==
  /\ Waiting /\ listenq > 0
  /\ listenq' = listenq - 1
  /\ \E c \in Conns : Accept(c)
  /\ arming' = AcceptFd
  /\ UNCHANGED <<ioq, armed, alive, missed, lag>>

\* EMFILE: the signal is used up, the connection keeps waiting.
accept_fails ==
  /\ Waiting /\ listenq > 0
  /\ FreeFds = {}
  /\ listenq' = listenq - 1
  /\ lag' = lag + 1
  /\ UNCHANGED <<sockets, ioq, server, alive, missed>>

NormIo(band) ==
  Waiting /\ listenq = 0 /\ ioq # << >> /\ Head(ioq).band = band

si_fd == Head(ioq).fd

recv_data ==
  /\ NormIo("POLLIN")
  /\ LET c == sock[si_fd]
     IN  /\ c # NoConn /\ data[c] > 0
         /\ \E n \in 0 .. data[c] - 1 : data' = [data EXCEPT ![c] = n]
  /\ ioq' = Tail(ioq)
  /\ UNCHANGED <<conn, end, sock, nofile, listenq, server, alive, missed, lag>>

\* ECONNRESET, EAGAIN or EBADF: only printed.
recv_fails ==
  /\ NormIo("POLLIN")
  /\ IF Readable(si_fd) THEN RecvReset(si_fd) ELSE UNCHANGED sockets
  /\ ioq' = Tail(ioq)
  /\ UNCHANGED <<listenq, server, alive, missed, lag>>

\* The signals of the closed socket that are still queued go to whoever gets
\* its descriptor next.
recv_eof ==
  /\ NormIo("POLLIN")
  /\ AtEof(si_fd)
  /\ Close(si_fd)
  /\ armed' = armed \ {si_fd}
  /\ ioq' = Tail(ioq)
  /\ UNCHANGED <<listenq, arming, alive, missed, lag>>

pollerr ==
  /\ NormIo("POLLERR")
  /\ ioq' = Tail(ioq)
  /\ UNCHANGED <<sockets, listenq, server, alive, missed, lag>>

-----------------------------------------------------------------------------

Server ==
  \/ add_rts_socket
  \/ accept_client \/ accept_fails
  \/ recv_data \/ recv_fails \/ recv_eof \/ pollerr

Clients ==
  \E c \in Conns :
    Connecting(c) \/ Sending(c) \/ SendingBurst(c) \/ Ending(c) \/ Resetting(c)

Next == Server \/ Clients

Spec == Init /\ [][Next]_vars

\* The server's thread runs whenever it can; nothing is assumed of clients.
FairSpec == Spec /\ WF_vars(Server)

-----------------------------------------------------------------------------

Pending(f) ==
  Cardinality({k \in DOMAIN ioq : ioq[k].fd = f /\ ioq[k].band = "POLLIN"})

\* For every session none of whose arrivals was missed, as many signals are
\* queued as recv() calls may be needed to read all its data and its end,
\* however recv() joins pieces and whoever's stale signals come between.
SignalsCover ==
  /\ TypeOK
  /\ \A f \in OpenFds :
       alive /\ sock[f] \notin missed
         => Pending(f) >= data[sock[f]] + (IF end[sock[f]] = "open" THEN 0 ELSE 1)

\* Until the signal queue overflows, which ends the process, the backlog is as
\* long as the signals that announce it, plus the connections that came before
\* the listener was prepared, plus one for each accept() that found no
\* descriptor: that many clients stay unaccepted for as long as no others come.
BacklogLag == alive => Cardinality(Queued) = listenq + lag

\* Sessions may stay open although their clients ended them: one of whose
\* arrivals some raised no signal, and all when the signal queue overflows.
Excused(c) == c \in missed \/ ~alive

=============================================================================
