---------------------------- MODULE PreforkServer ----------------------------
(***************************************************************************)
(* Chapter06/inet_tcp_serv1.c, inet6_tcp_serv1.c and unix_tcp_serv.c: a    *)
(* parent forks MAX_POOL children that accept from one listener, and each  *)
(* echoes what its client sends.  The programs differ in what a child does *)
(* when a session ends or fails: inet's pr_err exits, inet6 has no case    *)
(* for recv() returning 0, and unix forgets the socket when recv() fails.  *)
(* No child is ever replaced, and a broken connection raises SIGPIPE.      *)
(***************************************************************************)
EXTENDS Integers, FiniteSets

CONSTANTS
  Kids,    \* the pool: MAX_POOL children
  Conns,   \* bound: the connections clients ever make
  NoConn,  \* no connection
  MaxFds   \* descriptors of a child left for sockets

ASSUME PreforkServerAssumption ==
  /\ NoConn \notin Conns
  /\ MaxFds \in Nat \ {0}

VARIABLES
  program,  \* which of the three programs runs
  conn,     \* each connection: "none", "queued", "taken" or "closed"
  data,     \* data[c]: there is something to read
  end,      \* "open"; "eof": ended by the client; "rst": reset while open;
            \* "broken": reset or closed altogether after the end
  pc,       \* where each child is
  cfd,      \* the session of each child
  leaked,   \* sessions whose socket a child keeps open and has forgotten
  starved   \* history: children that exited for lack of descriptors

vars == <<program, conn, data, end, pc, cfd, leaked, starved>>

TypeOK ==
  /\ program \in {"inet", "inet6", "unix"}
  /\ conn \in [Conns -> {"none", "queued", "taken", "closed"}]
  /\ data \in [Conns -> BOOLEAN]
  /\ end \in [Conns -> {"open", "eof", "rst", "broken"}]
  /\ pc \in [Kids -> {"accept", "recv", "send", "gone"}]
  /\ cfd \in [Kids -> Conns \cup {NoConn}]
  /\ leaked \in [Kids -> SUBSET Conns]
  /\ \A k \in Kids :
       Cardinality(leaked[k] \cup ({cfd[k]} \ {NoConn})) <= MaxFds
  /\ starved \subseteq Kids

\* main has listened and forked the pool.
Init ==
  /\ program \in {"inet", "inet6", "unix"}
  /\ conn = [c \in Conns |-> "none"]
  /\ data = [c \in Conns |-> FALSE]
  /\ end = [c \in Conns |-> "open"]
  /\ pc = [k \in Kids |-> "accept"]
  /\ cfd = [k \in Kids |-> NoConn]
  /\ leaked = [k \in Kids |-> {}]
  /\ starved = {}

server == <<program, pc, cfd, leaked, starved>>

-----------------------------------------------------------------------------
(* Clients.                                                                *)

\* The listener is open as long as a child is there, and in the programs
\* whose parent never ends.
Connect(c) ==
  /\ conn[c] = "none"
  /\ program = "inet" => \E k \in Kids : pc[k] # "gone"
  /\ conn' = [conn EXCEPT ![c] = "queued"]
  /\ UNCHANGED <<data, end, server>>

Send(c) ==
  /\ conn[c] \in {"queued", "taken"} /\ end[c] = "open" /\ ~data[c]
  /\ data' = [data EXCEPT ![c] = TRUE]
  /\ UNCHANGED <<conn, end, server>>

Hangup(c) ==
  /\ conn[c] \in {"queued", "taken"}
  /\ \/ end[c] = "open" /\ \E how \in {"eof", "rst"} : end' = [end EXCEPT ![c] = how]
     \/ end[c] = "eof" /\ end' = [end EXCEPT ![c] = "broken"]
  /\ UNCHANGED <<conn, data, server>>

Client(c) == Connect(c) \/ Send(c) \/ Hangup(c)

-----------------------------------------------------------------------------
(* What becomes of a child and its session.                                *)

\* break, with the socket closed.
Closes(k) ==
  /\ conn' = [conn EXCEPT ![cfd[k]] = "closed"]
  /\ cfd' = [cfd EXCEPT ![k] = NoConn]
  /\ pc' = [pc EXCEPT ![k] = "accept"]
  /\ UNCHANGED leaked

\* exit() or SIGPIPE: the kernel closes the child's sockets.
Ends(k) ==
  /\ conn' = [c \in Conns |->
       IF c = cfd[k] \/ c \in leaked[k] THEN "closed" ELSE conn[c]]
  /\ cfd' = [cfd EXCEPT ![k] = NoConn]
  /\ leaked' = [leaked EXCEPT ![k] = {}]
  /\ pc' = [pc EXCEPT ![k] = "gone"]

MutLeaksExits(k) == Ends(k)

\* break, with the socket left open.
Leaks(k) ==
  /\ leaked' = [leaked EXCEPT ![k] = @ \cup {cfd[k]}]
  /\ cfd' = [cfd EXCEPT ![k] = NoConn]
  /\ pc' = [pc EXCEPT ![k] = "accept"]
  /\ UNCHANGED conn

Goto(k, label) ==
  /\ pc' = [pc EXCEPT ![k] = label]
  /\ UNCHANGED <<conn, cfd, leaked>>

-----------------------------------------------------------------------------
(* start_child                                                             *)

Room(k) == Cardinality(leaked[k]) < MaxFds

accept(k) ==
  /\ pc[k] = "accept" /\ Room(k)
  /\ \E c \in Conns :
       /\ conn[c] = "queued"
       /\ conn' = [conn EXCEPT ![c] = "taken"]
       /\ cfd' = [cfd EXCEPT ![k] = c]
  /\ pc' = [pc EXCEPT ![k] = "recv"]
  /\ UNCHANGED <<program, data, end, leaked, starved>>

\* inet6: getnameinfo() fails, and the socket is forgotten.
accept_nameless(k) ==
  /\ program = "inet6"
  /\ pc[k] = "accept" /\ Room(k)
  /\ \E c \in Conns :
       /\ conn[c] = "queued"
       /\ conn' = [conn EXCEPT ![c] = "taken"]
       /\ leaked' = [leaked EXCEPT ![k] = @ \cup {c}]
  /\ UNCHANGED <<program, data, end, pc, cfd, starved>>

\* EMFILE: inet's pr_err exits; the others try again for ever.
accept_fails(k) ==
  /\ program = "inet"
  /\ pc[k] = "accept" /\ ~Room(k)
  /\ \E c \in Conns : conn[c] = "queued"
  /\ Ends(k)
  /\ starved' = starved \cup {k}
  /\ UNCHANGED <<program, data, end>>

Receiving(k) == pc[k] = "recv"

recv_data(k) ==
  /\ Receiving(k) /\ data[cfd[k]]
  /\ data' = [data EXCEPT ![cfd[k]] = FALSE]
  /\ Goto(k, "send")
  /\ UNCHANGED <<program, end, starved>>

\* inet: no newline in buf, which recv() may have filled only in part.
recv_no_newline(k) ==
  /\ program = "inet"
  /\ Receiving(k) /\ data[cfd[k]]
  /\ data' = [data EXCEPT ![cfd[k]] = FALSE]
  /\ Leaks(k)
  /\ UNCHANGED <<program, end, starved>>

MutRecvEnd(k) == Goto(k, "send")

\* recv() returned 0.  inet6 echoes nothing and calls recv() again.
RecvEnd(k) ==
  CASE program = "inet"  -> Ends(k)
    [] program = "inet6" -> Goto(k, "send")
    [] program = "unix"  -> Closes(k)

recv_eof(k) ==
  /\ Receiving(k) /\ ~data[cfd[k]] /\ end[cfd[k]] \in {"eof", "broken"}
  /\ RecvEnd(k)
  /\ UNCHANGED <<program, data, end, starved>>

recv_fails(k) ==
  /\ Receiving(k) /\ ~data[cfd[k]] /\ end[cfd[k]] = "rst"
  /\ CASE program = "inet"  -> Ends(k)
       [] program = "inet6" -> Closes(k)
       [] program = "unix"  -> Leaks(k)
  /\ UNCHANGED <<program, data, end, starved>>

send(k) ==
  /\ pc[k] = "send" /\ end[cfd[k]] \in {"open", "eof"}
  /\ Goto(k, "recv")
  /\ UNCHANGED <<program, data, end, starved>>

\* ECONNRESET, once.  A UNIX socket has no such case.
send_fails(k) ==
  /\ program # "unix"
  /\ pc[k] = "send" /\ end[cfd[k]] = "rst"
  /\ IF program = "inet" THEN Ends(k) ELSE Closes(k)
  /\ UNCHANGED <<program, data, end, starved>>

\* EPIPE, and with it SIGPIPE.
send_sigpipe(k) ==
  /\ pc[k] = "send"
  /\ \/ end[cfd[k]] = "broken"
     \/ end[cfd[k]] = "rst" /\ program = "unix"
  /\ Ends(k)
  /\ UNCHANGED <<program, data, end, starved>>

-----------------------------------------------------------------------------

start_child(k) ==
  \/ accept(k) \/ accept_nameless(k) \/ accept_fails(k)
  \/ recv_data(k) \/ recv_no_newline(k) \/ recv_eof(k) \/ recv_fails(k)
  \/ send(k) \/ send_fails(k) \/ send_sigpipe(k)

Next ==
  \/ \E k \in Kids : start_child(k)
  \/ \E c \in Conns : Client(c)

Spec == Init /\ [][Next]_vars

\* Every child runs whenever it can; nothing is assumed of clients.
FairSpec == Spec /\ \A k \in Kids : WF_vars(start_child(k))

-----------------------------------------------------------------------------

Gone == {k \in Kids : pc[k] = "gone"}

\* The pool only shrinks by what clients do: a child that is gone was ended by
\* a session of its own that its client had ended, or (inet) has run out of
\* descriptors.  So the pool outlives any number of clients that stay.
PoolLoss ==
  /\ TypeOK
  /\ Cardinality(Gone \ starved)
       <= Cardinality({c \in Conns : conn[c] = "closed" /\ end[c] # "open"})

\* The sessions that leave their socket behind when they end: in inet those with
\* a piece without a newline, in unix those that the client reset.
MayForget(c) == program = "inet" \/ (program = "unix" /\ end[c] = "rst")

\* A child that has used up its descriptors on such sessions.
Exhausted(k) == ~Room(k) /\ \A c \in leaked[k] : MayForget(c)

\* When a client has ended its session, the child comes to accept() again with a
\* descriptor to spare, or is gone; or it has none to spare because of sessions
\* that inet and unix forgot: then the child serves nobody any more.  In inet6
\* none of this holds at a mere end of file: unless the connection breaks later,
\* the child goes on echoing nothing.
EndedFreesChild ==
  \A k \in Kids, c \in Conns :
    (/\ cfd[k] = c
     /\ end[c] \in {"rst", "broken"} \/ (end[c] = "eof" /\ program # "inet6"))
      ~> \/ pc[k] = "accept" /\ (Room(k) \/ Exhausted(k))
         \/ pc[k] = "gone"

=============================================================================
