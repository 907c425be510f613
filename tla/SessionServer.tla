--------------------------- MODULE SessionServer ----------------------------
(***************************************************************************)
(* What the servers of Chapter07 and Chapter10/io_rts.c promise to each    *)
(* client, whatever array, batch of events or queue of signals they keep:  *)
(* a connection is accepted or refused, the data of an accepted one is     *)
(* read, and it is closed after its end was reached, and only then.        *)
(***************************************************************************)
EXTENDS Integers

CONSTANT Conns  \* as in module Sockets

VARIABLES
  conn,     \* as in module Sockets
  data,
  end,
  dropped,  \* the sessions the server may cut off at this moment
  excused   \* the sessions it may leave open for good

sessions == <<conn, data, end>>

Init ==
  /\ conn = [c \in Conns |-> "none"]
  /\ data = [c \in Conns |-> 0]
  /\ end = [c \in Conns |-> "open"]

Become(c, from, to) ==
  conn[c] = from /\ conn' = [conn EXCEPT ![c] = to] /\ UNCHANGED <<data, end>>

Active(c) == conn[c] \in {"queued", "accepted"} /\ end[c] = "open"

\* The client.
Connect(c) == Become(c, "none", "queued")

Send(c) ==
  /\ Active(c)
  /\ data'[c] > data[c]
  /\ data' = [data EXCEPT ![c] = data'[c]]
  /\ UNCHANGED <<conn, end>>

Hangup(c) ==
  /\ Active(c)
  /\ \E how \in {"eof", "rst"} : end' = [end EXCEPT ![c] = how]
  /\ UNCHANGED <<conn, data>>

\* The server.
Accept(c) == Become(c, "queued", "accepted")

\* The client may try again.
Refuse(c) ==
  /\ conn[c] = "queued" /\ conn' = [conn EXCEPT ![c] = "none"]
  /\ data' = [data EXCEPT ![c] = 0]
  /\ end' = [end EXCEPT ![c] = "open"]

Read(c) ==
  /\ conn[c] = "accepted"
  /\ data'[c] < data[c]
  /\ data' = [data EXCEPT ![c] = data'[c]]
  /\ UNCHANGED <<conn, end>>

ReadReset(c) ==
  /\ conn[c] = "accepted" /\ end[c] = "rst" /\ data[c] = 0
  /\ end' = [end EXCEPT ![c] = "eof"]
  /\ UNCHANGED <<conn, data>>

Finish(c) == end[c] = "eof" /\ data[c] = 0 /\ Become(c, "accepted", "closed")

CutOff(c) == c \in dropped /\ Become(c, "accepted", "closed")

Next ==
  \E c \in Conns :
    \/ Connect(c) \/ Send(c) \/ Hangup(c)
    \/ Accept(c) \/ Refuse(c)
    \/ Read(c) \/ ReadReset(c) \/ Finish(c) \/ CutOff(c)

Spec == Init /\ [][Next]_sessions

-----------------------------------------------------------------------------

\* A session whose client has ended it is closed, unless it is excused.
EndedSessionsClosed ==
  \A c \in Conns :
    (conn[c] = "accepted" /\ end[c] # "open") ~> (conn[c] = "closed" \/ c \in excused)

=============================================================================
