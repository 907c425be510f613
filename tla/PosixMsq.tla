------------------------------ MODULE PosixMsq ------------------------------
(***************************************************************************)
(* Chapter05/posix_msq.c and posix_msq_sigev.c: senders, receivers and     *)
(* "unlink" programs that meet at one queue name.  The program that comes  *)
(* first creates the queue, the others attach to it in a second mq_open(), *)
(* and between the two calls the name may have been unlinked.  The         *)
(* receivers of posix_msq_sigev.c also ask for a signal before each        *)
(* mq_receive(); one process can be registered per queue, and the          *)
(* registration is used up by the first message that arrives while the     *)
(* queue is empty and nobody waits in mq_receive().                        *)
(***************************************************************************)
EXTENDS Integers, Sequences, FiniteSets

CONSTANTS
  Senders,
  Receivers,
  SigevReceivers,  \* those of the receivers that run posix_msq_sigev.c
  Unlinkers,       \* programs started with "unlink"
  NLines,          \* lines of a sender's file
  mq_maxmsg        \* 10 in the code

PosixMsqAssumption ==
  /\ IsFiniteSet(Unlinkers)
  /\ SigevReceivers \subseteq Receivers
  /\ NLines \in Nat
  /\ mq_maxmsg \in Nat \ {0}

Progs == Senders \cup Receivers \cup Unlinkers

NoQueue == 0
Queues == 1 .. Cardinality(Unlinkers) + 1  \* as many as can ever be created
Nobody == "nobody"

VARIABLES
  name,        \* the queue that NAME_POSIX_MQ names, or NoQueue
  created,     \* how many queues have been created
  queue,       \* queue[q]: the messages <<sender, line>> in q, oldest first
  registered,  \* registered[q]: who gets q's signal, or Nobody
  pc,
  mq_fd,       \* mq_fd[p]: the queue p has opened, or NoQueue
  line,        \* line[s]: the line s reads next
  signals      \* signals[r]: pending signals of r

vars == <<name, created, queue, registered, pc, mq_fd, line, signals>>

Message == Senders \X (1 .. NLines)

TypeOK ==
  /\ created \in Queues \cup {NoQueue} /\ name \in 0 .. created
  /\ queue \in [Queues -> Seq(Message)]
  /\ \A q \in Queues : Len(queue[q]) <= mq_maxmsg
  /\ registered \in [Queues -> SigevReceivers \cup {Nobody}]
  /\ pc \in [Progs -> {"open", "attach", "send", "notify", "receive", "waiting",
                       "failed", "ended", "killed"}]
  /\ mq_fd \in [Progs -> 0 .. created]
  /\ line \in [Senders -> 1 .. NLines + 1]
  /\ signals \in [SigevReceivers -> Nat]

Init ==
  /\ name = NoQueue /\ created = 0
  /\ queue = [q \in Queues |-> << >>]
  /\ registered = [q \in Queues |-> Nobody]
  /\ pc = [p \in Progs |-> "open"]
  /\ mq_fd = [p \in Progs |-> NoQueue]
  /\ line = [s \in Senders |-> 1]
  /\ signals = [r \in SigevReceivers |-> 0]

Goto(p, from, to) == pc[p] = from /\ pc' = [pc EXCEPT ![p] = to]

-----------------------------------------------------------------------------
(* main: O_CREAT | O_EXCL first, then without.                             *)

\* What a receiver does in each round.
Round(r) == IF r \in SigevReceivers THEN "notify" ELSE "receive"

Start(p) == IF p \in Senders THEN "send" ELSE Round(p)

mq_open_creates(p) ==
  /\ p \notin Unlinkers /\ name = NoQueue
  /\ Goto(p, "open", Start(p))
  /\ created' = created + 1
  /\ name' = created'
  /\ mq_fd' = [mq_fd EXCEPT ![p] = created']
  /\ UNCHANGED <<queue, registered, line, signals>>

\* EEXIST
mq_open_exists(p) ==
  /\ p \notin Unlinkers /\ name # NoQueue
  /\ Goto(p, "open", "attach")
  /\ UNCHANGED <<name, created, queue, registered, mq_fd, line, signals>>

mq_open_attaches(p) ==
  /\ name # NoQueue
  /\ Goto(p, "attach", Start(p))
  /\ mq_fd' = [mq_fd EXCEPT ![p] = name]
  /\ UNCHANGED <<name, created, queue, registered, line, signals>>

\* ENOENT: unlinked in between.
mq_open_fails(p) ==
  /\ name = NoQueue
  /\ Goto(p, "attach", "failed")
  /\ UNCHANGED <<name, created, queue, registered, mq_fd, line, signals>>

mq_unlink(p) ==
  /\ p \in Unlinkers
  /\ Goto(p, "open", "ended")
  /\ name' = NoQueue
  /\ UNCHANGED <<created, queue, registered, mq_fd, line, signals>>

\* mq_fd[p] is an open descriptor.
IsOpen(p) == pc[p] \in {"send", "notify", "receive", "waiting"}

\* The registration goes with the descriptor.
Deregistered(p) ==
  registered' = [q \in Queues |-> IF registered[q] = p THEN Nobody ELSE registered[q]]

MutAtClose == name' = NoQueue

\* mq_close() leaves the queue and its name alone.
AtClose == UNCHANGED name

\* main's way out; the variable mq_fd keeps its value.
Closes(p) ==
  /\ AtClose
  /\ Deregistered(p)
  /\ pc' = [pc EXCEPT ![p] = "ended"]

-----------------------------------------------------------------------------
(* start_msq_sender                                                        *)

Waiting(q) == {r \in Receivers : pc[r] = "waiting" /\ mq_fd[r] = q}

Sending(s) == pc[s] = "send" /\ line[s] <= NLines

\* A receiver that waits gets the message, and nobody is notified.
mq_send_hands_over(s) ==
  /\ Sending(s)
  /\ \E r \in Waiting(mq_fd[s]) : pc' = [pc EXCEPT ![r] = Round(r)]
  /\ line' = [line EXCEPT ![s] = @ + 1]
  /\ UNCHANGED <<name, created, queue, registered, mq_fd, signals>>

\* Otherwise the sender waits while the queue is full.
mq_send(s) ==
  /\ Sending(s)
  /\ LET q == mq_fd[s]
         r == registered[q]
     IN  /\ Waiting(q) = {} /\ Len(queue[q]) < mq_maxmsg
         /\ queue' = [queue EXCEPT ![q] = Append(@, <<s, line[s]>>)]
         /\ IF queue[q] = << >> /\ r # Nobody
              THEN /\ signals' = [signals EXCEPT ![r] = @ + 1]
                   /\ registered' = [registered EXCEPT ![q] = Nobody]
              ELSE UNCHANGED <<signals, registered>>
  /\ line' = [line EXCEPT ![s] = @ + 1]
  /\ UNCHANGED <<name, created, pc, mq_fd>>

\* The file ends, or fopen() fails.
sender_ends(s) ==
  /\ line[s] > NLines \/ line[s] = 1
  /\ pc[s] = "send" /\ Closes(s)
  /\ UNCHANGED <<created, queue, mq_fd, line, signals>>

-----------------------------------------------------------------------------
(* start_msq_receiver, in both programs                                    *)

\* EBUSY is printed, and the receiver goes on.
NotifyBusy(r) == "receive"

mq_notify(r) ==
  LET q == mq_fd[r]
  IN  /\ pc[r] = "notify"
      /\ IF registered[q] = Nobody
           THEN /\ registered' = [registered EXCEPT ![q] = r]
                /\ Goto(r, "notify", "receive")
           ELSE Goto(r, "notify", NotifyBusy(r)) /\ UNCHANGED registered
      /\ UNCHANGED <<name, created, queue, mq_fd, line, signals>>

mq_receive(r) ==
  LET q == mq_fd[r]
  IN  /\ pc[r] = "receive" /\ queue[q] # << >>
      /\ queue' = [queue EXCEPT ![q] = Tail(@)]
      /\ Goto(r, "receive", Round(r))
      /\ UNCHANGED <<name, created, registered, mq_fd, line, signals>>

mq_receive_waits(r) ==
  /\ pc[r] = "receive" /\ queue[mq_fd[r]] = << >>
  /\ Goto(r, "receive", "waiting")
  /\ UNCHANGED <<name, created, queue, registered, mq_fd, line, signals>>

MutAfterHandler(r) == Closes(r)

\* SA_RESTART: an mq_receive() that the handler interrupted is called again.
AfterHandler(r) ==
  pc' = [pc EXCEPT ![r] = "receive"] /\ UNCHANGED <<name, registered>>

chk_rt(r) ==
  /\ r \in SigevReceivers /\ signals[r] > 0
  /\ signals' = [signals EXCEPT ![r] = @ - 1]
  /\ IF pc[r] = "waiting" THEN AfterHandler(r) ELSE UNCHANGED <<pc, name, registered>>
  /\ UNCHANGED <<created, queue, mq_fd, line>>

\* The only end of a receiver, and of a sender that waits for room in vain.
kill(p) ==
  /\ IsOpen(p)
  /\ p \in Senders => Sending(p) /\ Len(queue[mq_fd[p]]) = mq_maxmsg
  /\ pc' = [pc EXCEPT ![p] = "killed"]
  /\ Deregistered(p)
  /\ signals' = [r \in SigevReceivers |-> IF r = p THEN 0 ELSE signals[r]]
  /\ UNCHANGED <<name, created, queue, mq_fd, line>>

-----------------------------------------------------------------------------

Open(p) ==
  mq_open_creates(p) \/ mq_open_exists(p) \/ mq_open_attaches(p) \/ mq_open_fails(p)

Sender(s) == Open(s) \/ mq_send_hands_over(s) \/ mq_send(s) \/ sender_ends(s)

Receiver(r) ==
  Open(r) \/ mq_notify(r) \/ mq_receive(r) \/ mq_receive_waits(r) \/ chk_rt(r)

Next ==
  \/ \E s \in Senders : Sender(s)
  \/ \E r \in Receivers : Receiver(r)
  \/ \E u \in Unlinkers : mq_unlink(u)
  \/ \E p \in Progs : kill(p)

Spec == Init /\ [][Next]_vars

-----------------------------------------------------------------------------

Unlinked == {u \in Unlinkers : pc[u] = "ended"}

\* All programs that have or had the queue open have used the same one, and
\* attaching fails for none, but for the "unlink" commands: each of them can make
\* one queue more.
SplitOnlyByUnlink ==
  /\ TypeOK
  /\ Cardinality({mq_fd[p] : p \in Progs} \ {NoQueue}) <= 1 + Cardinality(Unlinked)
  /\ (\E p \in Progs : pc[p] = "failed") => Unlinked # {}

\* Something is still to come to r, whether it still receives or has returned
\* from main: a message in the queue it opened, or from a sender at work on it.
Owed(r) ==
  /\ mq_fd[r] # NoQueue /\ pc[r] # "killed"
  /\ \/ queue[mq_fd[r]] # << >>
     \/ \E s \in Senders : pc[s] = "send" /\ mq_fd[s] = mq_fd[r]

=============================================================================
