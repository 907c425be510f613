------------------------------ MODULE SysvMsg ------------------------------
(***************************************************************************)
(* Chapter05/sysv_msg.c and sysv_msg_regex.c.  sysv_msgget() creates the   *)
(* queue of its key or finds it, and returns 0, not the queue's identifier *)
(* and not -1: so every program goes on with whatever queue has the        *)
(* identifier 0, the first one created since the system was started.  A    *)
(* sender gives up at the first message it cannot send without waiting.    *)
(* Nobody calls sysv_msgrm(): messages outlive their senders.              *)
(***************************************************************************)
EXTENDS Integers, Sequences, FiniteSets, FiniteSetsExt

CONSTANTS
  Senders,
  Receivers,
  RegexProgs,  \* those of them that run sysv_msg_regex.c
  File,        \* File[s]: per line the number it starts with; -1: no match
  MsgType,     \* MsgType[r]: the receiver's argument
  QueueSize    \* how many messages fit into a queue

SysvMsgAssumption ==
  /\ "other" \notin Senders  \* the other application's message is nobody's line
  /\ RegexProgs \subseteq Senders \cup Receivers
  /\ File \in [Senders -> Seq(Nat \cup {-1})]
  /\ MsgType \in [Receivers -> Int]
  /\ QueueSize \in Nat \ {0}

Progs == Senders \cup Receivers

VARIABLES
  zero,      \* identifier 0: "none" so far, "ours", another's ("other") or "gone"
  made,      \* the keys that have a queue
  queue,     \* the messages in queue 0, oldest first
  pc,
  line,      \* line[s]: the line s reads next
  received   \* history: the messages received

vars == <<zero, made, queue, pc, line, received>>

Exists == zero \in {"ours", "other"}

\* ftok() makes one key for each program file.
Key(p) == IF p \in RegexProgs THEN "regex" ELSE "plain"

Message == [from : Senders \cup {"other"}, line : Nat, mtype : Nat \ {0}]

TypeOK ==
  /\ zero \in {"none", "ours", "other", "gone"}
  /\ made \subseteq {"plain", "regex"}
  /\ queue \in Seq(Message) /\ Len(queue) <= QueueSize
  /\ pc \in [Progs -> {"msgget", "send", "getchar", "receive", "failed", "ended",
                       "killed"}]
  /\ \A s \in Senders : line[s] \in 1 .. Len(File[s]) + 1
  /\ received \subseteq Message

\* Queue 0 does not exist yet, or is another application's, perhaps with a
\* message left in it, or it has been removed.
Init ==
  /\ zero \in {"none", "other", "gone"}
  /\ queue \in IF zero = "other"
                 THEN {<< >>, <<[from |-> "other", line |-> 1, mtype |-> 1]>>}
                 ELSE {<< >>}
  /\ made = {}
  /\ pc = [p \in Progs |-> "msgget"]
  /\ line = [s \in Senders |-> 1]
  /\ received = {}

Goto(p, from, to) == pc[p] = from /\ pc' = [pc EXCEPT ![p] = to]

-----------------------------------------------------------------------------

Start(p) == IF p \in Senders THEN "send" ELSE "receive"

\* msgget() creates the queue of the key, or finds it.
sysv_msgget(p) ==
  /\ Goto(p, "msgget", Start(p))
  /\ made' = made \cup {Key(p)}
  /\ zero' = IF zero = "none" THEN "ours" ELSE zero
  /\ UNCHANGED <<queue, line, received>>

\* msgget() fails; sysv_msgget() prints a message and returns 0 as well.
sysv_msgget_fails(p) ==
  /\ Goto(p, "msgget", Start(p))
  /\ UNCHANGED <<zero, made, queue, line, received>>

\* The program was found by way of PATH: there is no file of the name argv[0].
ftok_fails(p) ==
  /\ Goto(p, "msgget", "failed")
  /\ UNCHANGED <<zero, made, queue, line, received>>

-----------------------------------------------------------------------------
(* start_msq_sender                                                        *)

\* sysv_msg.c counts the lines; sysv_msg_regex.c reads the type from the line.
Mtype(s, n) == IF s \in RegexProgs THEN File[s][n] ELSE n

Sending(s) == pc[s] = "send" /\ line[s] <= Len(File[s])

\* REG_NOMATCH
line_skipped(s) ==
  /\ Sending(s) /\ Mtype(s, line[s]) = -1
  /\ line' = [line EXCEPT ![s] = @ + 1]
  /\ UNCHANGED <<zero, made, queue, pc, received>>

msgsnd(s) ==
  /\ Sending(s) /\ Mtype(s, line[s]) > 0
  /\ Exists /\ Len(queue) < QueueSize
  /\ queue' = Append(queue, [from |-> s, line |-> line[s], mtype |-> Mtype(s, line[s])])
  /\ line' = [line EXCEPT ![s] = @ + 1]
  /\ UNCHANGED <<zero, made, pc, received>>

MutAfterFailure(s) == line' = [line EXCEPT ![s] = @ + 1] /\ UNCHANGED pc

\* break
AfterFailure(s) == Goto(s, "send", "getchar") /\ UNCHANGED line

\* EINVAL, for the queue or the type, or EAGAIN.
msgsnd_fails(s) ==
  /\ Sending(s) /\ Mtype(s, line[s]) # -1
  /\ ~Exists \/ Mtype(s, line[s]) = 0 \/ Len(queue) = QueueSize
  /\ AfterFailure(s)
  /\ UNCHANGED <<zero, made, queue, received>>

\* The file ends, or fopen() fails.
file_ends(s) ==
  /\ line[s] > Len(File[s]) \/ line[s] = 1
  /\ Goto(s, "send", "getchar")
  /\ UNCHANGED <<zero, made, queue, line, received>>

\* main returns after the key was pressed.
getchar(s) ==
  /\ Goto(s, "getchar", "ended")
  /\ UNCHANGED <<zero, made, queue, line, received>>

-----------------------------------------------------------------------------
(* start_msq_receiver                                                      *)

Abs(t) == IF t < 0 THEN -t ELSE t

\* The messages r's argument stands for.
Wants(r, m) ==
  \/ MsgType[r] = 0
  \/ MsgType[r] > 0 /\ m.mtype = MsgType[r]
  \/ MsgType[r] < 0 /\ m.mtype <= Abs(MsgType[r])

\* The position of the message r gets: the first one, or with a negative
\* argument the first one of the lowest type.
Candidates(r) ==
  LET all == {k \in DOMAIN queue : Wants(r, queue[k])}
  IN  IF MsgType[r] >= 0
        THEN all
        ELSE {k \in all : \A j \in all : queue[k].mtype <= queue[j].mtype}

msgrcv(r) ==
  /\ pc[r] = "receive" /\ Exists /\ Candidates(r) # {}
  /\ LET k == Min(Candidates(r))
     IN  /\ queue' = SubSeq(queue, 1, k - 1) \o SubSeq(queue, k + 1, Len(queue))
         /\ received' = received \cup {queue[k]}
  /\ UNCHANGED <<zero, made, pc, line>>

\* EINVAL or EIDRM
msgrcv_fails(r) ==
  /\ ~Exists
  /\ Goto(r, "receive", "ended")
  /\ UNCHANGED <<zero, made, queue, line, received>>

\* The only end of a receiver whose queue remains.
kill(r) ==
  /\ Goto(r, "receive", "killed")
  /\ UNCHANGED <<zero, made, queue, line, received>>

\* The other application removes its queue.
removed ==
  /\ zero = "other"
  /\ zero' = "gone" /\ queue' = << >>
  /\ UNCHANGED <<made, pc, line, received>>

-----------------------------------------------------------------------------

Sender(s) ==
  \/ sysv_msgget(s) \/ sysv_msgget_fails(s) \/ ftok_fails(s)
  \/ line_skipped(s) \/ msgsnd(s) \/ msgsnd_fails(s) \/ file_ends(s)

Receiver(r) ==
  sysv_msgget(r) \/ sysv_msgget_fails(r) \/ ftok_fails(r) \/ msgrcv(r) \/ msgrcv_fails(r)

Next ==
  \/ \E s \in Senders : Sender(s) \/ getchar(s)
  \/ \E r \in Receivers : Receiver(r) \/ kill(r)
  \/ removed

Spec == Init /\ [][Next]_vars

\* Every program that can take a step by itself takes one; the user who is told
\* to press a key does so in the end.
FairSpec ==
  /\ Spec
  /\ \A s \in Senders : WF_vars(Sender(s) \/ getchar(s))
  /\ \A r \in Receivers : WF_vars(Receiver(r))

-----------------------------------------------------------------------------

\* The lines of s that have been put into the queue, while it exists.
Sent(s) == {m.line : m \in {n \in received \cup {queue[k] : k \in DOMAIN queue} : n.from = s}}

\* What a sender has sent is a prefix of its file, lines that do not match left
\* out, however often the queue was full and whoever's queue it is: a sender
\* that fails stops, and does not send a later line.
PrefixSent ==
  /\ TypeOK
  /\ zero # "gone" =>
       \A s \in Senders :
         Sent(s) = {n \in 1 .. line[s] - 1 : Mtype(s, n) # -1}

\* A message that r's argument stands for is in the queue.
Owed(r) == pc[r] = "receive" /\ Candidates(r) # {}

\* What a sender prints before it waits for a key: pressing it removes the
\* queue, so at the end of the step that follows the key press there is none.
QueueRemoved ==
  [][\A s \in Senders :
       pc[s] = "getchar" /\ pc'[s] = "ended" => Key(s) \notin made']_vars

=============================================================================
