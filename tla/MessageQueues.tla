--------------------------- MODULE MessageQueues ----------------------------
(***************************************************************************)
(* The message queue programs of Chapter05, of one family at a time: the   *)
(* programs around one POSIX queue name, or those around System V queues.  *)
(***************************************************************************)
EXTENDS Integers, Sequences, FiniteSets

CONSTANTS
  PosixSenders, PosixReceivers, SigevReceivers, Unlinkers, NLines,
  mq_maxmsg,                                                        \* PosixMsq
  SysvSenders, SysvReceivers, RegexProgs, File, MsgType, QueueSize  \* SysvMsg

VARIABLES
  family,
  queue, pc, line,                                 \* both
  name, created, registered, mq_fd, signals,       \* PosixMsq
  zero, made, received                             \* SysvMsg

Posix == INSTANCE PosixMsq WITH Senders <- PosixSenders, Receivers <- PosixReceivers
Sysv == INSTANCE SysvMsg WITH Senders <- SysvSenders, Receivers <- SysvReceivers

posix_only == <<name, created, registered, mq_fd, signals>>
sysv_only == <<zero, made, received>>
mq_vars == <<family, queue, pc, line, posix_only, sysv_only>>

ASSUME MessageQueuesAssumption == Posix!PosixMsqAssumption /\ Sysv!SysvMsgAssumption

NoPosix ==
  name = 0 /\ created = 0 /\ registered = << >> /\ mq_fd = << >> /\ signals = << >>
NoSysv == zero = "none" /\ made = {} /\ received = {}

MqInit ==
  \/ family = "posix" /\ Posix!Init /\ NoSysv
  \/ family = "sysv" /\ Sysv!Init /\ NoPosix

PosixRuns == family = "posix" /\ UNCHANGED <<family, sysv_only>>
SysvRuns == family = "sysv" /\ UNCHANGED <<family, posix_only>>

Sender(s) ==
  \/ s \in PosixSenders /\ PosixRuns /\ Posix!Sender(s)
  \/ s \in SysvSenders /\ SysvRuns /\ Sysv!Sender(s)

Receiver(r) ==
  \/ r \in PosixReceivers /\ PosixRuns /\ Posix!Receiver(r)
  \/ r \in SysvReceivers /\ SysvRuns /\ Sysv!Receiver(r)

MqNext == (PosixRuns /\ Posix!Next) \/ (SysvRuns /\ Sysv!Next)

MqSpec == MqInit /\ [][MqNext]_mq_vars

\* Every sender and receiver that can take a step takes one; unlink, kill and
\* pressing a key are left to the user.
MqFairSpec ==
  /\ MqSpec
  /\ \A s \in PosixSenders \cup SysvSenders : WF_mq_vars(Sender(s))
  /\ \A r \in PosixReceivers \cup SysvReceivers : WF_mq_vars(Receiver(r))

-----------------------------------------------------------------------------

\* posix_msq.c, posix_msq_sigev.c: as long as nobody gives the command "unlink",
\* all programs use one and the same queue and none fails to attach.
SplitOnlyByUnlink == family = "posix" => Posix!SplitOnlyByUnlink

\* sysv_msg.c, sysv_msg_regex.c: what a sender has sent is a prefix of its file.
PrefixSent == family = "sysv" => Sysv!PrefixSent

Owed(r) ==
  \/ family = "posix" /\ r \in PosixReceivers /\ Posix!Owed(r)
  \/ family = "sysv" /\ r \in SysvReceivers /\ Sysv!Owed(r)

\* Both: as long as a receiver is not killed, every message that it can get from
\* its queue is received in the end, by it or another: none stops over a busy
\* registration or an interrupted mq_receive() and leaves messages behind.
\* Senders that wait for room come to their ends.
EveryMessageReceived ==
  \A r \in PosixReceivers \cup SysvReceivers : Owed(r) ~> ~Owed(r)

=============================================================================
