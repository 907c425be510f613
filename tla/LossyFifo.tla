----------------------------- MODULE LossyFifo -----------------------------
(***************************************************************************)
(* What struct workqueue of Chapter08/cond_var.c (and of its copy in       *)
(* Chapter10/cond_var_rts.c) promises its users: a bounded FIFO of the     *)
(* bytes of one stream, which refuses bytes only when it is full and hands *)
(* every byte it accepted to exactly one consumer, oldest first.  There is *)
(* no array, no index, no lock and no condition variable here.             *)
(*                                                                         *)
(* A byte is represented by its position in the stream (1, 2, 3, ...).     *)
(***************************************************************************)
EXTENDS Naturals, Sequences

CONSTANTS Consumers,  \* the threads that take bytes out
          Capacity    \* the number of bytes the queue can hold

VARIABLES queue,    \* the accepted bytes nobody has taken yet, oldest first
          offered,  \* how many bytes of the stream were accepted or refused
          got       \* the byte each consumer took last (0: none yet)

vars == <<queue, offered, got>>

Init ==
  /\ queue = << >>
  /\ offered = 0
  /\ got = [c \in Consumers |-> 0]

\* The next byte of the stream is accepted.
Accept ==
  /\ Len(queue) < Capacity
  /\ queue' = Append(queue, offered + 1)
  /\ offered' = offered + 1
  /\ UNCHANGED got

\* The next bytes of the stream are refused: only a full queue does that.
Refuse ==
  /\ Len(queue) = Capacity
  /\ offered' \in Nat /\ offered' > offered
  /\ UNCHANGED <<queue, got>>

\* Consumer c takes the oldest byte.
Take(c) ==
  /\ queue # << >>
  /\ got' = [got EXCEPT ![c] = Head(queue)]
  /\ queue' = Tail(queue)
  /\ UNCHANGED offered

Next == Accept \/ Refuse \/ \E c \in Consumers : Take(c)

Spec == Init /\ [][Next]_vars

=============================================================================
