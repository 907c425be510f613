------------------------ MODULE PreforkServerProofs ------------------------
(***************************************************************************)
(* Proofs about PreforkServer, for any pool and any set of connections.    *)
(***************************************************************************)
EXTENDS PreforkServer, FiniteSetTheorems, TLAPS

-----------------------------------------------------------------------------
(* The inductive invariant.                                                *)

States == {"none", "queued", "taken", "closed"}

Types ==
  /\ program \in {"inet", "inet6", "unix"}
  /\ conn \in [Conns -> States]
  /\ data \in [Conns -> BOOLEAN]
  /\ end \in [Conns -> {"open", "eof", "rst", "broken"}]
  /\ pc \in [Kids -> {"accept", "recv", "send", "gone"}]
  /\ cfd \in [Kids -> Conns \cup {NoConn}]
  /\ leaked \in [Kids -> SUBSET Conns]
  /\ starved \subseteq Kids

\* The connections whose sockets k holds.
Owned(k) == leaked[k] \cup ({cfd[k]} \ {NoConn})

\* A child has a session exactly while it receives or sends, and has not
\* forgotten its socket.
InSession ==
  \A k \in Kids :
    /\ pc[k] \in {"recv", "send"} <=> cfd[k] # NoConn
    /\ cfd[k] \notin leaked[k]

\* A child has as many sockets as it has descriptors for.
Fits == \A k \in Kids : IsFiniteSet(Owned(k)) /\ Cardinality(Owned(k)) <= MaxFds

OneOwner == \A k, l \in Kids : Owned(k) \cap Owned(l) # {} => k = l

Exact ==
  \A c \in Conns : conn[c] = "taken" <=> \E k \in Kids : c \in Owned(k)

IInv == Types /\ InSession /\ Fits /\ OneOwner /\ Exact

-----------------------------------------------------------------------------
(* What a step does to the sockets of child k.                             *)

\* The sockets of the other children do not change.
OnlyOf(k) == \A l \in Kids \ {k} : Owned(l)' = Owned(l)

\* k has one socket more, of a connection that was waiting.
LEMMA GainStep ==
  ASSUME IInv, NEW k \in Kids, NEW c \in Conns,
         conn[c] = "queued", conn' = [conn EXCEPT ![c] = "taken"],
         Cardinality(Owned(k)) < MaxFds,
         Owned(k)' = Owned(k) \cup {c}, OnlyOf(k)
  PROVE  Fits' /\ OneOwner' /\ Exact'
<1>1. \A l \in Kids : c \notin Owned(l)
  BY DEF IInv, Exact
<1>2. Fits'
  <2>1. IsFiniteSet(Owned(k)) /\ Cardinality(Owned(k)) \in Nat
    BY FS_CardinalityType DEF IInv, Fits
  <2>2. /\ IsFiniteSet(Owned(k) \cup {c})
        /\ Cardinality(Owned(k) \cup {c}) = Cardinality(Owned(k)) + 1
    BY <1>1, <2>1, FS_AddElement
  <2>3. Cardinality(Owned(k) \cup {c}) <= MaxFds
    BY <2>1, <2>2, PreforkServerAssumption
  <2> QED
    BY <2>2, <2>3 DEF IInv, Fits, OnlyOf
<1>3. OneOwner'
  BY <1>1 DEF IInv, OneOwner, OnlyOf
<1>4. Exact'
  BY <1>1 DEF IInv, Types, Exact, OnlyOf
<1> QED
  BY <1>2, <1>3, <1>4

\* k closes the sockets of S.
LEMMA LoseStep ==
  ASSUME IInv, NEW k \in Kids, NEW S \in SUBSET Owned(k),
         conn' = [c \in Conns |-> IF c \in S THEN "closed" ELSE conn[c]],
         Owned(k)' = Owned(k) \ S, OnlyOf(k)
  PROVE  Fits' /\ OneOwner' /\ Exact'
<1>1. Fits'
  <2>1. IsFiniteSet(Owned(k)) /\ Cardinality(Owned(k)) <= MaxFds
    BY DEF IInv, Fits
  <2>2. /\ IsFiniteSet(Owned(k) \ S)
        /\ Cardinality(Owned(k) \ S) <= Cardinality(Owned(k))
        /\ Cardinality(Owned(k) \ S) \in Nat /\ Cardinality(Owned(k)) \in Nat
    BY <2>1, FS_Subset, FS_CardinalityType
  <2>3. Cardinality(Owned(k) \ S) <= MaxFds
    BY <2>1, <2>2, PreforkServerAssumption
  <2> QED
    BY <2>2, <2>3 DEF IInv, Fits, OnlyOf
<1>2. OneOwner'
  BY DEF IInv, OneOwner, OnlyOf
<1>3. \A l \in Kids \ {k} : \A c \in Owned(l) : c \notin S
  BY DEF IInv, OneOwner
<1>4. Exact'
  BY <1>3 DEF IInv, Types, Exact, OnlyOf
<1> QED
  BY <1>1, <1>2, <1>4

-----------------------------------------------------------------------------
(* What becomes of a child and its session.                                *)

Kept ==
  /\ conn' \in [Conns -> States]
  /\ pc' \in [Kids -> {"accept", "recv", "send", "gone"}]
  /\ cfd' \in [Kids -> Conns \cup {NoConn}]
  /\ leaked' \in [Kids -> SUBSET Conns]
  /\ InSession' /\ Fits' /\ OneOwner' /\ Exact'

Serving(k) == pc[k] \in {"recv", "send"}

LEMMA ServingFacts ==
  ASSUME IInv, NEW k \in Kids, Serving(k)
  PROVE  /\ cfd[k] \in Conns /\ cfd[k] # NoConn /\ NoConn \notin Conns
         /\ cfd[k] \notin leaked[k]
         /\ Owned(k) = leaked[k] \cup {cfd[k]}
BY PreforkServerAssumption DEF IInv, Types, InSession, Serving, Owned

LEMMA ClosesStep ==
  ASSUME IInv, NEW k \in Kids, Serving(k), Closes(k)
  PROVE  Kept
<1>1. /\ cfd[k] \in Conns /\ cfd[k] # NoConn /\ NoConn \notin Conns
      /\ cfd[k] \notin leaked[k]
      /\ Owned(k) = leaked[k] \cup {cfd[k]}
  BY ServingFacts
<1>2. /\ conn' \in [Conns -> States]
      /\ pc' \in [Kids -> {"accept", "recv", "send", "gone"}]
      /\ cfd' \in [Kids -> Conns \cup {NoConn}]
      /\ leaked' \in [Kids -> SUBSET Conns]
  BY <1>1 DEF Closes, IInv, Types, States
<1>3. InSession'
  BY PreforkServerAssumption DEF Closes, IInv, Types, InSession
<1>4. conn' = [c \in Conns |-> IF c \in {cfd[k]} THEN "closed" ELSE conn[c]]
  BY <1>1 DEF Closes, IInv, Types
<1>5. Owned(k)' = Owned(k) \ {cfd[k]} /\ OnlyOf(k)
  BY <1>1 DEF Closes, IInv, Types, Owned, OnlyOf
<1>6. Fits' /\ OneOwner' /\ Exact'
  BY <1>1, <1>4, <1>5, LoseStep
<1> QED
  BY <1>2, <1>3, <1>6 DEF Kept

\* exit() and SIGPIPE close all the sockets of the child.
LEMMA EndsStep ==
  ASSUME IInv, NEW k \in Kids, Ends(k)
  PROVE  Kept
<1>1. /\ conn' \in [Conns -> States]
      /\ pc' \in [Kids -> {"accept", "recv", "send", "gone"}]
      /\ cfd' \in [Kids -> Conns \cup {NoConn}]
      /\ leaked' \in [Kids -> SUBSET Conns]
  BY DEF Ends, IInv, Types, States
<1>2. InSession'
  BY DEF Ends, IInv, Types, InSession
<1>3. conn' = [c \in Conns |-> IF c \in Owned(k) THEN "closed" ELSE conn[c]]
  BY PreforkServerAssumption DEF Ends, Owned
<1>4. Owned(k)' = Owned(k) \ Owned(k) /\ OnlyOf(k)
  BY DEF Ends, IInv, Types, Owned, OnlyOf
<1>5. Fits' /\ OneOwner' /\ Exact'
  BY <1>3, <1>4, LoseStep
<1> QED
  BY <1>1, <1>2, <1>5 DEF Kept

\* A forgotten socket stays the child's.
LEMMA LeaksStep ==
  ASSUME IInv, NEW k \in Kids, Serving(k), Leaks(k)
  PROVE  Kept
<1>1. /\ cfd[k] \in Conns /\ cfd[k] # NoConn /\ NoConn \notin Conns
      /\ cfd[k] \notin leaked[k]
      /\ Owned(k) = leaked[k] \cup {cfd[k]}
  BY ServingFacts
<1>2. /\ conn' \in [Conns -> States]
      /\ pc' \in [Kids -> {"accept", "recv", "send", "gone"}]
      /\ cfd' \in [Kids -> Conns \cup {NoConn}]
      /\ leaked' \in [Kids -> SUBSET Conns]
  BY <1>1 DEF Leaks, IInv, Types
<1>3. InSession'
  BY <1>1 DEF Leaks, IInv, Types, InSession
<1> PICK S \in SUBSET Owned(k) : S = {}
  OBVIOUS
<1>4. conn' = [c \in Conns |-> IF c \in S THEN "closed" ELSE conn[c]]
  BY DEF Leaks, IInv, Types
<1>5. Owned(k)' = Owned(k) \ S /\ OnlyOf(k)
  BY <1>1 DEF Leaks, IInv, Types, Owned, OnlyOf
<1>6. Fits' /\ OneOwner' /\ Exact'
  BY <1>4, <1>5, LoseStep
<1> QED
  BY <1>2, <1>3, <1>6 DEF Kept

LEMMA GotoStep ==
  ASSUME IInv, NEW k \in Kids, Serving(k), NEW label \in {"recv", "send"},
         Goto(k, label)
  PROVE  Kept
<1>1. /\ conn' \in [Conns -> States]
      /\ pc' \in [Kids -> {"accept", "recv", "send", "gone"}]
      /\ cfd' \in [Kids -> Conns \cup {NoConn}]
      /\ leaked' \in [Kids -> SUBSET Conns]
  BY DEF Goto, IInv, Types
<1>2. InSession'
  BY DEF Goto, Serving, IInv, Types, InSession
<1>3. \A l \in Kids : Owned(l)' = Owned(l)
  BY DEF Goto, Owned
<1>4. Fits' /\ OneOwner' /\ Exact'
  BY <1>3 DEF Goto, IInv, Fits, OneOwner, Exact
<1> QED
  BY <1>1, <1>2, <1>4 DEF Kept

-----------------------------------------------------------------------------
(* The steps of a child.                                                   *)

LEMMA AcceptStep ==
  ASSUME IInv, NEW k \in Kids, accept(k) \/ accept_nameless(k)
  PROVE  Kept
<1>1. pc[k] = "accept" /\ Room(k)
  BY DEF accept, accept_nameless
<1>2. cfd[k] = NoConn /\ NoConn \notin Conns
  BY <1>1, PreforkServerAssumption DEF IInv, InSession
<1>3. Owned(k) = leaked[k] /\ Cardinality(Owned(k)) < MaxFds
  BY <1>1, <1>2 DEF Owned, Room
<1>4. PICK c \in Conns :
        /\ conn[c] = "queued" /\ conn' = [conn EXCEPT ![c] = "taken"]
        /\ \/ /\ cfd' = [cfd EXCEPT ![k] = c] /\ leaked' = leaked
              /\ pc' = [pc EXCEPT ![k] = "recv"]
           \/ /\ leaked' = [leaked EXCEPT ![k] = leaked[k] \cup {c}]
              /\ cfd' = cfd /\ pc' = pc
  BY DEF accept, accept_nameless
<1>5. c \notin leaked[k]
  BY <1>3, <1>4 DEF IInv, Exact
<1>6. /\ conn' \in [Conns -> States]
      /\ pc' \in [Kids -> {"accept", "recv", "send", "gone"}]
      /\ cfd' \in [Kids -> Conns \cup {NoConn}]
      /\ leaked' \in [Kids -> SUBSET Conns]
  BY <1>4 DEF IInv, Types, States
<1>7. InSession'
  BY <1>1, <1>2, <1>4, <1>5 DEF IInv, Types, InSession
<1>8. Owned(k)' = Owned(k) \cup {c} /\ OnlyOf(k)
  BY <1>2, <1>4 DEF IInv, Types, Owned, OnlyOf
<1>9. Fits' /\ OneOwner' /\ Exact'
  BY <1>3, <1>4, <1>8, GainStep
<1> QED
  BY <1>6, <1>7, <1>9 DEF Kept

LEMMA RecvStep ==
  ASSUME IInv, NEW k \in Kids,
         recv_data(k) \/ recv_no_newline(k) \/ recv_eof(k) \/ recv_fails(k)
  PROVE  Kept
<1>1. Serving(k)
  BY DEF recv_data, recv_no_newline, recv_eof, recv_fails, Receiving, Serving
<1>2. Goto(k, "send") \/ Closes(k) \/ Ends(k) \/ Leaks(k)
  BY DEF recv_data, recv_no_newline, recv_eof, recv_fails, RecvEnd, IInv, Types
<1> QED
  BY <1>1, <1>2, GotoStep, ClosesStep, EndsStep, LeaksStep

LEMMA SendStep ==
  ASSUME IInv, NEW k \in Kids, send(k) \/ send_fails(k) \/ send_sigpipe(k)
  PROVE  Kept
<1>1. Serving(k)
  BY DEF send, send_fails, send_sigpipe, Serving
<1>2. Goto(k, "recv") \/ Closes(k) \/ Ends(k)
  BY DEF send, send_fails, send_sigpipe
<1> QED
  BY <1>1, <1>2, GotoStep, ClosesStep, EndsStep

LEMMA ChildStep ==
  ASSUME IInv, NEW k \in Kids, start_child(k)
  PROVE  IInv'
<1>1. Kept
  <2>1. CASE accept(k) \/ accept_nameless(k)
    BY <2>1, AcceptStep
  <2>2. CASE accept_fails(k)
    BY <2>2, EndsStep DEF accept_fails
  <2>3. CASE recv_data(k) \/ recv_no_newline(k) \/ recv_eof(k) \/ recv_fails(k)
    BY <2>3, RecvStep
  <2>4. CASE send(k) \/ send_fails(k) \/ send_sigpipe(k)
    BY <2>4, SendStep
  <2> QED
    BY <2>1, <2>2, <2>3, <2>4 DEF start_child
<1>2. program' = program /\ end' = end
  BY DEF start_child, accept, accept_nameless, accept_fails, recv_data, recv_no_newline,
         recv_eof, recv_fails, send, send_fails, send_sigpipe
<1>3. data' = data \/ \E c \in Conns \cup {NoConn} : data' = [data EXCEPT ![c] = FALSE]
  BY DEF start_child, accept, accept_nameless, accept_fails, recv_data, recv_no_newline,
         recv_eof, recv_fails, send, send_fails, send_sigpipe, IInv, Types
<1>4. data' \in [Conns -> BOOLEAN]
  BY <1>3, PreforkServerAssumption DEF IInv, Types
<1>5. starved' = starved \/ starved' = starved \cup {k}
  BY DEF start_child, accept, accept_nameless, accept_fails, recv_data, recv_no_newline,
         recv_eof, recv_fails, send, send_fails, send_sigpipe
<1>6. starved' \subseteq Kids
  BY <1>5 DEF IInv, Types
<1>7. Types'
  BY <1>1, <1>2, <1>4, <1>6 DEF IInv, Types, Kept
<1> QED
  BY <1>1, <1>7 DEF IInv, Kept

\* What clients do changes no connection that a child has.
LEMMA ClientStep ==
  ASSUME IInv, NEW c \in Conns, Client(c)
  PROVE  IInv'
<1>1. UNCHANGED <<program, pc, cfd, leaked, starved>>
  BY DEF Client, Connect, Send, Hangup, server
<1>2. conn' = conn \/ (conn[c] = "none" /\ conn' = [conn EXCEPT ![c] = "queued"])
  BY DEF Client, Connect, Send, Hangup
<1>3. conn' \in [Conns -> States]
  BY <1>2 DEF IInv, Types, States
<1>4. data' = data \/ data' = [data EXCEPT ![c] = TRUE]
  BY DEF Client, Connect, Send, Hangup
<1>5. data' \in [Conns -> BOOLEAN]
  BY <1>4 DEF IInv, Types
<1>6. end' = end \/ \E how \in {"eof", "rst", "broken"} : end' = [end EXCEPT ![c] = how]
  BY DEF Client, Connect, Send, Hangup
<1>7. end' \in [Conns -> {"open", "eof", "rst", "broken"}]
  BY <1>6 DEF IInv, Types
<1>8. Types'
  BY <1>1, <1>3, <1>5, <1>7 DEF IInv, Types
<1>9. \A k \in Kids : Owned(k)' = Owned(k)
  BY <1>1 DEF Owned
<1>10. \A d \in Conns : conn'[d] = "taken" <=> conn[d] = "taken"
  BY <1>2 DEF IInv, Types
<1>11. InSession' /\ Fits' /\ OneOwner' /\ Exact'
  BY <1>1, <1>9, <1>10 DEF IInv, InSession, Fits, OneOwner, Exact
<1> QED
  BY <1>8, <1>11 DEF IInv

-----------------------------------------------------------------------------

LEMMA InitInv ==
  ASSUME Init
  PROVE  IInv
<1>1. Types
  BY DEF Init, Types, States
<1>2. InSession
  BY DEF Init, InSession
<1>3. \A k \in Kids : Owned(k) = {}
  BY DEF Init, Owned
<1>4. Fits
  BY <1>3, FS_EmptySet, PreforkServerAssumption DEF Fits
<1>5. OneOwner /\ Exact
  BY <1>3 DEF Init, OneOwner, Exact
<1> QED
  BY <1>1, <1>2, <1>4, <1>5 DEF IInv

LEMMA NextPreserves ==
  ASSUME IInv, [Next]_vars
  PROVE  IInv'
<1>1. ASSUME NEW k \in Kids, start_child(k)
      PROVE  IInv'
  BY <1>1, ChildStep
<1>2. ASSUME NEW c \in Conns, Client(c)
      PROVE  IInv'
  BY <1>2, ClientStep
<1>3. CASE UNCHANGED vars
  <2>1. Types' /\ InSession'
    BY <1>3 DEF vars, IInv, Types, InSession
  <2>2. Fits' /\ OneOwner' /\ Exact'
    BY <1>3 DEF vars, IInv, Fits, OneOwner, Exact, Owned
  <2> QED
    BY <2>1, <2>2 DEF IInv
<1> QED
  BY <1>1, <1>2, <1>3 DEF Next

LEMMA Inductive == Spec => []IInv
BY InitInv, NextPreserves, PTL DEF Spec

LEMMA TypeCorrect == Spec => []TypeOK
<1>1. IInv => TypeOK
  BY DEF IInv, Types, States, Fits, Owned, TypeOK
<1> QED
  BY <1>1, Inductive, PTL

-----------------------------------------------------------------------------
(* Children that are gone are paid for by sessions that clients ended.     *)

Lost == Gone \ starved

Ended == {c \in Conns : conn[c] = "closed" /\ end[c] # "open"}

LossInv ==
  /\ IsFiniteSet(Lost) /\ IsFiniteSet(Ended)
  /\ Cardinality(Lost) <= Cardinality(Ended)

\* Nobody else is gone, and no less sessions are ended.
LEMMA NobodyLost ==
  ASSUME LossInv, NEW S, IsFiniteSet(S),
         Lost' \subseteq Lost, Ended \subseteq Ended', Ended' \subseteq Ended \cup S
  PROVE  LossInv'
<1>1. IsFiniteSet(Ended \cup S)
  BY FS_Union DEF LossInv
<1>2. IsFiniteSet(Ended') /\ Cardinality(Ended) <= Cardinality(Ended')
  <2>1. IsFiniteSet(Ended')
    BY <1>1, FS_Subset
  <2> QED
    BY <2>1, FS_Subset
<1>3. IsFiniteSet(Lost') /\ Cardinality(Lost') <= Cardinality(Lost)
  BY FS_Subset DEF LossInv
<1>4. /\ Cardinality(Lost) \in Nat /\ Cardinality(Lost') \in Nat
      /\ Cardinality(Ended) \in Nat /\ Cardinality(Ended') \in Nat
  BY <1>2, <1>3, FS_CardinalityType DEF LossInv
<1>5. Cardinality(Lost') <= Cardinality(Ended')
  BY <1>2, <1>3, <1>4 DEF LossInv
<1> QED
  BY <1>2, <1>3, <1>5 DEF LossInv

\* k is gone, and the session c with it.
LEMMA OneLost ==
  ASSUME LossInv, NEW k, NEW c, NEW S, IsFiniteSet(S), c \notin Ended,
         Lost' \subseteq Lost \cup {k},
         Ended \cup {c} \subseteq Ended', Ended' \subseteq Ended \cup S
  PROVE  LossInv'
<1>1. IsFiniteSet(Ended \cup S)
  BY FS_Union DEF LossInv
<1>2. IsFiniteSet(Ended')
  BY <1>1, FS_Subset
<1>3. /\ IsFiniteSet(Ended \cup {c})
      /\ Cardinality(Ended \cup {c}) = Cardinality(Ended) + 1
  BY FS_AddElement DEF LossInv
<1>4. Cardinality(Ended) + 1 <= Cardinality(Ended')
  BY <1>2, <1>3, FS_Subset
<1>5. /\ IsFiniteSet(Lost \cup {k})
      /\ \/ Cardinality(Lost \cup {k}) = Cardinality(Lost)
         \/ Cardinality(Lost \cup {k}) = Cardinality(Lost) + 1
  BY FS_AddElement DEF LossInv
<1>6. IsFiniteSet(Lost') /\ Cardinality(Lost') <= Cardinality(Lost \cup {k})
  BY <1>5, FS_Subset
<1>7. /\ Cardinality(Lost) \in Nat /\ Cardinality(Lost') \in Nat
      /\ Cardinality(Ended) \in Nat /\ Cardinality(Ended') \in Nat
  BY <1>2, <1>6, FS_CardinalityType DEF LossInv
<1>8. Cardinality(Lost') <= Cardinality(Ended')
  BY <1>4, <1>5, <1>6, <1>7 DEF LossInv
<1> QED
  BY <1>2, <1>6, <1>8 DEF LossInv

\* The connections that a step closes.
Closing(S) == \A c \in Conns : conn'[c] = "closed" <=> conn[c] = "closed" \/ c \in S

\* A step of k after which nobody else is gone, or only for lack of descriptors.
Harmless(k) == Lost' \subseteq Lost /\ \E S \in SUBSET Owned(k) : Closing(S)

\* A step in which k goes with a session that its client has ended.
Fatal(k) ==
  /\ Serving(k) /\ end[cfd[k]] # "open"
  /\ Lost' \subseteq Lost \cup {k} /\ Closing(Owned(k))

LEMMA SurvivesOutcome ==
  ASSUME IInv, NEW k \in Kids, starved' = starved,
         \/ accept(k) \/ accept_nameless(k)
         \/ Serving(k) /\ (Closes(k) \/ Leaks(k) \/ Goto(k, "send") \/ Goto(k, "recv"))
  PROVE  Harmless(k)
<1>1. \A l \in Kids : pc'[l] = "gone" => pc[l] = "gone"
  BY DEF accept, accept_nameless, Closes, Leaks, Goto, IInv, Types
<1>2. Lost' \subseteq Lost
  BY <1>1 DEF Lost, Gone
<1>3. CASE Serving(k) /\ Closes(k)
  <2>1. cfd[k] \in Conns /\ {cfd[k]} \in SUBSET Owned(k)
    BY <1>3, ServingFacts
  <2>2. Closing({cfd[k]})
    BY <1>3, <2>1 DEF Closes, Closing, IInv, Types
  <2> QED
    BY <1>2, <2>1, <2>2 DEF Harmless
<1>4. CASE ~(Serving(k) /\ Closes(k))
  <2> PICK S \in SUBSET Owned(k) : S = {}
    OBVIOUS
  <2>1. Closing(S)
    BY <1>4 DEF accept, accept_nameless, Leaks, Goto, Closing, IInv, Types
  <2> QED
    BY <1>2, <2>1 DEF Harmless
<1> QED
  BY <1>3, <1>4

LEMMA EndsOutcome ==
  ASSUME IInv, NEW k \in Kids, Ends(k),
         \/ starved' = starved \cup {k}
         \/ starved' = starved /\ Serving(k) /\ end[cfd[k]] # "open"
  PROVE  Harmless(k) \/ Fatal(k)
<1>1. Closing(Owned(k))
  BY PreforkServerAssumption DEF Ends, Closing, Owned
<1>2. \A l \in Kids : pc'[l] = "gone" => pc[l] = "gone" \/ l = k
  BY DEF Ends, IInv, Types
<1>3. CASE starved' = starved \cup {k}
  <2>1. Lost' \subseteq Lost
    BY <1>2, <1>3 DEF Lost, Gone
  <2> QED
    BY <1>1, <2>1 DEF Harmless
<1>4. CASE starved' = starved /\ Serving(k) /\ end[cfd[k]] # "open"
  <2>1. Lost' \subseteq Lost \cup {k}
    BY <1>2, <1>4 DEF Lost, Gone
  <2> QED
    BY <1>1, <1>4, <2>1 DEF Fatal
<1> QED
  BY <1>3, <1>4

LEMMA ChildOutcome ==
  ASSUME IInv, NEW k \in Kids, start_child(k)
  PROVE  end' = end /\ (Harmless(k) \/ Fatal(k))
<1>1. end' = end
  BY DEF start_child, accept, accept_nameless, accept_fails, recv_data, recv_no_newline,
         recv_eof, recv_fails, send, send_fails, send_sigpipe
<1>2. CASE accept(k) \/ accept_nameless(k)
  BY <1>1, <1>2, SurvivesOutcome DEF accept, accept_nameless
<1>3. CASE accept_fails(k)
  BY <1>1, <1>3, EndsOutcome DEF accept_fails
<1>4. CASE recv_data(k) \/ recv_no_newline(k)
  <2>1. starved' = starved /\ Serving(k) /\ (Goto(k, "send") \/ Leaks(k))
    BY <1>4 DEF recv_data, recv_no_newline, Receiving, Serving
  <2> QED
    BY <1>1, <2>1, SurvivesOutcome
<1>5. CASE recv_eof(k) \/ recv_fails(k)
  <2>1. /\ starved' = starved /\ Serving(k) /\ end[cfd[k]] # "open"
        /\ Goto(k, "send") \/ Closes(k) \/ Ends(k) \/ Leaks(k)
    BY <1>5 DEF recv_eof, recv_fails, RecvEnd, Receiving, Serving, IInv, Types
  <2> QED
    BY <1>1, <2>1, SurvivesOutcome, EndsOutcome
<1>6. CASE send(k)
  <2>1. starved' = starved /\ Serving(k) /\ Goto(k, "recv")
    BY <1>6 DEF send, Serving
  <2> QED
    BY <1>1, <2>1, SurvivesOutcome
<1>7. CASE send_fails(k) \/ send_sigpipe(k)
  <2>1. /\ starved' = starved /\ Serving(k) /\ end[cfd[k]] # "open"
        /\ Closes(k) \/ Ends(k)
    BY <1>7 DEF send_fails, send_sigpipe, Serving
  <2> QED
    BY <1>1, <2>1, SurvivesOutcome, EndsOutcome
<1> QED
  BY <1>2, <1>3, <1>4, <1>5, <1>6, <1>7 DEF start_child

LEMMA LossStep ==
  ASSUME IInv, LossInv, [Next]_vars
  PROVE  LossInv'
<1>1. ASSUME NEW k \in Kids, start_child(k), Harmless(k)
      PROVE  LossInv'
  <2>1. PICK S \in SUBSET Owned(k) : Closing(S)
    BY <1>1 DEF Harmless
  <2>2. IsFiniteSet(S)
    BY FS_Subset DEF IInv, Fits
  <2>3. Ended \subseteq Ended' /\ Ended' \subseteq Ended \cup S
    BY <1>1, <2>1, ChildOutcome DEF Ended, Closing
  <2> QED
    BY <1>1, <2>2, <2>3, NobodyLost DEF Harmless
<1>2. ASSUME NEW k \in Kids, start_child(k), Fatal(k)
      PROVE  LossInv'
  <2>1. /\ cfd[k] \in Conns /\ cfd[k] \in Owned(k)
        /\ conn[cfd[k]] = "taken"
    BY <1>2, ServingFacts DEF Fatal, IInv, Exact
  <2>2. IsFiniteSet(Owned(k))
    BY DEF IInv, Fits
  <2>3. cfd[k] \notin Ended
    BY <2>1 DEF Ended
  <2>4. end' = end
    BY <1>2, ChildOutcome
  <2>5. Ended \cup {cfd[k]} \subseteq Ended' /\ Ended' \subseteq Ended \cup Owned(k)
    BY <1>2, <2>1, <2>4 DEF Ended, Fatal, Closing
  <2> QED
    BY <1>2, <2>2, <2>3, <2>5, OneLost DEF Fatal
<1>3. ASSUME NEW c \in Conns, Client(c)
      PROVE  LossInv'
  <2>1. Lost' = Lost
    BY <1>3 DEF Client, Connect, Send, Hangup, server, Lost, Gone
  <2>2. \A d \in Conns : conn'[d] = "closed" <=> conn[d] = "closed"
    BY <1>3 DEF Client, Connect, Send, Hangup, IInv, Types
  <2>3. \A d \in Conns : conn[d] = "closed" => end'[d] = end[d]
    BY <1>3 DEF Client, Connect, Send, Hangup, IInv, Types
  <2>4. Ended' = Ended
    BY <2>2, <2>3 DEF Ended
  <2> QED
    BY <2>1, <2>4 DEF LossInv
<1>4. CASE UNCHANGED vars
  <2>1. Lost' = Lost /\ Ended' = Ended
    BY <1>4 DEF vars, Lost, Gone, Ended
  <2> QED
    BY <2>1 DEF LossInv
<1> QED
  BY <1>1, <1>2, <1>3, <1>4, ChildOutcome DEF Next

LEMMA InitLoss ==
  ASSUME Init
  PROVE  LossInv
<1>1. Lost = {} /\ Ended = {}
  BY DEF Init, Lost, Gone, Ended
<1> QED
  BY <1>1, FS_EmptySet DEF LossInv

\* However many clients come and go, no more children are gone, but for lack of
\* descriptors, than there were sessions that clients ended: the pool cannot be
\* emptied by clients that stay.
THEOREM PoolLossCorrect == Spec => []PoolLoss
<1>1. TypeOK /\ LossInv => PoolLoss
  BY DEF LossInv, Lost, Ended, PoolLoss
<1>2. Init => LossInv
  BY InitLoss
<1>3. IInv /\ LossInv /\ [Next]_vars => LossInv'
  BY LossStep
<1> QED
  BY <1>1, <1>2, <1>3, Inductive, TypeCorrect, PTL DEF Spec

=============================================================================
