-------------------------- MODULE Chapter11Proofs --------------------------
(***************************************************************************)
(* Proofs about two modules around the file descriptors of Chapter11, that *)
(* do not share anything: EpollTimerfd, for any clients and any number of  *)
(* descriptors, and SigchldLoops, for any pool and any processes.          *)
(***************************************************************************)
EXTENDS EpollTimerfd, SigchldLoops, FiniteSetTheorems, SequenceTheorems,
        WellFoundedInduction, TLAPS

-----------------------------------------------------------------------------
(* What the searches find.                                                 *)

LEMMA HasLeast ==
  ASSUME NEW S \in SUBSET Nat, S # {}
  PROVE  \E m \in S : \A n \in S : m <= n
<1>1. PICK m \in S : \A n \in S : ~ (<<n, m>> \in OpToRel(<, Nat))
  BY NatLessThanWellFounded, WFMin
<1>2. \A n \in S : ~ (n < m)
  BY <1>1 DEF OpToRel
<1> QED
  BY <1>2

LEMMA LowestIsFree ==
  ASSUME NEW S \in SUBSET Nat, S # {}
  PROVE  LowestFree(S) \in S
BY HasLeast DEF LowestFree

LEMMA EarliestIsHit ==
  ASSUME NEW hits \in SUBSET Nat, hits # {}
  PROVE  \E x \in hits : Earliest(hits) = list[x]
BY HasLeast DEF Earliest

-----------------------------------------------------------------------------
(* The inductive invariant.                                                *)

\* The sockets and the timers that the list names.
Sfds == {list[x].socketfd : x \in DOMAIN list}
Tfds == {list[x].timerfd : x \in DOMAIN list}

Distinct ==
  \A x, k \in DOMAIN list :
    list[x].timerfd = list[k].timerfd \/ list[x].socketfd = list[k].socketfd
      => x = k

Table ==
  /\ Distinct
  /\ Tfds = Timers /\ Sfds \subseteq Sockets
  /\ Sockets \cap Timers = {}
  /\ interest = Sockets \cup Timers

Safe == ~shortage => alive /\ Sockets \subseteq Sfds

IInv == TypeOK /\ Table /\ Safe

LEMMA ListFacts ==
  ASSUME TypeOK
  PROVE  /\ Len(list) \in Nat /\ DOMAIN list = 1 .. Len(list)
         /\ list \in [1 .. Len(list) -> Session]
         /\ \A x \in DOMAIN list :
              /\ list[x] \in Session
              /\ list[x].socketfd \in Fds /\ list[x].timerfd \in Fds
<1>1. list \in Seq(Session)
  BY DEF TypeOK
<1>2. /\ Len(list) \in Nat /\ DOMAIN list = 1 .. Len(list)
      /\ list \in [1 .. Len(list) -> Session]
  BY <1>1, LenProperties
<1>3. \A e \in Session : e.socketfd \in Fds /\ e.timerfd \in Fds
  BY DEF Session
<1> QED
  BY <1>2, <1>3

\* The entry that fds_findbysocketfd finds for a socket of the list, or that
\* fds_findbytimerfd finds for a timer, is the only one.
LEMMA Found ==
  ASSUME TypeOK
  PROVE  /\ \A fd \in Fds : HasSocket(fd) <=> fd \in Sfds
         /\ \A fd \in Fds : HasTimer(fd) <=> fd \in Tfds
         /\ \A fd \in Sfds : \E x \in DOMAIN list :
              fds_findbysocketfd(fd) = list[x] /\ list[x].socketfd = fd
         /\ \A fd \in Tfds : \E x \in DOMAIN list :
              fds_findbytimerfd(fd) = list[x] /\ list[x].timerfd = fd
<1>1. DOMAIN list \subseteq Nat
  BY ListFacts
<1>2. /\ \A fd : HasSocket(fd) <=> fd \in Sfds
      /\ \A fd : HasTimer(fd) <=> fd \in Tfds
  BY DEF HasSocket, HasTimer, SocketHits, TimerHits, Sfds, Tfds
<1>3. ASSUME NEW fd \in Sfds
      PROVE  \E x \in DOMAIN list :
               fds_findbysocketfd(fd) = list[x] /\ list[x].socketfd = fd
  <2>1. SocketHits(fd) \in SUBSET Nat /\ SocketHits(fd) # {}
    BY <1>1, <1>3 DEF SocketHits, Sfds
  <2>2. PICK x \in SocketHits(fd) : Earliest(SocketHits(fd)) = list[x]
    BY <2>1, EarliestIsHit
  <2> QED
    BY <2>2 DEF fds_findbysocketfd, SocketHits
<1>4. ASSUME NEW fd \in Tfds
      PROVE  \E x \in DOMAIN list :
               fds_findbytimerfd(fd) = list[x] /\ list[x].timerfd = fd
  <2>1. TimerHits(fd) \in SUBSET Nat /\ TimerHits(fd) # {}
    BY <1>1, <1>4 DEF TimerHits, Tfds
  <2>2. PICK x \in TimerHits(fd) : Earliest(TimerHits(fd)) = list[x]
    BY <2>1, EarliestIsHit
  <2> QED
    BY <2>2 DEF fds_findbytimerfd, TimerHits
<1> QED
  BY <1>2, <1>3, <1>4

-----------------------------------------------------------------------------
(* What deleting and appending an entry do to the list.                    *)

LEMMA Deletes ==
  ASSUME TypeOK, Distinct, NEW x \in DOMAIN list,
         list' = fds_deletebytimerfd(list[x].timerfd)
  PROVE  /\ list' \in Seq(Session) /\ Len(list') = Len(list) - 1
         /\ Distinct'
         /\ Sfds' = Sfds \ {list[x].socketfd}
         /\ Tfds' = Tfds \ {list[x].timerfd}
<1> PICK n : n = Len(list)
  OBVIOUS
<1> PICK moved : moved = [list EXCEPT ![x] = list[n]]
  OBVIOUS
<1>1. /\ n \in Nat \ {0} /\ DOMAIN list = 1 .. n /\ x \in 1 .. n
      /\ \A k \in 1 .. n : list[k] \in Session
      /\ moved \in [1 .. n -> Session]
      /\ \A k \in 1 .. n : moved[k] = IF k = x THEN list[n] ELSE list[k]
  <2>1. n \in Nat /\ DOMAIN list = 1 .. n /\ list \in [1 .. n -> Session]
    BY ListFacts
  <2>2. x \in 1 .. n /\ n \in Nat \ {0} /\ n \in 1 .. n
    BY <2>1
  <2> QED
    BY <2>1, <2>2
<1>2. list' = SubSeq(moved, 1, n - 1)
  <2> DEFINE Is(j) == /\ list[j].timerfd = list[x].timerfd
                      /\ \A k \in 1 .. j - 1 : list[k].timerfd # list[x].timerfd
  <2>1. Is(x)
    BY <1>1 DEF Distinct
  <2>2. \A j \in DOMAIN list : Is(j) => j = x
    BY DEF Distinct
  <2>3. (CHOOSE j \in DOMAIN list : Is(j)) = x
    BY <2>1, <2>2
  <2> QED
    BY <2>3 DEF fds_deletebytimerfd
<1>3. /\ list' \in Seq(Session) /\ Len(list') = n - 1
      /\ \A k \in 1 .. n - 1 : list'[k] = moved[k]
  <2>1. \A k \in 1 .. n - 1 : moved[k] \in Session
    BY <1>1
  <2>2. /\ SubSeq(moved, 1, n - 1) \in Seq(Session)
        /\ Len(SubSeq(moved, 1, n - 1)) = IF 1 <= n - 1 THEN (n - 1) - 1 + 1 ELSE 0
        /\ \A k \in 1 .. (n - 1) - 1 + 1 :
             SubSeq(moved, 1, n - 1)[k] = moved[1 + k - 1]
    BY <1>1, <2>1, SubSeqProperties
  <2>3. \A k \in 1 .. n - 1 : 1 + k - 1 = k
    OBVIOUS
  <2> QED
    BY <1>1, <1>2, <2>2, <2>3
<1>4. DOMAIN list' = 1 .. n - 1
  BY <1>3, LenProperties
<1>5. \A k \in 1 .. n - 1 : list'[k] = IF k = x THEN list[n] ELSE list[k]
  BY <1>1, <1>3
<1>6. Distinct'
  <2>1. ASSUME NEW j \in 1 .. n - 1, NEW k \in 1 .. n - 1,
               \/ list'[j].timerfd = list'[k].timerfd
               \/ list'[j].socketfd = list'[k].socketfd
        PROVE  j = k
    BY <1>1, <1>5, <2>1 DEF Distinct
  <2> QED
    BY <1>4, <2>1 DEF Distinct
<1>7. /\ \A k \in 1 .. n : k # x => \E j \in 1 .. n - 1 : list'[j] = list[k]
      /\ \A j \in 1 .. n - 1 : \E k \in 1 .. n : k # x /\ list'[j] = list[k]
  <2>1. ASSUME NEW k \in 1 .. n, k # x
        PROVE  \E j \in 1 .. n - 1 : list'[j] = list[k]
    <3>1. CASE k = n
      BY <1>1, <1>5, <2>1, <3>1
    <3>2. CASE k # n
      BY <1>1, <1>5, <2>1, <3>2
    <3> QED
      BY <3>1, <3>2
  <2>2. ASSUME NEW j \in 1 .. n - 1
        PROVE  \E k \in 1 .. n : k # x /\ list'[j] = list[k]
    BY <1>1, <1>5
  <2> QED
    BY <2>1, <2>2
<1>8. Sfds' = Sfds \ {list[x].socketfd} /\ Tfds' = Tfds \ {list[x].timerfd}
  <2>1. /\ Sfds' = {list'[j].socketfd : j \in 1 .. n - 1}
        /\ Tfds' = {list'[j].timerfd : j \in 1 .. n - 1}
    BY <1>4 DEF Sfds, Tfds
  <2>2. /\ Sfds = {list[k].socketfd : k \in 1 .. n}
        /\ Tfds = {list[k].timerfd : k \in 1 .. n}
    BY <1>1 DEF Sfds, Tfds
  <2>3. \A k \in 1 .. n : k # x => /\ list[k].socketfd # list[x].socketfd
                                   /\ list[k].timerfd # list[x].timerfd
    BY <1>1 DEF Distinct
  <2>4. ASSUME NEW j \in 1 .. n - 1
        PROVE  /\ list'[j].socketfd \in Sfds \ {list[x].socketfd}
               /\ list'[j].timerfd \in Tfds \ {list[x].timerfd}
    <3>1. PICK k \in 1 .. n : k # x /\ list'[j] = list[k]
      BY <1>7
    <3> QED
      BY <2>2, <2>3, <3>1
  <2>5. ASSUME NEW k \in 1 .. n, k # x
        PROVE  list[k].socketfd \in Sfds' /\ list[k].timerfd \in Tfds'
    <3>1. PICK j \in 1 .. n - 1 : list'[j] = list[k]
      BY <1>7, <2>5
    <3> QED
      BY <2>1, <3>1
  <2>6. Sfds' \subseteq Sfds \ {list[x].socketfd} /\ Tfds' \subseteq Tfds \ {list[x].timerfd}
    BY <2>1, <2>4
  <2>7. Sfds \ {list[x].socketfd} \subseteq Sfds' /\ Tfds \ {list[x].timerfd} \subseteq Tfds'
    BY <2>2, <2>5
  <2> QED
    BY <2>6, <2>7
<1> QED
  BY <1>3, <1>6, <1>8

LEMMA Appends ==
  ASSUME TypeOK, Distinct, NEW e \in Session,
         e.socketfd \notin Sfds, e.timerfd \notin Tfds, list' = Append(list, e)
  PROVE  /\ list' \in Seq(Session) /\ Len(list') = Len(list) + 1
         /\ Distinct'
         /\ Sfds' = Sfds \cup {e.socketfd} /\ Tfds' = Tfds \cup {e.timerfd}
<1> PICK n : n = Len(list)
  OBVIOUS
<1>1. n \in Nat /\ DOMAIN list = 1 .. n /\ list \in Seq(Session)
  BY ListFacts DEF TypeOK
<1>2. /\ list' \in Seq(Session) /\ Len(list') = n + 1
      /\ \A k \in 1 .. n : list'[k] = list[k]
      /\ list'[n + 1] = e
  BY <1>1, AppendProperties
<1>3. DOMAIN list' = 1 .. n + 1
  BY <1>2, LenProperties
<1>4. \A k \in 1 .. n : list[k].socketfd # e.socketfd /\ list[k].timerfd # e.timerfd
  BY <1>1 DEF Sfds, Tfds
<1>5. Distinct'
  <2>1. ASSUME NEW j \in 1 .. n + 1, NEW k \in 1 .. n + 1,
               \/ list'[j].timerfd = list'[k].timerfd
               \/ list'[j].socketfd = list'[k].socketfd
        PROVE  j = k
    <3>1. (j \in 1 .. n \/ j = n + 1) /\ (k \in 1 .. n \/ k = n + 1)
      BY <1>1
    <3> QED
      BY <1>1, <1>2, <1>4, <2>1, <3>1 DEF Distinct
  <2> QED
    BY <1>3, <2>1 DEF Distinct
<1>6. Sfds' = Sfds \cup {e.socketfd} /\ Tfds' = Tfds \cup {e.timerfd}
  <2>1. 1 .. n + 1 = (1 .. n) \cup {n + 1}
    BY <1>1
  <2>2. /\ Sfds' = {list'[j].socketfd : j \in 1 .. n + 1}
        /\ Tfds' = {list'[j].timerfd : j \in 1 .. n + 1}
        /\ Sfds = {list[k].socketfd : k \in 1 .. n}
        /\ Tfds = {list[k].timerfd : k \in 1 .. n}
    BY <1>1, <1>3 DEF Sfds, Tfds
  <2> QED
    BY <1>2, <2>1, <2>2
<1> QED
  BY <1>2, <1>5, <1>6

-----------------------------------------------------------------------------
(* Closing a session.                                                      *)

\* del_ev finds what it needs: a socket of the list is watched, so is its
\* timer, and a server that exits had a socket without a session.
LEMMA DelStep ==
  ASSUME IInv, NEW fd \in Fds, del_ev(fd), fd \in Sfds \/ shortage,
         UNCHANGED <<data, end, nofile, fresh, shortage>>,
         batch' \in Seq(Fds \cup {Listener})
  PROVE  IInv'
<1>1. CASE fd \notin Sfds
  <2>1. alive' = FALSE /\ shortage' = TRUE /\ UNCHANGED <<conn, table>>
    BY <1>1, Found DEF del_ev, IInv, TypeOK
  <2>2. UNCHANGED <<conn, sock, timer, interest, list, n_allocated>>
    BY <2>1 DEF table
  <2>3. TypeOK' /\ Safe'
    BY <2>1, <2>2 DEF IInv, TypeOK, Safe
  <2>4. Table'
    BY <2>2 DEF IInv, Table, Distinct, Sfds, Tfds, Sockets, Timers
  <2> QED
    BY <2>3, <2>4 DEF IInv
<1>2. CASE fd \in Sfds
  <2>1. PICK x \in DOMAIN list :
          fds_findbysocketfd(fd) = list[x] /\ list[x].socketfd = fd
    BY <1>2, Found DEF IInv
  <2> PICK tfd : tfd = list[x].timerfd
    OBVIOUS
  <2>2. /\ tfd \in Tfds /\ tfd \in Timers /\ fd \in Sockets /\ tfd \in Fds
        /\ fd \in interest /\ tfd \in interest /\ HasSocket(fd)
    BY <1>2, <2>1, Found DEF IInv, Table, Tfds, Timers
  <2>3. /\ conn' = [conn EXCEPT ![sock[fd]] = "closed"]
        /\ sock' = [sock EXCEPT ![fd] = NoConn]
        /\ timer' = [timer EXCEPT ![tfd] = "none"]
        /\ interest' = interest \ {fd, tfd}
        /\ list' = fds_deletebytimerfd(tfd)
        /\ UNCHANGED <<alive, n_allocated>>
    BY <2>1, <2>2 DEF del_ev
  <2>4. /\ list' \in Seq(Session) /\ Len(list') = Len(list) - 1 /\ Distinct'
        /\ Sfds' = Sfds \ {fd} /\ Tfds' = Tfds \ {tfd}
    BY <2>1, <2>3, Deletes DEF IInv, Table
  <2>5. Sockets' = Sockets \ {fd} /\ Timers' = Timers \ {tfd}
    BY <2>2, <2>3 DEF IInv, TypeOK, Sockets, Timers
  <2>6. Len(list) \in Nat
    BY ListFacts DEF IInv
  <2>7. TypeOK'
    <3>1. conn' \in [Conns -> {"none", "queued", "accepted", "closed"}]
      BY <2>3 DEF IInv, TypeOK
    <3>2. /\ sock' \in [Fds -> Conns \cup {NoConn}]
          /\ timer' \in [Fds -> {"none", "armed", "expired"}]
          /\ interest' \subseteq Fds
      BY <2>3 DEF IInv, TypeOK
    <3>3. n_allocated' \in Nat /\ Len(list') <= n_allocated'
      BY <2>3, <2>4, <2>6 DEF IInv, TypeOK
    <3> QED
      BY <2>3, <2>4, <3>1, <3>2, <3>3 DEF IInv, TypeOK
  <2>8. fd \notin Timers /\ tfd \notin Sockets
    BY <2>2 DEF IInv, Table
  <2>9. Table'
    BY <2>2, <2>3, <2>4, <2>5, <2>8 DEF IInv, Table
  <2>10. Safe'
    BY <2>3, <2>4, <2>5 DEF IInv, Safe
  <2> QED
    BY <2>7, <2>9, <2>10 DEF IInv
<1> QED
  BY <1>1, <1>2

LEMMA EventFacts ==
  ASSUME IInv, Handling
  PROVE  /\ Event \in Fds \cup {Listener} /\ Tail(batch) \in Seq(Fds \cup {Listener})
         /\ Event # Listener => Event \in Fds
BY HeadTailProperties DEF IInv, TypeOK, Handling, Event

LEMMA TimeoutStep ==
  ASSUME IInv, handle_timeout
  PROVE  IInv'
<1>1. Event \in Fds /\ batch' = Tail(batch) /\ Tail(batch) \in Seq(Fds \cup {Listener})
  BY EventFacts DEF handle_timeout
<1>2. PICK x \in DOMAIN list : fds_findbytimerfd(Event) = list[x]
  BY <1>1, Found DEF handle_timeout, IInv
<1>3. list[x].socketfd \in Sfds /\ list[x].socketfd \in Fds
  BY ListFacts DEF IInv, Sfds
<1> QED
  BY <1>1, <1>2, <1>3, DelStep DEF handle_timeout

LEMMA EofStep ==
  ASSUME IInv, recv_eof
  PROVE  IInv'
<1>1. /\ Event \in Fds /\ batch' = Tail(batch)
      /\ Tail(batch) \in Seq(Fds \cup {Listener})
  BY EventFacts DEF recv_eof, Receiving
<1>2. sock[Event] # NoConn
  BY DEF recv_eof
<1>3. Event \in Sockets
  BY <1>1, <1>2 DEF Sockets
<1>4. Event \in Sfds \/ shortage
  BY <1>3 DEF IInv, Safe, TypeOK
<1> QED
  BY <1>1, <1>4, DelStep DEF recv_eof

-----------------------------------------------------------------------------
(* Accepting.                                                              *)

LEMMA FreeFacts ==
  ASSUME IInv
  PROVE  /\ FreeFds \in SUBSET Nat /\ FreeFds \subseteq Fds /\ IsFiniteSet(FreeFds)
         /\ \A fd \in FreeFds :
              fd \notin Sockets /\ fd \notin Timers /\ fd \notin Sfds /\ fd \notin Tfds
<1>1. nofile \in Fds /\ NFds \in Nat
  BY EpollTimerfdAssumption DEF IInv, TypeOK
<1>2. FreeFds \subseteq 1 .. NFds /\ IsFiniteSet(1 .. NFds)
  BY <1>1, FS_Interval DEF FreeFds, Fds
<1>3. IsFiniteSet(FreeFds)
  BY <1>2, FS_Subset
<1> QED
  BY <1>2, <1>3 DEF FreeFds, Fds, Sockets, Timers, IInv, Table

LEMMA GrowFits ==
  ASSUME TypeOK, fds_grow
  PROVE  n_allocated' \in Nat /\ Len(list) + 1 <= n_allocated'
<1>1. Len(list) \in Nat
  BY ListFacts
<1> QED
  BY <1>1, EpollTimerfdAssumption DEF TypeOK, fds_grow

\* The two lowest free descriptors become the session's socket and its timer.
LEMMA AcceptStep ==
  ASSUME IInv, accept_session
  PROVE  IInv'
<1> PICK fd : fd = LowestFree(FreeFds)
  OBVIOUS
<1> PICK tfd : tfd = LowestFree(FreeFds \ {fd})
  OBVIOUS
<1>1. PICK c \in Queued :
        /\ Cardinality(FreeFds) > 1
        /\ conn' = [conn EXCEPT ![c] = "accepted"]
        /\ sock' = [sock EXCEPT ![fd] = c]
        /\ timer' = [timer EXCEPT ![tfd] = "armed"]
        /\ interest' = interest \cup {fd, tfd}
        /\ list' = Append(list, [socketfd |-> fd, timerfd |-> tfd])
        /\ fresh' = fresh \cup {tfd}
  BY DEF accept_session, Added
<1>2. fds_grow /\ UNCHANGED <<data, end, nofile, batch, alive, shortage>>
  BY DEF accept_session
<1>3. fd \in FreeFds /\ tfd \in FreeFds /\ tfd # fd
  <2>1. FreeFds # {}
    BY <1>1, FreeFacts, FS_EmptySet
  <2>2. fd \in FreeFds
    BY <2>1, FreeFacts, LowestIsFree
  <2>3. /\ Cardinality(FreeFds \ {fd}) = Cardinality(FreeFds) - 1
        /\ IsFiniteSet(FreeFds \ {fd})
    BY <2>2, FreeFacts, FS_RemoveElement
  <2>4. Cardinality(FreeFds) \in Nat
    BY FreeFacts, FS_CardinalityType
  <2>5. FreeFds \ {fd} # {}
    BY <1>1, <2>3, <2>4, FS_EmptySet
  <2>6. tfd \in FreeFds \ {fd}
    BY <2>5, FreeFacts, LowestIsFree
  <2> QED
    BY <2>2, <2>6
<1>4. /\ fd \in Fds /\ tfd \in Fds /\ c \in Conns /\ c # NoConn
      /\ fd \notin Sockets /\ fd \notin Timers /\ fd \notin Sfds
      /\ tfd \notin Sockets /\ tfd \notin Timers /\ tfd \notin Tfds
  BY <1>3, FreeFacts, EpollTimerfdAssumption DEF Queued
<1>5. /\ list' \in Seq(Session) /\ Len(list') = Len(list) + 1 /\ Distinct'
      /\ Sfds' = Sfds \cup {fd} /\ Tfds' = Tfds \cup {tfd}
  <2> PICK e : e = [socketfd |-> fd, timerfd |-> tfd]
    OBVIOUS
  <2>1. e \in Session /\ e.socketfd = fd /\ e.timerfd = tfd /\ list' = Append(list, e)
    BY <1>1, <1>4 DEF Session
  <2> QED
    BY <1>4, <2>1, Appends DEF IInv, Table
<1>6. Sockets' = Sockets \cup {fd} /\ Timers' = Timers \cup {tfd}
  <2>1. \A g \in Fds : /\ sock'[g] = IF g = fd THEN c ELSE sock[g]
                       /\ timer'[g] = IF g = tfd THEN "armed" ELSE timer[g]
    BY <1>1 DEF IInv, TypeOK
  <2> QED
    BY <1>4, <2>1 DEF Sockets, Timers
<1>7. TypeOK'
  <2>1. /\ conn' \in [Conns -> {"none", "queued", "accepted", "closed"}]
        /\ sock' \in [Fds -> Conns \cup {NoConn}]
        /\ timer' \in [Fds -> {"none", "armed", "expired"}]
    BY <1>1, <1>4 DEF IInv, TypeOK
  <2>2. interest' \subseteq Fds /\ fresh' \subseteq Fds
    BY <1>1, <1>4 DEF IInv, TypeOK
  <2>3. n_allocated' \in Nat /\ Len(list') <= n_allocated'
    BY <1>2, <1>5, GrowFits DEF IInv
  <2> QED
    BY <1>2, <1>5, <2>1, <2>2, <2>3 DEF IInv, TypeOK
<1>8. Table'
  BY <1>1, <1>3, <1>4, <1>5, <1>6 DEF IInv, Table
<1>9. Safe'
  BY <1>2, <1>5, <1>6 DEF IInv, Safe
<1> QED
  BY <1>7, <1>8, <1>9 DEF IInv

LEMMA TimerlessStep ==
  ASSUME IInv, accept_timerless
  PROVE  IInv'
<1> PICK fd : fd = LowestFree(FreeFds)
  OBVIOUS
<1>1. PICK c \in Queued :
        /\ conn' = [conn EXCEPT ![c] = "accepted"]
        /\ sock' = [sock EXCEPT ![fd] = c]
        /\ interest' = interest \cup {fd}
  BY DEF accept_timerless
<1>2. /\ shortage' = TRUE
      /\ UNCHANGED <<data, end, nofile, timer, list, batch, alive, fresh>>
      /\ UNCHANGED n_allocated \/ fds_grow
  BY DEF accept_timerless
<1>3. fd \in FreeFds
  BY FreeFacts, LowestIsFree DEF accept_timerless
<1>4. /\ fd \in Fds /\ c \in Conns /\ c # NoConn
      /\ fd \notin Sockets /\ fd \notin Timers
  BY <1>3, FreeFacts, EpollTimerfdAssumption DEF Queued
<1>5. Sockets' = Sockets \cup {fd} /\ Timers' = Timers
  <2>1. \A g \in Fds : sock'[g] = IF g = fd THEN c ELSE sock[g]
    BY <1>1 DEF IInv, TypeOK
  <2> QED
    BY <1>2, <1>4, <2>1 DEF Sockets, Timers
<1>6. TypeOK'
  <2>1. /\ conn' \in [Conns -> {"none", "queued", "accepted", "closed"}]
        /\ sock' \in [Fds -> Conns \cup {NoConn}]
        /\ interest' \subseteq Fds
    BY <1>1, <1>4 DEF IInv, TypeOK
  <2>2. n_allocated' \in Nat /\ Len(list) <= n_allocated'
    BY <1>2, GrowFits, ListFacts DEF IInv, TypeOK
  <2> QED
    BY <1>2, <2>1, <2>2 DEF IInv, TypeOK
<1>7. Table'
  <2>1. Distinct' /\ Sfds' = Sfds /\ Tfds' = Tfds
    BY <1>2 DEF IInv, Table, Distinct, Sfds, Tfds
  <2> QED
    BY <1>1, <1>4, <1>5, <2>1 DEF IInv, Table
<1>8. Safe'
  BY <1>2 DEF Safe
<1> QED
  BY <1>6, <1>7, <1>8 DEF IInv

-----------------------------------------------------------------------------
(* The steps that leave the sessions alone.                                *)

LEMMA KeepsTable ==
  ASSUME IInv, TypeOK', UNCHANGED <<sock, interest, list>>,
         Timers' = Timers, alive' = alive, shortage' = shortage
  PROVE  IInv'
<1>1. Sockets' = Sockets /\ Sfds' = Sfds /\ Tfds' = Tfds
  BY DEF Sockets, Sfds, Tfds
<1>2. Distinct'
  BY DEF IInv, Table, Distinct
<1>3. Table' /\ Safe'
  BY <1>1, <1>2 DEF IInv, Table, Safe
<1> QED
  BY <1>3 DEF IInv

LEMMA ClientStep ==
  ASSUME IInv, NEW c \in Conns, Connect(c) \/ Send(c) \/ Hangup(c)
  PROVE  IInv'
<1>1. /\ UNCHANGED <<nofile, sock, timer, interest, list, n_allocated>>
      /\ UNCHANGED <<batch, alive, fresh, shortage>>
  BY DEF Connect, Send, Hangup, table
<1>2. /\ conn' \in [Conns -> {"none", "queued", "accepted", "closed"}]
      /\ data' \in [Conns -> BOOLEAN]
      /\ end' \in [Conns -> {"open", "eof", "rst"}]
  BY DEF Connect, Send, Hangup, IInv, TypeOK
<1>3. TypeOK'
  BY <1>1, <1>2 DEF IInv, TypeOK
<1> QED
  BY <1>1, <1>3, KeepsTable DEF Timers

LEMMA ExpireStep ==
  ASSUME IInv, NEW fd \in Fds, Expire(fd)
  PROVE  IInv'
<1>1. /\ UNCHANGED <<conn, data, end, nofile, sock, interest, list, n_allocated>>
      /\ UNCHANGED <<batch, alive, fresh, shortage>>
      /\ timer[fd] = "armed" /\ timer' = [timer EXCEPT ![fd] = "expired"]
  BY DEF Expire, kernel
<1>2. TypeOK' /\ Timers' = Timers
  BY <1>1 DEF IInv, TypeOK, Timers
<1> QED
  BY <1>1, <1>2, KeepsTable

LEMMA WaitStep ==
  ASSUME IInv, epoll_wait
  PROVE  IInv'
<1>1. /\ UNCHANGED <<conn, data, end, nofile, alive, shortage>>
      /\ UNCHANGED <<sock, timer, interest, list, n_allocated>> /\ fresh' = {}
  BY DEF epoll_wait, kernel, table
<1>2. Ready \subseteq Fds \cup {Listener} /\ Cardinality(Ready) \in Nat
  <2>1. Ready \subseteq Fds \cup {Listener}
    BY DEF IInv, TypeOK, Ready
  <2>2. IsFiniteSet(Fds \cup {Listener})
    <3>1. IsFiniteSet(Fds)
      BY FS_Interval, EpollTimerfdAssumption DEF Fds
    <3> QED
      BY <3>1, FS_AddElement
  <2> QED
    BY <2>1, <2>2, FS_Subset, FS_CardinalityType
<1>3. \E n \in Nat : batch' \in [1 .. n -> Ready]
  <2> PICK n : n = IF Cardinality(Ready) < max_ep_events
                     THEN Cardinality(Ready) ELSE max_ep_events
    OBVIOUS
  <2>1. n \in Nat
    BY <1>2, EpollTimerfdAssumption
  <2>2. batch' \in [1 .. n -> Ready]
    BY DEF epoll_wait
  <2> QED
    BY <2>1, <2>2
<1>4. batch' \in Seq(Fds \cup {Listener})
  BY <1>2, <1>3, SeqDef
<1>5. TypeOK'
  BY <1>1, <1>4 DEF IInv, TypeOK
<1> QED
  BY <1>1, <1>5, KeepsTable DEF Timers

LEMMA OtherEvents ==
  ASSUME IInv,
         \/ accept_stops \/ recv_nothing \/ recv_reset
         \/ recv_data \/ recv_data_timerless
  PROVE  IInv'
<1>1. /\ Tail(batch) \in Seq(Fds \cup {Listener})
      /\ << >> \in Seq(Fds \cup {Listener})
      /\ Handling /\ (Event # Listener => Event \in Fds)
  BY EventFacts, EmptySeq DEF accept_stops, recv_nothing, recv_reset, recv_data,
     recv_data_timerless, recv_bytes, Receiving
<1>2. CASE accept_stops \/ recv_nothing \/ recv_reset
  <2>1. /\ UNCHANGED <<conn, data, nofile, sock, timer, interest, list, n_allocated>>
        /\ UNCHANGED <<alive, fresh, shortage>> /\ batch' = Tail(batch)
        /\ end' = end \/ end' = [end EXCEPT ![sock[Event]] = "eof"]
    BY <1>2 DEF accept_stops, recv_nothing, recv_reset, kernel, table
  <2>2. end' \in [Conns -> {"open", "eof", "rst"}]
    BY <2>1 DEF IInv, TypeOK
  <2>3. TypeOK'
    BY <1>1, <2>1, <2>2 DEF IInv, TypeOK
  <2> QED
    BY <2>1, <2>3, KeepsTable DEF Timers
<1>3. CASE recv_data \/ recv_data_timerless
  <2>1. /\ UNCHANGED <<conn, end, nofile, sock, interest, list, n_allocated>>
        /\ alive' = alive /\ shortage' = shortage
        /\ data' \in {data, [data EXCEPT ![sock[Event]] = FALSE]}
    BY <1>3 DEF recv_data, recv_data_timerless, recv_bytes
  <2>2. data' \in [Conns -> BOOLEAN]
    BY <2>1 DEF IInv, TypeOK
  <2>3. CASE recv_data_timerless
    <3>1. UNCHANGED <<timer, fresh>> /\ batch' = << >>
      BY <2>3 DEF recv_data_timerless
    <3>2. TypeOK'
      BY <1>1, <2>1, <2>2, <3>1 DEF IInv, TypeOK
    <3> QED
      BY <2>1, <3>1, <3>2, KeepsTable DEF Timers
  <2>4. CASE recv_data
    <3> PICK tfd : tfd = fds_findbysocketfd(Event).timerfd
      OBVIOUS
    <3>1. /\ timer' = [timer EXCEPT ![tfd] = "armed"]
          /\ fresh' = fresh \cup {tfd} /\ batch' = Tail(batch)
          /\ HasSocket(Event) /\ Event \in Fds
      BY <1>1, <2>4 DEF recv_data, recv_bytes, Receiving
    <3>2. PICK x \in DOMAIN list : fds_findbysocketfd(Event) = list[x]
      BY <3>1, Found DEF IInv
    <3>3. tfd \in Timers /\ tfd \in Fds
      BY <3>2 DEF IInv, Table, Tfds, Timers
    <3>4. TypeOK' /\ Timers' = Timers
      <4>1. timer' \in [Fds -> {"none", "armed", "expired"}] /\ fresh' \subseteq Fds
        BY <3>1, <3>3 DEF IInv, TypeOK
      <4>2. TypeOK'
        BY <1>1, <2>1, <2>2, <3>1, <4>1 DEF IInv, TypeOK
      <4> QED
        BY <3>1, <3>3, <4>2 DEF IInv, TypeOK, Timers
    <3> QED
      BY <2>1, <3>4, KeepsTable
  <2> QED
    BY <1>3, <2>3, <2>4
<1> QED
  BY <1>2, <1>3

-----------------------------------------------------------------------------
(* The theorems.                                                           *)

LEMMA InitIInv == Init => IInv
<1> SUFFICES ASSUME Init
             PROVE  IInv
  OBVIOUS
<1>1. /\ list = << >> /\ Len(list) = 0 /\ DOMAIN list = {}
      /\ << >> \in Seq(Session) /\ << >> \in Seq(Fds \cup {Listener})
  BY EmptySeq DEF Init
<1>2. TypeOK
  <2>1. /\ conn \in [Conns -> {"none", "queued", "accepted", "closed"}]
        /\ data \in [Conns -> BOOLEAN]
        /\ end \in [Conns -> {"open", "eof", "rst"}]
        /\ sock \in [Fds -> Conns \cup {NoConn}]
        /\ timer \in [Fds -> {"none", "armed", "expired"}]
    BY DEF Init
  <2>2. /\ nofile \in Fds /\ interest \subseteq Fds /\ fresh \subseteq Fds
        /\ alive \in BOOLEAN /\ shortage \in BOOLEAN
    BY DEF Init
  <2>3. /\ list \in Seq(Session) /\ batch \in Seq(Fds \cup {Listener})
        /\ n_allocated \in Nat /\ Len(list) <= n_allocated
    BY <1>1 DEF Init
  <2> QED
    BY <2>1, <2>2, <2>3 DEF TypeOK
<1>3. Sockets = {} /\ Timers = {} /\ Sfds = {} /\ Tfds = {} /\ Distinct
  BY <1>1 DEF Init, Sockets, Timers, Sfds, Tfds, Distinct
<1>4. Table /\ Safe
  BY <1>3 DEF Init, Table, Safe
<1> QED
  BY <1>2, <1>4 DEF IInv

LEMMA NextIInv == IInv /\ [Next]_vars => IInv'
<1> SUFFICES ASSUME IInv, [Next]_vars
             PROVE  IInv'
  OBVIOUS
<1>1. CASE Server
  BY <1>1, WaitStep, AcceptStep, TimerlessStep, TimeoutStep, EofStep, OtherEvents
     DEF Server
<1>2. CASE UNCHANGED vars
  <2>1. /\ UNCHANGED <<conn, data, end, nofile, sock, timer, interest, list>>
        /\ UNCHANGED <<n_allocated, batch, alive, fresh, shortage>>
    BY <1>2 DEF vars, kernel, table
  <2>2. TypeOK' /\ Timers' = Timers
    BY <2>1 DEF IInv, TypeOK, Timers
  <2> QED
    BY <2>1, <2>2, KeepsTable
<1> QED
  BY <1>1, <1>2, ClientStep, ExpireStep DEF Next, Clients

LEMMA Invariance == Spec => []IInv
BY InitIInv, NextIInv, PTL DEF Spec

\* Whatever clients do, whenever timers expire and however descriptor numbers
\* are reused within a batch, the session table and the epoll set agree with
\* the open descriptors after every event.
THEOREM TableMatchesFdsCorrect == Spec => []TableMatchesFds
<1>1. IInv => TableMatchesFds
  BY DEF IInv, Table, Distinct, Sfds, Tfds, TableMatchesFds
<1> QED
  BY <1>1, Invariance, PTL

\* Until fds_new_timerfd fails for want of a descriptor or of memory, every
\* socket has its timer and the server does not exit.
THEOREM SafeUntilShortageCorrect == Spec => []SafeUntilShortage
<1>1. IInv => SafeUntilShortage
  BY Found DEF IInv, Safe, SafeUntilShortage, Timerless, Sockets
<1> QED
  BY <1>1, Invariance, PTL

-----------------------------------------------------------------------------
(* Stale time-outs.                                                        *)

\* A timer that runs while an event of it waits was set after epoll_wait.
Stale ==
  \A j \in DOMAIN batch :
    batch[j] # Listener /\ timer[batch[j]] = "armed" => batch[j] \in fresh

\* Events are only dropped, and timers only set afresh.
LEMMA StaleKept ==
  ASSUME IInv, Stale,
         batch' \in {batch, << >>} \/ (batch # << >> /\ batch' = Tail(batch)),
         fresh \subseteq fresh',
         \A fd \in Fds : timer'[fd] = "armed" => timer[fd] = "armed" \/ fd \in fresh'
  PROVE  Stale'
<1>1. batch \in Seq(Fds \cup {Listener}) /\ DOMAIN batch = 1 .. Len(batch)
      /\ Len(batch) \in Nat
  BY LenProperties DEF IInv, TypeOK
<1>2. \A j \in DOMAIN batch : batch[j] \in Fds \cup {Listener}
  BY <1>1, ElementOfSeq
<1>3. \A j \in DOMAIN batch' : \E k \in DOMAIN batch : batch'[j] = batch[k]
  <2>1. CASE batch' = batch
    BY <2>1
  <2>2. CASE batch' = << >>
    BY <2>2
  <2>3. CASE batch # << >> /\ batch' = Tail(batch)
    <3>1. /\ Tail(batch) \in Seq(Fds \cup {Listener})
          /\ Len(Tail(batch)) = Len(batch) - 1
          /\ \A j \in 1 .. Len(Tail(batch)) : Tail(batch)[j] = batch[j + 1]
      BY <1>1, <2>3, HeadTailProperties
    <3>2. DOMAIN batch' = 1 .. Len(batch) - 1
      BY <2>3, <3>1, LenProperties
    <3>3. \A j \in 1 .. Len(batch) - 1 : j + 1 \in DOMAIN batch /\ batch'[j] = batch[j + 1]
      <4>1. ASSUME NEW j \in 1 .. Len(batch) - 1
            PROVE  j + 1 \in DOMAIN batch /\ batch'[j] = batch[j + 1]
        <5>1. j + 1 \in 1 .. Len(batch) /\ j \in 1 .. Len(Tail(batch))
          BY <1>1, <3>1
        <5> QED
          BY <1>1, <2>3, <3>1, <5>1
      <4> QED
        BY <4>1
    <3> QED
      BY <3>2, <3>3
  <2> QED
    BY <2>1, <2>2, <2>3
<1>4. ASSUME NEW j \in DOMAIN batch', batch'[j] # Listener, timer'[batch'[j]] = "armed"
      PROVE  batch'[j] \in fresh'
  <2>1. PICK k \in DOMAIN batch : batch'[j] = batch[k]
    BY <1>3
  <2>2. batch[k] \in Fds /\ batch[k] # Listener
    BY <1>2, <1>4, <2>1
  <2> QED
    BY <1>4, <2>1, <2>2 DEF Stale
<1> QED
  BY <1>4 DEF Stale

LEMMA WaitStale ==
  ASSUME IInv, epoll_wait
  PROVE  Stale'
<1>1. timer' = timer /\ \E n : batch' \in [1 .. n -> Ready]
  BY DEF epoll_wait, table
<1>2. \A fd \in Ready : fd # Listener => timer[fd] # "armed"
  <2>1. ASSUME NEW fd \in Ready, fd # Listener
        PROVE  timer[fd] # "armed"
    <3>1. fd \in interest /\ Readable(fd)
      BY <2>1 DEF Ready
    <3>2. CASE timer[fd] = "expired"
      BY <3>2
    <3>3. CASE sock[fd] # NoConn
      BY <3>1, <3>3 DEF IInv, TypeOK, Table, Sockets, Timers
    <3> QED
      BY <3>1, <3>2, <3>3 DEF Readable
  <2> QED
    BY <2>1
<1>3. \A j \in DOMAIN batch' : batch'[j] \in Ready
  BY <1>1
<1> QED
  BY <1>1, <1>2, <1>3 DEF Stale

LEMMA NextStale == IInv /\ Stale /\ [Next]_vars => Stale'
<1> SUFFICES ASSUME IInv, Stale, [Next]_vars
             PROVE  Stale'
  OBVIOUS
<1>1. CASE epoll_wait
  BY <1>1, WaitStale
<1>2. CASE accept_session
  <2>1. PICK tfd : timer' = [timer EXCEPT ![tfd] = "armed"] /\ fresh' = fresh \cup {tfd}
    BY <1>2 DEF accept_session
  <2>2. batch' = batch
    BY <1>2 DEF accept_session
  <2>3. \A fd \in Fds : timer'[fd] = "armed" => timer[fd] = "armed" \/ fd \in fresh'
    BY <2>1 DEF IInv, TypeOK
  <2> QED
    BY <2>1, <2>2, <2>3, StaleKept
<1>3. CASE recv_data
  <2>1. PICK tfd : timer' = [timer EXCEPT ![tfd] = "armed"] /\ fresh' = fresh \cup {tfd}
    BY <1>3 DEF recv_data
  <2>2. batch # << >> /\ batch' = Tail(batch)
    BY <1>3 DEF recv_data, recv_bytes, Receiving, Handling
  <2>3. \A fd \in Fds : timer'[fd] = "armed" => timer[fd] = "armed" \/ fd \in fresh'
    BY <2>1 DEF IInv, TypeOK
  <2> QED
    BY <2>1, <2>2, <2>3, StaleKept
<1>4. CASE handle_timeout \/ recv_eof
  <2>1. /\ batch # << >> /\ batch' = Tail(batch) /\ fresh' = fresh
        /\ \E fd : del_ev(fd)
    BY <1>4 DEF handle_timeout, recv_eof, Receiving, Handling
  <2>2. timer' = timer \/ \E tfd : timer' = [timer EXCEPT ![tfd] = "none"]
    BY <2>1 DEF del_ev, table
  <2>3. \A fd \in Fds : timer'[fd] = "armed" => timer[fd] = "armed"
    BY <2>2 DEF IInv, TypeOK
  <2> QED
    BY <2>1, <2>3, StaleKept
<1>5. CASE \/ accept_timerless \/ accept_stops \/ recv_nothing \/ recv_reset
           \/ recv_data_timerless
  <2>1. /\ timer' = timer /\ fresh' = fresh
        /\ batch' \in {batch, << >>} \/ (batch # << >> /\ batch' = Tail(batch))
    BY <1>5 DEF accept_timerless, accept_stops, recv_nothing, recv_reset,
       recv_data_timerless, recv_bytes, Receiving, Handling, table
  <2> QED
    BY <2>1, StaleKept
<1>6. CASE Clients
  <2>1. timer' = timer /\ fresh' = fresh /\ batch' = batch
    BY <1>6 DEF Clients, Connect, Send, Hangup, table
  <2> QED
    BY <2>1, StaleKept
<1>7. ASSUME NEW fd \in Fds, Expire(fd)
      PROVE  Stale'
  <2>1. timer' = [timer EXCEPT ![fd] = "expired"] /\ fresh' = fresh /\ batch' = batch
    BY <1>7 DEF Expire
  <2>2. \A g \in Fds : timer'[g] = "armed" => timer[g] = "armed"
    BY <2>1 DEF IInv, TypeOK
  <2> QED
    BY <2>1, <2>2, StaleKept
<1>8. CASE UNCHANGED vars
  BY <1>8, StaleKept DEF vars, table
<1> QED
  BY <1>1, <1>2, <1>3, <1>4, <1>5, <1>6, <1>7, <1>8 DEF Next, Server

\* A time-out that is handled is due, or the timer was set during the batch: an
\* event is never older than that.
THEOREM TimeoutJustifiedCorrect == Spec => TimeoutJustified
<1>1. Init => Stale
  BY DEF Init, Stale
<1>2. IInv /\ Stale /\ [Next]_vars =>
        [handle_timeout => timer[Event] = "expired" \/ Event \in fresh]_vars
  <2> SUFFICES ASSUME IInv, Stale, handle_timeout
               PROVE  timer[Event] = "expired" \/ Event \in fresh
    OBVIOUS
  <2>1. Event \in Fds /\ Event # Listener
    BY EventFacts DEF handle_timeout
  <2>2. timer[Event] \in {"armed", "expired"}
    BY <2>1, Found DEF handle_timeout, IInv, TypeOK, Table, Timers
  <2>3. 1 \in DOMAIN batch /\ Event = batch[1]
    <3>1. batch \in Seq(Fds \cup {Listener}) /\ batch # << >>
      BY DEF handle_timeout, Handling, IInv, TypeOK
    <3> QED
      BY <3>1, EmptySeq, LenProperties DEF Event
  <2> QED
    BY <2>1, <2>2, <2>3 DEF Stale
<1> QED
  BY <1>1, <1>2, NextStale, Invariance, PTL DEF Spec, TimeoutJustified

-----------------------------------------------------------------------------
(* The programs of SigchldLoops.  Only a process that runs or is stopped   *)
(* can have unreported news; in particular waitid() has nothing to say of  *)
(* one that has not been forked or has been reaped.                        *)

NewsFits ==
  \A p \in Pids :
    /\ news[p] = "stopped" => child[p] = "stopped"
    /\ news[p] = "continued" => child[p] = "running"

\* Only the pool forks again, and only after it has set str_status.
ForkTold == pc = "fork" => program = "pool" /\ told

\* Outside the loop news comes with a signal, in the start-up phase too.
NothingMissed ==
  pc \in {"start", "read"} /\ ~pend => Waitable = {} \/ (program = "pool" /\ left)

\* Whatever a pending signal announced is still to be collected, or has been
\* collected ahead of it.
SignalCovers == program = "pool" /\ pend /\ Waitable = {} => ahead

\* The pool's children, dead ones included until they are reaped.
Kept == {p \in Pids : child[p] \in {"running", "stopped", "dead"}}

PoolCounts ==
  program = "pool" =>
    /\ pc = "start" => Cardinality(Kept) = i /\ extra = 0
    /\ pc \in {"read", "waitid"} => Cardinality(Kept) = MAX_POOL + extra
    /\ pc = "fork" => Cardinality(Kept) = MAX_POOL + extra - 1

OthersCount == program # "pool" => extra = 0

LoopsInv ==
  /\ LoopsTypeOK
  /\ NewsFits
  /\ ForkTold
  /\ NothingMissed
  /\ SignalCovers
  /\ StatusSet
  /\ PoolCounts
  /\ OthersCount

-----------------------------------------------------------------------------
(* The number of children kept.                                            *)

LEMMA KeptFinite == IsFiniteSet(Kept) /\ Cardinality(Kept) \in Nat
                    /\ Cardinality(Kept) <= Cardinality(Pids)
                    /\ Cardinality(Pids) \in Nat
<1>1. Kept \subseteq Pids
  BY DEF Kept
<1> QED
  BY <1>1, FS_Subset, FS_CardinalityType, SigchldLoopsAssumption

\* A child that dies, stops or continues is kept as it was.
LEMMA KeptSame ==
  ASSUME NEW p \in Pids, child[p] \in {"running", "stopped", "dead"},
         child \in [Pids -> {"unused", "running", "stopped", "dead", "reaped"}],
         NEW state \in {"running", "stopped", "dead"},
         child' = [child EXCEPT ![p] = state]
  PROVE  Kept' = Kept
BY DEF Kept

LEMMA KeptForked ==
  ASSUME child \in [Pids -> {"unused", "running", "stopped", "dead", "reaped"}],
         start_child
  PROVE  /\ child' \in [Pids -> {"unused", "running", "stopped", "dead", "reaped"}]
         /\ Cardinality(Kept') = Cardinality(Kept) + 1
         /\ Cardinality(Kept') <= Cardinality(Pids)
<1>1. PICK p \in Pids : child[p] = "unused" /\ child' = [child EXCEPT ![p] = "running"]
  BY DEF start_child
<1>2. p \notin Kept /\ Kept' = Kept \cup {p}
  BY <1>1 DEF Kept
<1>3. Cardinality(Kept \cup {p}) = Cardinality(Kept) + 1
  BY <1>2, KeptFinite, FS_AddElement
<1>4. Kept' \subseteq Pids
  BY DEF Kept
<1>5. Cardinality(Kept') <= Cardinality(Pids)
  BY <1>4, FS_Subset, SigchldLoopsAssumption
<1> QED
  BY <1>1, <1>2, <1>3, <1>5

LEMMA KeptReaped ==
  ASSUME child \in [Pids -> {"unused", "running", "stopped", "dead", "reaped"}],
         NEW p \in Pids, child[p] = "dead",
         child' = [child EXCEPT ![p] = "reaped"]
  PROVE  Cardinality(Kept') = Cardinality(Kept) - 1
<1>1. p \in Kept /\ Kept' = Kept \ {p}
  BY DEF Kept
<1> QED
  BY <1>1, KeptFinite, FS_RemoveElement

-----------------------------------------------------------------------------
(* The steps of children.                                                  *)

LEMMA ChildStep ==
  ASSUME LoopsInv, NEW p \in Pids, Child(p)
  PROVE  LoopsInv'
<1> USE DEF LoopsInv, LoopsTypeOK, parent
<1>1. UNCHANGED <<program, pc, i, told, extra, left, ahead>>
  BY DEF Child, Dies, Stops, Continues
<1>2. PICK state \in {"running", "stopped", "dead"} :
        /\ child[p] \in {"running", "stopped"}
        /\ child' = [child EXCEPT ![p] = state]
        /\ state = "stopped" => child[p] = "running"
        /\ state = "running" => child[p] = "stopped"
        /\ news' = [news EXCEPT ![p] = IF state = "dead" THEN "none"
                                       ELSE IF state = "stopped" THEN "stopped"
                                       ELSE "continued"]
        /\ pend' = IF state = "dead" THEN TRUE ELSE Raised
  BY DEF Child, Dies, Stops, Continues
<1>3. LoopsTypeOK'
  BY <1>1, <1>2 DEF Raised
<1>4. NewsFits'
  BY <1>2 DEF NewsFits
<1>5. ForkTold'
  BY <1>1 DEF ForkTold
<1>6. NothingMissed'
  <2>1. CASE program = "nocldstop" /\ state # "dead"
    <3>1. Waitable' = Waitable /\ pend' = pend
      BY <1>1, <1>2, <2>1 DEF Waitable, Raised
    <3> QED
      BY <1>1, <3>1 DEF NothingMissed
  <2>2. CASE program # "nocldstop" \/ state = "dead"
    BY <1>1, <1>2, <2>2 DEF NothingMissed, Raised
  <2> QED
    BY <2>1, <2>2
<1>7. program = "pool" => Waitable' # {}
  BY <1>1, <1>2 DEF Waitable
<1>8. SignalCovers' /\ StatusSet'
  BY <1>1, <1>7 DEF SignalCovers, StatusSet
<1>9. Kept' = Kept
  BY <1>2, KeptSame
<1>10. PoolCounts' /\ OthersCount'
  BY <1>1, <1>9 DEF PoolCounts, OthersCount
<1> QED
  BY <1>3, <1>4, <1>5, <1>6, <1>8, <1>10

-----------------------------------------------------------------------------
(* The steps of the parent.                                                *)

\* A new child runs and has no news: there is nothing more to collect.
LEMMA ForkedWaitable ==
  ASSUME LoopsInv, start_child, UNCHANGED <<news, program>>
  PROVE  Waitable' = Waitable /\ NewsFits'
BY DEF LoopsInv, LoopsTypeOK, start_child, Waitable, NewsFits

LEMMA StartChildStep ==
  ASSUME LoopsInv, main_start_child
  PROVE  LoopsInv'
<1> USE DEF LoopsInv, LoopsTypeOK, main_start_child
<1>1. /\ child' \in [Pids -> {"unused", "running", "stopped", "dead", "reaped"}]
      /\ Cardinality(Kept') = Cardinality(Kept) + 1
  BY KeptForked
<1>2. Waitable' = Waitable /\ NewsFits'
  BY ForkedWaitable
<1>3. LoopsTypeOK'
  <2>1. i' \in 0 .. MAX_POOL
    BY SigchldLoopsAssumption DEF InPool
  <2> QED
    BY <1>1, <2>1
<1>4. ForkTold' /\ NothingMissed' /\ SignalCovers' /\ StatusSet'
  BY <1>2 DEF ForkTold, NothingMissed, SignalCovers, StatusSet
<1>5. PoolCounts' /\ OthersCount'
  BY <1>1, KeptFinite DEF PoolCounts, OthersCount
<1> QED
  BY <1>2, <1>3, <1>4, <1>5

LEMMA StartedStep ==
  ASSUME LoopsInv, main_started
  PROVE  LoopsInv'
<1> USE DEF LoopsInv, LoopsTypeOK, main_started
<1>1. Waitable' = Waitable /\ Kept' = Kept
  BY DEF Waitable, Kept
<1>2. LoopsTypeOK' /\ NewsFits' /\ ForkTold' /\ NothingMissed' /\ SignalCovers' /\ StatusSet'
  BY <1>1 DEF NewsFits, ForkTold, NothingMissed, SignalCovers, StatusSet
<1>3. program = "pool" => i = MAX_POOL
  BY SigchldLoopsAssumption DEF InPool
<1>4. PoolCounts' /\ OthersCount'
  BY <1>1, <1>3, SigchldLoopsAssumption DEF PoolCounts, OthersCount
<1> QED
  BY <1>2, <1>4

\* What the signal announced is covered, so the loop starts with something to
\* collect unless it was collected before.
LEMMA ReadStep ==
  ASSUME LoopsInv, main_read
  PROVE  LoopsInv'
<1> USE DEF LoopsInv, LoopsTypeOK, main_read
<1>1. Waitable' = Waitable /\ Kept' = Kept
  BY DEF Waitable, Kept
<1>2. LoopsTypeOK' /\ NewsFits' /\ ForkTold' /\ NothingMissed' /\ SignalCovers'
  BY DEF NewsFits, ForkTold, NothingMissed, SignalCovers
<1>3. StatusSet'
  BY <1>1 DEF SignalCovers, StatusSet
<1>4. PoolCounts' /\ OthersCount'
  BY <1>1 DEF PoolCounts, OthersCount
<1> QED
  BY <1>2, <1>3, <1>4

LEMMA DeadStep ==
  ASSUME LoopsInv, waitid_dead
  PROVE  LoopsInv'
<1> USE DEF LoopsInv, LoopsTypeOK, waitid_dead, AfterDeath
<1>1. PICK p \in Pids : child[p] = "dead" /\ child' = [child EXCEPT ![p] = "reaped"]
  OBVIOUS
<1>2. Cardinality(Kept') = Cardinality(Kept) - 1
  BY <1>1, KeptReaped
<1>3. LoopsTypeOK' /\ NewsFits' /\ ForkTold'
  BY <1>1 DEF NewsFits, ForkTold
<1>4. NothingMissed' /\ SignalCovers' /\ StatusSet'
  BY DEF NothingMissed, SignalCovers, StatusSet
<1>5. PoolCounts' /\ OthersCount'
  BY <1>2, KeptFinite, SigchldLoopsAssumption DEF PoolCounts, OthersCount
<1> QED
  BY <1>3, <1>4, <1>5

\* The child replaced is kept: the pool can only grow, and no further than
\* there are processes.
LEMMA StoppedStep ==
  ASSUME LoopsInv, waitid_stopped
  PROVE  LoopsInv'
<1> USE DEF LoopsInv, LoopsTypeOK, waitid_stopped, AfterStop, AfterDeath
<1>1. PICK p \in Pids : news[p] = "stopped" /\ news' = [news EXCEPT ![p] = "none"]
  OBVIOUS
<1>2. Kept' = Kept
  BY DEF Kept
<1>3. program = "pool" => extra + 1 \in 0 .. Cardinality(Pids)
  BY KeptFinite, SigchldLoopsAssumption DEF PoolCounts
<1>4. LoopsTypeOK' /\ NewsFits' /\ ForkTold'
  BY <1>1, <1>3 DEF NewsFits, ForkTold
<1>5. NothingMissed' /\ SignalCovers' /\ StatusSet'
  BY DEF NothingMissed, SignalCovers, StatusSet
<1>6. PoolCounts' /\ OthersCount'
  BY <1>2, KeptFinite, SigchldLoopsAssumption DEF PoolCounts, OthersCount
<1> QED
  BY <1>4, <1>5, <1>6

\* If only the child that continued had news, nothing is left behind.
LEMMA ContinuedStep ==
  ASSUME LoopsInv, waitid_continued
  PROVE  LoopsInv'
<1> USE DEF LoopsInv, LoopsTypeOK, waitid_continued
<1>1. PICK p \in Pids : /\ news[p] = "continued"
                        /\ news' = [news EXCEPT ![p] = "none"]
                        /\ left' = (left \/ Waitable # {p})
  OBVIOUS
<1>2. Kept' = Kept
  BY DEF Kept
<1>3. LoopsTypeOK' /\ NewsFits' /\ ForkTold'
  BY <1>1 DEF NewsFits, ForkTold
<1>4. Waitable = {p} => Waitable' = {}
  BY <1>1 DEF Waitable, NewsFits
<1>5. left' = TRUE \/ Waitable = {p}
  BY <1>1
<1>6. NothingMissed'
  BY <1>4, <1>5 DEF NothingMissed
<1>7. SignalCovers' /\ StatusSet'
  BY DEF SignalCovers, StatusSet
<1>8. PoolCounts' /\ OthersCount'
  BY <1>2 DEF PoolCounts, OthersCount
<1> QED
  BY <1>3, <1>6, <1>7, <1>8

LEMMA NothingStep ==
  ASSUME LoopsInv, waitid_nothing
  PROVE  LoopsInv'
<1> USE DEF LoopsInv, LoopsTypeOK, waitid_nothing
<1>1. Waitable' = Waitable /\ Kept' = Kept
  BY DEF Waitable, Kept
<1>2. pc' \in {"read", "exited"}
  OBVIOUS
<1>3. LoopsTypeOK' /\ NewsFits' /\ ForkTold'
  BY <1>2 DEF NewsFits, ForkTold
<1>4. NothingMissed' /\ SignalCovers' /\ StatusSet'
  BY <1>1, <1>2 DEF NothingMissed, SignalCovers, StatusSet
<1>5. PoolCounts' /\ OthersCount'
  BY <1>1, <1>2 DEF PoolCounts, OthersCount
<1> QED
  BY <1>3, <1>4, <1>5

LEMMA ForkAgainStep ==
  ASSUME LoopsInv, main_fork_again
  PROVE  LoopsInv'
<1> USE DEF LoopsInv, LoopsTypeOK, main_fork_again, AfterFork
<1>1. /\ child' \in [Pids -> {"unused", "running", "stopped", "dead", "reaped"}]
      /\ Cardinality(Kept') = Cardinality(Kept) + 1
  BY KeptForked
<1>2. Waitable' = Waitable /\ NewsFits'
  BY ForkedWaitable
<1>3. LoopsTypeOK' /\ ForkTold'
  BY <1>1 DEF ForkTold
<1>4. NothingMissed' /\ SignalCovers' /\ StatusSet'
  BY <1>2 DEF NothingMissed, SignalCovers, StatusSet, ForkTold
<1>5. PoolCounts' /\ OthersCount'
  BY <1>1, KeptFinite, SigchldLoopsAssumption DEF PoolCounts, OthersCount
<1> QED
  BY <1>2, <1>3, <1>4, <1>5

LEMMA ForkFailsStep ==
  ASSUME LoopsInv, main_fork_fails
  PROVE  LoopsInv'
<1> USE DEF LoopsInv, LoopsTypeOK, main_fork_fails
<1>1. Waitable' = Waitable /\ Kept' = Kept
  BY DEF Waitable, Kept
<1>2. LoopsTypeOK' /\ NewsFits' /\ ForkTold'
  BY DEF NewsFits, ForkTold
<1>3. NothingMissed' /\ SignalCovers' /\ StatusSet'
  BY <1>1 DEF NothingMissed, SignalCovers, StatusSet, ForkTold
<1>4. PoolCounts' /\ OthersCount'
  BY <1>1 DEF PoolCounts, OthersCount
<1> QED
  BY <1>2, <1>3, <1>4

-----------------------------------------------------------------------------

LEMMA LoopsInitInv == LoopsInit => LoopsInv
<1> SUFFICES ASSUME LoopsInit PROVE LoopsInv
  OBVIOUS
<1> USE DEF LoopsInit
<1>1. Cardinality(Pids) \in Nat
  BY KeptFinite
<1>2. LoopsTypeOK
  <2>1. 0 \in 0 .. MAX_POOL /\ 0 \in 0 .. Cardinality(Pids)
    BY <1>1, SigchldLoopsAssumption
  <2> QED
    BY <2>1 DEF LoopsTypeOK
<1>3. Waitable = {} /\ Kept = {}
  BY DEF Waitable, Kept
<1>4. Cardinality(Kept) = 0
  BY <1>3, FS_EmptySet
<1>5. NewsFits /\ ForkTold /\ NothingMissed /\ SignalCovers /\ StatusSet
  BY <1>3 DEF NewsFits, ForkTold, NothingMissed, SignalCovers, StatusSet
<1>6. PoolCounts /\ OthersCount
  BY <1>4 DEF PoolCounts, OthersCount
<1> QED
  BY <1>2, <1>5, <1>6 DEF LoopsInv

LEMMA LoopsNextInv == LoopsInv /\ [LoopsNext]_loops_vars => LoopsInv'
<1> SUFFICES ASSUME LoopsInv, [LoopsNext]_loops_vars PROVE LoopsInv'
  OBVIOUS
<1>1. CASE Parent
  BY <1>1, StartChildStep, StartedStep, ReadStep, DeadStep, StoppedStep,
     ContinuedStep, NothingStep, ForkAgainStep, ForkFailsStep DEF Parent
<1>2. CASE \E p \in Pids : Child(p)
  BY <1>2, ChildStep
<1>3. CASE UNCHANGED loops_vars
  <2>1. Waitable' = Waitable /\ Kept' = Kept
    BY <1>3 DEF loops_vars, parent, Waitable, Kept
  <2> QED
    BY <1>3, <2>1 DEF loops_vars, parent, LoopsInv, LoopsTypeOK, NewsFits, ForkTold,
       NothingMissed, SignalCovers, StatusSet, PoolCounts, OthersCount
<1> QED
  BY <1>1, <1>2, <1>3 DEF LoopsNext

LEMMA LoopsInvCorrect == LoopsSpec => []LoopsInv
BY LoopsInitInv, LoopsNextInv, PTL DEF LoopsSpec

\* For any pool and any number of processes: when the parent of the three
\* programs waits for SIGCHLD, none is pending and no child has news, although
\* signals merge; the exception is a pool whose loop a continued child has ended.
THEOREM NothingLeftCorrect == LoopsSpec => []NothingLeft
<1>1. LoopsInv => NothingLeft
  BY DEF LoopsInv, NothingMissed, NothingLeft
<1> QED
  BY <1>1, LoopsInvCorrect, PTL

\* For any MAX_POOL: io_signalfd_chld.c keeps as many children as it started
\* with, and one more for each that was replaced when it had only stopped.
THEOREM PoolExactCorrect == LoopsSpec => []PoolExact
<1>1. LoopsInv => PoolExact
  <2> SUFFICES ASSUME LoopsInv PROVE PoolExact
    OBVIOUS
  <2>1. extra \in Nat /\ MAX_POOL \in Nat
    BY KeptFinite, SigchldLoopsAssumption DEF LoopsInv, LoopsTypeOK
  <2>2. program = "pool" /\ pc \in {"read", "waitid", "fork"} =>
          Cardinality(Kept) = MAX_POOL + extra - (IF pc = "fork" THEN 1 ELSE 0)
    BY <2>1 DEF LoopsInv, PoolCounts
  <2> QED
    BY <2>2 DEF LoopsInv, PoolExact, Kept
<1> QED
  BY <1>1, LoopsInvCorrect, PTL

\* The pool's str_status is printed uninitialised only if the news this SIGCHLD
\* announced had been collected in an earlier round.
THEOREM StatusSetCorrect == LoopsSpec => []StatusSet
<1>1. LoopsInv => StatusSet
  BY DEF LoopsInv
<1> QED
  BY <1>1, LoopsInvCorrect, PTL

=============================================================================
