------------------------ MODULE SocketServersProofs ------------------------
(***************************************************************************)
(* Proofs about SocketServers, for any number of connections, descriptors, *)
(* array entries and signals: the inductive invariant of each of the four  *)
(* servers, and what holds of whichever runs.                              *)
(***************************************************************************)
EXTENDS SocketServers, FiniteSetTheorems, SequenceTheorems,
        WellFoundedInduction, TLAPS

-----------------------------------------------------------------------------
(* Numbers and sets.                                                       *)

LEMMA HasLeast ==
  ASSUME NEW S \in SUBSET Nat, S # {}
  PROVE  \E m \in S : \A n \in S : m <= n
<1>1. PICK m \in S : \A n \in S : ~ (<<n, m>> \in OpToRel(<, Nat))
  BY NatLessThanWellFounded, WFMin
<1>2. \A n \in S : ~ (n < m)
  BY <1>1 DEF OpToRel
<1> QED
  BY <1>2

\* A function that lists each element of S once counts them.
LEMMA OneByOne ==
  ASSUME NEW S, NEW n, NEW f \in [1 .. n -> S],
         \A x \in S : \E k \in 1 .. n : f[k] = x,
         \A k, l \in 1 .. n : f[k] = f[l] => k = l
  PROVE  f \in Bijection(1 .. n, S)
BY DEF Bijection, Injection, Surjection, IsInjective

LEMMA Counts ==
  ASSUME NEW S, NEW n \in Nat, NEW f \in Bijection(1 .. n, S)
  PROVE  IsFiniteSet(S) /\ Cardinality(S) = n
<1>1. ExistsBijection(1 .. n, S)
  BY DEF ExistsBijection
<1> QED
  BY <1>1, FS_CountingElements, FS_NatBijection

-----------------------------------------------------------------------------
(* The sockets, whose descriptors are the same for all four servers; C are *)
(* the server's connections, m bounds what is unread.                      *)

\* A descriptor in use is a socket of an accepted connection and of no other
\* descriptor's; a connection that was never made has sent nothing.
SocketsInv(C, m) ==
  /\ conn \in [C -> {"none", "queued", "accepted", "closed"}]
  /\ data \in [C -> 0 .. m]
  /\ end \in [C -> {"open", "eof", "rst"}]
  /\ sock \in [Fds -> C \cup {NoConn}]
  /\ nofile \in Fds
  /\ \A c \in C : conn[c] = "none" => data[c] = 0 /\ end[c] = "open"
  /\ \A f \in Fds : sock[f] # NoConn => conn[sock[f]] = "accepted"
  /\ \A f, g \in Fds : sock[f] = sock[g] /\ sock[f] # NoConn => f = g

\* What can be read from a descriptor that is not the listener.
HasInput(f) == sock[f] # NoConn /\ (data[sock[f]] > 0 \/ end[sock[f]] # "open")

\* What the system calls and the clients do to the sockets.
Connects(c) ==
  /\ conn[c] = "none" /\ conn' = [conn EXCEPT ![c] = "queued"]
  /\ UNCHANGED <<data, end, sock, nofile>>

Sends(c, m) ==
  /\ conn[c] \in {"queued", "accepted"} /\ end[c] = "open"
  /\ \E n \in data[c] + 1 .. m : data' = [data EXCEPT ![c] = n]
  /\ UNCHANGED <<conn, end, sock, nofile>>

Ends(c) ==
  /\ conn[c] \in {"queued", "accepted"} /\ end[c] = "open"
  /\ \E how \in {"eof", "rst"} : end' = [end EXCEPT ![c] = how]
  /\ UNCHANGED <<conn, data, sock, nofile>>

Takes(c, f) ==
  /\ conn[c] = "queued" /\ sock[f] = NoConn
  /\ conn' = [conn EXCEPT ![c] = "accepted"]
  /\ sock' = [sock EXCEPT ![f] = c]
  /\ UNCHANGED <<data, end, nofile>>

Refuses(c) ==
  /\ conn[c] = "queued" /\ conn' = [conn EXCEPT ![c] = "none"]
  /\ data' = [data EXCEPT ![c] = 0]
  /\ end' = [end EXCEPT ![c] = "open"]
  /\ UNCHANGED <<sock, nofile>>

Reads(f) ==
  /\ sock[f] # NoConn
  /\ \E n \in 0 .. data[sock[f]] - 1 : data' = [data EXCEPT ![sock[f]] = n]
  /\ UNCHANGED <<conn, end, sock, nofile>>

Resets(f) ==
  /\ sock[f] # NoConn /\ data[sock[f]] = 0 /\ end[sock[f]] = "rst"
  /\ end' = [end EXCEPT ![sock[f]] = "eof"]
  /\ UNCHANGED <<conn, data, sock, nofile>>

Closes(f) ==
  /\ sock[f] # NoConn
  /\ conn' = [conn EXCEPT ![sock[f]] = "closed"]
  /\ sock' = [sock EXCEPT ![f] = NoConn]
  /\ UNCHANGED <<data, end, nofile>>

LEMMA LowestIsFree ==
  ASSUME nofile \in Fds, FreeFds # {}
  PROVE  AcceptFd \in Fds /\ AcceptFd \in Nat \ {0} /\ sock[AcceptFd] = NoConn
<1>1. FreeFds \in SUBSET Nat /\ FreeFds \subseteq Fds
  BY SocketsAssumption DEF FreeFds, Fds
<1>2. AcceptFd \in FreeFds
  BY <1>1, HasLeast DEF AcceptFd, Min
<1> QED
  BY <1>1, <1>2, SocketsAssumption DEF FreeFds, OpenFds, Fds

LEMMA SocketsStart ==
  ASSUME NEW C, NEW m \in Nat, sock = [f \in Fds |-> NoConn], nofile \in Fds,
         conn = [c \in C |-> "none"], data = [c \in C |-> 0],
         end = [c \in C |-> "open"]
  PROVE  SocketsInv(C, m)
BY DEF SocketsInv

LEMMA ClientKeeps ==
  ASSUME NEW C, NEW m \in Nat, SocketsInv(C, m), NoConn \notin C, NEW c \in C,
         Connects(c) \/ Sends(c, m) \/ Ends(c)
  PROVE  /\ SocketsInv(C, m)' /\ sock' = sock
         /\ \A f \in Fds : HasInput(f) => HasInput(f)'
<1>1. CASE Connects(c)
  <2>1. SocketsInv(C, m)'
    BY <1>1 DEF Connects, SocketsInv
  <2> QED
    BY <1>1, <2>1 DEF Connects, HasInput
<1>2. CASE Sends(c, m)
  <2>1. PICK n \in data[c] + 1 .. m : data' = [data EXCEPT ![c] = n]
    BY <1>2 DEF Sends
  <2>2. data[c] \in Nat /\ n \in 1 .. m /\ n > data[c]
    BY <2>1 DEF SocketsInv
  <2>3. SocketsInv(C, m)'
    BY <1>2, <2>1, <2>2 DEF Sends, SocketsInv
  <2>4. ASSUME NEW f \in Fds, HasInput(f)
        PROVE  HasInput(f)'
    <3>1. sock[f] \in C
      BY <2>4 DEF HasInput, SocketsInv
    <3> QED
      BY <1>2, <2>1, <2>2, <2>4, <3>1 DEF Sends, HasInput, SocketsInv
  <2> QED
    BY <1>2, <2>3, <2>4 DEF Sends
<1>3. CASE Ends(c)
  <2>1. SocketsInv(C, m)'
    BY <1>3 DEF Ends, SocketsInv
  <2>2. ASSUME NEW f \in Fds, HasInput(f)
        PROVE  HasInput(f)'
    <3>1. sock[f] \in C
      BY <2>2 DEF HasInput, SocketsInv
    <3> QED
      BY <1>3, <2>2, <3>1 DEF Ends, HasInput, SocketsInv
  <2> QED
    BY <1>3, <2>1, <2>2 DEF Ends
<1> QED
  BY <1>1, <1>2, <1>3

LEMMA TakesKeeps ==
  ASSUME NEW C, NEW m \in Nat, SocketsInv(C, m), NoConn \notin C, NEW c \in C,
         NEW f \in Fds, Takes(c, f)
  PROVE  /\ SocketsInv(C, m)'
         /\ \A g \in Fds : sock[g] # NoConn => g # f /\ sock'[g] = sock[g]
         /\ OpenFds' = OpenFds \cup {f} /\ f \notin OpenFds
         /\ \A g \in Fds : HasInput(g) => HasInput(g)'
<1>1. \A g \in Fds : sock[g] # c
  BY DEF Takes, SocketsInv
<1>2. \A g \in Fds : sock'[g] = IF g = f THEN c ELSE sock[g]
  BY DEF Takes, SocketsInv
<1>3. SocketsInv(C, m)'
  BY <1>1, <1>2 DEF Takes, SocketsInv
<1>4. \A g \in Fds : sock[g] # NoConn => g # f /\ sock'[g] = sock[g]
  BY <1>2 DEF Takes
<1>5. OpenFds' = OpenFds \cup {f} /\ f \notin OpenFds
  BY <1>2 DEF Takes, OpenFds, Fds
<1> QED
  BY <1>3, <1>4, <1>5 DEF HasInput, Takes

LEMMA RefusesKeeps ==
  ASSUME NEW C, NEW m \in Nat, SocketsInv(C, m), NoConn \notin C, NEW c \in C,
         Refuses(c)
  PROVE  /\ SocketsInv(C, m)' /\ sock' = sock
         /\ \A g \in Fds : HasInput(g) => HasInput(g)'
<1>1. SocketsInv(C, m)'
  BY DEF Refuses, SocketsInv
<1>2. ASSUME NEW g \in Fds, HasInput(g)
      PROVE  HasInput(g)'
  <2>1. sock[g] \in C /\ sock[g] # c
    BY <1>2 DEF HasInput, Refuses, SocketsInv
  <2> QED
    BY <1>2, <2>1 DEF Refuses, HasInput, SocketsInv
<1> QED
  BY <1>1, <1>2 DEF Refuses

\* One descriptor is read, the others are not touched.
LEMMA ReadsKeeps ==
  ASSUME NEW C, NEW m \in Nat, SocketsInv(C, m), NoConn \notin C, NEW f \in Fds,
         Reads(f) \/ Resets(f)
  PROVE  /\ SocketsInv(C, m)' /\ sock' = sock
         /\ \A g \in Fds \ {f} : HasInput(g) => HasInput(g)'
<1>1. sock[f] \in C /\ conn[sock[f]] = "accepted"
  BY DEF Reads, Resets, SocketsInv
<1>2. \A g \in Fds \ {f} : sock[g] # sock[f]
  BY DEF Reads, Resets, SocketsInv
<1>3. CASE Reads(f)
  <2>1. PICK n \in 0 .. data[sock[f]] - 1 : data' = [data EXCEPT ![sock[f]] = n]
    BY <1>3 DEF Reads
  <2>2. n \in 0 .. m
    BY <1>1, <2>1 DEF SocketsInv
  <2>3. SocketsInv(C, m)'
    BY <1>1, <1>3, <2>1, <2>2 DEF Reads, SocketsInv
  <2>4. ASSUME NEW g \in Fds \ {f}, HasInput(g)
        PROVE  HasInput(g)'
    <3>1. sock[g] \in C /\ sock[g] # sock[f]
      BY <1>2, <2>4 DEF HasInput, SocketsInv
    <3> QED
      BY <1>3, <2>1, <2>4, <3>1 DEF Reads, HasInput, SocketsInv
  <2> QED
    BY <1>3, <2>3, <2>4 DEF Reads
<1>4. CASE Resets(f)
  <2>1. SocketsInv(C, m)'
    BY <1>1, <1>4 DEF Resets, SocketsInv
  <2>2. ASSUME NEW g \in Fds \ {f}, HasInput(g)
        PROVE  HasInput(g)'
    <3>1. sock[g] \in C /\ sock[g] # sock[f]
      BY <1>2, <2>2 DEF HasInput, SocketsInv
    <3> QED
      BY <1>4, <2>2, <3>1 DEF Resets, HasInput, SocketsInv
  <2> QED
    BY <1>4, <2>1, <2>2 DEF Resets
<1> QED
  BY <1>3, <1>4

LEMMA ClosesKeeps ==
  ASSUME NEW C, NEW m \in Nat, SocketsInv(C, m), NoConn \notin C, NEW f \in Fds,
         Closes(f)
  PROVE  /\ SocketsInv(C, m)'
         /\ OpenFds' = OpenFds \ {f} /\ f \in OpenFds
         /\ \A g \in Fds \ {f} : sock'[g] = sock[g] /\ (HasInput(g) => HasInput(g)')
<1>1. sock[f] \in C /\ conn[sock[f]] = "accepted"
  BY DEF Closes, SocketsInv
<1>2. \A g \in Fds \ {f} : sock[g] # sock[f]
  BY DEF Closes, SocketsInv
<1>3. \A g \in Fds : sock'[g] = IF g = f THEN NoConn ELSE sock[g]
  BY DEF Closes, SocketsInv
<1>4. conn' = [conn EXCEPT ![sock[f]] = "closed"] /\ UNCHANGED <<data, end, nofile>>
      /\ sock' \in [Fds -> C \cup {NoConn}]
  BY DEF Closes, SocketsInv
<1>5. SocketsInv(C, m)'
  BY <1>1, <1>2, <1>3, <1>4 DEF SocketsInv
<1>6. OpenFds' = OpenFds \ {f} /\ f \in OpenFds
  BY <1>3 DEF Closes, OpenFds, Fds
<1> QED
  BY <1>3, <1>4, <1>5, <1>6 DEF HasInput

-----------------------------------------------------------------------------
(* The servers' own names for the shared sockets.                          *)

LEMMA SameCounts ==
  ASSUME NEW S
  PROVE  /\ Select!Cardinality(S) = Cardinality(S)
         /\ Poll!Cardinality(S) = Cardinality(S)
         /\ Epoll!Cardinality(S) = Cardinality(S)
         /\ Rts!Cardinality(S) = Cardinality(S)
BY Zenon DEF Select!Cardinality, Poll!Cardinality, Epoll!Cardinality, Rts!Cardinality,
             Cardinality

LEMMA SelectNames ==
  /\ Select!Fds = Fds /\ Select!OpenFds = OpenFds /\ Select!FreeFds = FreeFds
  /\ Select!AcceptFd = AcceptFd /\ Select!Listener = Listener
  /\ \A f \in Fds : Select!Readable(f) <=> HasInput(f)
<1>1. Select!Fds = Fds /\ Select!OpenFds = OpenFds /\ Select!FreeFds = FreeFds
  BY DEF Select!Fds, Fds, Select!OpenFds, OpenFds, Select!FreeFds, FreeFds
<1>2. Select!AcceptFd = AcceptFd
  BY <1>1 DEF Select!AcceptFd, AcceptFd, Select!Min, Min
<1>3. \A f \in Fds : f # Listener
  BY SocketsAssumption DEF Fds, Listener
<1> QED
  BY <1>1, <1>2, <1>3
  DEF Select!Listener, Listener, Select!Readable, HasInput

LEMMA SelectClients ==
  ASSUME SocketsInv(Conns, MaxData), NEW c \in Conns, Select!Client(c)
  PROVE  Connects(c) \/ Sends(c, MaxData) \/ Ends(c)
<1>1. CASE Select!Send(c)
  <2>1. data[c] \in 0 .. MaxData /\ data[c] < MaxData /\ MaxData \in Nat
    BY <1>1, SocketsAssumption DEF Select!Send, SocketsInv
  <2>2. PICK n : n = data[c] + 1
    OBVIOUS
  <2>3. n \in data[c] + 1 .. MaxData /\ data' = [data EXCEPT ![c] = n]
    BY <1>1, <2>1, <2>2 DEF Select!Send
  <2> QED
    BY <1>1, <2>3 DEF Select!Send, Sends
<1> QED
  BY <1>1 DEF Select!Client, Select!Connect, Select!Hangup, Connects, Ends

LEMMA SelectReads ==
  ASSUME SocketsInv(Conns, MaxData), NEW f \in Fds,
         Select!RecvData(f) \/ Select!RecvReset(f)
  PROVE  Reads(f) \/ Resets(f)
<1>1. CASE Select!RecvData(f)
  <2>1. PICK n : n = data[sock[f]] - 1
    OBVIOUS
  <2>2. data[sock[f]] \in Nat
    BY <1>1 DEF Select!RecvData, SocketsInv
  <2>3. n \in 0 .. data[sock[f]] - 1 /\ data' = [data EXCEPT ![sock[f]] = n]
    BY <1>1, <2>1, <2>2 DEF Select!RecvData
  <2> QED
    BY <1>1, <2>3 DEF Select!RecvData, Reads
<1>2. CASE Select!RecvReset(f)
  BY <1>2 DEF Select!RecvReset, Select!AtReset, Resets
<1> QED
  BY <1>1, <1>2

LEMMA SelectAccepts ==
  ASSUME SocketsInv(Conns, MaxData), NEW c \in Conns, Select!Accept(c)
  PROVE  AcceptFd \in Fds /\ Takes(c, AcceptFd)
<1>1. AcceptFd \in Fds /\ sock[AcceptFd] = NoConn
  BY SelectNames, LowestIsFree DEF Select!Accept, SocketsInv
<1> QED
  BY <1>1, SelectNames DEF Select!Accept, Select!Queued, Takes

-----------------------------------------------------------------------------
(* io_select.c.                                                            *)

SelectTyped ==
  /\ fd_socket \in Seq(Fds \cup {Listener})
  /\ Len(fd_socket) \in 1 .. MAX_FD_SOCKET
  /\ fds_read \subseteq Fds \cup {Listener}
  /\ phase \in {"select", "accept", "scan"}
  /\ i \in 2 .. MAX_FD_SOCKET + 1

\* The array lists the listener and each open socket once.
SelectTable ==
  /\ fd_socket[1] = Listener
  /\ \A k \in 2 .. Len(fd_socket) : fd_socket[k] \in OpenFds
  /\ \A f \in OpenFds : \E k \in 2 .. Len(fd_socket) : fd_socket[k] = f
  /\ \A k, l \in 1 .. Len(fd_socket) : fd_socket[k] = fd_socket[l] => k = l

\* What select() reported of the entries main has not visited yet is still so.
SelectReports ==
  phase = "scan" =>
    \A k \in i .. Len(fd_socket) :
      fd_socket[k] \in fds_read => HasInput(fd_socket[k])

SelectInv ==
  /\ SocketsInv(Conns, MaxData)
  /\ SelectTyped
  /\ SelectTable
  /\ SelectReports

LEMMA SelectInit ==
  ASSUME Select!Init
  PROVE  SelectInv
<1>1. SocketsInit /\ MaxData \in Nat
  BY SocketsAssumption DEF Select!Init, Select!SocketsInit, SocketsInit, Select!Fds, Fds
<1>2. SocketsInv(Conns, MaxData)
  BY <1>1, SocketsStart DEF SocketsInit
<1>3. /\ fd_socket = <<Listener>> /\ Len(fd_socket) = 1 /\ fd_socket[1] = Listener
      /\ fd_socket \in Seq(Fds \cup {Listener})
      /\ fds_read = {} /\ phase = "select" /\ i = 2
  BY DEF Select!Init, Select!Listener, Listener
<1>4. SelectTyped
  BY <1>3, SocketsAssumption DEF SelectTyped
<1>5. OpenFds = {}
  BY <1>1 DEF OpenFds, SocketsInit
<1>6. SelectTable
  BY <1>3, <1>5 DEF SelectTable
<1> QED
  BY <1>2, <1>3, <1>4, <1>6 DEF SelectInv, SelectReports

\* A step that leaves the array and the open sockets alone.
LEMMA SelectFrame ==
  ASSUME SelectInv, SocketsInv(Conns, MaxData)', SelectTyped', SelectReports',
         UNCHANGED <<fd_socket, sock>>
  PROVE  SelectInv'
BY DEF SelectInv, SelectTable, OpenFds

LEMMA SelectSelect ==
  ASSUME SelectInv, Select!select
  PROVE  SelectInv'
<1>1. UNCHANGED <<conn, data, end, sock, nofile, fd_socket>> /\ phase = "select"
  BY DEF Select!select, Select!sockets
<1>2. SocketsInv(Conns, MaxData)'
  BY <1>1 DEF SelectInv, SocketsInv
<1>3. DOMAIN fd_socket = 1 .. Len(fd_socket) /\ Len(fd_socket) \in Nat
  BY DEF SelectInv, SelectTyped
<1>4. /\ \A k \in DOMAIN fd_socket : k = 1 \/ k \in 2 .. Len(fd_socket)
      /\ \A k \in 2 .. Len(fd_socket) : k \in DOMAIN fd_socket
  BY <1>3
<1>5. Select!mk_fds \subseteq OpenFds \cup {Listener}
  BY <1>4 DEF Select!mk_fds, SelectInv, SelectTable
<1>6. /\ fds_read' = {f \in Select!mk_fds : Select!Readable(f)}
      /\ phase' \in {"accept", "scan"} /\ i' = 2
  BY <1>5, SelectNames DEF Select!select
<1>7. SelectTyped'
  <2>1. OpenFds \subseteq Fds
    BY DEF OpenFds
  <2> QED
    BY <1>1, <1>5, <1>6, <2>1, SocketsAssumption DEF SelectInv, SelectTyped
<1>8. SelectReports'
  <2> SUFFICES ASSUME NEW k \in 2 .. Len(fd_socket), fd_socket[k] \in fds_read'
               PROVE  HasInput(fd_socket[k])'
    BY <1>1, <1>6 DEF SelectReports
  <2>1. fd_socket[k] \in Fds
    BY DEF SelectInv, SelectTable, OpenFds
  <2>2. Select!Readable(fd_socket[k])
    BY <1>6
  <2> QED
    BY <1>1, <2>1, <2>2, SelectNames DEF HasInput
<1> QED
  BY <1>1, <1>2, <1>7, <1>8, SelectFrame

LEMMA SelectAcceptAdd ==
  ASSUME SelectInv, Select!accept_add
  PROVE  SelectInv'
<1> PICK n : n = Len(fd_socket)
  OBVIOUS
<1>1. PICK c \in Conns : Select!Accept(c)
  BY DEF Select!accept_add
<1>2. /\ SocketsInv(Conns, MaxData) /\ NoConn \notin Conns /\ MaxData \in Nat
  BY SocketsAssumption DEF SelectInv
<1>3. AcceptFd \in Fds /\ Takes(c, AcceptFd)
  BY <1>1, <1>2, SelectAccepts
<1>4. /\ SocketsInv(Conns, MaxData)'
      /\ OpenFds' = OpenFds \cup {AcceptFd} /\ AcceptFd \notin OpenFds
  BY <1>2, <1>3, TakesKeeps
<1>5. /\ fd_socket' = Append(fd_socket, AcceptFd) /\ n < MAX_FD_SOCKET
      /\ phase' = "select" /\ UNCHANGED <<fds_read, i>>
  BY SelectNames DEF Select!accept_add, Select!Room
<1>6. n \in Nat /\ n > 0 /\ fd_socket \in Seq(Fds \cup {Listener})
  BY DEF SelectInv, SelectTyped
<1>7. /\ fd_socket' \in Seq(Fds \cup {Listener}) /\ Len(fd_socket') = n + 1
      /\ \A k \in 1 .. n : fd_socket'[k] = fd_socket[k]
      /\ fd_socket'[n + 1] = AcceptFd
  BY <1>3, <1>5, <1>6, AppendProperties
<1>8. SelectTyped'
  BY <1>5, <1>6, <1>7, SocketsAssumption DEF SelectInv, SelectTyped
<1>9. AcceptFd # Listener
  BY <1>3, SocketsAssumption DEF Fds, Listener
<1>10. /\ \A k \in 1 .. n : fd_socket[k] # AcceptFd
       /\ \A k \in 1 .. n + 1 : k = n + 1 \/ k \in 1 .. n
       /\ \A k \in 2 .. n + 1 : k = n + 1 \/ k \in 2 .. n
       /\ n + 1 \in 2 .. n + 1
       /\ \A k \in 2 .. n : k \in 2 .. n + 1 /\ k \in 1 .. n
       /\ 1 \in 1 .. n
  <2>1. \A k \in 1 .. n : k = 1 \/ k \in 2 .. n
    BY <1>6
  <2>2. \A k \in 1 .. n : fd_socket[k] = Listener \/ fd_socket[k] \in OpenFds
    BY <2>1 DEF SelectInv, SelectTable
  <2> QED
    BY <1>4, <1>6, <1>9, <2>2
<1>11. SelectTable'
  <2>1. fd_socket'[1] = Listener
    BY <1>7, <1>10 DEF SelectInv, SelectTable
  <2>2. \A k \in 2 .. n + 1 : fd_socket'[k] \in OpenFds'
    BY <1>4, <1>7, <1>10 DEF SelectInv, SelectTable
  <2>3. \A f \in OpenFds' : \E k \in 2 .. n + 1 : fd_socket'[k] = f
    BY <1>4, <1>7, <1>10 DEF SelectInv, SelectTable
  <2>4. \A k, l \in 1 .. n + 1 : fd_socket'[k] = fd_socket'[l] => k = l
    BY <1>7, <1>10 DEF SelectInv, SelectTable
  <2> QED
    BY <1>7, <2>1, <2>2, <2>3, <2>4 DEF SelectTable
<1> QED
  BY <1>4, <1>5, <1>8, <1>11 DEF SelectInv, SelectReports

LEMMA SelectOtherAccepts ==
  ASSUME SelectInv, Select!accept_full \/ Select!accept_fails
  PROVE  SelectInv'
<1>1. phase' = "select" /\ UNCHANGED <<fd_socket, fds_read, i>>
  BY DEF Select!accept_full, Select!accept_fails
<1>2. SelectTyped' /\ SelectReports'
  BY <1>1 DEF SelectInv, SelectTyped, SelectReports
<1>3. SocketsInv(Conns, MaxData)' /\ sock' = sock
  <2>1. CASE Select!accept_full
    <3>1. PICK c \in Conns : Select!AcceptAndClose(c)
      BY <2>1 DEF Select!accept_full
    <3>2. Refuses(c)
      BY <3>1 DEF Select!AcceptAndClose, Select!Queued, Refuses
    <3> QED
      BY <3>2, RefusesKeeps, SocketsAssumption DEF SelectInv
  <2>2. CASE Select!accept_fails
    BY <2>2 DEF Select!accept_fails, Select!sockets, SelectInv, SocketsInv
  <2> QED
    BY <2>1, <2>2
<1> QED
  BY <1>1, <1>2, <1>3, SelectFrame

LEMMA SelectPasses ==
  ASSUME SelectInv, Select!scan_skip \/ Select!scan_done
  PROVE  SelectInv'
<1>1. /\ UNCHANGED <<conn, data, end, sock, nofile, fd_socket, fds_read>>
      /\ \/ Select!Scanning /\ i' = i + 1 /\ phase' = phase
         \/ i' = i /\ phase' = "select"
  BY DEF Select!scan_skip, Select!scan_done, Select!sockets
<1>2. SocketsInv(Conns, MaxData)'
  BY <1>1 DEF SelectInv, SocketsInv
<1>3. SelectTyped'
  BY <1>1, SocketsAssumption DEF SelectInv, SelectTyped, Select!Scanning
<1>4. SelectReports'
  BY <1>1 DEF SelectInv, SelectTyped, SelectReports, HasInput
<1> QED
  BY <1>1, <1>2, <1>3, <1>4, SelectFrame

\* What main finds at the place it looks at.
LEMMA SelectPlace ==
  ASSUME SelectInv, Select!Scanning
  PROVE  /\ i \in 2 .. Len(fd_socket) /\ Len(fd_socket) \in 2 .. MAX_FD_SOCKET
         /\ fd_socket[i] \in Fds /\ sock[fd_socket[i]] # NoConn
         /\ \A k \in i + 1 .. Len(fd_socket) :
              fd_socket[k] # fd_socket[i] /\ fd_socket[k] \in Fds
<1>1. i \in 2 .. Len(fd_socket) /\ Len(fd_socket) \in 2 .. MAX_FD_SOCKET
  BY DEF SelectInv, SelectTyped, Select!Scanning
<1>2. /\ \A k \in i + 1 .. Len(fd_socket) :
           k \in 2 .. Len(fd_socket) /\ k \in 1 .. Len(fd_socket) /\ k # i
      /\ i \in 1 .. Len(fd_socket)
  BY <1>1
<1>3. fd_socket[i] \in OpenFds
  BY <1>1 DEF SelectInv, SelectTable
<1> QED
  BY <1>1, <1>2, <1>3 DEF SelectInv, SelectTable, OpenFds

LEMMA SelectRecv ==
  ASSUME SelectInv, Select!scan_recv
  PROVE  SelectInv'
<1>1. Select!Scanning /\ i' = i + 1 /\ UNCHANGED <<fd_socket, fds_read, phase>>
  BY DEF Select!scan_recv
<1> PICK f : f = fd_socket[i]
  OBVIOUS
<1>2. f \in Fds /\ sock[f] # NoConn /\ data[sock[f]] \in Nat
  <2>1. f \in Fds /\ sock[f] # NoConn
    BY <1>1, SelectPlace
  <2> QED
    BY <2>1 DEF SelectInv, SocketsInv
<1>3. Reads(f) \/ Resets(f)
  BY <1>2, SelectReads DEF SelectInv, Select!scan_recv
<1>4. /\ SocketsInv(Conns, MaxData)' /\ sock' = sock
      /\ \A g \in Fds \ {f} : HasInput(g) => HasInput(g)'
  BY <1>2, <1>3, ReadsKeeps, SocketsAssumption DEF SelectInv
<1>5. SelectTyped'
  BY <1>1, SocketsAssumption DEF SelectInv, SelectTyped, Select!Scanning
<1>6. SelectReports'
  <2> SUFFICES ASSUME phase = "scan", NEW k \in i + 1 .. Len(fd_socket),
                      fd_socket[k] \in fds_read
               PROVE  HasInput(fd_socket[k])'
    BY <1>1 DEF SelectReports
  <2>1. fd_socket[k] # f /\ fd_socket[k] \in Fds
    BY <1>1, SelectPlace
  <2>2. k \in i .. Len(fd_socket)
    BY <1>1, SelectPlace
  <2>3. PICK g \in Fds \ {f} : g = fd_socket[k] /\ fd_socket'[k] = g
    BY <1>1, <2>1
  <2>4. HasInput(g)'
    BY <1>4, <2>2, <2>3 DEF SelectInv, SelectReports
  <2> QED
    BY <2>3, <2>4 DEF HasInput
<1> QED
  BY <1>1, <1>4, <1>5, <1>6, SelectFrame

\* del_socket moves the last entry to the place of the deleted one.
LEMMA SelectDeletes ==
  ASSUME SelectInv, NEW p \in 2 .. Len(fd_socket),
         fd_socket' = Select!del_socket(fd_socket[p])
  PROVE  /\ fd_socket' \in Seq(Fds \cup {Listener})
         /\ Len(fd_socket') = Len(fd_socket) - 1
         /\ \A k \in 1 .. Len(fd_socket) - 1 :
              fd_socket'[k] = IF k = p THEN fd_socket[Len(fd_socket)] ELSE fd_socket[k]
<1> PICK n : n = Len(fd_socket)
  OBVIOUS
<1> PICK filled : filled = [fd_socket EXCEPT ![p] = fd_socket[n]]
  OBVIOUS
<1>1. /\ n \in Nat \ {0} /\ DOMAIN fd_socket = 1 .. n /\ p \in 1 .. n /\ n - 1 \in Nat
      /\ fd_socket \in [1 .. n -> Fds \cup {Listener}]
  BY DEF SelectInv, SelectTyped
<1>2. Select!Min({k \in DOMAIN fd_socket : fd_socket[k] = fd_socket[p]}) = p
  <2>1. {k \in DOMAIN fd_socket : fd_socket[k] = fd_socket[p]} = {p}
    BY <1>1 DEF SelectInv, SelectTable
  <2> QED
    BY <1>1, <2>1 DEF Select!Min
<1>3. fd_socket' = SubSeq(filled, 1, n - 1)
  BY <1>2 DEF Select!del_socket
<1>4. /\ filled \in [1 .. n -> Fds \cup {Listener}]
      /\ \A k \in 1 .. n : filled[k] = IF k = p THEN fd_socket[n] ELSE fd_socket[k]
  BY <1>1
<1>5. \A k \in 1 .. n - 1 : filled[k] \in Fds \cup {Listener}
  BY <1>1, <1>4
<1>6. /\ SubSeq(filled, 1, n - 1) \in Seq(Fds \cup {Listener})
      /\ Len(SubSeq(filled, 1, n - 1)) = IF 1 <= n - 1 THEN (n - 1) - 1 + 1 ELSE 0
      /\ \A k \in 1 .. (n - 1) - 1 + 1 : SubSeq(filled, 1, n - 1)[k] = filled[1 + k - 1]
  BY <1>1, <1>5, SubSeqProperties
<1>7. \A k \in 1 .. n - 1 : 1 + k - 1 = k
  OBVIOUS
<1>8. /\ fd_socket' \in Seq(Fds \cup {Listener}) /\ Len(fd_socket') = n - 1
      /\ \A k \in 1 .. n - 1 : fd_socket'[k] = filled[k]
  BY <1>1, <1>3, <1>6, <1>7
<1> QED
  BY <1>1, <1>4, <1>8

LEMMA SelectEof ==
  ASSUME SelectInv, Select!scan_eof
  PROVE  SelectInv'
<1> PICK n : n = Len(fd_socket)
  OBVIOUS
<1> PICK f : f = fd_socket[i]
  OBVIOUS
<1>1. /\ Select!Scanning /\ i' = i + 1 /\ UNCHANGED <<fds_read, phase>>
      /\ fd_socket' = Select!del_socket(fd_socket[i])
  BY DEF Select!scan_eof
<1>2. /\ i \in 2 .. n /\ n \in 2 .. MAX_FD_SOCKET /\ MAX_FD_SOCKET \in Nat
      /\ f \in Fds /\ sock[f] # NoConn
  BY <1>1, SelectPlace, SocketsAssumption
<1>3. Closes(f)
  BY <1>2 DEF Select!scan_eof, Select!Close, Closes
<1>4. /\ SocketsInv(Conns, MaxData)'
      /\ OpenFds' = OpenFds \ {f} /\ f \in OpenFds
      /\ \A g \in Fds \ {f} : sock'[g] = sock[g] /\ (HasInput(g) => HasInput(g)')
  BY <1>2, <1>3, ClosesKeeps, SocketsAssumption DEF SelectInv
<1>5. /\ fd_socket' \in Seq(Fds \cup {Listener}) /\ Len(fd_socket') = n - 1
      /\ \A k \in 1 .. n - 1 : fd_socket'[k] = IF k = i THEN fd_socket[n] ELSE fd_socket[k]
  BY <1>1, <1>2, SelectDeletes
<1>6. SelectTyped'
  BY <1>1, <1>2, <1>5 DEF SelectInv, SelectTyped
<1>7. \A k \in 2 .. n : fd_socket[k] = f => k = i
  BY <1>2 DEF SelectInv, SelectTable
<1>8. SelectTable'
  <2>1. fd_socket'[1] = Listener
    BY <1>2, <1>5 DEF SelectInv, SelectTable
  <2>2. \A k \in 2 .. n - 1 : fd_socket'[k] \in OpenFds'
    <3> SUFFICES ASSUME NEW k \in 2 .. n - 1
                 PROVE  fd_socket'[k] \in OpenFds'
      OBVIOUS
    <3>1. k \in 1 .. n - 1 /\ k \in 2 .. n /\ n \in 2 .. n /\ k # n
      BY <1>2
    <3> QED
      BY <1>4, <1>5, <1>7, <3>1 DEF SelectInv, SelectTable
  <2>3. \A g \in OpenFds' : \E k \in 2 .. n - 1 : fd_socket'[k] = g
    <3> SUFFICES ASSUME NEW g \in OpenFds, g # f
                 PROVE  \E k \in 2 .. n - 1 : fd_socket'[k] = g
      BY <1>4
    <3>1. PICK k \in 2 .. n : fd_socket[k] = g
      BY DEF SelectInv, SelectTable
    <3>2. CASE k = n
      <4>1. i \in 2 .. n - 1 /\ i \in 1 .. n - 1
        BY <1>2, <3>1, <3>2
      <4> QED
        BY <1>5, <3>1, <3>2, <4>1
    <3>3. CASE k # n
      <4>1. k \in 2 .. n - 1 /\ k \in 1 .. n - 1 /\ k # i
        BY <1>2, <3>1, <3>3
      <4> QED
        BY <1>5, <3>1, <4>1
    <3> QED
      BY <3>2, <3>3
  <2>4. ASSUME NEW k \in 1 .. n - 1, NEW l \in 1 .. n - 1, fd_socket'[k] = fd_socket'[l]
        PROVE  k = l
    <3>1. /\ k \in 1 .. n /\ l \in 1 .. n /\ n \in 1 .. n /\ k # n /\ l # n
          /\ fd_socket'[k] = IF k = i THEN fd_socket[n] ELSE fd_socket[k]
          /\ fd_socket'[l] = IF l = i THEN fd_socket[n] ELSE fd_socket[l]
      BY <1>2, <1>5
    <3> QED
      BY <2>4, <3>1 DEF SelectInv, SelectTable
  <2> QED
    BY <1>5, <2>1, <2>2, <2>3, <2>4 DEF SelectTable
<1>9. SelectReports'
  <2> SUFFICES ASSUME phase = "scan", NEW k \in i + 1 .. n - 1,
                      fd_socket'[k] \in fds_read
               PROVE  HasInput(fd_socket[k])'
    <3>1. Len(fd_socket)' = n - 1
      BY <1>5
    <3> QED
      BY <1>1, <3>1 DEF SelectReports
  <2>1. k \in 1 .. n - 1 /\ k # i /\ k \in i .. n /\ k \in i + 1 .. n
    BY <1>2
  <2>2. fd_socket'[k] = fd_socket[k] /\ fd_socket[k] # f /\ fd_socket[k] \in Fds
    BY <1>1, <1>5, <2>1, SelectPlace
  <2>3. HasInput(fd_socket[k])
    BY <2>1, <2>2 DEF SelectInv, SelectReports
  <2>4. PICK g \in Fds \ {f} : g = fd_socket[k] /\ fd_socket'[k] = g
    BY <2>2
  <2>5. HasInput(g)'
    BY <1>4, <2>3, <2>4
  <2> QED
    BY <2>4, <2>5 DEF HasInput
<1> QED
  BY <1>4, <1>6, <1>8, <1>9 DEF SelectInv

LEMMA SelectClientsStep ==
  ASSUME SelectInv, Select!Clients
  PROVE  SelectInv'
<1>1. PICK c \in Conns : Select!Client(c)
  BY DEF Select!Clients
<1>2. UNCHANGED <<fd_socket, fds_read, phase, i>>
  BY DEF Select!Clients, Select!server
<1>3. /\ SocketsInv(Conns, MaxData)' /\ sock' = sock
      /\ \A f \in Fds : HasInput(f) => HasInput(f)'
  BY <1>1, SelectClients, ClientKeeps, SocketsAssumption DEF SelectInv
<1>4. SelectTyped'
  BY <1>2 DEF SelectInv, SelectTyped
<1>5. SelectReports'
  <2> SUFFICES ASSUME phase = "scan", NEW k \in i .. Len(fd_socket),
                      fd_socket[k] \in fds_read
               PROVE  HasInput(fd_socket[k])'
    BY <1>2 DEF SelectReports
  <2>1. HasInput(fd_socket[k])
    BY DEF SelectInv, SelectReports
  <2>2. k \in 2 .. Len(fd_socket)
    BY DEF SelectInv, SelectTyped
  <2>3. PICK g \in Fds : g = fd_socket[k] /\ fd_socket'[k] = g
    BY <1>2, <2>2 DEF SelectInv, SelectTable, OpenFds
  <2>4. HasInput(g)'
    BY <1>3, <2>1, <2>3
  <2> QED
    BY <2>3, <2>4 DEF HasInput
<1> QED
  BY <1>2, <1>3, <1>4, <1>5, SelectFrame

LEMMA SelectStep ==
  ASSUME SelectInv, Select!Server \/ Select!Clients
  PROVE  SelectInv'
BY SelectSelect, SelectAcceptAdd, SelectOtherAccepts, SelectPasses, SelectRecv,
   SelectEof, SelectClientsStep
DEF Select!Server

LEMMA SelectImplies ==
  ASSUME SelectInv
  PROVE  Select!TableMatchesSockets /\ Select!RecvNeverWaits
<1> PICK n : n = Len(fd_socket)
  OBVIOUS
<1> PICK f : f = [k \in 1 .. n - 1 |-> fd_socket[k + 1]]
  OBVIOUS
<1>1. Select!TypeOK
  <2>1. Select!SocketsTypeOK
    BY SelectNames DEF SelectInv, SocketsInv, Select!SocketsTypeOK
  <2> QED
    BY <2>1, SelectNames DEF SelectInv, SelectTyped, Select!TypeOK
<1>2. n \in Nat \ {0} /\ n - 1 \in Nat
  BY DEF SelectInv, SelectTyped
<1>3. \A k \in 1 .. n - 1 : k + 1 \in 2 .. n /\ k + 1 \in 1 .. n /\ f[k] = fd_socket[k + 1]
  BY <1>2
<1>4. \A k \in 2 .. n : k - 1 \in 1 .. n - 1 /\ f[k - 1] = fd_socket[k]
  <2>1. \A k \in 2 .. n : k - 1 \in 1 .. n - 1 /\ (k - 1) + 1 = k
    BY <1>2
  <2> QED
    BY <1>3, <2>1
<1>5. f \in [1 .. n - 1 -> OpenFds]
  BY <1>3 DEF SelectInv, SelectTable
<1>6. \A g \in OpenFds : \E k \in 1 .. n - 1 : f[k] = g
  <2> SUFFICES ASSUME NEW g \in OpenFds
               PROVE  \E k \in 1 .. n - 1 : f[k] = g
    OBVIOUS
  <2>1. PICK k \in 2 .. n : fd_socket[k] = g
    BY DEF SelectInv, SelectTable
  <2> QED
    BY <1>4, <2>1
<1>7. \A k, l \in 1 .. n - 1 : f[k] = f[l] => k = l
  <2> SUFFICES ASSUME NEW k \in 1 .. n - 1, NEW l \in 1 .. n - 1, f[k] = f[l]
               PROVE  k = l
    OBVIOUS
  <2>1. k + 1 = l + 1
    BY <1>3 DEF SelectInv, SelectTable
  <2> QED
    BY <2>1
<1>8. Cardinality(OpenFds) = n - 1
  <2>1. PICK m \in Nat : m = n - 1
    BY <1>2
  <2>2. /\ f \in [1 .. m -> OpenFds]
        /\ \A g \in OpenFds : \E k \in 1 .. m : f[k] = g
        /\ \A k, l \in 1 .. m : f[k] = f[l] => k = l
    BY <1>5, <1>6, <1>7, <2>1
  <2>3. f \in Bijection(1 .. m, OpenFds)
    BY <2>2, OneByOne
  <2>4. Cardinality(OpenFds) = m
    BY <2>3, Counts
  <2> QED
    BY <2>1, <2>4
<1>9. {fd_socket[k] : k \in 2 .. n} = OpenFds
  BY DEF SelectInv, SelectTable
<1>10. Select!TableMatchesSockets
  <2>1. fd_socket[1] = Select!Listener /\ phase # "exited"
    BY SelectNames DEF SelectInv, SelectTyped, SelectTable
  <2>2. {fd_socket[k] : k \in 2 .. Len(fd_socket)} = Select!OpenFds
    BY <1>9, SelectNames
  <2>3. Select!Cardinality(Select!OpenFds) = Len(fd_socket) - 1
    BY <1>8, SelectNames, SameCounts
  <2> QED
    BY <1>1, <2>1, <2>2, <2>3, Zenon DEF Select!TableMatchesSockets
<1>11. Select!RecvNeverWaits
  <2> SUFFICES ASSUME Select!Scanning, fd_socket[i] \in fds_read
               PROVE  Select!Readable(fd_socket[i])
    BY DEF Select!RecvNeverWaits, Select!FD_ISSET
  <2>1. i \in i .. Len(fd_socket) /\ fd_socket[i] \in Fds
    BY SelectPlace
  <2> QED
    BY <2>1, SelectNames DEF SelectInv, SelectReports, Select!Scanning
<1> QED
  BY <1>10, <1>11

-----------------------------------------------------------------------------
(* io_poll.c.                                                              *)

LEMMA PollNames ==
  /\ Poll!Fds = Fds /\ Poll!OpenFds = OpenFds /\ Poll!FreeFds = FreeFds
  /\ Poll!AcceptFd = AcceptFd /\ Poll!Listener = Listener
  /\ \A f \in Fds : Poll!Readable(f) <=> HasInput(f)
<1>1. Poll!Fds = Fds /\ Poll!OpenFds = OpenFds /\ Poll!FreeFds = FreeFds
  BY DEF Poll!Fds, Fds, Poll!OpenFds, OpenFds, Poll!FreeFds, FreeFds
<1>2. Poll!AcceptFd = AcceptFd
  BY <1>1 DEF Poll!AcceptFd, AcceptFd, Poll!Min, Min
<1>3. \A f \in Fds : f # Listener
  BY SocketsAssumption DEF Fds, Listener
<1> QED
  BY <1>1, <1>2, <1>3 DEF Poll!Listener, Listener, Poll!Readable, HasInput

LEMMA PollClients ==
  ASSUME SocketsInv(Conns, MaxData), NEW c \in Conns, Poll!Client(c)
  PROVE  Connects(c) \/ Sends(c, MaxData) \/ Ends(c)
<1>1. CASE Poll!Send(c)
  <2>1. data[c] \in 0 .. MaxData /\ data[c] < MaxData /\ MaxData \in Nat
    BY <1>1, SocketsAssumption DEF Poll!Send, SocketsInv
  <2>2. PICK n : n = data[c] + 1
    OBVIOUS
  <2>3. n \in data[c] + 1 .. MaxData /\ data' = [data EXCEPT ![c] = n]
    BY <1>1, <2>1, <2>2 DEF Poll!Send
  <2> QED
    BY <1>1, <2>3 DEF Poll!Send, Sends
<1> QED
  BY <1>1 DEF Poll!Client, Poll!Connect, Poll!Hangup, Connects, Ends

LEMMA PollReads ==
  ASSUME SocketsInv(Conns, MaxData), NEW f \in Fds,
         Poll!RecvData(f) \/ Poll!RecvReset(f)
  PROVE  Reads(f) \/ Resets(f)
<1>1. CASE Poll!RecvData(f)
  <2>1. PICK n : n = data[sock[f]] - 1
    OBVIOUS
  <2>2. data[sock[f]] \in Nat
    BY <1>1 DEF Poll!RecvData, SocketsInv
  <2>3. n \in 0 .. data[sock[f]] - 1 /\ data' = [data EXCEPT ![sock[f]] = n]
    BY <1>1, <2>1, <2>2 DEF Poll!RecvData
  <2> QED
    BY <1>1, <2>3 DEF Poll!RecvData, Reads
<1>2. CASE Poll!RecvReset(f)
  BY <1>2 DEF Poll!RecvReset, Poll!AtReset, Resets
<1> QED
  BY <1>1, <1>2

LEMMA PollAccepts ==
  ASSUME SocketsInv(Conns, MaxData), NEW c \in Conns, Poll!Accept(c)
  PROVE  AcceptFd \in Fds /\ Takes(c, AcceptFd)
<1>1. AcceptFd \in Fds /\ sock[AcceptFd] = NoConn
  BY PollNames, LowestIsFree DEF Poll!Accept, SocketsInv
<1> QED
  BY <1>1, PollNames DEF Poll!Accept, Poll!Queued, Takes

Entry == [fd : Fds \cup {Listener, -1}, revents : {"none", "POLLIN", "POLLNVAL"}]

PollTyped ==
  /\ pollfds \in [0 .. MAX_FD_SOCKET - 1 -> Entry]
  /\ cnt_fd_socket \in 1 .. MAX_FD_SOCKET
  /\ ret_poll \in 0 .. MAX_FD_SOCKET
  /\ phase \in {"poll", "accept", "scan", "exited"}
  /\ i \in 1 .. MAX_FD_SOCKET

\* The entries in use are the listener and each open socket once.
PollTable ==
  /\ pollfds[0].fd = Listener
  /\ \A k \in 1 .. cnt_fd_socket - 1 : pollfds[k].fd \in OpenFds
  /\ \A f \in OpenFds : \E k \in 1 .. cnt_fd_socket - 1 : pollfds[k].fd = f
  /\ \A k, l \in 0 .. cnt_fd_socket - 1 : pollfds[k].fd = pollfds[l].fd => k = l

\* The entries with events that main has not visited.
Left == {k \in i .. cnt_fd_socket - 1 : pollfds[k].revents # "none"}

PollCount == phase = "scan" => ret_poll = Cardinality(Left)

PollInv ==
  /\ SocketsInv(Conns, MaxData)
  /\ PollTyped
  /\ PollTable
  /\ PollCount

LEMMA PollInit ==
  ASSUME Poll!Init
  PROVE  PollInv
<1>1. SocketsInit /\ MaxData \in Nat
  BY SocketsAssumption DEF Poll!Init, Poll!SocketsInit, SocketsInit, Poll!Fds, Fds
<1>2. SocketsInv(Conns, MaxData)
  BY <1>1, SocketsStart DEF SocketsInit
<1>3. /\ pollfds = [k \in 0 .. MAX_FD_SOCKET - 1 |-> [fd |-> 0, revents |-> "none"]]
      /\ cnt_fd_socket = 1 /\ ret_poll = 0 /\ phase = "poll" /\ i = 1
  BY DEF Poll!Init, Poll!Slots
<1>4. MAX_FD_SOCKET \in Nat \ {0} /\ 0 \in 0 .. MAX_FD_SOCKET - 1
  BY SocketsAssumption
<1>5. [fd |-> 0, revents |-> "none"] \in Entry
  BY DEF Entry, Listener
<1>6. PollTyped
  BY <1>3, <1>4, <1>5 DEF PollTyped
<1>7. OpenFds = {}
  BY <1>1 DEF OpenFds, SocketsInit
<1>8. PollTable
  BY <1>3, <1>4, <1>7 DEF PollTable, Listener
<1> QED
  BY <1>2, <1>3, <1>6, <1>8 DEF PollInv, PollCount

\* A step that leaves the array and the open sockets alone.
LEMMA PollFrame ==
  ASSUME PollInv, SocketsInv(Conns, MaxData)', PollTyped', PollCount',
         UNCHANGED <<pollfds, cnt_fd_socket, sock>>
  PROVE  PollInv'
BY DEF PollInv, PollTable, OpenFds

LEMMA LeftFinite ==
  ASSUME PollTyped
  PROVE  IsFiniteSet(Left)
<1>1. i \in Int /\ cnt_fd_socket - 1 \in Int
  BY DEF PollTyped
<1>2. IsFiniteSet(i .. cnt_fd_socket - 1)
  BY <1>1, FS_Interval
<1> QED
  BY <1>2, FS_Subset DEF Left

\* poll() fills in the revents of the entries in use and counts those that
\* have any.
LEMMA PollPoll ==
  ASSUME PollInv, Poll!poll
  PROVE  PollInv'
<1> PICK n : n = cnt_fd_socket
  OBVIOUS
<1> DEFINE Ev(k) == Poll!Revents(pollfds[k].fd)
           Hit == {k \in 0 .. n - 1 : Ev(k) # "none"}
<1>1. /\ UNCHANGED <<conn, data, end, sock, nofile, cnt_fd_socket>> /\ phase = "poll"
      /\ pollfds' = [k \in 0 .. MAX_FD_SOCKET - 1 |->
            IF k \in 0 .. n - 1 THEN [pollfds[k] EXCEPT !.revents = Ev(k)]
            ELSE pollfds[k]]
      /\ ret_poll' = Cardinality(Hit)
      /\ phase' = IF pollfds'[0].revents = "POLLIN" THEN "accept" ELSE "scan"
      /\ i' = 1
  <2>1. Poll!Cardinality(Hit) = Cardinality(Hit)
    BY SameCounts
  <2> QED
    BY <2>1 DEF Poll!poll, Poll!sockets, Poll!Slots, Poll!Used
<1>2. n \in 1 .. MAX_FD_SOCKET /\ MAX_FD_SOCKET \in Nat
  BY SocketsAssumption DEF PollInv, PollTyped
<1>3. \A k \in 0 .. n - 1 :
        /\ k \in 0 .. MAX_FD_SOCKET - 1 /\ Ev(k) \in {"none", "POLLIN", "POLLNVAL"}
        /\ pollfds'[k].fd = pollfds[k].fd /\ pollfds'[k].revents = Ev(k)
        /\ pollfds'[k] \in Entry
  <2> SUFFICES ASSUME NEW k \in 0 .. n - 1
               PROVE  /\ k \in 0 .. MAX_FD_SOCKET - 1
                      /\ Ev(k) \in {"none", "POLLIN", "POLLNVAL"}
                      /\ pollfds'[k].fd = pollfds[k].fd /\ pollfds'[k].revents = Ev(k)
                      /\ pollfds'[k] \in Entry
    OBVIOUS
  <2>1. k \in 0 .. MAX_FD_SOCKET - 1 /\ pollfds[k] \in Entry
    BY <1>2 DEF PollInv, PollTyped
  <2>2. Ev(k) \in {"none", "POLLIN", "POLLNVAL"}
    BY DEF Poll!Revents
  <2> HIDE DEF Ev
  <2>3. pollfds'[k] = [pollfds[k] EXCEPT !.revents = Ev(k)]
    BY <1>1, <2>1
  <2> QED
    BY <2>1, <2>2, <2>3 DEF Entry
<1>4. Hit \subseteq 0 .. n - 1 /\ IsFiniteSet(Hit) /\ Cardinality(Hit) \in 0 .. MAX_FD_SOCKET
  <2>1. IsFiniteSet(0 .. n - 1) /\ Cardinality(0 .. n - 1) = n
    <3>1. 0 \in Int /\ n - 1 \in Int /\ n - 1 - 0 + 1 = n /\ 0 <= n - 1
      BY <1>2
    <3> QED
      BY <3>1, FS_Interval
  <2>2. Hit \subseteq 0 .. n - 1
    OBVIOUS
  <2> HIDE DEF Hit
  <2>3. IsFiniteSet(Hit) /\ Cardinality(Hit) <= n /\ Cardinality(Hit) \in Nat
    BY <2>1, <2>2, FS_Subset, FS_CardinalityType
  <2> QED
    BY <1>2, <2>2, <2>3
<1>5. SocketsInv(Conns, MaxData)'
  BY <1>1 DEF PollInv, SocketsInv
<1>6. PollTyped'
  <2> HIDE DEF Ev, Hit
  <2>1. pollfds' \in [0 .. MAX_FD_SOCKET - 1 -> Entry]
    <3>1. \A k \in 0 .. MAX_FD_SOCKET - 1 : pollfds'[k] \in Entry
      <4> SUFFICES ASSUME NEW k \in 0 .. MAX_FD_SOCKET - 1
                   PROVE  pollfds'[k] \in Entry
        OBVIOUS
      <4>1. CASE k \in 0 .. n - 1
        BY <1>3, <4>1
      <4>2. CASE k \notin 0 .. n - 1
        BY <1>1, <4>2 DEF PollInv, PollTyped
      <4> QED
        BY <4>1, <4>2
    <3> QED
      BY <1>1, <3>1
  <2>2. phase' \in {"accept", "scan"} /\ ret_poll' \in 0 .. MAX_FD_SOCKET
    BY <1>1, <1>4
  <2>3. cnt_fd_socket' \in 1 .. MAX_FD_SOCKET /\ i' \in 1 .. MAX_FD_SOCKET
    BY <1>1, <1>2
  <2> QED
    BY <2>1, <2>2, <2>3 DEF PollTyped
<1>7. \A k \in 0 .. n - 1 : pollfds'[k].fd = pollfds[k].fd
  BY <1>3
<1>8. PollTable'
  <2>1. 0 \in 0 .. n - 1 /\ \A k \in 1 .. n - 1 : k \in 0 .. n - 1
    BY <1>2
  <2>2. OpenFds' = OpenFds /\ cnt_fd_socket' = cnt_fd_socket
    BY <1>1 DEF OpenFds
  <2> QED
    BY <1>7, <2>1, <2>2 DEF PollInv, PollTable
<1>9. PollCount'
  <2> SUFFICES ASSUME phase' = "scan"
               PROVE  Left' = Hit
    BY <1>1 DEF PollCount
  <2>1. Ev(0) = "none"
    <3>1. pollfds'[0].revents # "POLLIN" /\ 0 \in 0 .. n - 1
      BY <1>1, <1>2
    <3>2. Ev(0) # "POLLIN"
      BY <1>3, <3>1
    <3>3. Ev(0) # "POLLNVAL"
      BY PollNames DEF Poll!Revents, PollInv, PollTable
    <3> QED
      BY <1>3, <3>1, <3>2, <3>3
  <2> HIDE DEF Ev
  <2>2. \A k \in 0 .. n - 1 : Ev(k) # "none" => k \in 1 .. n - 1
    BY <1>2, <2>1
  <2>3. \A k \in 1 .. n - 1 : k \in 0 .. n - 1
    BY <1>2
  <2>4. Left' = {k \in 1 .. n - 1 : pollfds'[k].revents # "none"}
    BY <1>1 DEF Left
  <2> QED
    BY <1>3, <2>2, <2>3, <2>4
<1> QED
  BY <1>5, <1>6, <1>8, <1>9 DEF PollInv

LEMMA PollAcceptAdd ==
  ASSUME PollInv, Poll!accept_add
  PROVE  PollInv'
<1> PICK n : n = cnt_fd_socket
  OBVIOUS
<1>1. PICK c \in Conns : Poll!Accept(c)
  BY DEF Poll!accept_add
<1>2. /\ SocketsInv(Conns, MaxData) /\ NoConn \notin Conns /\ MaxData \in Nat
  BY SocketsAssumption DEF PollInv
<1>3. AcceptFd \in Fds /\ Takes(c, AcceptFd)
  BY <1>1, <1>2, PollAccepts
<1>4. /\ SocketsInv(Conns, MaxData)'
      /\ OpenFds' = OpenFds \cup {AcceptFd} /\ AcceptFd \notin OpenFds
  BY <1>2, <1>3, TakesKeeps
<1>5. /\ pollfds' = [pollfds EXCEPT ![n].fd = AcceptFd] /\ cnt_fd_socket' = n + 1
      /\ n < MAX_FD_SOCKET /\ phase' = "poll" /\ UNCHANGED <<ret_poll, i>>
  BY PollNames DEF Poll!accept_add, Poll!Room, Poll!AfterAccept
<1>6. /\ n \in Nat \ {0} /\ MAX_FD_SOCKET \in Nat /\ n \in 0 .. MAX_FD_SOCKET - 1
      /\ pollfds \in [0 .. MAX_FD_SOCKET - 1 -> Entry]
  BY <1>5, SocketsAssumption DEF PollInv, PollTyped
<1>7. \A k \in 0 .. MAX_FD_SOCKET - 1 :
        /\ pollfds'[k] \in Entry
        /\ pollfds'[k].fd = IF k = n THEN AcceptFd ELSE pollfds[k].fd
  BY <1>3, <1>5, <1>6 DEF Entry
<1>8. PollTyped'
  <2>1. pollfds' \in [0 .. MAX_FD_SOCKET - 1 -> Entry]
    BY <1>5, <1>6, <1>7
  <2> QED
    BY <1>5, <1>6, <2>1 DEF PollInv, PollTyped
<1>9. AcceptFd # Listener
  BY <1>3, SocketsAssumption DEF Fds, Listener
<1>10. /\ \A k \in 0 .. n : k \in 0 .. MAX_FD_SOCKET - 1 /\ (k = n \/ k \in 0 .. n - 1)
       /\ \A k \in 1 .. n : k \in 0 .. n /\ (k = n \/ k \in 1 .. n - 1)
       /\ \A k \in 0 .. n - 1 : k # n /\ k \in 0 .. n /\ (k = 0 \/ k \in 1 .. n - 1)
       /\ \A k \in 1 .. n - 1 : k \in 1 .. n /\ k # n
       /\ n \in 1 .. n /\ 0 \in 0 .. n - 1
  BY <1>6
<1>11. \A k \in 0 .. n - 1 : pollfds[k].fd # AcceptFd
  BY <1>4, <1>9, <1>10 DEF PollInv, PollTable
<1>12. \A k \in 0 .. n : pollfds'[k].fd = IF k = n THEN AcceptFd ELSE pollfds[k].fd
  BY <1>7, <1>10
<1>13. PollTable'
  <2>1. pollfds'[0].fd = Listener
    BY <1>10, <1>12 DEF PollInv, PollTable
  <2>2. \A k \in 1 .. n : pollfds'[k].fd \in OpenFds'
    BY <1>4, <1>10, <1>12 DEF PollInv, PollTable
  <2>3. \A f \in OpenFds' : \E k \in 1 .. n : pollfds'[k].fd = f
    BY <1>4, <1>10, <1>12 DEF PollInv, PollTable
  <2>4. \A k, l \in 0 .. n : pollfds'[k].fd = pollfds'[l].fd => k = l
    BY <1>10, <1>11, <1>12 DEF PollInv, PollTable
  <2>5. cnt_fd_socket' - 1 = n
    BY <1>5, <1>6
  <2> QED
    BY <2>1, <2>2, <2>3, <2>4, <2>5 DEF PollTable
<1> QED
  BY <1>4, <1>5, <1>8, <1>13 DEF PollInv, PollCount

LEMMA PollOtherAccepts ==
  ASSUME PollInv, Poll!accept_full \/ Poll!accept_fails
  PROVE  PollInv'
<1>1. phase' = "poll" /\ UNCHANGED <<pollfds, cnt_fd_socket, ret_poll, i>>
  BY DEF Poll!accept_full, Poll!accept_fails, Poll!AfterAccept
<1>2. PollTyped' /\ PollCount'
  BY <1>1 DEF PollInv, PollTyped, PollCount
<1>3. SocketsInv(Conns, MaxData)' /\ sock' = sock
  <2>1. CASE Poll!accept_full
    <3>1. PICK c \in Conns : Poll!AcceptAndClose(c)
      BY <2>1 DEF Poll!accept_full
    <3>2. Refuses(c)
      BY <3>1 DEF Poll!AcceptAndClose, Poll!Queued, Refuses
    <3> QED
      BY <3>2, RefusesKeeps, SocketsAssumption DEF PollInv
  <2>2. CASE Poll!accept_fails
    BY <2>2 DEF Poll!accept_fails, Poll!sockets, PollInv, SocketsInv
  <2> QED
    BY <2>1, <2>2
<1> QED
  BY <1>1, <1>2, <1>3, PollFrame

\* What main finds at the place it looks at.
LEMMA PollPlace ==
  ASSUME PollInv, Poll!Scanning
  PROVE  /\ i \in 1 .. cnt_fd_socket - 1 /\ cnt_fd_socket \in 2 .. MAX_FD_SOCKET
         /\ i + 1 \in 1 .. MAX_FD_SOCKET /\ ret_poll \in 1 .. MAX_FD_SOCKET
         /\ phase = "scan" /\ ret_poll - 1 \in 0 .. MAX_FD_SOCKET
         /\ pollfds[i].fd \in Fds /\ sock[pollfds[i].fd] # NoConn
<1>1. /\ i \in 1 .. cnt_fd_socket - 1 /\ cnt_fd_socket \in 2 .. MAX_FD_SOCKET
      /\ i + 1 \in 1 .. MAX_FD_SOCKET /\ ret_poll \in 1 .. MAX_FD_SOCKET
      /\ phase = "scan" /\ ret_poll - 1 \in 0 .. MAX_FD_SOCKET
  BY SocketsAssumption DEF PollInv, PollTyped, Poll!Scanning
<1> QED
  BY <1>1 DEF PollInv, PollTable, OpenFds

\* The place is visited and main goes on.
LEMMA PollVisits ==
  ASSUME PollInv, Poll!Scanning, i' = i + 1, UNCHANGED <<pollfds, cnt_fd_socket, phase>>,
         ret_poll' = IF pollfds[i].revents = "none" THEN ret_poll ELSE ret_poll - 1
  PROVE  PollTyped' /\ PollCount'
<1>1. PollTyped'
  BY PollPlace DEF PollInv, PollTyped
<1>2. Left' = Left \ {i}
  <2>1. \A k : k \in i + 1 .. cnt_fd_socket - 1 <=> k \in i .. cnt_fd_socket - 1 /\ k # i
    BY PollPlace
  <2> QED
    BY <2>1 DEF Left
<1>3. i \in Left <=> pollfds[i].revents # "none"
  BY PollPlace DEF Left
<1>4. /\ IsFiniteSet(Left) /\ ret_poll = Cardinality(Left)
      /\ Cardinality(Left \ {i}) =
           IF i \in Left THEN Cardinality(Left) - 1 ELSE Cardinality(Left)
  BY LeftFinite, PollPlace, FS_RemoveElement DEF PollInv, PollCount
<1> QED
  BY <1>1, <1>2, <1>3, <1>4 DEF PollCount

LEMMA PollPasses ==
  ASSUME PollInv, Poll!scan_skip \/ Poll!scan_done
  PROVE  PollInv'
<1>1. UNCHANGED <<conn, data, end, sock, nofile, pollfds, cnt_fd_socket>>
  BY DEF Poll!scan_skip, Poll!scan_done, Poll!sockets
<1>2. SocketsInv(Conns, MaxData)'
  BY <1>1 DEF PollInv, SocketsInv
<1>3. CASE Poll!scan_skip
  <2>1. PollTyped' /\ PollCount'
    BY <1>3, PollVisits DEF Poll!scan_skip
  <2> QED
    BY <1>1, <1>2, <2>1, PollFrame
<1>4. CASE Poll!scan_done
  <2>1. PollTyped' /\ PollCount'
    BY <1>4 DEF Poll!scan_done, PollInv, PollTyped, PollCount
  <2> QED
    BY <1>1, <1>2, <2>1, PollFrame
<1> QED
  BY <1>3, <1>4

LEMMA PollRecv ==
  ASSUME PollInv, Poll!scan_recv
  PROVE  PollInv'
<1>1. /\ Poll!Scanning /\ i' = i + 1 /\ UNCHANGED <<pollfds, cnt_fd_socket, phase>>
      /\ ret_poll' = ret_poll - 1 /\ pollfds[i].revents = "POLLIN"
  BY DEF Poll!scan_recv
<1> PICK f : f = pollfds[i].fd
  OBVIOUS
<1>2. f \in Fds /\ sock[f] # NoConn /\ data[sock[f]] \in Nat
  <2>1. f \in Fds /\ sock[f] # NoConn
    BY <1>1, PollPlace
  <2> QED
    BY <2>1 DEF PollInv, SocketsInv
<1>3. Reads(f) \/ Resets(f)
  BY <1>2, PollReads DEF PollInv, Poll!scan_recv
<1>4. SocketsInv(Conns, MaxData)' /\ sock' = sock
  BY <1>2, <1>3, ReadsKeeps, SocketsAssumption DEF PollInv
<1>5. PollTyped' /\ PollCount'
  BY <1>1, PollVisits
<1> QED
  BY <1>1, <1>4, <1>5, PollFrame

\* del_socket moves the last entry to the place of the deleted one; what it
\* marks is not in use any more.
LEMMA PollDeletes ==
  ASSUME PollInv, NEW p \in 1 .. cnt_fd_socket - 1,
         pollfds' = Poll!del_socket(pollfds[p].fd)
  PROVE  /\ pollfds' \in [0 .. MAX_FD_SOCKET - 1 -> Entry]
         /\ \A k \in 0 .. cnt_fd_socket - 2 :
              pollfds'[k] = IF k = p THEN pollfds[cnt_fd_socket - 1] ELSE pollfds[k]
<1> PICK n : n = cnt_fd_socket
  OBVIOUS
<1> PICK filled : filled = [pollfds EXCEPT ![p] = pollfds[n - 1]]
  OBVIOUS
<1>1. /\ MAX_FD_SOCKET \in Nat /\ n \in 2 .. MAX_FD_SOCKET /\ p \in 0 .. n - 1
      /\ \A k \in 0 .. n - 1 : k \in 0 .. MAX_FD_SOCKET - 1
      /\ n - 1 \in 0 .. n - 1
      /\ pollfds \in [0 .. MAX_FD_SOCKET - 1 -> Entry]
  BY SocketsAssumption DEF PollInv, PollTyped
<1>2. Poll!Min({k \in Poll!Used : pollfds[k].fd = pollfds[p].fd}) = p
  <2>1. {k \in 0 .. n - 1 : pollfds[k].fd = pollfds[p].fd} = {p}
    BY <1>1 DEF PollInv, PollTable
  <2>2. p <= p
    BY <1>1
  <2> QED
    BY <2>1, <2>2 DEF Poll!Min, Poll!Used
<1>3. pollfds' = IF n \in 0 .. MAX_FD_SOCKET - 1 THEN [filled EXCEPT ![n].fd = -1] ELSE filled
  BY <1>2 DEF Poll!del_socket, Poll!Slots
<1>4. /\ filled \in [0 .. MAX_FD_SOCKET - 1 -> Entry]
      /\ \A k \in 0 .. n - 1 : filled[k] = IF k = p THEN pollfds[n - 1] ELSE pollfds[k]
  BY <1>1
<1>5. pollfds' \in [0 .. MAX_FD_SOCKET - 1 -> Entry]
  <2>1. CASE n \in 0 .. MAX_FD_SOCKET - 1
    <3>1. pollfds' = [filled EXCEPT ![n] = [filled[n] EXCEPT !.fd = -1]]
      BY <1>3, <2>1
    <3>2. [filled[n] EXCEPT !.fd = -1] \in Entry
      BY <1>4, <2>1 DEF Entry
    <3> QED
      BY <1>4, <3>1, <3>2
  <2>2. CASE n \notin 0 .. MAX_FD_SOCKET - 1
    BY <1>3, <1>4, <2>2
  <2> QED
    BY <2>1, <2>2
<1>6. \A k \in 0 .. n - 2 : k \in 0 .. n - 1 /\ k # n /\ k \in 0 .. MAX_FD_SOCKET - 1
  BY <1>1
<1>7. \A k \in 0 .. n - 2 : pollfds'[k] = filled[k]
  BY <1>3, <1>4, <1>6
<1> QED
  BY <1>4, <1>5, <1>6, <1>7

LEMMA PollEof ==
  ASSUME PollInv, Poll!scan_eof
  PROVE  PollInv'
<1> PICK n : n = cnt_fd_socket
  OBVIOUS
<1> PICK f : f = pollfds[i].fd
  OBVIOUS
<1>1. /\ Poll!Scanning /\ i' = i /\ cnt_fd_socket' = n - 1 /\ ret_poll' = ret_poll - 1
      /\ pollfds[i].revents = "POLLIN" /\ phase' \in {"scan", "exited"}
      /\ pollfds' = Poll!del_socket(pollfds[i].fd)
  BY DEF Poll!scan_eof, Poll!AfterDel
<1>2. /\ i \in 1 .. n - 1 /\ n \in 2 .. MAX_FD_SOCKET /\ MAX_FD_SOCKET \in Nat
      /\ f \in Fds /\ sock[f] # NoConn
  BY <1>1, PollPlace, SocketsAssumption
<1>3. Closes(f)
  BY <1>2 DEF Poll!scan_eof, Poll!Close, Closes
<1>4. /\ SocketsInv(Conns, MaxData)'
      /\ OpenFds' = OpenFds \ {f} /\ f \in OpenFds
  BY <1>2, <1>3, ClosesKeeps, SocketsAssumption DEF PollInv
<1>5. /\ pollfds' \in [0 .. MAX_FD_SOCKET - 1 -> Entry]
      /\ \A k \in 0 .. n - 2 : pollfds'[k] = IF k = i THEN pollfds[n - 1] ELSE pollfds[k]
  BY <1>1, <1>2, PollDeletes
<1>6. PollTyped'
  <2>1. ret_poll' \in 0 .. MAX_FD_SOCKET /\ n - 1 \in 1 .. MAX_FD_SOCKET
    BY <1>1, <1>2, PollPlace
  <2> QED
    BY <1>1, <1>5, <2>1 DEF PollInv, PollTyped
<1>7. /\ \A k \in 0 .. n - 2 : k \in 0 .. n - 1 /\ k # n - 1
      /\ \A k \in 1 .. n - 2 : k \in 1 .. n - 1 /\ k \in 0 .. n - 2
      /\ \A k \in 1 .. n - 1 : k \in 0 .. n - 1 /\ (k = n - 1 \/ k \in 1 .. n - 2)
      /\ 0 \in 0 .. n - 2 /\ i # 0 /\ n - 1 \in 1 .. n - 1
      /\ i = n - 1 \/ i \in 1 .. n - 2
      /\ (n - 1) - 1 = n - 2
  BY <1>2
<1>8. \A k \in 1 .. n - 1 : pollfds[k].fd = f => k = i
  BY <1>2, <1>7 DEF PollInv, PollTable
<1>9. PollTable'
  <2>1. pollfds'[0].fd = Listener
    BY <1>5, <1>7 DEF PollInv, PollTable
  <2>2. \A k \in 1 .. n - 2 : pollfds'[k].fd \in OpenFds'
    BY <1>4, <1>5, <1>7, <1>8 DEF PollInv, PollTable
  <2>3. \A g \in OpenFds' : \E k \in 1 .. n - 2 : pollfds'[k].fd = g
    <3> SUFFICES ASSUME NEW g \in OpenFds, g # f
                 PROVE  \E k \in 1 .. n - 2 : pollfds'[k].fd = g
      BY <1>4
    <3>1. PICK k \in 1 .. n - 1 : pollfds[k].fd = g
      BY DEF PollInv, PollTable
    <3>2. k # i
      BY <3>1
    <3>3. CASE k = n - 1
      BY <1>5, <1>7, <3>1, <3>2, <3>3
    <3>4. CASE k # n - 1
      BY <1>5, <1>7, <3>1, <3>2, <3>4
    <3> QED
      BY <3>3, <3>4
  <2>4. ASSUME NEW k \in 0 .. n - 2, NEW l \in 0 .. n - 2, pollfds'[k].fd = pollfds'[l].fd
        PROVE  k = l
    <3>1. /\ k \in 0 .. n - 1 /\ l \in 0 .. n - 1 /\ n - 1 \in 0 .. n - 1
          /\ k # n - 1 /\ l # n - 1
      BY <1>7
    <3>2. /\ pollfds'[k] = IF k = i THEN pollfds[n - 1] ELSE pollfds[k]
          /\ pollfds'[l] = IF l = i THEN pollfds[n - 1] ELSE pollfds[l]
      BY <1>5
    <3> QED
      BY <2>4, <3>1, <3>2 DEF PollInv, PollTable
  <2>5. cnt_fd_socket' - 1 = n - 2
    BY <1>1, <1>7
  <2> QED
    BY <2>1, <2>2, <2>3, <2>4, <2>5 DEF PollTable
<1>10. PollCount'
  <2>1. PICK m : m = n - 1
    OBVIOUS
  <2>2. /\ Left = {k \in i .. m : pollfds[k].revents # "none"}
        /\ Left' = {k \in i .. n - 2 : pollfds'[k].revents # "none"}
    BY <1>1, <1>7, <2>1 DEF Left
  <2>3. \E x \in Left : Left' = Left \ {x}
    <3>1. /\ i \in Left
          /\ \A k : k \in i .. n - 2 <=> k \in i .. m /\ k # m
          /\ \A k \in i .. n - 2 : k \in 0 .. n - 2
          /\ m \in i .. m
      BY <1>1, <1>2, <2>1, <2>2
    <3>2. CASE i = m
      BY <1>5, <2>1, <2>2, <3>1, <3>2
    <3>3. CASE i # m /\ pollfds[m].revents = "none"
      BY <1>5, <2>1, <2>2, <3>1, <3>3
    <3>4. CASE i # m /\ pollfds[m].revents # "none"
      BY <1>1, <1>5, <2>1, <2>2, <3>1, <3>4
    <3> QED
      BY <3>2, <3>3, <3>4
  <2>4. PICK x \in Left : Left' = Left \ {x}
    BY <2>3
  <2>5. ret_poll = Cardinality(Left)
    BY <1>1, PollPlace DEF PollInv, PollCount
  <2> QED
    BY <1>1, <2>4, <2>5, LeftFinite, FS_RemoveElement DEF PollInv, PollCount
<1> QED
  BY <1>4, <1>6, <1>9, <1>10 DEF PollInv

LEMMA PollClientsStep ==
  ASSUME PollInv, Poll!Clients
  PROVE  PollInv'
<1>1. PICK c \in Conns : Poll!Client(c)
  BY DEF Poll!Clients
<1>2. UNCHANGED <<pollfds, cnt_fd_socket, ret_poll, phase, i>>
  BY DEF Poll!Clients, Poll!server
<1>3. SocketsInv(Conns, MaxData)' /\ sock' = sock
  BY <1>1, PollClients, ClientKeeps, SocketsAssumption DEF PollInv
<1>4. PollTyped' /\ PollCount'
  BY <1>2 DEF PollInv, PollTyped, PollCount, Left
<1> QED
  BY <1>2, <1>3, <1>4, PollFrame

LEMMA PollStep ==
  ASSUME PollInv, Poll!Server \/ Poll!Clients
  PROVE  PollInv'
BY PollPoll, PollAcceptAdd, PollOtherAccepts, PollPasses, PollRecv, PollEof,
   PollClientsStep
DEF Poll!Server

LEMMA PollImplies ==
  ASSUME PollInv
  PROVE  Poll!TableMatchesSockets /\ Poll!PollCountExact
<1> PICK m : m = cnt_fd_socket - 1
  OBVIOUS
<1> PICK f : f = [k \in 1 .. m |-> pollfds[k].fd]
  OBVIOUS
<1>1. Poll!TypeOK
  <2>1. Poll!SocketsTypeOK
    BY PollNames DEF PollInv, SocketsInv, Poll!SocketsTypeOK
  <2> QED
    BY <2>1, PollNames DEF PollInv, PollTyped, Entry, Poll!TypeOK, Poll!Slots
<1>2. m \in Nat /\ \A k \in 1 .. m : k \in 0 .. m
  BY DEF PollInv, PollTyped
<1>3. f \in Bijection(1 .. m, OpenFds)
  <2>1. f \in [1 .. m -> OpenFds]
    BY DEF PollInv, PollTable
  <2>2. /\ \A g \in OpenFds : \E k \in 1 .. m : f[k] = g
        /\ \A k, l \in 1 .. m : f[k] = f[l] => k = l
    BY <1>2 DEF PollInv, PollTable
  <2> QED
    BY <2>1, <2>2, OneByOne
<1>4. Cardinality(OpenFds) = m
  BY <1>2, <1>3, Counts
<1>5. {pollfds[k].fd : k \in Poll!Used \ {0}} = OpenFds
  <2>1. Poll!Used \ {0} = 1 .. m
    BY <1>2 DEF Poll!Used
  <2> QED
    BY <2>1 DEF PollInv, PollTable
<1>6. Poll!TableMatchesSockets
  BY <1>1, <1>4, <1>5, PollNames, SameCounts
  DEF PollInv, PollTable, Poll!TableMatchesSockets
<1>7. Poll!PollCountExact
  <2>1. Poll!Cardinality(Left) = Cardinality(Left)
    BY SameCounts
  <2> QED
    BY <2>1 DEF PollInv, PollCount, Left, Poll!PollCountExact
<1> QED
  BY <1>6, <1>7

-----------------------------------------------------------------------------
(* io_epoll.c.                                                             *)

LEMMA EpollNames ==
  /\ Epoll!Fds = Fds /\ Epoll!OpenFds = OpenFds /\ Epoll!FreeFds = FreeFds
  /\ Epoll!AcceptFd = AcceptFd /\ Epoll!Listener = Listener /\ Listener \notin Fds
  /\ \A f \in Fds : Epoll!Readable(f) <=> HasInput(f)
<1>1. Epoll!Fds = Fds /\ Epoll!OpenFds = OpenFds /\ Epoll!FreeFds = FreeFds
  BY DEF Epoll!Fds, Fds, Epoll!OpenFds, OpenFds, Epoll!FreeFds, FreeFds
<1>2. Epoll!AcceptFd = AcceptFd
  BY <1>1 DEF Epoll!AcceptFd, AcceptFd, Epoll!Min, Min
<1>3. Listener \notin Fds
  BY SocketsAssumption DEF Fds, Listener
<1> QED
  BY <1>1, <1>2, <1>3 DEF Epoll!Listener, Listener, Epoll!Readable, HasInput

LEMMA Few == NoConn \notin FewConns /\ IsFiniteSet(FewConns) /\ MaxData \in Nat /\ RtsData \in Nat
BY SocketsAssumption, SocketServersAssumption, FS_Subset

LEMMA EpollClients ==
  ASSUME SocketsInv(FewConns, MaxData), NEW c \in FewConns, Epoll!Client(c)
  PROVE  Connects(c) \/ Sends(c, MaxData) \/ Ends(c)
<1>1. CASE Epoll!Send(c)
  <2>1. data[c] \in 0 .. MaxData /\ data[c] < MaxData /\ MaxData \in Nat
    BY <1>1, Few DEF Epoll!Send, SocketsInv
  <2>2. PICK n : n = data[c] + 1
    OBVIOUS
  <2>3. n \in data[c] + 1 .. MaxData /\ data' = [data EXCEPT ![c] = n]
    BY <1>1, <2>1, <2>2 DEF Epoll!Send
  <2> QED
    BY <1>1, <2>3 DEF Epoll!Send, Sends
<1> QED
  BY <1>1 DEF Epoll!Client, Epoll!Connect, Epoll!Hangup, Connects, Ends

LEMMA EpollReads ==
  ASSUME SocketsInv(FewConns, MaxData), NEW f \in Fds, Epoll!RecvData(f)
  PROVE  Reads(f)
<1>1. PICK n : n = data[sock[f]] - 1
  OBVIOUS
<1>2. data[sock[f]] \in Nat
  BY DEF Epoll!RecvData, SocketsInv
<1>3. n \in 0 .. data[sock[f]] - 1 /\ data' = [data EXCEPT ![sock[f]] = n]
  BY <1>1, <1>2 DEF Epoll!RecvData
<1> QED
  BY <1>3 DEF Epoll!RecvData, Reads

LEMMA EpollAccepts ==
  ASSUME SocketsInv(FewConns, MaxData), NEW c \in FewConns, Epoll!Accept(c)
  PROVE  AcceptFd \in Fds /\ Takes(c, AcceptFd)
<1>1. AcceptFd \in Fds /\ sock[AcceptFd] = NoConn
  BY EpollNames, LowestIsFree DEF Epoll!Accept, SocketsInv
<1> QED
  BY <1>1, EpollNames DEF Epoll!Accept, Epoll!Queued, Takes

EpEvent ==
  [fd : Fds \cup {Listener}, kind : {"EPOLLIN", "EPOLLPRI"}, of : FewConns \cup {NoConn}]

EpollTyped ==
  /\ urgent \in [FewConns -> {"none", "notyet", "valid"}]
  /\ interest \subseteq Fds
  /\ batch \in Seq(EpEvent)
  /\ fd \in Fds \cup {Listener, -1}
  /\ exit \in {"no", "add_ev", "del_ev", "overrun"}

\* An event is about the socket it was raised for, which still can be read if it
\* could; no two are about one descriptor.
EpollBatch ==
  /\ \A k \in 1 .. Len(batch) :
       batch[k].fd # Listener =>
         /\ batch[k].fd \in OpenFds /\ sock[batch[k].fd] = batch[k].of
         /\ batch[k].kind = "EPOLLIN" => HasInput(batch[k].fd)
  /\ \A k, l \in 1 .. Len(batch) : batch[k].fd = batch[l].fd => k = l

\* Where the descriptor of an event is meant, fd names no session's socket.
FdUnset == interest = {} \/ fd = -1 \/ (batch # << >> /\ Head(batch).fd = Listener)

EpollInv ==
  /\ SocketsInv(FewConns, MaxData)
  /\ EpollTyped
  /\ exit = "no" => interest = OpenFds /\ EpollBatch /\ FdUnset

LEMMA EpollInit ==
  ASSUME Epoll!Init
  PROVE  EpollInv
<1>1. sock = [f \in Fds |-> NoConn] /\ nofile \in Fds
  BY DEF Epoll!Init, Epoll!SocketsInit, Epoll!Fds, Fds
<1>2. SocketsInv(FewConns, MaxData)
  <2>1. /\ conn = [c \in FewConns |-> "none"] /\ data = [c \in FewConns |-> 0]
        /\ end = [c \in FewConns |-> "open"]
    BY DEF Epoll!Init, Epoll!SocketsInit
  <2> QED
    BY <1>1, <2>1, SocketsStart, Few
<1>3. /\ urgent = [c \in FewConns |-> "none"] /\ interest = {} /\ batch = << >>
      /\ fd \in Fds \cup {Listener, -1} /\ exit = "no"
  BY EpollNames DEF Epoll!Init
<1>4. EpollTyped
  BY <1>3, EmptySeq DEF EpollTyped
<1>5. OpenFds = {}
  BY <1>1 DEF OpenFds
<1>6. Len(batch) = 0
  BY <1>3, EmptySeq
<1>7. EpollBatch
  BY <1>6 DEF EpollBatch
<1> QED
  BY <1>2, <1>3, <1>4, <1>5, <1>7 DEF EpollInv, FdUnset

\* The event being handled, and the others behind it.
LEMMA EpollHead ==
  ASSUME EpollInv, batch # << >>, exit = "no"
  PROVE  /\ Head(batch) \in EpEvent /\ Tail(batch) \in Seq(EpEvent)
         /\ Len(Tail(batch)) \in Nat /\ Len(batch) \in Nat \ {0}
         /\ \A k \in 1 .. Len(Tail(batch)) :
              /\ Tail(batch)[k] = batch[k + 1] /\ k + 1 \in 1 .. Len(batch)
              /\ batch[k + 1] \in EpEvent
              /\ batch[k + 1].fd # Head(batch).fd
         /\ Head(batch).fd # Listener =>
              /\ Head(batch).fd \in OpenFds /\ Head(batch).fd \in Fds
              /\ sock[Head(batch).fd] = Head(batch).of
              /\ Head(batch).kind = "EPOLLIN" => HasInput(Head(batch).fd)
<1> PICK n : n = Len(batch)
  OBVIOUS
<1>1. /\ batch \in Seq(EpEvent) /\ EpollBatch
      /\ n \in Nat \ {0} /\ \A k \in 1 .. n : batch[k] \in EpEvent
  <2>1. batch \in Seq(EpEvent) /\ EpollBatch
    BY DEF EpollInv, EpollTyped
  <2> QED
    BY <2>1, LenProperties, ElementOfSeq, EmptySeq
<1>2. /\ Head(batch) \in EpEvent /\ Tail(batch) \in Seq(EpEvent)
      /\ Head(batch) = batch[1] /\ Len(Tail(batch)) = n - 1
      /\ \A k \in 1 .. n - 1 : Tail(batch)[k] = batch[k + 1]
  BY <1>1, HeadTailProperties
<1>3. 1 \in 1 .. n /\ \A k \in 1 .. n - 1 : k + 1 \in 1 .. n /\ k + 1 # 1
  BY <1>1
<1>4. \A k \in 1 .. n - 1 : batch[k + 1] \in EpEvent /\ batch[k + 1].fd # Head(batch).fd
  BY <1>1, <1>2, <1>3 DEF EpollBatch
<1>5. Head(batch).fd # Listener =>
        /\ Head(batch).fd \in OpenFds
        /\ sock[Head(batch).fd] = Head(batch).of
        /\ Head(batch).kind = "EPOLLIN" => HasInput(Head(batch).fd)
  BY <1>1, <1>2, <1>3 DEF EpollBatch
<1> QED
  BY <1>1, <1>2, <1>3, <1>4, <1>5 DEF OpenFds

\* The event is dealt with; no socket but its own was touched.
LEMMA EpollRest ==
  ASSUME EpollInv, batch # << >>, exit = "no", batch' = Tail(batch),
         \A g \in Fds \ {Head(batch).fd} :
            sock[g] # NoConn => sock'[g] = sock[g] /\ (HasInput(g) => HasInput(g)')
  PROVE  EpollBatch' /\ batch' \in Seq(EpEvent)
<1> PICK n : n = Len(Tail(batch))
  OBVIOUS
<1> PICK b : b = batch'
  OBVIOUS
<1>1. n \in Nat /\ b \in Seq(EpEvent)
  BY EpollHead
<1>2. \A k \in 1 .. n :
        /\ b[k] = batch[k + 1] /\ k + 1 \in 1 .. Len(batch)
        /\ batch[k + 1].fd # Head(batch).fd
  BY EpollHead
<1>3. EpollBatch
  BY DEF EpollInv
<1>4. ASSUME NEW k \in 1 .. n, b[k].fd # Listener
      PROVE  /\ b[k].fd \in OpenFds' /\ sock'[b[k].fd] = b[k].of
             /\ b[k].kind = "EPOLLIN" => HasInput(b[k].fd)'
  <2>1. PICK g : g = b[k].fd
    OBVIOUS
  <2>2. /\ g \in OpenFds /\ sock[g] = b[k].of
        /\ b[k].kind = "EPOLLIN" => HasInput(g)
    BY <1>2, <1>3, <1>4, <2>1 DEF EpollBatch
  <2>3. g \in Fds \ {Head(batch).fd} /\ sock[g] # NoConn
    BY <1>2, <2>1, <2>2 DEF OpenFds
  <2>4. sock'[g] = sock[g] /\ (HasInput(g) => HasInput(g)')
    BY <2>3
  <2> QED
    BY <2>1, <2>2, <2>3, <2>4 DEF OpenFds, HasInput
<1>5. ASSUME NEW k \in 1 .. n, NEW l \in 1 .. n, b[k].fd = b[l].fd
      PROVE  k = l
  <2>1. k + 1 = l + 1
    BY <1>2, <1>3, <1>5 DEF EpollBatch
  <2> QED
    BY <2>1
<1>6. EpollBatch'
  <2>1. \A k \in 1 .. n :
          b[k].fd # Listener =>
            /\ b[k].fd \in OpenFds' /\ sock'[b[k].fd] = b[k].of
            /\ b[k].kind = "EPOLLIN" =>
                 /\ sock'[b[k].fd] # NoConn
                 /\ data'[sock'[b[k].fd]] > 0 \/ end'[sock'[b[k].fd]] # "open"
    BY <1>4 DEF HasInput
  <2> QED
    BY <1>5, <2>1 DEF EpollBatch, HasInput
<1> QED
  BY <1>1, <1>6

\* Steps after which a batch is what it was.
LEMMA EpollFrame ==
  ASSUME EpollInv, SocketsInv(FewConns, MaxData)', EpollTyped',
         UNCHANGED <<batch, fd, exit>>,
         \A g \in Fds : sock[g] # NoConn => sock'[g] = sock[g] /\ (HasInput(g) => HasInput(g)'),
         interest' = interest, sock' = sock
  PROVE  EpollInv'
<1>1. OpenFds' = OpenFds
  BY DEF OpenFds
<1>2. ASSUME exit = "no"
      PROVE  EpollBatch'
  <2>1. EpollBatch
    BY <1>2 DEF EpollInv
  <2>2. ASSUME NEW k \in 1 .. Len(batch), batch[k].fd # Listener
        PROVE  /\ batch[k].fd \in OpenFds /\ sock[batch[k].fd] = batch[k].of
               /\ batch[k].kind = "EPOLLIN" => HasInput(batch[k].fd)'
    <3>1. PICK g : g = batch[k].fd
      OBVIOUS
    <3>2. /\ g \in OpenFds /\ sock[g] = batch[k].of
          /\ batch[k].kind = "EPOLLIN" => HasInput(g)
      BY <2>1, <2>2, <3>1 DEF EpollBatch
    <3>3. g \in Fds /\ sock[g] # NoConn
      BY <3>2 DEF OpenFds
    <3>4. HasInput(g) => HasInput(g)'
      BY <3>3
    <3> QED
      BY <3>1, <3>2, <3>4 DEF HasInput
  <2> QED
    BY <1>1, <2>1, <2>2 DEF EpollBatch, HasInput
<1> QED
  BY <1>1, <1>2 DEF EpollInv, FdUnset

LEMMA EpollWait ==
  ASSUME EpollInv, Epoll!epoll_wait
  PROVE  EpollInv'
<1>1. /\ exit = "no" /\ batch = << >> /\ exit' \in {"no", "overrun"}
      /\ UNCHANGED <<conn, data, end, sock, nofile, urgent, interest, fd>>
  BY DEF Epoll!epoll_wait, Epoll!sockets, Epoll!AfterWait
<1>2. interest = OpenFds /\ interest \subseteq Fds
  BY <1>1 DEF EpollInv, EpollTyped
<1> PICK n : n = Epoll!Cardinality(Epoll!Ready)
  OBVIOUS
<1>3. Epoll!Ready \subseteq interest \cup {Listener}
  BY EpollNames DEF Epoll!Ready
<1>4. n \in Nat
  <2>1. Epoll!Ready \subseteq 0 .. NFds /\ NFds \in Nat
    BY <1>2, <1>3, SocketsAssumption DEF Fds, Listener
  <2>2. IsFiniteSet(0 .. NFds)
    BY <2>1, FS_Interval
  <2>3. IsFiniteSet(Epoll!Ready)
    BY <2>1, <2>2, FS_Subset
  <2> QED
    BY <2>3, FS_CardinalityType, SameCounts
<1>5. PICK order \in [1 .. n -> Epoll!Ready] :
        /\ Epoll!IsInjective(order)
        /\ batch' = [k \in DOMAIN order |->
             [fd |-> order[k], kind |-> Epoll!Kind(order[k]),
              of |-> IF order[k] = Epoll!Listener THEN NoConn ELSE sock[order[k]]]]
  BY DEF Epoll!epoll_wait
<1>6. \A k, l \in 1 .. n : order[k] = order[l] => k = l
  BY <1>5 DEF Epoll!IsInjective
<1> PICK b : b = batch'
  OBVIOUS
<1>7. \A k \in 1 .. n :
        /\ b[k] \in EpEvent /\ b[k].fd = order[k]
        /\ b[k].fd # Listener =>
             /\ b[k].fd \in OpenFds /\ sock[b[k].fd] = b[k].of
             /\ b[k].kind = "EPOLLIN" => HasInput(b[k].fd)
  <2> SUFFICES ASSUME NEW k \in 1 .. n
               PROVE  /\ b[k] \in EpEvent /\ b[k].fd = order[k]
                      /\ b[k].fd # Listener =>
                           /\ b[k].fd \in OpenFds /\ sock[b[k].fd] = b[k].of
                           /\ b[k].kind = "EPOLLIN" => HasInput(b[k].fd)
    OBVIOUS
  <2> PICK g : g = order[k]
    OBVIOUS
  <2>1. g \in Epoll!Ready /\ (g = Listener \/ g \in OpenFds)
    BY <1>2, <1>3, <1>5
  <2>2. b[k] = [fd |-> g, kind |-> Epoll!Kind(g),
                of |-> IF g = Listener THEN NoConn ELSE sock[g]]
    BY <1>5, EpollNames
  <2>3. Epoll!Kind(g) \in {"EPOLLIN", "EPOLLPRI"}
    BY DEF Epoll!Kind
  <2>4. g # Listener => g \in Fds /\ sock[g] \in FewConns
    BY <2>1 DEF OpenFds, EpollInv, SocketsInv
  <2>5. g # Listener /\ Epoll!Kind(g) = "EPOLLIN" => HasInput(g)
    BY <2>4, EpollNames DEF Epoll!Kind
  <2>6. b[k] \in EpEvent
    BY <2>1, <2>2, <2>3, <2>4 DEF EpEvent
  <2> QED
    BY <2>1, <2>2, <2>5, <2>6
<1>8. b \in Seq(EpEvent) /\ Len(b) = n
  <2>1. b \in [1 .. n -> EpEvent]
    <3>1. DOMAIN order = 1 .. n
      BY <1>5
    <3>2. b = [k \in 1 .. n |-> b[k]]
      BY <1>5, <3>1
    <3> QED
      BY <1>7, <3>2
  <2>2. b \in Seq(EpEvent)
    BY <1>4, <2>1, SeqDef
  <2> QED
    BY <1>4, <2>1, <2>2, LenProperties
<1>9. EpollTyped'
  BY <1>1, <1>8 DEF EpollInv, EpollTyped
<1>10. OpenFds' = OpenFds
  BY <1>1 DEF OpenFds
<1>11. EpollBatch'
  <2>1. \A k, l \in 1 .. n : b[k].fd = b[l].fd => k = l
    BY <1>6, <1>7
  <2>2. \A k \in 1 .. n :
          b[k].fd # Listener =>
            /\ b[k].fd \in OpenFds' /\ sock'[b[k].fd] = b[k].of
            /\ b[k].kind = "EPOLLIN" =>
                 /\ sock'[b[k].fd] # NoConn
                 /\ data'[sock'[b[k].fd]] > 0 \/ end'[sock'[b[k].fd]] # "open"
    BY <1>1, <1>7, <1>10 DEF HasInput
  <2> QED
    BY <1>8, <2>1, <2>2 DEF EpollBatch, HasInput
<1>12. FdUnset'
  BY <1>1 DEF EpollInv, FdUnset
<1>13. SocketsInv(FewConns, MaxData)'
  BY <1>1 DEF EpollInv, SocketsInv
<1> QED
  BY <1>1, <1>2, <1>9, <1>10, <1>11, <1>12, <1>13 DEF EpollInv

LEMMA EpollAcceptAdd ==
  ASSUME EpollInv, Epoll!accept_add \/ Epoll!accept_add_fails
  PROVE  EpollInv'
<1>1. PICK c \in FewConns : Epoll!Accept(c)
  BY DEF Epoll!accept_add, Epoll!accept_add_fails
<1>2. /\ exit = "no" /\ batch # << >> /\ Head(batch).fd = Listener
      /\ fd' = AcceptFd /\ UNCHANGED <<urgent, batch>>
      /\ \/ interest' = interest \cup {AcceptFd} /\ exit' = exit
         \/ interest' = interest /\ exit' = "add_ev"
  BY EpollNames
  DEF Epoll!accept_add, Epoll!accept_add_fails, Epoll!Accepting, Epoll!Event,
      Epoll!add_ev, Epoll!Remaining
<1>3. AcceptFd \in Fds /\ Takes(c, AcceptFd)
  BY <1>1, EpollAccepts DEF EpollInv
<1>4. /\ SocketsInv(FewConns, MaxData)'
      /\ \A g \in Fds : sock[g] # NoConn => sock'[g] = sock[g]
      /\ OpenFds' = OpenFds \cup {AcceptFd}
      /\ \A g \in Fds : HasInput(g) => HasInput(g)'
  BY <1>3, TakesKeeps, Few DEF EpollInv
<1>5. EpollTyped'
  BY <1>2, <1>3 DEF EpollInv, EpollTyped
<1>6. EpollBatch'
  <2>1. ASSUME NEW k \in 1 .. Len(batch), batch[k].fd # Listener
        PROVE  /\ batch[k].fd \in OpenFds' /\ sock'[batch[k].fd] = batch[k].of
               /\ batch[k].kind = "EPOLLIN" =>
                    /\ sock'[batch[k].fd] # NoConn
                    /\ data'[sock'[batch[k].fd]] > 0 \/ end'[sock'[batch[k].fd]] # "open"
    <3>1. PICK g : g = batch[k].fd
      OBVIOUS
    <3>2. /\ g \in OpenFds /\ sock[g] = batch[k].of
          /\ batch[k].kind = "EPOLLIN" => HasInput(g)
      BY <1>2, <2>1, <3>1 DEF EpollInv, EpollBatch
    <3>3. g \in Fds /\ sock[g] # NoConn
      BY <3>2 DEF OpenFds
    <3>4. sock'[g] = sock[g] /\ (HasInput(g) => HasInput(g)')
      BY <1>4, <3>3
    <3> QED
      BY <1>4, <3>1, <3>2, <3>4 DEF HasInput
  <2>2. \A k, l \in 1 .. Len(batch) : batch[k].fd = batch[l].fd => k = l
    BY <1>2 DEF EpollInv, EpollBatch
  <2> QED
    BY <1>2, <2>1, <2>2 DEF EpollBatch, HasInput
<1>7. FdUnset'
  BY <1>2 DEF FdUnset
<1> QED
  BY <1>2, <1>4, <1>5, <1>6, <1>7 DEF EpollInv

LEMMA EpollAcceptStops ==
  ASSUME EpollInv, Epoll!accept_stops
  PROVE  EpollInv'
<1>1. /\ exit = "no" /\ batch # << >> /\ fd' = -1 /\ batch' = Tail(batch)
      /\ UNCHANGED <<conn, data, end, sock, nofile, urgent, interest, exit>>
  BY DEF Epoll!accept_stops, Epoll!Accepting, Epoll!sockets
<1>2. \A g \in Fds : sock'[g] = sock[g] /\ (HasInput(g) => HasInput(g)')
  BY <1>1 DEF HasInput
<1>3. EpollBatch' /\ batch' \in Seq(EpEvent)
  BY <1>1, <1>2, EpollRest
<1>4. SocketsInv(FewConns, MaxData)' /\ OpenFds' = OpenFds
  BY <1>1 DEF EpollInv, SocketsInv, OpenFds
<1> QED
  BY <1>1, <1>3, <1>4 DEF EpollInv, EpollTyped, FdUnset

\* A session's event.
LEMMA EpollHandles ==
  ASSUME EpollInv, NEW kind, Epoll!Handling(kind)
  PROVE  /\ exit = "no" /\ batch # << >> /\ Head(batch).fd \in OpenFds
         /\ Head(batch).fd \in Fds /\ Head(batch).fd \in interest
         /\ Head(batch).kind = kind /\ Head(batch).fd # Listener
         /\ interest \subseteq Fds /\ fd = -1
         /\ sock[Head(batch).fd] \in FewConns /\ sock[Head(batch).fd] # NoConn
         /\ sock[Head(batch).fd] = Head(batch).of
         /\ kind = "EPOLLIN" => HasInput(Head(batch).fd)
<1>1. /\ exit = "no" /\ batch # << >> /\ Head(batch).fd # Listener
      /\ Head(batch).kind = kind
  BY EpollNames DEF Epoll!Handling, Epoll!Event
<1>2. /\ Head(batch).fd \in OpenFds /\ Head(batch).fd \in Fds
      /\ sock[Head(batch).fd] = Head(batch).of
      /\ kind = "EPOLLIN" => HasInput(Head(batch).fd)
  BY <1>1, EpollHead
<1>3. interest = OpenFds /\ FdUnset /\ interest \subseteq Fds
  BY <1>1 DEF EpollInv, EpollTyped
<1>4. sock[Head(batch).fd] \in FewConns /\ sock[Head(batch).fd] # NoConn
  BY <1>2 DEF OpenFds, EpollInv, SocketsInv
<1> QED
  BY <1>1, <1>2, <1>3, <1>4 DEF FdUnset

LEMMA EpollRecvData ==
  ASSUME EpollInv, Epoll!recv_data
  PROVE  EpollInv'
<1> PICK f : f = Head(batch).fd
  OBVIOUS
<1>1. /\ Epoll!Handling("EPOLLIN") /\ Epoll!RecvData(f) /\ batch' = Tail(batch)
      /\ UNCHANGED <<urgent, interest, fd, exit>>
  BY DEF Epoll!recv_data, Epoll!Event
<1>2. /\ exit = "no" /\ batch # << >> /\ f \in Fds /\ fd = -1
      /\ sock[f] \in FewConns /\ sock[f] # NoConn
  BY <1>1, EpollHandles
<1>3. Reads(f)
  BY <1>1, <1>2, EpollReads DEF EpollInv
<1>4. /\ SocketsInv(FewConns, MaxData)' /\ sock' = sock
      /\ \A g \in Fds \ {f} : HasInput(g) => HasInput(g)'
  BY <1>2, <1>3, ReadsKeeps, Few DEF EpollInv
<1>5. EpollBatch' /\ batch' \in Seq(EpEvent)
  BY <1>1, <1>2, <1>4, EpollRest
<1> QED
  BY <1>1, <1>2, <1>4, <1>5 DEF EpollInv, EpollTyped, FdUnset, OpenFds

\* The session of the event is closed.
LEMMA EpollCloses ==
  ASSUME EpollInv, NEW kind, Epoll!Handling(kind), Epoll!del_ev(Head(batch).fd),
         batch' = Tail(batch), UNCHANGED <<urgent, fd>>
  PROVE  EpollInv' /\ Closes(Head(batch).fd)
<1> PICK f : f = Head(batch).fd
  OBVIOUS
<1>1. /\ exit = "no" /\ batch # << >> /\ f \in Fds /\ fd = -1 /\ f \in interest
      /\ sock[f] # NoConn
  BY EpollHandles
<1>2. Closes(f) /\ interest' = interest \ {f} /\ exit' = exit
  BY <1>1 DEF Epoll!del_ev, Epoll!Close, Closes
<1>3. /\ SocketsInv(FewConns, MaxData)' /\ OpenFds' = OpenFds \ {f}
      /\ \A g \in Fds \ {f} : sock'[g] = sock[g] /\ (HasInput(g) => HasInput(g)')
  BY <1>1, <1>2, ClosesKeeps, Few DEF EpollInv
<1>4. EpollBatch' /\ batch' \in Seq(EpEvent)
  BY <1>1, <1>3, EpollRest
<1> QED
  BY <1>1, <1>2, <1>3, <1>4 DEF EpollInv, EpollTyped, FdUnset

LEMMA EpollEof ==
  ASSUME EpollInv, Epoll!recv_eof \/ Epoll!recv_oob_fails
  PROVE  EpollInv'
BY EpollCloses DEF Epoll!recv_eof, Epoll!recv_oob_fails, Epoll!Event

\* del_ev(fd): fd is -1, which is in no epoll set, and the process exits.
LEMMA EpollRecvFails ==
  ASSUME EpollInv, Epoll!recv_fails
  PROVE  EpollInv' /\ UNCHANGED <<conn, data, end, sock, nofile>>
<1>1. /\ Epoll!Handling("EPOLLIN") /\ Epoll!del_ev(fd) /\ batch' = Tail(batch)
      /\ UNCHANGED <<urgent, fd>>
  BY DEF Epoll!recv_fails
<1>2. /\ exit = "no" /\ batch # << >> /\ fd = -1 /\ interest \subseteq Fds
  BY <1>1, EpollHandles
<1>3. -1 \notin Fds
  BY SocketsAssumption DEF Fds
<1>4. exit' = "del_ev" /\ UNCHANGED <<conn, data, end, sock, nofile, interest>>
  BY <1>1, <1>2, <1>3 DEF Epoll!del_ev, Epoll!sockets
<1>5. batch' \in Seq(EpEvent)
  BY <1>1, <1>2, EpollHead
<1> QED
  BY <1>1, <1>4, <1>5 DEF EpollInv, EpollTyped, SocketsInv

LEMMA EpollOob ==
  ASSUME EpollInv, Epoll!recv_oob
  PROVE  EpollInv'
<1>1. /\ Epoll!Handling("EPOLLPRI") /\ batch' = Tail(batch)
      /\ UNCHANGED <<conn, data, end, sock, nofile, interest, fd, exit>>
      /\ urgent' = [urgent EXCEPT ![sock[Head(batch).fd]] = "none"]
  BY DEF Epoll!recv_oob, Epoll!sockets, Epoll!Event
<1>2. exit = "no" /\ batch # << >> /\ fd = -1
  BY <1>1, EpollHandles
<1>3. \A g \in Fds : sock'[g] = sock[g] /\ (HasInput(g) => HasInput(g)')
  BY <1>1 DEF HasInput
<1>4. EpollBatch' /\ batch' \in Seq(EpEvent)
  BY <1>1, <1>2, <1>3, EpollRest
<1> QED
  BY <1>1, <1>2, <1>4 DEF EpollInv, EpollTyped, SocketsInv, FdUnset, OpenFds

LEMMA EpollClientsStep ==
  ASSUME EpollInv, Epoll!Clients
  PROVE  EpollInv'
<1>1. CASE \E c \in FewConns : Epoll!UrgentAnnounced(c) \/ Epoll!UrgentArrives(c)
  <2>1. /\ UNCHANGED <<conn, data, end, sock, nofile, interest, batch, fd, exit>>
        /\ \E c \in FewConns, u \in {"notyet", "valid"} : urgent' = [urgent EXCEPT ![c] = u]
    BY <1>1 DEF Epoll!UrgentAnnounced, Epoll!UrgentArrives, Epoll!sockets, Epoll!server
  <2>2. SocketsInv(FewConns, MaxData)'
    BY <2>1 DEF EpollInv, SocketsInv
  <2>3. EpollTyped'
    BY <2>1 DEF EpollInv, EpollTyped
  <2>4. \A g \in Fds : sock'[g] = sock[g] /\ (HasInput(g) => HasInput(g)')
    BY <2>1 DEF HasInput
  <2> QED
    BY <2>1, <2>2, <2>3, <2>4, EpollFrame
<1>2. CASE (\E c \in FewConns : Epoll!Client(c)) /\ UNCHANGED <<urgent, Epoll!server>>
  <2>1. PICK c \in FewConns : Epoll!Client(c)
    BY <1>2
  <2>2. UNCHANGED <<urgent, interest, batch, fd, exit>>
    BY <1>2 DEF Epoll!server
  <2>3. /\ SocketsInv(FewConns, MaxData)' /\ sock' = sock
        /\ \A g \in Fds : HasInput(g) => HasInput(g)'
    BY <2>1, EpollClients, ClientKeeps, Few DEF EpollInv
  <2>4. EpollTyped'
    BY <2>2 DEF EpollInv, EpollTyped
  <2> QED
    BY <2>2, <2>3, <2>4, EpollFrame
<1> QED
  BY <1>1, <1>2 DEF Epoll!Clients

LEMMA EpollStep ==
  ASSUME EpollInv, Epoll!Server \/ Epoll!Clients
  PROVE  EpollInv'
BY EpollWait, EpollAcceptAdd, EpollAcceptStops, EpollRecvData, EpollEof,
   EpollRecvFails, EpollOob, EpollClientsStep
DEF Epoll!Server

LEMMA EpollImplies ==
  ASSUME EpollInv
  PROVE  Epoll!EventsCurrent
<1>1. Epoll!TypeOK
  <2>1. Epoll!SocketsTypeOK
    BY EpollNames DEF EpollInv, SocketsInv, Epoll!SocketsTypeOK
  <2> QED
    BY <2>1, EpollNames DEF EpollInv, EpollTyped, EpEvent, Epoll!TypeOK, Epoll!Kinds
<1>2. ASSUME exit = "no", NEW k \in DOMAIN batch, batch[k].fd # Epoll!Listener
      PROVE  /\ sock[batch[k].fd] = batch[k].of
             /\ batch[k].kind = "EPOLLIN" => Epoll!Readable(batch[k].fd)
  <2>1. k \in 1 .. Len(batch) /\ batch[k].fd # Listener
    BY <1>2, EpollNames, LenProperties DEF EpollInv, EpollTyped
  <2>2. /\ batch[k].fd \in OpenFds /\ sock[batch[k].fd] = batch[k].of
        /\ batch[k].kind = "EPOLLIN" => HasInput(batch[k].fd)
    BY <1>2, <2>1 DEF EpollInv, EpollBatch
  <2> QED
    BY <2>2, EpollNames DEF OpenFds
<1> QED
  BY <1>1, <1>2, EpollNames DEF EpollInv, Epoll!EventsCurrent


-----------------------------------------------------------------------------
(* io_rts.c.                                                               *)

RtsSignal == [fd : Fds, band : {"POLLIN", "POLLERR"}]

\* The places of q that announce input for f.
InputsFor(q, f) == {k \in 1 .. Len(q) : q[k].fd = f /\ q[k].band = "POLLIN"}

\* The connections in the listen backlog.
Backlog == {c \in FewConns : conn[c] = "queued"}

LEMMA InputsFinite ==
  ASSUME NEW q \in Seq(RtsSignal), NEW f
  PROVE  IsFiniteSet(InputsFor(q, f)) /\ Cardinality(InputsFor(q, f)) \in Nat
<1>1. IsFiniteSet(1 .. Len(q))
  BY LenProperties, FS_Interval
<1>2. InputsFor(q, f) \subseteq 1 .. Len(q)
  BY DEF InputsFor
<1>3. IsFiniteSet(InputsFor(q, f))
  BY <1>1, <1>2, FS_Subset
<1> QED
  BY <1>3, FS_CardinalityType

LEMMA RtsNames ==
  /\ Rts!Fds = Fds /\ Rts!OpenFds = OpenFds /\ Rts!FreeFds = FreeFds
  /\ Rts!AcceptFd = AcceptFd /\ Rts!Listener = Listener /\ Listener \notin Fds
  /\ Rts!Signal = RtsSignal /\ Rts!Queued = Backlog
  /\ -1 \notin Fds /\ -1 # Listener
  /\ \A f \in Fds : Rts!Readable(f) <=> HasInput(f)
<1>1. Rts!Fds = Fds /\ Rts!OpenFds = OpenFds /\ Rts!FreeFds = FreeFds
  BY DEF Rts!Fds, Fds, Rts!OpenFds, OpenFds, Rts!FreeFds, FreeFds
<1>2. Rts!AcceptFd = AcceptFd
  BY <1>1 DEF Rts!AcceptFd, AcceptFd, Rts!Min, Min
<1>3. Listener \notin Fds /\ -1 \notin Fds /\ -1 # Listener
  BY SocketsAssumption DEF Fds, Listener
<1>4. Rts!Signal = RtsSignal /\ Rts!Queued = Backlog
  BY <1>1 DEF Rts!Signal, RtsSignal, Rts!Queued, Backlog
<1> QED
  BY <1>1, <1>2, <1>3, <1>4 DEF Rts!Listener, Listener, Rts!Readable, HasInput

\* One more signal, one more place if it announces input for f.
LEMMA AppendCounts ==
  ASSUME NEW q \in Seq(RtsSignal), NEW s \in RtsSignal, NEW f
  PROVE  Cardinality(InputsFor(Append(q, s), f)) =
           Cardinality(InputsFor(q, f))
             + (IF s.fd = f /\ s.band = "POLLIN" THEN 1 ELSE 0)
<1> PICK n : n = Len(q)
  OBVIOUS
<1>1. n \in Nat /\ Len(Append(q, s)) = n + 1
      /\ Append(q, s)[n + 1] = s /\ \A k \in 1 .. n : Append(q, s)[k] = q[k]
  BY LenProperties, AppendProperties
<1>2. 1 .. n + 1 = (1 .. n) \cup {n + 1} /\ n + 1 \notin 1 .. n
  BY <1>1
<1>3. n + 1 \notin InputsFor(q, f)
  BY <1>2 DEF InputsFor
<1>4. CASE s.fd = f /\ s.band = "POLLIN"
  <2>1. InputsFor(Append(q, s), f) = InputsFor(q, f) \cup {n + 1}
    BY <1>1, <1>2, <1>4 DEF InputsFor
  <2> QED
    BY <1>3, <1>4, <2>1, InputsFinite, FS_AddElement
<1>5. CASE ~(s.fd = f /\ s.band = "POLLIN")
  <2>1. InputsFor(Append(q, s), f) = InputsFor(q, f)
    BY <1>1, <1>2, <1>5 DEF InputsFor
  <2> QED
    BY <1>5, <2>1, InputsFinite
<1> QED
  BY <1>4, <1>5

\* One signal less, one place less if it announced input for f.
LEMMA TailCounts ==
  ASSUME NEW q \in Seq(RtsSignal), q # << >>, NEW f
  PROVE  Cardinality(InputsFor(Tail(q), f)) =
           Cardinality(InputsFor(q, f))
             - (IF Head(q).fd = f /\ Head(q).band = "POLLIN" THEN 1 ELSE 0)
<1> PICK n : n = Len(q)
  OBVIOUS
<1>1. n \in Nat \ {0}
  BY LenProperties, EmptySeq
<1>2. Len(Tail(q)) = n - 1 /\ Head(q) = q[1] /\ \A k \in 1 .. n - 1 : Tail(q)[k] = q[k + 1]
  BY <1>1, HeadTailProperties
<1> DEFINE Old == InputsFor(q, f) \ {1}
           New == InputsFor(Tail(q), f)
           shift == [k \in New |-> k + 1]
<1>3. \A k \in New : k \in 1 .. n - 1 /\ k + 1 \in Old
  <2>1. \A k \in 1 .. n - 1 : k + 1 \in 1 .. n /\ k + 1 # 1
    BY <1>1
  <2> QED
    BY <1>2, <2>1 DEF InputsFor
<1>4. \A l \in Old : l \in 2 .. n /\ l - 1 \in New /\ l = (l - 1) + 1
  <2>1. \A l \in (1 .. n) \ {1} : l \in 2 .. n /\ l - 1 \in 1 .. n - 1 /\ l = (l - 1) + 1
    BY <1>1
  <2> QED
    BY <1>2, <2>1 DEF InputsFor
<1>5. shift \in Bijection(New, Old)
  <2> HIDE DEF New, Old
  <2>1. shift \in [New -> Old]
    BY <1>3
  <2>2. \A k, l \in New : shift[k] = shift[l] => k = l
    BY <1>3
  <2>3. \A l \in Old : \E k \in New : shift[k] = l
    BY <1>4
  <2> QED
    BY <2>1, <2>2, <2>3 DEF Bijection, Injection, Surjection, IsInjective
<1>6. Tail(q) \in Seq(RtsSignal)
  BY HeadTailProperties
<1>7. Cardinality(Old) = Cardinality(New)
  <2>1. IsFiniteSet(New)
    BY <1>6, InputsFinite
  <2> HIDE DEF New, Old, shift
  <2>2. ExistsBijection(New, Old)
    BY <1>5 DEF ExistsBijection
  <2> QED
    BY <2>1, <2>2, FS_Bijection
<1>8. 1 \in InputsFor(q, f) <=> Head(q).fd = f /\ Head(q).band = "POLLIN"
  BY <1>1, <1>2 DEF InputsFor
<1>9. Cardinality(Old) =
        IF 1 \in InputsFor(q, f) THEN Cardinality(InputsFor(q, f)) - 1
                                 ELSE Cardinality(InputsFor(q, f))
  BY InputsFinite, FS_RemoveElement
<1>10. Cardinality(InputsFor(q, f)) \in Nat
  BY InputsFinite
<1> HIDE DEF New, Old
<1>11. Cardinality(New) =
         Cardinality(InputsFor(q, f))
           - (IF Head(q).fd = f /\ Head(q).band = "POLLIN" THEN 1 ELSE 0)
  BY <1>7, <1>8, <1>9, <1>10
<1> QED
  BY <1>11 DEF New

RtsTyped ==
  /\ listenq \in Nat /\ ioq \in Seq(RtsSignal)
  /\ listenq + Len(ioq) <= SigMax
  /\ armed \subseteq Fds \cup {Listener}
  /\ arming \in Fds \cup {Listener, -1}
  /\ alive \in BOOLEAN
  /\ missed \subseteq FewConns
  /\ lag \in 0 .. Cardinality(FewConns)

\* The socket add_rts_socket works on is open and raises no signals yet.
RtsArmed ==
  /\ armed \subseteq OpenFds \cup {Listener}
  /\ arming \in Fds => arming \in OpenFds \ armed

ArmedFor(c) == \E f \in armed \ {Listener} : sock[f] = c

\* A reset is always missed, and so is all that comes to a socket that is not
\* prepared.
RtsMissed ==
  /\ \A c \in FewConns : end[c] = "rst" => c \in missed
  /\ \A c \in FewConns :
       c \notin missed /\ ~ArmedFor(c) /\ conn[c] # "closed" =>
         data[c] = 0 /\ end[c] = "open"

\* recv() calls that may be needed to read all of c.
ToRead(c) == data[c] + (IF end[c] = "open" THEN 0 ELSE 1)

RtsCover ==
  \A f \in OpenFds :
    sock[f] \notin missed => ToRead(sock[f]) <= Cardinality(InputsFor(ioq, f))

RtsBacklog == Cardinality(Backlog) = listenq + lag

RtsInv ==
  /\ SocketsInv(FewConns, RtsData)
  /\ RtsTyped
  /\ RtsArmed
  /\ RtsMissed
  /\ alive = TRUE => RtsCover /\ RtsBacklog

LEMMA BacklogFinite ==
  /\ IsFiniteSet(FewConns) /\ Cardinality(FewConns) \in Nat
  /\ IsFiniteSet(Backlog) /\ Cardinality(Backlog) \in Nat
  /\ Cardinality(Backlog) <= Cardinality(FewConns)
<1>1. IsFiniteSet(FewConns) /\ Backlog \subseteq FewConns
  BY Few DEF Backlog
<1> QED
  BY <1>1, FS_Subset, FS_CardinalityType

LEMMA RtsInit ==
  ASSUME Rts!Init
  PROVE  RtsInv
<1>1. /\ sock = [f \in Fds |-> NoConn] /\ nofile \in Fds
      /\ conn = [c \in FewConns |-> "none"] /\ data = [c \in FewConns |-> 0]
      /\ end = [c \in FewConns |-> "open"]
      /\ listenq = 0 /\ ioq = << >> /\ armed = {} /\ arming = Listener
      /\ alive = TRUE /\ missed = {} /\ lag = 0
  BY RtsNames DEF Rts!Init, Rts!SocketsInit
<1>2. SocketsInv(FewConns, RtsData)
  BY <1>1, SocketsStart, Few
<1>3. RtsTyped
  <2>1. ioq \in Seq(RtsSignal) /\ Len(ioq) = 0
    BY <1>1, EmptySeq
  <2> QED
    BY <1>1, <2>1, BacklogFinite, SocketsAssumption DEF RtsTyped
<1>4. RtsArmed
  BY <1>1, RtsNames DEF RtsArmed
<1>5. RtsMissed
  BY <1>1 DEF RtsMissed
<1>6. RtsCover
  BY <1>1 DEF RtsCover, OpenFds
<1>7. RtsBacklog
  <2>1. Backlog = {}
    BY <1>1 DEF Backlog
  <2> QED
    BY <1>1, <2>1, FS_EmptySet DEF RtsBacklog
<1> QED
  BY <1>2, <1>3, <1>4, <1>5, <1>6, <1>7 DEF RtsInv

LEMMA RtsClients ==
  ASSUME SocketsInv(FewConns, RtsData), NEW c \in FewConns
  PROVE  /\ Rts!Connect(c) => Connects(c)
         /\ Rts!Send(c) => Sends(c, RtsData) /\ data'[c] = data[c] + 1
<1>1. Rts!Connect(c) => Connects(c)
  BY DEF Rts!Connect, Connects
<1>2. ASSUME Rts!Send(c)
      PROVE  Sends(c, RtsData) /\ data'[c] = data[c] + 1
  <2>1. data[c] \in 0 .. RtsData /\ data[c] < RtsData /\ RtsData \in Nat
    BY <1>2, Few DEF Rts!Send, SocketsInv
  <2>2. PICK n : n = data[c] + 1
    OBVIOUS
  <2>3. n \in data[c] + 1 .. RtsData /\ data' = [data EXCEPT ![c] = n]
    BY <1>2, <2>1, <2>2 DEF Rts!Send
  <2>4. data'[c] = n
    BY <2>3 DEF SocketsInv
  <2> QED
    BY <1>2, <2>2, <2>3, <2>4 DEF Rts!Send, Sends
<1> QED
  BY <1>1, <1>2

LEMMA RtsAccepts ==
  ASSUME SocketsInv(FewConns, RtsData), NEW c \in FewConns, Rts!Accept(c)
  PROVE  AcceptFd \in Fds /\ Takes(c, AcceptFd)
<1>1. AcceptFd \in Fds /\ sock[AcceptFd] = NoConn
  BY RtsNames, LowestIsFree DEF Rts!Accept, SocketsInv
<1> QED
  BY <1>1, RtsNames DEF Rts!Accept, Backlog, Takes

\* A signal is queued, or the queue is full and the process dies.
LEMMA RtsRaise ==
  ASSUME RtsTyped, NEW f \in Fds, NEW band \in {"POLLIN", "POLLERR"},
         Rts!Raise(f, band), listenq' = listenq
  PROVE  /\ ioq' \in Seq(RtsSignal) /\ listenq' + Len(ioq') <= SigMax
         /\ alive' \in BOOLEAN
         /\ \/ alive' = FALSE
            \/ /\ alive' = alive
               /\ \A g : Cardinality(InputsFor(ioq, g)) <= Cardinality(InputsFor(ioq', g))
               /\ band = "POLLIN" =>
                    Cardinality(InputsFor(ioq', f)) = Cardinality(InputsFor(ioq, f)) + 1
<1> PICK s : s = [fd |-> f, band |-> band]
  OBVIOUS
<1>1. s \in RtsSignal /\ s.fd = f /\ s.band = band
  BY DEF RtsSignal
<1>2. ioq \in Seq(RtsSignal) /\ alive \in BOOLEAN
  BY DEF RtsTyped
<1>3. CASE Rts!QueueFull
  <2>1. alive' = FALSE /\ ioq' = ioq
    BY <1>3 DEF Rts!Raise
  <2> QED
    BY <2>1 DEF RtsTyped
<1>4. CASE ~Rts!QueueFull
  <2>1. ioq' = Append(ioq, s) /\ alive' = alive
    BY <1>4 DEF Rts!Raise
  <2>2. Append(ioq, s) \in Seq(RtsSignal) /\ Len(Append(ioq, s)) = Len(ioq) + 1
    BY <1>1, <1>2, AppendProperties
  <2>3. listenq + Len(ioq) + 1 <= SigMax
    BY <1>2, <1>4, SocketsAssumption, LenProperties DEF Rts!QueueFull, RtsTyped
  <2>4. listenq' + Len(ioq') <= SigMax
    BY <1>2, <2>1, <2>2, <2>3, LenProperties DEF RtsTyped
  <2>5. \A g : Cardinality(InputsFor(ioq, g)) \in Nat
    BY <1>2, InputsFinite
  <2>6. \A g : Cardinality(InputsFor(ioq', g)) =
          Cardinality(InputsFor(ioq, g)) + (IF f = g /\ band = "POLLIN" THEN 1 ELSE 0)
    BY <1>1, <1>2, <2>1, AppendCounts
  <2>7. \A g : Cardinality(InputsFor(ioq, g)) <= Cardinality(InputsFor(ioq', g))
    BY <2>5, <2>6
  <2>8. band = "POLLIN" =>
          Cardinality(InputsFor(ioq', f)) = Cardinality(InputsFor(ioq, f)) + 1
    BY <2>6
  <2> QED
    BY <1>2, <2>1, <2>2, <2>4, <2>7, <2>8
<1> QED
  BY <1>3, <1>4

\* What steps that leave the sockets and the signals alone preserve.
LEMMA RtsAdd ==
  ASSUME RtsInv, Rts!add_rts_socket
  PROVE  RtsInv'
<1>1. /\ UNCHANGED <<conn, data, end, sock, nofile, listenq, ioq, alive, missed, lag>>
      /\ arming # -1 /\ armed' = armed \cup {arming} /\ arming' = -1
  BY DEF Rts!add_rts_socket, Rts!sockets, Rts!signals
<1>2. SocketsInv(FewConns, RtsData)' /\ OpenFds' = OpenFds
  BY <1>1 DEF RtsInv, SocketsInv, OpenFds
<1>3. RtsTyped'
  BY <1>1 DEF RtsInv, RtsTyped
<1>4. RtsArmed'
  BY <1>1, <1>2, RtsNames DEF RtsInv, RtsTyped, RtsArmed
<1>5. RtsMissed'
  <2>1. \A c : ArmedFor(c) => ArmedFor(c)'
    BY <1>1 DEF ArmedFor
  <2> QED
    BY <1>1, <2>1 DEF RtsInv, RtsMissed
<1>6. alive' = TRUE => RtsCover' /\ RtsBacklog'
  <2>1. ASSUME alive' = TRUE
        PROVE  RtsCover /\ RtsBacklog
    BY <1>1, <2>1 DEF RtsInv
  <2>2. RtsCover => RtsCover'
    <3>1. \A f : InputsFor(ioq, f)' = InputsFor(ioq, f)
      BY <1>1 DEF InputsFor
    <3>2. \A c : ToRead(c)' = ToRead(c)
      BY <1>1 DEF ToRead
    <3> QED
      BY <1>1, <1>2 DEF RtsCover, InputsFor, ToRead
  <2>3. RtsBacklog => RtsBacklog'
    BY <1>1 DEF RtsBacklog, Backlog
  <2> QED
    BY <2>1, <2>2, <2>3
<1> QED
  BY <1>2, <1>3, <1>4, <1>5, <1>6 DEF RtsInv

\* A client's connection is announced, or comes before the listener is prepared.
LEMMA RtsConnecting ==
  ASSUME RtsInv, NEW c \in FewConns, Rts!Connecting(c)
  PROVE  RtsInv'
<1>1. Connects(c) /\ UNCHANGED <<ioq, missed, armed, arming>>
  BY RtsClients DEF RtsInv, Rts!Connecting, Rts!server
<1>2. /\ UNCHANGED <<data, end, sock, nofile>> /\ OpenFds' = OpenFds
      /\ SocketsInv(FewConns, RtsData)'
  BY <1>1, ClientKeeps, Few DEF RtsInv, Connects, OpenFds
<1>3. Backlog' = Backlog \cup {c} /\ c \notin Backlog
  BY <1>1 DEF Connects, Backlog, RtsInv, SocketsInv
<1>4. Cardinality(Backlog') = Cardinality(Backlog) + 1
      /\ Cardinality(Backlog') <= Cardinality(FewConns)
  <2>1. Backlog' \subseteq FewConns
    BY DEF Backlog
  <2> QED
    BY <1>3, <2>1, BacklogFinite, FS_AddElement, FS_Subset
<1>5. alive = TRUE /\ RtsCover /\ RtsBacklog
  BY DEF RtsInv, RtsTyped, Rts!Connecting
<1>6. RtsArmed'
  BY <1>1, <1>2 DEF RtsInv, RtsArmed
<1>7. RtsMissed'
  <2>1. \A d \in FewConns : ArmedFor(d)' = ArmedFor(d)
    BY <1>1, <1>2 DEF ArmedFor
  <2>2. \A d \in FewConns \ {c} : conn'[d] = conn[d]
    BY <1>1 DEF Connects, RtsInv, SocketsInv
  <2>3. data[c] = 0 /\ end[c] = "open"
    BY <1>1 DEF Connects, RtsInv, SocketsInv
  <2> QED
    BY <1>1, <1>2, <2>1, <2>2, <2>3 DEF RtsInv, RtsMissed
<1>8. RtsCover'
  BY <1>1, <1>2, <1>5 DEF RtsCover, InputsFor, ToRead
<1>9. /\ listenq \in Nat /\ lag \in 0 .. Cardinality(FewConns) /\ Len(ioq) \in Nat
      /\ listenq + Len(ioq) <= SigMax /\ SigMax \in Nat
  BY SocketsAssumption, LenProperties DEF RtsInv, RtsTyped
<1>10. \/ alive' = FALSE /\ UNCHANGED <<listenq, lag>>
       \/ ~Rts!QueueFull /\ alive' = alive /\ listenq' = listenq + 1 /\ lag' = lag
       \/ alive' = alive /\ listenq' = listenq /\ lag' = lag + 1
  BY DEF Rts!Connecting, Rts!RaiseListen
<1>11. RtsTyped'
  <2>1. listenq' \in Nat /\ listenq' + Len(ioq') <= SigMax
    BY <1>1, <1>9, <1>10 DEF Rts!QueueFull
  <2>2. lag' \in 0 .. Cardinality(FewConns)
    <3>1. lag + 1 <= Cardinality(FewConns)
      BY <1>4, <1>5, <1>9, BacklogFinite DEF RtsBacklog
    <3> QED
      BY <1>9, <1>10, <3>1, BacklogFinite
  <2>3. alive' \in BOOLEAN
    BY <1>10 DEF RtsInv, RtsTyped
  <2> QED
    BY <1>1, <2>1, <2>2, <2>3 DEF RtsInv, RtsTyped
<1>12. alive' = TRUE => RtsBacklog'
  <2>1. ASSUME alive' = TRUE
        PROVE  listenq' + lag' = listenq + lag + 1
    <3>1. alive' # FALSE
      BY <2>1
    <3>2. \/ listenq' = listenq + 1 /\ lag' = lag
          \/ listenq' = listenq /\ lag' = lag + 1
      BY <1>10, <3>1
    <3>3. listenq \in Nat /\ lag \in Nat
      BY <1>9, BacklogFinite
    <3> QED
      BY <3>2, <3>3
  <2> QED
    BY <1>4, <1>5, <1>9, <2>1 DEF RtsBacklog
<1> QED
  BY <1>2, <1>6, <1>7, <1>8, <1>11, <1>12 DEF RtsInv

\* Something arrives on c: it raises a signal, or is noted as missed.
LEMMA RtsArrival ==
  ASSUME RtsInv, alive = TRUE, NEW c \in FewConns,
         Sends(c, RtsData) \/ Ends(c),
         UNCHANGED <<listenq, lag, armed, arming>>,
         missed' \in {missed, missed \cup {c}},
         end'[c] = "rst" => c \in missed',
         \/ c \in missed' /\ UNCHANGED <<ioq, alive>>
         \/ /\ ArmedFor(c)
            /\ \E f \in Fds, band \in {"POLLIN", "POLLERR"} :
                 /\ sock[f] = c /\ Rts!Raise(f, band)
                 /\ c \in missed' \/ (band = "POLLIN" /\ ToRead(c)' = ToRead(c) + 1)
  PROVE  RtsInv'
<1>1. UNCHANGED <<conn, sock, nofile>> /\ OpenFds' = OpenFds
  BY DEF Sends, Ends, OpenFds
<1>2. SocketsInv(FewConns, RtsData)'
  BY ClientKeeps, Few DEF RtsInv
<1>3. \A d \in FewConns \ {c} : data'[d] = data[d] /\ end'[d] = end[d]
  BY DEF Sends, Ends, RtsInv, SocketsInv
<1>4. c \in missed' \/ ArmedFor(c)
  OBVIOUS
<1>5. RtsArmed'
  BY <1>1 DEF RtsInv, RtsArmed
<1>6. RtsMissed'
  <2>1. \A d \in FewConns : ArmedFor(d)' = ArmedFor(d)
    BY <1>1 DEF ArmedFor
  <2>2. missed \subseteq missed' /\ \A d \in FewConns \ {c} : d \in missed' <=> d \in missed
    OBVIOUS
  <2> QED
    BY <1>1, <1>3, <1>4, <2>1, <2>2 DEF RtsInv, RtsMissed
<1>7. /\ ioq' \in Seq(RtsSignal) /\ listenq' + Len(ioq') <= SigMax
      /\ alive' \in BOOLEAN
      /\ alive' = TRUE =>
           /\ \A g : Cardinality(InputsFor(ioq, g)) <= Cardinality(InputsFor(ioq', g))
           /\ \/ c \in missed'
              \/ \E f \in Fds :
                   /\ sock[f] = c /\ ToRead(c)' = ToRead(c) + 1
                   /\ Cardinality(InputsFor(ioq', f)) = Cardinality(InputsFor(ioq, f)) + 1
  <2>1. CASE c \in missed' /\ UNCHANGED <<ioq, alive>>
    <3>1. \A g : Cardinality(InputsFor(ioq', g)) = Cardinality(InputsFor(ioq, g))
      BY <2>1
    <3>2. \A g : Cardinality(InputsFor(ioq, g)) \in Nat
      BY InputsFinite DEF RtsInv, RtsTyped
    <3>3. \A g : Cardinality(InputsFor(ioq, g)) <= Cardinality(InputsFor(ioq', g))
      BY <3>1, <3>2
    <3>4. ioq' = ioq /\ alive' = alive /\ listenq' = listenq
      BY <2>1
    <3> QED
      BY <2>1, <3>3, <3>4 DEF RtsInv, RtsTyped
  <2>2. CASE \E f \in Fds, band \in {"POLLIN", "POLLERR"} :
               /\ sock[f] = c /\ Rts!Raise(f, band)
               /\ c \in missed' \/ (band = "POLLIN" /\ ToRead(c)' = ToRead(c) + 1)
    <3>1. PICK f \in Fds, band \in {"POLLIN", "POLLERR"} :
            /\ sock[f] = c /\ Rts!Raise(f, band)
            /\ c \in missed' \/ (band = "POLLIN" /\ ToRead(c)' = ToRead(c) + 1)
      BY <2>2
    <3>2. RtsTyped
      BY DEF RtsInv
    <3>3. alive' = TRUE => alive' # FALSE
      OBVIOUS
    <3> QED
      BY <3>1, <3>2, <3>3, RtsRaise
  <2> QED
    BY <2>1, <2>2
<1>8. RtsTyped'
  BY <1>7 DEF RtsInv, RtsTyped
<1>9. ASSUME alive' = TRUE
      PROVE  RtsCover' /\ RtsBacklog'
  <2>1. RtsCover /\ RtsBacklog
    BY DEF RtsInv
  <2>2. RtsBacklog'
    BY <1>1, <2>1 DEF RtsBacklog, Backlog
  <2>3. ASSUME NEW f \in OpenFds, sock[f] \notin missed'
        PROVE  ToRead(sock[f])' <= Cardinality(InputsFor(ioq', f))
    <3>1. PICK d : d = sock[f]
      OBVIOUS
    <3>2. f \in Fds /\ d \in FewConns /\ d \notin missed
      BY <2>3, <3>1 DEF OpenFds, RtsInv, SocketsInv
    <3>3. ToRead(d) <= Cardinality(InputsFor(ioq, f))
      BY <2>1, <3>1, <3>2 DEF RtsCover
    <3>4. data[d] \in Nat /\ ToRead(d) \in Nat
      BY <3>2, Few DEF RtsInv, SocketsInv, ToRead
    <3>5. /\ Cardinality(InputsFor(ioq, f)) \in Nat
          /\ Cardinality(InputsFor(ioq', f)) \in Nat
      BY <1>7, InputsFinite DEF RtsInv, RtsTyped
    <3>6. CASE d # c
      <4>1. ToRead(d)' = ToRead(d)
        BY <1>3, <3>2, <3>6 DEF ToRead
      <4>2. Cardinality(InputsFor(ioq, f)) <= Cardinality(InputsFor(ioq', f))
        BY <1>7, <1>9
      <4>3. sock'[f] = d
        BY <1>1, <3>1
      <4>4. ToRead(sock[f])' = ToRead(d)'
        BY <4>3 DEF ToRead
      <4> QED
        BY <3>3, <3>4, <3>5, <4>1, <4>2, <4>4
    <3>7. CASE d = c
      <4>1. PICK g \in Fds :
              /\ sock[g] = c /\ ToRead(c)' = ToRead(c) + 1
              /\ Cardinality(InputsFor(ioq', g)) = Cardinality(InputsFor(ioq, g)) + 1
        BY <1>7, <1>9, <2>3, <3>1, <3>7
      <4>2. g = f
        <5>1. \A h, k \in Fds : sock[h] = sock[k] /\ sock[h] # NoConn => h = k
          BY DEF RtsInv, SocketsInv
        <5>2. c # NoConn
          BY Few
        <5> QED
          BY <3>1, <3>2, <3>7, <4>1, <5>1, <5>2
      <4>3. sock'[f] = c
        BY <1>1, <3>1, <3>7
      <4>4. ToRead(sock[f])' = ToRead(c)'
        BY <4>3 DEF ToRead
      <4> QED
        BY <3>3, <3>4, <3>5, <3>7, <4>1, <4>2, <4>4
    <3> QED
      BY <3>6, <3>7
  <2>4. RtsCover'
    BY <1>1, <2>3 DEF RtsCover
  <2> QED
    BY <2>2, <2>4
<1> QED
  BY <1>2, <1>5, <1>6, <1>8, <1>9 DEF RtsInv

\* The connection of a prepared descriptor is found again.
LEMMA RtsFdOf ==
  ASSUME RtsInv, NEW c \in FewConns
  PROVE  /\ Rts!ArmedConn(c) <=> ArmedFor(c)
         /\ ArmedFor(c) => Rts!FdOf(c) \in Fds /\ sock[Rts!FdOf(c)] = c
<1>1. Rts!ArmedConn(c) <=> ArmedFor(c)
  BY RtsNames DEF Rts!ArmedConn, ArmedFor
<1>2. ASSUME ArmedFor(c)
      PROVE  Rts!FdOf(c) \in Fds /\ sock[Rts!FdOf(c)] = c
  <2>1. \E f \in Fds : sock[f] = c
    BY <1>2 DEF ArmedFor, RtsInv, RtsTyped
  <2> QED
    BY <2>1, RtsNames DEF Rts!FdOf
<1> QED
  BY <1>1, <1>2

LEMMA RtsBurst ==
  ASSUME SocketsInv(FewConns, RtsData), NEW c \in FewConns, Rts!SendingBurst(c)
  PROVE  Sends(c, RtsData)
<1>1. PICK n : n = data[c] + 2
  OBVIOUS
<1>2. data[c] \in Nat /\ RtsData \in Nat
  BY Few DEF SocketsInv
<1>3. n \in data[c] + 1 .. RtsData /\ data' = [data EXCEPT ![c] = n]
  BY <1>1, <1>2 DEF Rts!SendingBurst
<1> QED
  BY <1>3 DEF Rts!SendingBurst, Sends

LEMMA RtsClientsStep ==
  ASSUME RtsInv, Rts!Clients
  PROVE  RtsInv'
<1> PICK c \in FewConns :
      \/ Rts!Connecting(c) \/ Rts!Sending(c) \/ Rts!SendingBurst(c)
      \/ Rts!Ending(c) \/ Rts!Resetting(c)
  BY DEF Rts!Clients
<1>1. SocketsInv(FewConns, RtsData) /\ data[c] \in 0 .. RtsData /\ RtsData \in Nat
      /\ alive \in BOOLEAN
  BY Few DEF RtsInv, RtsTyped, SocketsInv
<1>2. ASSUME Rts!Arrives(c)
      PROVE  /\ UNCHANGED <<listenq, lag, armed, arming>>
             /\ missed' \in {missed, missed \cup {c}}
             /\ \/ c \in missed' /\ UNCHANGED <<ioq, alive>>
                \/ ArmedFor(c) /\ Rts!Raise(Rts!FdOf(c), "POLLIN")
  BY <1>2, RtsFdOf DEF Rts!Arrives, Rts!server
<1>3. ASSUME ArmedFor(c), NEW band \in {"POLLIN", "POLLERR"},
             Rts!Raise(Rts!FdOf(c), band),
             c \in missed' \/ (band = "POLLIN" /\ ToRead(c)' = ToRead(c) + 1)
      PROVE  \E f \in Fds, b \in {"POLLIN", "POLLERR"} :
               /\ sock[f] = c /\ Rts!Raise(f, b)
               /\ c \in missed' \/ (b = "POLLIN" /\ ToRead(c)' = ToRead(c) + 1)
  <2>1. Rts!FdOf(c) \in Fds /\ sock[Rts!FdOf(c)] = c
    BY <1>3, RtsFdOf
  <2> QED
    BY <1>3, <2>1
<1>4. CASE Rts!Sending(c)
  <2>1. Sends(c, RtsData) /\ data'[c] = data[c] + 1 /\ end' = end /\ end[c] = "open"
    BY <1>1, <1>4, RtsClients DEF Rts!Sending, Sends
  <2>2. Rts!Arrives(c) /\ alive = TRUE
    BY <1>1, <1>4 DEF Rts!Sending
  <2>3. ToRead(c)' = ToRead(c) + 1
    BY <1>1, <2>1 DEF ToRead
  <2> QED
    BY <1>2, <1>3, <2>1, <2>2, <2>3, RtsArrival
<1>5. CASE Rts!SendingBurst(c)
  <2>1. Sends(c, RtsData)
    BY <1>1, <1>5, RtsBurst
  <2>2. /\ UNCHANGED <<listenq, lag, armed, arming>> /\ alive = TRUE
        /\ missed' = missed \cup {c} /\ ArmedFor(c)
        /\ Rts!Raise(Rts!FdOf(c), "POLLIN")
    BY <1>1, <1>5, RtsFdOf DEF Rts!SendingBurst, Rts!server
  <2> QED
    BY <1>3, <2>1, <2>2, RtsArrival
<1>6. CASE Rts!Ending(c)
  <2>1. Ends(c) /\ data' = data /\ end[c] = "open" /\ end'[c] = "eof"
    BY <1>1, <1>6 DEF Rts!Ending, Ends, SocketsInv
  <2>2. Rts!Arrives(c) /\ alive = TRUE
    BY <1>1, <1>6 DEF Rts!Ending
  <2>3. ToRead(c)' = ToRead(c) + 1
    BY <1>1, <2>1 DEF ToRead
  <2> QED
    BY <1>2, <1>3, <2>1, <2>2, <2>3, RtsArrival
<1>7. CASE Rts!Resetting(c)
  <2>1. Ends(c)
    BY <1>7 DEF Rts!Resetting, Ends
  <2>2. /\ UNCHANGED <<listenq, lag, armed, arming>> /\ alive = TRUE
        /\ missed' = missed \cup {c}
        /\ \/ UNCHANGED <<ioq, alive>>
           \/ ArmedFor(c) /\ Rts!Raise(Rts!FdOf(c), "POLLERR")
    BY <1>1, <1>7, RtsFdOf DEF Rts!Resetting, Rts!server
  <2> QED
    BY <1>3, <2>1, <2>2, RtsArrival
<1> QED
  BY <1>4, <1>5, <1>6, <1>7, RtsConnecting

\* accept() takes a connection that was announced.
LEMMA RtsAccept ==
  ASSUME RtsInv, Rts!accept_client
  PROVE  RtsInv'
<1>1. PICK c \in FewConns : Rts!Accept(c)
  BY DEF Rts!accept_client
<1>2. /\ arming = -1 /\ listenq > 0 /\ listenq' = listenq - 1 /\ arming' = AcceptFd
      /\ UNCHANGED <<ioq, armed, alive, missed, lag>>
  BY RtsNames DEF Rts!accept_client, Rts!Waiting
<1>3. alive = TRUE
  BY DEF RtsInv, RtsTyped, Rts!accept_client, Rts!Waiting
<1> PICK f : f = AcceptFd
  OBVIOUS
<1>4. f \in Fds /\ Takes(c, f)
  BY <1>1, RtsAccepts DEF RtsInv
<1>5. /\ SocketsInv(FewConns, RtsData)'
      /\ \A g \in Fds : sock[g] # NoConn => g # f /\ sock'[g] = sock[g]
      /\ OpenFds' = OpenFds \cup {f} /\ f \notin OpenFds
  BY <1>4, TakesKeeps, Few DEF RtsInv
<1>6. sock'[f] = c /\ (\A d \in FewConns \ {c} : conn'[d] = conn[d])
      /\ conn[c] = "queued" /\ conn'[c] = "accepted" /\ UNCHANGED <<data, end>>
  BY <1>4 DEF Takes, RtsInv, SocketsInv
<1>7. RtsTyped'
  <2>1. listenq' \in Nat /\ listenq' + Len(ioq') <= SigMax
    BY <1>2, SocketsAssumption, LenProperties DEF RtsInv, RtsTyped
  <2> QED
    BY <1>2, <1>4, <2>1 DEF RtsInv, RtsTyped
<1>8. RtsArmed'
  <2>1. f \notin armed
    BY <1>4, <1>5, RtsNames DEF RtsInv, RtsArmed
  <2> QED
    BY <1>2, <1>5, <2>1 DEF RtsInv, RtsArmed
<1>9. RtsMissed'
  <2>1. \A d \in FewConns : ArmedFor(d) => ArmedFor(d)'
    <3>1. ASSUME NEW d \in FewConns, NEW g \in armed \ {Listener}, sock[g] = d
          PROVE  sock'[g] = d
      <4>1. g \in OpenFds
        BY <3>1 DEF RtsInv, RtsArmed
      <4> QED
        BY <1>5, <3>1, <4>1 DEF OpenFds
    <3> QED
      BY <1>2, <3>1 DEF ArmedFor
  <2>2. ~ArmedFor(c)
    <3>1. \A g \in Fds : sock[g] # c
      BY <1>6, Few DEF RtsInv, SocketsInv
    <3> QED
      BY <3>1 DEF ArmedFor, RtsInv, RtsTyped
  <2> QED
    BY <1>2, <1>6, <2>1, <2>2 DEF RtsInv, RtsMissed
<1>10. RtsCover'
  <2>1. ASSUME NEW g \in OpenFds', sock'[g] \notin missed'
        PROVE  ToRead(sock[g])' <= Cardinality(InputsFor(ioq', g))
    <3> PICK d : d = sock'[g]
      OBVIOUS
    <3>1. ToRead(sock[g])' = ToRead(d)
      BY <1>6 DEF ToRead
    <3>2. CASE g = f
      <4>1. d = c /\ c \notin missed /\ ~ArmedFor(c)
        <5>1. \A h \in Fds : sock[h] # c
          BY <1>6, Few DEF RtsInv, SocketsInv
        <5> QED
          BY <1>2, <1>6, <2>1, <3>2, <5>1 DEF ArmedFor, RtsInv, RtsTyped
      <4>2. data[c] = 0 /\ end[c] = "open"
        BY <1>6, <4>1 DEF RtsInv, RtsMissed
      <4>3. Cardinality(InputsFor(ioq', g)) \in Nat
        BY <1>2, InputsFinite DEF RtsInv, RtsTyped
      <4> QED
        BY <3>1, <4>1, <4>2, <4>3 DEF ToRead
    <3>3. CASE g # f
      <4>1. g \in OpenFds /\ sock[g] = d
        BY <1>5, <2>1, <3>3 DEF OpenFds
      <4>2. ToRead(d) <= Cardinality(InputsFor(ioq, g))
        BY <1>2, <1>3, <2>1, <4>1 DEF RtsInv, RtsCover
      <4> QED
        BY <1>2, <3>1, <4>2
    <3> QED
      BY <3>2, <3>3
  <2> QED
    BY <2>1 DEF RtsCover
<1>11. RtsBacklog'
  <2>1. Backlog' = Backlog \ {c} /\ c \in Backlog
    BY <1>6 DEF Backlog
  <2>2. Cardinality(Backlog') = Cardinality(Backlog) - 1
    BY <2>1, BacklogFinite, FS_RemoveElement
  <2>3. Cardinality(Backlog) = listenq + lag /\ listenq \in Nat /\ lag \in Nat
    BY <1>3, BacklogFinite DEF RtsInv, RtsTyped, RtsBacklog
  <2> QED
    BY <1>2, <2>2, <2>3 DEF RtsBacklog
<1> QED
  BY <1>5, <1>7, <1>8, <1>9, <1>10, <1>11 DEF RtsInv

\* Out of descriptors: the signal is gone, the connection still waits.
LEMMA RtsAcceptFails ==
  ASSUME RtsInv, Rts!accept_fails
  PROVE  RtsInv'
<1>1. /\ UNCHANGED <<conn, data, end, sock, nofile, ioq, armed, arming, alive, missed>>
      /\ listenq > 0 /\ listenq' = listenq - 1 /\ lag' = lag + 1
  BY DEF Rts!accept_fails, Rts!sockets, Rts!server
<1>2. alive = TRUE
  BY DEF RtsInv, RtsTyped, Rts!accept_fails, Rts!Waiting
<1>3. listenq \in Nat /\ lag \in Nat /\ Cardinality(Backlog) = listenq + lag
  BY <1>2, BacklogFinite DEF RtsInv, RtsTyped, RtsBacklog
<1>4. RtsTyped'
  <2>1. listenq' \in Nat /\ listenq' + Len(ioq') <= SigMax
    BY <1>1, SocketsAssumption, LenProperties DEF RtsInv, RtsTyped
  <2>2. lag' \in 0 .. Cardinality(FewConns)
    BY <1>1, <1>3, BacklogFinite
  <2> QED
    BY <1>1, <2>1, <2>2 DEF RtsInv, RtsTyped
<1>5. SocketsInv(FewConns, RtsData)' /\ OpenFds' = OpenFds /\ Backlog' = Backlog
  BY <1>1 DEF RtsInv, SocketsInv, OpenFds, Backlog
<1>6. RtsArmed'
  BY <1>1, <1>5 DEF RtsInv, RtsArmed
<1>7. RtsMissed'
  BY <1>1 DEF RtsInv, RtsMissed, ArmedFor
<1>8. RtsCover'
  BY <1>1, <1>2, <1>5 DEF RtsInv, RtsCover, ToRead, InputsFor
<1>9. RtsBacklog'
  BY <1>1, <1>3, <1>5 DEF RtsBacklog
<1> QED
  BY <1>4, <1>5, <1>6, <1>7, <1>8, <1>9 DEF RtsInv

\* The signal that is handled, and the others behind it.
LEMMA RtsHead ==
  ASSUME RtsInv, NEW band, Rts!NormIo(band)
  PROVE  /\ alive = TRUE /\ arming = -1 /\ ioq # << >>
         /\ Rts!si_fd \in Fds /\ Head(ioq).fd = Rts!si_fd /\ Head(ioq).band = band
         /\ Tail(ioq) \in Seq(RtsSignal) /\ Len(Tail(ioq)) = Len(ioq) - 1
<1>1. ioq \in Seq(RtsSignal) /\ ioq # << >> /\ Head(ioq).band = band
      /\ alive = TRUE /\ arming = -1
  BY DEF RtsInv, RtsTyped, Rts!NormIo, Rts!Waiting
<1>2. /\ Head(ioq) \in RtsSignal /\ Tail(ioq) \in Seq(RtsSignal)
      /\ Len(Tail(ioq)) = Len(ioq) - 1
  BY <1>1, HeadTailProperties
<1> QED
  BY <1>1, <1>2 DEF Rts!si_fd, RtsSignal

\* A signal is used up for what was read of its socket, or because nothing can
\* be read there; the other sockets are as they were.
LEMMA RtsTakesSignal ==
  ASSUME RtsInv, NEW band, Rts!NormIo(band), ioq' = Tail(ioq),
         UNCHANGED <<conn, sock, nofile, listenq, armed, arming, alive, missed, lag>>,
         SocketsInv(FewConns, RtsData)',
         \A c \in FewConns : sock[Rts!si_fd] # c => data'[c] = data[c] /\ end'[c] = end[c],
         \A c \in FewConns : end'[c] = "rst" => end[c] = "rst",
         \A c \in FewConns : data[c] = 0 /\ end[c] = "open" => data'[c] = 0 /\ end'[c] = "open",
         \A c \in FewConns :
           sock[Rts!si_fd] = c /\ c \notin missed =>
             IF band = "POLLIN"
               THEN ToRead(c)' = 0 \/ ToRead(c)' < ToRead(c)
               ELSE ToRead(c)' = ToRead(c)
  PROVE  RtsInv'
<1>1. /\ alive = TRUE /\ ioq # << >> /\ Rts!si_fd \in Fds
      /\ Head(ioq).fd = Rts!si_fd /\ Head(ioq).band = band
      /\ Tail(ioq) \in Seq(RtsSignal) /\ Len(Tail(ioq)) = Len(ioq) - 1
  BY RtsHead
<1>2. OpenFds' = OpenFds /\ Backlog' = Backlog
  BY DEF OpenFds, Backlog
<1>3. RtsTyped'
  <2>1. listenq' + Len(ioq') <= SigMax
    BY <1>1, SocketsAssumption, LenProperties DEF RtsInv, RtsTyped
  <2> QED
    BY <1>1, <2>1 DEF RtsInv, RtsTyped
<1>4. RtsArmed'
  BY <1>2 DEF RtsInv, RtsArmed
<1>5. RtsMissed'
  <2>1. \A c \in FewConns : ArmedFor(c)' = ArmedFor(c)
    BY DEF ArmedFor
  <2> QED
    BY <2>1 DEF RtsInv, RtsMissed
<1>6. RtsBacklog'
  BY <1>1, <1>2 DEF RtsInv, RtsBacklog
<1>7. RtsCover'
  <2>1. ASSUME NEW f \in OpenFds', sock'[f] \notin missed'
        PROVE  ToRead(sock[f])' <= Cardinality(InputsFor(ioq', f))
    <3> PICK c : c = sock[f]
      OBVIOUS
    <3>1. f \in OpenFds /\ f \in Fds /\ c \in FewConns /\ c \notin missed
      BY <1>2, <2>1 DEF OpenFds, RtsInv, SocketsInv
    <3>2. ToRead(sock[f])' = ToRead(c)'
      BY DEF ToRead
    <3>3. ToRead(c) <= Cardinality(InputsFor(ioq, f))
      BY <1>1, <3>1 DEF RtsInv, RtsCover
    <3>4. ToRead(c) \in Nat /\ ToRead(c)' \in Nat
      BY <3>1, Few DEF RtsInv, SocketsInv, ToRead
    <3>5. /\ Cardinality(InputsFor(ioq, f)) \in Nat
          /\ Cardinality(InputsFor(ioq', f)) \in Nat
      BY <1>1, InputsFinite DEF RtsInv, RtsTyped
    <3>6. Cardinality(InputsFor(ioq', f)) =
            Cardinality(InputsFor(ioq, f))
              - (IF Rts!si_fd = f /\ band = "POLLIN" THEN 1 ELSE 0)
      BY <1>1, TailCounts DEF RtsInv, RtsTyped
    <3>7. CASE f = Rts!si_fd
      <4>1. IF band = "POLLIN"
              THEN ToRead(c)' = 0 \/ ToRead(c)' < ToRead(c)
              ELSE ToRead(c)' = ToRead(c)
        BY <3>1, <3>7
      <4> QED
        BY <3>2, <3>3, <3>4, <3>5, <3>6, <3>7, <4>1
    <3>8. CASE f # Rts!si_fd
      <4>1. sock[Rts!si_fd] # c
        BY <1>1, <3>1, <3>8, Few DEF RtsInv, SocketsInv
      <4>2. ToRead(c)' = ToRead(c)
        BY <3>1, <4>1 DEF ToRead
      <4> QED
        BY <3>2, <3>3, <3>4, <3>5, <3>6, <3>8, <4>2
    <3> QED
      BY <3>7, <3>8
  <2> QED
    BY <2>1 DEF RtsCover
<1> QED
  BY <1>3, <1>4, <1>5, <1>6, <1>7 DEF RtsInv

LEMMA RtsRecvData ==
  ASSUME RtsInv, Rts!recv_data
  PROVE  RtsInv'
<1>1. /\ Rts!NormIo("POLLIN") /\ ioq' = Tail(ioq)
      /\ UNCHANGED <<conn, end, sock, nofile, listenq, armed, arming, alive, missed, lag>>
  BY DEF Rts!recv_data, Rts!server
<1> PICK f : f = Rts!si_fd
  OBVIOUS
<1>2. f \in Fds
  BY <1>1, RtsHead
<1> PICK c : c = sock[f]
  OBVIOUS
<1>3. c \in FewConns /\ data[c] \in Nat \ {0} /\ sock[f] # NoConn
  BY <1>2, Few DEF Rts!recv_data, RtsInv, SocketsInv
<1>4. PICK n \in 0 .. data[c] - 1 : data' = [data EXCEPT ![c] = n]
  BY DEF Rts!recv_data
<1>5. Reads(f)
  BY <1>1, <1>3, <1>4 DEF Reads
<1>6. SocketsInv(FewConns, RtsData)'
  BY <1>2, <1>5, ReadsKeeps, Few DEF RtsInv
<1>7. data'[c] = n /\ n \in Nat /\ n < data[c] /\ (\A d \in FewConns \ {c} : data'[d] = data[d])
  BY <1>3, <1>4 DEF RtsInv, SocketsInv
<1>8. ToRead(c)' < ToRead(c)
  BY <1>1, <1>3, <1>7 DEF ToRead
<1>9. \A d \in FewConns : data[d] = 0 /\ end[d] = "open" => data'[d] = 0 /\ end'[d] = "open"
  BY <1>1, <1>3, <1>7
<1> QED
  BY <1>1, <1>6, <1>7, <1>8, <1>9, RtsTakesSignal

LEMMA RtsRecvFails ==
  ASSUME RtsInv, Rts!recv_fails
  PROVE  RtsInv'
<1>1. /\ Rts!NormIo("POLLIN") /\ ioq' = Tail(ioq)
      /\ UNCHANGED <<listenq, armed, arming, alive, missed, lag>>
  BY DEF Rts!recv_fails, Rts!server
<1> PICK f : f = Rts!si_fd
  OBVIOUS
<1>2. f \in Fds
  BY <1>1, RtsHead
<1>3. CASE HasInput(f)
  <2>1. Rts!RecvReset(f)
    BY <1>2, <1>3, RtsNames DEF Rts!recv_fails
  <2>2. Resets(f)
    BY <2>1 DEF Rts!RecvReset, Rts!AtReset, Resets
  <2>3. SocketsInv(FewConns, RtsData)' /\ UNCHANGED <<conn, data, sock, nofile>>
    BY <1>2, <2>2, ReadsKeeps, Few DEF RtsInv, Resets
  <2> PICK c : c = sock[f]
    OBVIOUS
  <2>4. c \in FewConns /\ end[c] = "rst" /\ end'[c] = "eof" /\ c \in missed
        /\ (\A d \in FewConns \ {c} : end'[d] = end[d])
    BY <1>2, <2>2 DEF Resets, RtsInv, SocketsInv, RtsMissed
  <2>5. \A d \in FewConns : end'[d] = "rst" => end[d] = "rst"
    BY <2>4
  <2>6. \A d \in FewConns : data[d] = 0 /\ end[d] = "open" => data'[d] = 0 /\ end'[d] = "open"
    BY <2>3, <2>4
  <2> QED
    BY <1>1, <2>3, <2>4, <2>5, <2>6, RtsTakesSignal
<1>4. CASE ~HasInput(f)
  <2>1. UNCHANGED <<conn, data, end, sock, nofile>>
    BY <1>2, <1>4, RtsNames DEF Rts!recv_fails, Rts!sockets
  <2>2. SocketsInv(FewConns, RtsData)'
    BY <2>1 DEF RtsInv, SocketsInv
  <2>3. ASSUME NEW c \in FewConns, sock[f] = c
        PROVE  ToRead(c)' = 0
    <3>1. end[c] = "open" /\ data[c] = 0
      BY <1>4, <2>3, Few DEF HasInput, RtsInv, SocketsInv
    <3> QED
      BY <2>1, <3>1 DEF ToRead
  <2> QED
    BY <1>1, <2>1, <2>2, <2>3, RtsTakesSignal
<1> QED
  BY <1>3, <1>4

LEMMA RtsPollErr ==
  ASSUME RtsInv, Rts!pollerr
  PROVE  RtsInv'
<1>1. /\ Rts!NormIo("POLLERR") /\ ioq' = Tail(ioq)
      /\ UNCHANGED <<conn, data, end, sock, nofile, listenq, armed, arming, alive, missed, lag>>
  BY DEF Rts!pollerr, Rts!server, Rts!sockets
<1>2. SocketsInv(FewConns, RtsData)'
  BY <1>1 DEF RtsInv, SocketsInv
<1>3. \A c \in FewConns : ToRead(c)' = ToRead(c)
  BY <1>1 DEF ToRead
<1> QED
  BY <1>1, <1>2, <1>3, RtsTakesSignal

\* The signals of the closed socket stay queued.
LEMMA RtsEof ==
  ASSUME RtsInv, Rts!recv_eof
  PROVE  RtsInv'
<1> PICK f : f = Rts!si_fd
  OBVIOUS
<1>1. /\ Rts!NormIo("POLLIN") /\ ioq' = Tail(ioq) /\ armed' = armed \ {f}
      /\ UNCHANGED <<listenq, arming, alive, missed, lag>>
  BY DEF Rts!recv_eof
<1>2. /\ alive = TRUE /\ ioq # << >> /\ f \in Fds /\ arming = -1
      /\ Head(ioq).fd = f /\ Head(ioq).band = "POLLIN"
      /\ Tail(ioq) \in Seq(RtsSignal) /\ Len(Tail(ioq)) = Len(ioq) - 1
  BY <1>1, RtsHead
<1>3. Closes(f)
  BY DEF Rts!recv_eof, Rts!AtEof, Rts!Close, Closes
<1>4. /\ SocketsInv(FewConns, RtsData)'
      /\ OpenFds' = OpenFds \ {f} /\ f \in OpenFds
      /\ \A g \in Fds \ {f} : sock'[g] = sock[g]
  BY <1>2, <1>3, ClosesKeeps, Few DEF RtsInv
<1> PICK c : c = sock[f]
  OBVIOUS
<1>5. /\ c \in FewConns /\ conn[c] = "accepted" /\ conn'[c] = "closed"
      /\ \A d \in FewConns \ {c} : conn'[d] = conn[d]
      /\ UNCHANGED <<data, end>>
  BY <1>2, <1>3 DEF Closes, RtsInv, SocketsInv
<1>6. RtsTyped'
  <2>1. listenq' + Len(ioq') <= SigMax
    BY <1>1, <1>2, SocketsAssumption, LenProperties DEF RtsInv, RtsTyped
  <2> QED
    BY <1>1, <1>2, <2>1 DEF RtsInv, RtsTyped
<1>7. RtsArmed'
  BY <1>1, <1>2, <1>4, RtsNames DEF RtsInv, RtsArmed
<1>8. RtsMissed'
  <2>1. ASSUME NEW d \in FewConns \ {c}, ArmedFor(d)
        PROVE  ArmedFor(d)'
    <3>1. PICK g \in armed \ {Listener} : sock[g] = d
      BY <2>1 DEF ArmedFor
    <3>2. g \in Fds \ {f} /\ g \in armed' \ {Listener}
      BY <1>1, <2>1, <3>1 DEF RtsInv, RtsTyped
    <3> QED
      BY <1>4, <3>1, <3>2 DEF ArmedFor
  <2> QED
    BY <1>1, <1>5, <2>1 DEF RtsInv, RtsMissed
<1>9. RtsBacklog'
  <2>1. Backlog' = Backlog
    BY <1>5 DEF Backlog
  <2> QED
    BY <1>1, <1>2, <2>1 DEF RtsInv, RtsBacklog
<1>10. RtsCover'
  <2>1. ASSUME NEW g \in OpenFds', sock'[g] \notin missed'
        PROVE  ToRead(sock[g])' <= Cardinality(InputsFor(ioq', g))
    <3>1. g \in OpenFds /\ g \in Fds \ {f} /\ sock'[g] = sock[g]
      BY <1>4, <2>1 DEF OpenFds
    <3>2. ToRead(sock[g])' = ToRead(sock[g])
      BY <1>5, <3>1 DEF ToRead
    <3>3. ToRead(sock[g]) <= Cardinality(InputsFor(ioq, g))
      BY <1>1, <1>2, <2>1, <3>1 DEF RtsInv, RtsCover
    <3>4. Cardinality(InputsFor(ioq', g)) = Cardinality(InputsFor(ioq, g))
      <4>1. Cardinality(InputsFor(ioq, g)) \in Nat
        BY InputsFinite DEF RtsInv, RtsTyped
      <4> QED
        BY <1>1, <1>2, <3>1, <4>1, TailCounts DEF RtsInv, RtsTyped
    <3> QED
      BY <3>2, <3>3, <3>4
  <2> QED
    BY <2>1 DEF RtsCover
<1> QED
  BY <1>4, <1>6, <1>7, <1>8, <1>9, <1>10 DEF RtsInv

LEMMA RtsStep ==
  ASSUME RtsInv, Rts!Server \/ Rts!Clients
  PROVE  RtsInv'
BY RtsAdd, RtsAccept, RtsAcceptFails, RtsRecvData, RtsRecvFails, RtsEof, RtsPollErr,
   RtsClientsStep
DEF Rts!Server

LEMMA RtsImplies ==
  ASSUME RtsInv
  PROVE  Rts!SignalsCover /\ Rts!BacklogLag
<1>1. Rts!TypeOK
  <2>1. Rts!SocketsTypeOK
    BY RtsNames DEF RtsInv, SocketsInv, Rts!SocketsTypeOK
  <2>2. lag \in 0 .. Rts!Cardinality(FewConns)
    BY SameCounts DEF RtsInv, RtsTyped
  <2> QED
    BY <2>1, <2>2, RtsNames DEF RtsInv, RtsTyped, Rts!TypeOK
<1>2. \A f : Rts!Pending(f) = Cardinality(InputsFor(ioq, f))
  <2>1. DOMAIN ioq = 1 .. Len(ioq)
    BY LenProperties DEF RtsInv, RtsTyped
  <2> QED
    BY <2>1, SameCounts DEF Rts!Pending, InputsFor
<1>3. ASSUME NEW f \in OpenFds, alive, sock[f] \notin missed
      PROVE  Rts!Pending(f) >= data[sock[f]] + (IF end[sock[f]] = "open" THEN 0 ELSE 1)
  <2>1. ToRead(sock[f]) <= Cardinality(InputsFor(ioq, f))
    BY <1>3 DEF RtsInv, RtsCover
  <2>2. ToRead(sock[f]) \in Nat
    BY Few DEF RtsInv, SocketsInv, OpenFds, ToRead
  <2>3. Cardinality(InputsFor(ioq, f)) \in Nat
    BY InputsFinite DEF RtsInv, RtsTyped
  <2> QED
    BY <1>2, <2>1, <2>2, <2>3 DEF ToRead
<1>4. Rts!BacklogLag
  BY RtsNames, SameCounts DEF RtsInv, RtsBacklog, Rts!BacklogLag
<1> QED
  BY <1>1, <1>3, <1>4, RtsNames DEF Rts!SignalsCover

-----------------------------------------------------------------------------
(* What each server does to its sessions.                                  *)

\* A session is closed at its end, or cut off where the server may do so.
MayClose(f) ==
  (data[sock[f]] = 0 /\ end[sock[f]] = "eof") \/ MayDrop(sock[f])

Serves(C, m) ==
  \/ UNCHANGED <<conn, data, end>>
  \/ \E c \in C : Connects(c) \/ Sends(c, m) \/ Ends(c) \/ Refuses(c)
  \/ \E c \in C, f \in Fds : Takes(c, f)
  \/ \E f \in Fds : Reads(f) \/ Resets(f) \/ (Closes(f) /\ MayClose(f))

LEMMA SelectServes ==
  ASSUME SelectInv, Select!Server \/ Select!Clients
  PROVE  Serves(Conns, MaxData)
<1>1. SocketsInv(Conns, MaxData)
  BY DEF SelectInv
<1>2. CASE Select!select \/ Select!accept_fails \/ Select!scan_skip \/ Select!scan_done
  BY <1>2
  DEF Select!select, Select!accept_fails, Select!scan_skip, Select!scan_done,
      Select!sockets, Serves
<1>3. CASE Select!accept_add
  BY <1>1, <1>3, SelectAccepts DEF Select!accept_add, Serves
<1>4. CASE Select!accept_full
  BY <1>4 DEF Select!accept_full, Select!AcceptAndClose, Select!Queued, Refuses, Serves
<1>5. CASE Select!scan_recv
  BY <1>1, <1>5, SelectPlace, SelectReads DEF Select!scan_recv, Serves
<1>6. CASE Select!scan_eof
  <2> PICK f : f = fd_socket[i]
    OBVIOUS
  <2>1. f \in Fds /\ Closes(f) /\ MayClose(f)
    BY <1>6, SelectPlace
    DEF Select!scan_eof, Select!AtEof, Select!Close, Closes, MayClose
  <2> QED
    BY <2>1 DEF Serves
<1>7. CASE Select!Clients
  BY <1>1, <1>7, SelectClients DEF Select!Clients, Serves
<1> QED
  BY <1>2, <1>3, <1>4, <1>5, <1>6, <1>7 DEF Select!Server

LEMMA PollServes ==
  ASSUME PollInv, Poll!Server \/ Poll!Clients
  PROVE  Serves(Conns, MaxData)
<1>1. SocketsInv(Conns, MaxData)
  BY DEF PollInv
<1>2. CASE Poll!poll \/ Poll!accept_fails \/ Poll!scan_skip \/ Poll!scan_done
  BY <1>2
  DEF Poll!poll, Poll!accept_fails, Poll!scan_skip, Poll!scan_done, Poll!sockets, Serves
<1>3. CASE Poll!accept_add
  BY <1>1, <1>3, PollAccepts DEF Poll!accept_add, Serves
<1>4. CASE Poll!accept_full
  BY <1>4 DEF Poll!accept_full, Poll!AcceptAndClose, Poll!Queued, Refuses, Serves
<1>5. CASE Poll!scan_recv
  BY <1>1, <1>5, PollPlace, PollReads DEF Poll!scan_recv, Serves
<1>6. CASE Poll!scan_eof
  <2> PICK f : f = pollfds[i].fd
    OBVIOUS
  <2>1. f \in Fds /\ Closes(f) /\ MayClose(f)
    BY <1>6, PollPlace
    DEF Poll!scan_eof, Poll!AtEof, Poll!Close, Closes, MayClose
  <2> QED
    BY <2>1 DEF Serves
<1>7. CASE Poll!Clients
  BY <1>1, <1>7, PollClients DEF Poll!Clients, Serves
<1> QED
  BY <1>2, <1>3, <1>4, <1>5, <1>6, <1>7 DEF Poll!Server

\* Only after a failed recv(MSG_OOB) is a session cut off, its own: the
\* descriptor the other failures hand to del_ev is no session's.
LEMMA EpollServes ==
  ASSUME program = "epoll", EpollInv, Epoll!Server \/ Epoll!Clients
  PROVE  Serves(FewConns, MaxData)
<1>1. SocketsInv(FewConns, MaxData)
  BY DEF EpollInv
<1>2. CASE Epoll!epoll_wait \/ Epoll!accept_stops \/ Epoll!recv_oob \/ Epoll!recv_fails
  BY <1>2, EpollRecvFails
  DEF Epoll!epoll_wait, Epoll!accept_stops, Epoll!recv_oob, Epoll!sockets, Serves
<1>3. CASE Epoll!accept_add \/ Epoll!accept_add_fails
  BY <1>1, <1>3, EpollAccepts DEF Epoll!accept_add, Epoll!accept_add_fails, Serves
<1>4. CASE Epoll!recv_data
  BY <1>1, <1>4, EpollHandles, EpollReads DEF Epoll!recv_data, Epoll!Event, Serves
<1>5. CASE Epoll!recv_eof
  <2> PICK f : f = Head(batch).fd
    OBVIOUS
  <2>1. f \in Fds /\ Closes(f) /\ MayClose(f)
    BY <1>5, EpollHandles, EpollCloses
    DEF Epoll!recv_eof, Epoll!Event, Epoll!AtEof, MayClose
  <2> QED
    BY <2>1 DEF Serves
<1>6. CASE Epoll!recv_oob_fails
  <2> PICK f : f = Head(batch).fd
    OBVIOUS
  <2>1. Epoll!Handling("EPOLLPRI") /\ (sock[f] = NoConn \/ Epoll!OobFails(sock[f]))
    BY <1>6 DEF Epoll!recv_oob_fails, Epoll!Event
  <2>2. f \in Fds /\ batch # << >> /\ sock[f] # NoConn /\ sock[f] = Head(batch).of
    BY <2>1, EpollHandles
  <2>3. MayClose(f)
    BY <2>1, <2>2 DEF MayClose, MayDrop, Epoll!MayDrop, Epoll!Event
  <2>4. Closes(f)
    BY <1>6, EpollCloses DEF Epoll!recv_oob_fails, Epoll!Event
  <2> QED
    BY <2>2, <2>3, <2>4 DEF Serves
<1>7. CASE Epoll!Clients
  <2>1. CASE \E c \in FewConns : Epoll!UrgentAnnounced(c) \/ Epoll!UrgentArrives(c)
    BY <2>1 DEF Epoll!UrgentAnnounced, Epoll!UrgentArrives, Epoll!sockets, Serves
  <2>2. CASE \E c \in FewConns : Epoll!Client(c)
    BY <1>1, <2>2, EpollClients DEF Serves
  <2> QED
    BY <1>7, <2>1, <2>2 DEF Epoll!Clients
<1> QED
  BY <1>2, <1>3, <1>4, <1>5, <1>6, <1>7 DEF Epoll!Server

LEMMA RtsServes ==
  ASSUME RtsInv, Rts!Server \/ Rts!Clients
  PROVE  Serves(FewConns, RtsData)
<1>1. SocketsInv(FewConns, RtsData) /\ RtsData \in Nat
  BY Few DEF RtsInv
<1>2. CASE Rts!add_rts_socket \/ Rts!accept_fails \/ Rts!pollerr
  BY <1>2
  DEF Rts!add_rts_socket, Rts!accept_fails, Rts!pollerr, Rts!sockets, Serves
<1>3. CASE Rts!accept_client
  BY <1>1, <1>3, RtsAccepts DEF Rts!accept_client, Serves
<1>4. CASE Rts!recv_data
  <2>1. Rts!si_fd \in Fds /\ Reads(Rts!si_fd)
    BY <1>4, RtsHead DEF Rts!recv_data, Reads
  <2> QED
    BY <2>1 DEF Serves
<1>5. CASE Rts!recv_fails
  <2>1. Rts!si_fd \in Fds
    BY <1>5, RtsHead DEF Rts!recv_fails
  <2>2. Resets(Rts!si_fd) \/ UNCHANGED <<conn, data, end>>
    BY <1>5 DEF Rts!recv_fails, Rts!RecvReset, Rts!AtReset, Rts!sockets, Resets
  <2> QED
    BY <2>1, <2>2 DEF Serves
<1>6. CASE Rts!recv_eof
  <2> PICK f : f = Rts!si_fd
    OBVIOUS
  <2>1. f \in Fds
    BY <1>6, RtsHead DEF Rts!recv_eof
  <2>2. Closes(f) /\ MayClose(f)
    BY <1>6 DEF Rts!recv_eof, Rts!AtEof, Rts!Close, Closes, MayClose
  <2> QED
    BY <2>1, <2>2 DEF Serves
<1>7. CASE Rts!Clients
  <2> PICK c \in FewConns :
        \/ Rts!Connecting(c) \/ Rts!Sending(c) \/ Rts!SendingBurst(c)
        \/ Rts!Ending(c) \/ Rts!Resetting(c)
    BY <1>7 DEF Rts!Clients
  <2>1. CASE Rts!Connecting(c) \/ Rts!Sending(c)
    BY <1>1, <2>1, RtsClients DEF Rts!Connecting, Rts!Sending, Serves
  <2>2. CASE Rts!SendingBurst(c)
    BY <1>1, <2>2, RtsBurst DEF Serves
  <2>3. CASE Rts!Ending(c) \/ Rts!Resetting(c)
    <3>1. Ends(c)
      BY <2>3 DEF Rts!Ending, Rts!Resetting, Ends
    <3> QED
      BY <3>1 DEF Serves
  <2> QED
    BY <2>1, <2>2, <2>3
<1> QED
  BY <1>2, <1>3, <1>4, <1>5, <1>6, <1>7 DEF Rts!Server

-----------------------------------------------------------------------------
(* Whichever server runs.                                                  *)

Inv ==
  /\ program = "select" => SelectInv
  /\ program = "poll" => PollInv
  /\ program = "epoll" => EpollInv
  /\ program = "rts" => RtsInv

LEMMA InvInit ==
  ASSUME Init
  PROVE  Inv /\ program \in {"select", "poll", "epoll", "rts"}
BY SelectInit, PollInit, EpollInit, RtsInit DEF Init, Inv

LEMMA InvStep ==
  ASSUME Inv, [Next]_vars
  PROVE  Inv'
<1>1. CASE Next
  BY <1>1, SelectStep, PollStep, EpollStep, RtsStep
  DEF Next, Server, Clients, SelectRuns, PollRuns, EpollRuns, RtsRuns, Runs, Inv
<1>2. CASE UNCHANGED vars
  <2>1. /\ UNCHANGED <<program, conn, data, end, sock, nofile>>
        /\ UNCHANGED <<fd_socket, fds_read, pollfds, cnt_fd_socket, ret_poll, phase, i>>
        /\ UNCHANGED <<urgent, interest, batch, fd, exit>>
        /\ UNCHANGED <<listenq, ioq, alive, missed, lag, armed, arming>>
    BY <1>2 DEF vars, sockets, select_only, poll_only, loop, epoll_only, rts_only
  <2>2. SelectInv => SelectInv'
    BY <2>1
    DEF SelectInv, SocketsInv, SelectTyped, SelectTable, SelectReports, OpenFds, HasInput
  <2>3. PollInv => PollInv'
    BY <2>1
    DEF PollInv, SocketsInv, PollTyped, PollTable, PollCount, Left, OpenFds, HasInput
  <2>4. EpollInv => EpollInv'
    BY <2>1
    DEF EpollInv, SocketsInv, EpollTyped, EpollBatch, FdUnset, OpenFds, HasInput
  <2>5. RtsInv => RtsInv'
    BY <2>1
    DEF RtsInv, SocketsInv, RtsTyped, RtsArmed, RtsMissed, ArmedFor, RtsCover, ToRead,
        InputsFor, RtsBacklog, Backlog, OpenFds
  <2> QED
    BY <2>1, <2>2, <2>3, <2>4, <2>5 DEF Inv
<1> QED
  BY <1>1, <1>2

\* Whichever of the four servers runs, each of its steps, of its clients' and of
\* the kernel's keeps that server's inductive invariant.
THEOREM InvCorrect == Spec => []Inv
<1>1. Init => Inv
  BY InvInit
<1>2. Inv /\ [Next]_vars => Inv'
  BY InvStep
<1> QED
  BY <1>1, <1>2, PTL DEF Spec

\* Select and poll: the array holds the listener and each open socket once,
\* whatever del_socket has moved.
THEOREM TableMatchesSocketsCorrect == Spec => []TableMatchesSockets
<1>1. Inv => TableMatchesSockets
  BY SelectImplies, PollImplies DEF Inv, TableMatchesSockets
<1> QED
  BY <1>1, InvCorrect, PTL

\* What select(), poll() or epoll_wait() reported is still true when the loop
\* comes to use it.
THEOREM ReportsCurrentCorrect == Spec => []ReportsCurrent
<1>1. Inv => ReportsCurrent
  BY SelectImplies, PollImplies, EpollImplies DEF Inv, ReportsCurrent
<1> QED
  BY <1>1, InvCorrect, PTL

\* io_rts.c: the queued signals suffice to read all data of the sessions none of
\* whose arrivals was missed.
THEOREM SignalsCoverCorrect == Spec => []SignalsCover
<1>1. Inv => SignalsCover
  BY RtsImplies DEF Inv, SignalsCover
<1> QED
  BY <1>1, InvCorrect, PTL

\* io_rts.c: while the process lives, the listen backlog is ahead of its queued
\* signals by the connections that came before F_SETOWN and the failed accept()s.
THEOREM BacklogLagCorrect == Spec => []BacklogLag
<1>1. Inv => BacklogLag
  BY RtsImplies DEF Inv, BacklogLag
<1> QED
  BY <1>1, InvCorrect, PTL

-----------------------------------------------------------------------------
(* All four implement the abstract server.                                 *)

\* A step of a server or of one of its clients is one of the abstract server.
LEMMA ServesSession ==
  ASSUME NEW C \in SUBSET Conns, NEW m \in Nat, NoConn \notin C,
         SocketsInv(C, m), Serves(C, m)
  PROVE  Sessions!Next \/ UNCHANGED Sessions!sessions
<1>1. /\ conn \in [C -> {"none", "queued", "accepted", "closed"}]
      /\ data \in [C -> 0 .. m]
      /\ end \in [C -> {"open", "eof", "rst"}]
  BY DEF SocketsInv
<1>2. \A c \in C :
        /\ c \in Conns /\ ForAll(conn, "none")[c] = conn[c]
        /\ ForAll(data, 0)[c] = data[c] /\ ForAll(end, "open")[c] = end[c]
  BY <1>1 DEF ForAll
<1>3. \A f \in Fds : sock[f] # NoConn => sock[f] \in C /\ conn[sock[f]] = "accepted"
  BY DEF SocketsInv
<1>4. CASE UNCHANGED <<conn, data, end>>
  BY <1>4 DEF Sessions!sessions, ForAll
<1>5. ASSUME NEW c \in C, NEW from, NEW to, conn[c] = from,
             conn' = [conn EXCEPT ![c] = to], UNCHANGED <<data, end>>
      PROVE  Sessions!Become(c, from, to)
  <2>1. ForAll(conn, "none")' = [ForAll(conn, "none") EXCEPT ![c] = to]
    BY <1>1, <1>5 DEF ForAll
  <2>2. ForAll(data, 0)' = ForAll(data, 0) /\ ForAll(end, "open")' = ForAll(end, "open")
    BY <1>5 DEF ForAll
  <2> QED
    BY <1>2, <1>5, <2>1, <2>2 DEF Sessions!Become
<1>6. ASSUME NEW c \in C, NEW n \in Nat, data' = [data EXCEPT ![c] = n],
             UNCHANGED <<conn, end>>
      PROVE  /\ ForAll(data, 0)' = [ForAll(data, 0) EXCEPT ![c] = n]
             /\ ForAll(data, 0)'[c] = n
             /\ ForAll(conn, "none")' = ForAll(conn, "none")
             /\ ForAll(end, "open")' = ForAll(end, "open")
  <2>1. ForAll(data, 0)' = [ForAll(data, 0) EXCEPT ![c] = n] /\ ForAll(data, 0)'[c] = n
    BY <1>1, <1>6 DEF ForAll
  <2> QED
    BY <1>6, <2>1 DEF ForAll
<1>7. ASSUME NEW c \in C, NEW how, end' = [end EXCEPT ![c] = how],
             UNCHANGED <<conn, data>>
      PROVE  /\ ForAll(end, "open")' = [ForAll(end, "open") EXCEPT ![c] = how]
             /\ ForAll(conn, "none")' = ForAll(conn, "none")
             /\ ForAll(data, 0)' = ForAll(data, 0)
  <2>1. ForAll(end, "open")' = [ForAll(end, "open") EXCEPT ![c] = how]
    BY <1>1, <1>7 DEF ForAll
  <2> QED
    BY <1>7, <2>1 DEF ForAll
<1>8. ASSUME NEW c \in C, Connects(c) \/ Sends(c, m) \/ Ends(c) \/ Refuses(c)
      PROVE  Sessions!Next
  <2>1. CASE Connects(c)
    <3>1. Sessions!Connect(c)
      BY <1>5, <2>1 DEF Connects, Sessions!Connect
    <3> QED
      BY <1>2, <3>1 DEF Sessions!Next
  <2>2. CASE Refuses(c)
    <3>1. ForAll(conn, "none")' = [ForAll(conn, "none") EXCEPT ![c] = "none"]
      BY <1>1, <2>2 DEF Refuses, ForAll
    <3>2. ForAll(data, 0)' = [ForAll(data, 0) EXCEPT ![c] = 0]
      BY <1>1, <2>2 DEF Refuses, ForAll
    <3>3. ForAll(end, "open")' = [ForAll(end, "open") EXCEPT ![c] = "open"]
      BY <1>1, <2>2 DEF Refuses, ForAll
    <3>4. Sessions!Refuse(c)
      BY <1>2, <2>2, <3>1, <3>2, <3>3 DEF Refuses, Sessions!Refuse
    <3> QED
      BY <1>2, <3>4 DEF Sessions!Next
  <2>3. CASE Sends(c, m)
    <3>1. PICK n \in data[c] + 1 .. m : data' = [data EXCEPT ![c] = n]
      BY <2>3 DEF Sends
    <3>2. n \in Nat /\ n > data[c]
      BY <1>1, <3>1
    <3>3. Sessions!Active(c)
      BY <1>2, <2>3 DEF Sends, Sessions!Active
    <3>4. Sessions!Send(c)
      BY <1>2, <1>6, <2>3, <3>1, <3>2, <3>3 DEF Sends, Sessions!Send
    <3> QED
      BY <1>2, <3>4 DEF Sessions!Next
  <2>4. CASE Ends(c)
    <3>1. Sessions!Active(c)
      BY <1>2, <2>4 DEF Ends, Sessions!Active
    <3>2. Sessions!Hangup(c)
      BY <1>7, <2>4, <3>1 DEF Ends, Sessions!Hangup
    <3> QED
      BY <1>2, <3>2 DEF Sessions!Next
  <2> QED
    BY <1>8, <2>1, <2>2, <2>3, <2>4
<1>9. ASSUME NEW c \in C, NEW f \in Fds, Takes(c, f)
      PROVE  Sessions!Next
  <2>1. Sessions!Accept(c)
    BY <1>5, <1>9 DEF Takes, Sessions!Accept
  <2> QED
    BY <1>2, <2>1 DEF Sessions!Next
<1>10. ASSUME NEW f \in Fds, Reads(f) \/ Resets(f) \/ (Closes(f) /\ MayClose(f))
       PROVE  Sessions!Next
  <2> PICK c : c = sock[f]
    OBVIOUS
  <2>1. c \in C /\ conn[c] = "accepted" /\ c \in Conns
    BY <1>2, <1>3, <1>10 DEF Reads, Resets, Closes
  <2>2. CASE Reads(f)
    <3>1. PICK n \in 0 .. data[c] - 1 : data' = [data EXCEPT ![c] = n]
      BY <2>2 DEF Reads
    <3>2. n \in Nat /\ n < data[c]
      BY <1>1, <2>1, <3>1
    <3>3. Sessions!Read(c)
      BY <1>2, <1>6, <2>1, <2>2, <3>1, <3>2 DEF Reads, Sessions!Read
    <3> QED
      BY <2>1, <3>3 DEF Sessions!Next
  <2>3. CASE Resets(f)
    <3>1. Sessions!ReadReset(c)
      BY <1>2, <1>7, <2>1, <2>3 DEF Resets, Sessions!ReadReset
    <3> QED
      BY <2>1, <3>1 DEF Sessions!Next
  <2>4. CASE Closes(f) /\ MayClose(f)
    <3>1. Sessions!Become(c, "accepted", "closed")
      BY <1>5, <2>1, <2>4 DEF Closes
    <3>2. Sessions!Finish(c) \/ Sessions!CutOff(c)
      BY <1>1, <1>2, <2>1, <2>4, <3>1
      DEF MayClose, Sessions!Finish, Sessions!CutOff
    <3> QED
      BY <2>1, <3>2 DEF Sessions!Next
  <2> QED
    BY <1>10, <2>2, <2>3, <2>4
<1> QED
  BY <1>4, <1>8, <1>9, <1>10 DEF Serves

LEMMA SessionsInit ==
  ASSUME Init
  PROVE  Sessions!Init
<1>1. FewConns \subseteq Conns
  BY SocketServersAssumption
<1>2. \E C \in SUBSET Conns :
        /\ conn = [c \in C |-> "none"] /\ data = [c \in C |-> 0]
        /\ end = [c \in C |-> "open"]
  <2>1. CASE Select!Init \/ Poll!Init
    BY <2>1 DEF Select!Init, Select!SocketsInit, Poll!Init, Poll!SocketsInit
  <2>2. CASE Epoll!Init \/ Rts!Init
    BY <1>1, <2>2 DEF Epoll!Init, Epoll!SocketsInit, Rts!Init, Rts!SocketsInit
  <2> QED
    BY <2>1, <2>2 DEF Init
<1> QED
  BY <1>2 DEF Sessions!Init, ForAll

LEMMA SessionsStep ==
  ASSUME Inv, [Next]_vars
  PROVE  Sessions!Next \/ UNCHANGED Sessions!sessions
<1>1. NoConn \notin Conns /\ MaxData \in Nat /\ FewConns \subseteq Conns
      /\ NoConn \notin FewConns /\ RtsData \in Nat
  BY Few, SocketsAssumption, SocketServersAssumption
<1>2. CASE program \in {"select", "poll"} /\ Next
  <2>1. SocketsInv(Conns, MaxData) /\ Serves(Conns, MaxData)
    BY <1>2, SelectServes, PollServes
    DEF Next, Server, Clients, SelectRuns, PollRuns, EpollRuns, RtsRuns, Runs, Inv,
        SelectInv, PollInv
  <2> QED
    BY <1>1, <2>1, ServesSession
<1>3. CASE program = "epoll" /\ Next
  <2>1. SocketsInv(FewConns, MaxData) /\ Serves(FewConns, MaxData)
    BY <1>3, EpollServes
    DEF Next, Server, Clients, SelectRuns, PollRuns, EpollRuns, RtsRuns, Runs, Inv,
        EpollInv
  <2> QED
    BY <1>1, <2>1, ServesSession
<1>4. CASE program = "rts" /\ Next
  <2>1. SocketsInv(FewConns, RtsData) /\ Serves(FewConns, RtsData)
    BY <1>4, RtsServes
    DEF Next, Server, Clients, SelectRuns, PollRuns, EpollRuns, RtsRuns, Runs, Inv,
        RtsInv
  <2> QED
    BY <1>1, <2>1, ServesSession
<1>5. CASE UNCHANGED vars
  BY <1>5 DEF vars, sockets, Sessions!sessions, ForAll
<1>6. Next => program \in {"select", "poll", "epoll", "rts"}
  BY DEF Next, Server, Clients, SelectRuns, PollRuns, EpollRuns, RtsRuns, Runs
<1> QED
  BY <1>2, <1>3, <1>4, <1>5, <1>6

\* Each connection is accepted or refused once, its data is read in pieces, and
\* it is closed only after its client's end and all data before it were read,
\* or, in io_epoll.c alone, when its own urgent byte could not be read.
THEOREM ImplementsSessionsCorrect == Spec => ImplementsSessions
<1>1. Init => Sessions!Init
  BY SessionsInit
<1>2. Inv /\ [Next]_vars => [Sessions!Next]_Sessions!sessions
  BY SessionsStep
<1> QED
  BY <1>1, <1>2, InvCorrect, PTL DEF Spec, ImplementsSessions, Sessions!Spec
=============================================================================
