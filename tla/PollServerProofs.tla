--------------------------- MODULE PollServerProofs ---------------------------
(***************************************************************************)
(* Proofs about PollServer, for every table size, number of reserved slots *)
(* and set of descriptors.  The table is reasoned about as a value: what   *)
(* CloseConnection, Establish and Received do to a consistent table is a   *)
(* lemma each, and the steps of the main loop cite them.                   *)
(***************************************************************************)
EXTENDS PollServer, FiniteSetTheorems, TLAPS

(* The sockets and Min                                                     *)

OpenSocket == [peer : Peers, data : BOOLEAN, room : 0..Room]

\* A non-empty set of numbers has a least element, and Min is it.
LEMMA MinIsLeast ==
    ASSUME NEW S \in SUBSET Nat, S # {}
    PROVE  Min(S) \in S /\ \A y \in S : Min(S) <= y
<1>1. \E x \in S : \A y \in S : ~(<<y, x>> \in OpToRel(<, Nat))
  BY NatLessThanWellFounded, WFMin, Zenon
<1>2. PICK x \in S : \A y \in S : ~(<<y, x>> \in OpToRel(<, Nat))
  BY <1>1
<1>3. \A y \in S : ~(y < x)
  <2> SUFFICES ASSUME NEW y \in S, y < x PROVE FALSE
    OBVIOUS
  <2>1. <<y, x>> \in Nat \X Nat /\ <<y, x>>[1] < <<y, x>>[2]
    OBVIOUS
  <2>2. <<y, x>> \in OpToRel(<, Nat)
    BY <2>1, Zenon DEF OpToRel
  <2> QED BY <1>2, <2>2
<1>4. \A y \in S : x <= y
  BY <1>3
<1> QED BY <1>4 DEF Min

\* A closed socket is not one a connection can have.
LEMMA ClosedIsNotOpen == Closed \notin OpenSocket
BY DEF Closed, OpenSocket, Peers

\* What recv leaves of an open socket is an open socket.
LEMMA AfterRecvOpen == ASSUME NEW s \in OpenSocket PROVE AfterRecv(s) \in OpenSocket
BY DEF AfterRecv, OpenSocket, Peers

\* When every descriptor is owned by a slot of a finite set S, one slot is
\* free, and S is no larger than Fds, two descriptors have the same owner.
LEMMA SharedOwner ==
    ASSUME NEW S, IsFiniteSet(S), Cardinality(S) <= Cardinality(Fds),
           NEW free \in S, NEW g \in [Fds -> S \ {free}]
    PROVE  \E x, y \in Fds : x # y /\ g[x] = g[y]
<1>1. IsFiniteSet(S \ {free}) /\ Cardinality(S \ {free}) = Cardinality(S) - 1
  BY FS_RemoveElement
<1>2. IsFiniteSet(Fds) /\ Cardinality(Fds) \in Nat /\ Cardinality(S) \in Nat
  BY FdsAssumption, FS_CardinalityType
<1>3. Cardinality(S \ {free}) < Cardinality(Fds)
  BY <1>1, <1>2
<1> QED BY <1>1, <1>2, <1>3, FS_PigeonHole

\* What a client does changes at most one socket, which is open and stays open.
LEMMA ClientTouches ==
    ASSUME sock \in [Fds -> {Closed} \cup OpenSocket], ClientStep
    PROVE  \/ UNCHANGED sock
           \/ \E f \in Fds, s \in OpenSocket :
                 sock[f] # Closed /\ sock' = [sock EXCEPT ![f] = s]
<1>1. CASE Connect
  BY <1>1 DEF Connect
<1>2. ASSUME NEW f \in Fds,
             ClientSends(f) \/ ClientCloses(f) \/ ClientResets(f) \/ ClientReads(f)
      PROVE  sock[f] # Closed /\ \E s \in OpenSocket : sock' = [sock EXCEPT ![f] = s]
  <2>1. sock[f] # Closed /\ sock[f] \in OpenSocket
    BY <1>2 DEF ClientSends, ClientCloses, ClientResets, ClientReads, Closed
  <2>2. CASE ClientSends(f)
    <3>1. [sock[f] EXCEPT !.data = TRUE] \in OpenSocket
      BY <2>1 DEF OpenSocket
    <3> QED BY <2>1, <2>2, <3>1 DEF ClientSends
  <2>3. CASE ClientCloses(f)
    <3>1. [sock[f] EXCEPT !.peer = "fin"] \in OpenSocket
      BY <2>1 DEF OpenSocket, Peers
    <3> QED BY <2>1, <2>3, <3>1 DEF ClientCloses
  <2>4. CASE ClientResets(f)
    <3>1. [sock[f] EXCEPT !.peer = "reset"] \in OpenSocket
      BY <2>1 DEF OpenSocket, Peers
    <3> QED BY <2>1, <2>4, <3>1 DEF ClientResets
  <2>5. CASE ClientReads(f)
    <3>1. [sock[f] EXCEPT !.room = Room] \in OpenSocket
      BY <2>1, BoundsAssumption DEF OpenSocket
    <3> QED BY <2>1, <2>5, <3>1 DEF ClientReads
  <2> QED BY <1>2, <2>2, <2>3, <2>4, <2>5
<1> QED BY <1>1, <1>2 DEF ClientStep

\* And the backlog keeps its bound.
LEMMA ClientBacklog ==
    ASSUME backlog \in 0..Backlog, ClientStep
    PROVE  backlog' \in 0..Backlog
BY BoundsAssumption
DEF ClientStep, Connect, ClientSends, ClientCloses, ClientResets, ClientReads

-----------------------------------------------------------------------------
(* The table of connections                                                *)

ClientType == [inUse : BOOLEAN, socket : Fds \cup {-1}, state : States, idleTime : 0..MaxIdle]

TableType ==
    [clients : [Slots -> ClientType], watched : [Watched -> Fds \cup {-1}],
     active : Nat, sock : [Fds -> {Closed} \cup OpenSocket]]

\* A slot in use is outside the reserved ones and has a descriptor, a free one
\* has none.
SlotsOK(t) ==
    \A k \in Slots :
        /\ t.clients[k].inUse => k >= reserveConn /\ t.clients[k].socket # -1
        /\ ~t.clients[k].inUse => t.clients[k].socket = -1

\* No two slots have the same descriptor, and those of the table are the open ones.
OwnersOK(t) ==
    /\ \A k, m \in Slots :
          t.clients[k].socket # -1 /\ t.clients[k].socket = t.clients[m].socket => k = m
    /\ \A f \in Fds : t.sock[f] # Closed <=> \E k \in Slots : t.clients[k].socket = f

\* The same of the poll array.
WatchOK(t) ==
    /\ \A k, m \in Watched : t.watched[k] # -1 /\ t.watched[k] = t.watched[m] => k = m
    /\ \A f \in Fds : t.sock[f] # Closed <=> \E k \in Watched : t.watched[k] = f

TableOK(t) == t \in TableType /\ SlotsOK(t) /\ OwnersOK(t) /\ WatchOK(t)

\* The counter is 1 from an accept until ReceiveLoop closes a connection or
\* TransmitPendingLoop meets slot 0, which is reserved and therefore free.
CountOK ==
    /\ connectionsActive \in {0, 1}
    /\ connectionsActive = 1 => \E k \in Slots : pClients[k].inUse
    /\ pc \in {"start", "run", "poll"} => connectionsActive = 0
    /\ pc \in {"xmit", "send"} /\ i # 0 => connectionsActive = 0

LoopOK ==
    /\ pc \in {"start", "run", "poll", "recv", "xmit", "send", "killed"}
    /\ i \in Slots
    /\ pc = "send" => pClients[i].inUse
    /\ listening \in BOOLEAN
    /\ backlog \in 0..Backlog
    /\ retry \in 0..(MaxRetry + 1)

\* The inductive invariant.
PollInv == TableOK(Table) /\ CountOK /\ LoopOK

----------------------------------------------------------------------------
(* Facts about the constants                                                *)

\* The bounds of the table; the reserved slots leave room for two connections.
LEMMA Bounds ==
    /\ reserveConn \in Nat /\ MAX_CONNECTIONS \in Nat
    /\ reserveConn >= 1 /\ MAX_CONNECTIONS > reserveConn + 1
    /\ Slots = Watched /\ 0 \in Slots /\ Slots \subseteq Nat
    /\ \A k \in Slots : k < MAX_CONNECTIONS
    /\ reserveConn..(MAX_CONNECTIONS - 1) \subseteq Slots
    /\ Fds \subseteq Nat /\ -1 \notin Fds /\ Room \in Nat /\ MaxIdle \in Nat
BY PollAssumption, FdsAssumption, BoundsAssumption DEF Slots, Watched

LEMMA NoConnectionType ==
    /\ NoConnection \in ClientType /\ ~NoConnection.inUse /\ NoConnection.socket = -1
    /\ \A fd \in Fds : /\ Connection(fd) \in ClientType
                       /\ Connection(fd).inUse /\ Connection(fd).socket = fd
BY Bounds DEF NoConnection, Connection, ClientType, States

----------------------------------------------------------------------------
(* What the operations do to a consistent table                             *)

\* Unwatch takes the one entry of a watched descriptor out, and changes nothing
\* when it is asked for -1.
LEMMA UnwatchFacts ==
    ASSUME NEW t, TableOK(t), NEW fd \in Fds \cup {-1}
    PROVE  /\ Unwatch(t, fd) \in [Watched -> Fds \cup {-1}]
           /\ \A k \in Watched :
                Unwatch(t, fd)[k] = IF t.watched[k] = fd THEN -1 ELSE t.watched[k]
<1> DEFINE S == findIndex(t, fd)
<1>1. t.watched \in [Watched -> Fds \cup {-1}]
  BY DEF TableOK, TableType
<1>2. CASE S = {}
  BY <1>1, <1>2 DEF Unwatch, findIndex
<1>3. CASE S # {}
  <2>1. Min(S) \in Watched /\ t.watched[Min(S)] = fd
    <3>1. S \in SUBSET Nat
      BY Bounds DEF findIndex
    <3>2. Min(S) \in S
      BY <1>3, <3>1, MinIsLeast
    <3> QED BY <3>2 DEF findIndex
  <2>2. Unwatch(t, fd) = [t.watched EXCEPT ![Min(S)] = -1]
    BY <1>3 DEF Unwatch
  <2>3. \A k \in Watched : t.watched[k] = fd /\ fd # -1 => k = Min(S)
    BY <2>1 DEF TableOK, WatchOK
  <2> QED BY <1>1, <2>1, <2>2, <2>3
<1> QED BY <1>2, <1>3

\* CloseConnection keeps the table consistent, for a slot in use and for a free one.
LEMMA CloseKeepsTable ==
    ASSUME NEW t, TableOK(t), NEW k \in Slots
    PROVE  TableOK(CloseConnection(t, k))
<1>1. CASE t.active = 0
  BY <1>1 DEF CloseConnection
<1>2. CASE t.active # 0
  <2> DEFINE fd == t.clients[k].socket
             u == CloseConnection(t, k)
  <2>1. /\ u.clients = [t.clients EXCEPT ![k] = NoConnection]
        /\ u.watched = Unwatch(t, fd)
        /\ u.active = t.active - 1
        /\ u.sock = [f \in Fds |-> IF f = fd THEN Closed ELSE t.sock[f]]
        /\ u = [clients |-> u.clients, watched |-> u.watched, active |-> u.active, sock |-> u.sock]
    BY <1>2 DEF CloseConnection
  <2>2. t \in TableType /\ t.clients \in [Slots -> ClientType] /\ t.active \in Nat
        /\ t.sock \in [Fds -> {Closed} \cup OpenSocket]
        /\ t.watched \in [Watched -> Fds \cup {-1}]
    BY DEF TableOK, TableType
  <2>3. fd \in Fds \cup {-1}
    BY <2>2 DEF ClientType
  <2>4. u.watched \in [Watched -> Fds \cup {-1}]
        /\ \A m \in Watched : u.watched[m] = IF t.watched[m] = fd THEN -1 ELSE t.watched[m]
    BY <2>1, <2>3, UnwatchFacts
  <2>5. u.clients \in [Slots -> ClientType]
        /\ \A m \in Slots : u.clients[m] = IF m = k THEN NoConnection ELSE t.clients[m]
    BY <2>1, <2>2, NoConnectionType
  <2>6. u.sock \in [Fds -> {Closed} \cup OpenSocket]
    BY <2>1, <2>2
  <2>7. u \in TableType
    <3>1. u.active \in Nat
      BY <1>2, <2>1, <2>2
    <3> QED BY <2>1, <2>4, <2>5, <2>6, <3>1 DEF TableType
  <2>8. SlotsOK(u)
    BY <2>5, NoConnectionType DEF SlotsOK, TableOK
  <2>9. OwnersOK(u)
    BY <2>1, <2>2, <2>3, <2>5, NoConnectionType, Bounds DEF OwnersOK, TableOK
  <2>10. WatchOK(u)
    BY <2>1, <2>3, <2>4, Bounds DEF WatchOK, TableOK
  <2> QED BY <2>7, <2>8, <2>9, <2>10 DEF TableOK
<1> QED BY <1>1, <1>2

\* A step that keeps the slots' and the sockets' ownership keeps the table
\* consistent, whatever it does to states, idle times and open sockets.
LEMMA SameOwners ==
    ASSUME NEW t, TableOK(t), NEW u \in TableType,
           u.watched = t.watched,
           \A k \in Slots : /\ u.clients[k].inUse = t.clients[k].inUse
                            /\ u.clients[k].socket = t.clients[k].socket,
           \A f \in Fds : u.sock[f] = Closed <=> t.sock[f] = Closed
    PROVE  TableOK(u)
BY DEF TableOK, SlotsOK, OwnersOK, WatchOK

\* An open descriptor's socket changes and stays open.
LEMMA TouchKeepsTable ==
    ASSUME NEW t, TableOK(t), NEW f \in Fds, t.sock[f] # Closed, NEW s \in OpenSocket
    PROVE  TableOK([t EXCEPT !.sock = [@ EXCEPT ![f] = s]])
<1> DEFINE u == [t EXCEPT !.sock = [@ EXCEPT ![f] = s]]
<1>1. t \in TableType
  BY DEF TableOK
<1>2. u \in TableType
  BY <1>1 DEF TableType
<1>3. u.watched = t.watched /\ u.clients = t.clients
  BY <1>1 DEF TableType
<1>4. \A g \in Fds : u.sock[g] = Closed <=> t.sock[g] = Closed
  BY <1>1, ClosedIsNotOpen DEF TableType
<1>5. TableOK(u)
  <2> HIDE DEF u
  <2> QED BY <1>2, <1>3, <1>4, SameOwners
<1> QED BY <1>5

\* The owner of every open descriptor is a slot outside the reserved ones.
LEMMA OwnerSlot ==
    ASSUME NEW t, TableOK(t), NEW f \in Fds, t.sock[f] # Closed
    PROVE  \E k \in reserveConn..(MAX_CONNECTIONS - 1) :
              t.clients[k].inUse /\ t.clients[k].socket = f
<1>1. PICK k \in Slots : t.clients[k].socket = f
  BY DEF TableOK, OwnersOK
<1>2. t.clients[k].inUse /\ k >= reserveConn
  BY <1>1, Bounds DEF TableOK, SlotsOK
<1> QED BY <1>1, <1>2, Bounds

\* The poll array has a free entry: it has as many entries as the table has
\* slots, and the reserved slots have no descriptor.
LEMMA FreeEntry ==
    ASSUME NEW t, TableOK(t)
    PROVE  findIndex(t, -1) # {}
<1> SUFFICES ASSUME findIndex(t, -1) = {} PROVE FALSE
  OBVIOUS
<1> DEFINE R == reserveConn..(MAX_CONNECTIONS - 1)
           g == [m \in Watched |-> CHOOSE k \in R : t.clients[k].socket = t.watched[m]]
<1>1. \A m \in Watched : t.watched[m] \in Fds
  BY DEF findIndex, TableOK, TableType
<1>2. \A m \in Watched : \E k \in R : t.clients[k].socket = t.watched[m]
  <2> TAKE m \in Watched
  <2>1. t.sock[t.watched[m]] # Closed
    BY <1>1 DEF TableOK, WatchOK
  <2> QED BY <1>1, <2>1, OwnerSlot
<1>3. \A m \in Watched : g[m] \in R /\ t.clients[g[m]].socket = t.watched[m]
  BY <1>2
<1>4. g \in [Watched -> R]
  BY <1>3
<1>5. IsFiniteSet(R) /\ Cardinality(R) = MAX_CONNECTIONS - reserveConn
  BY Bounds, FS_Interval
<1>6. IsFiniteSet(Watched) /\ Cardinality(Watched) = MAX_CONNECTIONS
  BY Bounds, FS_Interval DEF Watched
<1>7. \E x, y \in Watched : x # y /\ g[x] = g[y]
  <2>1. Cardinality(R) < Cardinality(Watched)
    BY <1>5, <1>6, Bounds
  <2> HIDE DEF g, R
  <2> QED BY <1>4, <1>5, <1>6, <2>1, FS_PigeonHole
<1>8. PICK x \in Watched, y \in Watched : x # y /\ g[x] = g[y]
  BY <1>7
<1>9. t.watched[x] = t.watched[y] /\ t.watched[x] # -1
  BY <1>1, <1>3, <1>8, Bounds
<1> QED BY <1>8, <1>9 DEF TableOK, WatchOK

\* While a slot is free there is a free descriptor for accept to return.
LEMMA FreeFd ==
    ASSUME NEW t, TableOK(t), FreeSlots(t) # {}
    PROVE  {f \in Fds : t.sock[f] = Closed} # {}
<1> SUFFICES ASSUME \A f \in Fds : t.sock[f] # Closed PROVE FALSE
  OBVIOUS
<1>1. PICK free \in reserveConn..(MAX_CONNECTIONS - 1) : ~t.clients[free].inUse
  BY DEF FreeSlots
<1> DEFINE R == reserveConn..(MAX_CONNECTIONS - 1)
           T == R \ {free}
           g == [f \in Fds |-> CHOOSE k \in T : t.clients[k].socket = f]
<1>2. \A f \in Fds : \E k \in T : t.clients[k].socket = f
  BY <1>1, OwnerSlot
<1>3. \A f \in Fds : g[f] \in T /\ t.clients[g[f]].socket = f
  BY <1>2
<1>4. g \in [Fds -> T]
  BY <1>3
<1>5. IsFiniteSet(R) /\ Cardinality(R) <= Cardinality(Fds)
  <2>1. IsFiniteSet(R) /\ Cardinality(R) = MAX_CONNECTIONS - reserveConn
    BY Bounds, FS_Interval
  <2> QED BY <2>1, PollAssumption
<1>6. \E x, y \in Fds : x # y /\ g[x] = g[y]
  <2> HIDE DEF g, R
  <2> QED BY <1>1, <1>4, <1>5, SharedOwner DEF R
<1> QED BY <1>3, <1>6

\* NewConnection fills a free slot, watches the new descriptor and counts it.
LEMMA EstablishKeepsTable ==
    ASSUME NEW t, TableOK(t), NEW k \in FreeSlots(t), NEW fd \in Fds, t.sock[fd] = Closed
    PROVE  TableOK(Establish(t, k, fd))
<1> DEFINE e == Min(findIndex(t, -1))
           u == Establish(t, k, fd)
<1>1. e \in Watched /\ t.watched[e] = -1
  <2>1. findIndex(t, -1) \in SUBSET Nat /\ findIndex(t, -1) # {}
    BY Bounds, FreeEntry DEF findIndex
  <2>2. e \in findIndex(t, -1)
    BY <2>1, MinIsLeast
  <2> QED BY <2>2 DEF findIndex
<1> HIDE DEF e
<1>2. k \in Slots /\ k >= reserveConn /\ ~t.clients[k].inUse /\ t.clients[k].socket = -1
  BY Bounds DEF FreeSlots, TableOK, SlotsOK
<1>3. /\ u.clients = [t.clients EXCEPT ![k] = Connection(fd)]
      /\ u.watched = [t.watched EXCEPT ![e] = fd]
      /\ u.active = t.active + 1
      /\ u.sock = [t.sock EXCEPT ![fd] = Accepted]
      /\ u = [clients |-> u.clients, watched |-> u.watched, active |-> u.active, sock |-> u.sock]
  BY DEF Establish, e
<1>4. /\ t.clients \in [Slots -> ClientType] /\ t.active \in Nat
      /\ t.sock \in [Fds -> {Closed} \cup OpenSocket]
      /\ t.watched \in [Watched -> Fds \cup {-1}]
  BY DEF TableOK, TableType
<1>5. Accepted \in OpenSocket
  BY Bounds DEF Accepted, OpenSocket, Peers
<1> HIDE DEF u
<1>6. u.clients \in [Slots -> ClientType]
      /\ \A m \in Slots : u.clients[m] = IF m = k THEN Connection(fd) ELSE t.clients[m]
  BY <1>2, <1>3, <1>4, NoConnectionType
<1>7. u.watched \in [Watched -> Fds \cup {-1}]
      /\ \A m \in Watched : u.watched[m] = IF m = e THEN fd ELSE t.watched[m]
  BY <1>1, <1>3, <1>4
<1>8. u.sock \in [Fds -> {Closed} \cup OpenSocket]
      /\ \A f \in Fds : u.sock[f] # Closed <=> f = fd \/ t.sock[f] # Closed
  BY <1>3, <1>4, <1>5, ClosedIsNotOpen
<1>9. u \in TableType
  BY <1>3, <1>4, <1>6, <1>7, <1>8 DEF TableType
<1>10. SlotsOK(u)
  <2> SUFFICES ASSUME NEW m \in Slots
               PROVE  /\ u.clients[m].inUse => m >= reserveConn /\ u.clients[m].socket # -1
                      /\ ~u.clients[m].inUse => u.clients[m].socket = -1
    BY DEF SlotsOK
  <2>1. CASE m = k
    BY <1>2, <1>6, <2>1, NoConnectionType, Bounds
  <2>2. CASE m # k
    BY <1>6, <2>2 DEF SlotsOK, TableOK
  <2> QED BY <2>1, <2>2
<1>11. OwnersOK(u)
  <2>1. \A m \in Slots : t.clients[m].socket # fd
    BY DEF TableOK, OwnersOK
  <2>2. \A m \in Slots : u.clients[m].socket = IF m = k THEN fd ELSE t.clients[m].socket
    BY <1>6 DEF Connection
  <2>3. /\ \A m, n \in Slots : t.clients[m].socket # -1 /\ t.clients[m].socket = t.clients[n].socket => m = n
        /\ \A f \in Fds : t.sock[f] # Closed <=> \E m \in Slots : t.clients[m].socket = f
    BY DEF TableOK, OwnersOK
  <2>4. \A m, n \in Slots : u.clients[m].socket # -1 /\ u.clients[m].socket = u.clients[n].socket => m = n
    BY <2>1, <2>2, <2>3
  <2>5. ASSUME NEW f \in Fds
        PROVE  u.sock[f] # Closed <=> \E m \in Slots : u.clients[m].socket = f
    <3>1. CASE f = fd
      BY <3>1, <1>2, <1>8, <2>2
    <3>2. CASE f # fd
      <4>1. t.clients[k].socket # f
        BY <1>2, Bounds
      <4> QED BY <3>2, <4>1, <1>8, <2>2, <2>3
    <3> QED BY <3>1, <3>2
  <2> QED BY <2>4, <2>5 DEF OwnersOK
<1>12. WatchOK(u)
  <2>1. \A m \in Watched : t.watched[m] # fd
    BY DEF TableOK, WatchOK
  <2> QED BY <1>1, <1>7, <1>8, <2>1, Bounds DEF WatchOK, TableOK
<1> QED BY <1>9, <1>10, <1>11, <1>12, Zenon DEF TableOK, u

\* Closing a free slot only uses up the counter.
LEMMA CloseFree ==
    ASSUME NEW t, TableOK(t), t.active \in {0, 1}, NEW k \in Slots, ~t.clients[k].inUse
    PROVE  /\ CloseConnection(t, k).active = 0
           /\ \A m \in Slots : CloseConnection(t, k).clients[m].inUse = t.clients[m].inUse
<1>1. t.clients \in [Slots -> ClientType]
  BY DEF TableOK, TableType
<1>2. CASE t.active = 0
  BY <1>2 DEF CloseConnection
<1>3. CASE t.active = 1
  <2>1. /\ CloseConnection(t, k).active = 0
        /\ CloseConnection(t, k).clients = [t.clients EXCEPT ![k] = NoConnection]
    BY <1>3 DEF CloseConnection
  <2> QED BY <1>1, <2>1, NoConnectionType DEF ClientType
<1> QED BY <1>2, <1>3

\* ReceiveLoop at a slot in use: the table stays consistent, and unless the
\* counter is used up the same slots are in use.
LEMMA ReceivedFacts ==
    ASSUME NEW t, TableOK(t), t.active \in {0, 1}, NEW k \in Slots, t.clients[k].inUse
    PROVE  /\ TableOK(Received(t, k))
           /\ Received(t, k).active \in {0, t.active}
           /\ Received(t, k).active = 1 =>
                \A m \in Slots : Received(t, k).clients[m].inUse = t.clients[m].inUse
<1> DEFINE fd == t.clients[k].socket
           s == AfterRecv(t.sock[fd])
           r == [t EXCEPT !.sock = [@ EXCEPT ![fd] = s]]
<1>1. t \in TableType /\ t.clients \in [Slots -> ClientType]
      /\ t.sock \in [Fds -> {Closed} \cup OpenSocket]
  BY DEF TableOK, TableType
<1>2. fd \in Fds /\ t.sock[fd] # Closed
  <2>1. fd \in Fds \cup {-1}
    BY <1>1 DEF ClientType
  <2> QED BY <2>1 DEF TableOK, SlotsOK, OwnersOK
<1>3. s \in OpenSocket
  <2>1. t.sock[fd] \in OpenSocket
    BY <1>1, <1>2
  <2> QED BY <2>1, AfterRecvOpen
<1> HIDE DEF s
<1>4. TableOK(r)
  BY <1>2, <1>3, TouchKeepsTable
<1>5. r.clients = t.clients /\ r.active = t.active /\ r \in TableType
  BY <1>1, <1>4 DEF TableType, TableOK
<1>6. Received(t, k) = IF t.sock[fd].data THEN [r EXCEPT !.clients[k].state = "eDataReceived"]
                       ELSE CloseConnection(r, k)
  BY DEF Received, s
<1> HIDE DEF r
<1>7. CASE t.sock[fd].data
  <2> DEFINE u == [r EXCEPT !.clients[k].state = "eDataReceived"]
  <2>0. [r.clients[k] EXCEPT !.state = "eDataReceived"] \in ClientType
    BY <1>1, <1>5 DEF ClientType, States
  <2>1. u \in TableType
    BY <1>5, <2>0 DEF TableType
  <2>2. u.watched = r.watched /\ u.active = r.active /\ u.sock = r.sock
    BY <1>5 DEF TableType
  <2>3. \A m \in Slots : /\ u.clients[m].inUse = r.clients[m].inUse
                         /\ u.clients[m].socket = r.clients[m].socket
    BY <1>5 DEF TableType, ClientType
  <2>4. TableOK(u)
    <3> HIDE DEF u
    <3> QED BY <1>4, <2>1, <2>2, <2>3, SameOwners
  <2> QED BY <1>5, <1>6, <1>7, <2>2, <2>3, <2>4
<1>8. CASE ~t.sock[fd].data
  <2>1. TableOK(CloseConnection(r, k))
    BY <1>4, CloseKeepsTable
  <2>2. CloseConnection(r, k).active = 0 \/ CloseConnection(r, k) = r
    BY <1>5 DEF CloseConnection
  <2> QED BY <1>5, <1>6, <1>8, <2>1, <2>2
<1> QED BY <1>7, <1>8

\* With the counter at 0 NewConnection never finds the table full, and evicts nobody.
LEMMA NeverFull ==
    ASSUME NEW t, t.active = 0
    PROVE  ~Full(t) /\ MakeRoom(t) = t
BY Bounds DEF Full, MakeRoom

LEMMA SetTableFact ==
    ASSUME NEW u \in TableType, SetTable(u)
    PROVE  Table' = u
BY DEF SetTable, Table, TableType

LEMMA TableFields ==
    /\ Table.clients = pClients /\ Table.watched = watchedfds
    /\ Table.active = connectionsActive /\ Table.sock = sock
BY DEF Table

----------------------------------------------------------------------------
(* The inductive invariant                                                  *)

LEMMA PollInvInit == Init => PollInv
<1> SUFFICES ASSUME Init PROVE PollInv
  OBVIOUS
<1> USE DEF Init, SockInit
<1>1. pClients \in [Slots -> ClientType]
      /\ \A k \in Slots : ~pClients[k].inUse /\ pClients[k].socket = -1
  BY NoConnectionType
<1>2. Table \in TableType
  BY <1>1 DEF Table, TableType
<1>3. SlotsOK(Table) /\ OwnersOK(Table) /\ WatchOK(Table)
  BY <1>1, Bounds DEF Table, SlotsOK, OwnersOK, WatchOK
<1>4. CountOK
  BY DEF CountOK
<1>5. LoopOK
  <2>1. backlog \in 0..Backlog /\ retry \in 0..(MaxRetry + 1)
    BY BoundsAssumption DEF MaxRetry
  <2> QED BY <2>1, Bounds DEF LoopOK
<1> QED BY <1>2, <1>3, <1>4, <1>5 DEF PollInv, TableOK

LEMMA NextSlotInRange == ASSUME NEW j \in Slots PROVE (j + 1) % MAX_CONNECTIONS \in Slots
<1>1. MAX_CONNECTIONS \in Nat \ {0} /\ j + 1 \in Nat
  BY Bounds
<1>2. (j + 1) % MAX_CONNECTIONS \in 0..(MAX_CONNECTIONS - 1)
  BY <1>1
<1> QED BY <1>2 DEF Slots

\* The slot TransmitPending works on is not a reserved one, so the counter is
\* used up and its close of the connection has no effect.
LEMMA SendingFacts ==
    ASSUME PollInv, pc = "send"
    PROVE  /\ i # 0 /\ connectionsActive = 0
           /\ SendFd \in Fds /\ sock[SendFd] # Closed /\ sock[SendFd] \in OpenSocket
<1>1. i \in Slots /\ pClients[i].inUse
  BY DEF PollInv, LoopOK
<1>2. i >= reserveConn /\ SendFd # -1
  BY <1>1, TableFields DEF PollInv, TableOK, SlotsOK, SendFd
<1>3. i # 0 /\ connectionsActive = 0
  BY <1>1, <1>2, Bounds DEF PollInv, CountOK
<1>4. SendFd \in Fds
  BY <1>1, <1>2, TableFields DEF PollInv, TableOK, TableType, ClientType, SendFd
<1>5. sock[SendFd] # Closed
  BY <1>1, <1>4, TableFields DEF PollInv, TableOK, OwnersOK, SendFd
<1> QED BY <1>3, <1>4, <1>5, TableFields DEF PollInv, TableOK, TableType

\* A step that only changes the socket of an open descriptor.
LEMMA TouchStep ==
    ASSUME TableOK(Table), NEW f \in Fds, sock[f] # Closed, NEW s \in OpenSocket,
           sock' = [sock EXCEPT ![f] = s],
           UNCHANGED <<pClients, watchedfds, connectionsActive>>
    PROVE  TableOK(Table)'
<1>1. Table' = [Table EXCEPT !.sock = [@ EXCEPT ![f] = s]]
  BY DEF Table
<1>2. TableOK([Table EXCEPT !.sock = [@ EXCEPT ![f] = s]])
  BY TouchKeepsTable, TableFields
<1> QED BY <1>1, <1>2

\* What a client does leaves its descriptor open and the table alone.
LEMMA ClientKeepsTable ==
    ASSUME TableOK(Table), ClientStep, UNCHANGED <<pClients, watchedfds, connectionsActive>>
    PROVE  TableOK(Table)'
<1>1. sock \in [Fds -> {Closed} \cup OpenSocket]
  BY TableFields DEF TableOK, TableType
<1>2. CASE UNCHANGED sock
  BY <1>2 DEF Table
<1>3. CASE \E f \in Fds, s \in OpenSocket : sock[f] # Closed /\ sock' = [sock EXCEPT ![f] = s]
  BY <1>3, TouchStep
<1> QED BY <1>1, <1>2, <1>3, ClientTouches

\* ServerRun ages the connections and keeps who owns what.
LEMMA RunKeepsTable ==
    ASSUME TableOK(Table), pClients' = [k \in Slots |-> Aged(pClients[k])],
           UNCHANGED <<watchedfds, connectionsActive, sock>>
    PROVE  TableOK(Table)' /\ \A k \in Slots : pClients'[k].inUse = pClients[k].inUse
<1>1. Table \in TableType /\ pClients \in [Slots -> ClientType]
  BY TableFields DEF TableOK, TableType
<1>2. ASSUME NEW c \in ClientType
      PROVE  Aged(c) \in ClientType /\ Aged(c).inUse = c.inUse /\ Aged(c).socket = c.socket
  <2>1. Min({c.idleTime + 1, MaxIdle}) \in 0..MaxIdle
    <3>1. {c.idleTime + 1, MaxIdle} \in SUBSET Nat
      BY Bounds DEF ClientType
    <3>2. /\ Min({c.idleTime + 1, MaxIdle}) \in {c.idleTime + 1, MaxIdle}
          /\ Min({c.idleTime + 1, MaxIdle}) <= MaxIdle
      BY <3>1, MinIsLeast
    <3> QED BY <3>1, <3>2, Bounds
  <2>2. 0 \in 0..MaxIdle
    BY Bounds
  <2> QED BY <2>1, <2>2 DEF Aged, ClientType
<1>3. /\ pClients' \in [Slots -> ClientType]
      /\ \A k \in Slots : /\ pClients'[k].inUse = pClients[k].inUse
                          /\ pClients'[k].socket = pClients[k].socket
  BY <1>1, <1>2
<1>4. Table' \in TableType
  BY <1>1, <1>3 DEF Table, TableType
<1>5. TableOK(Table')
  <2>1. /\ Table'.watched = Table.watched /\ Table'.sock = Table.sock
        /\ Table'.clients = pClients' /\ Table.clients = pClients
    BY DEF Table
  <2> QED BY <1>3, <1>4, <2>1, SameOwners
<1> QED BY <1>3, <1>5

\* An accept fills a slot that was free and counts it.
LEMMA AcceptFacts ==
    ASSUME PollInv, PollAccept
    PROVE  /\ TableOK(Table)' /\ connectionsActive' = 1
           /\ \E k \in Slots : pClients'[k].inUse
           /\ \A k \in Slots : pClients[k].inUse => pClients'[k].inUse
           /\ backlog' \in 0..Backlog
<1>1. TableOK(Table) /\ connectionsActive = 0
  BY DEF PollInv, CountOK, PollAccept
<1>2. MakeRoom(Table) = Table /\ FreeSlots(Table) # {}
  BY <1>1, NeverFull, TableFields DEF PollAccept, Accepts
<1> DEFINE k == Min(FreeSlots(Table))
           fd == Min({f \in Fds : Table.sock[f] = Closed})
           u == Establish(Table, k, fd)
<1>3. k \in FreeSlots(Table)
  <2>1. FreeSlots(Table) \in SUBSET Nat
    BY Bounds DEF FreeSlots
  <2> QED BY <1>2, <2>1, MinIsLeast
<1>4. fd \in Fds /\ Table.sock[fd] = Closed
  <2> DEFINE S == {f \in Fds : Table.sock[f] = Closed}
  <2>1. S \in SUBSET Nat /\ S # {}
    BY <1>1, <1>2, Bounds, FreeFd
  <2>2. Min(S) \in S
    BY <2>1, MinIsLeast
  <2> QED BY <2>2
<1>5. SetTable(u) /\ backlog' = backlog - 1
  BY <1>2 DEF PollAccept, NewConnection
<1> HIDE DEF k, fd
<1>6. TableOK(u)
  BY <1>1, <1>3, <1>4, EstablishKeepsTable
<1>7. Table' = u
  BY <1>5, <1>6, SetTableFact DEF TableOK
<1>8. /\ pClients' = [pClients EXCEPT ![k] = Connection(fd)]
      /\ connectionsActive' = connectionsActive + 1
  BY <1>5 DEF SetTable, Establish, Table
<1>9. k \in Slots /\ pClients \in [Slots -> ClientType]
  BY <1>1, <1>3, Bounds, TableFields DEF FreeSlots, TableOK, TableType
<1>10. backlog' \in 0..Backlog
  BY <1>5, BoundsAssumption DEF PollInv, LoopOK, PollAccept, Wanted
<1>11. \A m \in Slots : pClients'[m] = IF m = k THEN Connection(fd) ELSE pClients[m]
  BY <1>8, <1>9
<1>12. TableOK(Table)'
  BY <1>6, <1>7
<1>13. connectionsActive' = 1
  BY <1>1, <1>8
<1> QED BY <1>4, <1>9, <1>10, <1>11, <1>12, <1>13, NoConnectionType

LEMMA PollInvNext == PollInv /\ [Next]_vars => PollInv'
<1> SUFFICES ASSUME PollInv, [Next]_vars PROVE PollInv'
  OBVIOUS
<1>0. TableOK(Table) /\ CountOK /\ LoopOK /\ Table \in TableType
  BY DEF PollInv, TableOK
<1> USE TableFields
<1>1. CASE CreateListeningSocket
  <2>1. Table' = Table
    BY <1>1 DEF CreateListeningSocket, Table, sockVars
  <2>2. CountOK'
    BY <1>0, <1>1 DEF CountOK, CreateListeningSocket
  <2>3. LoopOK'
    BY <1>0, <1>1 DEF LoopOK, CreateListeningSocket, sockVars
  <2> QED BY <1>0, <2>1, <2>2, <2>3 DEF PollInv
<1>2. CASE ServerRun
  <2>1. TableOK(Table)' /\ \A k \in Slots : pClients'[k].inUse = pClients[k].inUse
    BY <1>0, <1>2, RunKeepsTable DEF ServerRun, sockVars
  <2>2. CountOK'
    BY <1>0, <1>2, <2>1 DEF CountOK, ServerRun
  <2>3. LoopOK'
    BY <1>0, <1>2 DEF LoopOK, ServerRun, sockVars
  <2> QED BY <2>1, <2>2, <2>3 DEF PollInv
<1>3. CASE PollAccept
  <2>1. /\ TableOK(Table)' /\ connectionsActive' = 1 /\ backlog' \in 0..Backlog
        /\ \E k \in Slots : pClients'[k].inUse
    BY <1>3, AcceptFacts
  <2>2. pc' = "recv" /\ i' = 0 /\ UNCHANGED <<listening, retry>>
    BY <1>3, <2>1 DEF PollAccept, EnterLoops
  <2>3. CountOK'
    BY <2>1, <2>2 DEF CountOK
  <2>4. LoopOK'
    BY <1>0, <2>1, <2>2, Bounds DEF LoopOK
  <2> QED BY <2>1, <2>3, <2>4 DEF PollInv
<1>4. CASE PollNoAccept
  <2>1. connectionsActive = 0 /\ MakeRoom(Table) = Table
    BY <1>0, <1>4, NeverFull DEF CountOK, PollNoAccept
  <2>2. SetTable(Table)
    BY <1>4, <2>1 DEF PollNoAccept
  <2>3. Table' = Table
    BY <1>0, <2>2, SetTableFact
  <2>4. pc' = "xmit" /\ i' = 0 /\ UNCHANGED <<listening, retry, backlog>>
        /\ connectionsActive' = 0
    BY <1>4, <2>1, <2>2 DEF PollNoAccept, EnterLoops, SetTable
  <2>5. CountOK'
    BY <2>4 DEF CountOK
  <2>6. LoopOK'
    BY <1>0, <2>4, Bounds DEF LoopOK
  <2> QED BY <1>0, <2>3, <2>5, <2>6 DEF PollInv
<1>5. CASE ReceiveLoop
  <2> DEFINE u == IF pClients[i].inUse THEN Received(Table, i) ELSE Table
  <2>1. i \in Slots /\ connectionsActive \in {0, 1}
    BY <1>0 DEF LoopOK, CountOK
  <2>2. /\ TableOK(u) /\ u.active \in {0, connectionsActive}
        /\ u.active = 1 => \A m \in Slots : u.clients[m].inUse = pClients[m].inUse
    <3>1. CASE pClients[i].inUse
      BY <1>0, <2>1, <3>1, ReceivedFacts
    <3>2. CASE ~pClients[i].inUse
      BY <1>0, <2>1, <3>2
    <3> QED BY <3>1, <3>2
  <2>3. SetTable(u)
    BY <1>5 DEF ReceiveLoop
  <2> HIDE DEF u
  <2>4. Table' = u /\ connectionsActive' = u.active /\ pClients' = u.clients
    BY <2>2, <2>3, SetTableFact DEF TableOK, SetTable
  <2>5. /\ i' \in Slots /\ UNCHANGED <<listening, retry, backlog>>
        /\ pc' = IF i' = 0 THEN "xmit" ELSE "recv"
    BY <1>5, <2>1, NextSlotInRange DEF ReceiveLoop
  <2>6. CountOK'
    BY <1>0, <2>1, <2>2, <2>4, <2>5 DEF CountOK
  <2>7. LoopOK'
    BY <1>0, <2>5 DEF LoopOK
  <2> QED BY <2>2, <2>4, <2>6, <2>7 DEF PollInv
<1>6. CASE TransmitPendingLoop
  <2>1. i \in Slots /\ connectionsActive \in {0, 1}
    BY <1>0 DEF LoopOK, CountOK
  <2>2. CASE pClients[i].inUse
    <3>1. i # 0
      BY <1>0, <2>2, Bounds DEF TableOK, SlotsOK
    <3>2. SetTable(Table) /\ pc' = "send" /\ retry' = 0
          /\ UNCHANGED <<i, listening, backlog>>
      BY <1>6, <2>2 DEF TransmitPendingLoop
    <3>3. Table' = Table /\ pClients' = pClients /\ connectionsActive' = connectionsActive
      BY <1>0, <3>2, SetTableFact DEF SetTable
    <3>4. CountOK'
      BY <1>0, <1>6, <3>1, <3>2, <3>3 DEF CountOK, TransmitPendingLoop
    <3>5. LoopOK'
      BY <1>0, <2>2, <3>2, <3>3 DEF LoopOK, MaxRetry
    <3> QED BY <1>0, <3>3, <3>4, <3>5 DEF PollInv
  <2>3. CASE ~pClients[i].inUse
    <3> DEFINE u == CloseConnection(Table, i)
    <3>1. TableOK(u) /\ u.active = 0
      BY <1>0, <2>1, <2>3, CloseKeepsTable, CloseFree
    <3>2. SetTable(u) /\ NextSlot /\ UNCHANGED <<retry, listening, backlog>>
      BY <1>6, <2>3 DEF TransmitPendingLoop
    <3> HIDE DEF u
    <3>3. Table' = u /\ connectionsActive' = 0
      BY <3>1, <3>2, SetTableFact DEF TableOK, SetTable
    <3>4. i' \in Slots /\ pc' \in {"run", "xmit"}
      BY <2>1, <3>2, NextSlotInRange DEF NextSlot
    <3>5. CountOK'
      BY <3>3 DEF CountOK
    <3>6. LoopOK'
      BY <1>0, <3>2, <3>4 DEF LoopOK
    <3> QED BY <3>1, <3>3, <3>5, <3>6 DEF PollInv
  <2> QED BY <2>2, <2>3
<1>7. CASE SendSome
  <2>0. pc = "send"
    BY <1>7 DEF SendSome
  <2>1. /\ connectionsActive = 0 /\ SendFd \in Fds
        /\ sock[SendFd] # Closed /\ sock[SendFd] \in OpenSocket
    BY <2>0, SendingFacts
  <2> DEFINE s == [sock[SendFd] EXCEPT !.room = @ - 1]
             u == [Table EXCEPT !.sock = [@ EXCEPT ![SendFd] = s]]
  <2>2. s \in OpenSocket
    BY <1>7, <2>1, Bounds DEF SendSome, OpenSocket
  <2> HIDE DEF s
  <2>3. TableOK(u)
    BY <1>0, <2>1, <2>2, TouchKeepsTable
  <2>4. u.active = 0 /\ u.clients = pClients
    BY <2>1 DEF Table
  <2>5. u = [Table EXCEPT !.sock[SendFd].room = @ - 1]
    BY DEF Table, s
  <2>6. SetTable(u) /\ NextSlot /\ UNCHANGED <<listening, retry, backlog>>
    BY <1>7, <2>4, <2>5 DEF SendSome, CloseConnection
  <2> HIDE DEF u
  <2>7. Table' = u /\ connectionsActive' = 0
    BY <2>3, <2>4, <2>6, SetTableFact DEF TableOK, SetTable
  <2>8. i' \in Slots /\ pc' \in {"run", "xmit"}
    BY <1>0, <2>6, NextSlotInRange DEF NextSlot, LoopOK
  <2>9. CountOK'
    BY <2>7 DEF CountOK
  <2>10. LoopOK'
    BY <1>0, <2>6, <2>8 DEF LoopOK
  <2> QED BY <2>3, <2>7, <2>9, <2>10 DEF PollInv
<1>8. CASE SendBlocks
  <2>1. Table' = Table
    BY <1>8 DEF SendBlocks, Table, sockVars
  <2>2. CountOK'
    BY <1>0, <1>8 DEF CountOK, SendBlocks
  <2>3. retry' \in 0..(MaxRetry + 1)
    <3>1. retry \in Nat /\ {retry + 1, MaxRetry + 1} \in SUBSET Nat
      BY <1>0 DEF LoopOK, MaxRetry
    <3>2. retry' \in {retry + 1, MaxRetry + 1} /\ retry' <= MaxRetry + 1
      BY <1>8, <3>1, MinIsLeast DEF SendBlocks
    <3> QED BY <3>1, <3>2 DEF MaxRetry
  <2>4. LoopOK'
    BY <1>0, <1>8, <2>3 DEF LoopOK, SendBlocks, sockVars
  <2> QED BY <1>0, <2>1, <2>2, <2>4 DEF PollInv
<1>9. CASE SendFails
  <2>0. pc = "send"
    BY <1>9 DEF SendFails
  <2>1. /\ connectionsActive = 0 /\ SendFd \in Fds
        /\ sock[SendFd] # Closed /\ sock[SendFd] \in OpenSocket
    BY <2>0, SendingFacts
  <2> DEFINE s == [sock[SendFd] EXCEPT !.peer = "broken"]
  <2>2. s \in OpenSocket
    BY <2>1 DEF OpenSocket, Peers
  <2>3. sock' = [sock EXCEPT ![SendFd] = s]
    BY <1>9 DEF SendFails
  <2>4. TableOK(Table)'
    BY <1>0, <1>9, <2>1, <2>2, <2>3, TouchStep DEF SendFails
  <2>5. CountOK'
    BY <1>0, <1>9, <2>1 DEF CountOK, SendFails
  <2>6. LoopOK'
    BY <1>0, <1>9 DEF LoopOK, SendFails
  <2> QED BY <2>4, <2>5, <2>6 DEF PollInv
<1>10. CASE Environment
  <2>1. TableOK(Table)'
    BY <1>0, <1>10, ClientKeepsTable DEF Environment
  <2>2. backlog' \in 0..Backlog
    BY <1>0, <1>10, ClientBacklog DEF Environment, LoopOK
  <2>3. CountOK'
    BY <1>0, <1>10 DEF CountOK, Environment
  <2>4. LoopOK'
    BY <1>0, <1>10, <2>2 DEF LoopOK, Environment
  <2> QED BY <2>1, <2>3, <2>4 DEF PollInv
<1>11. CASE UNCHANGED vars
  <2>1. Table' = Table
    BY <1>11 DEF vars, Table, sockVars
  <2>2. CountOK' /\ LoopOK'
    BY <1>0, <1>11 DEF vars, CountOK, LoopOK, sockVars
  <2> QED BY <1>0, <2>1, <2>2 DEF PollInv
<1> QED BY <1>1, <1>2, <1>3, <1>4, <1>5, <1>6, <1>7, <1>8, <1>9, <1>10, <1>11
        DEF Next, ServerStep

----------------------------------------------------------------------------
(* The properties                                                           *)

\* What the invariant says of the table is what TableAgrees says of it with
\* cardinalities.
LEMMA PollInvImplies == PollInv => TableAgrees
<1> SUFFICES ASSUME PollInv PROVE TableAgrees
  OBVIOUS
<1> USE TableFields
<1>0. TableOK(Table) /\ CountOK /\ LoopOK
  BY DEF PollInv
<1>1. TypeOK
  <2>1. /\ pClients \in [Slots -> ClientType] /\ watchedfds \in [Watched -> Fds \cup {-1}]
        /\ sock \in [Fds -> {Closed} \cup OpenSocket]
    BY <1>0 DEF TableOK, TableType
  <2>2. connectionsActive \in 0..MAX_CONNECTIONS /\ i \in 0..MAX_CONNECTIONS
    BY <1>0, Bounds DEF CountOK, LoopOK
  <2> QED BY <1>0, <2>1, <2>2
          DEF TypeOK, SockType, LoopOK, ClientType, OpenSocket
<1>2. WatchMatchesTable
  <2>1. \A k, m \in InUse : pClients[k].socket = pClients[m].socket => k = m
    BY <1>0 DEF TableOK, OwnersOK, SlotsOK, InUse
  <2>2. {pClients[k].socket : k \in InUse} = OpenFds
    <3>1. ASSUME NEW k \in InUse PROVE pClients[k].socket \in OpenFds
      <4>1. pClients[k].socket \in Fds
        BY <1>0 DEF TableOK, TableType, ClientType, SlotsOK, InUse
      <4> QED BY <1>0, <4>1 DEF TableOK, OwnersOK, InUse, OpenFds
    <3>2. ASSUME NEW f \in OpenFds PROVE \E k \in InUse : pClients[k].socket = f
      BY <1>0, Bounds, OwnerSlot DEF OpenFds, InUse
    <3> QED BY <3>1, <3>2
  <2>3. ASSUME NEW f \in Fds
        PROVE  Cardinality(findIndex(Table, f)) = (IF f \in OpenFds THEN 1 ELSE 0)
    <3>1. CASE f \in OpenFds
      <4>1. PICK k \in Watched : watchedfds[k] = f
        BY <1>0, <3>1 DEF TableOK, WatchOK, OpenFds
      <4>2. findIndex(Table, f) = {k}
        BY <1>0, <4>1, Bounds DEF TableOK, WatchOK, findIndex
      <4> QED BY <3>1, <4>2, FS_Singleton
    <3>2. CASE f \notin OpenFds
      <4>1. findIndex(Table, f) = {}
        BY <1>0, <3>2 DEF TableOK, WatchOK, OpenFds, findIndex
      <4> QED BY <3>2, <4>1, FS_EmptySet
    <3> QED BY <3>1, <3>2
  <2> QED BY <2>1, <2>2, <2>3 DEF WatchMatchesTable
<1>3. CountNeverHigh
  <2>1. IsFiniteSet(InUse)
    <3>1. IsFiniteSet(0..(MAX_CONNECTIONS - 1))
      BY Bounds, FS_Interval
    <3> QED BY <3>1, FS_Subset DEF InUse, Slots
  <2>2. Cardinality(InUse) \in Nat /\ (Cardinality(InUse) = 0 <=> InUse = {})
    BY <2>1, FS_CardinalityType, FS_EmptySet
  <2>3. connectionsActive = 0 \/ (connectionsActive = 1 /\ InUse # {})
    BY <1>0 DEF CountOK, InUse
  <2> QED BY <2>2, <2>3 DEF CountNeverHigh
<1> QED BY <1>1, <1>2, <1>3 DEF TableAgrees

\* The table of connections, the array handed to poll, connectionsActive and
\* the open descriptors agree at every step of the main loop, for every table
\* size, although connectionsActive is at most 1 and CloseConnection is called
\* for every free slot in every round.
THEOREM PollTableAgrees == Spec => []TableAgrees
<1>1. Spec => []PollInv
  BY PollInvInit, PollInvNext, PTL DEF Spec
<1> QED BY <1>1, PollInvImplies, PTL

\* The limit on connections is never what stops NewConnection: when it is
\* called the counter is 0 however many slots are in use, so the eviction of an
\* idle connection is dead code.
THEOREM PollNeverEvicts == Spec => [](pc = "poll" => ~Full(Table))
<1>1. Spec => []PollInv
  BY PollInvInit, PollInvNext, PTL DEF Spec
<1>2. PollInv => (pc = "poll" => ~Full(Table))
  BY NeverFull, TableFields DEF PollInv, CountOK
<1> QED BY <1>1, <1>2, PTL
===============================================================================
