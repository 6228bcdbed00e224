-------------------------- MODULE SelectServerProofs --------------------------
(***************************************************************************)
(* Proofs about SelectServer, for every table size, number of reserved     *)
(* slots, set of descriptors, registration of callbacks and outcome of     *)
(* pthread_create.                                                         *)
(***************************************************************************)
EXTENDS SelectServer, FiniteSetTheorems, TLAPS

(* The sockets and Min                                                     *)

OpenSocket == [peer : Peers, data : BOOLEAN, room : 0..Room]

\* A non-empty set of numbers has a least element, and Min is it.
LEMMA MinIsLeast ==
    ASSUME NEW S \in SUBSET Nat, S # {}
    PROVE  Min(S) \in S /\ \A y \in S : Min(S) <= y
<1>1. \E x \in S : \A y \in S : ~(<<y, x>> \in OpToRel(<, Nat))
  BY NatLessThanWellFounded, WFMin, Zenon
<1>2. PICK x \in S : \A y \in S : ~(<<y, x>> \in OpToRel(<, Nat))
  BY <1>1
<1>3. \A y \in S : ~(y < x)
  <2> SUFFICES ASSUME NEW y \in S, y < x PROVE FALSE
    OBVIOUS
  <2>1. <<y, x>> \in Nat \X Nat /\ <<y, x>>[1] < <<y, x>>[2]
    OBVIOUS
  <2>2. <<y, x>> \in OpToRel(<, Nat)
    BY <2>1, Zenon DEF OpToRel
  <2> QED BY <1>2, <2>2
<1>4. \A y \in S : x <= y
  BY <1>3
<1> QED BY <1>4 DEF Min

\* A closed socket is not one a connection can have.
LEMMA ClosedIsNotOpen == Closed \notin OpenSocket
BY DEF Closed, OpenSocket, Peers

\* What recv leaves of an open socket is an open socket.
LEMMA AfterRecvOpen == ASSUME NEW s \in OpenSocket PROVE AfterRecv(s) \in OpenSocket
BY DEF AfterRecv, OpenSocket, Peers

\* When every descriptor is owned by a slot of a finite set S, one slot is
\* free, and S is no larger than Fds, two descriptors have the same owner.
LEMMA SharedOwner ==
    ASSUME NEW S, IsFiniteSet(S), Cardinality(S) <= Cardinality(Fds),
           NEW free \in S, NEW g \in [Fds -> S \ {free}]
    PROVE  \E x, y \in Fds : x # y /\ g[x] = g[y]
<1>1. IsFiniteSet(S \ {free}) /\ Cardinality(S \ {free}) = Cardinality(S) - 1
  BY FS_RemoveElement
<1>2. IsFiniteSet(Fds) /\ Cardinality(Fds) \in Nat /\ Cardinality(S) \in Nat
  BY FdsAssumption, FS_CardinalityType
<1>3. Cardinality(S \ {free}) < Cardinality(Fds)
  BY <1>1, <1>2
<1> QED BY <1>1, <1>2, <1>3, FS_PigeonHole

\* What a client does changes at most one socket, which is open and stays open.
LEMMA ClientTouches ==
    ASSUME sock \in [Fds -> {Closed} \cup OpenSocket], ClientStep
    PROVE  \/ UNCHANGED sock
           \/ \E f \in Fds, s \in OpenSocket :
                 sock[f] # Closed /\ sock' = [sock EXCEPT ![f] = s]
<1>1. CASE Connect
  BY <1>1 DEF Connect
<1>2. ASSUME NEW f \in Fds,
             ClientSends(f) \/ ClientCloses(f) \/ ClientResets(f) \/ ClientReads(f)
      PROVE  sock[f] # Closed /\ \E s \in OpenSocket : sock' = [sock EXCEPT ![f] = s]
  <2>1. sock[f] # Closed /\ sock[f] \in OpenSocket
    BY <1>2 DEF ClientSends, ClientCloses, ClientResets, ClientReads, Closed
  <2>2. CASE ClientSends(f)
    <3>1. [sock[f] EXCEPT !.data = TRUE] \in OpenSocket
      BY <2>1 DEF OpenSocket
    <3> QED BY <2>1, <2>2, <3>1 DEF ClientSends
  <2>3. CASE ClientCloses(f)
    <3>1. [sock[f] EXCEPT !.peer = "fin"] \in OpenSocket
      BY <2>1 DEF OpenSocket, Peers
    <3> QED BY <2>1, <2>3, <3>1 DEF ClientCloses
  <2>4. CASE ClientResets(f)
    <3>1. [sock[f] EXCEPT !.peer = "reset"] \in OpenSocket
      BY <2>1 DEF OpenSocket, Peers
    <3> QED BY <2>1, <2>4, <3>1 DEF ClientResets
  <2>5. CASE ClientReads(f)
    <3>1. [sock[f] EXCEPT !.room = Room] \in OpenSocket
      BY <2>1, BoundsAssumption DEF OpenSocket
    <3> QED BY <2>1, <2>5, <3>1 DEF ClientReads
  <2> QED BY <1>2, <2>2, <2>3, <2>4, <2>5
<1> QED BY <1>1, <1>2 DEF ClientStep

\* And the backlog keeps its bound.
LEMMA ClientBacklog ==
    ASSUME backlog \in 0..Backlog, ClientStep
    PROVE  backlog' \in 0..Backlog
BY BoundsAssumption
DEF ClientStep, Connect, ClientSends, ClientCloses, ClientResets, ClientReads

-----------------------------------------------------------------------------
(* The table of connections                                                *)

ClientType == [inUse : BOOLEAN, socket : Fds \cup {-1}, state : States,
               idleTime : 0..MaxIdle, waitTick : WaitTicks, running : BOOLEAN]

TableType ==
    [clients : [Slots -> ClientType], active : Nat, sock : [Fds -> {Closed} \cup OpenSocket]]

\* A slot in use is outside the reserved ones and has a descriptor, a free one
\* has none.
SlotsOK(t) ==
    \A k \in Slots :
        /\ t.clients[k].inUse => k >= reserveConn /\ t.clients[k].socket # -1
        /\ ~t.clients[k].inUse => t.clients[k].socket = -1

\* No two slots have the same descriptor, and those of the table are the open ones.
OwnersOK(t) ==
    /\ \A k, m \in Slots :
          t.clients[k].socket # -1 /\ t.clients[k].socket = t.clients[m].socket => k = m
    /\ \A f \in Fds : t.sock[f] # Closed <=> \E k \in Slots : t.clients[k].socket = f

UsedSlots(t) == {k \in Slots : t.clients[k].inUse}

TableOK(t) ==
    t \in TableType /\ SlotsOK(t) /\ OwnersOK(t) /\ t.active <= Cardinality(UsedSlots(t))

LoopOK ==
    /\ pc \in {"run", "test", "set", "select", "recv", "xmit", "killed"}
    /\ i \in Slots /\ again \in BOOLEAN /\ origState \in States
    /\ listening \in BOOLEAN /\ callback \in Callbacks
    /\ pc \in {"set", "select"} => i = 0
    /\ backlog \in 0..Backlog
    /\ readReady \subseteq Fds /\ writeReady \subseteq Fds /\ needWrite \in BOOLEAN
    /\ hook \in [Slots -> {"none", "running", "returned"}]

\* A connection that a hook works on is not among those ReceiveLoop reads from.
ReadyOK ==
    pc \in {"select", "recv"} =>
        \A k \in Slots : pClients[k].running => pClients[k].socket \notin readReady

NoHook == \A k \in Slots : hook[k] = "none"

\* Every connection is as NewConnection left it.
AllNew == NoHook /\ \A k \in Slots : pClients[k].inUse => pClients[k].state = "eNewConnection"

\* The counter outlives a round only if the connections are all new: nothing was
\* watched for writing.  Otherwise TransmitPendingLoop uses it up at the reserved
\* slots 0 and 1, which are free.
CountOK ==
    /\ pc \in {"run", "set", "select"} => connectionsActive = 0 \/ (connectionsActive = 1 /\ AllNew)
    /\ pc = "test" => connectionsActive = 0
    /\ pc = "select" /\ InUse # {} => needWrite
    /\ pc \in {"select", "recv"} /\ ~needWrite => readReady = {}
    /\ pc = "recv" /\ ~needWrite => connectionsActive \in {0, 1} /\ AllNew
    /\ pc = "recv" \/ (pc = "xmit" /\ i = 0) =>
          connectionsActive \in {0, 1} \/ (connectionsActive = 2 /\ NoHook)
    /\ pc = "xmit" /\ i # 0 =>
          connectionsActive = 0 \/ (i = 1 /\ connectionsActive = 1 /\ NoHook)

\* The inductive invariant.
SelectInv == TableOK(Table) /\ LoopOK /\ ReadyOK /\ CountOK /\ HookOwnsSlot

----------------------------------------------------------------------------
(* Facts about the constants                                                *)

LEMMA Bounds ==
    /\ reserveConn \in Nat /\ maxConnections \in Nat
    /\ reserveConn >= 2 /\ maxConnections > reserveConn + 1
    /\ 0 \in Slots /\ Slots \subseteq Nat /\ \A k \in Slots : k < maxConnections
    /\ reserveConn..(maxConnections - 1) \subseteq Slots
    /\ Fds \subseteq Nat /\ -1 \notin Fds /\ Room \in Nat /\ MaxIdle \in Nat
    /\ IsFiniteSet(Slots)
<1>1. IsFiniteSet(Slots)
  BY SelectAssumption, FS_Interval DEF Slots
<1> QED BY <1>1, SelectAssumption, FdsAssumption, BoundsAssumption DEF Slots

LEMMA ConnectionType ==
    /\ Connection(-1) \in ClientType /\ ~Connection(-1).inUse /\ Connection(-1).socket = -1
    /\ \A fd \in Fds : /\ Connection(fd) \in ClientType
                       /\ Connection(fd).inUse /\ Connection(fd).socket = fd
                       /\ Connection(fd).state = "eNewConnection" /\ ~Connection(fd).running
<1>1. Connection(-1) = [inUse |-> FALSE, socket |-> -1, state |-> "eIdle", idleTime |-> 0,
                        waitTick |-> "invalid", running |-> FALSE]
  BY DEF Connection
<1>2. \A fd \in Fds :
         Connection(fd) = [inUse |-> TRUE, socket |-> fd, state |-> "eNewConnection",
                           idleTime |-> 0, waitTick |-> "invalid", running |-> FALSE]
  BY Bounds DEF Connection
<1>3. 0 \in 0..MaxIdle
  BY Bounds
<1>4. "eIdle" \in States /\ "eNewConnection" \in States /\ "invalid" \in WaitTicks
  BY DEF States, WaitTicks
<1>5. ASSUME NEW u \in BOOLEAN, NEW fd \in Fds \cup {-1}, NEW st \in States
      PROVE  [inUse |-> u, socket |-> fd, state |-> st, idleTime |-> 0,
              waitTick |-> "invalid", running |-> FALSE] \in ClientType
  BY <1>3, <1>4 DEF ClientType
<1>6. Connection(-1) \in ClientType /\ \A fd \in Fds : Connection(fd) \in ClientType
  BY <1>1, <1>2, <1>4, <1>5
<1> QED BY <1>1, <1>2, <1>6

LEMMA NextSlotInRange ==
    ASSUME NEW j \in Slots
    PROVE  /\ (j + 1) % maxConnections \in Slots
           /\ (j + 1) % maxConnections # 0 => (j + 1) % maxConnections = j + 1
<1>1. j \in Nat /\ j + 1 <= maxConnections
  BY Bounds
<1>2. CASE j + 1 = maxConnections
  <2>1. (j + 1) % maxConnections = 0
    BY <1>2, Bounds
  <2> QED BY <2>1, Bounds
<1>3. CASE j + 1 < maxConnections
  <2>1. (j + 1) % maxConnections = j + 1
    BY <1>1, <1>3, Bounds
  <2>2. j + 1 \in 0..(maxConnections - 1)
    BY <1>1, <1>3, SelectAssumption
  <2> QED BY <2>1, <2>2 DEF Slots
<1>4. j + 1 = maxConnections \/ j + 1 < maxConnections
  BY <1>1, SelectAssumption
<1> QED BY <1>2, <1>3, <1>4

----------------------------------------------------------------------------
(* What the operations do to a consistent table                             *)

\* A step that keeps the slots' and the sockets' ownership keeps the table
\* consistent, whatever it does to states, times and open sockets.
LEMMA SameOwners ==
    ASSUME NEW t, TableOK(t), NEW u \in TableType, u.active = t.active,
           \A k \in Slots : /\ u.clients[k].inUse = t.clients[k].inUse
                            /\ u.clients[k].socket = t.clients[k].socket,
           \A f \in Fds : u.sock[f] = Closed <=> t.sock[f] = Closed
    PROVE  TableOK(u)
<1>1. UsedSlots(u) = UsedSlots(t)
  BY DEF UsedSlots
<1> QED BY <1>1 DEF TableOK, SlotsOK, OwnersOK

\* An open descriptor's socket changes and stays open.
LEMMA TouchKeepsTable ==
    ASSUME NEW t, TableOK(t), NEW f \in Fds, t.sock[f] # Closed, NEW s \in OpenSocket
    PROVE  TableOK([t EXCEPT !.sock = [@ EXCEPT ![f] = s]])
<1> DEFINE u == [t EXCEPT !.sock = [@ EXCEPT ![f] = s]]
<1>1. t \in TableType
  BY DEF TableOK
<1>2. u \in TableType
  BY <1>1 DEF TableType
<1>3. u.active = t.active /\ u.clients = t.clients
  BY <1>1 DEF TableType
<1>4. \A g \in Fds : u.sock[g] = Closed <=> t.sock[g] = Closed
  BY <1>1, ClosedIsNotOpen DEF TableType
<1>5. TableOK(u)
  <2> HIDE DEF u
  <2> QED BY <1>2, <1>3, <1>4, SameOwners
<1> QED BY <1>5

\* A slot's connection changes and keeps its descriptor.
LEMMA ClientKeepsTable ==
    ASSUME NEW t, TableOK(t), NEW k \in Slots, NEW c \in ClientType,
           c.inUse = t.clients[k].inUse, c.socket = t.clients[k].socket
    PROVE  TableOK([t EXCEPT !.clients = [@ EXCEPT ![k] = c]])
<1> DEFINE u == [t EXCEPT !.clients = [@ EXCEPT ![k] = c]]
<1>1. t \in TableType
  BY DEF TableOK
<1>2. u \in TableType
  BY <1>1 DEF TableType
<1>3. u.active = t.active /\ u.sock = t.sock
  BY <1>1 DEF TableType
<1>4. \A m \in Slots : /\ u.clients[m].inUse = t.clients[m].inUse
                       /\ u.clients[m].socket = t.clients[m].socket
  BY <1>1 DEF TableType
<1>5. TableOK(u)
  <2> HIDE DEF u
  <2> QED BY <1>2, <1>3, <1>4, SameOwners
<1> QED BY <1>5

\* CloseConnection keeps the table consistent, for a slot in use and for a free
\* one: the counter goes down with the slots in use, or before them.
LEMMA CloseKeepsTable ==
    ASSUME NEW t, TableOK(t), NEW k \in Slots
    PROVE  TableOK(CloseConnection(t, k))
<1>1. CASE t.active = 0
  BY <1>1 DEF CloseConnection
<1>2. CASE t.active # 0
  <2> DEFINE fd == t.clients[k].socket
             u == CloseConnection(t, k)
  <2>1. /\ u.clients = [t.clients EXCEPT ![k] = Connection(-1)]
        /\ u.active = t.active - 1
        /\ u.sock = [f \in Fds |-> IF f = fd THEN Closed ELSE t.sock[f]]
        /\ u = [clients |-> u.clients, active |-> u.active, sock |-> u.sock]
    BY <1>2 DEF CloseConnection
  <2>2. /\ t.clients \in [Slots -> ClientType] /\ t.active \in Nat
        /\ t.sock \in [Fds -> {Closed} \cup OpenSocket]
    BY DEF TableOK, TableType
  <2>3. fd \in Fds \cup {-1}
    BY <2>2 DEF ClientType
  <2>5. u.clients \in [Slots -> ClientType]
        /\ \A m \in Slots : u.clients[m] = IF m = k THEN Connection(-1) ELSE t.clients[m]
    BY <2>1, <2>2, ConnectionType
  <2>6. u.sock \in [Fds -> {Closed} \cup OpenSocket]
    BY <2>1, <2>2
  <2>7. u \in TableType
    <3>1. u.active \in Nat
      BY <1>2, <2>1, <2>2
    <3> QED BY <2>1, <2>5, <2>6, <3>1 DEF TableType
  <2>8. SlotsOK(u)
    BY <2>5, ConnectionType DEF SlotsOK, TableOK
  <2>9. OwnersOK(u)
    BY <2>1, <2>2, <2>3, <2>5, ConnectionType, Bounds DEF OwnersOK, TableOK
  <2>10. u.active <= Cardinality(UsedSlots(u))
    <3>1. UsedSlots(u) = UsedSlots(t) \ {k}
      BY <2>5, ConnectionType DEF UsedSlots
    <3>2. IsFiniteSet(UsedSlots(t)) /\ IsFiniteSet(UsedSlots(u))
      BY Bounds, FS_Subset DEF UsedSlots
    <3>3. Cardinality(UsedSlots(u)) \in Nat /\ Cardinality(UsedSlots(t)) \in Nat
      BY <3>2, FS_CardinalityType
    <3>4. \/ Cardinality(UsedSlots(u)) = Cardinality(UsedSlots(t)) - 1
          \/ Cardinality(UsedSlots(u)) = Cardinality(UsedSlots(t))
      BY <3>1, <3>2, FS_RemoveElement
    <3>5. t.active <= Cardinality(UsedSlots(t))
      BY DEF TableOK
    <3> QED BY <2>1, <2>2, <3>3, <3>4, <3>5
  <2> QED BY <2>7, <2>8, <2>9, <2>10 DEF TableOK
<1> QED BY <1>1, <1>2

\* CloseConnection changes no other slot, and the counter, unless it is 0, goes down.
LEMMA CloseFacts ==
    ASSUME NEW t, TableOK(t), NEW k \in Slots
    PROVE  /\ \A m \in Slots : m # k => CloseConnection(t, k).clients[m] = t.clients[m]
           /\ t.active = 0 => CloseConnection(t, k) = t
           /\ t.active # 0 => /\ CloseConnection(t, k).active = t.active - 1
                              /\ CloseConnection(t, k).clients[k] = Connection(-1)
<1>1. t.clients \in [Slots -> ClientType]
  BY DEF TableOK, TableType
<1> QED BY <1>1 DEF CloseConnection

\* The owner of every open descriptor is a slot outside the reserved ones.
LEMMA OwnerSlot ==
    ASSUME NEW t, TableOK(t), NEW f \in Fds, t.sock[f] # Closed
    PROVE  \E k \in reserveConn..(maxConnections - 1) :
              t.clients[k].inUse /\ t.clients[k].socket = f
<1>1. PICK k \in Slots : t.clients[k].socket = f
  BY DEF TableOK, OwnersOK
<1>2. t.clients[k].inUse /\ k >= reserveConn
  BY <1>1, Bounds DEF TableOK, SlotsOK
<1> QED BY <1>1, <1>2, Bounds

\* While a slot is free there is a free descriptor for accept to return.
LEMMA FreeFd ==
    ASSUME NEW t, TableOK(t), FreeSlots(t) # {}
    PROVE  {f \in Fds : t.sock[f] = Closed} # {}
<1> SUFFICES ASSUME \A f \in Fds : t.sock[f] # Closed PROVE FALSE
  OBVIOUS
<1>1. PICK free \in reserveConn..(maxConnections - 1) : ~t.clients[free].inUse
  BY DEF FreeSlots
<1> DEFINE R == reserveConn..(maxConnections - 1)
           g == [f \in Fds |-> CHOOSE k \in R \ {free} : t.clients[k].socket = f]
<1>2. \A f \in Fds : \E k \in R \ {free} : t.clients[k].socket = f
  BY <1>1, OwnerSlot
<1>3. \A f \in Fds : g[f] \in R \ {free} /\ t.clients[g[f]].socket = f
  BY <1>2
<1>4. g \in [Fds -> R \ {free}]
  BY <1>3
<1>5. IsFiniteSet(R) /\ Cardinality(R) <= Cardinality(Fds)
  <2>1. IsFiniteSet(R) /\ Cardinality(R) = maxConnections - reserveConn
    BY Bounds, FS_Interval
  <2> QED BY <2>1, SelectAssumption
<1>6. \E x, y \in Fds : x # y /\ g[x] = g[y]
  <2> HIDE DEF g, R
  <2> QED BY <1>1, <1>4, <1>5, SharedOwner DEF R
<1> QED BY <1>3, <1>6

\* NewConnection fills a free slot and counts it.
LEMMA EstablishKeepsTable ==
    ASSUME NEW t, TableOK(t), NEW k \in FreeSlots(t), NEW fd \in Fds, t.sock[fd] = Closed
    PROVE  TableOK(Establish(t, k, fd))
<1> DEFINE u == Establish(t, k, fd)
<1>2. k \in Slots /\ k >= reserveConn /\ ~t.clients[k].inUse /\ t.clients[k].socket = -1
  BY Bounds DEF FreeSlots, TableOK, SlotsOK
<1>3. /\ u.clients = [t.clients EXCEPT ![k] = Connection(fd)]
      /\ u.active = t.active + 1
      /\ u.sock = [t.sock EXCEPT ![fd] = Accepted]
      /\ u = [clients |-> u.clients, active |-> u.active, sock |-> u.sock]
  BY DEF Establish
<1>4. /\ t.clients \in [Slots -> ClientType] /\ t.active \in Nat
      /\ t.sock \in [Fds -> {Closed} \cup OpenSocket]
  BY DEF TableOK, TableType
<1>5. Accepted \in OpenSocket
  BY Bounds DEF Accepted, OpenSocket, Peers
<1> HIDE DEF u
<1>6. u.clients \in [Slots -> ClientType]
      /\ \A m \in Slots : u.clients[m] = IF m = k THEN Connection(fd) ELSE t.clients[m]
  BY <1>2, <1>3, <1>4, ConnectionType
<1>8. u.sock \in [Fds -> {Closed} \cup OpenSocket]
      /\ \A f \in Fds : u.sock[f] # Closed <=> f = fd \/ t.sock[f] # Closed
  BY <1>3, <1>4, <1>5, ClosedIsNotOpen
<1>9. u \in TableType
  BY <1>3, <1>4, <1>6, <1>8 DEF TableType
<1>10. SlotsOK(u)
  <2> SUFFICES ASSUME NEW m \in Slots
               PROVE  /\ u.clients[m].inUse => m >= reserveConn /\ u.clients[m].socket # -1
                      /\ ~u.clients[m].inUse => u.clients[m].socket = -1
    BY DEF SlotsOK
  <2>1. CASE m = k
    BY <1>2, <1>6, <2>1, ConnectionType, Bounds
  <2>2. CASE m # k
    BY <1>6, <2>2 DEF SlotsOK, TableOK
  <2> QED BY <2>1, <2>2
<1>11. OwnersOK(u)
  <2>1. \A m \in Slots : t.clients[m].socket # fd
    BY DEF TableOK, OwnersOK
  <2> QED BY <1>2, <1>6, <1>8, <2>1, ConnectionType, Bounds DEF OwnersOK, TableOK
<1>12. u.active <= Cardinality(UsedSlots(u))
  <2>1. UsedSlots(u) = UsedSlots(t) \cup {k} /\ k \notin UsedSlots(t)
    BY <1>2, <1>6, ConnectionType DEF UsedSlots
  <2>2. IsFiniteSet(UsedSlots(t))
    BY Bounds, FS_Subset DEF UsedSlots
  <2>3. /\ Cardinality(UsedSlots(t)) \in Nat
        /\ Cardinality(UsedSlots(u)) = Cardinality(UsedSlots(t)) + 1
    BY <2>1, <2>2, FS_AddElement, FS_CardinalityType
  <2> QED BY <1>3, <1>4, <2>3 DEF TableOK
<1> QED BY <1>9, <1>10, <1>11, <1>12, Zenon DEF TableOK, u

\* The descriptor of a slot in use is open.
LEMMA UsedSocket ==
    ASSUME NEW t, TableOK(t), NEW k \in Slots, t.clients[k].inUse
    PROVE  LET fd == t.clients[k].socket IN
           fd \in Fds /\ t.sock[fd] # Closed /\ t.sock[fd] \in OpenSocket
<1> DEFINE fd == t.clients[k].socket
<1>1. /\ t.clients \in [Slots -> ClientType]
      /\ t.sock \in [Fds -> {Closed} \cup OpenSocket]
  BY DEF TableOK, TableType
<1>2. fd \in Fds
  <2>1. fd \in Fds \cup {-1}
    BY <1>1 DEF ClientType
  <2> QED BY <2>1 DEF TableOK, SlotsOK
<1>3. t.sock[fd] # Closed
  BY <1>2 DEF TableOK, OwnersOK
<1> QED BY <1>1, <1>2, <1>3

\* An operation on slot k of t that reads or writes its socket, u being the
\* table after it: slot k keeps its connection, or it is closed and counted down.
SlotStep(t, k, u) ==
    /\ TableOK(u)
    /\ \A m \in Slots : m # k => u.clients[m] = t.clients[m]
    /\ \/ /\ u.active = t.active
          /\ u.clients[k].inUse /\ u.clients[k].socket = t.clients[k].socket
          /\ u.clients[k].running = t.clients[k].running
       \/ t.active # 0 /\ u.active = t.active - 1 /\ u.clients[k] = Connection(-1)

LEMMA ReceivedFacts ==
    ASSUME NEW t, TableOK(t), NEW k \in Slots, t.clients[k].inUse
    PROVE  SlotStep(t, k, Received(t, k))
<1> DEFINE fd == t.clients[k].socket
           s == AfterRecv(t.sock[fd])
           r == [t EXCEPT !.sock = [@ EXCEPT ![fd] = s]]
<1>1. t \in TableType /\ t.clients \in [Slots -> ClientType]
  BY DEF TableOK, TableType
<1>2. fd \in Fds /\ t.sock[fd] # Closed /\ t.sock[fd] \in OpenSocket
  BY UsedSocket
<1>3. s \in OpenSocket
  BY <1>2, AfterRecvOpen
<1> HIDE DEF s
<1>4. TableOK(r)
  BY <1>2, <1>3, TouchKeepsTable
<1>5. r.clients = t.clients /\ r.active = t.active /\ r \in TableType
  BY <1>1, <1>4 DEF TableType, TableOK
<1>6. Received(t, k) = IF t.sock[fd].data THEN [r EXCEPT !.clients[k].state = "eDataReceived"]
                       ELSE CloseConnection(r, k)
  BY DEF Received, s
<1> HIDE DEF r
<1>7. CASE t.sock[fd].data
  <2> DEFINE c == [r.clients[k] EXCEPT !.state = "eDataReceived"]
             u == [r EXCEPT !.clients = [@ EXCEPT ![k] = c]]
  <2>1. c \in ClientType /\ c.inUse = r.clients[k].inUse /\ c.socket = r.clients[k].socket
        /\ c.running = r.clients[k].running
    BY <1>1, <1>5 DEF ClientType, States
  <2> HIDE DEF c
  <2>2. TableOK(u)
    BY <1>4, <2>1, ClientKeepsTable
  <2>3. u.active = r.active /\ u.clients = [r.clients EXCEPT ![k] = c]
    BY <1>5 DEF TableType
  <2>4. Received(t, k) = u
    BY <1>6, <1>7 DEF c
  <2> QED BY <1>1, <1>5, <2>1, <2>2, <2>3, <2>4 DEF SlotStep
<1>8. CASE ~t.sock[fd].data
  <2>1. Received(t, k) = CloseConnection(r, k)
    BY <1>6, <1>8
  <2>2. TableOK(CloseConnection(r, k))
    BY <1>4, CloseKeepsTable
  <2> QED BY <1>4, <1>5, <2>1, <2>2, CloseFacts DEF SlotStep
<1> QED BY <1>7, <1>8

LEMMA TransmitPendingOpen == ASSUME NEW s \in OpenSocket PROVE TransmitPending(s) \in OpenSocket
<1>1. s.room \in 0..Room
  BY DEF OpenSocket
<1>2. Max({0, s.room - 1}) \in 0..Room
  <2>1. \E x \in {0, s.room - 1} : \A y \in {0, s.room - 1} : x >= y
    BY <1>1, Bounds
  <2>2. Max({0, s.room - 1}) \in {0, s.room - 1} /\ Max({0, s.room - 1}) >= 0
    BY <2>1 DEF Max
  <2> QED BY <1>1, <2>2, Bounds
<1>3. (IF s.peer = "reset" THEN "broken" ELSE s.peer) \in Peers
  BY DEF OpenSocket, Peers
<1> QED BY <1>1, <1>2, <1>3 DEF TransmitPending, OpenSocket

\* The connection of slot k is sent to.
LEMMA SentFacts ==
    ASSUME NEW t, TableOK(t), NEW k \in Slots, t.clients[k].inUse
    PROVE  LET u == [t EXCEPT !.sock[t.clients[k].socket] = TransmitPending(@)] IN
           /\ TableOK(u) /\ u.clients = t.clients /\ u.active = t.active
           /\ SlotStep(t, k, u) /\ SlotStep(t, k, CloseConnection(u, k))
<1> DEFINE fd == t.clients[k].socket
           s == TransmitPending(t.sock[fd])
           u == [t EXCEPT !.sock = [@ EXCEPT ![fd] = s]]
<1>1. t \in TableType
  BY DEF TableOK
<1>2. fd \in Fds /\ t.sock[fd] # Closed /\ t.sock[fd] \in OpenSocket
  BY UsedSocket
<1>3. s \in OpenSocket
  BY <1>2, TransmitPendingOpen
<1>4. u = [t EXCEPT !.sock[t.clients[k].socket] = TransmitPending(@)]
  OBVIOUS
<1> HIDE DEF s
<1>5. TableOK(u)
  BY <1>2, <1>3, TouchKeepsTable
<1>6. u.clients = t.clients /\ u.active = t.active
  BY <1>1 DEF TableType
<1> HIDE DEF u
<1>7. SlotStep(t, k, u)
  BY <1>5, <1>6 DEF SlotStep
<1>8. TableOK(CloseConnection(u, k))
  BY <1>5, CloseKeepsTable
<1>9. SlotStep(t, k, CloseConnection(u, k))
  BY <1>5, <1>6, <1>8, CloseFacts DEF SlotStep
<1> QED BY <1>4, <1>5, <1>6, <1>7, <1>9

LEMMA TransmittedFacts ==
    ASSUME NEW t, TableOK(t), NEW k \in Slots, t.clients[k].inUse
    PROVE  SlotStep(t, k, Transmitted(t, k))
BY SentFacts DEF Transmitted

\* With the counter at 1 NewConnection never finds the table full, and evicts nobody.
LEMMA NeverFull ==
    ASSUME NEW t, t.active \in {0, 1}
    PROVE  ~Full(t) /\ MakeRoom(t) = t
BY Bounds DEF Full, MakeRoom

LEMMA SetTableFact ==
    ASSUME NEW u \in TableType, SetTable(u)
    PROVE  Table' = u
BY DEF SetTable, Table, TableType

LEMMA TableFields ==
    Table.clients = pClients /\ Table.active = connectionsActive /\ Table.sock = sock
BY DEF Table

----------------------------------------------------------------------------
(* The inductive invariant                                                  *)

LEMMA SelectInvInit == Init => SelectInv
<1> SUFFICES ASSUME Init PROVE SelectInv
  OBVIOUS
<1> USE DEF Init, SockInit
<1>1. /\ pClients \in [Slots -> ClientType]
      /\ \A k \in Slots : ~pClients[k].inUse /\ pClients[k].socket = -1
  BY ConnectionType
<1>2. Table \in TableType
  BY <1>1 DEF Table, TableType
<1>3. SlotsOK(Table) /\ OwnersOK(Table)
  BY <1>1, Bounds DEF Table, SlotsOK, OwnersOK
<1>4. Table.active <= Cardinality(UsedSlots(Table))
  <2>1. IsFiniteSet(UsedSlots(Table))
    BY Bounds, FS_Subset DEF UsedSlots
  <2>2. Cardinality(UsedSlots(Table)) \in Nat
    BY <2>1, FS_CardinalityType
  <2> QED BY <2>2 DEF Table
<1>5. LoopOK
  <2>1. backlog \in 0..Backlog
    BY BoundsAssumption
  <2> QED BY <2>1, Bounds DEF LoopOK, States
<1>6. CountOK /\ ReadyOK /\ HookOwnsSlot
  BY DEF CountOK, ReadyOK, HookOwnsSlot
<1> QED BY <1>2, <1>3, <1>4, <1>5, <1>6 DEF SelectInv, TableOK

\* One iteration of ServerRun leaves table u: it touches slot i only and closes
\* no connection unless it also counts it down.
LEMMA RunToKeepsInv ==
    ASSUME SelectInv, pc = "run", NEW u, TableOK(u), RunTo(u),
           \A m \in Slots : m # i => u.clients[m] = pClients[m] /\ hook'[m] = hook[m],
           \/ u.active = 0
           \/ u.active = connectionsActive /\ u.clients[i].inUse = pClients[i].inUse,
           u.active # 0 /\ AllNew => hook'[i] = "none" /\ u.clients[i].state = pClients[i].state,
           hook' \in [Slots -> {"none", "running", "returned"}],
           hook'[i] # "none" => u.clients[i].inUse /\ u.clients[i].running
    PROVE  SelectInv'
<1>0. i \in Slots /\ LoopOK /\ CountOK /\ HookOwnsSlot
  BY DEF SelectInv, LoopOK
<1>1. Table' = u /\ pClients' = u.clients /\ connectionsActive' = u.active
  BY SetTableFact DEF RunTo, TableOK, SetTable
<1>2. /\ again' \in BOOLEAN
      /\ i' = IF again' THEN i ELSE (i + 1) % maxConnections
      /\ pc' = IF i' = 0 /\ ~again' THEN "set" ELSE "run"
      /\ UNCHANGED <<origState, listening, callback, setVars, backlog>>
  BY DEF RunTo, WhileTest
<1>3. i' \in Slots /\ pc' \in {"run", "set"} /\ (pc' = "set" => i' = 0)
  BY <1>0, <1>2, NextSlotInRange
<1>5. LoopOK'
  BY <1>0, <1>2, <1>3, Zenon DEF LoopOK, setVars
<1>6. ReadyOK'
  BY <1>3 DEF ReadyOK
<1>7. HookOwnsSlot'
  BY <1>0, <1>1 DEF HookOwnsSlot
<1>8. CountOK'
  <2>1. CASE u.active = 0
    BY <1>1, <1>3, <2>1 DEF CountOK
  <2>2. CASE u.active # 0
    <3>1. connectionsActive = 1 /\ u.active = 1 /\ AllNew
      BY <1>0, <2>2 DEF CountOK
    <3>2. AllNew'
      BY <1>0, <1>1, <2>2, <3>1 DEF AllNew, NoHook
    <3> QED BY <1>1, <1>3, <3>1, <3>2 DEF CountOK
  <2> QED BY <2>1, <2>2
<1> QED BY <1>1, <1>5, <1>6, <1>7, <1>8 DEF SelectInv

\* What ServerRun does before the do-while is to the times only.
LEMMA EnteredFacts ==
    ASSUME SelectInv
    PROVE  /\ Client \in ClientType /\ i \in Slots /\ pClients[i] \in ClientType
           /\ Client.inUse = pClients[i].inUse /\ Client.socket = pClients[i].socket
           /\ Client.state = pClients[i].state /\ Client.running = pClients[i].running
<1>1. i \in Slots /\ pClients[i] \in ClientType
  BY TableFields DEF SelectInv, LoopOK, TableOK, TableType
<1>2. ASSUME NEW c \in ClientType
      PROVE  /\ Entered(c) \in ClientType
             /\ Entered(c).inUse = c.inUse /\ Entered(c).socket = c.socket
             /\ Entered(c).state = c.state /\ Entered(c).running = c.running
  <2>1. c.idleTime \in 0..MaxIdle /\ c.waitTick \in WaitTicks
    BY DEF ClientType
  <2>2. Min({c.idleTime + 1, MaxIdle}) \in 0..MaxIdle
    <3>1. {c.idleTime + 1, MaxIdle} \in SUBSET Nat
      BY <2>1, Bounds
    <3>2. /\ Min({c.idleTime + 1, MaxIdle}) \in {c.idleTime + 1, MaxIdle}
          /\ Min({c.idleTime + 1, MaxIdle}) <= MaxIdle
      BY <3>1, MinIsLeast
    <3> QED BY <3>1, <3>2, Bounds
  <2> DEFINE tick == IF c.running THEN "invalid" ELSE c.waitTick
             time == IF c.state \in {"eIdle", "eNewConnection"}
                     THEN Min({c.idleTime + 1, MaxIdle}) ELSE 0
  <2>3. tick \in WaitTicks /\ time \in 0..MaxIdle
    BY <2>1, <2>2, Bounds DEF WaitTicks
  <2>4. Entered(c) = c \/ Entered(c) = [c EXCEPT !.waitTick = tick, !.idleTime = time]
    BY DEF Entered
  <2> HIDE DEF tick, time
  <2> QED BY <2>3, <2>4 DEF ClientType
<1> QED BY <1>1, <1>2 DEF Client

\* Slot i is given the connection c, which has the descriptor it had.
LEMMA WithClientFacts ==
    ASSUME SelectInv, NEW c \in ClientType,
           c.inUse = pClients[i].inUse, c.socket = pClients[i].socket
    PROVE  /\ TableOK(WithClient(c)) /\ WithClient(c).active = connectionsActive
           /\ WithClient(c).clients[i] = c
           /\ \A m \in Slots : m # i => WithClient(c).clients[m] = pClients[m]
<1>1. i \in Slots /\ pClients \in [Slots -> ClientType] /\ TableOK(Table)
  BY TableFields DEF SelectInv, LoopOK, TableOK, TableType
<1>2. TableOK([Table EXCEPT !.clients = [@ EXCEPT ![i] = c]])
  BY <1>1, TableFields, ClientKeepsTable
<1>3. WithClient(c) = [Table EXCEPT !.clients = [@ EXCEPT ![i] = c]]
  BY DEF WithClient
<1>4. WithClient(c).active = connectionsActive
      /\ WithClient(c).clients = [pClients EXCEPT ![i] = c]
  BY <1>3 DEF Table
<1> QED BY <1>1, <1>2, <1>3, <1>4

\* An iteration that leaves the connection its state and its hook.
LEMMA QuietRun ==
    ASSUME SelectInv, pc = "run", NEW c \in ClientType, RunTo(WithClient(c)), UNCHANGED hook,
           c.inUse = pClients[i].inUse, c.socket = pClients[i].socket,
           c.state = pClients[i].state, pClients[i].running => c.running
    PROVE  SelectInv'
<1> DEFINE u == WithClient(c)
<1>1. /\ TableOK(u) /\ u.active = connectionsActive /\ u.clients[i] = c
      /\ \A m \in Slots : m # i => u.clients[m] = pClients[m]
  BY WithClientFacts
<1>2. i \in Slots /\ HookOwnsSlot /\ hook \in [Slots -> {"none", "running", "returned"}]
  BY DEF SelectInv, LoopOK
<1>3. hook'[i] # "none" => u.clients[i].inUse /\ u.clients[i].running
  BY <1>1, <1>2 DEF HookOwnsSlot
<1>4. AllNew => hook'[i] = "none"
  BY <1>2 DEF AllNew, NoHook
<1> HIDE DEF u
<1> QED BY <1>1, <1>2, <1>3, <1>4, RunToKeepsInv DEF u

\* An iteration that closes slot i.  When the close has an effect the counter
\* is 1, and then no hook works on slot i.
LEMMA ClosingRun ==
    ASSUME SelectInv, pc = "run", NEW t, TableOK(t), t.active = connectionsActive,
           pClients[i].inUse, t.clients[i].inUse = pClients[i].inUse,
           t.clients[i].running = pClients[i].running,
           t.clients[i].state = pClients[i].state,
           \A m \in Slots : m # i => t.clients[m] = pClients[m],
           RunTo(CloseConnection(t, i)), UNCHANGED hook
    PROVE  SelectInv'
<1> DEFINE u == CloseConnection(t, i)
<1>1. i \in Slots /\ HookOwnsSlot /\ CountOK
      /\ hook \in [Slots -> {"none", "running", "returned"}]
  BY DEF SelectInv, LoopOK
<1>2. TableOK(u) /\ \A m \in Slots : m # i => u.clients[m] = pClients[m]
  BY <1>1, CloseKeepsTable, CloseFacts
<1>3. CASE connectionsActive = 0
  <2>1. u = t
    BY <1>1, <1>3, CloseFacts
  <2>2. hook'[i] # "none" => u.clients[i].inUse /\ u.clients[i].running
    BY <1>1, <2>1 DEF HookOwnsSlot
  <2>3. u.active = 0
    BY <1>3, <2>1
  <2> HIDE DEF u
  <2> QED BY <1>1, <1>2, <2>2, <2>3, RunToKeepsInv DEF u
<1>4. CASE connectionsActive # 0
  <2>1. connectionsActive = 1 /\ hook[i] = "none"
    BY <1>1, <1>4 DEF CountOK, AllNew, NoHook
  <2>2. u.active = 0
    BY <1>1, <2>1, CloseFacts
  <2> HIDE DEF u
  <2> QED BY <1>1, <1>2, <2>1, <2>2, RunToKeepsInv DEF u
<1> QED BY <1>3, <1>4

\* A step that ends the process.
LEMMA Killed ==
    ASSUME SelectInv, pc' = "killed",
           UNCHANGED <<i, again, origState, listening, callback, setVars, pClients,
                       connectionsActive, hook, sockVars>>
    PROVE  SelectInv'
<1>1. Table' = Table
  BY DEF Table, sockVars
<1>2. LoopOK'
  BY DEF SelectInv, LoopOK, setVars, sockVars
<1>3. ReadyOK' /\ CountOK'
  BY DEF ReadyOK, CountOK
<1>4. HookOwnsSlot'
  BY DEF SelectInv, HookOwnsSlot
<1> QED BY <1>1, <1>2, <1>3, <1>4 DEF SelectInv

LEMMA ServerRunKeepsInv == SelectInv /\ ServerRun => SelectInv'
<1> SUFFICES ASSUME SelectInv, ServerRun PROVE SelectInv'
  OBVIOUS
<1>1. /\ Client \in ClientType /\ i \in Slots /\ pClients[i] \in ClientType
      /\ Client.inUse = pClients[i].inUse /\ Client.socket = pClients[i].socket
      /\ Client.state = pClients[i].state /\ Client.running = pClients[i].running
  BY EnteredFacts
<1>0. CASE RunTest
  <2>1. /\ pc = "test" /\ again' \in BOOLEAN /\ origState' \in States
        /\ i' = IF again' THEN i ELSE (i + 1) % maxConnections
        /\ pc' = IF i' = 0 /\ ~again' THEN "set" ELSE "run"
        /\ UNCHANGED <<listening, callback, setVars, pClients, connectionsActive, hook, sockVars>>
    BY <1>0 DEF RunTest, WhileTest, States
  <2>2. i' \in Slots /\ pc' \in {"run", "set"} /\ (pc' = "set" => i' = 0)
    BY <1>1, <2>1, NextSlotInRange
  <2>3. LoopOK /\ CountOK /\ HookOwnsSlot
    BY DEF SelectInv
  <2>4. LoopOK'
    BY <2>1, <2>2, <2>3, Zenon DEF LoopOK, setVars, sockVars
  <2>5. CountOK' /\ ReadyOK'
    BY <2>1, <2>2, <2>3 DEF CountOK, ReadyOK
  <2>6. HookOwnsSlot'
    BY <2>1, <2>3 DEF HookOwnsSlot
  <2>7. TableOK(Table)'
    BY <2>1 DEF SelectInv, Table, sockVars
  <2> QED BY <2>4, <2>5, <2>6, <2>7 DEF SelectInv
<1>10. RunDefault \/ RunRefused \/ HandleConnectionHook \/ RunWait \/ RunExpired
         \/ RunUnrecoverable => pc = "run"
  BY DEF RunDefault, RunRefused, HandleConnectionHook, RunWait, RunExpired,
         RunUnrecoverable, Waiting
<1>2. ASSUME NEW tick \in WaitTicks
      PROVE  LET c == [Client EXCEPT !.waitTick = tick] IN
             /\ c \in ClientType /\ c.inUse = pClients[i].inUse
             /\ c.socket = pClients[i].socket /\ c.state = pClients[i].state
             /\ c.running = pClients[i].running
  BY <1>1 DEF ClientType
<1>3. "invalid" \in WaitTicks /\ "valid" \in WaitTicks /\ Client.waitTick \in WaitTicks
  BY <1>1 DEF WaitTicks, ClientType
<1>4. CASE RunDefault
  <2> DEFINE tick == IF Client.state \in {"eIdle", "eNewConnection"} THEN "invalid"
                     ELSE Client.waitTick
             c == [Client EXCEPT !.waitTick = tick]
  <2>1. tick \in WaitTicks
    BY <1>3
  <2>2. RunTo(WithClient(c)) /\ UNCHANGED hook
    BY <1>4 DEF RunDefault
  <2> HIDE DEF tick
  <2>3. /\ c \in ClientType /\ c.inUse = pClients[i].inUse
        /\ c.socket = pClients[i].socket /\ c.state = pClients[i].state
        /\ c.running = pClients[i].running
    BY <1>2, <2>1
  <2> HIDE DEF c
  <2> QED BY <1>10, <1>4, <2>2, <2>3, QuietRun
<1>5. CASE RunRefused
  <2> DEFINE c == [Client EXCEPT !.waitTick = "invalid"]
  <2>1. RunTo(WithClient(c)) /\ UNCHANGED hook
    BY <1>5 DEF RunRefused
  <2>2. /\ c \in ClientType /\ c.inUse = pClients[i].inUse
        /\ c.socket = pClients[i].socket /\ c.state = pClients[i].state
        /\ c.running = pClients[i].running
    BY <1>2, <1>3
  <2> HIDE DEF c
  <2> QED BY <1>10, <1>5, <2>1, <2>2, QuietRun
<1>6. CASE RunWait
  <2> DEFINE c == [Client EXCEPT !.waitTick = "valid"]
  <2>1. RunTo(WithClient(c)) /\ UNCHANGED hook
    BY <1>6 DEF RunWait
  <2>2. /\ c \in ClientType /\ c.inUse = pClients[i].inUse
        /\ c.socket = pClients[i].socket /\ c.state = pClients[i].state
        /\ c.running = pClients[i].running
    BY <1>2, <1>3
  <2> HIDE DEF c
  <2> QED BY <1>10, <1>6, <2>1, <2>2, QuietRun
<1>7. CASE RunExpired
  <2>1. /\ TableOK(WithClient(Client)) /\ WithClient(Client).active = connectionsActive
        /\ WithClient(Client).clients[i] = Client
        /\ \A m \in Slots : m # i => WithClient(Client).clients[m] = pClients[m]
    BY <1>1, WithClientFacts
  <2>2. /\ RunTo(CloseConnection(WithClient(Client), i)) /\ UNCHANGED hook
        /\ pClients[i].inUse
    BY <1>1, <1>7 DEF RunExpired, Waiting
  <2> QED BY <1>10, <1>7, <1>1, <2>1, <2>2, ClosingRun
<1>8. CASE RunUnrecoverable
  <2>1. CASE SendKills(sock[Client.socket])
    BY <1>8, <2>1, Killed DEF RunUnrecoverable
  <2>2. CASE ~SendKills(sock[Client.socket])
    <3> DEFINE w == WithClient(Client)
               t == [w EXCEPT !.sock[Client.socket] = TransmitPending(@)]
    <3>1. /\ TableOK(w) /\ w.active = connectionsActive /\ w.clients[i] = Client
          /\ \A m \in Slots : m # i => w.clients[m] = pClients[m]
      BY <1>1, WithClientFacts
    <3>2. pClients[i].inUse /\ RunTo(CloseConnection(t, i)) /\ UNCHANGED hook
      BY <1>1, <1>8, <2>2 DEF RunUnrecoverable
    <3> HIDE DEF w
    <3>3. w.clients[i].inUse
      BY <1>1, <3>1, <3>2
    <3>4. TableOK(t) /\ t.clients = w.clients /\ t.active = w.active
      BY <1>1, <3>1, <3>3, SentFacts
    <3> HIDE DEF t
    <3> QED BY <1>10, <1>8, <1>1, <3>1, <3>2, <3>4, ClosingRun
  <2> QED BY <2>1, <2>2
<1>9. CASE HandleConnectionHook
  <2>1. /\ pClients[i].inUse /\ ~pClients[i].running
        /\ pClients[i].state \in {"eDataReceived", "eProcessingRequest"}
    BY <1>1, <1>9 DEF HandleConnectionHook, Working
  <2>2. ~AllNew
    BY <1>1, <2>1 DEF AllNew
  <2>3. CASE CallNull
    BY <2>3, Killed DEF CallNull
  <2> DEFINE d == [Client EXCEPT !.waitTick = "invalid", !.running = TRUE]
  <2>4. /\ d \in ClientType /\ d.inUse = pClients[i].inUse /\ d.socket = pClients[i].socket
        /\ d.state = pClients[i].state /\ d.running = TRUE
    BY <1>1, <1>3 DEF ClientType
  <2>5. CASE SpawnHookThreadFails
    <3>1. RunTo(WithClient(d)) /\ UNCHANGED hook
      BY <2>5 DEF SpawnHookThreadFails
    <3> HIDE DEF d
    <3> QED BY <1>10, <1>9, <2>4, <3>1, QuietRun
  <2>6. CASE SpawnHookThread /\ ~NDEBUG
    BY <2>6, Killed DEF SpawnHookThread
  <2>7. CASE SpawnHookThread /\ NDEBUG
    <3>1. /\ SetTable(WithClient(d)) /\ hook' = [hook EXCEPT ![i] = "running"]
          /\ pc' = "test" /\ origState' = Client.state
          /\ UNCHANGED <<i, again, listening, callback, setVars, backlog>>
      BY <2>7 DEF SpawnHookThread
    <3> HIDE DEF d
    <3> DEFINE u == WithClient(d)
    <3>2. /\ TableOK(u) /\ u.active = connectionsActive /\ u.clients[i] = d
          /\ \A m \in Slots : m # i => u.clients[m] = pClients[m]
      BY <2>4, WithClientFacts
    <3> HIDE DEF u
    <3>3. Table' = u /\ pClients' = u.clients /\ connectionsActive' = u.active
      BY <3>1, <3>2, SetTableFact DEF u, TableOK, SetTable
    <3>4. LoopOK /\ HookOwnsSlot /\ CountOK
      BY DEF SelectInv
    <3>5. LoopOK'
      BY <1>1, <3>1, <3>4 DEF LoopOK, ClientType, setVars
    <3>6. HookOwnsSlot'
      BY <1>1, <2>1, <2>4, <3>1, <3>2, <3>3, <3>4 DEF HookOwnsSlot, LoopOK
    \* A connection that is not new has used the counter up.
    <3>7. connectionsActive = 0
      BY <1>10, <1>9, <2>2, <3>4 DEF CountOK
    <3>8. CountOK' /\ ReadyOK'
      BY <3>1, <3>2, <3>3, <3>7 DEF CountOK, ReadyOK
    <3> QED BY <3>2, <3>3, <3>5, <3>6, <3>8 DEF SelectInv
  <2>8. CASE CallInline
    <3>1. PICK st \in HookStates :
             RunTo(WithClient([Client EXCEPT !.waitTick = "invalid", !.state = st]))
      BY <2>8 DEF CallInline
    <3>2. UNCHANGED hook
      BY <2>8 DEF CallInline
    <3> DEFINE c == [Client EXCEPT !.waitTick = "invalid", !.state = st]
    <3>3. /\ c \in ClientType /\ c.inUse = pClients[i].inUse /\ c.socket = pClients[i].socket
          /\ c.running = pClients[i].running
      BY <1>1, <1>3, SelectAssumption DEF ClientType
    <3> HIDE DEF c
    <3> DEFINE u == WithClient(c)
    <3>4. /\ TableOK(u) /\ u.active = connectionsActive /\ u.clients[i] = c
          /\ \A m \in Slots : m # i => u.clients[m] = pClients[m]
      BY <3>3, WithClientFacts
    <3>5. hook[i] = "none" /\ hook \in [Slots -> {"none", "running", "returned"}]
      BY <1>1, <2>1 DEF SelectInv, LoopOK, HookOwnsSlot
    <3>6. RunTo(u)
      BY <3>1 DEF c
    <3> HIDE DEF u
    <3> QED BY <1>10, <1>9, <2>1, <2>2, <3>2, <3>3, <3>4, <3>5, <3>6, RunToKeepsInv
  <2> QED BY <1>9, <2>3, <2>5, <2>6, <2>7, <2>8 DEF HandleConnectionHook
<1> QED BY <1>0, <1>4, <1>5, <1>6, <1>7, <1>8, <1>9 DEF ServerRun

\* The hook threads write to slots in use that the main loop leaves alone.
LEMMA HookKeepsInv ==
    ASSUME SelectInv, NEW k \in Slots, HookThread(k) PROVE SelectInv'
<1>1. /\ TableOK(Table) /\ pClients \in [Slots -> ClientType] /\ LoopOK /\ CountOK
      /\ ReadyOK /\ HookOwnsSlot /\ hook \in [Slots -> {"none", "running", "returned"}]
  BY TableFields DEF SelectInv, TableOK, TableType, LoopOK
<1>2. hook[k] # "none" /\ UNCHANGED <<loopVars, setVars, connectionsActive, sockVars>>
  BY DEF HookThread, HookRuns, HookEnds
<1>3. \E c \in ClientType, h \in {"none", "returned"} :
         /\ pClients' = [pClients EXCEPT ![k] = c] /\ hook' = [hook EXCEPT ![k] = h]
         /\ c.inUse = pClients[k].inUse /\ c.socket = pClients[k].socket
         /\ c.running => pClients[k].running
         /\ h # "none" /\ pClients[k].running => c.running
  <2>1. CASE HookRuns(k)
    <3>1. PICK st \in HookStates : pClients' = [pClients EXCEPT ![k].state = st]
      BY <2>1 DEF HookRuns
    <3> DEFINE c == [pClients[k] EXCEPT !.state = st]
    <3>2. /\ c \in ClientType /\ c.inUse = pClients[k].inUse
          /\ c.socket = pClients[k].socket /\ c.running = pClients[k].running
          /\ c.running \in BOOLEAN
      BY <1>1, SelectAssumption DEF ClientType
    <3>3. pClients' = [pClients EXCEPT ![k] = c]
      BY <1>1, <3>1
    <3>4. hook' = [hook EXCEPT ![k] = "returned"]
      BY <2>1 DEF HookRuns
    <3> HIDE DEF c
    <3> QED BY <3>2, <3>3, <3>4
  <2>2. CASE HookEnds(k)
    <3> DEFINE c == [pClients[k] EXCEPT !.running = FALSE]
    <3>2. /\ c \in ClientType /\ c.inUse = pClients[k].inUse
          /\ c.socket = pClients[k].socket /\ c.running = FALSE
      BY <1>1 DEF ClientType
    <3>3. pClients' = [pClients EXCEPT ![k] = c] /\ hook' = [hook EXCEPT ![k] = "none"]
      BY <1>1, <2>2 DEF HookEnds
    <3> HIDE DEF c
    <3> QED BY <3>2, <3>3
  <2> QED BY <2>1, <2>2 DEF HookThread
<1>4. PICK c \in ClientType, h \in {"none", "returned"} :
         /\ pClients' = [pClients EXCEPT ![k] = c] /\ hook' = [hook EXCEPT ![k] = h]
         /\ c.inUse = pClients[k].inUse /\ c.socket = pClients[k].socket
         /\ c.running => pClients[k].running
         /\ h # "none" /\ pClients[k].running => c.running
  BY <1>3
<1>5. TableOK(Table)'
  <2>1. Table' = [Table EXCEPT !.clients = [@ EXCEPT ![k] = c]]
    BY <1>2, <1>4 DEF Table, sockVars
  <2>2. TableOK([Table EXCEPT !.clients = [@ EXCEPT ![k] = c]])
    BY <1>1, <1>4, ClientKeepsTable, TableFields
  <2> QED BY <2>1, <2>2
<1>6. LoopOK'
  <2>1. hook' \in [Slots -> {"none", "running", "returned"}]
    BY <1>1, <1>4
  <2> QED BY <1>1, <1>2, <2>1 DEF LoopOK, loopVars, setVars, sockVars
<1>7. /\ \A m \in Slots : pClients'[m].inUse = pClients[m].inUse
      /\ \A m \in Slots : pClients'[m].running => pClients[m].running
      /\ \A m \in Slots : pClients'[m].socket = pClients[m].socket
      /\ \A m \in Slots : hook'[m] # "none" => hook[m] # "none"
  BY <1>1, <1>2, <1>4
<1>8. ReadyOK'
  BY <1>1, <1>2, <1>7 DEF ReadyOK, loopVars, setVars
<1>9. HookOwnsSlot'
  <2> SUFFICES ASSUME NEW m \in Slots, hook'[m] # "none"
               PROVE  pClients'[m].inUse /\ pClients'[m].running
    BY DEF HookOwnsSlot
  <2>1. CASE m = k
    BY <1>1, <1>2, <1>4, <2>1 DEF HookOwnsSlot
  <2>2. CASE m # k
    BY <1>1, <1>4, <2>2 DEF HookOwnsSlot
  <2> QED BY <2>1, <2>2
<1>10. CountOK'
  <2>1. ~NoHook /\ ~AllNew
    BY <1>2 DEF NoHook, AllNew
  <2>3. InUse' = InUse
    BY <1>7 DEF InUse
  <2>4. /\ UNCHANGED <<pc, i, connectionsActive, needWrite, readReady>>
    BY <1>2 DEF loopVars, setVars
  <2> QED BY <1>1, <1>7, <2>1, <2>3, <2>4 DEF CountOK
<1> QED BY <1>5, <1>6, <1>8, <1>9, <1>10 DEF SelectInv

\* A step that changes neither who owns what, nor the hooks, nor the loop.
LEMMA QuietStep ==
    ASSUME SelectInv, TableOK(Table)', backlog' \in 0..Backlog,
           UNCHANGED <<loopVars, setVars, connectionsActive, hook>>,
           \A m \in Slots : /\ pClients'[m].inUse = pClients[m].inUse
                            /\ pClients'[m].socket = pClients[m].socket
                            /\ pClients'[m].state = pClients[m].state
                            /\ pClients'[m].running = pClients[m].running
    PROVE  SelectInv'
<1>1. LoopOK' /\ ReadyOK' /\ HookOwnsSlot'
  BY DEF SelectInv, LoopOK, ReadyOK, HookOwnsSlot, loopVars, setVars
<1>2. CountOK'
  <2>1. AllNew' <=> AllNew
    BY DEF AllNew, NoHook
  <2>3. InUse' = InUse
    BY DEF InUse
  <2>4. NoHook' <=> NoHook
    BY DEF NoHook
  <2>5. UNCHANGED <<pc, i, connectionsActive, needWrite, readReady, hook>>
    BY DEF loopVars, setVars
  <2>6. CountOK
    BY DEF SelectInv
  <2> QED BY <2>1, <2>3, <2>4, <2>5, <2>6 DEF CountOK
<1> QED BY <1>1, <1>2 DEF SelectInv

LEMMA TimeKeepsInv == ASSUME SelectInv, NEW k \in Slots, TimePasses(k) PROVE SelectInv'
<1>1. TableOK(Table) /\ pClients \in [Slots -> ClientType]
  BY TableFields DEF SelectInv, TableOK, TableType
<1> DEFINE c == [pClients[k] EXCEPT !.waitTick = "expired"]
<1>2. /\ c \in ClientType /\ c.inUse = pClients[k].inUse /\ c.socket = pClients[k].socket
      /\ c.state = pClients[k].state /\ c.running = pClients[k].running
  BY <1>1 DEF ClientType, WaitTicks
<1>3. pClients' = [pClients EXCEPT ![k] = c]
  BY <1>1 DEF TimePasses
<1> HIDE DEF c
<1>4. Table' = [Table EXCEPT !.clients = [@ EXCEPT ![k] = c]]
  BY <1>3 DEF Table, TimePasses, sockVars
<1>5. TableOK(Table)'
  BY <1>1, <1>2, <1>4, ClientKeepsTable, TableFields
<1>6. backlog' \in 0..Backlog
  BY DEF SelectInv, LoopOK, TimePasses, sockVars
<1>7. \A m \in Slots : /\ pClients'[m].inUse = pClients[m].inUse
                       /\ pClients'[m].socket = pClients[m].socket
                       /\ pClients'[m].state = pClients[m].state
                       /\ pClients'[m].running = pClients[m].running
  BY <1>1, <1>2, <1>3
<1> QED BY <1>5, <1>6, <1>7, QuietStep DEF TimePasses

LEMMA EnvironmentKeepsInv == ASSUME SelectInv, Environment PROVE SelectInv'
<1>1. TableOK(Table) /\ sock \in [Fds -> {Closed} \cup OpenSocket]
  BY TableFields DEF SelectInv, TableOK, TableType
<1>2. TableOK(Table)'
  <2>1. CASE UNCHANGED sock
    BY <1>1, <2>1 DEF Table, Environment
  <2>2. CASE \E f \in Fds, s \in OpenSocket : sock[f] # Closed /\ sock' = [sock EXCEPT ![f] = s]
    <3>1. PICK f \in Fds, s \in OpenSocket : sock[f] # Closed /\ sock' = [sock EXCEPT ![f] = s]
      BY <2>2
    <3>2. Table' = [Table EXCEPT !.sock = [@ EXCEPT ![f] = s]]
      BY <3>1 DEF Table, Environment
    <3> QED BY <1>1, <3>1, <3>2, TouchKeepsTable, TableFields
  <2> QED BY <1>1, <2>1, <2>2, ClientTouches DEF Environment
<1>3. backlog' \in 0..Backlog
  BY ClientBacklog DEF SelectInv, LoopOK, Environment
<1> QED BY <1>2, <1>3, QuietStep DEF Environment

\* The read set leaves out the connections a hook works on.
LEMMA SetFdsKeepsInv == ASSUME SelectInv, SetFds PROVE SelectInv'
<1>1. TableOK(Table) /\ pClients \in [Slots -> ClientType] /\ LoopOK /\ CountOK /\ HookOwnsSlot
  BY TableFields DEF SelectInv, TableOK, TableType
<1>2. \A k \in InUse : pClients[k].socket \in Fds
  BY <1>1, UsedSocket, TableFields DEF InUse
<1>3. /\ pc = "set" /\ pc' = "select" /\ readReady' = WatchedForRead
      /\ needWrite' = (InUse # {})
      /\ UNCHANGED <<i, again, origState, callback, pClients, connectionsActive, hook, sockVars>>
  BY DEF SetFds
<1>4. Table' = Table
  BY <1>3 DEF Table, sockVars
<1>5. LoopOK'
  <2>1. readReady' \subseteq Fds /\ writeReady' \subseteq Fds
    BY <1>2 DEF SetFds, WatchedForRead
  <2>2. listening' \in BOOLEAN
    BY <1>1 DEF SetFds, CreateListeningSocket, LoopOK
  <2>3. needWrite' \in BOOLEAN
    BY <1>3
  <2> QED BY <1>1, <1>3, <2>1, <2>2, <2>3 DEF LoopOK, sockVars
<1>6. ReadyOK'
  <2> SUFFICES ASSUME NEW k \in Slots, pClients[k].running
               PROVE  pClients[k].socket \notin WatchedForRead
    BY <1>3 DEF ReadyOK
  <2> QED BY <1>1, TableFields DEF WatchedForRead, InUse, TableOK, SlotsOK, OwnersOK
<1>7. HookOwnsSlot'
  BY <1>1, <1>3 DEF HookOwnsSlot
<1>8. CountOK'
  <2>1. AllNew' <=> AllNew
    BY <1>3 DEF AllNew, NoHook
  <2>3. InUse' = InUse
    BY <1>3 DEF InUse
  <2>4. InUse = {} => readReady' = {}
    BY <1>3 DEF WatchedForRead
  <2> QED BY <1>1, <1>3, <2>1, <2>3, <2>4 DEF CountOK
<1> QED BY <1>1, <1>4, <1>5, <1>6, <1>7, <1>8 DEF SelectInv

\* While nothing is watched for writing there is no connection.
LEMMA NothingToWrite ==
    ASSUME SelectInv, pc = "select", ~needWrite
    PROVE  InUse = {} /\ NoHook /\ connectionsActive = 0
<1>1. InUse = {}
  BY DEF SelectInv, CountOK
<1>2. NoHook
  BY <1>1 DEF SelectInv, HookOwnsSlot, InUse, NoHook, LoopOK
<1>3. connectionsActive = 0
  <2>1. UsedSlots(Table) = InUse
    BY TableFields DEF UsedSlots, InUse
  <2>2. Cardinality(UsedSlots(Table)) = 0
    BY <1>1, <2>1, FS_EmptySet
  <2> QED BY <2>2, TableFields DEF SelectInv, TableOK, TableType
<1> QED BY <1>1, <1>2, <1>3

LEMMA SelectKeepsInv == ASSUME SelectInv, SelectAccept \/ SelectNoAccept PROVE SelectInv'
<1>1. /\ TableOK(Table) /\ Table \in TableType /\ pClients \in [Slots -> ClientType]
      /\ LoopOK /\ CountOK /\ HookOwnsSlot /\ ReadyOK
  BY TableFields DEF SelectInv, TableOK, TableType
<1>2. pc = "select" /\ i = 0 /\ SelectReturns
  BY <1>1 DEF SelectAccept, SelectNoAccept, LoopOK
<1>3. /\ readReady' \subseteq readReady /\ writeReady' \subseteq writeReady
      /\ pc' = IF connectionsActive' > 0 THEN "recv" ELSE IF needWrite THEN "xmit" ELSE "run"
      /\ UNCHANGED <<i, again, origState, listening, callback, needWrite, hook>>
  BY <1>2 DEF SelectReturns
<1>4. connectionsActive \in {0, 1} /\ MakeRoom(Table) = Table
  BY <1>1, <1>2, NeverFull, TableFields DEF CountOK
<1>5. CASE SelectNoAccept
  <2>1. SetTable(Table) /\ UNCHANGED backlog
    BY <1>4, <1>5 DEF SelectNoAccept
  <2>2. Table' = Table /\ UNCHANGED <<pClients, connectionsActive>>
    BY <1>1, <2>1, SetTableFact, TableFields DEF SetTable
  <2>3. LoopOK'
    BY <1>1, <1>2, <1>3, <2>1 DEF LoopOK
  <2>4. ReadyOK' /\ HookOwnsSlot'
    BY <1>1, <1>2, <1>3, <2>2 DEF ReadyOK, HookOwnsSlot
  <2>5. CountOK'
    <3>1. CASE needWrite
      BY <1>1, <1>2, <1>3, <1>4, <2>2, <3>1 DEF CountOK
    <3>2. CASE ~needWrite
      <4>1. pc' = "run" /\ connectionsActive' = 0
        BY <1>2, <1>3, <2>2, <3>2, NothingToWrite
      <4> QED BY <4>1 DEF CountOK
    <3> QED BY <3>1, <3>2
  <2> QED BY <1>1, <2>2, <2>3, <2>4, <2>5 DEF SelectInv
<1>6. CASE SelectAccept
  <2>1. FreeSlots(Table) # {} /\ backlog > 0
    BY <1>4, <1>6 DEF SelectAccept, Wanted, Accepts
  <2> DEFINE k == Min(FreeSlots(Table))
             fd == Min({f \in Fds : Table.sock[f] = Closed})
             u == Establish(Table, k, fd)
  <2>2. k \in FreeSlots(Table)
    <3>1. FreeSlots(Table) \in SUBSET Nat
      BY Bounds DEF FreeSlots
    <3> QED BY <2>1, <3>1, MinIsLeast
  <2>3. fd \in Fds /\ Table.sock[fd] = Closed
    <3> DEFINE S == {f \in Fds : Table.sock[f] = Closed}
    <3>1. S \in SUBSET Nat /\ S # {}
      BY <1>1, <2>1, Bounds, FreeFd
    <3>2. Min(S) \in S
      BY <3>1, MinIsLeast
    <3> QED BY <3>2
  <2>4. SetTable(u) /\ backlog' = backlog - 1
    BY <1>4, <1>6 DEF SelectAccept, NewConnection
  <2> HIDE DEF k, fd
  <2>5. TableOK(u)
    BY <1>1, <2>2, <2>3, EstablishKeepsTable
  <2>6. Table' = u
    BY <2>4, <2>5, SetTableFact DEF TableOK
  <2>7. /\ pClients' = [pClients EXCEPT ![k] = Connection(fd)]
        /\ connectionsActive' = connectionsActive + 1
    BY <2>4 DEF SetTable, Establish, Table
  <2>8. k \in Slots /\ ~pClients[k].inUse
    BY <2>2, Bounds, TableFields DEF FreeSlots
  <2>9. \A m \in Slots : pClients'[m] = IF m = k THEN Connection(fd) ELSE pClients[m]
    BY <1>1, <2>7, <2>8
  <2>10. pc' = "recv"
    BY <1>3, <1>4, <2>7
  <2>11. LoopOK'
    <3>1. backlog' \in 0..Backlog
      BY <1>1, <2>1, <2>4, BoundsAssumption DEF LoopOK
    <3> QED BY <1>1, <1>2, <1>3, <2>10, <3>1 DEF LoopOK
  <2>12. ReadyOK'
    BY <1>1, <1>2, <1>3, <2>3, <2>9, ConnectionType DEF ReadyOK
  <2>13. HookOwnsSlot'
    BY <1>1, <1>3, <2>8, <2>9 DEF HookOwnsSlot
  <2>14. connectionsActive = 1 => NoHook
    BY <1>1, <1>2 DEF CountOK, AllNew
  <2>15. NoHook => NoHook'
    BY <1>3 DEF NoHook
  <2>16. ~needWrite => connectionsActive' = 1 /\ AllNew' /\ readReady' = {}
    <3> SUFFICES ASSUME ~needWrite PROVE connectionsActive' = 1 /\ AllNew' /\ readReady' = {}
      OBVIOUS
    <3>1. InUse = {} /\ NoHook /\ connectionsActive = 0
      BY <1>2, NothingToWrite
    <3>2. \A m \in Slots : pClients'[m].inUse => m = k
      BY <2>9, <3>1 DEF InUse
    <3>3. AllNew'
      BY <2>3, <2>9, <2>15, <3>1, <3>2, ConnectionType DEF AllNew
    <3>4. readReady = {}
      BY <1>1, <1>2 DEF CountOK
    <3> QED BY <1>3, <2>7, <3>1, <3>3, <3>4
  <2>17. CountOK'
    <3>1. connectionsActive' = 1 \/ (connectionsActive' = 2 /\ NoHook')
      BY <1>4, <2>7, <2>14, <2>15
    <3> QED BY <1>3, <2>10, <2>16, <3>1 DEF CountOK
  <2> QED BY <2>5, <2>6, <2>11, <2>12, <2>13, <2>17 DEF SelectInv
<1> QED BY <1>5, <1>6

\* ReceiveLoop reads from no connection that a hook works on.
LEMMA ReceiveKeepsInv == ASSUME SelectInv, ReceiveLoop PROVE SelectInv'
<1>1. /\ TableOK(Table) /\ pClients \in [Slots -> ClientType] /\ i \in Slots
      /\ LoopOK /\ CountOK /\ HookOwnsSlot /\ ReadyOK
  BY TableFields DEF SelectInv, TableOK, TableType, LoopOK
<1> DEFINE reads == pClients[i].inUse /\ pClients[i].socket \in readReady
           u == IF reads THEN Received(Table, i) ELSE Table
<1>2. /\ pc = "recv" /\ SetTable(u)
      /\ i' = (i + 1) % maxConnections
      /\ pc' = IF i' # 0 THEN "recv" ELSE IF needWrite THEN "xmit" ELSE "run"
      /\ UNCHANGED <<again, origState, listening, callback, setVars, hook, backlog>>
  BY DEF ReceiveLoop, Advance
<1>3. reads => SlotStep(Table, i, u)
  BY <1>1, ReceivedFacts, TableFields
<1>4. ~reads => u = Table
  OBVIOUS
<1>5. reads => hook[i] = "none"
  BY <1>1, <1>2 DEF ReadyOK, HookOwnsSlot
<1> HIDE DEF u
<1>6. TableOK(u)
  BY <1>1, <1>3, <1>4 DEF SlotStep
<1>7. Table' = u /\ pClients' = u.clients /\ connectionsActive' = u.active
  BY <1>2, <1>6, SetTableFact DEF TableOK, SetTable
<1>8. i' \in Slots
  BY <1>1, <1>2, NextSlotInRange
<1>9. LoopOK'
  BY <1>1, <1>2, <1>8, Zenon DEF LoopOK, setVars
<1>10. \A m \in Slots : hook[m] # "none" => pClients'[m] = pClients[m]
  BY <1>3, <1>4, <1>5, <1>7, TableFields DEF SlotStep
<1>11. HookOwnsSlot'
  BY <1>1, <1>2, <1>10 DEF HookOwnsSlot
<1>12. \A m \in Slots : pClients'[m].running => pClients[m].running
                                               /\ pClients'[m].socket = pClients[m].socket
  <2> SUFFICES ASSUME NEW m \in Slots, pClients'[m].running
               PROVE  pClients[m].running /\ pClients'[m].socket = pClients[m].socket
    OBVIOUS
  <2>1. CASE ~reads \/ m # i
    BY <1>3, <1>4, <1>7, <2>1, TableFields DEF SlotStep
  <2>2. CASE reads /\ m = i
    <3>1. ~Connection(-1).running
      BY DEF Connection
    <3> QED BY <1>3, <1>7, <2>2, <3>1, TableFields DEF SlotStep
  <2> QED BY <2>1, <2>2
<1>13. ReadyOK'
  BY <1>1, <1>2, <1>12 DEF ReadyOK, setVars
<1>14. CountOK'
  <2>1. UNCHANGED <<needWrite, readReady, hook>> /\ (NoHook' <=> NoHook)
    BY <1>2 DEF setVars, NoHook
  <2>2. CASE needWrite
    <3>1. connectionsActive \in {0, 1} \/ (connectionsActive = 2 /\ NoHook)
      BY <1>1, <1>2 DEF CountOK
    <3>2. u.active = connectionsActive \/
             (connectionsActive # 0 /\ u.active = connectionsActive - 1)
      BY <1>3, <1>4, TableFields DEF SlotStep
    <3>3. connectionsActive' \in {0, 1} \/ (connectionsActive' = 2 /\ NoHook')
      BY <1>7, <2>1, <3>1, <3>2
    <3>4. pc' = "recv" \/ (pc' = "xmit" /\ i' = 0)
      BY <1>2, <2>2
    <3> QED BY <2>1, <2>2, <3>3, <3>4 DEF CountOK
  <2>3. CASE ~needWrite
    <3>1. connectionsActive \in {0, 1} /\ AllNew /\ readReady = {}
      BY <1>1, <1>2, <2>3 DEF CountOK
    <3>2. UNCHANGED <<pClients, connectionsActive>>
      BY <1>4, <1>7, <3>1, TableFields
    <3>3. AllNew'
      BY <2>1, <3>1, <3>2 DEF AllNew
    <3>4. connectionsActive' \in {0, 1} /\ readReady' = {} /\ NoHook'
      BY <2>1, <3>1, <3>2 DEF AllNew
    <3>5. pc' = "recv" \/ pc' = "run"
      BY <1>2, <2>3
    <3> QED BY <2>1, <2>3, <3>3, <3>4, <3>5 DEF CountOK, NoHook
  <2> QED BY <2>2, <2>3
<1> QED BY <1>6, <1>7, <1>9, <1>11, <1>13, <1>14 DEF SelectInv

\* TransmitPendingLoop closes a connection only while the counter is not 0, and
\* after slot 0 that means that there is no hook.
LEMMA TransmitKeepsInv == ASSUME SelectInv, TransmitPendingLoop PROVE SelectInv'
<1>1. /\ TableOK(Table) /\ pClients \in [Slots -> ClientType] /\ i \in Slots
      /\ LoopOK /\ CountOK /\ HookOwnsSlot /\ i \in Nat
  BY TableFields, Bounds DEF SelectInv, TableOK, TableType, LoopOK
<1> DEFINE u == IF Sending THEN Transmitted(Table, i)
                ELSE IF pClients[i].inUse THEN Table ELSE CloseConnection(Table, i)
<1>2. /\ pc = "xmit" /\ SetTable(u)
      /\ i' = (i + 1) % maxConnections
      /\ pc' = IF i' = 0 THEN "run" ELSE "xmit"
      /\ UNCHANGED <<again, origState, listening, callback, setVars, hook, backlog>>
  BY DEF TransmitPendingLoop, Advance
\* The slot keeps its connection, or the counter goes down.
<1>3. /\ TableOK(u)
      /\ \A m \in Slots : m # i => u.clients[m] = pClients[m]
      /\ \/ u.active = connectionsActive /\ u.clients[i].inUse
            /\ pClients[i].inUse /\ u.clients[i].running = pClients[i].running
         \/ connectionsActive = 0 /\ u = Table
         \/ connectionsActive # 0 /\ u.active = connectionsActive - 1
  <2>1. CASE Sending
    <3>1. SlotStep(Table, i, Transmitted(Table, i))
      BY <1>1, <2>1, TransmittedFacts, TableFields DEF Sending
    <3> QED BY <2>1, <3>1, TableFields DEF SlotStep, Sending
  <2>2. CASE ~Sending /\ pClients[i].inUse
    BY <1>1, <2>2, TableFields
  <2>3. CASE ~Sending /\ ~pClients[i].inUse
    <3>1. TableOK(CloseConnection(Table, i))
      BY <1>1, CloseKeepsTable
    <3> QED BY <1>1, <2>3, <3>1, CloseFacts, TableFields
  <2> QED BY <2>1, <2>2, <2>3
<1> HIDE DEF u
<1>4. Table' = u /\ pClients' = u.clients /\ connectionsActive' = u.active
  BY <1>2, <1>3, SetTableFact DEF TableOK, SetTable
<1>5. i' \in Slots /\ (i' # 0 => i' = i + 1)
  BY <1>1, <1>2, NextSlotInRange
<1>6. LoopOK'
  BY <1>1, <1>2, <1>5, Zenon DEF LoopOK, setVars
<1>7. ReadyOK'
  BY <1>2 DEF ReadyOK
\* Slot 0 is reserved: it is free and no hook works on it.
<1>8. i = 0 => ~pClients[i].inUse /\ hook[i] = "none"
  BY <1>1, Bounds, TableFields DEF TableOK, SlotsOK, HookOwnsSlot, LoopOK
<1>9. HookOwnsSlot'
  <2> SUFFICES ASSUME NEW m \in Slots, hook[m] # "none"
               PROVE  pClients'[m].inUse /\ pClients'[m].running
    BY <1>2 DEF HookOwnsSlot
  <2>1. pClients[m].inUse /\ pClients[m].running
    BY <1>1 DEF HookOwnsSlot
  <2>2. CASE m # i
    BY <1>3, <1>4, <2>1, <2>2
  <2>3. CASE m = i
    <3>1. i # 0 /\ ~NoHook
      BY <1>8, <2>3 DEF NoHook
    <3>2. connectionsActive = 0
      BY <1>1, <1>2, <3>1 DEF CountOK
    <3> QED BY <1>3, <1>4, <2>1, <2>3, <3>2, TableFields
  <2> QED BY <2>2, <2>3
<1>10. CountOK'
  <2>1. NoHook' <=> NoHook
    BY <1>2 DEF NoHook
  <2>2. CASE connectionsActive = 0
    <3>1. connectionsActive' = 0
      BY <1>3, <1>4, <2>2, TableFields
    <3> QED BY <1>2, <3>1 DEF CountOK
  <2>3. CASE i = 0 /\ connectionsActive # 0
    <3>1. connectionsActive = 1 \/ (connectionsActive = 2 /\ NoHook)
      BY <1>1, <1>2, <2>3 DEF CountOK
    <3>2. u.active = connectionsActive - 1
      BY <1>3, <1>8, <2>3
    <3>3. i' = 1 /\ pc' = "xmit"
      BY <1>2, <2>3, Bounds
    <3>4. connectionsActive' = 0 \/ (connectionsActive' = 1 /\ NoHook')
      BY <1>4, <2>1, <3>1, <3>2
    <3> QED BY <3>3, <3>4 DEF CountOK
  <2>4. CASE i # 0 /\ connectionsActive # 0
    <3>1. i = 1 /\ connectionsActive = 1
      BY <1>1, <1>2, <2>4 DEF CountOK
    <3>2. ~pClients[i].inUse
      BY <1>1, <3>1, Bounds, TableFields DEF TableOK, SlotsOK
    <3>3. connectionsActive' = 0
      BY <1>3, <1>4, <3>1, <3>2
    <3> QED BY <1>2, <3>3 DEF CountOK
  <2> QED BY <2>2, <2>3, <2>4
<1> QED BY <1>3, <1>4, <1>6, <1>7, <1>9, <1>10 DEF SelectInv

LEMMA SelectInvNext == SelectInv /\ [Next]_vars => SelectInv'
<1> SUFFICES ASSUME SelectInv, [Next]_vars PROVE SelectInv'
  OBVIOUS
<1>1. CASE ServerRun
  BY <1>1, ServerRunKeepsInv
<1>2. CASE SetFds
  BY <1>2, SetFdsKeepsInv
<1>3. CASE SelectAccept \/ SelectNoAccept
  BY <1>3, SelectKeepsInv
<1>4. CASE ReceiveLoop
  BY <1>4, ReceiveKeepsInv
<1>5. CASE TransmitPendingLoop
  BY <1>5, TransmitKeepsInv
<1>6. CASE TransmitKilled
  BY <1>6, Killed DEF TransmitKilled
<1>7. ASSUME NEW k \in Slots, HookThread(k) \/ TimePasses(k) PROVE SelectInv'
  BY <1>7, HookKeepsInv, TimeKeepsInv
<1>8. CASE Environment
  BY <1>8, EnvironmentKeepsInv
<1>9. CASE UNCHANGED vars
  <2>1. Table' = Table /\ backlog' = backlog
    BY <1>9 DEF vars, Table, sockVars
  <2>2. TableOK(Table)' /\ backlog' \in 0..Backlog
    BY <2>1 DEF SelectInv, LoopOK
  <2> QED BY <1>9, <2>2, QuietStep DEF vars
<1> QED BY <1>1, <1>2, <1>3, <1>4, <1>5, <1>6, <1>7, <1>8, <1>9 DEF Next, ServerModelMain

----------------------------------------------------------------------------
(* The properties                                                           *)

LEMMA SelectInvImplies == SelectInv => TableAgrees
<1> SUFFICES ASSUME SelectInv PROVE TableAgrees
  OBVIOUS
<1> USE TableFields
<1>0. TableOK(Table) /\ LoopOK /\ CountOK
  BY DEF SelectInv
<1>1. InUse = UsedSlots(Table) /\ connectionsActive \in Nat
      /\ connectionsActive <= Cardinality(InUse)
  BY <1>0 DEF TableOK, TableType, UsedSlots, InUse
<1>2. TypeOK
  <2>1. /\ pClients \in [Slots -> ClientType]
        /\ sock \in [Fds -> {Closed} \cup OpenSocket]
    BY <1>0 DEF TableOK, TableType
  <2>2. connectionsActive \in 0..maxConnections
    <3>1. IsFiniteSet(Slots) /\ Cardinality(Slots) = maxConnections
      BY Bounds, FS_Interval DEF Slots
    <3>2. IsFiniteSet(InUse) /\ Cardinality(InUse) <= maxConnections
          /\ Cardinality(InUse) \in Nat
      BY <3>1, FS_Subset, FS_CardinalityType DEF InUse
    <3> QED BY <1>1, <3>2, Bounds
  <2> QED BY <1>0, <2>1, <2>2
          DEF TypeOK, SockType, LoopOK, ClientType, OpenSocket
<1>3. SocketsMatch
  <2>1. \A k, m \in InUse : pClients[k].socket = pClients[m].socket => k = m
    BY <1>0 DEF TableOK, OwnersOK, SlotsOK, InUse
  <2>2. ASSUME NEW k \in InUse PROVE pClients[k].socket \in OpenFds
    BY <1>0, UsedSocket DEF InUse, OpenFds
  <2>3. ASSUME NEW f \in OpenFds PROVE \E k \in InUse : pClients[k].socket = f
    BY <1>0, Bounds, OwnerSlot DEF OpenFds, InUse
  <2> QED BY <2>1, <2>2, <2>3 DEF SocketsMatch
<1> QED BY <1>1, <1>2, <1>3 DEF TableAgrees, CountNeverHigh

\* The table of connections, connectionsActive and the open descriptors agree
\* at every step of the main loop, the clients and the hook threads, for every
\* table size with two reserved slots or more and every way of registering callbacks.
THEOREM SelectTableAgrees == Spec => []TableAgrees
<1>1. Spec => []SelectInv
  BY SelectInvInit, SelectInvNext, PTL DEF Spec
<1> QED BY <1>1, SelectInvImplies, PTL

\* A hook thread never outlives its connection.  RunUnrecoverable and
\* TransmitPending do not ask whether a hook works on the slot they close; it is
\* the counter, used up by then, that stops them.
THEOREM SelectHookOwnsSlot == Spec => []HookOwnsSlot
<1>1. Spec => []SelectInv
  BY SelectInvInit, SelectInvNext, PTL DEF Spec
<1>2. SelectInv => HookOwnsSlot
  BY DEF SelectInv
<1> QED BY <1>1, <1>2, PTL
===============================================================================
