----------------------------- MODULE PollServer -----------------------------
(***************************************************************************)
(* IOModels/poll/serverModel.c: one thread that polls a table of           *)
(* connections.  A round of ServerModelMain is ServerRun, poll and accept, *)
(* ReceiveLoop over the slots, TransmitPendingLoop over the slots; clients *)
(* act between any two of these steps.  watchedfds[0] is the listening     *)
(* socket and entries 1 and 2 stay -1, so only the clients' part is kept.  *)
(* Nothing writes pendingSendBuffer, so TransmitPending sends the one byte *)
(* of an empty string.  The callback of a connection is never set (the     *)
(* switch of NewConnection compares a descriptor with a port number), so   *)
(* HandleConnectionHook is never called and of the states only the three   *)
(* that serverModel.h declares occur.                                      *)
(***************************************************************************)
EXTENDS Sockets

CONSTANTS
    MAX_CONNECTIONS,
    reserveConn,     \* slots NewConnection leaves alone
    MaxIdle          \* cap on idleTime

ASSUME PollAssumption ==
    /\ reserveConn \in Nat \ {0}
    /\ MAX_CONNECTIONS \in Nat /\ MAX_CONNECTIONS > reserveConn + 1
    /\ Cardinality(Fds) >= MAX_CONNECTIONS - reserveConn
    /\ MaxIdle \in Nat \ {0}

VARIABLES
    pc,                 \* where the main loop is
    i,                  \* slot ReceiveLoop or TransmitPendingLoop has reached
    listening,          \* tcpListeningfd # -1
    pClients,           \* the table of connections
    watchedfds,         \* descriptors handed to poll
    connectionsActive,
    retry               \* of the TransmitPending in progress

vars == <<pc, i, listening, pClients, watchedfds, connectionsActive, retry, sockVars>>

Slots == 0..(MAX_CONNECTIONS - 1)
Watched == 0..(MAX_CONNECTIONS - 1)     \* index MAX_SERVICE + k of watchedfds
States == {"eIdle", "eNewConnection", "eDataReceived"}
MaxRetry == 3

\* memset to zero with socket set to -1.
NoConnection == [inUse |-> FALSE, socket |-> -1, state |-> "eIdle", idleTime |-> 0]
Connection(fd) == [inUse |-> TRUE, socket |-> fd, state |-> "eNewConnection", idleTime |-> 0]

InUse == {k \in Slots : pClients[k].inUse}

TypeOK ==
    /\ SockType
    /\ pc \in {"start", "run", "poll", "recv", "xmit", "send", "killed"}
    /\ i \in 0..MAX_CONNECTIONS
    /\ listening \in BOOLEAN
    /\ pClients \in [Slots -> [inUse : BOOLEAN, socket : Fds \cup {-1},
                               state : States, idleTime : 0..MaxIdle]]
    /\ watchedfds \in [Watched -> Fds \cup {-1}]
    /\ connectionsActive \in 0..MAX_CONNECTIONS
    /\ retry \in 0..(MaxRetry + 1)

\* Initialize
Init ==
    /\ SockInit
    /\ pc = "start" /\ i = 0 /\ listening = FALSE /\ retry = 0
    /\ pClients = [k \in Slots |-> NoConnection]
    /\ watchedfds = [k \in Watched |-> -1]
    /\ connectionsActive = 0

\* No address of getaddrinfo can be bound: the server goes on without listening.
CreateListeningSocket ==
    /\ pc = "start"
    /\ pc' = "run"
    /\ listening' \in BOOLEAN
    /\ UNCHANGED <<i, pClients, watchedfds, connectionsActive, retry, sockVars>>

----------------------------------------------------------------------------
(* The table, as values: clients, watched, active and sockets after a call *)

Table == [clients |-> pClients, watched |-> watchedfds, active |-> connectionsActive, sock |-> sock]

SetTable(t) ==
    /\ pClients' = t.clients /\ watchedfds' = t.watched
    /\ connectionsActive' = t.active /\ sock' = t.sock

\* The entries of watchedfds that hold fd; the loops take the first one.
findIndex(t, fd) == {k \in Watched : t.watched[k] = fd}

UnwatchForgets(t, fd) == t.watched      \* seeded fault

Unwatch(t, fd) ==
    IF findIndex(t, fd) = {} THEN t.watched
    ELSE [t.watched EXCEPT ![Min(findIndex(t, fd))] = -1]

\* A free slot (socket -1) is "closed" as well: a free entry of watchedfds is
\* cleared again, close(-1) fails, and the counter goes down all the same.
CloseConnection(t, k) ==
    LET fd == t.clients[k].socket IN
    IF t.active = 0 THEN t
    ELSE [clients |-> [t.clients EXCEPT ![k] = NoConnection],
          watched |-> Unwatch(t, fd),
          active  |-> t.active - 1,
          sock    |-> [f \in Fds |-> IF f = fd THEN Closed ELSE t.sock[f]]]

\* The idle connection NewConnection gives up when it counts the table as full.
Stale(t) ==
    LET idle == {k \in reserveConn..(MAX_CONNECTIONS - 1) :
                    /\ t.clients[k].idleTime > 0
                    /\ t.clients[k].state \in {"eIdle", "eNewConnection"}}
        longest == Max({t.clients[k].idleTime : k \in idle})
    IN  IF idle = {} THEN {} ELSE {Min({k \in idle : t.clients[k].idleTime = longest})}

Full(t) == t.active + reserveConn >= MAX_CONNECTIONS

MakeRoom(t) == IF Full(t) /\ Stale(t) # {} THEN CloseConnection(t, Min(Stale(t))) ELSE t

FreeSlots(t) == {k \in reserveConn..(MAX_CONNECTIONS - 1) : ~t.clients[k].inUse}

Establish(t, k, fd) ==
    [clients |-> [t.clients EXCEPT ![k] = Connection(fd)],
     watched |-> [t.watched EXCEPT ![Min(findIndex(t, -1))] = fd],
     active  |-> t.active + 1,
     sock    |-> [t.sock EXCEPT ![fd] = Accepted]]

\* accept is not reached when the table is full and nobody is idle, or no slot is free.
Accepts(t) == ~(Full(t) /\ Stale(t) = {}) /\ FreeSlots(MakeRoom(t)) # {}

NewConnection ==
    LET t == MakeRoom(Table) IN
    /\ SetTable(Establish(t, Min(FreeSlots(t)), Min({f \in Fds : t.sock[f] = Closed})))
    /\ backlog' = backlog - 1

----------------------------------------------------------------------------
(* The main loop                                                           *)

\* ServerRun: with no callback set, eDataReceived is left as it is.
Aged(c) ==
    IF ~c.inUse THEN c
    ELSE [c EXCEPT !.idleTime = IF c.state = "eDataReceived" THEN 0 ELSE Min({@ + 1, MaxIdle})]

ServerRun ==
    /\ pc = "run"
    /\ pc' = "poll"
    /\ pClients' = [k \in Slots |-> Aged(pClients[k])]
    /\ UNCHANGED <<i, listening, watchedfds, connectionsActive, retry, sockVars>>

\* The loops start; ReceiveLoop returns at once when no connection is active.
EnterLoops ==
    /\ i' = 0
    /\ pc' = IF connectionsActive' = 0 THEN "xmit" ELSE "recv"

Wanted == listening /\ backlog > 0 /\ connectionsActive < MAX_CONNECTIONS

PollAccept ==
    /\ pc = "poll"
    /\ Wanted /\ Accepts(Table)
    /\ NewConnection
    /\ EnterLoops
    /\ UNCHANGED <<listening, retry>>

\* poll reports no new connection, or accept fails or is not called.
PollNoAccept ==
    /\ pc = "poll"
    /\ IF Wanted /\ Accepts(Table) THEN SetTable(MakeRoom(Table)) ELSE SetTable(Table)
    /\ EnterLoops
    /\ UNCHANGED <<listening, retry, backlog>>

\* ReceiveLoop reads from every connection in use: the test of its revents is
\* "fd | POLLIN", which is never zero.
Received(t, k) ==
    LET fd == t.clients[k].socket
        r  == [t EXCEPT !.sock[fd] = AfterRecv(@)]
    IN  IF t.sock[fd].data THEN [r EXCEPT !.clients[k].state = "eDataReceived"]
        ELSE CloseConnection(r, k)

ReceiveLoop ==
    /\ pc = "recv"
    /\ SetTable(IF pClients[i].inUse THEN Received(Table, i) ELSE Table)
    /\ i' = (i + 1) % MAX_CONNECTIONS
    /\ pc' = IF i' = 0 THEN "xmit" ELSE "recv"
    /\ UNCHANGED <<listening, retry, backlog>>

NextSlotSame ==                         \* seeded fault: the slot is tried again
    /\ i' = i
    /\ pc' = "xmit"

NextSlot ==
    /\ i' = (i + 1) % MAX_CONNECTIONS
    /\ pc' = IF i' = 0 THEN "run" ELSE "xmit"

\* TransmitPendingLoop: a slot in use is sent to, a free one is "closed".
TransmitPendingLoop ==
    /\ pc = "xmit"
    /\ IF pClients[i].inUse
       THEN /\ pc' = "send" /\ retry' = 0
            /\ SetTable(Table) /\ UNCHANGED i
       ELSE /\ SetTable(CloseConnection(Table, i))
            /\ NextSlot /\ UNCHANGED retry
    /\ UNCHANGED <<listening, backlog>>

SendFd == pClients[i].socket

\* One call of send in TransmitPending.  An error never leaves the while loop:
\* a send to a reset connection is repeated and the second one raises SIGPIPE.
SendSome ==
    /\ pc = "send" /\ sock[SendFd].peer \in {"open", "fin"} /\ sock[SendFd].room > 0
    /\ LET t == [Table EXCEPT !.sock[SendFd].room = @ - 1]
       IN  SetTable(IF retry > MaxRetry THEN CloseConnection(t, i) ELSE t)
    /\ NextSlot
    /\ UNCHANGED <<listening, retry, backlog>>

SendBlocks ==
    /\ pc = "send" /\ sock[SendFd].peer \in {"open", "fin"} /\ sock[SendFd].room = 0
    /\ retry' = Min({retry + 1, MaxRetry + 1})
    /\ UNCHANGED <<pc, i, listening, pClients, watchedfds, connectionsActive, sockVars>>

SendFails ==
    /\ pc = "send" /\ sock[SendFd].peer \in {"reset", "broken"}
    /\ sock' = [sock EXCEPT ![SendFd].peer = "broken"]
    /\ pc' = IF sock[SendFd].peer = "broken" THEN "killed" ELSE pc
    /\ UNCHANGED <<i, listening, pClients, watchedfds, connectionsActive, retry, backlog>>

ServerStep ==
    \/ CreateListeningSocket \/ ServerRun \/ PollAccept \/ PollNoAccept
    \/ ReceiveLoop \/ TransmitPendingLoop \/ SendSome \/ SendBlocks \/ SendFails

Environment ==
    /\ pc # "killed"
    /\ ClientStep
    /\ UNCHANGED <<pc, i, listening, pClients, watchedfds, connectionsActive, retry>>

Next == ServerStep \/ Environment

Spec == Init /\ [][Next]_vars

\* The process is scheduled; nothing is assumed of the clients.
FairSpec == Spec /\ WF_vars(ServerStep)

\* Clients take the bytes that the server sent them.
ReadingSpec == FairSpec /\ \A f \in Fds : WF_vars(Environment /\ ClientReads(f))

----------------------------------------------------------------------------
(* Properties                                                              *)

\* The three records of a connection agree at every step of a round: the
\* sockets of the slots in use are distinct, each is watched exactly once, and
\* they are all the descriptors that are open.  So findIndex never returns -1
\* and CloseConnection neither leaks a descriptor nor leaves poll a dead one,
\* although it is called for free slots and descriptors are reused.
WatchMatchesTable ==
    /\ \A k, m \in InUse : pClients[k].socket = pClients[m].socket => k = m
    /\ {pClients[k].socket : k \in InUse} = OpenFds
    /\ \A f \in Fds : Cardinality(findIndex(Table, f)) = (IF f \in OpenFds THEN 1 ELSE 0)

\* connectionsActive never counts more connections than the table holds: every
\* accept and close in whatever order keeps it at or below the slots in use.
CountNeverHigh == connectionsActive <= Cardinality(InUse)

\* The table, the poll array, the counter and the open descriptors agree.
TableAgrees == TypeOK /\ WatchMatchesTable /\ CountNeverHigh

\* While clients read what they are sent, the main loop comes round again for
\* ever (unless SIGPIPE ended the process).
LoopTurns == []<>(pc \in {"run", "killed"})
============================================================================
