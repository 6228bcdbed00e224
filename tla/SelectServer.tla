---------------------------- MODULE SelectServer ----------------------------
(***************************************************************************)
(* IOModels/select/serverModel.c: the main loop of the select server, its  *)
(* clients, and the hook threads that work on a connection beside it.  A   *)
(* round of ServerModelMain is ServerRun over the slots, the descriptor    *)
(* sets, select and accept, ReceiveLoop and TransmitPendingLoop over the   *)
(* slots.  The file spells some names in two ways (maxSocket and           *)
(* maxSockfd, nextBuffer and next_buffer, CommonHook and httpHook); each   *)
(* pair is one name here.                                                  *)
(*                                                                         *)
(* NewConnection leaves clientCallback NULL and its stack size 0, and a    *)
(* comment shows where a registration belongs: Callbacks says whether      *)
(* there is none, one that runs inline, or one with a thread of its own.   *)
(* What a registered callback leaves in the connection is external.        *)
(***************************************************************************)
EXTENDS Sockets

CONSTANTS
    maxConnections,
    reserveConn,
    MaxIdle,        \* cap on idleTime
    Callbacks,      \* subset of {"none", "inline", "thread"}
    HookStates,     \* states in which a callback may leave a connection
    NDEBUG,         \* whether assert is compiled out
    SpawnFails      \* whether pthread_create may fail

States == {"eIdle", "eNewConnection", "eWaitForRecvData", "eProcessingRequest",
           "eDataReceived", "eDataSending", "eUnrecoverableFailureOrEnd"}

ASSUME SelectAssumption ==
    /\ reserveConn \in Nat /\ reserveConn > 1
    /\ maxConnections \in Nat /\ maxConnections > reserveConn + 1
    /\ Cardinality(Fds) >= maxConnections - reserveConn
    /\ MaxIdle \in Nat \ {0}
    /\ Callbacks \subseteq {"none", "inline", "thread"}
    /\ HookStates \subseteq States
    /\ NDEBUG \in BOOLEAN /\ SpawnFails \in BOOLEAN

VARIABLES
    pc, i,
    again,              \* the do-while of ServerRun repeats for slot i
    origState,          \* of ServerRun, while a thread it started may change the state
    listening,          \* tcpSocket >= 0
    callback,           \* how the callback of every connection is registered
    pClients, connectionsActive,
    readReady, writeReady, needWrite,
    hook                \* slot -> what its hook thread is doing

loopVars == <<pc, i, again, origState, listening, callback>>
setVars == <<readReady, writeReady, needWrite>>
vars == <<loopVars, setVars, pClients, connectionsActive, hook, sockVars>>

Slots == 0..(maxConnections - 1)

\* waitTickValid, and whether MAX_WAITING_HTTP_CLIENT has passed since waitTickTime.
WaitTicks == {"invalid", "valid", "expired"}

Connection(fd) ==
    [inUse |-> fd # -1, socket |-> fd, state |-> IF fd = -1 THEN "eIdle" ELSE "eNewConnection",
     idleTime |-> 0, waitTick |-> "invalid", running |-> FALSE]

InUse == {k \in Slots : pClients[k].inUse}

TypeOK ==
    /\ SockType
    /\ pc \in {"run", "test", "set", "select", "recv", "xmit", "killed"}
    /\ i \in Slots /\ again \in BOOLEAN /\ origState \in States /\ listening \in BOOLEAN
    /\ callback \in Callbacks
    /\ pClients \in [Slots -> [inUse : BOOLEAN, socket : Fds \cup {-1}, state : States,
                               idleTime : 0..MaxIdle, waitTick : WaitTicks, running : BOOLEAN]]
    /\ connectionsActive \in 0..maxConnections
    /\ readReady \subseteq Fds /\ writeReady \subseteq Fds /\ needWrite \in BOOLEAN
    /\ hook \in [Slots -> {"none", "running", "returned"}]

\* Initialize
Init ==
    /\ SockInit
    /\ pc = "run" /\ i = 0 /\ again = FALSE /\ origState = "eIdle" /\ listening = FALSE
    /\ callback \in Callbacks
    /\ pClients = [k \in Slots |-> Connection(-1)]
    /\ connectionsActive = 0
    /\ readReady = {} /\ writeReady = {} /\ needWrite = FALSE
    /\ hook = [k \in Slots |-> "none"]

----------------------------------------------------------------------------
(* The table and the sockets as values                                     *)

Table == [clients |-> pClients, active |-> connectionsActive, sock |-> sock]

SetTable(t) ==
    pClients' = t.clients /\ connectionsActive' = t.active /\ sock' = t.sock

CloseKeepsSocket(t, k) ==               \* seeded fault: the socket is not closed
    IF t.active = 0 THEN t
    ELSE [t EXCEPT !.clients[k] = Connection(-1), !.active = @ - 1]

\* A free slot (socket -1) is "closed" as well and counted down.
CloseConnection(t, k) ==
    IF t.active = 0 THEN t
    ELSE [clients |-> [t.clients EXCEPT ![k] = Connection(-1)],
          active  |-> t.active - 1,
          sock    |-> [f \in Fds |-> IF f = t.clients[k].socket THEN Closed ELSE t.sock[f]]]

\* TransmitPending, for the empty string that pendingSendBuffer holds unless a
\* callback fills it (module SendBuffer has the rest): the socket after it.
TransmitPending(s) ==
    [s EXCEPT !.room = IF s.peer \in {"open", "fin"} THEN Max({0, @ - 1}) ELSE @,
              !.peer = IF @ = "reset" THEN "broken" ELSE @]

\* The error is reported once; the send after it raises SIGPIPE.
SendFailed(s) == s.peer = "reset"
SendKills(s) == s.peer = "broken"

----------------------------------------------------------------------------
(* ServerRun: one iteration of the state machine of slot i                 *)

\* What ServerRun does before the do-while.
Entered(c) ==
    IF again \/ ~c.inUse THEN c
    ELSE [c EXCEPT !.waitTick = IF c.running THEN "invalid" ELSE @,
                   !.idleTime = IF c.state \in {"eIdle", "eNewConnection"}
                                THEN Min({@ + 1, MaxIdle}) ELSE 0]

Client == Entered(pClients[i])

\* The test of the do-while, which goes round again when the state has changed.
WhileTest(changed) ==
    /\ again' = changed
    /\ i' = IF again' THEN i ELSE (i + 1) % maxConnections
    /\ pc' = IF i' = 0 /\ ~again' THEN "set" ELSE "run"

RunTo(t) ==
    /\ SetTable(t)
    /\ WhileTest(t.clients[i].state # pClients[i].state)
    /\ UNCHANGED <<origState, listening, callback, setVars, backlog>>

\* The test after a thread was started, which may have changed the state already.
RunTest ==
    /\ pc = "test"
    /\ WhileTest(pClients[i].state # origState)
    /\ origState' = "eIdle"
    /\ UNCHANGED <<listening, callback, setVars, pClients, connectionsActive, hook, sockVars>>

WithClient(c) == [Table EXCEPT !.clients[i] = c]

Working == Client.running /\ Client.state \in {"eDataReceived", "eDataSending",
                                               "eWaitForRecvData", "eProcessingRequest"}

RunDefault ==
    /\ pc = "run"
    /\ \/ ~Client.inUse
       \/ Working
       \/ Client.state \in {"eIdle", "eNewConnection", "eDataSending"}
    /\ RunTo(WithClient([Client EXCEPT !.waitTick =
                            IF Client.state \in {"eIdle", "eNewConnection"} THEN "invalid" ELSE @]))
    /\ UNCHANGED hook

\* DetermineClientRequest does not find a callback for the request.
RunRefused ==
    /\ pc = "run" /\ Client.inUse /\ ~Working
    /\ \/ Client.state = "eProcessingRequest"
       \/ Client.state = "eDataReceived" /\ callback # "none"
    /\ RunTo(WithClient([Client EXCEPT !.waitTick = "invalid"]))
    /\ UNCHANGED hook

\* pthread_create returned 0: assert(result) takes that for a failure.
SpawnHookThread ==
    /\ callback = "thread"
    /\ IF NDEBUG
       THEN /\ SetTable(WithClient([Client EXCEPT !.waitTick = "invalid", !.running = TRUE]))
            /\ hook' = [hook EXCEPT ![i] = "running"]
            /\ pc' = "test" /\ origState' = Client.state
            /\ UNCHANGED <<i, again, listening, callback, setVars, backlog>>
       ELSE /\ pc' = "killed"
            /\ UNCHANGED <<i, again, origState, listening, callback, setVars, pClients,
                           connectionsActive, hook, sockVars>>

\* pthread_create failed: assert passes and the caller is told true.
SpawnHookThreadFails ==
    /\ callback = "thread" /\ SpawnFails
    /\ RunTo(WithClient([Client EXCEPT !.waitTick = "invalid", !.running = TRUE]))
    /\ UNCHANGED hook

CallInline ==
    /\ callback = "inline"
    /\ \E s \in HookStates :
          RunTo(WithClient([Client EXCEPT !.waitTick = "invalid", !.state = s]))
    /\ UNCHANGED hook

\* The stack size is 0 and the callback NULL: the call ends the process.
CallNull ==
    /\ callback = "none"
    /\ pc' = "killed"
    /\ UNCHANGED <<i, again, origState, listening, callback, setVars, pClients,
                   connectionsActive, hook, sockVars>>

HandleConnectionHook ==
    /\ pc = "run" /\ Client.inUse /\ ~Working
    /\ Client.state \in {"eDataReceived", "eProcessingRequest"}
    /\ SpawnHookThread \/ SpawnHookThreadFails \/ CallInline \/ CallNull

Waiting == pc = "run" /\ Client.inUse /\ ~Working /\ Client.state = "eWaitForRecvData"

\* The first look at a waiting connection takes the time.
RunWait ==
    /\ Waiting /\ Client.waitTick # "expired"
    /\ RunTo(WithClient([Client EXCEPT !.waitTick = "valid"]))
    /\ UNCHANGED hook

RunExpired ==
    /\ Waiting /\ Client.waitTick = "expired"
    /\ RunTo(CloseConnection(WithClient(Client), i))
    /\ UNCHANGED hook

RunUnrecoverable ==
    /\ pc = "run" /\ Client.inUse /\ Client.state = "eUnrecoverableFailureOrEnd"
    /\ IF SendKills(sock[Client.socket])
       THEN pc' = "killed" /\ UNCHANGED <<i, again, origState, listening, callback, setVars, pClients,
                                          connectionsActive, sockVars>>
       ELSE RunTo(CloseConnection([WithClient(Client) EXCEPT
                                       !.sock[Client.socket] = TransmitPending(@)], i))
    /\ UNCHANGED hook

\* The clock passes the limit of a waiting connection.
TimePasses(k) ==
    /\ pc # "killed" /\ pClients[k].waitTick = "valid"
    /\ pClients' = [pClients EXCEPT ![k].waitTick = "expired"]
    /\ UNCHANGED <<loopVars, setVars, connectionsActive, hook, sockVars>>

ServerRun ==
    \/ RunDefault \/ RunRefused \/ HandleConnectionHook \/ RunTest
    \/ RunWait \/ RunExpired \/ RunUnrecoverable

----------------------------------------------------------------------------
(* httpHook: a hook thread works on pClients[k] beside the main loop       *)

HookRuns(k) ==
    /\ hook[k] = "running"
    /\ \E s \in HookStates : pClients' = [pClients EXCEPT ![k].state = s]
    /\ hook' = [hook EXCEPT ![k] = "returned"]
    /\ UNCHANGED <<loopVars, setVars, connectionsActive, sockVars>>

HookEnds(k) ==
    /\ hook[k] = "returned"
    /\ pClients' = [pClients EXCEPT ![k].running = FALSE]
    /\ hook' = [hook EXCEPT ![k] = "none"]
    /\ UNCHANGED <<loopVars, setVars, connectionsActive, sockVars>>

HookThread(k) == pc # "killed" /\ (HookRuns(k) \/ HookEnds(k))

----------------------------------------------------------------------------
(* The descriptor sets, select and accept, and the two loops               *)

WatchedAlways == {pClients[k].socket : k \in InUse}     \* seeded fault

\* Connections a hook is not working on.
WatchedForRead == {pClients[k].socket : k \in {m \in InUse : ~pClients[m].running}}

\* CreateListeningSocket is tried again in every round until it succeeds.
CreateListeningSocket == listening' \in {TRUE, listening}

\* isCallbackHandlingWrites is never set, so every connection is watched.
SetFds ==
    /\ pc = "set"
    /\ CreateListeningSocket
    /\ readReady' = WatchedForRead
    /\ writeReady' = {pClients[k].socket : k \in InUse}
    /\ needWrite' = (InUse # {})
    /\ pc' = "select"
    /\ UNCHANGED <<i, again, origState, callback, pClients, connectionsActive, hook, sockVars>>

Stale(t) ==
    LET idle == {k \in reserveConn..(maxConnections - 1) :
                    /\ t.clients[k].idleTime > 0 /\ ~t.clients[k].running
                    /\ t.clients[k].state \in {"eIdle", "eNewConnection"}}
        longest == Max({t.clients[k].idleTime : k \in idle})
    IN  IF idle = {} THEN {} ELSE {Min({k \in idle : t.clients[k].idleTime = longest})}

Full(t) == t.active + reserveConn >= maxConnections

MakeRoom(t) == IF Full(t) /\ Stale(t) # {} THEN CloseConnection(t, Min(Stale(t))) ELSE t

FreeSlots(t) == {k \in reserveConn..(maxConnections - 1) : ~t.clients[k].inUse}

Accepts(t) == ~(Full(t) /\ Stale(t) = {}) /\ FreeSlots(MakeRoom(t)) # {}

Establish(t, k, fd) ==
    [clients |-> [t.clients EXCEPT ![k] = Connection(fd)],
     active  |-> t.active + 1,
     sock    |-> [t.sock EXCEPT ![fd] = Accepted]]

NewConnection ==
    LET t == MakeRoom(Table) IN
    /\ SetTable(Establish(t, Min(FreeSlots(t)), Min({f \in Fds : t.sock[f] = Closed})))
    /\ backlog' = backlog - 1

\* select leaves the ready descriptors in the sets; then the loops start.
SelectReturns ==
    /\ pc = "select"
    /\ readReady' = {f \in readReady : Readable(f)}
    /\ writeReady' = {f \in writeReady : Writable(f)}
    /\ pc' = IF connectionsActive' > 0 THEN "recv" ELSE IF needWrite THEN "xmit" ELSE "run"
    /\ UNCHANGED <<i, again, origState, listening, callback, needWrite, hook>>

Wanted == listening /\ backlog > 0 /\ connectionsActive < maxConnections /\ Accepts(Table)

SelectAccept == pc = "select" /\ Wanted /\ NewConnection /\ SelectReturns

\* No connection waits, or accept fails or is not called.
SelectNoAccept ==
    /\ pc = "select"
    /\ SetTable(IF Wanted THEN MakeRoom(Table) ELSE Table)
    /\ SelectReturns
    /\ UNCHANGED backlog

Advance(here, next) ==
    /\ i' = (i + 1) % maxConnections
    /\ pc' = IF i' = 0 THEN next ELSE here
    /\ UNCHANGED <<again, origState, listening, callback, setVars, hook, backlog>>

Received(t, k) ==
    LET fd == t.clients[k].socket
        r  == [t EXCEPT !.sock[fd] = AfterRecv(@)]
    IN  IF t.sock[fd].data THEN [r EXCEPT !.clients[k].state = "eDataReceived"]
        ELSE CloseConnection(r, k)

ReceiveLoop ==
    /\ pc = "recv"
    /\ SetTable(IF pClients[i].inUse /\ pClients[i].socket \in readReady
                THEN Received(Table, i) ELSE Table)
    /\ Advance("recv", IF needWrite THEN "xmit" ELSE "run")

Sending == pClients[i].inUse /\ pClients[i].socket \in writeReady

\* pendingSendBuffer is an array and never NULL: a connection in use is sent to
\* in every round and never set idle, and every free slot is "closed".
Transmitted(t, k) ==
    LET fd == t.clients[k].socket
        u  == [t EXCEPT !.sock[fd] = TransmitPending(@)]
    IN  IF SendFailed(t.sock[fd]) THEN CloseConnection(u, k) ELSE u

TransmitPendingLoop ==
    /\ pc = "xmit"
    /\ ~(Sending /\ SendKills(sock[pClients[i].socket]))
    /\ SetTable(IF Sending THEN Transmitted(Table, i)
                ELSE IF pClients[i].inUse THEN Table ELSE CloseConnection(Table, i))
    /\ Advance("xmit", "run")

TransmitKilled ==
    /\ pc = "xmit" /\ Sending /\ SendKills(sock[pClients[i].socket])
    /\ pc' = "killed"
    /\ UNCHANGED <<i, again, origState, listening, callback, setVars, pClients,
                   connectionsActive, hook, sockVars>>

ServerModelMain ==
    \/ ServerRun \/ SetFds \/ SelectAccept \/ SelectNoAccept
    \/ ReceiveLoop \/ TransmitPendingLoop \/ TransmitKilled

Environment ==
    /\ pc # "killed"
    /\ ClientStep
    /\ UNCHANGED <<loopVars, setVars, pClients, connectionsActive, hook>>

Next == ServerModelMain \/ (\E k \in Slots : HookThread(k) \/ TimePasses(k)) \/ Environment

Spec == Init /\ [][Next]_vars

----------------------------------------------------------------------------
(* Properties                                                              *)

\* The slots in use have sockets of their own and these are all that is open,
\* although closes go to free slots too, descriptors are reused and hook
\* threads write to the slots: no descriptor leaks or is closed for another.
SocketsMatch ==
    /\ \A k, m \in InUse : pClients[k].socket = pClients[m].socket => k = m
    /\ {pClients[k].socket : k \in InUse} = OpenFds

\* The counter never exceeds the connections in use.
CountNeverHigh == connectionsActive <= Cardinality(InUse)

\* The table, the counter and the open descriptors agree.
TableAgrees == TypeOK /\ SocketsMatch /\ CountNeverHigh

\* A hook thread never outlives its connection: until it returns the slot it was
\* given stays in use and marked as running, so what it writes there cannot
\* land in a connection accepted later.
HookOwnsSlot == \A k \in Slots : hook[k] # "none" => pClients[k].inUse /\ pClients[k].running
============================================================================
