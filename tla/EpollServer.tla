---------------------------- MODULE EpollServer ----------------------------
(***************************************************************************)
(* IOModels/epoll/epollTcpServer: the event loop of start_server, the list *)
(* of clients, and handle (test/test.c) run by the threads of the pool,    *)
(* which is reduced to its bounded queue (module ThreadPool has the rest). *)
(* A task is given a pointer into events[], not a descriptor, and reads it *)
(* again at each use; add_clilist and del_clilist are called from several  *)
(* threads without a lock.  Epoll is edge-triggered.  Descriptors of       *)
(* connections are never closed, so they are numbered as they come, and    *)
(* the process runs out of them.                                           *)
(***************************************************************************)
EXTENDS Integers, FiniteSets, Sequences, SequencesExt

CONSTANTS
    MAX_CONNECT,    \* entries of clilist and of events
    Descriptors,    \* connections the process can accept in its life
    QUEUE,          \* entries of the pool's queue
    Threads,
    LINE,           \* what one read of handle takes: 255 bytes in the code
    MaxData,        \* bound on what a client has sent and nobody read
    Polite          \* clients connect, leave and send their next message only
                    \* when the server has nothing to do, send text, and do not
                    \* connect when the list or the descriptors are used up

ASSUME EpollAssumption ==
    /\ MAX_CONNECT \in Nat \ {0} /\ Descriptors \in Nat \ {0} /\ QUEUE \in Nat \ {0}
    /\ LINE \in Nat \ {0} /\ MaxData \in Nat \ {0}
    /\ IsFiniteSet(Threads) /\ Threads # {} /\ Polite \in BOOLEAN

VARIABLES
    backlog, conn,          \* waiting connections; descriptor -> its connection
    registered, ready,      \* descriptors in epollfd; those with an edge to report
    events, nfds, i, loop,  \* of start_server
    clilist, tailindex,
    queue, task             \* indices into events; thread -> what it does

kernel == <<backlog, conn, registered, ready>>
main == <<events, nfds, i, loop>>
list == <<clilist, tailindex>>
pool == <<queue, task>>
vars == <<kernel, main, list, pool>>

listenfd == 0
Conns == 1..Descriptors
None == -1

NoConn == [peer |-> "none", data |-> 0]
Resting == [pc |-> "rest", arg |-> None, n |-> 0]

TypeOK ==
    /\ backlog \in 0..(Descriptors + 1)
    /\ conn \in [Conns -> [peer : {"none", "open", "fin", "reset"}, data : 0..MaxData]]
    /\ registered \subseteq Conns \cup {listenfd} /\ ready \subseteq registered
    /\ events \in [1..MAX_CONNECT -> Conns \cup {listenfd, None}]
    /\ nfds \in 0..MAX_CONNECT /\ i \in 1..(MAX_CONNECT + 1)
    /\ loop \in {"wait", "events", "add"}
    /\ clilist \in [0..(MAX_CONNECT - 1) -> Conns \cup {None}]
    /\ tailindex \in 0..MAX_CONNECT
    /\ Len(queue) <= QUEUE /\ \A k \in DOMAIN queue : queue[k] \in DOMAIN events
    /\ \A t \in Threads : task[t].pc \in {"rest", "read", "echo", "all", "gone", "shift", "drop"}

Init ==
    /\ backlog = 0 /\ conn = [f \in Conns |-> NoConn]
    /\ registered = {listenfd} /\ ready = {}
    /\ events = [k \in 1..MAX_CONNECT |-> None] /\ nfds = 0 /\ i = 1 /\ loop = "wait"
    /\ clilist = [k \in 0..(MAX_CONNECT - 1) |-> None] /\ tailindex = 0
    /\ queue = <<>> /\ task = [t \in Threads |-> Resting]

Waiting == loop = "wait" /\ queue = <<>> /\ \A t \in Threads : task[t] = Resting
Idle == Waiting /\ ready = {}

----------------------------------------------------------------------------
(* Clients.  Something new on a registered descriptor makes it ready.      *)

May == Polite => Idle
Notify(f) == ready' = ready \cup ({f} \cap registered)

\* The descriptor of the next connection: none was ever closed.
NewFd == 1 + Cardinality({f \in Conns : conn[f] # NoConn})

\* Bound: one connection more than the process has descriptors for.
Connect ==
    /\ May /\ backlog + NewFd <= Descriptors + 1
    /\ Polite => NewFd \in Conns /\ tailindex < MAX_CONNECT
    /\ backlog' = backlog + 1
    /\ Notify(listenfd)
    /\ UNCHANGED <<conn, registered, main, list, pool>>

\* A message of any length.  Several polite clients may send at once.
Send(f) ==
    /\ Polite => Waiting /\ f \notin ready /\ \A g \in ready : g \in Conns /\ conn[g].data > 0
    /\ conn[f].peer = "open"
    /\ \E d \in (conn[f].data + 1)..MaxData : conn' = [conn EXCEPT ![f].data = d]
    /\ Notify(f)
    /\ UNCHANGED <<backlog, registered, main, list, pool>>

Leave(f, how) ==
    /\ May /\ conn[f].peer = "open"
    /\ conn' = [conn EXCEPT ![f].peer = how]
    /\ Notify(f)
    /\ UNCHANGED <<backlog, registered, main, list, pool>>

----------------------------------------------------------------------------
(* start_server                                                            *)

\* epoll_wait overwrites the first nfds entries of events, in any order, and
\* keeps for later what finds no room there.
EpollWait ==
    /\ loop = "wait" /\ ready # {}
    /\ nfds' = Min({Cardinality(ready), MAX_CONNECT})
    /\ \E s \in [1..nfds' -> ready] :
          /\ \A a, b \in DOMAIN s : s[a] = s[b] => a = b
          /\ events' = [k \in DOMAIN events |-> IF k \in DOMAIN s THEN s[k] ELSE events[k]]
          /\ ready' = ready \ {s[k] : k \in DOMAIN s}
    /\ i' = 1 /\ loop' = "events"
    /\ UNCHANGED <<backlog, conn, registered, list, pool>>

EndOfEvents ==
    /\ loop = "events" /\ i > nfds
    /\ loop' = "wait"
    /\ UNCHANGED <<kernel, events, nfds, i, list, pool>>

Handling(f) == loop = "events" /\ i <= nfds /\ events[i] = f

Taken(b) == b - 1

CanAccept == backlog > 0 /\ NewFd \in Conns

\* One accept for one event, and the first half of add_clilist.
Accept ==
    /\ Handling(listenfd) /\ CanAccept
    /\ tailindex \in DOMAIN clilist
    /\ backlog' = Taken(backlog)
    /\ conn' = [conn EXCEPT ![NewFd].peer = "open"]
    /\ clilist' = [clilist EXCEPT ![tailindex] = NewFd]
    /\ loop' = "add"
    /\ UNCHANGED <<registered, ready, events, nfds, i, tailindex, pool>>

\* accept returns -1, for want of a connection or of a descriptor (EMFILE), and
\* the process exits.
AcceptExit ==
    /\ Handling(listenfd) /\ ~CanAccept
    /\ loop' = "exit"
    /\ UNCHANGED <<kernel, events, nfds, i, list, pool>>

\* add_clilist writes outside clilist: the result is undefined and the process
\* is not followed any further.
AcceptOverrun ==
    /\ Handling(listenfd) /\ CanAccept
    /\ tailindex \notin DOMAIN clilist
    /\ loop' = "overrun"
    /\ UNCHANGED <<kernel, events, nfds, i, list, pool>>

\* The second half, and EPOLL_CTL_ADD, which reports what has come already.
Add ==
    /\ loop = "add"
    /\ tailindex' = tailindex + 1
    /\ registered' = registered \cup {NewFd - 1}
    /\ ready' = ready \cup {f \in {NewFd - 1} : conn[f] # [peer |-> "open", data |-> 0]}
    /\ i' = i + 1 /\ loop' = "events"
    /\ UNCHANGED <<backlog, conn, events, nfds, clilist, pool>>

Enqueue(q) == IF Len(q) < QUEUE THEN Append(q, i) ELSE q

\* threadpool_add's result is ignored.
Dispatch ==
    /\ \E f \in Conns : Handling(f)
    /\ queue' = Enqueue(queue)
    /\ i' = i + 1
    /\ UNCHANGED <<kernel, events, nfds, loop, list, task>>

StartServer ==
    EpollWait \/ EndOfEvents \/ Accept \/ AcceptExit \/ AcceptOverrun \/ Add \/ Dispatch

----------------------------------------------------------------------------
(* handle, on a thread of the pool                                         *)

\* The descriptor the task's argument points to now.
Fd(t) == events[task[t].arg]

Goto(t, where) == task' = [task EXCEPT ![t].pc = where]
Rest(t) == task' = [task EXCEPT ![t] = Resting]

Take(t) ==
    /\ task[t].pc = "rest" /\ queue # <<>>
    /\ task' = [task EXCEPT ![t] = [pc |-> "read", arg |-> Head(queue), n |-> 0]]
    /\ queue' = Tail(queue)
    /\ UNCHANGED <<kernel, main, list>>

CountOne(d) == IF d < 1 THEN d ELSE 1                                   \* seeded fault

\* One read for one event: what it leaves stays there until something new comes
\* and makes another.
Count(d) == IF d < LINE THEN d ELSE LINE

\* strlen of what was read: a byte 0 ends it, and a line that is full has none.
Strlens(n) == IF Polite THEN {n} ELSE 0..n

\* op_read, of the listening socket an error.
Read(t) ==
    /\ task[t].pc = "read"
    /\ IF Fd(t) = listenfd \/ (conn[Fd(t)].data = 0 /\ conn[Fd(t)].peer # "open")
       THEN Goto(t, "gone") /\ UNCHANGED conn
       ELSE LET n == Count(conn[Fd(t)].data)
            IN  /\ \E m \in Strlens(n) : task' = [task EXCEPT ![t].pc = "echo", ![t].n = m]
                /\ conn' = [conn EXCEPT ![Fd(t)].data = @ - n]
    /\ UNCHANGED <<backlog, registered, ready, main, list, queue>>

Broken(f) == f = listenfd \/ conn[f].peer = "reset"

\* op_write of strlen(line) bytes: writing nothing, after EAGAIN, returns 0, which
\* op_write takes for a disconnected client.
Echo(t) ==
    /\ task[t].pc = "echo"
    /\ IF task[t].n = 0 \/ Broken(Fd(t))
       THEN Goto(t, "gone")
       ELSE task' = [task EXCEPT ![t].pc = "all", ![t].n = 0]
    /\ UNCHANGED <<kernel, main, list, queue>>

\* The entries after one with this descriptor move down by one.
ShiftedNot(l, f) == l                                                   \* seeded fault

Shifted(l, f) ==
    FoldLeft(LAMBDA m, k : IF m[k] # f THEN m
                           ELSE [j \in DOMAIN m |-> IF k <= j /\ j < tailindex - 1 THEN m[j + 1] ELSE m[j]],
             l, [k \in 1..tailindex |-> k - 1])

\* "helloworld" to the client at position n of the list; an error there removes
\* that client within the loop, by the descriptor now in the list.
ToAll(t) ==
    /\ task[t].pc = "all" /\ task[t].n < tailindex
    /\ LET f == clilist[task[t].n]
       IN  IF f # None /\ Broken(f)
           THEN /\ registered' = registered \ {f} /\ ready' = ready \ {f}
                /\ clilist' = Shifted(clilist, f)
                /\ tailindex' = tailindex - 1
           ELSE UNCHANGED <<registered, ready, list>>
    /\ task' = [task EXCEPT ![t].n = @ + 1]
    /\ UNCHANGED <<backlog, conn, main, queue>>

Done(t) ==
    /\ task[t].pc = "all" /\ task[t].n >= tailindex
    /\ Rest(t)
    /\ UNCHANGED <<kernel, main, list, queue>>

op_delete_event(f) == registered' = registered \ {f} /\ ready' = ready \ {f}

Gone(t) ==
    /\ task[t].pc = "gone"
    /\ op_delete_event(Fd(t))
    /\ Goto(t, "shift")
    /\ UNCHANGED <<backlog, conn, main, list, queue>>

Shift(t) ==
    /\ task[t].pc = "shift"
    /\ clilist' = Shifted(clilist, Fd(t))
    /\ Goto(t, "drop")
    /\ UNCHANGED <<kernel, main, tailindex, queue>>

\* The last entry is dropped, whether or not the descriptor was found.
Drop(t) ==
    /\ task[t].pc = "drop"
    /\ tailindex' = tailindex - 1
    /\ Rest(t)
    /\ UNCHANGED <<kernel, main, clilist, queue>>

handle(t) == Take(t) \/ Read(t) \/ Echo(t) \/ ToAll(t) \/ Done(t) \/ Gone(t) \/ Shift(t) \/ Drop(t)

Clients ==
    \/ Connect
    \/ \E f \in Conns : Send(f) \/ Leave(f, "fin") \/ Leave(f, "reset")

Running == loop \notin {"exit", "overrun"}

Next ==
    /\ Running
    /\ StartServer \/ (\E t \in Threads : handle(t)) \/ Clients

Spec == Init /\ [][Next]_vars
FairSpec == Spec /\ WF_vars(StartServer) /\ \A t \in Threads : WF_vars(handle(t))

----------------------------------------------------------------------------
(* Properties                                                              *)

Listed == {clilist[k] : k \in {m \in DOMAIN clilist : m < tailindex}}

\* With clients that leave the server time, send less than a line at a time and
\* keep within its limits, whenever it is idle the list of clients, the
\* descriptors in epollfd and the connections that are still open are the same,
\* each in the list once: accept, read, write and delete, done by different
\* threads, keep the three in step.
ListMatches ==
    Idle => /\ Listed = registered \ {listenfd}
            /\ Listed = {f \in Conns : conn[f].peer = "open"}
            /\ Cardinality(Listed) = tailindex

\* However edges, connections and the loop are interleaved, an event of the
\* listening socket finds a connection to accept: start_server exits after a
\* failed accept for want of descriptors only.
AcceptFinds == Handling(listenfd) => backlog > 0
========================================================================
