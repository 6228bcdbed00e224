------------------------------ MODULE ConnWorker ------------------------------
(***************************************************************************)
(* The worker threads of c1000kPracticeGuide/cppserver: worker_thread and  *)
(* the client_* callbacks (src/worker.cc), process_event                   *)
(* (src/process_event.cc), the array gFDITEM they share, and the reuse of  *)
(* descriptors by the kernel.                                              *)
(*                                                                         *)
(* Each worker has an epoll set, a TIMER and a socket from which it reads  *)
(* the descriptors it is given (module Dispatch models their way there;    *)
(* here Accept puts a new descriptor straight into that socket).  All      *)
(* descriptors are edge-triggered and registered for EPOLLIN only.  Time   *)
(* is counted in units of which Period is the 10 s of a client's timer.    *)
(* A local variable is reset where its scope ends.                         *)
(***************************************************************************)
EXTENDS Timers, Sequences, FiniteSets

CONSTANTS
  Workers,    \* the worker threads
  Fds,        \* descriptors the kernel may hand out: 1 .. n
  Period,     \* 10 * 1000 ms
  Idle,       \* the 1000 ms a worker waits when it has no timer
  Mintimer,   \* TIMER::mintimer
  Presend,    \* presend, the bytes of one message to a client
  MaxAccepts, \* bound on the connections accepted
  Horizon     \* bound on the time

ASSUME WorkerConstants ==
  /\ Workers # {} /\ Fds \subseteq Nat \ {0}
  /\ {Period, Presend} \subseteq Nat \ {0} /\ {Idle, Mintimer, MaxAccepts, Horizon} \subseteq Nat

VARIABLES
  kfd,      \* per descriptor "free" or "open"
  orders,   \* per worker, the descriptors waiting in its socket orderfd
  set,      \* per worker, the client descriptors in its epoll set
  edge,     \* per worker, the descriptors with an event not yet reported
  oedge,    \* per worker, whether orderfd has such an event
  peer,     \* per descriptor, the other side: "up", "fin" or "rst"
  unread,   \* per descriptor, whether data waits in the socket
  item,     \* gFDITEM: the callbacks are set, m_activeclose, m_sended
  timer,    \* per worker, its TIMER
  pc,       \* per worker, where it is
  evlist,   \* per worker, the reported descriptors still to be processed
  cur,      \* per worker, the descriptor being closed
  deadline, \* per worker, when its epoll_wait times out
  tnow,     \* per worker, the time stamp of its round of timers
  now, accepts

kernel == <<kfd, orders, set, edge, oedge>>
net == <<peer, unread>>
loop == <<pc, evlist, cur, deadline, tnow>>
vars == <<kernel, net, item, timer, loop, now, accepts>>

\* FDITEM::init().
FreshItem == [fun |-> FALSE, activeclose |-> FALSE, sended |-> 0]
OrderFd == 0        \* stands for orderfd in an event list

Init ==
  /\ kfd = [f \in Fds |-> "free"]
  /\ orders = [w \in Workers |-> <<>>]
  /\ set = [w \in Workers |-> {}]
  /\ edge = [w \in Workers |-> {}]
  /\ oedge = [w \in Workers |-> FALSE]
  /\ peer = [f \in Fds |-> "up"] /\ unread = [f \in Fds |-> FALSE]
  /\ item = [f \in Fds |-> FreshItem]
  /\ timer = [w \in Workers |-> NewTimer]
  /\ pc = [w \in Workers |-> "wait"]
  /\ evlist = [w \in Workers |-> {}]
  /\ cur = [w \in Workers |-> OrderFd]
  /\ deadline = [w \in Workers |-> Idle]
  /\ tnow = [w \in Workers |-> 0]
  /\ now = 0 /\ accepts = 0

-------------------------------------------------------------------------------
(***************************************************************************)
(* The environment: connections, their peers, and time.                    *)
(***************************************************************************)
\* accept returns the least free descriptor, which is sent to worker w.
Accept(w) ==
  /\ accepts < MaxAccepts
  /\ \E f \in Fds :
       /\ kfd[f] = "free"
       /\ \A g \in Fds : kfd[g] = "free" => f <= g
       /\ kfd' = [kfd EXCEPT ![f] = "open"]
       /\ peer' = [peer EXCEPT ![f] = "up"]
       /\ unread' = [unread EXCEPT ![f] = FALSE]
       /\ orders' = [orders EXCEPT ![w] = Append(@, f)]
       /\ oedge' = [oedge EXCEPT ![w] = TRUE]
  /\ accepts' = accepts + 1
  /\ UNCHANGED <<set, edge, item, timer, loop, now>>

Notify(f) == edge' = [w \in Workers |-> IF f \in set[w] THEN edge[w] \cup {f}
                                        ELSE edge[w]]

PeerSend(f) ==
  /\ kfd[f] = "open" /\ peer[f] = "up" /\ ~unread[f]
  /\ unread' = [unread EXCEPT ![f] = TRUE]
  /\ Notify(f)
  /\ UNCHANGED <<kfd, orders, set, oedge, peer, item, timer, loop, now, accepts>>

PeerClose(f) ==
  /\ kfd[f] = "open" /\ peer[f] = "up"
  /\ \E end \in {"fin", "rst"} : peer' = [peer EXCEPT ![f] = end]
  /\ Notify(f)
  /\ UNCHANGED <<kfd, orders, set, oedge, unread, item, timer, loop, now, accepts>>

Tick ==
  /\ now < Horizon
  /\ now' = now + 1
  /\ UNCHANGED <<kernel, net, item, timer, loop, accepts>>

-------------------------------------------------------------------------------
(***************************************************************************)
(* worker_thread and process_event.                                        *)
(***************************************************************************)
\* epoll_wait returns with events, or because it timed out.
EpollWait(w) ==
  /\ pc[w] = "wait"
  /\ edge[w] # {} \/ oedge[w] \/ now >= deadline[w]
  /\ evlist' = [evlist EXCEPT ![w] = edge[w] \cup
                                     (IF oedge[w] THEN {OrderFd} ELSE {})]
  /\ edge' = [edge EXCEPT ![w] = {}]
  /\ oedge' = [oedge EXCEPT ![w] = FALSE]
  /\ deadline' = [deadline EXCEPT ![w] = 0]
  /\ pc' = [pc EXCEPT ![w] = "events"]
  /\ UNCHANGED <<kfd, orders, set, net, item, timer, cur, tnow, now, accepts>>

\* process_one_event of orderfd, which calls readfun_getConnections.
OrdersEvent(w) ==
  /\ pc[w] = "events" /\ OrderFd \in evlist[w]
  /\ evlist' = [evlist EXCEPT ![w] = @ \ {OrderFd}]
  /\ pc' = [pc EXCEPT ![w] = "orders"]
  /\ UNCHANGED <<kernel, net, item, timer, cur, deadline, tnow, now, accepts>>

\* process_connection takes the next descriptor from the socket: callbacks,
\* EPOLL_CTL_ADD (which reports what is already there) and a timer.
Register(w) ==
  /\ pc[w] = "orders" /\ orders[w] # <<>>
  /\ LET f == Head(orders[w]) IN
       /\ item' = [item EXCEPT ![f].fun = TRUE]
       /\ set' = [set EXCEPT ![w] = @ \cup {f}]
       /\ edge' = [edge EXCEPT ![w] = IF unread[f] \/ peer[f] # "up" THEN @ \cup {f} ELSE @]
       /\ timer' = [timer EXCEPT ![w] = add_timer(@, f, now + Period)]
  /\ orders' = [orders EXCEPT ![w] = Tail(@)]
  /\ UNCHANGED <<kfd, oedge, net, loop, now, accepts>>

\* readfun_getConnections ends on EAGAIN.
OrdersRead(w) ==
  /\ pc[w] = "orders" /\ orders[w] = <<>>
  /\ pc' = [pc EXCEPT ![w] = "events"]
  /\ UNCHANGED <<kernel, net, item, timer, evlist, cur, deadline, tnow, now, accepts>>

\* Seeded fault: one read per event instead of reading until it fails.
ClientEventOnce(w) ==
  /\ pc[w] = "events"
  /\ \E f \in evlist[w] \ {OrderFd} :
       LET closing == peer[f] = "fin" /\ ~unread[f]
       IN  /\ unread' = [unread EXCEPT ![f] = FALSE]
           /\ item' = [item EXCEPT ![f].activeclose = closing]
           /\ evlist' = [evlist EXCEPT ![w] = @ \ {f}]
           /\ cur' = [cur EXCEPT ![w] = IF closing THEN f ELSE @]
           /\ pc' = [pc EXCEPT ![w] = IF closing THEN "close" ELSE "events"]
  /\ UNCHANGED <<kernel, peer, timer, deadline, tnow, now, accepts>>

\* process_one_event of a client: client_readfun reads until read fails (any
\* error, a reset included, ends the loop) or returns 0, which starts the close.
ClientEvent(w) ==
  /\ pc[w] = "events"
  /\ \E f \in evlist[w] \ {OrderFd} :
       LET reads == ~item[f].activeclose /\ item[f].fun
           closing == item[f].activeclose \/ (reads /\ peer[f] = "fin")
       IN  /\ unread' = [unread EXCEPT ![f] = @ /\ ~reads]
           /\ item' = [item EXCEPT ![f].activeclose = closing]
           /\ evlist' = [evlist EXCEPT ![w] = @ \ {f}]
           /\ cur' = [cur EXCEPT ![w] = IF closing THEN f ELSE @]
           /\ pc' = [pc EXCEPT ![w] = IF closing THEN "close" ELSE "events"]
  /\ UNCHANGED <<kernel, peer, timer, deadline, tnow, now, accepts>>

\* Seeded fault: the descriptor is closed before the item is reset (and again
\* after it).
CloseRemoveAndShut(w) ==
  /\ pc[w] = "close"
  /\ timer' = [timer EXCEPT ![w] = remove_timer(@, cur[w])]
  /\ kfd' = [kfd EXCEPT ![cur[w]] = "free"]
  /\ set' = [set EXCEPT ![w] = @ \ {cur[w]}]
  /\ edge' = [edge EXCEPT ![w] = @ \ {cur[w]}]
  /\ pc' = [pc EXCEPT ![w] = "reset"]
  /\ UNCHANGED <<orders, oedge, net, item, evlist, cur, deadline, tnow, now, accepts>>

\* client_closefun: the timers go, the item is reset and the descriptor is
\* closed, which also takes it out of the epoll set.  The worker's
\* remove_timer(&gFDITEM[fd]) before it names no item and removes nothing.
CloseRemove(w) ==
  /\ pc[w] = "close"
  /\ timer' = [timer EXCEPT ![w] = remove_timer(@, cur[w])]
  /\ pc' = [pc EXCEPT ![w] = "reset"]
  /\ UNCHANGED <<kernel, net, item, evlist, cur, deadline, tnow, now, accepts>>

\* Seeded fault: m_activeclose survives the reset.
CloseInitPartial(w) ==
  /\ pc[w] = "reset"
  /\ item' = [item EXCEPT ![cur[w]].fun = FALSE, ![cur[w]].sended = 0]
  /\ pc' = [pc EXCEPT ![w] = "shut"]
  /\ UNCHANGED <<kernel, net, timer, evlist, cur, deadline, tnow, now, accepts>>

CloseInit(w) ==
  /\ pc[w] = "reset"
  /\ item' = [item EXCEPT ![cur[w]] = FreshItem]
  /\ pc' = [pc EXCEPT ![w] = "shut"]
  /\ UNCHANGED <<kernel, net, timer, evlist, cur, deadline, tnow, now, accepts>>

CloseFd(w) ==
  /\ pc[w] = "shut"
  /\ kfd' = [kfd EXCEPT ![cur[w]] = "free"]
  /\ set' = [set EXCEPT ![w] = @ \ {cur[w]}]
  /\ edge' = [edge EXCEPT ![w] = @ \ {cur[w]}]
  /\ cur' = [cur EXCEPT ![w] = OrderFd]
  /\ pc' = [pc EXCEPT ![w] = "events"]
  /\ UNCHANGED <<orders, oedge, net, item, timer, evlist, deadline, tnow, now, accepts>>

\* The events are done; the time stamp of the timed tasks is taken.
EventsDone(w) ==
  /\ pc[w] = "events" /\ evlist[w] = {}
  /\ tnow' = [tnow EXCEPT ![w] = now]
  /\ pc' = [pc EXCEPT ![w] = "timers"]
  /\ UNCHANGED <<kernel, net, item, timer, evlist, cur, deadline, now, accepts>>

\* m_sended after a write of n bytes.
Sent(sended, n) == IF sended + n = Presend THEN 0 ELSE sended + n

\* get_timer returns an expired item and client_timeoutfun writes the rest of
\* the message, as much as the socket takes, or fails; the timer is set again.
Timeout(w) ==
  /\ pc[w] = "timers"
  /\ \E e \in Expired(timer[w], tnow[w]) :
       /\ timer' = [timer EXCEPT ![w] =
                      add_timer(Popped(@, e), e[2], tnow[w] + Period)]
       /\ \/ \E n \in 1 .. Presend - item[e[2]].sended :
               peer[e[2]] # "rst" /\ item' = [item EXCEPT ![e[2]].sended = Sent(@, n)]
          \/ UNCHANGED item
  /\ UNCHANGED <<kernel, net, loop, now, accepts>>

\* Nothing has expired: the next timeout of epoll_wait is computed.
Sleep(w) ==
  /\ pc[w] = "timers"
  /\ Expired(timer[w], tnow[w]) = {}
  /\ deadline' = [deadline EXCEPT ![w] =
                    now + IF timer[w].arg_time = EmptyBag THEN Idle
                          ELSE get_mintimer(timer[w], now, Mintimer)]
  /\ tnow' = [tnow EXCEPT ![w] = 0]
  /\ pc' = [pc EXCEPT ![w] = "wait"]
  /\ UNCHANGED <<kernel, net, item, timer, evlist, cur, now, accepts>>

WorkerStep(w) ==
  \/ EpollWait(w) \/ OrdersEvent(w) \/ Register(w) \/ OrdersRead(w) \/ ClientEvent(w)
  \/ CloseRemove(w) \/ CloseInit(w) \/ CloseFd(w)
  \/ EventsDone(w) \/ Timeout(w) \/ Sleep(w)

\* The end of the modelled time.
Stopped == now = Horizon /\ UNCHANGED vars

Next ==
  \/ \E w \in Workers : Accept(w) \/ WorkerStep(w)
  \/ \E f \in Fds : PeerSend(f) \/ PeerClose(f)
  \/ Tick \/ Stopped

Spec == Init /\ [][Next]_vars

\* A thread that can run does run.
FairSpec == Spec /\ \A w \in Workers : WF_vars(WorkerStep(w))

-------------------------------------------------------------------------------
\* Type invariant; m_sended never runs past the message it indexes.
TypeOK ==
  /\ \A f \in Fds : /\ kfd[f] \in {"free", "open"}
                     /\ peer[f] \in {"up", "fin", "rst"}
                     /\ item[f].sended \in 0 .. Presend - 1
  /\ \A w \in Workers :
       /\ set[w] \subseteq Fds /\ edge[w] \subseteq set[w]
       /\ evlist[w] \subseteq set[w] \cup {OrderFd}
       /\ pc[w] \in {"wait", "events", "orders", "close", "reset", "shut", "timers"}

\* The worker w is closing descriptor f and has removed its timers.
Untimed(w, f) == cur[w] = f /\ pc[w] \in {"reset", "shut"}

\* The two multimaps of every TIMER mirror each other, so that the assert(0)
\* of get_timer is never reached.
TimersMirrored ==
  \A w \in Workers :
    /\ Mirrored(timer[w])
    /\ \A e \in Earliest(timer[w]) : ~PopAsserts(timer[w], e)

\* A worker that waits in epoll_wait wakes up no later than its earliest
\* timer.
NoOversleep ==
  \A w \in Workers : pc[w] = "wait" =>
    \A e \in BagToSet(timer[w].time_arg) : deadline[w] <= e[1] \/ deadline[w] <= now

\* A connection has exactly one timer, in its own worker, from its
\* registration to its close, however often the timer fired in between; no
\* timer is left behind for a descriptor that was closed.  The maps that hold
\* the timers agree throughout, and no worker sleeps past one of them.
OneTimerEach ==
  /\ TypeOK /\ TimersMirrored /\ NoOversleep
  /\ \A w \in Workers, f \in Fds :
       LET mine == {e \in BagToSet(timer[w].time_arg) : e[2] = f}
       IN  IF f \in set[w] /\ ~Untimed(w, f)
           THEN \E e \in mine : mine = {e} /\ timer[w].time_arg[e] = 1
           ELSE mine = {}

\* While a descriptor is registered its callbacks are set, so neither an event
\* nor a timer calls a null pointer, although gFDITEM is shared and
\* descriptors are reused by other workers at once.
CallbacksSet ==
  \A w \in Workers, f \in Fds :
    f \in set[w] /\ ~(cur[w] = f /\ pc[w] = "shut") => item[f].fun

\* A descriptor that is on its way to a worker has a fresh item: nothing of
\* the connection that used the number before is left.
FreshOnReuse ==
  \A w \in Workers : \A i \in DOMAIN orders[w] : item[orders[w][i]] = FreshItem

\* An open descriptor is in exactly one place, one worker's socket or one
\* worker's epoll set, and a free one nowhere; no worker resets an item that
\* another one works on.
SingleOwner ==
  /\ CallbacksSet
  /\ \A f \in Fds :
       LET places == {<<w, "set">> : w \in {v \in Workers : f \in set[v]}}
                \cup {p \in Workers \X (1 .. MaxAccepts) :
                         p[2] <= Len(orders[p[1]]) /\ orders[p[1]][p[2]] = f}
       IN  Cardinality(places) = IF kfd[f] = "open" THEN 1 ELSE 0

\* A connection its peer has closed is eventually closed and its descriptor
\* given back, even when the end of the stream came with unread data or
\* before the descriptor was registered.
FinReleased ==
  \A f \in Fds : kfd[f] = "open" /\ peer[f] = "fin" ~> kfd[f] = "free"

\* A timer that is due is eventually served.
TimersServed ==
  \A w \in Workers :
    (\E e \in BagToSet(timer[w].time_arg) : e[1] <= now)
      ~> \A e \in BagToSet(timer[w].time_arg) : e[1] > now
===============================================================================
