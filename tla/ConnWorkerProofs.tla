-------------------------- MODULE ConnWorkerProofs --------------------------
(***************************************************************************)
(* Proofs about ConnWorker, for any number of workers, descriptors and     *)
(* connections: an open descriptor has one owner, a descriptor given out   *)
(* again comes with a fresh item, and a registered connection has exactly  *)
(* one timer.                                                              *)
(***************************************************************************)
EXTENDS ConnWorker, FiniteSetTheorems, TLAPS

Items == [fun : BOOLEAN, activeclose : BOOLEAN, sended : 0 .. Presend - 1]
PCs == {"wait", "events", "orders", "close", "reset", "shut", "timers"}

ConnTypes ==
  /\ kfd \in [Fds -> {"free", "open"}]
  /\ orders \in [Workers -> Seq(Fds)]
  /\ set \in [Workers -> SUBSET Fds] /\ edge \in [Workers -> SUBSET Fds]
  /\ peer \in [Fds -> {"up", "fin", "rst"}]
  /\ item \in [Fds -> Items]
  /\ pc \in [Workers -> PCs]
  /\ evlist \in [Workers -> SUBSET (Fds \cup {OrderFd})]
  /\ cur \in [Workers -> Fds \cup {OrderFd}]
  /\ deadline \in [Workers -> Nat] /\ tnow \in [Workers -> Nat]
  /\ now \in Nat /\ accepts \in 0 .. MaxAccepts

\* Worker w is inside client_closefun.
Closing(w) == pc[w] \in {"close", "reset", "shut"}

\* Events are reported and processed for registered descriptors only, and the
\* one being closed is registered still and has no further event to process.
LoopOK ==
  \A w \in Workers :
    /\ edge[w] \subseteq set[w]
    /\ evlist[w] \subseteq set[w] \cup {OrderFd}
    /\ Closing(w) => cur[w] \in set[w] /\ cur[w] \notin evlist[w]

Queued(w, f) == \E i \in DOMAIN orders[w] : orders[w][i] = f

\* An open descriptor is in one worker's socket, at one place, or in one
\* worker's epoll set.
Owned ==
  /\ \A v, w \in Workers : \A f \in set[v] : f \in set[w] => v = w
  /\ \A v, w \in Workers : \A f \in set[v] : ~Queued(w, f)
  /\ \A v, w \in Workers : \A i \in DOMAIN orders[v], j \in DOMAIN orders[w] :
       orders[v][i] = orders[w][j] => v = w /\ i = j
  /\ \A f \in Fds : kfd[f] = "open" <=>
       \E w \in Workers : f \in set[w] \/ Queued(w, f)
  /\ \A w \in Workers : Len(orders[w]) <= accepts

\* An item is fresh from the reset in client_closefun until process_connection
\* registers the descriptor again, and has its callbacks in between.
ItemsOK ==
  /\ \A f \in Fds : kfd[f] = "free" => item[f] = FreshItem
  /\ \A w \in Workers : pc[w] = "shut" => item[cur[w]] = FreshItem
  /\ CallbacksSet /\ FreshOnReuse

\* The descriptors worker w has a timer for, and a TIMER with one entry for
\* each descriptor of the domain of due.
Timed(w) == {f \in set[w] : ~Untimed(w, f)}
TimerAt(due) ==
  [time_arg |-> SetToBag({<<due[f], f>> : f \in DOMAIN due}),
   arg_time |-> SetToBag({<<f, due[f]>> : f \in DOMAIN due})]

\* The TIMER T has one entry for each descriptor of S, and no other.
OneEach(T, S) == \E due \in [S -> Nat] : T = TimerAt(due)

TimersOK ==
  /\ timer = [w \in Workers |-> timer[w]]
  /\ \A w \in Workers : OneEach(timer[w], Timed(w))

\* The inductive invariant.
ConnInv == ConnTypes /\ LoopOK /\ Owned /\ ItemsOK /\ TimersOK /\ NoOversleep

-----------------------------------------------------------------------------
(***************************************************************************)
(* The class TIMER.                                                        *)
(***************************************************************************)
LEMMA BagAdd ==
  ASSUME NEW A, NEW x, x \notin A
  PROVE  SetToBag(A) (+) SetToBag({x}) = SetToBag(A \cup {x})
BY DEF SetToBag, (+)

LEMMA BagRemove ==
  ASSUME NEW A, NEW x \in A
  PROVE  SetToBag(A) (-) SetToBag({x}) = SetToBag(A \ {x})
BY DEF SetToBag, (-)

LEMMA BagWithout ==
  ASSUME NEW A, NEW gone PROVE Without(SetToBag(A), gone) = SetToBag(A \ gone)
BY DEF SetToBag, Without, BagToSet

\* The two maps of a TIMER that has one entry for each descriptor.
LEMMA TimerMaps ==
  ASSUME NEW due
  PROVE  /\ BagToSet(TimerAt(due).time_arg) = {<<due[f], f>> : f \in DOMAIN due}
         /\ BagToSet(TimerAt(due).arg_time) = {<<f, due[f]>> : f \in DOMAIN due}
         /\ \A e \in BagToSet(TimerAt(due).time_arg) : TimerAt(due).time_arg[e] = 1
         /\ \A e \in BagToSet(TimerAt(due).arg_time) : TimerAt(due).arg_time[e] = 1
BY DEF TimerAt, BagToSet, SetToBag

LEMMA TimerNew == OneEach(NewTimer, {})
<1> DEFINE due == [f \in {} |-> 0]
<1>1. {<<due[f], f>> : f \in DOMAIN due} = {} /\ {<<f, due[f]>> : f \in DOMAIN due} = {}
  OBVIOUS
<1>2. NewTimer = TimerAt(due)
  BY <1>1 DEF NewTimer, TimerAt, EmptyBag
<1> QED BY <1>2 DEF OneEach

LEMMA TimerAdd ==
  ASSUME NEW T, NEW S, OneEach(T, S), NEW f, f \notin S, NEW t \in Nat
  PROVE  OneEach(add_timer(T, f, t), S \cup {f})
<1>0. PICK due \in [S -> Nat] : T = TimerAt(due)
  BY DEF OneEach
<1> DEFINE d == [g \in S \cup {f} |-> IF g = f THEN t ELSE due[g]]
<1>1. d \in [S \cup {f} -> Nat]
  OBVIOUS
<1>2. /\ {<<d[g], g>> : g \in DOMAIN d} = {<<due[g], g>> : g \in DOMAIN due} \cup {<<t, f>>}
      /\ {<<g, d[g]>> : g \in DOMAIN d} = {<<g, due[g]>> : g \in DOMAIN due} \cup {<<f, t>>}
  OBVIOUS
<1>3. /\ <<t, f>> \notin {<<due[g], g>> : g \in DOMAIN due}
      /\ <<f, t>> \notin {<<g, due[g]>> : g \in DOMAIN due}
  OBVIOUS
<1> HIDE DEF d
<1>4. add_timer(TimerAt(due), f, t) = TimerAt(d)
  BY <1>2, <1>3, BagAdd DEF add_timer, TimerAt
<1> QED BY <1>0, <1>1, <1>4 DEF OneEach

LEMMA TimerReset ==
  ASSUME NEW S, NEW due \in [S -> Nat], NEW f \in S, NEW t \in Nat
  PROVE  OneEach(add_timer(Popped(TimerAt(due), <<due[f], f>>), f, t), S)
<1> DEFINE d == [due EXCEPT ![f] = t]
           A == {<<due[g], g>> : g \in DOMAIN due}
           B == {<<g, due[g]>> : g \in DOMAIN due}
<1>1. d \in [S -> Nat]
  OBVIOUS
<1>2. /\ {<<d[g], g>> : g \in DOMAIN d} = (A \ {<<due[f], f>>}) \cup {<<t, f>>}
      /\ {<<g, d[g]>> : g \in DOMAIN d} = (B \ {<<f, due[f]>>}) \cup {<<f, t>>}
  OBVIOUS
<1>3. /\ <<due[f], f>> \in A /\ <<t, f>> \notin A \ {<<due[f], f>>}
      /\ <<f, due[f]>> \in B /\ <<f, t>> \notin B \ {<<f, due[f]>>}
  OBVIOUS
<1>4. TimerAt(due) = [time_arg |-> SetToBag(A), arg_time |-> SetToBag(B)]
  BY DEF TimerAt
<1> HIDE DEF d, A, B
<1>5. Popped(TimerAt(due), <<due[f], f>>) =
        [time_arg |-> SetToBag(A \ {<<due[f], f>>}),
         arg_time |-> SetToBag(B \ {<<f, due[f]>>})]
  BY <1>3, <1>4, BagRemove DEF Popped
<1>6. add_timer(Popped(TimerAt(due), <<due[f], f>>), f, t) =
        [time_arg |-> SetToBag((A \ {<<due[f], f>>}) \cup {<<t, f>>}),
         arg_time |-> SetToBag((B \ {<<f, due[f]>>}) \cup {<<f, t>>})]
  <2>1. SetToBag(A \ {<<due[f], f>>}) (+) SetToBag({<<t, f>>})
          = SetToBag((A \ {<<due[f], f>>}) \cup {<<t, f>>})
    BY <1>3, BagAdd
  <2>2. SetToBag(B \ {<<f, due[f]>>}) (+) SetToBag({<<f, t>>})
          = SetToBag((B \ {<<f, due[f]>>}) \cup {<<f, t>>})
    BY <1>3, BagAdd
  <2> DEFINE X == SetToBag(A \ {<<due[f], f>>})
             Y == SetToBag(B \ {<<f, due[f]>>})
             P == Popped(TimerAt(due), <<due[f], f>>)
  <2>3. P.time_arg = X /\ P.arg_time = Y
    <3>1. P = [time_arg |-> X, arg_time |-> Y]
      BY <1>5, Zenon
    <3> HIDE DEF P, X, Y
    <3> QED BY <3>1
  <2>4. add_timer(P, f, t) = [time_arg |-> P.time_arg (+) SetToBag({<<t, f>>}),
                              arg_time |-> P.arg_time (+) SetToBag({<<f, t>>})]
    BY DEF add_timer
  <2> HIDE DEF P
  <2>5. add_timer(P, f, t) = [time_arg |-> X (+) SetToBag({<<t, f>>}),
                              arg_time |-> Y (+) SetToBag({<<f, t>>})]
    BY <2>3, <2>4
  <2> QED BY <2>1, <2>2, <2>5 DEF P
<1>7. add_timer(Popped(TimerAt(due), <<due[f], f>>), f, t) = TimerAt(d)
  BY <1>2, <1>6 DEF TimerAt
<1> QED BY <1>1, <1>7 DEF OneEach

LEMMA TimerRemove ==
  ASSUME NEW T, NEW S, OneEach(T, S), NEW f
  PROVE  OneEach(remove_timer(T, f), S \ {f})
<1>0. PICK due \in [S -> Nat] : T = TimerAt(due)
  BY DEF OneEach
<1> DEFINE d == [g \in S \ {f} |-> due[g]]
<1>1. d \in [S \ {f} -> Nat]
  OBVIOUS
<1> DEFINE A == {<<due[g], g>> : g \in DOMAIN due}
           B == {<<g, due[g]>> : g \in DOMAIN due}
           own == TimersOf(TimerAt(due), f)
<1>2. own = {e \in B : e[1] = f}
  BY TimerMaps DEF TimersOf
<1>3. /\ {<<g, d[g]>> : g \in DOMAIN d} = B \ own
      /\ {<<d[g], g>> : g \in DOMAIN d} = A \ {<<e[2], f>> : e \in own}
  <2>1. {<<g, d[g]>> : g \in DOMAIN d} = B \ {e \in B : e[1] = f}
    OBVIOUS
  <2>2. {<<d[g], g>> : g \in DOMAIN d} = A \ {e \in A : e[2] = f}
    OBVIOUS
  <2>3. {<<e[2], f>> : e \in {b \in B : b[1] = f}} = {e \in A : e[2] = f}
    <3>1. ASSUME NEW b \in B, b[1] = f
          PROVE  <<b[2], f>> \in {e \in A : e[2] = f}
      BY <3>1
    <3>2. ASSUME NEW a \in A, a[2] = f
          PROVE  \E b \in B : b[1] = f /\ a = <<b[2], f>>
      <4>1. PICK g \in DOMAIN due : a = <<due[g], g>>
        OBVIOUS
      <4>2. <<g, due[g]>> \in B /\ g = f
        BY <3>2, <4>1
      <4> QED BY <4>1, <4>2
    <3> HIDE DEF A, B
    <3> QED BY <3>1, <3>2
  <2> HIDE DEF own, A, B, d
  <2> QED BY <1>2, <2>1, <2>2, <2>3
<1>4. TimerAt(due) = [time_arg |-> SetToBag(A), arg_time |-> SetToBag(B)]
  BY DEF TimerAt
<1>5. TimerAt(d) = [time_arg |-> SetToBag(A \ {<<e[2], f>> : e \in own}),
                    arg_time |-> SetToBag(B \ own)]
  BY <1>3 DEF TimerAt
<1>6. remove_timer(TimerAt(due), f) =
        [time_arg |-> Without(SetToBag(A), {<<e[2], f>> : e \in own}),
         arg_time |-> Without(SetToBag(B), own)]
  BY <1>4 DEF remove_timer
<1> HIDE DEF d, A, B, own
<1>7. remove_timer(TimerAt(due), f) = TimerAt(d)
  BY <1>5, <1>6, BagWithout
<1> QED BY <1>0, <1>1, <1>7 DEF OneEach

LEMMA LeastNumber ==
  ASSUME NEW S \in SUBSET Nat, S # {} PROVE \E x \in S : \A y \in S : x <= y
<1>1. PICK x \in S : \A y \in S : ~(<<y, x>> \in OpToRel(<, Nat))
  BY NatLessThanWellFounded, WFMin, Zenon
<1>2. \A y \in S : ~(y < x)
  <2> SUFFICES ASSUME NEW y \in S, y < x PROVE FALSE
    OBVIOUS
  <2>1. <<y, x>> \in Nat \X Nat /\ <<y, x>>[1] < <<y, x>>[2]
    OBVIOUS
  <2>2. <<y, x>> \in OpToRel(<, Nat)
    BY <2>1, Zenon DEF OpToRel
  <2> QED BY <1>1, <2>2
<1> QED BY <1>2

\* What get_timer returns is one of the entries.
LEMMA ExpiredIsTimed ==
  ASSUME NEW S, NEW due \in [S -> Nat], NEW t, NEW e \in Expired(TimerAt(due), t)
  PROVE  e[2] \in S /\ e = <<due[e[2]], e[2]>>
BY TimerMaps DEF Expired, Earliest

LEMMA TimerEmpty ==
  ASSUME NEW S, NEW due \in [S -> Nat]
  PROVE  /\ TimerAt(due).arg_time = EmptyBag <=> S = {}
         /\ TimerAt(due).time_arg = EmptyBag <=> S = {}
<1>1. BagToSet(EmptyBag) = {}
  BY DEF BagToSet, EmptyBag, SetToBag
<1>2. /\ TimerAt(due).arg_time = EmptyBag => S = {}
      /\ TimerAt(due).time_arg = EmptyBag => S = {}
  <2>1. ASSUME NEW f \in S
        PROVE  /\ <<f, due[f]>> \in BagToSet(TimerAt(due).arg_time)
               /\ <<due[f], f>> \in BagToSet(TimerAt(due).time_arg)
    <3>1. f \in DOMAIN due
      OBVIOUS
    <3> QED BY <3>1, TimerMaps
  <2> QED BY <1>1, <2>1, Zenon
<1>3. ASSUME S = {}
      PROVE TimerAt(due).arg_time = EmptyBag /\ TimerAt(due).time_arg = EmptyBag
  <2>1. {<<due[f], f>> : f \in DOMAIN due} = {} /\ {<<f, due[f]>> : f \in DOMAIN due} = {}
    BY <1>3
  <2> QED BY <2>1 DEF TimerAt, EmptyBag
<1> QED BY <1>2, <1>3

\* get_mintimer is no longer than the time to any of the timers.
LEMMA MinTimer ==
  ASSUME NEW S, NEW due \in [S -> Nat], NEW t \in Nat, S # {}
  PROVE  LET m == get_mintimer(TimerAt(due), t, Mintimer)
         IN  m \in Nat /\ \A f \in S : t + m <= due[f] \/ m = 0
<1> DEFINE T == TimerAt(due)
<1>1. BagToSet(T.time_arg) = {<<due[f], f>> : f \in S}
  BY TimerMaps
<1>2. T.time_arg # EmptyBag
  BY TimerEmpty
<1> HIDE DEF T
<1> DEFINE Dues == {due[f] : f \in S}
<1>3. PICK h \in S : \A f \in S : due[h] <= due[f]
  <2>1. Dues \in SUBSET Nat /\ Dues # {}
    OBVIOUS
  <2> HIDE DEF Dues
  <2>2. PICK n \in Dues : \A k \in Dues : n <= k
    BY <2>1, LeastNumber
  <2> USE DEF Dues
  <2> QED BY <2>2
<1>5. <<due[h], h>> \in Earliest(T)
  BY <1>1, <1>3 DEF Earliest
<1>6. ASSUME NEW e \in Earliest(T)
      PROVE  e[1] \in Nat /\ \A f \in S : e[1] <= due[f]
  <2>1. PICK g \in S : e = <<due[g], g>>
    BY <1>1 DEF Earliest
  <2>2. \A f \in S : <<due[f], f>> \in BagToSet(T.time_arg)
    BY <1>1
  <2>3. \A f \in S : e[1] <= <<due[f], f>>[1]
    BY <2>2 DEF Earliest
  <2> QED BY <2>1, <2>3
<1> DEFINE first == (CHOOSE e \in Earliest(T) : TRUE)[1]
           m == get_mintimer(T, t, Mintimer)
<1>7. first \in Nat /\ \A f \in S : first <= due[f]
  BY <1>5, <1>6
<1>8. m = IF t >= first THEN 0 ELSE first - t
  BY <1>2 DEF get_mintimer
<1> HIDE DEF first, m
<1>9. m \in Nat /\ \A f \in S : t + m <= due[f] \/ m = 0
  BY <1>7, <1>8
<1> QED BY <1>9 DEF m, T

-----------------------------------------------------------------------------
(***************************************************************************)
(* The steps of a worker that need more than their definition.             *)
(***************************************************************************)
\* get_timer and client_timeoutfun: a registered descriptor's timer is set
\* again, and m_sended stays inside the message.
LEMMA TimeoutStep ==
  ASSUME ConnTypes, TimersOK, NEW w \in Workers, Timeout(w)
  PROVE  /\ \E T : OneEach(T, Timed(w)) /\ timer' = [timer EXCEPT ![w] = T]
         /\ \/ UNCHANGED item
            \/ \E f \in Timed(w), s \in 0 .. Presend - 1 :
                  item' = [item EXCEPT ![f].sended = s]
         /\ UNCHANGED <<kernel, net, loop, now, accepts>>
<1>1. PICK due \in [Timed(w) -> Nat] : timer[w] = TimerAt(due)
  BY DEF TimersOK, OneEach
<1>2. PICK e \in Expired(timer[w], tnow[w]) :
        /\ timer' = [timer EXCEPT ![w] =
                       add_timer(Popped(@, e), e[2], tnow[w] + Period)]
        /\ \/ \E n \in 1 .. Presend - item[e[2]].sended :
                peer[e[2]] # "rst" /\ item' = [item EXCEPT ![e[2]].sended = Sent(@, n)]
           \/ UNCHANGED item
  BY DEF Timeout
<1>3. e[2] \in Timed(w) /\ e = <<due[e[2]], e[2]>>
  BY <1>1, <1>2, ExpiredIsTimed
<1> DEFINE f == e[2]
<1>4. f \in Fds /\ item[f] \in Items
  BY <1>3 DEF Timed, ConnTypes
<1> HIDE DEF f
<1>5. tnow[w] + Period \in Nat
  BY WorkerConstants DEF ConnTypes
<1>6. e = <<due[f], f>> /\ f \in Timed(w)
  BY <1>3 DEF f
<1> DEFINE T == add_timer(Popped(TimerAt(due), <<due[f], f>>), f, tnow[w] + Period)
<1>7. OneEach(T, Timed(w))
  BY <1>5, <1>6, TimerReset
<1>9. timer' = [timer EXCEPT ![w] = T]
  BY <1>1, <1>2, <1>6 DEF f
<1> HIDE DEF T
<1>10. UNCHANGED item \/ \E s \in 0 .. Presend - 1 : item' = [item EXCEPT ![f].sended = s]
  <2> SUFFICES ASSUME NEW n \in 1 .. Presend - item[f].sended,
                      item' = [item EXCEPT ![f].sended = Sent(@, n)]
               PROVE  \E s \in 0 .. Presend - 1 : item' = [item EXCEPT ![f].sended = s]
    BY <1>2 DEF f
  <2>1. item[f].sended \in 0 .. Presend - 1 /\ Presend \in Nat \ {0}
    BY <1>4, WorkerConstants DEF Items
  <2>2. Sent(item[f].sended, n) \in 0 .. Presend - 1
    BY <2>1 DEF Sent
  <2>3. item' = [item EXCEPT ![f].sended = Sent(item[f].sended, n)]
    OBVIOUS
  <2> QED BY <2>2, <2>3
<1> QED BY <1>6, <1>7, <1>9, <1>10 DEF Timeout

\* client_readfun: m_activeclose is set when the peer has closed, and only then.
LEMMA ClientEventStep ==
  ASSUME ConnTypes, LoopOK, NEW w \in Workers, ClientEvent(w)
  PROVE  \E f \in set[w], closing \in BOOLEAN :
           /\ f \in evlist[w]
           /\ item' = [item EXCEPT ![f].activeclose = closing]
           /\ evlist' = [evlist EXCEPT ![w] = @ \ {f}]
           /\ cur' = [cur EXCEPT ![w] = IF closing THEN f ELSE @]
           /\ pc[w] = "events"
           /\ pc' = [pc EXCEPT ![w] = IF closing THEN "close" ELSE "events"]
           /\ UNCHANGED <<kernel, peer, timer, deadline, tnow, now, accepts>>
<1>1. PICK f \in evlist[w] \ {OrderFd} :
        LET closing == item[f].activeclose \/ ((~item[f].activeclose /\ item[f].fun) /\ peer[f] = "fin")
        IN /\ item' = [item EXCEPT ![f].activeclose = closing]
           /\ evlist' = [evlist EXCEPT ![w] = @ \ {f}]
           /\ cur' = [cur EXCEPT ![w] = IF closing THEN f ELSE @]
           /\ pc' = [pc EXCEPT ![w] = IF closing THEN "close" ELSE "events"]
  BY Zenon DEF ClientEvent
<1> DEFINE closing == item[f].activeclose \/ ((~item[f].activeclose /\ item[f].fun) /\ peer[f] = "fin")
<1>2. f \in set[w]
  BY <1>1 DEF LoopOK
<1>3. closing \in BOOLEAN
  BY Zenon
<1>4. /\ f \in evlist[w]
      /\ item' = [item EXCEPT ![f].activeclose = closing]
      /\ evlist' = [evlist EXCEPT ![w] = @ \ {f}]
      /\ cur' = [cur EXCEPT ![w] = IF closing THEN f ELSE @]
      /\ pc' = [pc EXCEPT ![w] = IF closing THEN "close" ELSE "events"]
  BY <1>1, Zenon
<1>5. pc[w] = "events" /\ UNCHANGED <<kernel, peer, timer, deadline, tnow, now, accepts>>
  BY DEF ClientEvent
<1> HIDE DEF closing
<1> QED BY <1>2, <1>3, <1>4, <1>5, Zenon

\* The next timeout of epoll_wait: no later than any timer of the worker.
LEMMA SleepStep ==
  ASSUME ConnTypes, TimersOK, NEW w \in Workers, Sleep(w)
  PROVE  \E d \in Nat :
           /\ deadline' = [deadline EXCEPT ![w] = d]
           /\ \A e \in BagToSet(timer[w].time_arg) : d <= e[1] \/ d <= now
<1> DEFINE wait == IF timer[w].arg_time = EmptyBag THEN Idle
                   ELSE get_mintimer(timer[w], now, Mintimer)
<1>1. deadline' = [deadline EXCEPT ![w] = now + wait]
  BY DEF Sleep
<1>2. PICK due \in [Timed(w) -> Nat] : timer[w] = TimerAt(due)
  BY DEF TimersOK, OneEach
<1>3. BagToSet(timer[w].time_arg) = {<<due[f], f>> : f \in Timed(w)}
  BY <1>2, TimerMaps
<1>4. now \in Nat /\ Idle \in Nat
  BY WorkerConstants DEF ConnTypes
<1>5. CASE Timed(w) = {}
  <2>1. wait = Idle
    BY <1>2, <1>5, TimerEmpty
  <2>2. BagToSet(timer[w].time_arg) = {}
    BY <1>3, <1>5
  <2>3. now + wait \in Nat
    BY <1>4, <2>1
  <2> HIDE DEF wait
  <2> QED BY <1>1, <2>2, <2>3
<1>6. CASE Timed(w) # {}
  <2>1. wait = get_mintimer(TimerAt(due), now, Mintimer)
    BY <1>2, <1>6, TimerEmpty
  <2> HIDE DEF wait
  <2>2. wait \in Nat /\ \A f \in Timed(w) : now + wait <= due[f] \/ wait = 0
    BY <1>4, <1>6, <2>1, MinTimer
  <2>3. now + wait \in Nat /\ \A f \in Timed(w) : now + wait <= due[f] \/ now + wait <= now
    BY <1>4, <2>2
  <2>4. \A e \in BagToSet(timer[w].time_arg) : now + wait <= e[1] \/ now + wait <= now
    BY <1>3, <2>3
  <2> QED BY <1>1, <2>3, <2>4
<1> QED BY <1>5, <1>6

-----------------------------------------------------------------------------
(***************************************************************************)
(* The invariant is preserved.                                             *)
(***************************************************************************)
LEMMA NextCases ==
  ASSUME [Next]_vars
  PROVE  \/ \E w \in Workers : Accept(w) \/ WorkerStep(w)
         \/ \E f \in Fds : PeerSend(f) \/ PeerClose(f)
         \/ Tick \/ UNCHANGED vars
BY DEF Next, Stopped

\* Progress of the sending leaves an item an item.
LEMMA SendedType ==
    ASSUME NEW r \in Items, NEW s \in 0 .. Presend - 1
    PROVE  [r EXCEPT !.sended = s] \in Items
BY DEF Items

LEMMA TypesNext ==
  ASSUME ConnTypes, LoopOK, TimersOK, [Next]_vars PROVE ConnTypes'
<1> USE DEF ConnTypes, PCs
<1>1. ASSUME NEW w \in Workers, Accept(w) PROVE ConnTypes'
  <2>1. PICK f \in Fds : /\ kfd' = [kfd EXCEPT ![f] = "open"]
                         /\ peer' = [peer EXCEPT ![f] = "up"]
                         /\ orders' = [orders EXCEPT ![w] = Append(@, f)]
    BY <1>1 DEF Accept
  <2>2. accepts' \in 0 .. MaxAccepts
    BY <1>1, WorkerConstants DEF Accept
  <2>3. orders' \in [Workers -> Seq(Fds)]
    BY <2>1
  <2> QED BY <1>1, <2>1, <2>2, <2>3 DEF Accept, loop
<1>2. ASSUME NEW f \in Fds, PeerSend(f) \/ PeerClose(f) PROVE ConnTypes'
  <2>1. peer' \in [Fds -> {"up", "fin", "rst"}]
    BY <1>2 DEF PeerSend, PeerClose
  <2>2. edge' \in [Workers -> SUBSET Fds]
    <3>1. Notify(f)
      BY <1>2 DEF PeerSend, PeerClose
    <3>2. \A w \in Workers : edge[w] \in SUBSET Fds /\ edge[w] \cup {f} \in SUBSET Fds
      OBVIOUS
    <3> QED BY <3>1, <3>2 DEF Notify
  <2> QED BY <1>2, <2>1, <2>2 DEF PeerSend, PeerClose, loop
<1>3. CASE Tick
  BY <1>3 DEF Tick, kernel, net, loop
<1>4. CASE UNCHANGED vars
  BY <1>4 DEF vars, kernel, net, loop
<1>5. ASSUME NEW w \in Workers, WorkerStep(w) PROVE ConnTypes'
  <2>1. CASE EpollWait(w)
    BY <2>1 DEF EpollWait, net
  <2>2. CASE OrdersEvent(w)
    BY <2>2 DEF OrdersEvent, kernel, net
  <2>3. CASE Register(w)
    <3> DEFINE f == Head(orders[w])
    <3>1. f \in Fds /\ Tail(orders[w]) \in Seq(Fds)
      BY <2>3 DEF Register
    <3>2. item' = [item EXCEPT ![f].fun = TRUE] /\ set' = [set EXCEPT ![w] = @ \cup {f}]
          /\ orders' = [orders EXCEPT ![w] = Tail(@)]
          /\ edge' = [edge EXCEPT ![w] = IF unread[f] \/ peer[f] # "up" THEN @ \cup {f} ELSE @]
          /\ UNCHANGED <<kfd, net, loop, now, accepts>>
      BY <2>3 DEF Register
    <3> HIDE DEF f
    <3>3. item' \in [Fds -> Items]
      BY <3>1, <3>2 DEF Items
    <3>4. edge' \in [Workers -> SUBSET Fds]
      BY <3>1, <3>2
    <3> QED BY <3>1, <3>2, <3>3, <3>4 DEF net, loop
  <2>4. CASE OrdersRead(w)
    BY <2>4 DEF OrdersRead, kernel, net
  <2>5. CASE ClientEvent(w)
    <3>1. PICK f \in set[w], closing \in BOOLEAN :
           /\ f \in evlist[w]
           /\ item' = [item EXCEPT ![f].activeclose = closing]
           /\ evlist' = [evlist EXCEPT ![w] = @ \ {f}]
           /\ cur' = [cur EXCEPT ![w] = IF closing THEN f ELSE @]
           /\ pc[w] = "events"
           /\ pc' = [pc EXCEPT ![w] = IF closing THEN "close" ELSE "events"]
           /\ UNCHANGED <<kernel, peer, timer, deadline, tnow, now, accepts>>
      BY <2>5, ClientEventStep, Zenon
    <3>2. item' \in [Fds -> Items]
      BY <3>1, ZenonT(60) DEF Items
    <3> QED BY <3>1, <3>2 DEF kernel
  <2>6. CASE CloseRemove(w)
    BY <2>6 DEF CloseRemove, kernel, net
  <2>7. CASE CloseInit(w)
    <3>1. item' \in [Fds -> Items]
      <4>1. FreshItem \in Items
        BY WorkerConstants DEF FreshItem, Items
      <4> QED BY <2>7, <4>1 DEF CloseInit
    <3> QED BY <2>7, <3>1 DEF CloseInit, kernel, net
  <2>8. CASE CloseFd(w)
    BY <2>8 DEF CloseFd, net
  <2>9. CASE EventsDone(w)
    BY <2>9 DEF EventsDone, kernel, net
  <2>10. CASE Timeout(w)
    <3>1. UNCHANGED <<kernel, net, loop, now, accepts>>
      BY <2>10, TimeoutStep
    <3>2. item' \in [Fds -> Items]
      <4>1. UNCHANGED item \/ \E f \in Timed(w), s \in 0 .. Presend - 1 :
                  item' = [item EXCEPT ![f].sended = s]
        BY <2>10, TimeoutStep
      <4>2. ASSUME NEW f \in Timed(w), NEW s \in 0 .. Presend - 1
            PROVE  [item EXCEPT ![f].sended = s] \in [Fds -> Items]
        <5>1. f \in Fds
          BY DEF Timed
        <5>2. [item[f] EXCEPT !.sended = s] \in Items
          <6>1. item[f] \in Items
            BY <5>1
          <6> QED BY <6>1, SendedType
        <5>3. [item EXCEPT ![f].sended = s] = [item EXCEPT ![f] = [item[f] EXCEPT !.sended = s]]
          OBVIOUS
        <5>4. \A r \in Items : [item EXCEPT ![f] = r] \in [Fds -> Items]
          BY <5>1
        <5> QED BY <5>2, <5>3, <5>4
      <4>3. CASE UNCHANGED item
        BY <4>3
      <4>4. CASE ~UNCHANGED item
        <5>1. PICK f \in Timed(w), s \in 0 .. Presend - 1 :
                item' = [item EXCEPT ![f].sended = s]
          BY <4>1, <4>4
        <5> QED BY <4>2, <5>1
      <4> QED BY <4>3, <4>4
    <3> QED BY <3>1, <3>2 DEF kernel, net, loop
  <2>11. CASE Sleep(w)
    <3>1. deadline' \in [Workers -> Nat]
      BY <2>11, SleepStep
    <3> QED BY <2>11, <3>1 DEF Sleep, kernel, net
  <2> QED BY <1>5, <2>1, <2>2, <2>3, <2>4, <2>5, <2>6, <2>7, <2>8, <2>9, <2>10,
             <2>11 DEF WorkerStep
<1> QED BY <1>1, <1>2, <1>3, <1>4, <1>5, NextCases

LEMMA LoopNext ==
  ASSUME ConnTypes, LoopOK, TimersOK, [Next]_vars PROVE LoopOK'
<1> USE DEF LoopOK, Closing
<1>1. CASE UNCHANGED <<set, edge, evlist, pc, cur>>
  BY <1>1
<1>2. ASSUME NEW w \in Workers, Accept(w) PROVE LoopOK'
  BY <1>1, <1>2 DEF Accept, loop
<1>3. ASSUME NEW f \in Fds, PeerSend(f) \/ PeerClose(f) PROVE LoopOK'
  <2>1. Notify(f) /\ UNCHANGED <<set, evlist, pc, cur>>
    BY <1>3 DEF PeerSend, PeerClose, loop
  <2>2. \A w \in Workers : edge'[w] \subseteq set'[w]
    BY <2>1 DEF Notify
  <2> QED BY <2>1, <2>2
<1>4. CASE Tick \/ UNCHANGED vars
  BY <1>1, <1>4 DEF Tick, kernel, loop, vars
<1>5. ASSUME NEW w \in Workers, WorkerStep(w) PROVE LoopOK'
  <2> USE DEF ConnTypes
  <2>1. CASE EpollWait(w)
    BY <2>1 DEF EpollWait
  <2>2. CASE OrdersEvent(w)
    BY <2>2 DEF OrdersEvent, kernel
  <2>3. CASE Register(w)
    <3> DEFINE f == Head(orders[w])
    <3>1. /\ set' = [set EXCEPT ![w] = @ \cup {f}] /\ UNCHANGED <<evlist, pc, cur>>
          /\ edge' = [edge EXCEPT ![w] = IF unread[f] \/ peer[f] # "up" THEN @ \cup {f} ELSE @]
      BY <2>3 DEF Register, loop
    <3> HIDE DEF f
    <3>2. \A v \in Workers : edge'[v] \subseteq set'[v] /\ set[v] \subseteq set'[v]
      BY <3>1
    <3> QED BY <3>1, <3>2
  <2>4. CASE OrdersRead(w)
    BY <2>4 DEF OrdersRead, kernel
  <2>5. CASE ClientEvent(w)
    <3>1. PICK f \in set[w], closing \in BOOLEAN :
           /\ f \in evlist[w]
           /\ item' = [item EXCEPT ![f].activeclose = closing]
           /\ evlist' = [evlist EXCEPT ![w] = @ \ {f}]
           /\ cur' = [cur EXCEPT ![w] = IF closing THEN f ELSE @]
           /\ pc[w] = "events"
           /\ pc' = [pc EXCEPT ![w] = IF closing THEN "close" ELSE "events"]
           /\ UNCHANGED <<kernel, peer, timer, deadline, tnow, now, accepts>>
      BY <2>5, ClientEventStep, Zenon
    <3>2. UNCHANGED <<set, edge>>
      BY <3>1 DEF kernel
    <3>3. CASE closing
      BY <3>1, <3>2, <3>3
    <3>4. CASE ~closing
      BY <3>1, <3>2, <3>4
    <3> QED BY <3>3, <3>4
  <2>6. CASE CloseRemove(w) \/ CloseInit(w)
    BY <2>6 DEF CloseRemove, CloseInit, kernel
  <2>7. CASE CloseFd(w)
    <3>1. cur[w] \in set[w] /\ cur[w] \notin evlist[w]
      BY <2>7 DEF CloseFd
    <3> QED BY <2>7, <3>1 DEF CloseFd
  <2>8. CASE EventsDone(w)
    BY <2>8 DEF EventsDone, kernel
  <2>9. CASE Timeout(w)
    BY <1>1, <2>9 DEF Timeout, kernel, loop
  <2>10. CASE Sleep(w)
    BY <2>10 DEF Sleep, kernel
  <2> QED BY <1>5, <2>1, <2>2, <2>3, <2>4, <2>5, <2>6, <2>7, <2>8, <2>9, <2>10
          DEF WorkerStep
<1> QED BY <1>2, <1>3, <1>4, <1>5, NextCases

\* A step that neither starts nor ends a connection's timers.
LEMMA TimersKept ==
  ASSUME TimersOK, UNCHANGED timer, \A w \in Workers : Timed(w)' = Timed(w)
  PROVE  TimersOK'
BY DEF TimersOK

LEMMA TimersNext ==
  ASSUME ConnTypes, LoopOK, Owned, TimersOK, [Next]_vars PROVE TimersOK'
<1>1. CASE UNCHANGED <<set, pc, cur, timer>>
  <2>1. \A w \in Workers : Timed(w)' = Timed(w)
    BY <1>1 DEF Timed, Untimed
  <2> QED BY <1>1, <2>1, TimersKept
<1>2. ASSUME NEW w \in Workers, NEW T, OneEach(T, Timed(w)'),
             timer' = [timer EXCEPT ![w] = T],
             \A v \in Workers \ {w} : Timed(v)' = Timed(v)
      PROVE  TimersOK'
  <2>1. /\ timer' = [v \in Workers |-> timer'[v]] /\ timer'[w] = T
        /\ \A v \in Workers \ {w} : timer'[v] = timer[v]
    BY <1>2 DEF TimersOK
  <2> QED BY <1>2, <2>1 DEF TimersOK
<1>3. ASSUME NEW w \in Workers, Accept(w) PROVE TimersOK'
  BY <1>1, <1>3 DEF Accept, loop
<1>4. ASSUME NEW f \in Fds, PeerSend(f) \/ PeerClose(f) PROVE TimersOK'
  BY <1>1, <1>4 DEF PeerSend, PeerClose, loop
<1>5. CASE Tick \/ UNCHANGED vars
  BY <1>1, <1>5 DEF Tick, kernel, loop, vars
<1>6. ASSUME NEW w \in Workers, WorkerStep(w) PROVE TimersOK'
  <2> USE DEF ConnTypes
  <2>1. CASE \/ EpollWait(w) \/ OrdersEvent(w) \/ OrdersRead(w) \/ EventsDone(w)
             \/ Sleep(w)
    <3>1. UNCHANGED <<set, cur, timer>> /\ pc[w] \notin {"reset", "shut"}
          /\ \E p \in PCs \ {"reset", "shut"} : pc' = [pc EXCEPT ![w] = p]
      BY <2>1 DEF EpollWait, OrdersEvent, OrdersRead, EventsDone, Sleep, kernel, PCs
    <3>2. \A v \in Workers : Timed(v)' = Timed(v)
      BY <3>1 DEF Timed, Untimed
    <3> QED BY <3>1, <3>2, TimersKept
  <2>2. CASE ClientEvent(w)
    <3>1. UNCHANGED <<set, timer>> /\ pc[w] = "events" /\ pc'[w] \in {"close", "events"}
          /\ \A v \in Workers \ {w} : cur'[v] = cur[v] /\ pc'[v] = pc[v]
      BY <2>2 DEF ClientEvent, kernel
    <3>2. \A v \in Workers : Timed(v)' = Timed(v)
      BY <3>1 DEF Timed, Untimed
    <3> QED BY <3>1, <3>2, TimersKept
  <2>3. CASE Register(w)
    <3> DEFINE f == Head(orders[w])
    <3>1. /\ pc[w] = "orders" /\ set' = [set EXCEPT ![w] = @ \cup {f}]
          /\ timer' = [timer EXCEPT ![w] = add_timer(@, f, now + Period)]
          /\ UNCHANGED <<pc, cur>>
      BY <2>3 DEF Register, loop
    <3>2. f \notin set[w]
      <4>1. 1 \in DOMAIN orders[w] /\ orders[w][1] = f
        BY <2>3 DEF Register
      <4> QED BY <4>1 DEF Owned, Queued
    <3> HIDE DEF f
    <3>3. /\ f \notin Timed(w) /\ Timed(w)' = Timed(w) \cup {f}
          /\ \A v \in Workers \ {w} : Timed(v)' = Timed(v)
      BY <3>1, <3>2 DEF Timed, Untimed
    <3>4. now + Period \in Nat
      BY WorkerConstants, SMTT(30)
    <3>5. OneEach(add_timer(timer[w], f, now + Period), Timed(w)')
      BY <3>3, <3>4, TimerAdd DEF TimersOK
    <3> QED BY <1>2, <3>1, <3>3, <3>5
  <2>4. CASE CloseRemove(w)
    <3>1. /\ pc[w] = "close" /\ pc' = [pc EXCEPT ![w] = "reset"]
          /\ timer' = [timer EXCEPT ![w] = remove_timer(@, cur[w])]
          /\ UNCHANGED <<set, cur>>
      BY <2>4 DEF CloseRemove, kernel
    <3>2. /\ Timed(w)' = Timed(w) \ {cur[w]}
          /\ \A v \in Workers \ {w} : Timed(v)' = Timed(v)
      BY <3>1 DEF Timed, Untimed
    <3>3. OneEach(remove_timer(timer[w], cur[w]), Timed(w)')
      BY <3>2, TimerRemove DEF TimersOK
    <3> QED BY <1>2, <3>1, <3>2, <3>3
  <2>5. CASE CloseInit(w)
    <3>1. /\ UNCHANGED <<set, cur, timer>> /\ pc[w] = "reset"
          /\ pc' = [pc EXCEPT ![w] = "shut"]
      BY <2>5 DEF CloseInit, kernel
    <3>2. \A v \in Workers : Timed(v)' = Timed(v)
      BY <3>1 DEF Timed, Untimed
    <3> QED BY <3>1, <3>2, TimersKept
  <2>6. CASE CloseFd(w)
    <3>1. /\ pc[w] = "shut" /\ pc' = [pc EXCEPT ![w] = "events"]
          /\ set' = [set EXCEPT ![w] = @ \ {cur[w]}]
          /\ cur' = [cur EXCEPT ![w] = OrderFd] /\ UNCHANGED timer
      BY <2>6 DEF CloseFd
    <3>2. \A v \in Workers : Timed(v)' = Timed(v)
      BY <3>1 DEF Timed, Untimed
    <3> QED BY <3>1, <3>2, TimersKept
  <2>7. CASE Timeout(w)
    <3>1. PICK T : OneEach(T, Timed(w)) /\ timer' = [timer EXCEPT ![w] = T]
      BY <2>7, TimeoutStep
    <3>2. \A v \in Workers : Timed(v)' = Timed(v)
      BY <2>7 DEF Timeout, Timed, Untimed, kernel, loop
    <3>3. OneEach(T, Timed(w)')
      BY <3>1, <3>2
    <3> QED BY <1>2, <3>1, <3>2, <3>3
  <2> QED BY <1>6, <2>1, <2>2, <2>3, <2>4, <2>5, <2>6, <2>7 DEF WorkerStep
<1> QED BY <1>3, <1>4, <1>5, <1>6, NextCases

LEMMA OwnedNext ==
  ASSUME ConnTypes, LoopOK, Owned, [Next]_vars PROVE Owned'
<1>1. CASE UNCHANGED <<kfd, orders, set, accepts>>
  BY <1>1 DEF Owned, Queued
<1>2. ASSUME NEW w \in Workers, Accept(w) PROVE Owned'
  <2>1. PICK f \in Fds : /\ kfd[f] = "free"
                         /\ kfd' = [kfd EXCEPT ![f] = "open"]
                         /\ orders' = [orders EXCEPT ![w] = Append(@, f)]
    BY <1>2 DEF Accept
  <2>2. \A v \in Workers : f \notin set[v] /\ ~Queued(v, f)
    BY <2>1 DEF Owned
  <2>3. /\ orders'[w] = Append(orders[w], f) /\ orders[w] \in Seq(Fds)
        /\ \A v \in Workers \ {w} : orders'[v] = orders[v]
    BY <2>1 DEF ConnTypes
  <2>4. /\ DOMAIN orders'[w] = DOMAIN orders[w] \cup {Len(orders[w]) + 1}
        /\ Len(orders[w]) + 1 \notin DOMAIN orders[w]
        /\ orders'[w][Len(orders[w]) + 1] = f
        /\ \A i \in DOMAIN orders[w] : orders'[w][i] = orders[w][i]
    BY <2>3
  <2>5. \A v \in Workers, g \in Fds : Queued(v, g)' <=> Queued(v, g) \/ (v = w /\ g = f)
    BY <2>3, <2>4 DEF Queued
  <2>6. \A u, v \in Workers : \A i \in DOMAIN orders'[u], j \in DOMAIN orders'[v] :
          orders'[u][i] = orders'[v][j] => u = v /\ i = j
    <3>1. \A v \in Workers : \A i \in DOMAIN orders[v] : orders[v][i] # f
      BY <2>2 DEF Queued
    <3>2. \A u, v \in Workers : \A i \in DOMAIN orders[u], j \in DOMAIN orders[v] :
            orders[u][i] = orders[v][j] => u = v /\ i = j
      BY DEF Owned
    <3>3. SUFFICES ASSUME NEW u \in Workers, NEW v \in Workers,
                          NEW i \in DOMAIN orders'[u], NEW j \in DOMAIN orders'[v],
                          orders'[u][i] = orders'[v][j]
                   PROVE  u = v /\ i = j
      OBVIOUS
    <3> DEFINE n == Len(orders[w]) + 1
    <3>4. ASSUME NEW x \in Workers, NEW l \in DOMAIN orders'[x]
          PROVE  \/ x = w /\ l = n /\ orders'[x][l] = f
                 \/ l \in DOMAIN orders[x] /\ orders'[x][l] = orders[x][l]
      BY <3>4, <2>3, <2>4
    <3> HIDE DEF n
    <3>5. \/ u = w /\ i = n /\ orders'[u][i] = f
          \/ i \in DOMAIN orders[u] /\ orders'[u][i] = orders[u][i]
      BY <3>4
    <3>6. \/ v = w /\ j = n /\ orders'[v][j] = f
          \/ j \in DOMAIN orders[v] /\ orders'[v][j] = orders[v][j]
      BY <3>4
    <3> QED BY <3>1, <3>2, <3>3, <3>5, <3>6
  <2>7. set' = set /\ accepts' = accepts + 1
    BY <1>2 DEF Accept
  <2>8. \A v \in Workers : Len(orders'[v]) <= accepts'
    <3>1. Len(orders'[w]) = Len(orders[w]) + 1
      BY <2>3
    <3>2. \A v \in Workers : Len(orders[v]) <= accepts /\ Len(orders[v]) \in Nat /\ accepts \in Nat
      BY DEF Owned, ConnTypes
    <3> QED BY <2>3, <2>7, <3>1, <3>2
  <2>9. \A g \in Fds : kfd'[g] = "open" <=> kfd[g] = "open" \/ g = f
    BY <2>1 DEF ConnTypes
  <2>10. \A v \in Workers : set[v] \subseteq Fds
    BY DEF ConnTypes
  <2>11. \A u, v \in Workers : \A g \in set'[u] : ~Queued(v, g)'
    BY <2>2, <2>5, <2>7, <2>10 DEF Owned
  <2>12. \A g \in Fds : kfd'[g] = "open" <=>
           \E v \in Workers : g \in set'[v] \/ Queued(v, g)'
    BY <2>5, <2>7, <2>9 DEF Owned
  <2>13. \A u, v \in Workers : \A g \in set'[u] : g \in set'[v] => u = v
    BY <2>7 DEF Owned
  <2> QED BY <2>6, <2>8, <2>11, <2>12, <2>13 DEF Owned
<1>3. ASSUME NEW w \in Workers, Register(w) PROVE Owned'
  <2> DEFINE f == Head(orders[w])
  <2>1. /\ orders[w] \in Seq(Fds) /\ orders[w] # <<>>
        /\ orders'[w] = Tail(orders[w])
        /\ \A v \in Workers \ {w} : orders'[v] = orders[v]
    BY <1>3 DEF Register, ConnTypes
  <2>2. /\ 1 \in DOMAIN orders[w] /\ orders[w][1] = f /\ f \in Fds
        /\ \A i \in DOMAIN orders'[w] : i + 1 \in DOMAIN orders[w] /\ i \in Nat /\ i + 1 # 1
                                        /\ orders'[w][i] = orders[w][i + 1]
        /\ \A i \in DOMAIN orders[w] : i # 1 =>
             i - 1 \in DOMAIN orders'[w] /\ orders'[w][i - 1] = orders[w][i]
        /\ Len(orders'[w]) <= Len(orders[w])
    BY <2>1
  <2>3. /\ set'[w] = set[w] \cup {f} /\ \A v \in Workers \ {w} : set'[v] = set[v]
    BY <1>3 DEF Register, ConnTypes
  <2>4. UNCHANGED <<kfd, accepts>>
    BY <1>3 DEF Register
  <2> HIDE DEF f
  <2>5. \A u, v \in Workers : \A i \in DOMAIN orders[u], j \in DOMAIN orders[v] :
          orders[u][i] = orders[v][j] => u = v /\ i = j
    BY DEF Owned
  <2>6. \A v \in Workers : f \notin set[v]
    <3>1. Queued(w, f)
      BY <2>2 DEF Queued
    <3> QED BY <3>1 DEF Owned
  <2>7. \A v \in Workers, g \in Fds : Queued(v, g)' <=> Queued(v, g) /\ g # f
    <3>1. ASSUME NEW g \in Fds PROVE Queued(w, g)' <=> Queued(w, g) /\ g # f
      <4>1. ASSUME NEW i \in DOMAIN orders'[w], orders'[w][i] = g
            PROVE  Queued(w, g) /\ g # f
        BY <2>2, <2>5, <4>1 DEF Queued
      <4>2. ASSUME NEW i \in DOMAIN orders[w], orders[w][i] = g, g # f
            PROVE  \E j \in DOMAIN orders'[w] : orders'[w][j] = g
        BY <2>2, <4>2
      <4> QED BY <4>1, <4>2 DEF Queued
    <3>2. ASSUME NEW v \in Workers \ {w}, NEW g \in Fds
          PROVE  Queued(v, g)' <=> Queued(v, g) /\ g # f
      BY <2>1, <2>2, <2>5 DEF Queued
    <3> QED BY <3>1, <3>2
  <2>8. \A u, v \in Workers : \A i \in DOMAIN orders'[u], j \in DOMAIN orders'[v] :
          orders'[u][i] = orders'[v][j] => u = v /\ i = j
    <3>1. ASSUME NEW i \in DOMAIN orders'[w], NEW j \in DOMAIN orders'[w],
                 orders'[w][i] = orders'[w][j]
          PROVE  i = j
      BY <2>2, <2>5, <3>1
    <3>2. ASSUME NEW v \in Workers \ {w}, NEW i \in DOMAIN orders'[w],
                 NEW j \in DOMAIN orders'[v]
          PROVE  orders'[w][i] # orders'[v][j]
      BY <2>1, <2>2, <2>5
    <3>3. ASSUME NEW u \in Workers \ {w}, NEW v \in Workers \ {w},
                 NEW i \in DOMAIN orders'[u], NEW j \in DOMAIN orders'[v],
                 orders'[u][i] = orders'[v][j]
          PROVE  u = v /\ i = j
      BY <2>1, <2>5, <3>3
    <3> QED BY <3>1, <3>2, <3>3
  <2>9. \A v \in Workers : set[v] \subseteq Fds
    BY DEF ConnTypes
  <2>10. \A u, v \in Workers : \A g \in set'[u] : ~Queued(v, g)'
    BY <2>2, <2>3, <2>7, <2>9 DEF Owned
  <2>11. \A g \in Fds : kfd'[g] = "open" <=>
           \E v \in Workers : g \in set'[v] \/ Queued(v, g)'
    <3>1. kfd[f] = "open"
      BY <2>2 DEF Owned, Queued
    <3> QED BY <2>2, <2>3, <2>4, <2>7, <3>1 DEF Owned
  <2>12. \A u, v \in Workers : \A g \in set'[u] : g \in set'[v] => u = v
    BY <2>3, <2>6 DEF Owned
  <2>13. \A v \in Workers : Len(orders'[v]) <= accepts'
    <3>1. \A v \in Workers : Len(orders[v]) <= accepts /\ Len(orders[v]) \in Nat /\ accepts \in Nat
      BY DEF Owned, ConnTypes
    <3>2. Len(orders'[w]) \in Nat
      BY <2>1
    <3>3. Len(orders'[w]) <= Len(orders[w])
      BY <2>2
    <3>4. \A v \in Workers \ {w} : Len(orders'[v]) = Len(orders[v])
      BY <2>1
    <3> QED BY <2>4, <3>1, <3>2, <3>3, <3>4
  <2> QED BY <2>8, <2>10, <2>11, <2>12, <2>13 DEF Owned
<1>4. ASSUME NEW w \in Workers, CloseFd(w) PROVE Owned'
  <2>1. cur[w] \in set[w] /\ set[w] \subseteq Fds
    BY <1>4 DEF CloseFd, LoopOK, Closing, ConnTypes
  <2>2. /\ kfd' = [kfd EXCEPT ![cur[w]] = "free"]
        /\ set'[w] = set[w] \ {cur[w]} /\ \A v \in Workers \ {w} : set'[v] = set[v]
        /\ UNCHANGED <<orders, accepts>>
    BY <1>4 DEF CloseFd, ConnTypes
  <2>3. \A v \in Workers, g \in Fds : Queued(v, g)' <=> Queued(v, g)
    BY <2>2 DEF Queued
  <2>4. \A g \in Fds : kfd'[g] = "open" <=> kfd[g] = "open" /\ g # cur[w]
    BY <2>1, <2>2 DEF ConnTypes
  <2>5. \A v \in Workers : ~Queued(v, cur[w]) /\ (cur[w] \in set[v] => v = w)
    BY <2>1 DEF Owned
  <2>6. \A g \in Fds : kfd'[g] = "open" <=>
           \E v \in Workers : g \in set'[v] \/ Queued(v, g)'
    BY <2>2, <2>3, <2>4, <2>5 DEF Owned
  <2>7. \A u \in Workers : set'[u] \subseteq set[u] /\ set[u] \subseteq Fds
    BY <2>2 DEF ConnTypes
  <2>8. \A u, v \in Workers : \A g \in set'[u] : ~Queued(v, g)' /\ (g \in set'[v] => u = v)
    BY <2>3, <2>7 DEF Owned
  <2> QED BY <2>2, <2>6, <2>8 DEF Owned
<1>5. ASSUME NEW w \in Workers, WorkerStep(w) PROVE Owned'
  <2>1. CASE ~Register(w) /\ ~CloseFd(w)
    BY <1>1, <1>5, <2>1 DEF WorkerStep, EpollWait, OrdersEvent, OrdersRead, ClientEvent,
              CloseRemove, CloseInit, EventsDone, Timeout, Sleep, kernel
  <2> QED BY <1>3, <1>4, <2>1
<1>6. ASSUME NEW f \in Fds, PeerSend(f) \/ PeerClose(f) PROVE Owned'
  BY <1>1, <1>6 DEF PeerSend, PeerClose
<1>7. CASE Tick \/ UNCHANGED vars
  BY <1>1, <1>7 DEF Tick, kernel, vars
<1> QED BY <1>2, <1>5, <1>6, <1>7, NextCases

\* A step that changes one item, and neither who owns what nor who closes.
LEMMA ItemChanged ==
  ASSUME ConnTypes, Owned, ItemsOK, NEW w \in Workers, NEW f \in set[w], NEW new,
         pc[w] # "shut", pc'[w] # "shut", new.fun = item[f].fun,
         item' = [item EXCEPT ![f] = new],
         \A v \in Workers \ {w} : pc'[v] = pc[v] /\ cur'[v] = cur[v],
         UNCHANGED <<kfd, orders, set>>,
         LoopOK
  PROVE  ItemsOK'
<1>1. f \in Fds /\ kfd[f] = "open"
  BY DEF ConnTypes, Owned
<1>2. item'[f] = new /\ \A g \in Fds \ {f} : item'[g] = item[g]
  BY <1>1 DEF ConnTypes
<1>3. \A g \in Fds : kfd'[g] = "free" => item'[g] = FreshItem
  BY <1>1, <1>2 DEF ItemsOK
<1>4. \A v \in Workers : pc'[v] = "shut" => item'[cur'[v]] = FreshItem
  <2> SUFFICES ASSUME NEW v \in Workers \ {w}, pc[v] = "shut" PROVE item'[cur[v]] = FreshItem
    OBVIOUS
  <2>1. cur[v] \in set[v]
    BY DEF LoopOK, Closing
  <2>2. cur[v] # f /\ cur[v] \in Fds
    BY <2>1 DEF Owned, ConnTypes
  <2> QED BY <1>2, <2>2 DEF ItemsOK
<1>5. CallbacksSet'
  <2> SUFFICES ASSUME NEW v \in Workers, NEW g \in Fds, g \in set[v],
                      ~(cur'[v] = g /\ pc'[v] = "shut")
               PROVE  item'[g].fun
    BY DEF CallbacksSet
  <2>1. item[g].fun
    BY DEF ItemsOK, CallbacksSet
  <2> QED BY <1>2, <2>1
<1>6. FreshOnReuse'
  <2> SUFFICES ASSUME NEW v \in Workers, NEW i \in DOMAIN orders[v]
               PROVE  item'[orders[v][i]] = FreshItem
    BY DEF FreshOnReuse
  <2>1. orders[v][i] \in Fds /\ orders[v][i] # f
    BY DEF ConnTypes, Owned, Queued
  <2> QED BY <1>2, <2>1 DEF ItemsOK, FreshOnReuse
<1> QED BY <1>3, <1>4, <1>5, <1>6 DEF ItemsOK

\* A step of one worker that changes no item.
LEMMA ItemsKept ==
  ASSUME ItemsOK, NEW w \in Workers, pc[w] # "shut", pc'[w] # "shut",
         \A v \in Workers \ {w} : pc'[v] = pc[v] /\ cur'[v] = cur[v],
         UNCHANGED <<kfd, orders, set, item>>
  PROVE  ItemsOK'
BY DEF ItemsOK, CallbacksSet, FreshOnReuse

LEMMA ItemsNext ==
  ASSUME ConnTypes, LoopOK, Owned, ItemsOK, TimersOK, [Next]_vars PROVE ItemsOK'
<1>1. CASE UNCHANGED <<kfd, orders, set, pc, cur, item>>
  BY <1>1 DEF ItemsOK, CallbacksSet, FreshOnReuse
<1>2. ASSUME NEW w \in Workers, Accept(w) PROVE ItemsOK'
  <2>1. PICK f \in Fds : /\ kfd[f] = "free"
                         /\ kfd' = [kfd EXCEPT ![f] = "open"]
                         /\ orders' = [orders EXCEPT ![w] = Append(@, f)]
    BY <1>2 DEF Accept
  <2>2. UNCHANGED <<set, pc, cur, item>>
    BY <1>2 DEF Accept, loop
  <2>3. \A v \in Workers : \A i \in DOMAIN orders'[v] :
          orders'[v][i] = f \/ (i \in DOMAIN orders[v] /\ orders'[v][i] = orders[v][i])
    BY <2>1 DEF ConnTypes
  <2>4. FreshOnReuse'
    BY <2>1, <2>2, <2>3 DEF ItemsOK, FreshOnReuse
  <2> QED BY <2>1, <2>2, <2>4 DEF ItemsOK, CallbacksSet, ConnTypes
<1>3. ASSUME NEW w \in Workers, Register(w) PROVE ItemsOK'
  <2> DEFINE f == Head(orders[w])
  <2>1. /\ orders[w] \in Seq(Fds) /\ orders[w] # <<>>
        /\ orders'[w] = Tail(orders[w])
        /\ \A v \in Workers \ {w} : orders'[v] = orders[v]
    BY <1>3 DEF Register, ConnTypes
  <2>2. /\ 1 \in DOMAIN orders[w] /\ orders[w][1] = f /\ f \in Fds
        /\ \A i \in DOMAIN orders'[w] : i + 1 \in DOMAIN orders[w] /\ i + 1 # 1
                                        /\ orders'[w][i] = orders[w][i + 1]
    BY <2>1
  <2>3. /\ set'[w] = set[w] \cup {f} /\ \A v \in Workers \ {w} : set'[v] = set[v]
        /\ item' = [item EXCEPT ![f].fun = TRUE]
        /\ UNCHANGED <<kfd, pc, cur>>
    BY <1>3 DEF Register, ConnTypes, loop
  <2> HIDE DEF f
  <2>4. item'[f].fun /\ \A g \in Fds \ {f} : item'[g] = item[g]
    BY <2>2, <2>3 DEF ConnTypes, Items
  <2>5. /\ kfd[f] = "open" /\ \A v \in Workers : f \notin set[v]
        /\ \A v \in Workers \ {w} : \A i \in DOMAIN orders[v] : orders[v][i] # f
        /\ \A i \in DOMAIN orders[w] : orders[w][i] = f => i = 1
    BY <2>2 DEF Owned, Queued
  <2>6. \A g \in Fds : kfd'[g] = "free" => item'[g] = FreshItem
    BY <2>3, <2>4, <2>5 DEF ItemsOK
  <2>7. \A v \in Workers : pc'[v] = "shut" => item'[cur'[v]] = FreshItem
    <3> SUFFICES ASSUME NEW v \in Workers, pc[v] = "shut" PROVE item'[cur[v]] = FreshItem
      BY <2>3
    <3>1. cur[v] \in set[v] /\ cur[v] \in Fds
      BY DEF LoopOK, Closing, ConnTypes
    <3> QED BY <2>4, <2>5, <3>1 DEF ItemsOK
  <2>8. CallbacksSet'
    <3> SUFFICES ASSUME NEW v \in Workers, NEW g \in Fds, g \in set'[v],
                        ~(cur[v] = g /\ pc[v] = "shut")
                 PROVE  item'[g].fun
      BY <2>3 DEF CallbacksSet
    <3> QED BY <2>3, <2>4 DEF ItemsOK, CallbacksSet
  <2>9. FreshOnReuse'
    <3> SUFFICES ASSUME NEW v \in Workers, NEW i \in DOMAIN orders'[v]
                 PROVE  item'[orders'[v][i]] = FreshItem
      BY DEF FreshOnReuse
    <3>1. PICK j \in DOMAIN orders[v] : orders'[v][i] = orders[v][j] /\ orders[v][j] # f
      <4>1. CASE v = w
        <5>1. i + 1 \in DOMAIN orders[w] /\ i + 1 # 1 /\ orders'[w][i] = orders[w][i + 1]
          BY <2>2, <4>1
        <5>2. orders[w][i + 1] # f
          BY <2>5, <5>1
        <5> QED BY <4>1, <5>1, <5>2
      <4>2. CASE v # w
        BY <2>1, <2>5, <4>2
      <4> QED BY <4>1, <4>2
    <3>2. orders[v][j] \in Fds
      BY DEF ConnTypes
    <3> QED BY <2>4, <3>1, <3>2 DEF ItemsOK, FreshOnReuse
  <2> QED BY <2>6, <2>7, <2>8, <2>9 DEF ItemsOK
<1>4. ASSUME NEW w \in Workers, ClientEvent(w) PROVE ItemsOK'
  <2>1. PICK f \in set[w], closing \in BOOLEAN :
           /\ f \in evlist[w]
           /\ item' = [item EXCEPT ![f].activeclose = closing]
           /\ evlist' = [evlist EXCEPT ![w] = @ \ {f}]
           /\ cur' = [cur EXCEPT ![w] = IF closing THEN f ELSE @]
           /\ pc[w] = "events"
           /\ pc' = [pc EXCEPT ![w] = IF closing THEN "close" ELSE "events"]
           /\ UNCHANGED <<kernel, peer, timer, deadline, tnow, now, accepts>>
    BY <1>4, ClientEventStep, Zenon
  <2> DEFINE new == [item[f] EXCEPT !.activeclose = closing]
  <2>2. item' = [item EXCEPT ![f] = new] /\ new.fun = item[f].fun
    <3>1. f \in Fds
      BY DEF ConnTypes
    <3> QED BY <2>1, <3>1 DEF ConnTypes, Items
  <2>3. /\ pc[w] # "shut" /\ pc'[w] # "shut" /\ UNCHANGED <<kfd, orders, set>>
        /\ \A v \in Workers \ {w} : pc'[v] = pc[v] /\ cur'[v] = cur[v]
    BY <2>1 DEF ConnTypes, kernel
  <2> HIDE DEF new
  <2> QED BY <2>2, <2>3, ItemChanged
<1>5. ASSUME NEW w \in Workers, Timeout(w) PROVE ItemsOK'
  <2>1. /\ pc[w] = "timers" /\ UNCHANGED <<kfd, orders, set, pc, cur>>
    BY <1>5 DEF Timeout, kernel, loop
  <2>2. CASE UNCHANGED item
    BY <1>1, <2>1, <2>2
  <2>3. CASE ~UNCHANGED item
    <3>1. PICK f \in Timed(w), s \in 0 .. Presend - 1 :
                item' = [item EXCEPT ![f].sended = s]
      BY <1>5, <2>3, TimeoutStep
    <3> DEFINE new == [item[f] EXCEPT !.sended = s]
    <3>2. f \in set[w] /\ f \in Fds
      BY DEF Timed, ConnTypes
    <3>3. item' = [item EXCEPT ![f] = new] /\ new.fun = item[f].fun
      BY <3>1, <3>2 DEF ConnTypes, Items
    <3> HIDE DEF new
    <3> QED BY <2>1, <3>2, <3>3, ItemChanged
  <2> QED BY <2>2, <2>3
<1>6. ASSUME NEW w \in Workers, CloseInit(w) PROVE ItemsOK'
  <2>1. /\ pc[w] = "reset" /\ pc' = [pc EXCEPT ![w] = "shut"]
        /\ item' = [item EXCEPT ![cur[w]] = FreshItem]
        /\ UNCHANGED <<kfd, orders, set, cur>>
    BY <1>6 DEF CloseInit, kernel
  <2>2. cur[w] \in set[w] /\ cur[w] \in Fds
    BY <2>1 DEF LoopOK, Closing, ConnTypes
  <2>3. item'[cur[w]] = FreshItem /\ \A g \in Fds \ {cur[w]} : item'[g] = item[g]
    BY <2>1, <2>2 DEF ConnTypes
  <2>4. \A v \in Workers \ {w} : cur[w] \notin set[v] /\ pc'[v] = pc[v]
    BY <2>1, <2>2 DEF Owned, ConnTypes
  <2>5. pc'[w] = "shut"
    BY <2>1 DEF ConnTypes
  <2>6. \A g \in Fds : kfd'[g] = "free" => item'[g] = FreshItem
    BY <2>1, <2>3 DEF ItemsOK
  <2>7. \A v \in Workers : pc'[v] = "shut" => item'[cur'[v]] = FreshItem
    <3> SUFFICES ASSUME NEW v \in Workers \ {w}, pc[v] = "shut" PROVE item'[cur[v]] = FreshItem
      BY <2>1, <2>3, <2>4
    <3>1. cur[v] \in set[v] /\ cur[v] \in Fds
      BY DEF LoopOK, Closing, ConnTypes
    <3> QED BY <2>3, <2>4, <3>1 DEF ItemsOK
  <2>8. CallbacksSet'
    BY <2>1, <2>3, <2>4, <2>5 DEF ItemsOK, CallbacksSet
  <2>9. FreshOnReuse'
    <3> SUFFICES ASSUME NEW v \in Workers, NEW i \in DOMAIN orders[v]
                 PROVE  item'[orders[v][i]] = FreshItem
      BY <2>1 DEF FreshOnReuse
    <3>1. orders[v][i] \in Fds /\ item[orders[v][i]] = FreshItem
      BY DEF ConnTypes, ItemsOK, FreshOnReuse
    <3> QED BY <2>3, <3>1
  <2> QED BY <2>6, <2>7, <2>8, <2>9 DEF ItemsOK
<1>7. ASSUME NEW w \in Workers, CloseFd(w) PROVE ItemsOK'
  <2>1. /\ pc[w] = "shut" /\ pc' = [pc EXCEPT ![w] = "events"]
        /\ kfd' = [kfd EXCEPT ![cur[w]] = "free"]
        /\ cur' = [cur EXCEPT ![w] = OrderFd]
        /\ set'[w] = set[w] \ {cur[w]} /\ \A v \in Workers \ {w} : set'[v] = set[v]
        /\ UNCHANGED <<orders, item>>
    BY <1>7 DEF CloseFd, ConnTypes
  <2>2. item[cur[w]] = FreshItem /\ pc'[w] = "events"
    BY <2>1 DEF ItemsOK, ConnTypes
  <2>3. \A v \in Workers \ {w} : pc'[v] = pc[v] /\ cur'[v] = cur[v]
    BY <2>1 DEF ConnTypes
  <2>4. \A g \in Fds : kfd'[g] = "free" => item'[g] = FreshItem
    BY <2>1, <2>2 DEF ItemsOK, ConnTypes
  <2>5. \A v \in Workers : pc'[v] = "shut" => item'[cur'[v]] = FreshItem
    BY <2>1, <2>2, <2>3 DEF ItemsOK
  <2>6. CallbacksSet' /\ FreshOnReuse'
    BY <2>1, <2>2, <2>3 DEF ItemsOK, CallbacksSet, FreshOnReuse
  <2> QED BY <2>4, <2>5, <2>6 DEF ItemsOK
<1>8. ASSUME NEW w \in Workers,
             \/ EpollWait(w) \/ OrdersEvent(w) \/ OrdersRead(w) \/ EventsDone(w)
             \/ Sleep(w) \/ CloseRemove(w)
      PROVE  ItemsOK'
  <2>1. /\ pc[w] # "shut" /\ pc'[w] # "shut" /\ UNCHANGED <<kfd, orders, set, item>>
        /\ \A v \in Workers \ {w} : pc'[v] = pc[v] /\ cur'[v] = cur[v]
    BY <1>8 DEF ConnTypes, EpollWait, OrdersEvent, OrdersRead, EventsDone, Sleep,
                CloseRemove, kernel
  <2> QED BY <2>1, ItemsKept
<1>9. ASSUME NEW f \in Fds, PeerSend(f) \/ PeerClose(f) PROVE ItemsOK'
  BY <1>1, <1>9 DEF PeerSend, PeerClose, loop
<1>10. CASE Tick \/ UNCHANGED vars
  BY <1>1, <1>10 DEF Tick, kernel, loop, vars
<1> QED BY <1>2, <1>3, <1>4, <1>5, <1>6, <1>7, <1>8, <1>9, <1>10, NextCases DEF WorkerStep

LEMMA OversleepNext ==
  ASSUME ConnTypes, LoopOK, TimersOK, NoOversleep, [Next]_vars PROVE NoOversleep'
<1>1. CASE UNCHANGED <<pc, timer, deadline, now>>
  BY <1>1 DEF NoOversleep
<1>2. ASSUME NEW w \in Workers, pc'[w] # "wait", UNCHANGED now,
             \A v \in Workers \ {w} :
                pc'[v] = pc[v] /\ timer'[v] = timer[v] /\ deadline'[v] = deadline[v]
      PROVE  NoOversleep'
  BY <1>2 DEF NoOversleep
<1>3. ASSUME NEW w \in Workers, WorkerStep(w), ~Sleep(w) PROVE NoOversleep'
  <2>1. /\ pc'[w] # "wait" /\ UNCHANGED now
        /\ \A v \in Workers \ {w} :
              pc'[v] = pc[v] /\ timer'[v] = timer[v] /\ deadline'[v] = deadline[v]
    <3> USE DEF ConnTypes, TimersOK
    <3>1. CASE Timeout(w)
      <4>1. pc[w] = "timers" /\ UNCHANGED <<pc, deadline, now>>
        BY <3>1 DEF Timeout, loop
      <4>2. PICK T : timer' = [timer EXCEPT ![w] = T]
        BY <3>1, TimeoutStep
      <4> QED BY <4>1, <4>2
    <3>2. CASE ~Timeout(w)
      BY <1>3, <3>2 DEF WorkerStep, EpollWait, OrdersEvent, Register, OrdersRead,
           ClientEvent, CloseRemove, CloseInit, CloseFd, EventsDone, loop
    <3> QED BY <3>1, <3>2
  <2> QED BY <1>2, <2>1
<1>4. ASSUME NEW w \in Workers, Sleep(w) PROVE NoOversleep'
  <2>1. PICK d \in Nat : /\ deadline' = [deadline EXCEPT ![w] = d]
                         /\ \A e \in BagToSet(timer[w].time_arg) : d <= e[1] \/ d <= now
    BY <1>4, SleepStep
  <2>2. UNCHANGED <<timer, now>> /\ pc' = [pc EXCEPT ![w] = "wait"]
    BY <1>4 DEF Sleep
  <2>3. /\ deadline'[w] = d
        /\ \A v \in Workers \ {w} : pc'[v] = pc[v] /\ deadline'[v] = deadline[v]
    BY <2>1, <2>2 DEF ConnTypes
  <2> QED BY <2>1, <2>2, <2>3 DEF NoOversleep
<1>5. CASE Tick
  <2>1. UNCHANGED <<pc, timer, deadline>> /\ now' = now + 1 /\ now \in Nat
        /\ deadline \in [Workers -> Nat]
    BY <1>5 DEF Tick, loop, ConnTypes
  <2>2. \A w \in Workers : deadline[w] <= now => deadline[w] <= now'
    BY <2>1
  <2> QED BY <2>1, <2>2 DEF NoOversleep
<1>6. ASSUME NEW w \in Workers, Accept(w) PROVE NoOversleep'
  BY <1>1, <1>6 DEF Accept, loop
<1>7. ASSUME NEW f \in Fds, PeerSend(f) \/ PeerClose(f) PROVE NoOversleep'
  BY <1>1, <1>7 DEF PeerSend, PeerClose, loop
<1>8. CASE UNCHANGED vars
  BY <1>1, <1>8 DEF vars, loop
<1> QED BY <1>3, <1>4, <1>5, <1>6, <1>7, <1>8, NextCases

LEMMA ConnInvInit == Init => ConnInv
<1> SUFFICES ASSUME Init PROVE ConnInv
  OBVIOUS
<1>1. ConnTypes
  <2>1. FreshItem \in Items
    BY WorkerConstants DEF FreshItem, Items
  <2> QED BY <2>1, WorkerConstants DEF Init, ConnTypes, PCs
<1>2. LoopOK /\ Owned
  <2>1. \A w \in Workers : DOMAIN orders[w] = {} /\ Len(orders[w]) = 0 /\ set[w] = {}
    BY DEF Init
  <2> QED BY <2>1 DEF Init, LoopOK, Closing, Owned, Queued
<1>3. ItemsOK
  BY DEF Init, ItemsOK, CallbacksSet, FreshOnReuse
<1>4. TimersOK
  <2>1. \A w \in Workers : Timed(w) = {} /\ timer[w] = NewTimer
    BY DEF Init, Timed
  <2>2. timer = [w \in Workers |-> timer[w]]
    BY DEF Init
  <2> QED BY <2>1, <2>2, TimerNew DEF TimersOK
<1>5. NoOversleep
  <2>1. \A w \in Workers : BagToSet(timer[w].time_arg) = {}
    BY DEF Init, NewTimer, EmptyBag, BagToSet, SetToBag
  <2> QED BY <2>1 DEF NoOversleep
<1> QED BY <1>1, <1>2, <1>3, <1>4, <1>5 DEF ConnInv

LEMMA ConnInvAlways == Spec => []ConnInv
<1>1. ConnInv /\ [Next]_vars => ConnInv'
  BY TypesNext, LoopNext, OwnedNext, ItemsNext, TimersNext, OversleepNext DEF ConnInv
<1> QED BY <1>1, ConnInvInit, PTL DEF Spec

-----------------------------------------------------------------------------
(***************************************************************************)
(* The properties.                                                         *)
(***************************************************************************)
\* A descriptor the kernel hands out again, to whichever worker, comes with an
\* item from which the connection before it has been erased.
THEOREM FreshOnReuseAlways == Spec => []FreshOnReuse
BY ConnInvAlways, PTL DEF ConnInv, ItemsOK

LEMMA OwnedOnce == ConnTypes /\ Owned /\ CallbacksSet => SingleOwner
<1> SUFFICES ASSUME ConnTypes, Owned, NEW f \in Fds
    PROVE  LET places == {<<w, "set">> : w \in {v \in Workers : f \in set[v]}}
                \cup {p \in Workers \X (1 .. MaxAccepts) :
                         p[2] <= Len(orders[p[1]]) /\ orders[p[1]][p[2]] = f}
           IN  Cardinality(places) = IF kfd[f] = "open" THEN 1 ELSE 0
  BY DEF SingleOwner
<1> DEFINE sets == {<<w, "set">> : w \in {v \in Workers : f \in set[v]}}
           queues == {p \in Workers \X (1 .. MaxAccepts) :
                         p[2] <= Len(orders[p[1]]) /\ orders[p[1]][p[2]] = f}
<1>1. \A p \in queues : p[1] \in Workers /\ p[2] \in DOMAIN orders[p[1]]
                        /\ orders[p[1]][p[2]] = f /\ p = <<p[1], p[2]>>
  BY DEF ConnTypes
<1>2. \A w \in Workers : \A i \in DOMAIN orders[w] :
        orders[w][i] = f => <<w, i>> \in queues
  <2> SUFFICES ASSUME NEW w \in Workers, NEW i \in DOMAIN orders[w], orders[w][i] = f
               PROVE  <<w, i>> \in queues
    OBVIOUS
  <2>1. i \in 1 .. Len(orders[w]) /\ Len(orders[w]) <= accepts /\ Len(orders[w]) \in Nat
    BY DEF ConnTypes, Owned
  <2>2. i \in 1 .. MaxAccepts
    BY <2>1, WorkerConstants DEF ConnTypes
  <2> QED BY <2>1, <2>2
<1>3. CASE \E w \in Workers : f \in set[w]
  <2>1. PICK w \in Workers : f \in set[w]
    BY <1>3
  <2>2. sets = {<<w, "set">>}
    BY <2>1 DEF Owned
  <2>3. queues = {}
    <3> HIDE DEF queues
    <3> QED BY <1>1, <2>1 DEF Owned, Queued
  <2>4. kfd[f] = "open"
    BY <2>1 DEF Owned
  <2>5. sets \cup queues = {<<w, "set">>}
    BY <2>2, <2>3
  <2> HIDE DEF sets, queues
  <2>6. Cardinality(sets \cup queues) = 1
    BY <2>5, FS_Singleton
  <2> QED BY <2>4, <2>6 DEF sets, queues
<1>4. CASE \E w \in Workers : Queued(w, f)
  <2>0. PICK w \in Workers : Queued(w, f)
    BY <1>4
  <2>1. PICK i \in DOMAIN orders[w] : orders[w][i] = f
    BY <2>0 DEF Queued
  <2>2. sets = {}
    BY <1>4 DEF Owned
  <2>3. queues = {<<w, i>>}
    <3>1. <<w, i>> \in queues
      BY <1>2, <2>1
    <3>2. \A p \in queues : p = <<w, i>>
      <4> HIDE DEF queues
      <4> QED BY <1>1, <2>1 DEF Owned
    <3> HIDE DEF queues
    <3> QED BY <3>1, <3>2
  <2>4. kfd[f] = "open"
    BY <1>4 DEF Owned
  <2>5. sets \cup queues = {<<w, i>>}
    BY <2>2, <2>3
  <2> HIDE DEF sets, queues
  <2>6. Cardinality(sets \cup queues) = 1
    BY <2>5, FS_Singleton
  <2> QED BY <2>4, <2>6 DEF sets, queues
<1>5. CASE \A w \in Workers : f \notin set[w] /\ ~Queued(w, f)
  <2>1. kfd[f] # "open"
    BY <1>5 DEF Owned
  <2>2. sets = {}
    BY <1>5
  <2>3. queues = {}
    <3> HIDE DEF queues
    <3> QED BY <1>1, <1>5 DEF Queued
  <2>4. sets \cup queues = {}
    BY <2>2, <2>3
  <2> HIDE DEF sets, queues
  <2>5. Cardinality(sets \cup queues) = 0
    BY <2>4, FS_EmptySet
  <2> QED BY <2>1, <2>5 DEF sets, queues
<1> QED BY <1>3, <1>4, <1>5

\* An open descriptor is in exactly one place, a free one nowhere, and while
\* it is registered its callbacks are set.
THEOREM SingleOwnerAlways == Spec => []SingleOwner
BY ConnInvAlways, OwnedOnce, PTL DEF ConnInv, ItemsOK

\* A TIMER with one entry for each descriptor keeps its two maps consistent.
LEMMA OneEachMirrored ==
  ASSUME NEW T, NEW S, OneEach(T, S)
  PROVE  /\ Mirrored(T) /\ \A e \in Earliest(T) : ~PopAsserts(T, e)
         /\ \A f : LET mine == {e \in BagToSet(T.time_arg) : e[2] = f}
                   IN  IF f \in S THEN \E e \in mine : mine = {e} /\ T.time_arg[e] = 1
                       ELSE mine = {}
<1>1. PICK due \in [S -> Nat] : T = TimerAt(due)
  BY DEF OneEach
<1>2. /\ BagToSet(T.time_arg) = {<<due[f], f>> : f \in S}
      /\ BagToSet(T.arg_time) = {<<f, due[f]>> : f \in S}
      /\ \A e \in BagToSet(T.time_arg) : T.time_arg[e] = 1
      /\ \A e \in BagToSet(T.arg_time) : T.arg_time[e] = 1
  BY <1>1, TimerMaps
<1>3. \A e \in BagToSet(T.time_arg) : <<e[2], e[1]>> \in BagToSet(T.arg_time)
  BY <1>2
<1>4. Mirrored(T)
  <2>1. \A d \in BagToSet(T.arg_time) : \E e \in BagToSet(T.time_arg) : d = <<e[2], e[1]>>
    <3> TAKE d \in BagToSet(T.arg_time)
    <3>1. PICK f \in S : d = <<f, due[f]>>
      BY <1>2
    <3>2. <<due[f], f>> \in BagToSet(T.time_arg)
      BY <1>2
    <3> QED BY <3>1, <3>2
  <2> QED BY <1>2, <1>3, <2>1 DEF Mirrored
<1>5. \A e \in Earliest(T) : ~PopAsserts(T, e)
  BY <1>3 DEF Earliest, PopAsserts, BagIn
<1>6. ASSUME NEW f
      PROVE  LET mine == {e \in BagToSet(T.time_arg) : e[2] = f}
             IN  IF f \in S THEN \E e \in mine : mine = {e} /\ T.time_arg[e] = 1
                 ELSE mine = {}
  <2> DEFINE mine == {e \in BagToSet(T.time_arg) : e[2] = f}
  <2>1. CASE f \in S
    <3>1. <<due[f], f>> \in mine /\ mine = {<<due[f], f>>}
      BY <1>2, <2>1
    <3>2. T.time_arg[<<due[f], f>>] = 1
      BY <1>2, <3>1
    <3> QED BY <2>1, <3>1, <3>2
  <2>2. CASE f \notin S
    <3>1. mine = {}
      BY <1>2, <2>2
    <3> QED BY <2>2, <3>1
  <2> QED BY <2>1, <2>2
<1> QED BY <1>4, <1>5, <1>6

\* A registered connection has exactly one timer, in its own worker, from its
\* registration to its close; the maps of each TIMER agree, so that the
\* assert(0) of get_timer is not reached, and no worker sleeps past a timer.
THEOREM OneTimerEachAlways == Spec => []OneTimerEach
<1>1. ConnInv => OneTimerEach
  <2> SUFFICES ASSUME ConnInv PROVE OneTimerEach
    OBVIOUS
  <2>1. TypeOK
    <3>1. \A f \in Fds : item[f].sended \in 0 .. Presend - 1
      BY DEF ConnInv, ConnTypes, Items
    <3> QED BY <3>1 DEF TypeOK, ConnInv, ConnTypes, LoopOK, PCs
  <2>2. TimersMirrored
    BY OneEachMirrored DEF ConnInv, TimersOK, TimersMirrored
  <2>3. \A w \in Workers, f \in Fds :
          LET mine == {e \in BagToSet(timer[w].time_arg) : e[2] = f}
          IN  IF f \in set[w] /\ ~Untimed(w, f)
              THEN \E e \in mine : mine = {e} /\ timer[w].time_arg[e] = 1
              ELSE mine = {}
    <3> TAKE w \in Workers, f \in Fds
    <3>1. OneEach(timer[w], Timed(w)) /\ (f \in Timed(w) <=> f \in set[w] /\ ~Untimed(w, f))
      BY DEF ConnInv, TimersOK, Timed
    <3> QED BY <3>1, OneEachMirrored
  <2> QED BY <2>1, <2>2, <2>3 DEF ConnInv, OneTimerEach
<1> QED BY <1>1, ConnInvAlways, PTL
=============================================================================
