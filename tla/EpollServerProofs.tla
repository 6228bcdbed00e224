-------------------------- MODULE EpollServerProofs --------------------------
(***************************************************************************)
(* Proofs about EpollServer with both kinds of clients.                    *)
(***************************************************************************)
EXTENDS MCEpollServer, FiniteSetTheorems, SequenceTheorems, WellFoundedInduction, TLAPS

\* A non-empty set of numbers has a least element.
LEMMA Least ==
    ASSUME NEW S \in SUBSET Nat, S # {}
    PROVE  \E x \in S : \A y \in S : x <= y
<1>1. \E x \in S : \A y \in S : ~(<<y, x>> \in OpToRel(<, Nat))
  BY NatLessThanWellFounded, WFMin, Zenon
<1>2. PICK x \in S : \A y \in S : ~(<<y, x>> \in OpToRel(<, Nat))
  BY <1>1
<1>3. \A y \in S : ~(y < x)
  <2> SUFFICES ASSUME NEW y \in S, y < x PROVE FALSE
    OBVIOUS
  <2>1. <<y, x>> \in Nat \X Nat /\ <<y, x>>[1] < <<y, x>>[2]
    OBVIOUS
  <2>2. <<y, x>> \in OpToRel(<, Nat)
    BY <2>1, Zenon DEF OpToRel
  <2> QED BY <1>2, <2>2
<1> QED BY <1>3

\* A non-empty set of numbers up to n has a greatest element, and Max is it.
LEMMA MaxIsGreatest ==
    ASSUME NEW n \in Nat, NEW S \in SUBSET (1 .. n), S # {}
    PROVE  Max(S) \in S /\ \A y \in S : Max(S) >= y
<1>1. PICK T : T = {u \in 0 .. n : n - u \in S}
  OBVIOUS
<1>2. T \in SUBSET Nat
  BY <1>1
<1>3. PICK y \in S : TRUE
  OBVIOUS
<1>4. n - (n - y) = y /\ n - y \in 0 .. n
  OBVIOUS
<1>5. T # {}
  BY <1>1, <1>3, <1>4
<1>6. PICK x \in T : \A v \in T : x <= v
  BY <1>2, <1>5, Least
<1>7. x \in 0 .. n /\ n - x \in S
  BY <1>1, <1>6
<1>8. ASSUME NEW w \in S PROVE n - x >= w
  <2>1. n - (n - w) = w /\ n - w \in 0 .. n
    OBVIOUS
  <2>2. n - w \in T
    BY <2>1, <1>1
  <2>3. x <= n - w
    BY <2>2, <1>6
  <2> QED BY <2>3, <1>7
<1> QED BY <1>7, <1>8 DEF Max

\* l with the entries after p moved down by one, of the first n.
Down(l, n, p) == [j \in DOMAIN l |-> IF p <= j /\ j < n - 1 THEN l[j + 1] ELSE l[j]]

\* One turn of the loop of del_clilist.
Turn(m, n, f, k) == IF m[k] # f THEN m ELSE Down(m, n, k)

LEMMA ShiftedUnfolds ==
    ASSUME NEW l, NEW f
    PROVE  Shifted(l, f) =
             (CHOOSE it : it = [s \in SUBSET DOMAIN [k \in 1 .. tailindex |-> k - 1] |->
                 IF s = {} THEN l
                 ELSE Turn(it[s \ {Max(s)}], tailindex, f, [k \in 1 .. tailindex |-> k - 1][Max(s)])])
              [DOMAIN [k \in 1 .. tailindex |-> k - 1]]
BY DEF Shifted, FoldLeft, MapThenFoldSet, Turn, Down

\* A descriptor that is in the list once is taken out of it, and those after it
\* move down.
LEMMA ShiftedOnce ==
    ASSUME NEW X, NEW N \in Nat, NEW l \in [0 .. N - 1 -> X], tailindex \in 0 .. N,
           NEW f, NEW p \in 0 .. tailindex - 1, l[p] = f,
           \A k \in 0 .. tailindex - 1 : l[k] = f => k = p
    PROVE  Shifted(l, f) = Down(l, tailindex, p)
<1>n. PICK n \in 0 .. N : n = tailindex
  OBVIOUS
<1>t. n \in Nat
  BY <1>n
<1>w. PICK w : w = [k \in 1 .. n |-> k - 1]
  OBVIOUS
<1>d. PICK d : d = Down(l, n, p)
  OBVIOUS
<1>D. DOMAIN w = 1 .. n /\ \A x \in 1 .. n : w[x] = x - 1
  BY <1>w
<1>p. p \in 0 .. n - 1 /\ \A k \in 0 .. n - 1 : l[k] = f => k = p
  BY <1>n
\* After the descriptor nothing is found.
<1>a. ASSUME NEW k \in 0 .. n - 1, k > p PROVE d[k] # f
  <2>1. d[k] = IF k < n - 1 THEN l[k + 1] ELSE l[k]
    BY <1>a, <1>d, <1>p DEF Down
  <2>2. CASE k < n - 1
    <3>1. k + 1 \in 0 .. n - 1 /\ k + 1 # p
      BY <2>2, <1>a, <1>p
    <3> QED BY <3>1, <2>1, <2>2, <1>p
  <2>3. CASE ~(k < n - 1)
    BY <2>1, <2>3, <1>a, <1>p
  <2> QED BY <2>2, <2>3
<1> DEFINE F(it, s) == IF s = {} THEN l ELSE Turn(it[s \ {Max(s)}], n, f, w[Max(s)])
           G(s) == IF p + 1 \in s THEN d ELSE l
<1>1. ASSUME NEW it, NEW s \in SUBSET (1 .. n), s # {}, it[s \ {Max(s)}] = G(s \ {Max(s)})
      PROVE  F(it, s) = G(s)
  <2>0. PICK x : x = Max(s)
    OBVIOUS
  <2>1. x \in s /\ \A y \in s : x >= y
    BY <1>1, <1>t, <2>0, MaxIsGreatest
  <2>2. x \in 1 .. n /\ w[x] = x - 1 /\ x - 1 \in 0 .. n - 1
    BY <2>1, <1>D
  <2>3. F(it, s) = Turn(G(s \ {x}), n, f, x - 1)
    BY <1>1, <2>0, <2>2
  <2>4. CASE x = p + 1
    <3>1. G(s \ {x}) = l /\ G(s) = d
      BY <2>4, <2>1
    <3>2. Turn(l, n, f, x - 1) = Down(l, n, p)
      BY <2>4, <1>p DEF Turn
    <3> QED BY <3>1, <3>2, <2>3, <1>d
  <2>5. CASE x # p + 1 /\ p + 1 \in s
    <3>1. G(s \ {x}) = d /\ G(s) = d
      BY <2>5
    <3>2. x - 1 > p
      BY <2>5, <2>1, <2>2, <1>p
    <3>3. d[x - 1] # f
      BY <3>2, <2>2, <1>a
    <3>4. Turn(d, n, f, x - 1) = d
      BY <3>3 DEF Turn
    <3> QED BY <3>1, <3>4, <2>3
  <2>6. CASE p + 1 \notin s
    <3>1. G(s \ {x}) = l /\ G(s) = l
      BY <2>6
    <3>2. x - 1 # p
      BY <2>6, <2>1, <2>2, <1>p
    <3>3. l[x - 1] # f
      BY <3>2, <2>2, <1>p
    <3>4. Turn(l, n, f, x - 1) = l
      BY <3>3 DEF Turn
    <3> QED BY <3>1, <3>4, <2>3
  <2> QED BY <2>4, <2>5, <2>6
<1>g. PICK g : g = [s \in SUBSET (1 .. n) |-> G(s)]
  OBVIOUS
<1>m. ASSUME NEW s \in SUBSET (1 .. n), s # {}
      PROVE  Max(s) \in s /\ s \ {Max(s)} \in SUBSET (1 .. n)
  BY <1>m, <1>t, MaxIsGreatest
<1>2. ASSUME NEW s \in SUBSET (1 .. n) PROVE g[s] = F(g, s)
  <2>1. g[s] = G(s)
    BY <1>g
  <2>2. CASE s = {}
    BY <2>1, <2>2
  <2>3. CASE s # {}
    <3>1. g[s \ {Max(s)}] = G(s \ {Max(s)})
      BY <2>3, <1>m, <1>g
    <3> HIDE DEF F, G
    <3> QED BY <2>1, <2>3, <3>1, <1>1
  <2> QED BY <2>2, <2>3
<1>3. g = [s \in SUBSET (1 .. n) |-> F(g, s)]
  <2> HIDE DEF F
  <2> QED BY <1>2, <1>g
<1> DEFINE V == [k \in 1 .. tailindex |-> k - 1]
           H(it) == [s \in SUBSET DOMAIN V |->
                       IF s = {} THEN l ELSE Turn(it[s \ {Max(s)}], tailindex, f, V[Max(s)])]
<1>v. w = V
  BY <1>n, <1>w
<1>h. ASSUME NEW it PROVE H(it) = [s \in SUBSET (1 .. n) |-> F(it, s)]
  <2>1. H(it) = [s \in SUBSET DOMAIN w |->
                   IF s = {} THEN l ELSE Turn(it[s \ {Max(s)}], n, f, w[Max(s)])]
    <3> HIDE DEF V
    <3> QED BY <1>v, <1>n
  <2> QED BY <2>1, <1>D
<1>4. PICK c : c = CHOOSE it : it = H(it)
  OBVIOUS
<1>5. c = [s \in SUBSET (1 .. n) |-> F(c, s)]
  <2> HIDE DEF F, H
  <2>1. g = H(g)
    BY <1>3, <1>h
  <2>2. c = H(c)
    BY <2>1, <1>4
  <2> QED BY <2>2, <1>h
<1>6. ASSUME NEW s \in SUBSET (1 .. n) PROVE c[s] = F(c, s)
  <2> HIDE DEF F
  <2> QED BY <1>5
<1>7. ASSUME NEW s \in SUBSET (1 .. n) PROVE c[s] = G(s)
  <2> SUFFICES ASSUME c[s] # G(s) PROVE FALSE
    OBVIOUS
  <2>f. \A u \in SUBSET (1 .. n) : IsFiniteSet(u) /\ Cardinality(u) \in Nat
    <3>1. IsFiniteSet(1 .. n)
      BY <1>t, FS_Interval
    <3> QED BY <3>1, FS_Subset, FS_CardinalityType
  <2>1. PICK B : B = {u \in SUBSET (1 .. n) : c[u] # G(u)}
    OBVIOUS
  <2>2. PICK K : K = {Cardinality(u) : u \in B}
    OBVIOUS
  <2>3. K \in SUBSET Nat /\ K # {}
    BY <2>1, <2>2, <2>f
  <2>4. PICK k \in K : \A y \in K : k <= y
    BY <2>3, Least
  <2>5. PICK u \in B : k = Cardinality(u)
    BY <2>2, <2>4
  <2>6. u \in SUBSET (1 .. n) /\ c[u] # G(u)
    BY <2>1, <2>5
  <2>7. u # {}
    BY <2>6, <1>6
  <2>8. PICK v : v = u \ {Max(u)}
    OBVIOUS
  <2>9. v \in SUBSET (1 .. n) /\ Max(u) \in u
    BY <2>6, <2>7, <2>8, <1>m
  <2>10. Cardinality(v) = Cardinality(u) - 1
    BY <2>8, <2>9, <2>6, <2>f, FS_RemoveElement
  <2>11. Cardinality(v) \notin K
    BY <2>10, <2>4, <2>5, <2>6, <2>9, <2>f
  <2>12. c[v] = G(v)
    <3> HIDE DEF G
    <3> QED BY <2>11, <2>9, <2>1, <2>2
  <2>13. F(c, u) = G(u)
    <3> HIDE DEF F, G
    <3> QED BY <2>12, <2>8, <2>6, <2>7, <1>1
  <2> QED BY <2>13, <2>6, <1>6
<1>8. c[1 .. n] = d
  <2>1. p + 1 \in 1 .. n
    BY <1>p
  <2> QED BY <2>1, <1>7
<1>9. Shifted(l, f) = c[1 .. n]
  <2>1. Shifted(l, f) = (CHOOSE it : it = H(it))[DOMAIN V]
    BY ShiftedUnfolds
  <2>2. DOMAIN V = 1 .. n
    BY <1>v, <1>D
  <2> HIDE DEF H, V
  <2> QED BY <2>1, <2>2, <1>4
<1> QED BY <1>8, <1>9, <1>d, <1>n

-----------------------------------------------------------------------------
(* The list.                                                               *)

\* The first n entries of l are the members of S, each once.
Lists(l, n, S) ==
    /\ \A k \in 0 .. n - 1 : l[k] \in S
    /\ \A f \in S : \E k \in 0 .. n - 1 : l[k] = f
    /\ \A k, m \in 0 .. n - 1 : l[k] = l[m] => k = m

\* So it has as many entries as S has members.
LEMMA ListCount ==
    ASSUME NEW n \in Nat, NEW l, NEW S, Lists(l, n, S)
    PROVE  IsFiniteSet(S) /\ Cardinality(S) = n
<1>1. PICK g : g = [k \in 0 .. n - 1 |-> l[k]]
  OBVIOUS
<1>2. g \in [0 .. n - 1 -> S]
  BY <1>1 DEF Lists
<1>3. \A f \in S : \E k \in 0 .. n - 1 : g[k] = f
  BY <1>1 DEF Lists
<1>4. \A k, m \in 0 .. n - 1 : g[k] = g[m] => k = m
  BY <1>1 DEF Lists
<1>5. g \in Bijection(0 .. n - 1, S)
  BY <1>2, <1>3, <1>4 DEF Bijection, Injection, Surjection, IsInjective
<1>6. ExistsBijection(0 .. n - 1, S)
  BY <1>5 DEF ExistsBijection
<1>7. IsFiniteSet(0 .. n - 1) /\ Cardinality(0 .. n - 1) = n
  BY FS_Interval
<1> QED BY <1>6, <1>7, FS_Bijection

\* The first half of add_clilist writes behind the entries, the second half
\* makes it one of them.
LEMMA ListWrite ==
    ASSUME NEW n \in Nat, NEW X, NEW N \in Nat, n < N, NEW l \in [0 .. N - 1 -> X], NEW S, NEW x,
           Lists(l, n, S)
    PROVE  Lists([l EXCEPT ![n] = x], n, S)
<1>1. \A k \in 0 .. n - 1 : [l EXCEPT ![n] = x][k] = l[k]
  OBVIOUS
<1> QED BY <1>1 DEF Lists

LEMMA ListAdd ==
    ASSUME NEW n \in Nat, NEW l, NEW S, NEW x, x \notin S, l[n] = x, Lists(l, n, S)
    PROVE  Lists(l, n + 1, S \cup {x})
<1>1. \A k \in 0 .. n : k = n \/ k \in 0 .. n - 1
  OBVIOUS
<1>2. \A k \in 0 .. n - 1 : k \in 0 .. n
  OBVIOUS
<1>3. \A k \in 0 .. n - 1 : l[k] \in S
  BY DEF Lists
<1>4. (n + 1) - 1 = n /\ n \in 0 .. n
  OBVIOUS
<1>5. \A k \in 0 .. n : l[k] \in S \cup {x}
  BY <1>1, <1>3
<1>6. \A f \in S \cup {x} : \E k \in 0 .. n : l[k] = f
  BY <1>2, <1>4 DEF Lists
<1>7. \A k, m \in 0 .. n : l[k] = l[m] => k = m
  <2> SUFFICES ASSUME NEW k \in 0 .. n, NEW m \in 0 .. n, l[k] = l[m] PROVE k = m
    OBVIOUS
  <2>1. CASE k = n \/ m = n
    BY <2>1, <1>1, <1>3
  <2>2. CASE k # n /\ m # n
    BY <2>2, <1>1 DEF Lists
  <2> QED BY <2>1, <2>2
<1> QED BY <1>4, <1>5, <1>6, <1>7 DEF Lists

\* del_clilist: with both halves a descriptor is taken out of the list.
LEMMA ListRemove ==
    ASSUME NEW X, NEW N \in Nat, NEW l \in [0 .. N - 1 -> X], tailindex \in 0 .. N,
           NEW S, NEW f, f \notin S, Lists(l, tailindex, S \cup {f})
    PROVE  /\ Shifted(l, f) \in [0 .. N - 1 -> X]
           /\ tailindex > 0 /\ Lists(Shifted(l, f), tailindex - 1, S)
<1>n. PICK n \in 0 .. N : n = tailindex
  OBVIOUS
<1>1. PICK p \in 0 .. n - 1 : l[p] = f
  BY <1>n DEF Lists
<1>2. \A k \in 0 .. n - 1 : l[k] = f => k = p
  BY <1>1, <1>n DEF Lists
<1>3. PICK d : d = Down(l, n, p)
  OBVIOUS
<1>4. Shifted(l, f) = d
  BY <1>1, <1>2, <1>3, <1>n, ShiftedOnce
<1>5. n \in Nat /\ n > 0 /\ (n - 1) - 1 = n - 2
  BY <1>1
<1>6. \A k \in 0 .. n - 2 : /\ d[k] = l[IF p <= k THEN k + 1 ELSE k]
                             /\ (IF p <= k THEN k + 1 ELSE k) \in (0 .. n - 1) \ {p}
  <2> SUFFICES ASSUME NEW k \in 0 .. n - 2
               PROVE  /\ d[k] = l[IF p <= k THEN k + 1 ELSE k]
                      /\ (IF p <= k THEN k + 1 ELSE k) \in (0 .. n - 1) \ {p}
    OBVIOUS
  <2>1. k \in 0 .. N - 1 /\ k < n - 1
    BY <1>5
  <2>2. d[k] = IF p <= k /\ k < n - 1 THEN l[k + 1] ELSE l[k]
    BY <2>1, <1>3 DEF Down
  <2> QED BY <2>1, <2>2, <1>1
<1>7. \A k \in 0 .. n - 2 : d[k] \in S
  <2> SUFFICES ASSUME NEW k \in 0 .. n - 2 PROVE d[k] \in S
    OBVIOUS
  <2>1. PICK j \in (0 .. n - 1) \ {p} : d[k] = l[j]
    BY <1>6
  <2> QED BY <2>1, <1>2, <1>n DEF Lists
<1>8. ASSUME NEW g \in S PROVE \E k \in 0 .. n - 2 : d[k] = g
  <2>1. PICK j \in 0 .. n - 1 : l[j] = g
    BY <1>n DEF Lists
  <2>2. j # p
    BY <2>1, <1>1
  <2>3. CASE j < p
    <3>1. j \in 0 .. n - 2 /\ ~(p <= j)
      BY <2>3
    <3> QED BY <3>1, <1>6, <2>1
  <2>4. CASE j > p
    <3>1. j - 1 \in 0 .. n - 2 /\ p <= j - 1 /\ (j - 1) + 1 = j
      BY <2>4
    <3> QED BY <3>1, <1>6, <2>1
  <2> QED BY <2>2, <2>3, <2>4
<1>9. ASSUME NEW k \in 0 .. n - 2, NEW m \in 0 .. n - 2, d[k] = d[m] PROVE k = m
  <2>1. PICK a : a = IF p <= k THEN k + 1 ELSE k
    OBVIOUS
  <2>2. PICK b : b = IF p <= m THEN m + 1 ELSE m
    OBVIOUS
  <2>3. a \in 0 .. n - 1 /\ b \in 0 .. n - 1 /\ l[a] = l[b]
    BY <2>1, <2>2, <1>6, <1>9
  <2>4. a = b
    BY <2>3, <1>n DEF Lists
  <2> QED BY <2>1, <2>2, <2>4
<1>10. Lists(d, n - 1, S)
  BY <1>5, <1>7, <1>8, <1>9 DEF Lists
<1>11. d \in [0 .. N - 1 -> X]
  <2> SUFFICES ASSUME NEW k \in 0 .. N - 1
               PROVE  (IF p <= k /\ k < n - 1 THEN l[k + 1] ELSE l[k]) \in X
    BY <1>3 DEF Down
  <2> QED BY <1>5
<1> QED BY <1>4, <1>5, <1>10, <1>11, <1>n

-----------------------------------------------------------------------------
(* Polite clients.  The server is in one of three phases: it serves the    *)
(* clients there are, takes a new one, or removes one that left.           *)

\* The connections there have been, and those still open.
Known == {f \in Conns : conn[f] # NoConn}
Open == {f \in Conns : conn[f].peer = "open"}

Work == [pc : {"read", "echo", "all", "gone", "shift", "drop"}, arg : 1 .. MAX_CONNECT, n : Nat]

\* Types, and that each descriptor has one event at most and each queued event
\* has been passed by the loop.
Types ==
    /\ conn \in [Conns -> [peer : {"none", "open", "fin", "reset"}, data : 0 .. MaxData]]
    /\ events \in [1 .. MAX_CONNECT -> Conns \cup {listenfd, None}]
    /\ nfds \in 0 .. MAX_CONNECT /\ i \in 1 .. nfds + 1
    /\ clilist \in [0 .. MAX_CONNECT - 1 -> Conns \cup {None}] /\ tailindex \in 0 .. MAX_CONNECT
    /\ queue \in Seq(1 .. nfds) /\ Len(queue) < i
    /\ task \in [Threads -> {Resting} \cup Work]
    /\ \A a, b \in 1 .. nfds : events[a] = events[b] => a = b
    /\ \E n \in 0 .. Descriptors : Known = 1 .. n

AllRest == queue = <<>> /\ \A t \in Threads : task[t] = Resting
Silent == \A f \in Conns : conn[f].data = 0

\* The list and the set of epoll hold the clients in S.
Tidy(S) == Lists(clilist, tailindex, S) /\ registered = S \cup {listenfd}

\* The events that the loop, the queue and the threads still have to look at.
Pending == IF loop = "events" THEN i .. nfds ELSE {}
Queued == {queue[k] : k \in DOMAIN queue}
Reading == {t \in Threads : task[t].pc = "read"}
Claimed == Pending \cup Queued \cup {task[t].arg : t \in Reading}

TasksOK ==
    \A t \in Threads :
       /\ task[t].pc \in {"rest", "read", "echo", "all"}
       /\ task[t].pc # "rest" => task[t].arg \in 1 .. i - 1 /\ events[task[t].arg] \in Open
       /\ task[t].pc = "echo" => task[t].n > 0

\* Each is claimed once, and is of a client who is there.
ClaimsOK ==
    /\ \A k \in Claimed : events[k] \in Open
    /\ \A k \in DOMAIN queue : queue[k] < i
    /\ \A k, m \in DOMAIN queue : queue[k] = queue[m] => k = m
    /\ \A t, u \in Reading : task[t].arg = task[u].arg => t = u
    /\ \A t \in Reading, k \in DOMAIN queue : task[t].arg # queue[k]

\* What a client has sent and nobody read has an edge or an event.
Noticed(f) == f \in ready \/ \E k \in Claimed : events[k] = f
DataOK == \A f \in Conns : conn[f].data > 0 <=> Noticed(f)

Serving ==
    /\ backlog = 0 /\ loop \in {"wait", "events"} /\ Tidy(Open)
    /\ ready \subseteq Open /\ (ready # {} => Waiting)
    /\ TasksOK /\ ClaimsOK /\ DataOK

\* A client is waiting, its event is looked at, it is half in the list.
Accepting ==
    /\ AllRest /\ Silent
    /\ \/ /\ backlog = 1 /\ Known # Conns /\ tailindex < MAX_CONNECT /\ Tidy(Open)
          /\ \/ loop = "wait" /\ ready = {listenfd}
             \/ loop = "events" /\ ready = {} /\ i = 1 /\ nfds = 1 /\ events[1] = listenfd
       \/ /\ loop = "add" /\ ready = {} /\ backlog = 0 /\ i = 1 /\ nfds = 1
          /\ \E n \in Open :
                /\ Known = 1 .. n /\ conn[n] = [peer |-> "open", data |-> 0]
                /\ tailindex < MAX_CONNECT /\ clilist[tailindex] = n /\ Tidy(Open \ {n})

Alone(t, where) ==
    /\ queue = <<>> /\ task[t].pc \in where /\ task[t].arg = 1
    /\ \A u \in Threads \ {t} : task[u] = Resting

\* Client f left and its event is not yet handled; it has been taken out of the
\* set of epoll; and moved out of the list.
Leaving(f) ==
    /\ Silent /\ conn[f].peer \in {"fin", "reset"} /\ backlog = 0 /\ loop \in {"wait", "events"}
    /\ \/ Waiting /\ ready = {f} /\ Tidy(Open \cup {f})
       \/ /\ ready = {} /\ nfds = 1 /\ events[1] = f
          /\ \/ loop = "events" /\ i = 1 /\ AllRest /\ Tidy(Open \cup {f})
             \/ /\ i = 2
                /\ \/ queue = <<1>> /\ (\A t \in Threads : task[t] = Resting) /\ Tidy(Open \cup {f})
                   \/ \E t \in Threads :
                         \/ Alone(t, {"read", "gone"}) /\ Tidy(Open \cup {f})
                         \/ /\ Alone(t, {"shift"}) /\ registered = Open \cup {listenfd}
                            /\ Lists(clilist, tailindex, Open \cup {f})
                         \/ /\ Alone(t, {"drop"}) /\ registered = Open \cup {listenfd}
                            /\ tailindex > 0 /\ Lists(clilist, tailindex - 1, Open)

PoliteInv == Types /\ (Serving \/ Accepting \/ \E f \in Conns : Leaving(f))

\* What holds of every state of these clients.
LEMMA ServerFacts ==
    /\ MAX_CONNECT \in Nat /\ MAX_CONNECT > 0 /\ QUEUE \in Nat /\ QUEUE >= MAX_CONNECT
    /\ Descriptors \in Nat /\ Descriptors > 0 /\ Conns = 1 .. Descriptors
    /\ listenfd = 0 /\ None = -1 /\ Polite
    /\ MaxData \in Nat /\ MaxData > 0 /\ LINE \in Nat /\ MaxData < LINE /\ Threads # {}
<1> QED BY EpollAssumption, ClientsAssumption DEF Conns, listenfd, None

\* What has been accepted counts the next descriptor.
LEMMA NextFd ==
    ASSUME Types
    PROVE  \E n \in 0 .. Descriptors :
              /\ Known = 1 .. n /\ Cardinality(Known) = n /\ NewFd = n + 1
              /\ Known # Conns <=> n < Descriptors
<1>1. PICK n \in 0 .. Descriptors : Known = 1 .. n
  BY DEF Types
<1>2. Cardinality(1 .. n) = n
  BY FS_Interval, ServerFacts
<1>3. 1 .. n = 1 .. Descriptors <=> n = Descriptors
  <2>1. CASE n < Descriptors
    <3>1. n + 1 \in 1 .. Descriptors /\ n + 1 \notin 1 .. n
      BY <2>1, ServerFacts
    <3> QED BY <3>1, <2>1
  <2>2. CASE n = Descriptors
    BY <2>2
  <2> QED BY <2>1, <2>2, ServerFacts
<1>4. NewFd = 1 + Cardinality(Known)
  BY DEF NewFd, Known
<1>5. Known # Conns <=> n < Descriptors
  BY <1>1, <1>3, ServerFacts
<1> QED BY <1>1, <1>2, <1>4, <1>5

\* While the server waits for epoll nothing is claimed.
LEMMA WaitingFacts ==
    ASSUME Types, Waiting
    PROVE  loop = "wait" /\ AllRest /\ Claimed = {} /\ \A t \in Threads : task[t].pc = "rest"
BY DEF Types, Waiting, AllRest, Claimed, Pending, Queued, Reading, Resting

\* A state of the server when it waits, and ready clients have sent something.
LEMMA WaitingServes ==
    /\ Types /\ Waiting /\ backlog = 0 /\ Tidy(Open) /\ ready \subseteq Open
    /\ \A f \in Conns : conn[f].data > 0 <=> f \in ready
    => Serving
<1> SUFFICES ASSUME Types, Waiting, backlog = 0, Tidy(Open), ready \subseteq Open,
                    \A f \in Conns : conn[f].data > 0 <=> f \in ready
             PROVE  Serving
  OBVIOUS
<1>1. TasksOK
  BY WaitingFacts DEF TasksOK
<1>2. ClaimsOK
  BY WaitingFacts DEF ClaimsOK, AllRest, Reading
<1>3. DataOK
  BY WaitingFacts DEF DataOK, Noticed
<1> QED BY <1>1, <1>2, <1>3, WaitingFacts DEF Serving

LEMMA WaitingServesNext ==
    ASSUME Types', Waiting', backlog' = 0, Tidy(Open)', ready' \subseteq Open',
           \A f \in Conns : conn'[f].data > 0 <=> f \in ready'
    PROVE  Serving'
<1>1. (/\ Types /\ Waiting /\ backlog = 0 /\ Tidy(Open) /\ ready \subseteq Open
       /\ \A f \in Conns : conn[f].data > 0 <=> f \in ready
       => Serving)'
  BY WaitingServes, PTL
<1> QED BY <1>1

\* In such a state nothing is unread but what has an edge.
LEMMA WaitingData ==
    ASSUME Types, Waiting, Serving
    PROVE  \A f \in Conns : conn[f].data > 0 <=> f \in ready
BY WaitingFacts DEF Serving, DataOK, Noticed

LEMMA PoliteInit == Init => PoliteInv
<1> SUFFICES ASSUME Init PROVE PoliteInv
  OBVIOUS
<1>1. Known = {} /\ Open = {}
  BY DEF Init, Known, Open, NoConn
<1>2. Types
  <2>1. Known = 1 .. 0
    BY <1>1
  <2>2. conn \in [Conns -> [peer : {"none", "open", "fin", "reset"}, data : 0 .. MaxData]]
    BY ServerFacts DEF Init, NoConn
  <2>3. queue \in Seq(1 .. nfds) /\ Len(queue) < i
    BY DEF Init
  <2>4. \E n \in 0 .. Descriptors : Known = 1 .. n
    BY <2>1, ServerFacts
  <2>5. \A a, b \in 1 .. nfds : events[a] = events[b] => a = b
    BY DEF Init
  <2>6. /\ events \in [1 .. MAX_CONNECT -> Conns \cup {listenfd, None}]
        /\ clilist \in [0 .. MAX_CONNECT - 1 -> Conns \cup {None}]
    BY DEF Init
  <2>7. nfds \in 0 .. MAX_CONNECT /\ i \in 1 .. nfds + 1 /\ tailindex \in 0 .. MAX_CONNECT
    BY ServerFacts DEF Init
  <2>8. task \in [Threads -> {Resting} \cup Work]
    BY DEF Init
  <2> QED BY <2>2, <2>3, <2>4, <2>5, <2>6, <2>7, <2>8 DEF Types
<1>3. Waiting /\ backlog = 0 /\ ready = {}
  BY DEF Init, Waiting
<1>4. Tidy(Open)
  BY <1>1 DEF Init, Tidy, Lists
<1>5. \A f \in Conns : conn[f].data > 0 <=> f \in ready
  BY <1>3 DEF Init, NoConn
<1> QED BY <1>2, <1>3, <1>4, <1>5, WaitingServes DEF PoliteInv

-----------------------------------------------------------------------------
(* The steps while it serves.                                              *)

LEMMA ServeConnect ==
    ASSUME Types, Serving, Connect
    PROVE  Types' /\ Accepting'
<1>1. Waiting /\ ready = {}
  BY ServerFacts DEF Connect, May, Idle
<1>2. AllRest /\ loop = "wait"
  BY <1>1, WaitingFacts
<1>3. Silent
  <2>1. \A f \in Conns : conn[f].data \in 0 .. MaxData /\ ~(conn[f].data > 0)
    BY <1>1, WaitingData DEF Types
  <2> QED BY <2>1, ServerFacts DEF Silent
<1>4. Known # Conns /\ tailindex < MAX_CONNECT
  <2>1. NewFd \in Conns /\ tailindex < MAX_CONNECT
    BY ServerFacts DEF Connect
  <2>2. PICK n \in 0 .. Descriptors : NewFd = n + 1 /\ (Known # Conns <=> n < Descriptors)
    BY NextFd
  <2> QED BY <2>1, <2>2, ServerFacts
<1>5. ready' = {listenfd} /\ backlog' = 1
  BY <1>1 DEF Connect, Notify, Serving, Tidy
<1>6. Types'
  BY DEF Connect, Types, main, list, pool, Known
<1>7. Tidy(Open)' /\ AllRest' /\ Silent' /\ (Known # Conns)' /\ loop' = "wait"
      /\ (tailindex < MAX_CONNECT)'
  BY <1>2, <1>3, <1>4 DEF Connect, Serving, Tidy, Open, Known, AllRest, Silent, main, list, pool
<1> QED BY <1>5, <1>6, <1>7 DEF Accepting

\* What a client does to its connection leaves the others and keeps the types.
LEMMA ConnTouched ==
    ASSUME Types, NEW f \in Conns, conn[f].peer = "open",
           NEW p \in {"open", "fin", "reset"}, NEW d \in 0 .. MaxData,
           conn' = [conn EXCEPT ![f] = [peer |-> p, data |-> d]]
    PROVE  /\ conn' \in [Conns -> [peer : {"none", "open", "fin", "reset"}, data : 0 .. MaxData]]
           /\ Known' = Known
           /\ Open' = IF p = "open" THEN Open ELSE Open \ {f}
           /\ conn'[f] = [peer |-> p, data |-> d]
           /\ \A g \in Conns : g # f => conn'[g] = conn[g]
<1>1. conn'[f] = [peer |-> p, data |-> d] /\ \A g \in Conns : g # f => conn'[g] = conn[g]
  BY DEF Types
<1>2. [peer |-> p, data |-> d] \in [peer : {"none", "open", "fin", "reset"}, data : 0 .. MaxData]
  OBVIOUS
<1>3. conn' \in [Conns -> [peer : {"none", "open", "fin", "reset"}, data : 0 .. MaxData]]
  BY <1>2 DEF Types
<1>4. conn[f] # NoConn /\ conn'[f] # NoConn
  BY <1>1 DEF NoConn
<1>5. Known' = Known
  BY <1>1, <1>4 DEF Known
<1>6. Open' = IF p = "open" THEN Open ELSE Open \ {f}
  BY <1>1 DEF Open
<1> QED BY <1>1, <1>3, <1>5, <1>6

\* A record updated in a field.
LEMMA ConnRecord ==
    ASSUME Types, NEW f \in Conns
    PROVE  /\ \A d \in 0 .. MaxData : [conn EXCEPT ![f].data = d] =
                 [conn EXCEPT ![f] = [peer |-> conn[f].peer, data |-> d]]
           /\ \A p \in {"fin", "reset"} : [conn EXCEPT ![f].peer = p] =
                 [conn EXCEPT ![f] = [peer |-> p, data |-> conn[f].data]]
<1>1. conn[f] \in [peer : {"none", "open", "fin", "reset"}, data : 0 .. MaxData]
  BY DEF Types
<1>2. \A d \in 0 .. MaxData : [conn[f] EXCEPT !.data = d] = [peer |-> conn[f].peer, data |-> d]
  BY <1>1
<1>3. \A p \in {"fin", "reset"} : [conn[f] EXCEPT !.peer = p] = [peer |-> p, data |-> conn[f].data]
  BY <1>1
<1> QED BY <1>2, <1>3

LEMMA ServeSend ==
    ASSUME Types, Serving, NEW f \in Conns, Send(f)
    PROVE  Types' /\ Serving'
<1>1. Waiting /\ conn[f].peer = "open" /\ f \in Open
  BY ServerFacts DEF Send, Open
<1>2. PICK d \in 1 .. MaxData : conn' = [conn EXCEPT ![f].data = d]
  <2>1. conn[f].data \in 0 .. MaxData
    BY DEF Types
  <2>2. PICK d \in conn[f].data + 1 .. MaxData : conn' = [conn EXCEPT ![f].data = d]
    BY DEF Send
  <2>3. d \in 1 .. MaxData
    BY <2>1, <2>2, ServerFacts
  <2> QED BY <2>2, <2>3
<1>d. d \in 0 .. MaxData /\ d > 0
  BY <1>2, ServerFacts
<1>3. conn' = [conn EXCEPT ![f] = [peer |-> "open", data |-> d]]
  <2>1. [conn EXCEPT ![f].data = d] = [conn EXCEPT ![f] = [peer |-> conn[f].peer, data |-> d]]
    BY <1>d, ConnRecord
  <2> QED BY <2>1, <1>1, <1>2
<1>4. /\ conn' \in [Conns -> [peer : {"none", "open", "fin", "reset"}, data : 0 .. MaxData]]
      /\ Known' = Known /\ Open' = Open
      /\ conn'[f] = [peer |-> "open", data |-> d] /\ \A g \in Conns : g # f => conn'[g] = conn[g]
  BY <1>1, <1>3, <1>d, ConnTouched
<1>5. Types'
  BY <1>4 DEF Send, Types, main, list, pool
<1>6. ready' = ready \cup {f}
  BY <1>1 DEF Send, Notify, Serving, Tidy
<1>8. \A g \in Conns : conn'[g].data > 0 <=> g \in ready'
  BY <1>1, <1>4, <1>6, <1>d, WaitingData
<1>9. Waiting' /\ backlog' = 0 /\ Tidy(Open)'
  BY <1>1, <1>4 DEF Send, Waiting, main, list, pool, Serving, Tidy
<1>10. ready' \subseteq Open'
  BY <1>1, <1>4, <1>6 DEF Serving
<1> QED BY <1>5, <1>8, <1>9, <1>10, WaitingServesNext

LEMMA ServeLeave ==
    ASSUME Types, Serving, NEW f \in Conns, NEW how \in {"fin", "reset"}, Leave(f, how)
    PROVE  Types' /\ Leaving(f)'
<1>1. Waiting /\ ready = {} /\ conn[f].peer = "open" /\ f \in Open
  BY ServerFacts DEF Leave, May, Idle, Open
<1>2. Silent
  <2>1. \A g \in Conns : conn[g].data \in 0 .. MaxData /\ ~(conn[g].data > 0)
    BY <1>1, WaitingData DEF Types
  <2> QED BY <2>1, ServerFacts DEF Silent
<1>3. conn' = [conn EXCEPT ![f] = [peer |-> how, data |-> 0]]
  BY <1>2, ConnRecord DEF Leave, Silent
<1>4. /\ conn' \in [Conns -> [peer : {"none", "open", "fin", "reset"}, data : 0 .. MaxData]]
      /\ Known' = Known /\ Open' = Open \ {f}
      /\ conn'[f] = [peer |-> how, data |-> 0] /\ \A g \in Conns : g # f => conn'[g] = conn[g]
  <2>1. how # "open" /\ how \in {"open", "fin", "reset"} /\ 0 \in 0 .. MaxData
    BY ServerFacts
  <2> QED BY <2>1, <1>1, <1>3, ConnTouched
<1>5. Types'
  BY <1>4 DEF Leave, Types, main, list, pool
<1>6. ready' = {f}
  BY <1>1 DEF Leave, Notify, Serving, Tidy
<1>7. Open' \cup {f} = Open
  BY <1>1, <1>4
<1>8. Waiting' /\ backlog' = 0 /\ loop' \in {"wait", "events"} /\ Tidy(Open \cup {f})'
  BY <1>1, <1>7 DEF Leave, Waiting, main, list, pool, Serving, Tidy
<1>9. Silent' /\ conn'[f].peer \in {"fin", "reset"}
  BY <1>2, <1>4 DEF Silent
<1> QED BY <1>5, <1>6, <1>8, <1>9 DEF Leaving

\* epoll_wait reports at most as many events as there are entries.
LEMMA MinIs == ASSUME NEW c \in Nat, NEW n \in Nat PROVE Min({c, n}) = IF c <= n THEN c ELSE n
<1>1. PICK m \in {c, n} : m <= c /\ m <= n
  OBVIOUS
<1>2. \E x \in {c, n} : \A y \in {c, n} : x <= y
  BY <1>1
<1>3. Min({c, n}) \in {c, n} /\ \A y \in {c, n} : Min({c, n}) <= y
  BY <1>2 DEF Min
<1> QED BY <1>3

\* epoll_wait: each client with an edge gets one event.
LEMMA ServeEpollWait ==
    ASSUME Types, Serving, EpollWait
    PROVE  Types' /\ Serving'
<1>1. Waiting /\ AllRest /\ loop = "wait" /\ \A t \in Threads : task[t].pc = "rest"
  BY WaitingFacts DEF EpollWait, Serving
<1>2. ready \subseteq Conns
  BY DEF Serving, Open
<1>F. IsFiniteSet(ready) /\ Cardinality(ready) <= MAX_CONNECT /\ Cardinality(ready) \in Nat
  <2>0. tailindex \in 0 .. MAX_CONNECT /\ tailindex \in Nat /\ Lists(clilist, tailindex, Open)
        /\ ready \in SUBSET Open
    BY ServerFacts DEF Types, Serving, Tidy
  <2>1. IsFiniteSet(Open) /\ Cardinality(Open) = tailindex
    BY <2>0, ListCount
  <2>2. IsFiniteSet(ready) /\ Cardinality(ready) <= Cardinality(Open)
    BY <2>0, <2>1, FS_Subset
  <2>3. Cardinality(ready) \in Nat
    BY <2>2, FS_CardinalityType
  <2> QED BY <2>0, <2>1, <2>2, <2>3, ServerFacts
<1>3. PICK c \in 0 .. MAX_CONNECT : c = Cardinality(ready)
  BY <1>F, ServerFacts
<1>m. nfds' = c
  <2>1. c \in Nat /\ c <= MAX_CONNECT
    BY <1>3, ServerFacts
  <2> QED BY <2>1, <1>3, ServerFacts, MinIs DEF EpollWait
<1>4. PICK s \in [1 .. c -> ready] :
         /\ \A a, b \in DOMAIN s : s[a] = s[b] => a = b
         /\ events' = [k \in DOMAIN events |-> IF k \in DOMAIN s THEN s[k] ELSE events[k]]
         /\ ready' = ready \ {s[k] : k \in DOMAIN s}
  BY <1>m DEF EpollWait
<1>6. \A f \in ready : \E k \in 1 .. c : s[k] = f
  <2>1. IsFiniteSet(ready) /\ Cardinality(1 .. c) = Cardinality(ready)
    <3>1. c \in Nat /\ Cardinality(1 .. c) = IF 1 > c THEN 0 ELSE c - 1 + 1
      BY FS_Interval, ServerFacts
    <3> QED BY <3>1, <1>3, <1>F
  <2>2. s \in Injection(1 .. c, ready)
    BY <1>4 DEF Injection, IsInjective
  <2>3. s \in Surjection(1 .. c, ready)
    BY <2>1, <2>2, FS_Injection
  <2> QED BY <2>3 DEF Surjection
<1>5. nfds' = c /\ ready' = {} /\ i' = 1 /\ loop' = "events"
      /\ UNCHANGED <<backlog, conn, registered, clilist, tailindex, queue, task>>
  <2>1. ready' = {}
    BY <1>4, <1>6
  <2> QED BY <2>1, <1>m DEF EpollWait, list, pool
<1>7. \A k \in 1 .. c : events'[k] = s[k] /\ events'[k] \in ready
  <2>1. DOMAIN s = 1 .. c /\ \A k \in 1 .. c : k \in DOMAIN events
    BY <1>4, ServerFacts DEF Types
  <2> QED BY <2>1, <1>4
<1>8. events' \in [1 .. MAX_CONNECT -> Conns \cup {listenfd, None}]
  BY <1>2, <1>4 DEF Types
<1>9. \A a, b \in 1 .. nfds' : events'[a] = events'[b] => a = b
  BY <1>4, <1>5, <1>7
<1>10. queue' = <<>> /\ queue' \in Seq(1 .. nfds') /\ Len(queue') < i'
  BY <1>1, <1>5 DEF AllRest
<1>11. nfds' \in 0 .. MAX_CONNECT /\ i' \in 1 .. nfds' + 1
  BY <1>5
<1>12. Known' = Known /\ Open' = Open
  BY <1>5 DEF Known, Open
<1>13. Types'
  BY <1>5, <1>8, <1>9, <1>10, <1>11, <1>12 DEF Types
<1>14. Reading' = {} /\ Queued' = {} /\ Claimed' = 1 .. c
  BY <1>1, <1>5, <1>10 DEF Reading, Queued, Claimed, Pending
<1>15. TasksOK'
  BY <1>1, <1>5 DEF TasksOK
<1>16. ClaimsOK'
  <2>1. \A k \in 1 .. c : events'[k] \in Open'
    BY <1>7, <1>12 DEF Serving
  <2> QED BY <2>1, <1>10, <1>14 DEF ClaimsOK
<1>17. DataOK'
  <2>1. \A f \in Conns : conn[f].data > 0 <=> f \in ready
    BY <1>1, WaitingData
  <2>2. \A f \in Conns : f \in ready <=> \E k \in 1 .. c : events'[k] = f
    BY <1>6, <1>7
  <2> QED BY <2>1, <2>2, <1>5, <1>14 DEF DataOK, Noticed
<1>18. Tidy(Open)'
  BY <1>5, <1>12 DEF Serving, Tidy
<1> QED BY <1>5, <1>13, <1>15, <1>16, <1>17, <1>18 DEF Serving

LEMMA ServeEndOfEvents ==
    ASSUME Types, Serving, EndOfEvents
    PROVE  Types' /\ Serving'
<1>1. /\ loop = "events" /\ i > nfds /\ loop' = "wait"
      /\ UNCHANGED <<backlog, conn, registered, ready, events, nfds, i, clilist, tailindex, queue, task>>
  BY DEF EndOfEvents, kernel, list, pool
<1>2. Types' /\ Open' = Open
  BY <1>1 DEF Types, Known, Open
<1>3. Pending' = Pending
  BY <1>1 DEF Pending, Types
<1>4. Reading' = Reading /\ Queued' = Queued /\ Claimed' = Claimed
  BY <1>1, <1>3 DEF Reading, Queued, Claimed
<1>5. ready = {}
  BY <1>1 DEF Serving, Waiting
<1>6. TasksOK' /\ ClaimsOK' /\ DataOK'
  BY <1>1, <1>2, <1>4 DEF Serving, TasksOK, ClaimsOK, DataOK, Noticed
<1> QED BY <1>1, <1>2, <1>5, <1>6 DEF Serving, Tidy

\* No event of the listening socket is left.
LEMMA ServeNoAccept ==
    ASSUME Types, Serving
    PROVE  ~Handling(listenfd) /\ ~Accept /\ ~AcceptExit /\ ~AcceptOverrun /\ ~Add
<1>1. ASSUME Handling(listenfd) PROVE FALSE
  <2>1. i \in Pending
    BY <1>1 DEF Handling, Pending, Types
  <2>2. events[i] \in Open
    BY <2>1 DEF Serving, ClaimsOK, Claimed
  <2> QED BY <1>1, <2>2, ServerFacts DEF Handling, Open
<1> QED BY <1>1 DEF Accept, AcceptExit, AcceptOverrun, Add, Serving

\* What is in a sequence over S is in S.
LEMMA Entry == ASSUME NEW S, NEW q \in Seq(S), NEW k \in 1 .. Len(q) PROVE q[k] \in S
OBVIOUS

\* threadpool_add: there is room in the queue.
LEMMA EnqueueRoom ==
    ASSUME Types, loop = "events", i <= nfds
    PROVE  /\ Enqueue(queue) = Append(queue, i) /\ Append(queue, i) \in Seq(1 .. nfds)
           /\ Len(Append(queue, i)) = Len(queue) + 1
           /\ \A k \in 1 .. Len(queue) : Append(queue, i)[k] = queue[k]
           /\ Append(queue, i)[Len(queue) + 1] = i
           /\ DOMAIN Append(queue, i) = 1 .. Len(queue) + 1
           /\ DOMAIN queue = 1 .. Len(queue) /\ Len(queue) \in Nat
<1>1. /\ queue \in Seq(1 .. nfds) /\ Len(queue) \in Nat /\ Len(queue) < i /\ i \in 1 .. nfds
      /\ nfds \in 0 .. MAX_CONNECT
  BY DEF Types
<1>2. Len(queue) < QUEUE
  BY <1>1, ServerFacts
<1> QED BY <1>1, <1>2 DEF Enqueue

LEMMA ServeDispatch ==
    ASSUME Types, Serving, Dispatch
    PROVE  Types' /\ Serving'
<1>1. /\ loop = "events" /\ i <= nfds /\ queue' = Enqueue(queue) /\ i' = i + 1
      /\ UNCHANGED <<backlog, conn, registered, ready, events, nfds, loop, clilist, tailindex, task>>
  BY DEF Dispatch, Handling, kernel, list
<1>2. PICK n \in Nat : n = Len(queue)
  BY DEF Types
<1>3. /\ queue' \in Seq(1 .. nfds) /\ Len(queue') = n + 1 /\ DOMAIN queue' = 1 .. n + 1
      /\ DOMAIN queue = 1 .. n /\ queue'[n + 1] = i /\ \A k \in 1 .. n : queue'[k] = queue[k]
  BY <1>1, <1>2, EnqueueRoom
<1>i. i \in 1 .. nfds /\ nfds \in 0 .. MAX_CONNECT /\ n < i
  BY <1>1, <1>2 DEF Types
<1>4. Types'
  <2>1. Len(queue') < i' /\ i' \in 1 .. nfds + 1
    BY <1>1, <1>3, <1>i
  <2> QED BY <1>1, <1>3, <2>1 DEF Types, Known
<1>5. \A k \in 1 .. n + 1 : k = n + 1 \/ k \in 1 .. n
  OBVIOUS
<1>6. Queued' = Queued \cup {i}
  <2>1. n + 1 \in 1 .. n + 1 /\ \A k \in 1 .. n : k \in 1 .. n + 1
    BY <1>2
  <2> QED BY <1>3, <1>5, <2>1 DEF Queued
<1>7. Pending = Pending' \cup {i}
  BY <1>1, <1>i DEF Pending
<1>8. Reading' = Reading /\ Open' = Open
  BY <1>1 DEF Reading, Open
<1>9. Claimed' = Claimed
  BY <1>1, <1>6, <1>7, <1>8 DEF Claimed
<1>10. ready = {}
  BY <1>1 DEF Serving, Waiting
<1>11. TasksOK'
  <2>1. \A a : a \in 1 .. i - 1 => a \in 1 .. i' - 1
    BY <1>1, <1>i
  <2> QED BY <1>1, <1>8, <2>1 DEF Serving, TasksOK
<1>12. ClaimsOK'
  <2>1. \A k \in Claimed' : events'[k] \in Open'
    BY <1>1, <1>8, <1>9 DEF Serving, ClaimsOK
  <2>2. \A k \in 1 .. n : queue[k] < i /\ queue[k] \in 1 .. nfds
    <3>1. \A k \in DOMAIN queue : queue[k] < i
      BY DEF Serving, ClaimsOK
    <3>2. queue \in Seq(1 .. nfds)
      BY DEF Types
    <3>3. \A k \in 1 .. n : queue[k] \in 1 .. nfds
      BY <3>2, <1>2, Entry
    <3> QED BY <3>1, <3>3, <1>3
  <2>3. \A k \in DOMAIN queue' : queue'[k] < i'
    BY <1>1, <1>3, <1>5, <1>i, <2>2
  <2>4. \A k, m \in DOMAIN queue' : queue'[k] = queue'[m] => k = m
    <3> SUFFICES ASSUME NEW k \in 1 .. n + 1, NEW m \in 1 .. n + 1, queue'[k] = queue'[m] PROVE k = m
      BY <1>3
    <3>1. CASE k \in 1 .. n /\ m \in 1 .. n
      BY <3>1, <1>3 DEF Serving, ClaimsOK
    <3>2. CASE k = n + 1 /\ m \in 1 .. n
      BY <3>2, <1>3, <2>2, <1>i
    <3>3. CASE k \in 1 .. n /\ m = n + 1
      BY <3>3, <1>3, <2>2, <1>i
    <3> QED BY <3>1, <3>2, <3>3, <1>5
  <2>5. \A t \in Reading : task[t].arg < i /\ task[t].arg \in Int
    <3>1. \A t \in Reading : task[t].arg \in 1 .. i - 1
      BY DEF Serving, TasksOK, Reading
    <3> QED BY <3>1, <1>i
  <2>6. \A t \in Reading', k \in DOMAIN queue' : task'[t].arg # queue'[k]
    <3> SUFFICES ASSUME NEW t \in Reading, NEW k \in 1 .. n + 1 PROVE task[t].arg # queue'[k]
      BY <1>1, <1>3, <1>8
    <3>1. CASE k = n + 1
      BY <3>1, <2>5, <1>3, <1>i
    <3>2. CASE k \in 1 .. n
      BY <3>2, <1>3 DEF Serving, ClaimsOK
    <3> QED BY <3>1, <3>2, <1>5
  <2>7. \A t, u \in Reading' : task'[t].arg = task'[u].arg => t = u
    BY <1>1, <1>8 DEF Serving, ClaimsOK
  <2> QED BY <2>1, <2>3, <2>4, <2>6, <2>7 DEF ClaimsOK
<1>13. DataOK'
  BY <1>1, <1>9 DEF Serving, DataOK, Noticed
<1>14. Tidy(Open)'
  BY <1>1, <1>8 DEF Serving, Tidy
<1> QED BY <1>1, <1>4, <1>10, <1>11, <1>12, <1>13, <1>14 DEF Serving

\* A thread of the pool takes the event at the head of the queue.
LEMMA ServeTake ==
    ASSUME Types, Serving, NEW t \in Threads, Take(t)
    PROVE  Types' /\ Serving'
<1>1. /\ task[t].pc = "rest" /\ queue # <<>> /\ queue' = Tail(queue)
      /\ task' = [task EXCEPT ![t] = [pc |-> "read", arg |-> Head(queue), n |-> 0]]
      /\ UNCHANGED <<backlog, conn, registered, ready, events, nfds, i, loop, clilist, tailindex>>
  BY DEF Take, kernel, main, list
<1>2. PICK n \in Nat : n = Len(queue)
  BY DEF Types
<1>3. PICK h : h = queue[1]
  OBVIOUS
<1>4. /\ n > 0 /\ Head(queue) = h /\ queue' \in Seq(1 .. nfds) /\ Len(queue') = n - 1
      /\ DOMAIN queue = 1 .. n /\ DOMAIN queue' = 1 .. n - 1
      /\ \A k \in 1 .. n - 1 : queue'[k] = queue[k + 1]
  <2>1. queue \in Seq(1 .. nfds) /\ Len(queue) \in Nat
    BY DEF Types
  <2> QED BY <2>1, <1>1, <1>2, <1>3
<1>5. nfds \in 0 .. MAX_CONNECT /\ i \in 1 .. nfds + 1 /\ n < i
  BY <1>2 DEF Types
<1>6. h \in 1 .. nfds /\ h < i /\ 1 \in 1 .. n /\ h \in Claimed
  <2>1. 1 \in 1 .. n
    BY <1>4
  <2>2. h \in 1 .. nfds
    BY <2>1, <1>2, <1>3 DEF Types
  <2>3. h < i /\ h \in Claimed
    BY <2>1, <1>3, <1>4 DEF Serving, ClaimsOK, Claimed, Queued
  <2> QED BY <2>1, <2>2, <2>3
<1>7. /\ task'[t] = [pc |-> "read", arg |-> h, n |-> 0]
      /\ \A u \in Threads : u # t => task'[u] = task[u]
  BY <1>1, <1>4 DEF Types
<1>8. Types'
  <2>1. [pc |-> "read", arg |-> h, n |-> 0] \in Work
    BY <1>6, <1>5, ServerFacts DEF Work
  <2>2. task' \in [Threads -> {Resting} \cup Work]
    BY <2>1, <1>1, <1>4 DEF Types
  <2>3. Len(queue') < i
    BY <1>4, <1>5
  <2> QED BY <2>2, <2>3, <1>1, <1>4 DEF Types, Known
<1>9. Open' = Open /\ Pending' = Pending
  BY <1>1 DEF Open, Pending
<1>10. Reading' = Reading \cup {t} /\ t \notin Reading
  BY <1>1, <1>7 DEF Reading
<1>11. \A k \in 1 .. n - 1 : k + 1 \in 1 .. n /\ k + 1 # 1
  BY <1>4
<1>12. \A k \in 1 .. n : k = 1 \/ (k - 1 \in 1 .. n - 1 /\ (k - 1) + 1 = k)
  BY <1>4
<1>13. Queued = Queued' \cup {h}
  <2>1. \A k \in 1 .. n : queue[k] = h \/ \E m \in 1 .. n - 1 : queue'[m] = queue[k]
    BY <1>3, <1>4, <1>12
  <2>2. \A k \in 1 .. n - 1 : \E m \in 1 .. n : queue[m] = queue'[k]
    BY <1>4, <1>11
  <2>3. \A x : x \in Queued <=> \E k \in 1 .. n : queue[k] = x
    BY <1>4 DEF Queued
  <2>4. \A x : x \in Queued' <=> \E k \in 1 .. n - 1 : queue'[k] = x
    BY <1>4 DEF Queued
  <2>5. h \in Queued
    BY <2>3, <1>3, <1>6
  <2>6. ASSUME NEW x \in Queued PROVE x \in Queued' \cup {h}
    BY <2>1, <2>3, <2>4
  <2>7. ASSUME NEW x \in Queued' PROVE x \in Queued
    BY <2>2, <2>3, <2>4
  <2> QED BY <2>5, <2>6, <2>7
<1>14. Claimed' = Claimed
  <2>1. {task'[u].arg : u \in Reading'} = {task[u].arg : u \in Reading} \cup {h}
    BY <1>7, <1>10 DEF Reading
  <2> QED BY <2>1, <1>9, <1>13 DEF Claimed
<1>15. ready = {}
  BY <1>1 DEF Serving, Waiting
<1>16. TasksOK'
  <2>1. h \in 1 .. i - 1 /\ events[h] \in Open
    BY <1>5, <1>6 DEF Serving, ClaimsOK
  <2>2. \A u \in Threads : u # t =>
           /\ task'[u].pc \in {"rest", "read", "echo", "all"}
           /\ task'[u].pc # "rest" => task'[u].arg \in 1 .. i - 1 /\ events[task'[u].arg] \in Open
           /\ task'[u].pc = "echo" => task'[u].n > 0
    BY <1>7 DEF Serving, TasksOK
  <2> QED BY <2>1, <2>2, <1>1, <1>7, <1>9 DEF TasksOK
<1>17. ClaimsOK'
  <2>1. \A k \in Claimed' : events'[k] \in Open'
    BY <1>1, <1>9, <1>14 DEF Serving, ClaimsOK
  <2>2. \A k \in DOMAIN queue' : queue'[k] < i'
    BY <1>1, <1>4, <1>11 DEF Serving, ClaimsOK
  <2>3. \A k, m \in DOMAIN queue' : queue'[k] = queue'[m] => k = m
    <3> SUFFICES ASSUME NEW k \in 1 .. n - 1, NEW m \in 1 .. n - 1, queue'[k] = queue'[m] PROVE k = m
      BY <1>4
    <3>1. queue[k + 1] = queue[m + 1] /\ k + 1 \in 1 .. n /\ m + 1 \in 1 .. n
      BY <1>4, <1>11
    <3>2. k + 1 = m + 1
      BY <3>1, <1>4 DEF Serving, ClaimsOK
    <3> QED BY <3>2
  <2>4. \A k \in DOMAIN queue' : queue'[k] # h
    <3> SUFFICES ASSUME NEW k \in 1 .. n - 1, queue'[k] = h PROVE FALSE
      BY <1>4
    <3>1. queue[k + 1] = queue[1] /\ k + 1 \in 1 .. n /\ k + 1 # 1
      BY <1>3, <1>4, <1>11
    <3> QED BY <3>1, <1>4, <1>6 DEF Serving, ClaimsOK
  <2>5. \A u \in Reading : task[u].arg # h /\ u # t
    BY <1>3, <1>4, <1>6, <1>10 DEF Serving, ClaimsOK
  <2>6. \A u \in Reading, k \in DOMAIN queue' : task[u].arg # queue'[k]
    BY <1>4, <1>11 DEF Serving, ClaimsOK
  <2>7. \A u, v \in Reading' : task'[u].arg = task'[v].arg => u = v
    <3>1. \A u, v \in Reading : task[u].arg = task[v].arg => u = v
      BY DEF Serving, ClaimsOK
    <3>2. \A u \in Reading : u \in Threads
      BY DEF Reading
    <3> QED BY <3>1, <3>2, <2>5, <1>7, <1>10
  <2>8. \A u \in Reading', k \in DOMAIN queue' : task'[u].arg # queue'[k]
    <3>1. \A u \in Reading : u \in Threads
      BY DEF Reading
    <3> QED BY <3>1, <2>4, <2>5, <2>6, <1>7, <1>10
  <2> QED BY <2>1, <2>2, <2>3, <2>7, <2>8 DEF ClaimsOK
<1>18. DataOK'
  BY <1>1, <1>14 DEF Serving, DataOK, Noticed
<1>19. Tidy(Open)'
  BY <1>1, <1>9 DEF Serving, Tidy
<1> QED BY <1>1, <1>8, <1>15, <1>16, <1>17, <1>18, <1>19 DEF Serving

\* op_read: the event of a reading thread is of a client who is there and whose
\* message nobody else reads.
LEMMA ServeRead ==
    ASSUME Types, Serving, NEW t \in Threads, Read(t)
    PROVE  Types' /\ Serving'
<1>1. PICK a : a = task[t].arg
  OBVIOUS
<1>2. PICK f : f = events[a]
  OBVIOUS
<1>3. t \in Reading /\ task[t].pc = "read" /\ a \in Claimed /\ a \in 1 .. i - 1 /\ f \in Open /\ f \in Conns
  <2>1. t \in Reading /\ task[t].pc = "read"
    BY DEF Read, Reading
  <2>2. a \in Claimed
    BY <2>1, <1>1 DEF Claimed
  <2>3. a \in 1 .. i - 1 /\ f \in Open
    BY <2>1, <1>1, <1>2 DEF Serving, TasksOK
  <2> QED BY <2>1, <2>2, <2>3 DEF Open
<1>4. conn[f].data > 0 /\ conn[f].data \in 0 .. MaxData /\ conn[f].peer = "open" /\ f # listenfd
  <2>1. Noticed(f)
    BY <1>2, <1>3 DEF Noticed
  <2> QED BY <2>1, <1>3, ServerFacts DEF Serving, DataOK, Types, Open
<1>5. PICK d \in Nat : d = conn[f].data
  BY <1>4, ServerFacts
<1>6. /\ task' = [task EXCEPT ![t].pc = "echo", ![t].n = d]
      /\ conn' = [conn EXCEPT ![f].data = 0]
      /\ UNCHANGED <<backlog, registered, ready, events, nfds, i, loop, clilist, tailindex, queue>>
  <2>1. Count(d) = d
    BY <1>4, <1>5, ServerFacts DEF Count
  <2>2. Strlens(d) = {d}
    BY ServerFacts DEF Strlens
  <2>3. Fd(t) = f /\ Fd(t) # listenfd /\ conn[f].peer = "open"
    BY <1>1, <1>2, <1>4 DEF Fd
  <2>4. /\ \E m \in Strlens(Count(d)) : task' = [task EXCEPT ![t].pc = "echo", ![t].n = m]
        /\ conn' = [conn EXCEPT ![f].data = @ - Count(d)]
    BY <2>3, <1>5 DEF Read
  <2>5. task' = [task EXCEPT ![t].pc = "echo", ![t].n = d]
    BY <2>1, <2>2, <2>4
  <2>6. conn' = [conn EXCEPT ![f].data = 0]
    <3>1. conn[f].data - Count(d) = 0
      BY <2>1, <1>5
    <3> QED BY <2>4, <3>1
  <2>7. UNCHANGED <<backlog, registered, ready, events, nfds, i, loop, clilist, tailindex, queue>>
    BY DEF Read, main, list
  <2> QED BY <2>5, <2>6, <2>7
<1>7. conn' = [conn EXCEPT ![f] = [peer |-> "open", data |-> 0]]
  <2>1. [conn EXCEPT ![f].data = 0] = [conn EXCEPT ![f] = [peer |-> conn[f].peer, data |-> 0]]
    <3>1. 0 \in 0 .. MaxData
      BY ServerFacts
    <3>2. \A e \in 0 .. MaxData :
             [conn EXCEPT ![f].data = e] = [conn EXCEPT ![f] = [peer |-> conn[f].peer, data |-> e]]
      BY ConnRecord, <1>3
    <3> QED BY <3>1, <3>2
  <2> QED BY <2>1, <1>4, <1>6
<1>8. /\ conn' \in [Conns -> [peer : {"none", "open", "fin", "reset"}, data : 0 .. MaxData]]
      /\ Known' = Known /\ Open' = Open
      /\ conn'[f] = [peer |-> "open", data |-> 0] /\ \A g \in Conns : g # f => conn'[g] = conn[g]
  <2>1. 0 \in 0 .. MaxData /\ "open" \in {"open", "fin", "reset"}
    BY ServerFacts
  <2> QED BY <2>1, <1>3, <1>4, <1>7, ConnTouched
<1>9. task[t] \in Work /\ task[t] # Resting
  BY <1>3 DEF Types, Resting
<1>10. /\ task'[t] \in Work /\ task'[t].pc = "echo" /\ task'[t].arg = a /\ task'[t].n = d
       /\ \A u \in Threads : u # t => task'[u] = task[u]
  BY <1>1, <1>5, <1>6, <1>9 DEF Types, Work
<1>11. task' \in [Threads -> {Resting} \cup Work]
  BY <1>6, <1>10 DEF Types
<1>12. Types'
  BY <1>6, <1>8, <1>11 DEF Types
<1>13. Reading' = Reading \ {t}
  BY <1>10 DEF Reading
<1>14. Pending' = Pending /\ Queued' = Queued
  BY <1>6 DEF Pending, Queued
<1>15. {task'[u].arg : u \in Reading'} = {task[u].arg : u \in Reading \ {t}}
  BY <1>10, <1>13 DEF Reading
<1>i. i \in Nat
  BY ServerFacts DEF Types
<1>16. Claimed' = Claimed \ {a}
  <2>1. a \notin Pending
    BY <1>3, <1>i DEF Pending
  <2>2. a \notin Queued
    BY <1>1, <1>3 DEF Serving, ClaimsOK, Queued
  <2>3. \A u \in Reading \ {t} : task[u].arg # a
    BY <1>1, <1>3 DEF Serving, ClaimsOK
  <2>4. {task[u].arg : u \in Reading} = {task[u].arg : u \in Reading \ {t}} \cup {a}
    BY <1>1, <1>3
  <2> QED BY <2>1, <2>2, <2>3, <2>4, <1>14, <1>15 DEF Claimed
<1>17. ready = {}
  BY <1>3 DEF Serving, Waiting, Resting
<1>18. TasksOK'
  <2>1. events[a] \in Open
    BY <1>2, <1>3
  <2>2. \A u \in Threads : u # t =>
           /\ task'[u].pc \in {"rest", "read", "echo", "all"}
           /\ task'[u].pc # "rest" => task'[u].arg \in 1 .. i - 1 /\ events[task'[u].arg] \in Open
           /\ task'[u].pc = "echo" => task'[u].n > 0
    BY <1>10 DEF Serving, TasksOK
  <2>3. d > 0
    BY <1>4, <1>5
  <2>4. /\ task'[t].pc \in {"rest", "read", "echo", "all"}
        /\ task'[t].arg \in 1 .. i - 1 /\ events[task'[t].arg] \in Open
        /\ task'[t].n > 0
    BY <2>1, <2>3, <1>3, <1>10
  <2>5. i' = i /\ events' = events /\ Open' = Open
    BY <1>6, <1>8
  <2>6. \A u \in Threads :
           /\ task'[u].pc \in {"rest", "read", "echo", "all"}
           /\ task'[u].pc # "rest" => task'[u].arg \in 1 .. i' - 1 /\ events'[task'[u].arg] \in Open'
           /\ task'[u].pc = "echo" => task'[u].n > 0
    BY <2>2, <2>4, <2>5
  <2> QED BY <2>6 DEF TasksOK
<1>19. ClaimsOK'
  <2>1. \A u \in Reading' : u \in Reading /\ task'[u].arg = task[u].arg
    BY <1>10, <1>13 DEF Reading
  <2>2. \A k \in Claimed' : events'[k] \in Open'
    BY <1>6, <1>8, <1>16 DEF Serving, ClaimsOK
  <2>3. /\ \A k \in DOMAIN queue' : queue'[k] < i'
        /\ \A k, m \in DOMAIN queue' : queue'[k] = queue'[m] => k = m
    BY <1>6 DEF Serving, ClaimsOK
  <2>4. \A u, v \in Reading' : task'[u].arg = task'[v].arg => u = v
    BY <2>1 DEF Serving, ClaimsOK
  <2>q. queue' = queue
    BY <1>6
  <2>5. \A u \in Reading', k \in DOMAIN queue' : task'[u].arg # queue'[k]
    <3>1. \A u \in Reading, k \in DOMAIN queue : task[u].arg # queue[k]
      BY DEF Serving, ClaimsOK
    <3> QED BY <3>1, <2>1, <2>q
  <2> QED BY <2>2, <2>3, <2>4, <2>5 DEF ClaimsOK
<1>20. DataOK'
  <2>1. \A k \in Claimed : k \in 1 .. nfds
    <3>1. Queued \subseteq 1 .. nfds
      BY DEF Queued, Types
    <3>2. Pending \subseteq 1 .. nfds
      BY DEF Pending, Types
    <3>3. \A u \in Reading : task[u].arg \in 1 .. i - 1
      BY DEF Serving, TasksOK, Reading
    <3>4. \A k \in 1 .. i - 1 : k \in 1 .. nfds
      BY ServerFacts DEF Types
    <3> QED BY <3>1, <3>2, <3>3, <3>4 DEF Claimed
  <2>2. \A k \in Claimed : events[k] = f => k = a
    BY <2>1, <1>2, <1>3 DEF Types
  <2>3. ~Noticed(f)'
    BY <2>2, <1>6, <1>16, <1>17 DEF Noticed
  <2>4. \A g \in Conns : g # f => (Noticed(g)' <=> Noticed(g))
    BY <1>2, <1>6, <1>16 DEF Noticed
  <2>5. ~(conn'[f].data > 0)
    BY <1>8
  <2> QED BY <2>3, <2>4, <2>5, <1>8 DEF Serving, DataOK
<1>21. Tidy(Open)'
  BY <1>6, <1>8 DEF Serving, Tidy
<1> QED BY <1>6, <1>12, <1>17, <1>18, <1>19, <1>20, <1>21 DEF Serving

\* What a thread does after its read leaves what is claimed.
LEMMA ServeAfterRead ==
    ASSUME Types, Serving, NEW t \in Threads, task[t].pc \in {"echo", "all"},
           NEW r \in {Resting} \cup Work, r.pc \in {"rest", "all"}, r.pc = "all" => r.arg = task[t].arg,
           task' = [task EXCEPT ![t] = r],
           UNCHANGED <<backlog, conn, registered, ready, events, nfds, i, loop, clilist, tailindex, queue>>
    PROVE  Types' /\ Serving'
<1>1. task'[t] = r /\ \A u \in Threads : u # t => task'[u] = task[u]
  BY DEF Types
<1>2. Types' /\ Open' = Open
  <2>1. task' \in [Threads -> {Resting} \cup Work]
    BY DEF Types
  <2> QED BY <2>1 DEF Types, Known, Open
<1>3. Reading' = Reading /\ \A u \in Reading : task'[u] = task[u]
  BY <1>1 DEF Reading
<1>4. Pending' = Pending /\ Queued' = Queued
  BY DEF Pending, Queued
<1>5. Claimed' = Claimed
  <2>1. {task'[u].arg : u \in Reading'} = {task[u].arg : u \in Reading}
    BY <1>3
  <2> QED BY <2>1, <1>4 DEF Claimed
<1>6. ready = {}
  BY DEF Serving, Waiting, Resting
<1>7. TasksOK'
  <2>1. r.pc # "rest" => r.arg \in 1 .. i - 1 /\ events[r.arg] \in Open
    BY DEF Serving, TasksOK
  <2>2. \A u \in Threads : u # t =>
           /\ task'[u].pc \in {"rest", "read", "echo", "all"}
           /\ task'[u].pc # "rest" => task'[u].arg \in 1 .. i - 1 /\ events[task'[u].arg] \in Open
           /\ task'[u].pc = "echo" => task'[u].n > 0
    BY <1>1 DEF Serving, TasksOK
  <2>3. /\ task'[t].pc \in {"rest", "read", "echo", "all"}
        /\ task'[t].pc # "rest" => task'[t].arg \in 1 .. i - 1 /\ events[task'[t].arg] \in Open
        /\ task'[t].pc # "echo"
    BY <2>1, <1>1
  <2> QED BY <2>2, <2>3, <1>2 DEF TasksOK
<1>8. ClaimsOK'
  <2>1. \A k \in Claimed' : events'[k] \in Open'
    BY <1>2, <1>5 DEF Serving, ClaimsOK
  <2>2. \A u, v \in Reading' : task'[u].arg = task'[v].arg => u = v
    BY <1>3 DEF Serving, ClaimsOK
  <2>3. \A u \in Reading', k \in DOMAIN queue' : task'[u].arg # queue'[k]
    BY <1>3 DEF Serving, ClaimsOK
  <2> QED BY <2>1, <2>2, <2>3 DEF Serving, ClaimsOK
<1>9. DataOK'
  BY <1>5 DEF Serving, DataOK, Noticed
<1>10. Tidy(Open)'
  BY <1>2 DEF Serving, Tidy
<1> QED BY <1>2, <1>6, <1>7, <1>8, <1>9, <1>10 DEF Serving

\* op_write and the message to everybody meet no client who left.
LEMMA ServeWrite ==
    ASSUME Types, Serving, NEW t \in Threads, Echo(t) \/ ToAll(t) \/ Done(t)
    PROVE  Types' /\ Serving'
<1>0. task[t].pc \in {"echo", "all"} /\ task[t] \in Work /\ task[t].arg \in 1 .. i - 1
      /\ events[task[t].arg] \in Open
  BY DEF Echo, ToAll, Done, Types, Serving, TasksOK, Resting
<1>1. \A f \in Open : ~Broken(f) /\ f # None
  BY ServerFacts DEF Open, Broken
<1>2. CASE Echo(t)
  <2>1. task[t].n > 0 /\ task[t].n \in Nat
    BY <1>0, <1>2 DEF Echo, Serving, TasksOK, Work
  <2>2. task' = [task EXCEPT ![t].pc = "all", ![t].n = 0]
    BY <2>1, <1>0, <1>1, <1>2 DEF Echo, Fd
  <2>3. PICK r : r = [task[t] EXCEPT !.pc = "all", !.n = 0]
    OBVIOUS
  <2>4. r \in Work /\ r.pc = "all" /\ r.arg = task[t].arg
    BY <2>3, <1>0 DEF Work
  <2>5. task' = [task EXCEPT ![t] = r]
    BY <2>2, <2>3
  <2>6. UNCHANGED <<backlog, conn, registered, ready, events, nfds, i, loop, clilist, tailindex, queue>>
    BY <1>2 DEF Echo, kernel, main, list
  <2> QED BY <2>4, <2>5, <2>6, <1>0, ServeAfterRead
<1>3. CASE ToAll(t)
  <2>1. task[t].n \in Nat /\ task[t].n < tailindex /\ tailindex \in Nat
    BY <1>0, <1>3 DEF ToAll, Work, Types
  <2>2. task[t].n \in 0 .. tailindex - 1
    BY <2>1
  <2>3. clilist[task[t].n] \in Open
    BY <2>2 DEF Serving, Tidy, Lists
  <2>4. UNCHANGED <<backlog, conn, registered, ready, events, nfds, i, loop, clilist, tailindex, queue>>
    BY <2>3, <1>1, <1>3 DEF ToAll, main, list
  <2>5. PICK r : r = [task[t] EXCEPT !.n = @ + 1]
    OBVIOUS
  <2>6. r \in Work /\ r.pc = "all" /\ r.arg = task[t].arg
    BY <2>5, <2>1, <1>0, <1>3 DEF Work, ToAll
  <2>7. task' = [task EXCEPT ![t] = r]
    BY <2>5, <1>3 DEF ToAll
  <2> QED BY <2>4, <2>6, <2>7, <1>0, ServeAfterRead
<1>4. CASE Done(t)
  <2>1. task' = [task EXCEPT ![t] = Resting] /\ Resting.pc = "rest"
    BY <1>4 DEF Done, Rest, Resting
  <2>2. UNCHANGED <<backlog, conn, registered, ready, events, nfds, i, loop, clilist, tailindex, queue>>
    BY <1>4 DEF Done, kernel, main, list
  <2> QED BY <2>1, <2>2, <1>0, ServeAfterRead
<1> QED BY <1>2, <1>3, <1>4

\* The phase of service ends when a client comes or leaves.
LEMMA ServeStep ==
    ASSUME Types, Serving, [Next]_vars
    PROVE  PoliteInv'
<1>1. CASE StartServer
  BY <1>1, ServeEpollWait, ServeEndOfEvents, ServeNoAccept, ServeDispatch DEF StartServer, PoliteInv
<1>2. ASSUME NEW t \in Threads, handle(t) PROVE PoliteInv'
  <2>1. task[t].pc \in {"rest", "read", "echo", "all"}
    BY DEF Serving, TasksOK
  <2>2. ~Gone(t) /\ ~Shift(t) /\ ~Drop(t)
    BY <2>1 DEF Gone, Shift, Drop
  <2> QED BY <1>2, <2>2, ServeTake, ServeRead, ServeWrite DEF handle, PoliteInv
<1>3. CASE Clients
  <2>1. CASE Connect
    BY <2>1, ServeConnect DEF PoliteInv
  <2>2. ASSUME NEW f \in Conns, Send(f) PROVE PoliteInv'
    BY <2>2, ServeSend DEF PoliteInv
  <2>3. ASSUME NEW f \in Conns, NEW how \in {"fin", "reset"}, Leave(f, how) PROVE PoliteInv'
    <3>1. Types' /\ Leaving(f)'
      BY <2>3, ServeLeave
    <3> QED BY <3>1 DEF PoliteInv, Conns
  <2> QED BY <1>3, <2>1, <2>2, <2>3 DEF Clients
<1>4. CASE UNCHANGED vars
  <2>1. UNCHANGED <<backlog, conn, registered, ready, events, nfds, i, loop, clilist, tailindex, queue, task>>
    BY <1>4 DEF vars, kernel, main, list, pool
  <2>2. Types'
    BY <2>1 DEF Types, Known
  <2>3. Serving'
    BY <2>1 DEF Serving, Open, Tidy, Waiting, TasksOK, ClaimsOK, DataOK, Noticed, Claimed, Pending, Queued, Reading
  <2> QED BY <2>2, <2>3 DEF PoliteInv
<1> QED BY <1>1, <1>2, <1>3, <1>4 DEF Next

-----------------------------------------------------------------------------
(* The steps while a client is taken on.                                   *)

\* The state of a server that has been through one event and has no other.
LEMMA QuietServes ==
    /\ Types /\ AllRest /\ Silent /\ backlog = 0 /\ Tidy(Open) /\ ready = {}
    /\ loop \in {"wait", "events"} /\ i > nfds
    => Serving
<1> SUFFICES ASSUME Types, AllRest, Silent, backlog = 0, Tidy(Open), ready = {},
                    loop \in {"wait", "events"}, i > nfds
             PROVE  Serving
  OBVIOUS
<1>1. Pending = {}
  BY DEF Pending, Types
<1>2. Reading = {} /\ queue = <<>> /\ \A t \in Threads : task[t].pc = "rest"
  BY DEF AllRest, Reading, Resting
<1>3. Claimed = {}
  BY <1>1, <1>2 DEF Claimed, Queued
<1>4. TasksOK
  BY <1>2 DEF TasksOK
<1>5. ClaimsOK
  BY <1>2, <1>3 DEF ClaimsOK
<1>6. DataOK
  BY <1>3 DEF DataOK, Noticed, Silent
<1> QED BY <1>4, <1>5, <1>6 DEF Serving

LEMMA QuietServesNext ==
    ASSUME Types', AllRest', Silent', backlog' = 0, Tidy(Open)', ready' = {},
           loop' \in {"wait", "events"}, i' > nfds'
    PROVE  Serving'
<1>1. (/\ Types /\ AllRest /\ Silent /\ backlog = 0 /\ Tidy(Open) /\ ready = {}
       /\ loop \in {"wait", "events"} /\ i > nfds
       => Serving)'
  BY QuietServes, PTL
<1> QED BY <1>1

\* epoll_wait with one edge.
LEMMA OneEvent ==
    ASSUME Types, AllRest, NEW f \in Conns \cup {listenfd}, ready = {f}, EpollWait
    PROVE  /\ Types' /\ nfds' = 1 /\ i' = 1 /\ loop' = "events" /\ ready' = {} /\ events'[1] = f
           /\ UNCHANGED <<backlog, conn, registered, clilist, tailindex, queue, task>>
<1>1. Cardinality({f}) = 1
  BY FS_Singleton
<1>m. nfds' = 1
  <2>1. MAX_CONNECT \in Nat /\ 1 <= MAX_CONNECT
    BY ServerFacts
  <2>2. nfds' = Min({Cardinality({f}), MAX_CONNECT})
    BY DEF EpollWait
  <2>3. nfds' = Min({1, MAX_CONNECT})
    BY <1>1, <2>2
  <2> QED BY <2>1, <2>3, MinIs
<1>2. PICK s \in [1 .. 1 -> {f}] :
         /\ events' = [k \in DOMAIN events |-> IF k \in DOMAIN s THEN s[k] ELSE events[k]]
         /\ ready' = {f} \ {s[k] : k \in DOMAIN s}
  BY <1>m DEF EpollWait
<1>4. 1 \in DOMAIN s /\ s[1] = f /\ 1 \in 1 .. MAX_CONNECT
  BY <1>2, ServerFacts
<1>3. nfds' = 1 /\ ready' = {} /\ i' = 1 /\ loop' = "events"
      /\ UNCHANGED <<backlog, conn, registered, clilist, tailindex, queue, task>>
  <2>1. ready' = {}
    BY <1>2, <1>4
  <2> QED BY <2>1, <1>m DEF EpollWait, list, pool
<1>5. events'[1] = f
  BY <1>2, <1>4 DEF Types
<1>6. events' \in [1 .. MAX_CONNECT -> Conns \cup {listenfd, None}]
  BY <1>2 DEF Types
<1>7. queue' = <<>> /\ queue' \in Seq(1 .. nfds') /\ Len(queue') < i'
  BY <1>3 DEF AllRest
<1>8. \A a, b \in 1 .. nfds' : events'[a] = events'[b] => a = b
  BY <1>3
<1>9. nfds' \in 0 .. MAX_CONNECT /\ i' \in 1 .. nfds' + 1
  BY <1>3, ServerFacts
<1>10. Types'
  BY <1>3, <1>6, <1>7, <1>8, <1>9 DEF Types, Known
<1> QED BY <1>3, <1>5, <1>10

\* accept gives the connection the next descriptor and the first half of
\* add_clilist writes it behind the list, where there is room.
LEMMA AcceptStep ==
    ASSUME Types, Known # Conns, tailindex < MAX_CONNECT, Tidy(Open), AllRest, Silent,
           backlog = 1, ready = {}, i = 1, nfds = 1, Accept
    PROVE  Types' /\ Accepting'
<1>1. PICK m \in 0 .. Descriptors : Known = 1 .. m /\ NewFd = m + 1 /\ m < Descriptors
  BY NextFd
<1>2. PICK n : n = m + 1
  OBVIOUS
<1>3. n \in Conns /\ n \notin Known /\ NewFd = n /\ n \in 1 .. Descriptors
  BY <1>1, <1>2, ServerFacts
<1>4. conn[n] = NoConn /\ n \notin Open
  BY <1>3 DEF Known, Open, NoConn
<1>6. tailindex \in 0 .. MAX_CONNECT - 1 /\ DOMAIN clilist = 0 .. MAX_CONNECT - 1
  BY ServerFacts DEF Types
<1>7. /\ backlog' = 0 /\ conn' = [conn EXCEPT ![n].peer = "open"]
      /\ clilist' = [clilist EXCEPT ![tailindex] = n] /\ loop' = "add"
      /\ UNCHANGED <<registered, ready, events, nfds, i, tailindex, queue, task>>
  <2>1. Taken(backlog) = 0
    BY DEF Taken
  <2> QED BY <2>1, <1>3, <1>6 DEF Accept, pool
<1>8. conn'[n] = [peer |-> "open", data |-> 0] /\ \A g \in Conns : g # n => conn'[g] = conn[g]
  BY <1>3, <1>4, <1>7 DEF Types, NoConn
<1>9. conn' \in [Conns -> [peer : {"none", "open", "fin", "reset"}, data : 0 .. MaxData]]
  <2>1. [peer |-> "open", data |-> 0] \in [peer : {"none", "open", "fin", "reset"}, data : 0 .. MaxData]
    BY ServerFacts
  <2>2. [conn[n] EXCEPT !.peer = "open"] = [peer |-> "open", data |-> 0]
    BY <1>4 DEF NoConn
  <2>3. conn' = [conn EXCEPT ![n] = [peer |-> "open", data |-> 0]]
    BY <2>2, <1>7
  <2> QED BY <2>1, <2>3 DEF Types
<1>10. Known' = Known \cup {n}
  <2>1. conn'[n] # NoConn
    BY <1>8 DEF NoConn
  <2>2. \A g \in Conns : conn'[g] # NoConn <=> conn[g] # NoConn \/ g = n
    BY <2>1, <1>8
  <2> QED BY <2>2, <1>3 DEF Known
<1>11. Known' = 1 .. n
  BY <1>1, <1>2, <1>10
<1>12. Open' = Open \cup {n}
  <2>1. \A g \in Conns : conn'[g].peer = "open" <=> conn[g].peer = "open" \/ g = n
    BY <1>8
  <2> QED BY <2>1, <1>3 DEF Open
<1>13. clilist' \in [0 .. MAX_CONNECT - 1 -> Conns \cup {None}]
  BY <1>3, <1>7 DEF Types
<1>14. Types'
  <2>1. \E k \in 0 .. Descriptors : Known' = 1 .. k
    BY <1>3, <1>11
  <2> QED BY <2>1, <1>7, <1>9, <1>13 DEF Types
<1>16. Lists(clilist', tailindex, Open)
  <2>1. Lists(clilist, tailindex, Open) /\ clilist \in [0 .. MAX_CONNECT - 1 -> Conns \cup {None}]
    BY DEF Tidy, Types
  <2>2. tailindex \in Nat
    BY <1>6
  <2> QED BY <2>1, <2>2, <1>7, ListWrite, ServerFacts
<1>17. Open' \ {n} = Open
  BY <1>4, <1>12
<1>18. Tidy(Open \ {n})'
  BY <1>7, <1>16, <1>17 DEF Tidy
<1>19. clilist'[tailindex'] = n
  BY <1>6, <1>7 DEF Types
<1>20. AllRest' /\ Silent'
  BY <1>4, <1>7, <1>8 DEF AllRest, Silent, NoConn
<1> QED BY <1>7, <1>8, <1>11, <1>12, <1>14, <1>18, <1>19, <1>20 DEF Accepting

\* The second half of add_clilist and EPOLL_CTL_ADD.
LEMMA AddStep ==
    ASSUME Types, AllRest, Silent, ready = {}, backlog = 0, i = 1, nfds = 1, loop = "add",
           NEW n \in Open, Known = 1 .. n, conn[n] = [peer |-> "open", data |-> 0],
           tailindex < MAX_CONNECT, clilist[tailindex] = n, Tidy(Open \ {n}), Add
    PROVE  Types' /\ Serving'
<1>1. NewFd - 1 = n
  <2>1. PICK m \in 0 .. Descriptors : Known = 1 .. m /\ Cardinality(Known) = m /\ NewFd = m + 1
    BY NextFd
  <2>2. n \in Nat /\ Cardinality(1 .. n) = n
    <3>1. n \in 1 .. Descriptors
      BY ServerFacts DEF Open
    <3> QED BY <3>1, FS_Interval, ServerFacts
  <2> QED BY <2>1, <2>2
<1>2. /\ tailindex' = tailindex + 1 /\ registered' = registered \cup {n} /\ ready' = {}
      /\ i' = 2 /\ loop' = "events"
      /\ UNCHANGED <<backlog, conn, events, nfds, clilist, queue, task>>
  BY <1>1 DEF Add, pool
<1>3. Open' = Open /\ Known' = Known
  BY <1>2 DEF Open, Known
<1>4. Types'
  <2>1. tailindex' \in 0 .. MAX_CONNECT
    BY <1>2, ServerFacts DEF Types
  <2>2. Len(queue') < i' /\ i' \in 1 .. nfds' + 1
    BY <1>2 DEF Types
  <2> QED BY <2>1, <2>2, <1>2, <1>3 DEF Types
<1>5. Tidy(Open)'
  <2>1. (Open \ {n}) \cup {n} = Open
    OBVIOUS
  <2>2. Lists(clilist, tailindex, Open \ {n}) /\ tailindex \in Nat /\ n \notin Open \ {n}
    BY ServerFacts DEF Tidy, Types
  <2>3. Lists(clilist, tailindex + 1, (Open \ {n}) \cup {n})
    BY <2>2, ListAdd
  <2> QED BY <2>1, <2>3, <1>2, <1>3 DEF Tidy
<1>6. AllRest' /\ Silent' /\ i' > nfds'
  BY <1>2 DEF AllRest, Silent
<1> QED BY <1>2, <1>4, <1>5, <1>6, QuietServesNext

LEMMA AcceptingStep ==
    ASSUME Types, Accepting, [Next]_vars
    PROVE  PoliteInv'
<1>1. AllRest /\ Silent /\ \A t \in Threads : task[t].pc = "rest"
  BY DEF Accepting, AllRest, Resting
<1>2. ~Idle /\ ~(\E f \in Conns : Send(f))
  <2>1. ~Idle
    BY DEF Accepting, Idle, Waiting
  <2>2. ASSUME NEW f \in Conns, Send(f) PROVE FALSE
    <3>1. loop = "wait" /\ ready = {listenfd}
      BY <2>2, ServerFacts DEF Send, Waiting, Accepting
    <3> QED BY <3>1, <2>2, ServerFacts DEF Send
  <2> QED BY <2>1, <2>2
<1>3. ~Clients
  BY <1>2, ServerFacts DEF Clients, Connect, Leave, May
<1>4. ASSUME NEW t \in Threads PROVE ~handle(t)
  BY <1>1 DEF handle, Take, Read, Echo, ToAll, Done, Gone, Shift, Drop, AllRest
<1>5. CASE UNCHANGED vars
  <2>1. UNCHANGED <<backlog, conn, registered, ready, events, nfds, i, loop, clilist, tailindex, queue, task>>
    BY <1>5 DEF vars, kernel, main, list, pool
  <2>2. Types'
    BY <2>1 DEF Types, Known
  <2>3. Accepting'
    BY <2>1 DEF Accepting, Open, Known, Tidy, AllRest, Silent
  <2> QED BY <2>2, <2>3 DEF PoliteInv
<1>6. CASE StartServer
  <2>1. CASE /\ backlog = 1 /\ Known # Conns /\ tailindex < MAX_CONNECT /\ Tidy(Open)
             /\ loop = "wait" /\ ready = {listenfd}
    <3>1. EpollWait
      BY <1>6, <2>1 DEF StartServer, EndOfEvents, Accept, AcceptExit, AcceptOverrun, Add, Dispatch, Handling
    <3>2. /\ Types' /\ nfds' = 1 /\ i' = 1 /\ loop' = "events" /\ ready' = {} /\ events'[1] = listenfd
          /\ UNCHANGED <<backlog, conn, registered, clilist, tailindex, queue, task>>
      BY <3>1, <2>1, <1>1, OneEvent
    <3>3. AllRest' /\ Silent' /\ backlog' = 1 /\ (Known # Conns)' /\ Tidy(Open)'
          /\ (tailindex < MAX_CONNECT)'
      BY <3>2, <2>1, <1>1 DEF AllRest, Silent, Known, Tidy, Open
    <3>4. Accepting'
      BY <3>2, <3>3 DEF Accepting
    <3> QED BY <3>2, <3>4 DEF PoliteInv
  <2>2. CASE /\ backlog = 1 /\ Known # Conns /\ tailindex < MAX_CONNECT /\ Tidy(Open)
             /\ loop = "events" /\ ready = {} /\ i = 1 /\ nfds = 1 /\ events[1] = listenfd
    <3>1. Accept
      <4>1. ~Dispatch /\ ~Add /\ ~EpollWait /\ ~EndOfEvents
        BY <2>2, ServerFacts DEF Dispatch, Add, EpollWait, EndOfEvents, Handling
      <4>2. NewFd \in Conns
        <5>1. PICK n \in 0 .. Descriptors : NewFd = n + 1 /\ (Known # Conns <=> n < Descriptors)
          BY NextFd
        <5> QED BY <5>1, <2>2, ServerFacts
      <4>3. CanAccept /\ tailindex \in DOMAIN clilist
        BY <4>2, <2>2, ServerFacts DEF CanAccept, Types
      <4>4. ~AcceptExit /\ ~AcceptOverrun
        BY <4>3 DEF AcceptExit, AcceptOverrun
      <4> QED BY <4>1, <4>4, <1>6 DEF StartServer
    <3>2. Types' /\ Accepting'
      BY <3>1, <2>2, <1>1, AcceptStep
    <3> QED BY <3>2 DEF PoliteInv
  <2>3. CASE /\ loop = "add" /\ ready = {} /\ backlog = 0 /\ i = 1 /\ nfds = 1
             /\ \E n \in Open :
                   /\ Known = 1 .. n /\ conn[n] = [peer |-> "open", data |-> 0]
                   /\ tailindex < MAX_CONNECT /\ clilist[tailindex] = n /\ Tidy(Open \ {n})
    <3>1. Add
      BY <1>6, <2>3 DEF StartServer, EndOfEvents, EpollWait, Accept, AcceptExit, AcceptOverrun, Dispatch, Handling
    <3>2. PICK n \in Open :
             /\ Known = 1 .. n /\ conn[n] = [peer |-> "open", data |-> 0]
             /\ tailindex < MAX_CONNECT /\ clilist[tailindex] = n /\ Tidy(Open \ {n})
      BY <2>3
    <3>3. Types' /\ Serving'
      BY <3>1, <3>2, <2>3, <1>1, AddStep
    <3> QED BY <3>3 DEF PoliteInv
  <2> QED BY <2>1, <2>2, <2>3 DEF Accepting
<1> QED BY <1>3, <1>4, <1>5, <1>6 DEF Next

-----------------------------------------------------------------------------
(* The steps while a client who left is removed.                           *)

\* Steps of one thread beside resting ones.
LEMMA AloneFacts ==
    ASSUME Types, NEW t \in Threads, NEW where, Alone(t, where), "rest" \notin where
    PROVE  /\ task[t].pc \in where /\ task[t] \in Work /\ task[t].arg = 1 /\ queue = <<>>
           /\ \A u \in Threads : u # t => task[u] = Resting /\ task[u].pc = "rest"
           /\ ~Waiting
BY DEF Types, Alone, Resting, Waiting

LEMMA AloneMoves ==
    ASSUME Types, NEW t \in Threads, NEW where, Alone(t, where), "rest" \notin where,
           NEW to \in {"gone", "shift", "drop"},
           task' = [task EXCEPT ![t].pc = to], queue' = queue
    PROVE  Alone(t, {to})' /\ task' \in [Threads -> {Resting} \cup Work]
<1>1. task[t] \in Work /\ task[t].arg = 1 /\ queue = <<>> /\ \A u \in Threads \ {t} : task[u] = Resting
  BY AloneFacts
<1>2. [task[t] EXCEPT !.pc = to] \in Work
  BY <1>1 DEF Work
<1>3. [task[t] EXCEPT !.pc = to].pc = to /\ [task[t] EXCEPT !.pc = to].arg = 1
  BY <1>1 DEF Work
<1>4. /\ task'[t] = [task[t] EXCEPT !.pc = to] /\ \A u \in Threads \ {t} : task'[u] = task[u]
      /\ task' \in [Threads -> {Resting} \cup Work]
  BY <1>2 DEF Types
<1> QED BY <1>1, <1>3, <1>4 DEF Alone

\* Nobody but the thread with the event does anything, but for the loop that
\* goes back to epoll_wait.
LEMMA LeavingClients ==
    ASSUME Types, NEW f \in Conns, Leaving(f)
    PROVE  ~Clients /\ (EpollWait => Waiting)
<1>1. ~Idle
  BY DEF Leaving, Idle, Waiting, AllRest, Alone, Resting
<1>2. ASSUME NEW g \in Conns, Send(g) PROVE FALSE
  <2>1. Waiting
    BY <1>2, ServerFacts DEF Send
  <2>2. ready = {f}
    BY <2>1 DEF Leaving, Waiting, AllRest, Alone, Resting
  <2>3. conn[f].data > 0
    BY <1>2, <2>2, ServerFacts DEF Send
  <2> QED BY <2>3 DEF Leaving, Silent
<1>3. ~Clients
  BY <1>1, <1>2, ServerFacts DEF Clients, Connect, Leave, May
<1> QED BY <1>3 DEF EpollWait, Leaving

LEMMA LeavingWaits ==
    ASSUME Types, NEW f \in Conns, Silent, conn[f].peer \in {"fin", "reset"}, backlog = 0,
           Waiting, ready = {f}, Tidy(Open \cup {f}), Next
    PROVE  PoliteInv'
<1>1. Leaving(f) /\ AllRest /\ loop = "wait" /\ \A t \in Threads : task[t].pc = "rest"
  BY WaitingFacts DEF Leaving
<1>2. \A t \in Threads : ~handle(t)
  BY <1>1 DEF handle, Take, Read, Echo, ToAll, Done, Gone, Shift, Drop, AllRest
<1>3. EpollWait
  BY <1>1, <1>2, LeavingClients DEF Next, StartServer, EndOfEvents, Accept, AcceptExit, AcceptOverrun, Add, Dispatch, Handling
<1>4. /\ Types' /\ nfds' = 1 /\ i' = 1 /\ loop' = "events" /\ ready' = {} /\ events'[1] = f
      /\ UNCHANGED <<backlog, conn, registered, clilist, tailindex, queue, task>>
  BY <1>1, <1>3, OneEvent
<1>5. AllRest' /\ Silent' /\ backlog' = 0 /\ Tidy(Open \cup {f})' /\ conn'[f].peer \in {"fin", "reset"}
  BY <1>1, <1>4 DEF AllRest, Silent, Tidy, Open
<1>6. Leaving(f)'
  BY <1>4, <1>5 DEF Leaving
<1> QED BY <1>4, <1>6 DEF PoliteInv

LEMMA LeavingDispatched ==
    ASSUME Types, NEW f \in Conns, Silent, conn[f].peer \in {"fin", "reset"}, backlog = 0,
           ready = {}, nfds = 1, events[1] = f, loop = "events", i = 1, AllRest,
           Tidy(Open \cup {f}), Next
    PROVE  PoliteInv'
<1>1. Leaving(f) /\ ~Waiting /\ \A t \in Threads : task[t].pc = "rest" /\ task[t] = Resting
  BY DEF Leaving, Waiting, AllRest, Resting
<1>2. \A t \in Threads : ~handle(t)
  BY <1>1 DEF handle, Take, Read, Echo, ToAll, Done, Gone, Shift, Drop, AllRest
<1>3. Dispatch
  <2>1. ~Accept /\ ~AcceptExit /\ ~AcceptOverrun /\ ~EndOfEvents /\ ~Add /\ ~EpollWait
    BY ServerFacts DEF Accept, AcceptExit, AcceptOverrun, EndOfEvents, Add, EpollWait, Handling
  <2> QED BY <2>1, <1>1, <1>2, LeavingClients DEF Next, StartServer
<1>4. /\ queue' = Append(<<>>, 1) /\ i' = 2
      /\ UNCHANGED <<backlog, conn, registered, ready, events, nfds, loop, clilist, tailindex, task>>
  <2>1. queue = <<>> /\ Enqueue(queue) = Append(queue, i)
    BY EnqueueRoom DEF AllRest
  <2> QED BY <2>1, <1>3 DEF Dispatch, kernel, list
<1>5. queue' = <<1>> /\ queue' \in Seq(1 .. nfds') /\ Len(queue') < i'
  BY <1>4
<1>6. Types'
  BY <1>4, <1>5, SMTT(30) DEF Types, Known
<1>7. Silent' /\ Tidy(Open \cup {f})' /\ conn'[f].peer \in {"fin", "reset"}
  BY <1>4 DEF Silent, Tidy, Open
<1>8. Leaving(f)'
  BY <1>1, <1>4, <1>5, <1>7 DEF Leaving
<1> QED BY <1>6, <1>8 DEF PoliteInv

\* In the rest the loop can only go back to epoll_wait.
LEMMA LeavingLoop ==
    ASSUME Types, NEW f \in Conns, Leaving(f), ready = {}, i = 2, nfds = 1, StartServer
    PROVE  /\ loop' = "wait"
           /\ UNCHANGED <<backlog, conn, registered, ready, events, nfds, i, clilist, tailindex, queue, task>>
<1>1. EndOfEvents
  BY DEF StartServer, EpollWait, Accept, AcceptExit, AcceptOverrun, Add, Dispatch, Handling, Leaving
<1> QED BY <1>1 DEF EndOfEvents, kernel, list, pool

LEMMA LeavingStays ==
    ASSUME Types, NEW f \in Conns, Leaving(f), ready = {}, i = 2, loop' \in {"wait", "events"},
           UNCHANGED <<backlog, conn, registered, ready, events, nfds, i, clilist, tailindex, queue, task>>
    PROVE  PoliteInv'
<1>1. Types'
  BY DEF Types, Known
<1>2. Open' = Open /\ Silent'
  BY DEF Open, Leaving, Silent
<1>3. \/ queue = <<1>> /\ (\A t \in Threads : task[t] = Resting) /\ Tidy(Open \cup {f})
      \/ \E t \in Threads :
            \/ Alone(t, {"read", "gone"}) /\ Tidy(Open \cup {f})
            \/ /\ Alone(t, {"shift"}) /\ registered = Open \cup {listenfd}
               /\ Lists(clilist, tailindex, Open \cup {f})
            \/ /\ Alone(t, {"drop"}) /\ registered = Open \cup {listenfd}
               /\ tailindex > 0 /\ Lists(clilist, tailindex - 1, Open)
  BY DEF Leaving
<1>4. (\/ queue = <<1>> /\ (\A t \in Threads : task[t] = Resting) /\ Tidy(Open \cup {f})
       \/ \E t \in Threads :
             \/ Alone(t, {"read", "gone"}) /\ Tidy(Open \cup {f})
             \/ /\ Alone(t, {"shift"}) /\ registered = Open \cup {listenfd}
                /\ Lists(clilist, tailindex, Open \cup {f})
             \/ /\ Alone(t, {"drop"}) /\ registered = Open \cup {listenfd}
                /\ tailindex > 0 /\ Lists(clilist, tailindex - 1, Open))'
  BY <1>2, <1>3 DEF Tidy, Alone
<1>5. /\ conn'[f].peer \in {"fin", "reset"} /\ backlog' = 0 /\ ready' = {} /\ i' = 2
      /\ nfds' = 1 /\ events'[1] = f
  BY DEF Leaving
<1>6. Leaving(f)'
  BY <1>2, <1>4, <1>5 DEF Leaving
<1> QED BY <1>1, <1>6 DEF PoliteInv

LEMMA LeavingQueued ==
    ASSUME Types, NEW f \in Conns, Silent, conn[f].peer \in {"fin", "reset"}, backlog = 0,
           loop \in {"wait", "events"}, ready = {}, nfds = 1, events[1] = f, i = 2, queue = << 1 >>,
           \A t \in Threads : task[t] = Resting, Tidy(Open \cup {f}), Next
    PROVE  PoliteInv'
<1>1. Leaving(f) /\ ~Waiting /\ \A t \in Threads : task[t].pc = "rest"
  BY DEF Leaving, Waiting, Resting
<1>2. CASE StartServer
  BY <1>1, <1>2, LeavingLoop, LeavingStays
<1>3. ASSUME NEW t \in Threads, handle(t) PROVE PoliteInv'
  <2>1. Take(t)
    BY <1>1, <1>3 DEF handle, Read, Echo, ToAll, Done, Gone, Shift, Drop
  <2>2. Head(<<1>>) = 1 /\ Tail(<<1>>) = <<>>
    OBVIOUS
  <2>3. /\ queue' = <<>> /\ task' = [task EXCEPT ![t] = [pc |-> "read", arg |-> 1, n |-> 0]]
        /\ UNCHANGED <<backlog, conn, registered, ready, events, nfds, i, loop, clilist, tailindex>>
    BY <2>1, <2>2 DEF Take, kernel, main, list
  <2>4. /\ task'[t] = [pc |-> "read", arg |-> 1, n |-> 0]
        /\ \A u \in Threads \ {t} : task'[u] = Resting
    BY <2>3 DEF Types
  <2>5. Types'
    <3>1. [pc |-> "read", arg |-> 1, n |-> 0] \in Work
      BY ServerFacts DEF Work
    <3>2. task' \in [Threads -> {Resting} \cup Work]
      BY <3>1, <2>3 DEF Types
    <3>3. queue' \in Seq(1 .. nfds') /\ Len(queue') < i'
      BY <2>3
    <3> QED BY <3>2, <3>3, <2>3 DEF Types, Known
  <2>6. Alone(t, {"read", "gone"})'
    BY <2>3, <2>4 DEF Alone
  <2>7. Silent' /\ Tidy(Open \cup {f})' /\ conn'[f].peer \in {"fin", "reset"}
    BY <2>3 DEF Silent, Tidy, Open
  <2>8. Leaving(f)'
    BY <2>3, <2>6, <2>7 DEF Leaving
  <2> QED BY <2>5, <2>8 DEF PoliteInv
<1> QED BY <1>1, <1>2, <1>3, LeavingClients DEF Next

\* The handler of a client who left: its read finds the end of the stream or an
\* error, and the client is taken out of epoll and out of the list.
LEMMA LeavingHandled ==
    ASSUME Types, NEW f \in Conns, Silent, conn[f].peer \in {"fin", "reset"}, backlog = 0,
           loop \in {"wait", "events"}, ready = {}, nfds = 1, events[1] = f, i = 2, Leaving(f),
           NEW t \in Threads,
           \/ Alone(t, {"read", "gone"}) /\ Tidy(Open \cup {f})
           \/ /\ Alone(t, {"shift"}) /\ registered = Open \cup {listenfd}
              /\ Lists(clilist, tailindex, Open \cup {f})
           \/ /\ Alone(t, {"drop"}) /\ registered = Open \cup {listenfd}
              /\ tailindex > 0 /\ Lists(clilist, tailindex - 1, Open),
           Next
    PROVE  PoliteInv'
<1>1. /\ ~Waiting /\ queue = <<>> /\ task[t].arg = 1 /\ task[t] \in Work
      /\ \A u \in Threads : u # t => task[u].pc = "rest" /\ task[u] = Resting
      /\ task[t].pc \in {"read", "gone", "shift", "drop"}
  BY AloneFacts
<1>2. CASE StartServer
  BY <1>2, LeavingLoop, LeavingStays
<1>3. ASSUME NEW u \in Threads, handle(u) PROVE handle(t)
  <2>1. CASE u = t
    BY <2>1, <1>3
  <2>2. CASE u # t
    BY <2>2, <1>1, <1>3 DEF handle, Take, Read, Echo, ToAll, Done, Gone, Shift, Drop
  <2> QED BY <2>1, <2>2
<1>f. Fd(t) = f /\ f \notin Open /\ f # listenfd
  BY <1>1, ServerFacts DEF Fd, Open
<1>4. CASE Read(t)
  <2>1. Alone(t, {"read", "gone"}) /\ Tidy(Open \cup {f})
    BY <1>4 DEF Read, Alone
  <2>2. /\ task' = [task EXCEPT ![t].pc = "gone"]
        /\ UNCHANGED <<backlog, conn, registered, ready, events, nfds, i, loop, clilist, tailindex, queue>>
    BY <1>4, <1>f DEF Read, Goto, Silent, main, list
  <2>3. Alone(t, {"gone"})' /\ task' \in [Threads -> {Resting} \cup Work]
    BY <2>1, <2>2, AloneMoves
  <2>4. Types'
    BY <2>2, <2>3 DEF Types, Known
  <2>5. Alone(t, {"read", "gone"})'
    BY <2>3 DEF Alone
  <2>6. Silent' /\ Tidy(Open \cup {f})' /\ conn'[f].peer \in {"fin", "reset"}
    BY <2>1, <2>2 DEF Silent, Tidy, Open
  <2>7. Leaving(f)'
    BY <2>2, <2>5, <2>6 DEF Leaving
  <2> QED BY <2>4, <2>7 DEF PoliteInv
<1>5. CASE Gone(t)
  <2>1. Alone(t, {"read", "gone"}) /\ Tidy(Open \cup {f})
    BY <1>5 DEF Gone, Alone
  <2>2. /\ task' = [task EXCEPT ![t].pc = "shift"]
        /\ registered' = registered \ {f} /\ ready' = {}
        /\ UNCHANGED <<backlog, conn, events, nfds, i, loop, clilist, tailindex, queue>>
    BY <1>5, <1>f DEF Gone, Goto, op_delete_event, main, list
  <2>3. Alone(t, {"shift"})' /\ task' \in [Threads -> {Resting} \cup Work]
    BY <2>1, <2>2, AloneMoves
  <2>4. Types'
    BY <2>2, <2>3 DEF Types, Known
  <2>5. registered' = Open \cup {listenfd} /\ Open' = Open
    BY <2>1, <2>2, <1>f DEF Tidy, Open
  <2>6. Lists(clilist, tailindex, Open \cup {f})'
    BY <2>1, <2>2, <2>5 DEF Tidy
  <2>7. Silent' /\ conn'[f].peer \in {"fin", "reset"}
    BY <2>2 DEF Silent
  <2>8. Leaving(f)'
    BY <2>2, <2>3, <2>5, <2>6, <2>7 DEF Leaving
  <2> QED BY <2>4, <2>8 DEF PoliteInv
<1>6. CASE Shift(t)
  <2>1. /\ Alone(t, {"shift"}) /\ registered = Open \cup {listenfd}
        /\ Lists(clilist, tailindex, Open \cup {f})
    BY <1>6 DEF Shift, Alone
  <2>2. /\ task' = [task EXCEPT ![t].pc = "drop"] /\ clilist' = Shifted(clilist, f)
        /\ UNCHANGED <<backlog, conn, registered, ready, events, nfds, i, loop, tailindex, queue>>
    BY <1>6, <1>f DEF Shift, Goto, kernel, main
  <2>3. Alone(t, {"drop"})' /\ task' \in [Threads -> {Resting} \cup Work]
    BY <2>1, <2>2, AloneMoves
  <2>4. /\ clilist' \in [0 .. MAX_CONNECT - 1 -> Conns \cup {None}]
        /\ tailindex > 0 /\ Lists(clilist', tailindex - 1, Open)
    <3>1. clilist \in [0 .. MAX_CONNECT - 1 -> Conns \cup {None}] /\ tailindex \in 0 .. MAX_CONNECT
          /\ MAX_CONNECT \in Nat
      BY ServerFacts DEF Types
    <3> QED BY <3>1, <2>1, <2>2, <1>f, ListRemove
  <2>5. Types'
    BY <2>2, <2>3, <2>4 DEF Types, Known
  <2>6. Open' = Open /\ Silent' /\ conn'[f].peer \in {"fin", "reset"}
    BY <2>2 DEF Open, Silent
  <2>7. Leaving(f)'
    BY <2>1, <2>2, <2>3, <2>4, <2>6 DEF Leaving
  <2> QED BY <2>5, <2>7 DEF PoliteInv
<1>7. CASE Drop(t)
  <2>1. /\ Alone(t, {"drop"}) /\ registered = Open \cup {listenfd}
        /\ tailindex > 0 /\ Lists(clilist, tailindex - 1, Open)
    BY <1>7 DEF Drop, Alone
  <2>2. /\ task' = [task EXCEPT ![t] = Resting] /\ tailindex' = tailindex - 1
        /\ UNCHANGED <<backlog, conn, registered, ready, events, nfds, i, loop, clilist, queue>>
    BY <1>7 DEF Drop, Rest, kernel, main
  <2>3. AllRest'
    BY <2>2, <1>1 DEF AllRest, Types
  <2>4. Types'
    <3>1. tailindex' \in 0 .. MAX_CONNECT
      BY <2>1, <2>2, ServerFacts DEF Types
    <3>2. task' \in [Threads -> {Resting} \cup Work]
      BY <2>2 DEF Types
    <3> QED BY <3>1, <3>2, <2>2 DEF Types, Known
  <2>5. Open' = Open /\ Silent'
    BY <2>2 DEF Open, Silent
  <2>6. Tidy(Open)'
    BY <2>1, <2>2, <2>5 DEF Tidy
  <2>7. Serving'
    BY <2>2, <2>3, <2>4, <2>5, <2>6, QuietServesNext
  <2> QED BY <2>4, <2>7 DEF PoliteInv
<1>8. ~Take(t) /\ ~Echo(t) /\ ~ToAll(t) /\ ~Done(t)
  BY <1>1 DEF Take, Echo, ToAll, Done
<1> QED BY <1>1, <1>2, <1>3, <1>4, <1>5, <1>6, <1>7, <1>8, LeavingClients DEF Next, handle

LEMMA LeavingStep ==
    ASSUME Types, NEW f \in Conns, Leaving(f), [Next]_vars
    PROVE  PoliteInv'
<1>1. CASE UNCHANGED vars
  <2>1. UNCHANGED <<backlog, conn, registered, ready, events, nfds, i, loop, clilist, tailindex, queue, task>>
    BY <1>1 DEF vars, kernel, main, list, pool
  <2>2. Types'
    BY <2>1 DEF Types, Known
  <2>3. Leaving(f)'
    BY <2>1 DEF Leaving, Open, Tidy, AllRest, Silent, Waiting, Alone
  <2> QED BY <2>2, <2>3 DEF PoliteInv
<1>2. CASE Next
  <2>1. Silent /\ conn[f].peer \in {"fin", "reset"} /\ backlog = 0 /\ loop \in {"wait", "events"}
    BY DEF Leaving
  <2>2. CASE Waiting /\ ready = {f} /\ Tidy(Open \cup {f})
    BY <1>2, <2>1, <2>2, LeavingWaits
  <2>3. CASE /\ ready = {} /\ nfds = 1 /\ events[1] = f
             /\ loop = "events" /\ i = 1 /\ AllRest /\ Tidy(Open \cup {f})
    BY <1>2, <2>1, <2>3, LeavingDispatched
  <2>4. CASE /\ ready = {} /\ nfds = 1 /\ events[1] = f /\ i = 2
             /\ queue = <<1>> /\ (\A t \in Threads : task[t] = Resting) /\ Tidy(Open \cup {f})
    BY <1>2, <2>1, <2>4, LeavingQueued
  <2>5. ASSUME NEW t \in Threads, ready = {}, nfds = 1, events[1] = f, i = 2,
               \/ Alone(t, {"read", "gone"}) /\ Tidy(Open \cup {f})
               \/ /\ Alone(t, {"shift"}) /\ registered = Open \cup {listenfd}
                  /\ Lists(clilist, tailindex, Open \cup {f})
               \/ /\ Alone(t, {"drop"}) /\ registered = Open \cup {listenfd}
                  /\ tailindex > 0 /\ Lists(clilist, tailindex - 1, Open)
        PROVE  PoliteInv'
    BY <1>2, <2>1, <2>5, LeavingHandled
  <2> QED BY <2>2, <2>3, <2>4, <2>5 DEF Leaving
<1> QED BY <1>1, <1>2

LEMMA PoliteNext == PoliteInv /\ [Next]_vars => PoliteInv'
BY ServeStep, AcceptingStep, LeavingStep DEF PoliteInv

\* What polite clients may rely on.
LEMMA PoliteLists == PoliteInv => TypeOK /\ ListMatches /\ AcceptFinds
<1> SUFFICES ASSUME PoliteInv PROVE TypeOK /\ ListMatches /\ AcceptFinds
  OBVIOUS
<1>0. Types
  BY DEF PoliteInv
<1>1. backlog \in 0 .. Descriptors + 1 /\ loop \in {"wait", "events", "add"}
  <2>1. 0 \in 0 .. Descriptors + 1 /\ 1 \in 0 .. Descriptors + 1
    BY ServerFacts
  <2>2. CASE Serving
    BY <2>1, <2>2 DEF Serving
  <2>3. CASE Accepting
    BY <2>1, <2>3 DEF Accepting
  <2>4. ASSUME NEW f \in Conns, Leaving(f)
        PROVE  backlog \in 0 .. Descriptors + 1 /\ loop \in {"wait", "events", "add"}
    BY <2>1, <2>4 DEF Leaving
  <2> QED BY <2>2, <2>3, <2>4 DEF PoliteInv
<1>2. registered \subseteq Conns \cup {listenfd} /\ ready \subseteq registered
  <2>1. CASE Serving
    BY <2>1 DEF Serving, Tidy, Open
  <2>2. CASE Accepting
    BY <2>2 DEF Accepting, Tidy, Open
  <2>3. ASSUME NEW f \in Conns, Leaving(f)
        PROVE  registered \subseteq Conns \cup {listenfd} /\ ready \subseteq registered
    BY <2>3 DEF Leaving, Tidy, Open
  <2> QED BY <2>1, <2>2, <2>3 DEF PoliteInv
<1>3. TypeOK
  <2>1. /\ i \in 1 .. MAX_CONNECT + 1 /\ \A k \in 1 .. nfds : k \in 1 .. MAX_CONNECT
    BY <1>0, ServerFacts DEF Types
  <2>2. Len(queue) <= QUEUE
    BY <1>0, ServerFacts DEF Types
  <2>3. \A k \in DOMAIN queue : queue[k] \in DOMAIN events
    <3>1. \A k \in 1 .. Len(queue) : queue[k] \in 1 .. nfds
      BY <1>0, Entry DEF Types
    <3>2. DOMAIN queue = 1 .. Len(queue) /\ DOMAIN events = 1 .. MAX_CONNECT
      BY <1>0 DEF Types
    <3> QED BY <3>1, <3>2, <2>1
  <2>4. \A t \in Threads : task[t].pc \in {"rest", "read", "echo", "all", "gone", "shift", "drop"}
    BY <1>0 DEF Types, Work, Resting
  <2> QED BY <1>0, <1>1, <1>2, <2>1, <2>2, <2>3, <2>4 DEF TypeOK, Types
<1>4. ListMatches
  <2> SUFFICES ASSUME Idle
               PROVE  /\ Listed = registered \ {listenfd} /\ Listed = Open
                      /\ Cardinality(Listed) = tailindex
    BY DEF ListMatches, Open
  <2>1. Serving
    <3>1. ~Accepting
      BY DEF Idle, Waiting, Accepting
    <3>2. \A f \in Conns : ~Leaving(f)
      BY DEF Idle, Waiting, Leaving, AllRest, Alone, Resting
    <3> QED BY <3>1, <3>2 DEF PoliteInv
  <2>2. Lists(clilist, tailindex, Open) /\ registered = Open \cup {listenfd}
    BY <2>1 DEF Serving, Tidy
  <2>3. /\ DOMAIN clilist = 0 .. MAX_CONNECT - 1 /\ tailindex \in 0 .. MAX_CONNECT /\ tailindex \in Nat
    BY <1>0, ServerFacts DEF Types
  <2>4. {m \in DOMAIN clilist : m < tailindex} = 0 .. tailindex - 1
    BY <2>3, ServerFacts
  <2>5. Listed = Open
    BY <2>2, <2>4 DEF Listed, Lists
  <2>6. Cardinality(Open) = tailindex
    BY <2>2, <2>3, ListCount
  <2>7. listenfd \notin Open
    BY ServerFacts DEF Open
  <2> QED BY <2>2, <2>5, <2>6, <2>7
<1>5. AcceptFinds
  <2> SUFFICES ASSUME Handling(listenfd) PROVE backlog > 0
    BY DEF AcceptFinds
  <2>1. ~Serving
    BY <1>0, ServeNoAccept
  <2>2. ASSUME NEW f \in Conns, Leaving(f) PROVE FALSE
    <3>1. loop = "events" /\ i <= nfds /\ events[i] = listenfd
      BY DEF Handling
    <3>2. ~Waiting
      BY <3>1 DEF Waiting
    <3> QED BY <2>2, <3>1, <3>2, ServerFacts DEF Leaving
  <2>3. Accepting
    BY <2>1, <2>2 DEF PoliteInv
  <2> QED BY <2>3 DEF Accepting, Handling
<1> QED BY <1>3, <1>4, <1>5

-----------------------------------------------------------------------------
(* Busy clients: the listening socket alone.                               *)

BusyConns == 1 .. BusyDescriptors
BusyKnown == {f \in BusyConns : conn[f] # NoConn}

\* There is a connection for each edge and for each event of the listening
\* socket, which has one event at most.
BusyInv ==
    /\ conn \in [BusyConns -> [peer : {"none", "open", "fin", "reset"}, data : Int]]
    /\ backlog \in Nat /\ backlog + Cardinality(BusyKnown) <= BusyDescriptors + 1
    /\ ready \subseteq registered /\ registered \subseteq 0 .. BusyDescriptors
    /\ DOMAIN events = 1 .. BusyConnect /\ loop \in {"wait", "events", "add", "exit", "overrun"}
    /\ listenfd \in ready => backlog > 0
    /\ loop # "wait" =>
          /\ nfds \in 0 .. BusyConnect /\ i \in 1 .. nfds + 1
          /\ \A a, b \in 1 .. nfds : events[a] = events[b] => a = b
    /\ loop = "events" =>
          \A k \in i .. nfds : events[k] = listenfd => backlog > IF listenfd \in ready THEN 1 ELSE 0
    /\ loop = "add" =>
          i <= nfds /\ events[i] = listenfd /\ \E f \in BusyConns : conn[f].peer # "none"

LEMMA BusyCardinality == \A S : Busy!Cardinality(S) = Cardinality(S)
BY DEF Busy!Cardinality, Cardinality, Busy!IsFiniteSet, IsFiniteSet

LEMMA BusyFacts ==
    /\ BusyDescriptors \in Nat /\ BusyConnect \in Nat /\ listenfd = 0 /\ Busy!listenfd = 0 /\ Busy!Conns = BusyConns
    /\ Busy!NoConn = NoConn /\ IsFiniteSet(BusyConns)
    /\ \A S \in SUBSET BusyConns : IsFiniteSet(S) /\ Cardinality(S) \in 0 .. BusyDescriptors
<1>1. BusyDescriptors \in Nat /\ BusyConnect \in Nat
  BY ClientsAssumption
<1>2. IsFiniteSet(1 .. BusyDescriptors) /\ Cardinality(1 .. BusyDescriptors) = BusyDescriptors
  BY <1>1, FS_Interval
<1>3. ASSUME NEW S \in SUBSET BusyConns PROVE IsFiniteSet(S) /\ Cardinality(S) \in 0 .. BusyDescriptors
  <2>1. IsFiniteSet(S) /\ Cardinality(S) <= BusyDescriptors
    BY <1>2, FS_Subset DEF BusyConns
  <2>2. Cardinality(S) \in Nat
    BY <2>1, FS_CardinalityType
  <2> QED BY <2>1, <2>2, <1>1
<1> QED BY <1>1, <1>2, <1>3 DEF listenfd, Busy!listenfd, Busy!Conns, BusyConns, NoConn, Busy!NoConn

LEMMA BusyCount == Busy!Cardinality({f \in Busy!Conns : conn[f] # Busy!NoConn}) = Cardinality(BusyKnown)
<1>1. {f \in Busy!Conns : conn[f] # Busy!NoConn} = BusyKnown
  BY BusyFacts DEF BusyKnown
<1> QED BY <1>1, BusyCardinality

LEMMA BusyInit == Busy!Init => BusyInv
<1> SUFFICES ASSUME Busy!Init PROVE BusyInv
  OBVIOUS
<1>1. conn = [f \in BusyConns |-> NoConn]
  BY BusyFacts DEF Busy!Init
<1>2. BusyKnown = {} /\ Cardinality({}) = 0
  BY <1>1, FS_EmptySet DEF BusyKnown
<1>3. conn \in [BusyConns -> [peer : {"none", "open", "fin", "reset"}, data : Int]]
  BY <1>1 DEF NoConn
<1>4. 0 \in 0 .. BusyDescriptors
  BY BusyFacts
<1> QED BY <1>2, <1>3, <1>4, BusyFacts DEF Busy!Init, BusyInv

\* What the handlers do: connections are known as before or fewer, descriptors
\* are removed from the set.
LEMMA BusyHandle ==
    ASSUME BusyInv, NEW t, Busy!handle(t)
    PROVE  /\ UNCHANGED <<backlog, events, nfds, i, loop>>
           /\ registered' \subseteq registered /\ ready' \subseteq ready /\ ready' \subseteq registered'
           /\ \/ conn' = conn
              \/ \E f, n : /\ conn' = [conn EXCEPT ![f].data = @ - n]
                           /\ f \in BusyConns => n \in Int /\ (conn[f].data = 0 => n = 0)
<1> USE DEF BusyInv
<1>1. CASE Busy!Take(t)
  BY <1>1 DEF Busy!Take, Busy!kernel, Busy!main, Busy!list
<1>2. CASE Busy!Read(t)
  <2>1. /\ UNCHANGED <<backlog, events, nfds, i, loop, registered, ready>>
        /\ \/ conn' = conn
           \/ conn' = [conn EXCEPT ![Busy!Fd(t)].data = @ - Busy!Count(conn[Busy!Fd(t)].data)]
    BY <1>2 DEF Busy!Read, Busy!main, Busy!list
  <2>2. PICK f : f = Busy!Fd(t)
    OBVIOUS
  <2>3. PICK n : n = Busy!Count(conn[f].data)
    OBVIOUS
  <2>4. f \in BusyConns => n \in Int /\ (conn[f].data = 0 => n = 0)
    BY <2>3 DEF Busy!Count
  <2> QED BY <2>1, <2>2, <2>3, <2>4
<1>3. CASE Busy!Echo(t)
  BY <1>3 DEF Busy!Echo, Busy!kernel, Busy!main, Busy!list
<1>4. CASE Busy!ToAll(t)
  <2>1. (UNCHANGED <<registered, ready>>) \/ \E f : registered' = registered \ {f} /\ ready' = ready \ {f}
    BY <1>4 DEF Busy!ToAll
  <2> QED BY <2>1, <1>4 DEF Busy!ToAll, Busy!main
<1>5. CASE Busy!Done(t)
  BY <1>5 DEF Busy!Done, Busy!kernel, Busy!main, Busy!list
<1>6. CASE Busy!Gone(t)
  BY <1>6 DEF Busy!Gone, Busy!op_delete_event, Busy!main, Busy!list
<1>7. CASE Busy!Shift(t)
  BY <1>7 DEF Busy!Shift, Busy!kernel, Busy!main
<1>8. CASE Busy!Drop(t)
  BY <1>8 DEF Busy!Drop, Busy!kernel, Busy!main
<1> QED BY <1>1, <1>2, <1>3, <1>4, <1>5, <1>6, <1>7, <1>8 DEF Busy!handle

\* A connection whose unread data changes stays what it is.
LEMMA BusyRecord ==
    ASSUME BusyInv, NEW f \in BusyConns, NEW r \in [peer : {"none", "open", "fin", "reset"}, data : Int],
           conn' = [conn EXCEPT ![f] = r], r # NoConn => conn[f] # NoConn,
           conn[f].peer # "none" => r.peer # "none"
    PROVE  /\ conn' \in [BusyConns -> [peer : {"none", "open", "fin", "reset"}, data : Int]]
           /\ Cardinality(BusyKnown') <= Cardinality(BusyKnown) /\ Cardinality(BusyKnown') \in Nat
           /\ (\E g \in BusyConns : conn[g].peer # "none") => \E g \in BusyConns : conn'[g].peer # "none"
<1>1. conn'[f] = r /\ \A g \in BusyConns : g # f => conn'[g] = conn[g]
  BY DEF BusyInv
<1>2. conn' \in [BusyConns -> [peer : {"none", "open", "fin", "reset"}, data : Int]]
  BY DEF BusyInv
<1>3. BusyKnown' \subseteq BusyKnown /\ BusyKnown \subseteq BusyConns
  BY <1>1 DEF BusyKnown
<1>4. IsFiniteSet(BusyKnown) /\ Cardinality(BusyKnown') \in Nat
  BY <1>3, BusyFacts
<1>5. Cardinality(BusyKnown') <= Cardinality(BusyKnown)
  BY <1>3, <1>4, FS_Subset
<1>6. \A g \in BusyConns : conn[g].peer # "none" => conn'[g].peer # "none"
  BY <1>1
<1> QED BY <1>2, <1>4, <1>5, <1>6

LEMMA BusyHandleKeeps ==
    ASSUME BusyInv, NEW t, Busy!handle(t)
    PROVE  BusyInv'
<1>1. /\ UNCHANGED <<backlog, events, nfds, i, loop>>
      /\ registered' \subseteq registered /\ ready' \subseteq ready /\ ready' \subseteq registered'
  BY BusyHandle
<1>c. Cardinality(BusyKnown) \in Nat
  BY BusyFacts DEF BusyKnown
<1>2. /\ conn' \in [BusyConns -> [peer : {"none", "open", "fin", "reset"}, data : Int]]
      /\ Cardinality(BusyKnown') <= Cardinality(BusyKnown) /\ Cardinality(BusyKnown') \in Nat
      /\ (\E g \in BusyConns : conn[g].peer # "none") => \E g \in BusyConns : conn'[g].peer # "none"
  <2>1. CASE conn' = conn
    <3>1. BusyKnown' = BusyKnown
      BY <2>1 DEF BusyKnown
    <3> QED BY <2>1, <3>1, <1>c DEF BusyInv
  <2>2. ASSUME NEW f, NEW n, conn' = [conn EXCEPT ![f].data = @ - n], f \notin BusyConns
        PROVE  conn' = conn
    BY <2>2 DEF BusyInv
  <2>3. ASSUME NEW f \in BusyConns, NEW n \in Int, conn' = [conn EXCEPT ![f].data = @ - n],
               conn[f].data = 0 => n = 0
        PROVE  /\ conn' \in [BusyConns -> [peer : {"none", "open", "fin", "reset"}, data : Int]]
               /\ Cardinality(BusyKnown') <= Cardinality(BusyKnown) /\ Cardinality(BusyKnown') \in Nat
               /\ (\E g \in BusyConns : conn[g].peer # "none") => \E g \in BusyConns : conn'[g].peer # "none"
    <3>1. PICK r : r = [conn[f] EXCEPT !.data = @ - n]
      OBVIOUS
    <3>2. conn[f] \in [peer : {"none", "open", "fin", "reset"}, data : Int]
      BY DEF BusyInv
    <3>3. /\ r \in [peer : {"none", "open", "fin", "reset"}, data : Int]
          /\ r.peer = conn[f].peer /\ r.data = conn[f].data - n
      BY <3>1, <3>2
    <3>4. r # NoConn => conn[f] # NoConn
      <4> SUFFICES ASSUME conn[f] = NoConn PROVE r = NoConn
        OBVIOUS
      <4>1. conn[f].data = 0 /\ conn[f].peer = "none"
        BY DEF NoConn
      <4>2. r.data = 0 /\ r.peer = "none"
        BY <4>1, <3>3, <2>3
      <4> QED BY <4>2, <3>3 DEF NoConn
    <3>5. conn' = [conn EXCEPT ![f] = r]
      BY <2>3, <3>1
    <3> QED BY <3>3, <3>4, <3>5, BusyRecord
  <2> QED BY <2>1, <2>2, <2>3, BusyHandle
<1>3. backlog \in Nat /\ backlog' + Cardinality(BusyKnown') <= BusyDescriptors + 1
  BY <1>1, <1>2, <1>c, BusyFacts DEF BusyInv
<1>4. loop' = "events" =>
         \A k \in i' .. nfds' : events'[k] = listenfd => backlog' > IF listenfd \in ready' THEN 1 ELSE 0
  BY <1>1, <1>3 DEF BusyInv
<1> QED BY <1>1, <1>2, <1>3, <1>4 DEF BusyInv

LEMMA BusyClients ==
    ASSUME BusyInv, Busy!Clients
    PROVE  BusyInv'
<1>c. Cardinality(BusyKnown) \in Nat
  BY BusyFacts DEF BusyKnown
<1>1. CASE Busy!Connect
  <2>1. /\ backlog + 1 + Cardinality(BusyKnown) <= BusyDescriptors + 1 /\ backlog' = backlog + 1
        /\ ready' = ready \cup ({listenfd} \cap registered)
        /\ UNCHANGED <<conn, registered, events, nfds, i, loop>>
    <3>1. backlog + (1 + Cardinality(BusyKnown)) <= BusyDescriptors + 1
      BY <1>1, BusyCount DEF Busy!Connect, Busy!NewFd
    <3>2. backlog + 1 + Cardinality(BusyKnown) <= BusyDescriptors + 1
      BY <3>1, <1>c, BusyFacts DEF BusyInv
    <3> QED BY <3>2, <1>1, BusyFacts DEF Busy!Connect, Busy!Notify, Busy!main
  <2>2. BusyKnown' = BusyKnown
    BY <2>1 DEF BusyKnown
  <2>3. backlog' \in Nat /\ backlog' > 0 /\ backlog' + Cardinality(BusyKnown') <= BusyDescriptors + 1
    BY <2>1, <2>2, <1>c, BusyFacts DEF BusyInv
  <2>4. loop' = "events" =>
           \A k \in i' .. nfds' : events'[k] = listenfd => backlog' > IF listenfd \in ready' THEN 1 ELSE 0
    <3>1. loop = "events" => \A k \in i .. nfds : events[k] = listenfd => backlog > 0
      BY DEF BusyInv
    <3> QED BY <3>1, <2>1, <2>3 DEF BusyInv
  <2>5. ready' \subseteq registered'
    BY <2>1 DEF BusyInv
  <2> QED BY <2>1, <2>3, <2>4, <2>5 DEF BusyInv
<1>2. ASSUME NEW f \in BusyConns, NEW r \in [peer : {"open", "fin", "reset"}, data : Int],
             conn[f].peer = "open", conn' = [conn EXCEPT ![f] = r], Busy!Notify(f),
             UNCHANGED <<backlog, registered, events, nfds, i, loop>>
      PROVE  BusyInv'
  <2>1. /\ conn' \in [BusyConns -> [peer : {"none", "open", "fin", "reset"}, data : Int]]
        /\ Cardinality(BusyKnown') <= Cardinality(BusyKnown) /\ Cardinality(BusyKnown') \in Nat
        /\ (\E g \in BusyConns : conn[g].peer # "none") => \E g \in BusyConns : conn'[g].peer # "none"
    <3>1. conn[f] # NoConn /\ r.peer # "none"
      BY <1>2 DEF NoConn
    <3>2. r \in [peer : {"none", "open", "fin", "reset"}, data : Int]
      OBVIOUS
    <3> QED BY <3>1, <3>2, <1>2, BusyRecord
  <2>2. /\ ready' \subseteq registered' /\ (listenfd \in ready' <=> listenfd \in ready)
    BY <1>2, BusyFacts DEF Busy!Notify, BusyInv, BusyConns
  <2>3. backlog' \in Nat /\ backlog' + Cardinality(BusyKnown') <= BusyDescriptors + 1
    BY <1>2, <2>1, <1>c, BusyFacts DEF BusyInv
  <2>4. loop' = "events" =>
           \A k \in i' .. nfds' : events'[k] = listenfd => backlog' > IF listenfd \in ready' THEN 1 ELSE 0
    BY <1>2, <2>2 DEF BusyInv
  <2> QED BY <1>2, <2>1, <2>2, <2>3, <2>4 DEF BusyInv
<1>3. ASSUME NEW f \in BusyConns, Busy!Send(f) PROVE BusyInv'
  <2>0. conn[f].data \in Int
    BY DEF BusyInv
  <2>d. PICK d \in Int : conn' = [conn EXCEPT ![f].data = d]
    <3>1. PICK d \in conn[f].data + 1 .. 2 : conn' = [conn EXCEPT ![f].data = d]
      BY <1>3 DEF Busy!Send
    <3>2. d \in Int
      BY <3>1, <2>0
    <3> QED BY <3>1, <3>2, Zenon
  <2>1. PICK r : r = [conn[f] EXCEPT !.data = d]
    OBVIOUS
  <2>2. conn[f] \in [peer : {"none", "open", "fin", "reset"}, data : Int] /\ conn[f].peer = "open"
    BY <1>3 DEF BusyInv, Busy!Send
  <2>3. r \in [peer : {"open", "fin", "reset"}, data : Int]
    BY <2>1, <2>2
  <2>4. conn' = [conn EXCEPT ![f] = r]
    BY <2>d, <2>1
  <2>5. Busy!Notify(f) /\ UNCHANGED <<backlog, registered, events, nfds, i, loop>>
    BY <1>3 DEF Busy!Send, Busy!main
  <2> QED BY <1>2, <2>2, <2>3, <2>4, <2>5
<1>4. ASSUME NEW f \in BusyConns, NEW how \in {"fin", "reset"}, Busy!Leave(f, how) PROVE BusyInv'
  <2>1. PICK r : r = [conn[f] EXCEPT !.peer = how]
    OBVIOUS
  <2>2. conn[f] \in [peer : {"none", "open", "fin", "reset"}, data : Int] /\ conn[f].peer = "open"
    BY <1>4 DEF BusyInv, Busy!Leave
  <2>3. r \in [peer : {"open", "fin", "reset"}, data : Int]
    BY <2>1, <2>2
  <2>4. conn' = [conn EXCEPT ![f] = r]
    BY <1>4, <2>1 DEF Busy!Leave
  <2>5. Busy!Notify(f) /\ UNCHANGED <<backlog, registered, events, nfds, i, loop>>
    BY <1>4 DEF Busy!Leave, Busy!main
  <2> QED BY <1>2, <2>2, <2>3, <2>4, <2>5
<1> QED BY <1>1, <1>3, <1>4, BusyFacts DEF Busy!Clients

LEMMA BusyEpollWait == ASSUME BusyInv, Busy!EpollWait PROVE BusyInv'
<1>1. loop = "wait" /\ ready # {} /\ i' = 1 /\ loop' = "events" /\ UNCHANGED <<backlog, conn, registered>>
  BY DEF Busy!EpollWait
<1>2. PICK c \in 0 .. BusyConnect : c = nfds'
  <2>1. IsFiniteSet(0 .. BusyDescriptors)
    BY FS_Interval, BusyFacts
  <2>2. ready \in SUBSET (0 .. BusyDescriptors)
    BY DEF BusyInv
  <2>3. Cardinality(ready) \in Nat
    BY <2>1, <2>2, FS_Subset, FS_CardinalityType
  <2>4. nfds' = Min({Cardinality(ready), BusyConnect})
    BY BusyCardinality DEF Busy!EpollWait, Busy!Min, Min
  <2> QED BY <2>3, <2>4, MinIs, BusyFacts
<1>n. c \in Nat
  <2>1. BusyConnect \in Nat
    BY BusyFacts
  <2> QED BY <2>1
<1>3. PICK s \in [1 .. c -> ready] :
         /\ \A a, b \in DOMAIN s : s[a] = s[b] => a = b
         /\ events' = [k \in DOMAIN events |-> IF k \in DOMAIN s THEN s[k] ELSE events[k]]
         /\ ready' = ready \ {s[k] : k \in DOMAIN s}
  BY <1>2 DEF Busy!EpollWait
<1>4. \A k \in 1 .. c : events'[k] = s[k] /\ s[k] \in ready
  <2>1. \A k \in 1 .. c : k \in DOMAIN events
    BY BusyFacts DEF BusyInv
  <2> QED BY <2>1, <1>3
<1>5. \A a, b \in 1 .. nfds' : events'[a] = events'[b] => a = b
  BY <1>1, <1>2, <1>3, <1>4
<1>6. \A k \in i' .. nfds' : events'[k] = listenfd => backlog' > IF listenfd \in ready' THEN 1 ELSE 0
  <2> SUFFICES ASSUME NEW k \in 1 .. c, events'[k] = listenfd PROVE backlog > 0 /\ listenfd \notin ready'
    BY <1>1, <1>2
  <2>1. listenfd \notin ready'
    BY <1>3, <1>4
  <2> QED BY <2>1, <1>4 DEF BusyInv
<1>7. BusyKnown' = BusyKnown /\ ready' \subseteq registered' /\ (listenfd \in ready' => backlog' > 0)
  BY <1>1, <1>3 DEF BusyKnown, BusyInv
<1>8. DOMAIN events' = 1 .. BusyConnect
  BY <1>3 DEF BusyInv
<1>9. nfds' \in 0 .. BusyConnect /\ i' \in 1 .. nfds' + 1
  <2>1. 1 \in 1 .. c + 1
    BY <1>n
  <2> QED BY <2>1, <1>1, <1>2
<1> QED BY <1>1, <1>5, <1>6, <1>7, <1>8, <1>9 DEF BusyInv

LEMMA BusyAccept == ASSUME BusyInv, Busy!Accept PROVE BusyInv'
<1>1. /\ loop = "events" /\ i <= nfds /\ events[i] = listenfd /\ backlog > 0 /\ backlog' = backlog - 1
      /\ conn' = [conn EXCEPT ![Busy!NewFd].peer = "open"] /\ loop' = "add"
      /\ Busy!NewFd \in BusyConns
      /\ UNCHANGED <<registered, ready, events, nfds, i>>
  BY BusyFacts DEF Busy!Accept, Busy!CanAccept, Busy!Handling, Busy!Taken
<1>2. PICK c \in 0 .. BusyDescriptors : c = Cardinality(BusyKnown)
  BY BusyFacts DEF BusyKnown
<1>3. PICK n : n = Busy!NewFd
  OBVIOUS
<1>4. n = 1 + c
  BY <1>2, <1>3, BusyCount DEF Busy!NewFd
<1>5. n \in BusyConns
  BY <1>1, <1>3
<1>6. PICK r : r = [conn[n] EXCEPT !.peer = "open"]
  OBVIOUS
<1>7. r \in [peer : {"none", "open", "fin", "reset"}, data : Int] /\ r.peer = "open"
  BY <1>5, <1>6 DEF BusyInv
<1>8. conn' = [conn EXCEPT ![n] = r]
  BY <1>1, <1>3, <1>6
<1>9. conn' \in [BusyConns -> [peer : {"none", "open", "fin", "reset"}, data : Int]]
      /\ conn'[n] = r /\ \A g \in BusyConns : g # n => conn'[g] = conn[g]
  BY <1>5, <1>7, <1>8 DEF BusyInv
<1>10. Cardinality(BusyKnown') <= c + 1 /\ Cardinality(BusyKnown') \in Nat
  <2>1. BusyKnown' \subseteq BusyKnown \cup {n} /\ BusyKnown \cup {n} \in SUBSET BusyConns
    BY <1>5, <1>9 DEF BusyKnown
  <2>2. IsFiniteSet(BusyKnown) /\ IsFiniteSet(BusyKnown \cup {n}) /\ BusyKnown' \in SUBSET BusyConns
    BY <2>1, BusyFacts DEF BusyKnown
  <2>3. Cardinality(BusyKnown \cup {n}) <= c + 1
    <3>1. Cardinality(BusyKnown \cup {n}) = IF n \in BusyKnown THEN c ELSE c + 1
      BY <2>2, <1>2, FS_AddElement
    <3> QED BY <3>1
  <2>4. Cardinality(BusyKnown') <= Cardinality(BusyKnown \cup {n})
    BY <2>1, <2>2, FS_Subset
  <2>5. Cardinality(BusyKnown') \in Nat /\ Cardinality(BusyKnown \cup {n}) \in Nat
    BY <2>1, <2>2, BusyFacts
  <2> QED BY <2>3, <2>4, <2>5
<1>11. backlog' \in Nat /\ backlog' + Cardinality(BusyKnown') <= BusyDescriptors + 1
  BY <1>1, <1>2, <1>10, BusyFacts DEF BusyInv
<1>12. listenfd \in ready' => backlog' > 0
  <2>1. i \in i .. nfds
    BY <1>1 DEF BusyInv
  <2>2. listenfd \in ready => backlog > 1
    BY <2>1, <1>1 DEF BusyInv
  <2> QED BY <2>2, <1>1 DEF BusyInv
<1>13. \E f \in BusyConns : conn'[f].peer # "none"
  BY <1>5, <1>7, <1>9
<1> QED BY <1>1, <1>9, <1>11, <1>12, <1>13 DEF BusyInv

LEMMA BusyAdd == ASSUME BusyInv, Busy!Add PROVE BusyInv'
<1>1. PICK n : n = Busy!NewFd - 1
  OBVIOUS
<1>2. n = Cardinality(BusyKnown)
  <2>1. Cardinality(BusyKnown) \in Nat
    BY BusyFacts DEF BusyKnown
  <2> QED BY <2>1, <1>1, BusyCount DEF Busy!NewFd
<1>3. /\ loop = "add" /\ registered' = registered \cup {n} /\ i' = i + 1 /\ loop' = "events"
      /\ ready' = ready \/ ready' = ready \cup {n}
      /\ UNCHANGED <<backlog, conn, events, nfds>>
  BY <1>1 DEF Busy!Add
<1>4. n \in 0 .. BusyDescriptors /\ n # listenfd
  <2>1. PICK f \in BusyConns : conn[f].peer # "none"
    BY <1>3 DEF BusyInv
  <2>2. f \in BusyKnown
    BY <2>1 DEF BusyKnown, NoConn
  <2>3. IsFiniteSet(BusyKnown) /\ Cardinality(BusyKnown) \in 0 .. BusyDescriptors
    BY BusyFacts DEF BusyKnown
  <2>4. Cardinality(BusyKnown) # 0
    BY <2>2, <2>3, FS_EmptySet
  <2> QED BY <2>3, <2>4, <1>2, BusyFacts
<1>5. \A k \in i' .. nfds' : events'[k] # listenfd
  BY <1>3 DEF BusyInv
<1>6. registered' \subseteq 0 .. BusyDescriptors /\ ready' \subseteq registered' /\ (listenfd \in ready' <=> listenfd \in ready)
  BY <1>3, <1>4 DEF BusyInv
<1>7. BusyKnown' = BusyKnown
  BY <1>3 DEF BusyKnown
<1>8. i' \in 1 .. nfds' + 1
  BY <1>3 DEF BusyInv
<1> QED BY <1>3, <1>5, <1>6, <1>7, <1>8 DEF BusyInv

LEMMA BusyNext == BusyInv /\ [Busy!Next]_vars => BusyInv'
<1> SUFFICES ASSUME BusyInv, [Busy!Next]_vars PROVE BusyInv'
  OBVIOUS
<1>1. CASE Busy!EndOfEvents
  <2>1. loop' = "wait" /\ UNCHANGED <<backlog, conn, registered, ready, events, nfds, i>>
    BY <1>1 DEF Busy!EndOfEvents, Busy!kernel
  <2> QED BY <2>1 DEF BusyInv, BusyKnown
<1>2. CASE Busy!Dispatch
  <2>1. /\ loop = "events" /\ i <= nfds /\ i' = i + 1
        /\ UNCHANGED <<backlog, conn, registered, ready, events, nfds, loop>>
    BY <1>2 DEF Busy!Dispatch, Busy!Handling, Busy!kernel
  <2>2. i' \in 1 .. nfds' + 1 /\ \A k \in i' .. nfds' : k \in i .. nfds
    BY <2>1 DEF BusyInv
  <2> QED BY <2>1, <2>2 DEF BusyInv, BusyKnown
<1>3. CASE UNCHANGED vars
  BY <1>3 DEF vars, kernel, main, BusyInv, BusyKnown
<1>4. CASE Busy!AcceptExit \/ Busy!AcceptOverrun
  <2>1. loop' \in {"exit", "overrun"} /\ loop = "events"
        /\ UNCHANGED <<backlog, conn, registered, ready, events, nfds, i>>
    BY <1>4 DEF Busy!AcceptExit, Busy!AcceptOverrun, Busy!Handling, Busy!kernel
  <2> QED BY <2>1 DEF BusyInv, BusyKnown
<1> QED BY <1>1, <1>2, <1>3, <1>4, BusyEpollWait, BusyAccept, BusyAdd, BusyHandleKeeps, BusyClients
        DEF Busy!Next, Busy!StartServer

-----------------------------------------------------------------------------

ServerInv ==
    /\ clients \in {"polite", "busy"}
    /\ clients = "polite" => PoliteInv
    /\ clients = "busy" => BusyInv

\* However the event loop, the threads of the pool and the clients take turns,
\* an event of the listening socket finds a connection in the backlog.  With
\* polite clients, who leave the server time, send less than handle reads at
\* once and connect only while clilist and the descriptors last, the server
\* neither exits nor writes outside clilist, and the list of clients, the set of
\* epoll and the open connections are the same whenever it is idle, for every
\* length of the list and every number of descriptors and of threads.
THEOREM ListsAgreeAlways == ServerSpec => []ListsAgree
<1>1. ServerInit => ServerInv
  BY PoliteInit, BusyInit DEF ServerInit, ServerInv
<1>2. ServerInv /\ [ServerNext]_<<clients, vars>> => ServerInv'
  <2> SUFFICES ASSUME ServerInv, [ServerNext]_<<clients, vars>> PROVE ServerInv'
    OBVIOUS
  <2>1. clients' = clients
    BY DEF ServerNext
  <2>2. clients = "polite" => [Next]_vars
    BY DEF ServerNext
  <2>3. clients = "busy" => [Busy!Next]_vars
    BY DEF ServerNext
  <2> QED BY <2>1, <2>2, <2>3, PoliteNext, BusyNext DEF ServerInv
<1>3. ServerInv => ListsAgree
  <2>1. BusyInv => AcceptFinds
    <3> SUFFICES ASSUME BusyInv, Handling(listenfd) PROVE backlog > 0
      BY DEF AcceptFinds
    <3>1. loop = "events" /\ i <= nfds /\ events[i] = listenfd
      BY DEF Handling
    <3>2. i \in i .. nfds /\ backlog \in Nat
      BY <3>1 DEF BusyInv
    <3> QED BY <3>1, <3>2 DEF BusyInv
  <2> QED BY <2>1, PoliteLists DEF ServerInv, ListsAgree
<1> QED BY <1>1, <1>2, <1>3, PTL DEF ServerSpec
====
