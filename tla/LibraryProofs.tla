---------------------------- MODULE LibraryProofs ----------------------------
(***************************************************************************)
(* Proofs about Library, for every value of its constants: both queues     *)
(* implement Fifo, and readvrec, readline, readLine and TransmitPending    *)
(* hand on exactly the bytes they should.                                  *)
(***************************************************************************)
EXTENDS Library, SequenceTheorems, FiniteSetTheorems, WellFoundedInduction, TLAPS

\* The index after i, without the remainder of the division.
LEMMA WrapFact ==
  ASSUME NEW i \in 0 .. QLen - 1
  PROVE  /\ NextIndex(i) \in 0 .. QLen - 1
         /\ NextIndex(i) = IF i + 1 = QLen THEN 0 ELSE i + 1
  BY QLenAssumption DEF NextIndex

LEMMA TypeOKNext == TypeOK /\ [Next]_vars => TypeOK'
<1> SUFFICES ASSUME TypeOK, [Next]_vars PROVE TypeOK'
  OBVIOUS
<1>h. NextIndex(head) \in 0 .. QLen - 1 /\ NextIndex(tail) \in 0 .. QLen - 1
  BY WrapFact DEF TypeOK
<1>1. ASSUME NEW v \in Values, EnQueue(v) PROVE TypeOK'
  BY <1>1, <1>h DEF EnQueue, TypeOK
<1>2. CASE DeQueue
  BY <1>2, <1>h DEF DeQueue, TypeOK
<1>3. CASE UNCHANGED vars
  BY <1>3 DEF vars, TypeOK
<1>q. QED
  BY <1>1, <1>2, <1>3 DEF Next

\* The indices of the array queue stay inside the array in every sequence of
\* EnQueue and DeQueue, for every QLen.
THEOREM TypeOKAlways == Spec => []TypeOK
<1>1. InitQueue => TypeOK
  BY QLenAssumption DEF InitQueue, TypeOK
<1>q. QED
  BY <1>1, TypeOKNext, PTL DEF Spec

\* Full and empty in terms of the number of items, and where the items are.
LEMMA LengthFacts ==
  ASSUME TypeOK
  PROVE  /\ Length \in 0 .. QLen - 1
         /\ QueueFull <=> Length = QLen - 1
         /\ QueueEmpty <=> Length = 0
         /\ \A k \in 0 .. QLen - 1 : Slot(k) \in 0 .. QLen - 1
         /\ Slot(0) = head /\ Slot(Length) = tail
         /\ \A k \in 0 .. Length - 1 : Slot(k) # tail
<1>1. NextIndex(tail) = IF tail + 1 = QLen THEN 0 ELSE tail + 1
  BY WrapFact DEF TypeOK
<1>q. QED
  BY <1>1, QLenAssumption DEF TypeOK, Length, Slot, QueueFull, QueueEmpty

\* A function on 1 .. n is a sequence of length n.
LEMMA FunctionIsSeq ==
  ASSUME NEW S, NEW n \in Nat, NEW f \in [1 .. n -> S]
  PROVE  f \in Seq(S) /\ Len(f) = n
  OBVIOUS

LEMMA ContentsFacts ==
  ASSUME TypeOK
  PROVE  /\ Contents \in Seq(Values)
         /\ Len(Contents) = Length
         /\ \A k \in 1 .. Length : Contents[k] = item[Slot(k - 1)]
<1>1. ASSUME NEW k \in 1 .. Length PROVE item[Slot(k - 1)] \in Values
  <2>1. k - 1 \in 0 .. QLen - 1
    BY LengthFacts, QLenAssumption
  <2>2. Slot(k - 1) \in 0 .. QLen - 1
    BY <2>1, LengthFacts
  <2>q. QED
    BY <2>2 DEF TypeOK
<1>2. Length \in Nat
  BY LengthFacts, QLenAssumption
<1>3. Contents \in [1 .. Length -> Values]
  BY <1>1 DEF Contents
<1>4. Contents \in Seq(Values) /\ Len(Contents) = Length
  BY <1>2, <1>3, FunctionIsSeq
<1>5. \A k \in 1 .. Length : Contents[k] = item[Slot(k - 1)]
  BY DEF Contents
<1>q. QED
  BY <1>4, <1>5

\* An insertion appends to the contents.
LEMMA EnQueueStep ==
  ASSUME TypeOK, TypeOK', NEW v \in Values, EnQueue(v)
  PROVE  F!Insert(v) \/ F!Refuse(v)
<1>1. CASE QueueFull
  <2>1. Contents' = Contents
    BY <1>1 DEF EnQueue, Contents, Length, Slot
  <2>q. QED
    BY <1>1, <2>1, LengthFacts, ContentsFacts DEF EnQueue, F!Refuse
<1>2. CASE ~QueueFull
  <2>1. /\ item' = [item EXCEPT ![tail] = v] /\ tail' = NextIndex(tail)
        /\ head' = head /\ reply' = <<"enqueue", v, TRUE>>
    BY <1>2 DEF EnQueue
  <2>2. NextIndex(tail) = IF tail + 1 = QLen THEN 0 ELSE tail + 1
    BY WrapFact DEF TypeOK
  <2>3. Length' = Length + 1 /\ Length < QLen - 1
    BY <2>1, <2>2, <1>2, QLenAssumption DEF TypeOK, Length, QueueFull
  <2>4. \A k \in 1 .. Length : item'[Slot(k - 1)] = item[Slot(k - 1)]
    BY <2>1, LengthFacts, QLenAssumption DEF TypeOK
  <2>5. item'[Slot(Length)] = v
    BY <2>1, LengthFacts, QLenAssumption DEF TypeOK
  <2>6. Contents' = [k \in 1 .. Length + 1 |-> item'[Slot(k - 1)]]
    BY <2>1, <2>3 DEF Contents, Slot
  <2>7. Contents' = Append(Contents, v)
    <3> DEFINE a == Append(Contents, v)
    <3>1. /\ a \in Seq(Values) /\ Len(a) = Length + 1 /\ a[Length + 1] = v
          /\ \A k \in 1 .. Length : a[k] = Contents[k]
      BY ContentsFacts, AppendProperties
    <3> HIDE DEF a
    <3>2. Length \in Nat
      BY LengthFacts, QLenAssumption
    <3>3. \A k \in 1 .. Length + 1 : item'[Slot(k - 1)] = a[k]
      BY <2>4, <2>5, <3>1, <3>2, ContentsFacts
    <3>4. a = [k \in 1 .. Length + 1 |-> a[k]]
      BY <3>1, LenProperties
    <3>5. Contents' = a
      BY <2>6, <3>3, <3>4
    <3>q. QED
      BY <3>5 DEF a
  <2>q. QED
    BY <2>1, <2>3, <2>7, ContentsFacts DEF F!Insert
<1>q. QED
  BY <1>1, <1>2

\* A removal takes the oldest item.
LEMMA DeQueueStep ==
  ASSUME TypeOK, TypeOK', DeQueue
  PROVE  F!Remove \/ F!Nothing
<1>1. CASE QueueEmpty
  <2>1. Contents' = Contents
    BY <1>1 DEF DeQueue, Contents, Length, Slot
  <2>2. Contents = <<>>
    BY <1>1, LengthFacts, ContentsFacts
  <2>q. QED
    BY <1>1, <2>1, <2>2 DEF DeQueue, F!Nothing
<1>2. CASE ~QueueEmpty
  <2>1. /\ head' = NextIndex(head) /\ tail' = tail /\ item' = item
        /\ reply' = <<"dequeue", item[head], TRUE>>
    BY <1>2 DEF DeQueue
  <2>2. NextIndex(head) = IF head + 1 = QLen THEN 0 ELSE head + 1
    BY WrapFact DEF TypeOK
  <2>3. Length' = Length - 1 /\ Length > 0
    BY <2>1, <2>2, <1>2, QLenAssumption DEF TypeOK, Length, QueueEmpty
  <2>4. \A k \in 1 .. Length - 1 : Slot(k - 1)' = Slot(k)
    BY <2>1, <2>2, LengthFacts, QLenAssumption DEF TypeOK, Slot
  <2>5. Contents' = [k \in 1 .. Length - 1 |-> item[Slot(k)]]
    BY <2>1, <2>3, <2>4 DEF Contents
  <2>6. Contents # <<>> /\ Head(Contents) = item[head]
    BY <2>3, LengthFacts, ContentsFacts
  <2>7. Contents' = Tail(Contents)
    <3> DEFINE t == Tail(Contents)
    <3>1. /\ t \in Seq(Values) /\ Len(t) = Length - 1
          /\ \A k \in 1 .. Length - 1 : t[k] = Contents[k + 1]
      BY <2>6, ContentsFacts, HeadTailProperties
    <3> HIDE DEF t
    <3>2. Length \in Nat
      BY LengthFacts, QLenAssumption
    <3>3. \A k \in 1 .. Length - 1 : item[Slot(k)] = t[k]
      BY <3>1, <3>2, ContentsFacts
    <3>4. t = [k \in 1 .. Length - 1 |-> t[k]]
      BY <3>1, LenProperties
    <3>5. Contents' = t
      BY <2>5, <3>3, <3>4
    <3>q. QED
      BY <3>5 DEF t
  <2>q. QED
    BY <2>1, <2>6, <2>7 DEF F!Remove
<1>q. QED
  BY <1>1, <1>2

\* queueArray.c implements the abstract FIFO of capacity QLen - 1, for every
\* QLen and every sequence of calls.
THEOREM ArrayQueueImplementsFifo == Spec => ImplementsFifo
<1>1. InitQueue => F!Init
  <2> SUFFICES ASSUME InitQueue PROVE F!Init
    OBVIOUS
  <2>1. TypeOK /\ Length = 0
    BY QLenAssumption DEF InitQueue, TypeOK, Length
  <2>2. Contents = <<>>
    BY <2>1, ContentsFacts
  <2>q. QED
    BY <2>2 DEF F!Init, InitQueue
<1>2. TypeOK /\ TypeOK' /\ [Next]_vars => [F!Next]_<<Contents, reply>>
  <2> SUFFICES ASSUME TypeOK, TypeOK', [Next]_vars PROVE [F!Next]_<<Contents, reply>>
    OBVIOUS
  <2>1. ASSUME NEW v \in Values, EnQueue(v) PROVE F!Next
    BY <2>1, EnQueueStep DEF F!Next
  <2>2. CASE DeQueue
    BY <2>2, DeQueueStep DEF F!Next
  <2>3. CASE UNCHANGED vars
    BY <2>3 DEF vars, Contents, Length, Slot
  <2>q. QED
    BY <2>1, <2>2, <2>3 DEF Next
<1>q. QED
  BY <1>1, <1>2, TypeOKAlways, PTL DEF Spec, ImplementsFifo, F!Spec
-------------------------------------------------------------------------------
(* Induction over numbers: a set of numbers that is not empty has a least  *)
(* element.                                                                *)

Below == {p \in Nat \X Nat : p[1] < p[2]}

LEMMA BelowWellFounded == IsWellFoundedOn(Below, Nat)
  BY NatLessThanWellFounded DEF OpToRel, Below

LEMMA Least ==
  ASSUME NEW T \in SUBSET Nat, T # {}
  PROVE  \E x \in T : \A y \in T : x <= y
<1>1. PICK x \in T : \A y \in T : ~ (<<y, x>> \in Below)
  <2> HIDE DEF Below
  <2> QED
    BY BelowWellFounded, WFMin
<1>2. ASSUME NEW y \in T PROVE x <= y
  <2>1. x \in Nat /\ y \in Nat
    OBVIOUS
  <2>2. ~ (<<y, x>> \in Below)
    BY <1>1
  <2>3. ~ (y < x)
    BY <2>1, <2>2 DEF Below
  <2> QED
    BY <2>1, <2>3
<1> QED
  BY <1>2

-------------------------------------------------------------------------------
(* queueLinkList.c.  The nodes from head to tail are a chain c of distinct *)
(* nodes along next, and exactly the ones allocated.                       *)

Chain(c, m) ==
    /\ c[0] = first /\ c[m] = last /\ next[last] = Nil
    /\ \A k \in 0..(m - 1) : next[c[k]] = c[k + 1]
    /\ \A j, k \in 0..m : c[j] = c[k] => j = k
    /\ heap = {c[k] : k \in 0..m}

LinkedTypes ==
    /\ first \in Nodes /\ last \in Nodes /\ heap \subseteq Nodes
    /\ next \in [Nodes -> Nodes \cup {Nil}] /\ id \in [Nodes -> Values]

LinkedInv == LinkedTypes /\ \E m \in Nat : \E c \in [0..m -> Nodes] : Chain(c, m)

\* A new queue is a chain of one node.
LEMMA LinkedInit == Linked!InitQueue => LinkedInv
<1> SUFFICES ASSUME Linked!InitQueue PROVE LinkedInv
  OBVIOUS
<1>1. LinkedTypes
  BY DEF Linked!InitQueue, LinkedTypes
<1> DEFINE c == [k \in 0..0 |-> first]
<1>2. c \in [0..0 -> Nodes]
  BY <1>1 DEF LinkedTypes
<1>3. Chain(c, 0)
  BY DEF Linked!InitQueue, Chain
<1> QED
  BY <1>1, <1>2, <1>3 DEF LinkedInv

\* EnQueue lengthens the chain by a node that was free, or leaves it.
LEMMA LinkedEnQueue ==
  ASSUME LinkedTypes, NEW m \in Nat, NEW c \in [0..m -> Nodes], Chain(c, m),
         NEW n \in Nodes \ heap, NEW v \in Values,
         heap' = heap \cup {n}, next' = [next EXCEPT ![last] = n, ![n] = Nil],
         id' = [id EXCEPT ![n] = v], last' = n, first' = first
  PROVE  LinkedTypes' /\ Chain([k \in 0..(m + 1) |-> IF k <= m THEN c[k] ELSE n], m + 1)'
<1> DEFINE d == [k \in 0..(m + 1) |-> IF k <= m THEN c[k] ELSE n]
<1>1. LinkedTypes'
  BY DEF LinkedTypes
<1>2. /\ \A k \in 0..m : c[k] \in heap /\ c[k] # n /\ d[k] = c[k]
      /\ d[m + 1] = n /\ \A k \in 0..(m + 1) : k \in 0..m \/ k = m + 1
  BY DEF Chain
<1>3. last \in heap /\ last # n /\ n \in Nodes
  BY <1>2 DEF Chain
<1>4. \A k \in 0..m : (c[k] = last <=> k = m)
  BY DEF Chain
<1> HIDE DEF d
<1>5. ASSUME NEW k \in 0..((m + 1) - 1) PROVE next'[d[k]] = d[k + 1]
  <2>1. CASE k = m
    BY <2>1, <1>2, <1>3 DEF Chain, LinkedTypes
  <2>2. CASE k # m
    <3>1. k \in 0..(m - 1) /\ k + 1 \in 0..m /\ k \in 0..m
      BY <2>2
    <3>2. c[k] # last /\ c[k] # n /\ c[k] \in Nodes
      BY <3>1, <1>2, <1>4, <2>2
    <3>3. next'[c[k]] = next[c[k]]
      BY <3>2 DEF LinkedTypes
    <3> QED
      BY <3>1, <3>3, <1>2 DEF Chain
  <2> QED
    BY <2>1, <2>2
<1>6. \A j, k \in 0..(m + 1) : d[j] = d[k] => j = k
  BY <1>2 DEF Chain
<1>7. heap' = {d[k] : k \in 0..(m + 1)}
  <2>1. \A k \in 0..m : k \in 0..(m + 1)
    OBVIOUS
  <2>2. m + 1 \in 0..(m + 1)
    OBVIOUS
  <2> QED
    BY <1>2, <2>1, <2>2 DEF Chain
<1>8. d[0] = first' /\ d[m + 1] = last' /\ next'[last'] = Nil
  BY <1>2, <1>3 DEF Chain, LinkedTypes
<1>9. Chain(d, m + 1)'
  BY <1>5, <1>6, <1>7, <1>8 DEF Chain
<1> QED
  BY <1>1, <1>9 DEF d

\* DeQueue takes the node behind the first one out of it.
LEMMA LinkedDeQueue ==
  ASSUME LinkedTypes, NEW m \in Nat, NEW c \in [0..m -> Nodes], Chain(c, m), last # first,
         last' = IF last = next[first] THEN first ELSE last,
         next' = [next EXCEPT ![first] = next[next[first]]],
         heap' = heap \ {next[first]}, id' = id, first' = first
  PROVE  /\ m > 0 /\ next[first] = c[1] /\ LinkedTypes'
         /\ Chain([k \in 0..(m - 1) |-> IF k = 0 THEN c[0] ELSE c[k + 1]], m - 1)'
<1> DEFINE d == [k \in 0..(m - 1) |-> IF k = 0 THEN c[0] ELSE c[k + 1]]
<1>1. m > 0 /\ m \in Nat /\ 0 \in 0..(m - 1) /\ 0 \in 0..m /\ 1 \in 0..m /\ m \in 0..m
  <2>1. m # 0
    BY DEF Chain
  <2> QED
    BY <2>1
<1>2. next[first] = c[1] /\ c[1] \in Nodes /\ c[0] = first /\ c[1] # first
  <2>1. next[c[0]] = c[0 + 1]
    BY <1>1 DEF Chain
  <2>2. c[0] # c[1]
    BY <1>1 DEF Chain
  <2> QED
    BY <2>1, <2>2, <1>1 DEF Chain
<1>3. next[c[1]] = IF m = 1 THEN Nil ELSE c[2]
  <2>1. CASE m = 1
    BY <2>1 DEF Chain
  <2>2. CASE m # 1
    <3>1. 1 \in 0..(m - 1) /\ 1 + 1 = 2
      BY <2>2, <1>1
    <3> QED
      BY <3>1, <2>2 DEF Chain
  <2> QED
    BY <2>1, <2>2
<1>4. last = c[1] <=> m = 1
  BY <1>1 DEF Chain
<1>5. LinkedTypes'
  BY <1>2 DEF LinkedTypes
<1>6. /\ d[0] = first /\ \A k \in 1..(m - 1) : d[k] = c[k + 1] /\ k + 1 \in 0..m /\ k \in 0..(m - 1)
      /\ \A k \in 0..(m - 1) : k = 0 \/ k \in 1..(m - 1)
  BY <1>1, <1>2
<1> HIDE DEF d
<1>7. \A k \in 1..(m - 1) : d[k] # first /\ d[k] # c[1] /\ d[k] \in Nodes
  BY <1>1, <1>2, <1>6, SMTT(30) DEF Chain
<1>8. d[m - 1] = last'
  <2>1. CASE m = 1
    BY <2>1, <1>2, <1>4, <1>6
  <2>2. CASE m # 1
    <3>1. m - 1 \in 1..(m - 1) /\ (m - 1) + 1 = m
      BY <2>2, <1>1
    <3> QED
      BY <3>1, <2>2, <1>2, <1>4, <1>6 DEF Chain
  <2> QED
    BY <2>1, <2>2
<1>9. next'[last'] = Nil
  <2>1. CASE m = 1
    BY <2>1, <1>2, <1>3, <1>4 DEF LinkedTypes
  <2>2. CASE m # 1
    BY <2>2, <1>2, <1>4 DEF LinkedTypes, Chain
  <2> QED
    BY <2>1, <2>2
<1>10. ASSUME NEW k \in 0..((m - 1) - 1) PROVE next'[d[k]] = d[k + 1]
  <2>0. k + 1 \in 1..(m - 1) /\ d[k + 1] = c[(k + 1) + 1]
    BY <1>1, <1>6
  <2>1. CASE k = 0
    <3>1. m # 1 /\ (0 + 1) + 1 = 2
      BY <2>1, <1>1
    <3> QED
      BY <2>0, <2>1, <3>1, <1>2, <1>3, <1>6 DEF LinkedTypes
  <2>2. CASE k # 0
    <3>1. k \in 1..(m - 1) /\ k + 1 \in 0..(m - 1)
      BY <2>2, <1>1
    <3>2. next'[d[k]] = next[d[k]] /\ d[k] = c[k + 1]
      BY <3>1, <1>6, <1>7 DEF LinkedTypes
    <3>3. next[c[k + 1]] = c[(k + 1) + 1]
      BY <3>1 DEF Chain
    <3> QED
      BY <3>2, <3>3, <2>0
  <2> QED
    BY <2>1, <2>2
<1>11. ASSUME NEW j \in 0..(m - 1), NEW k \in 0..(m - 1), d[j] = d[k] PROVE j = k
  <2>1. CASE j = 0 \/ k = 0
    BY <2>1, <1>11, <1>6, <1>7
  <2>2. CASE j # 0 /\ k # 0
    <3>1. j + 1 \in 0..m /\ k + 1 \in 0..m /\ c[j + 1] = c[k + 1]
      BY <2>2, <1>11, <1>6
    <3>2. j + 1 = k + 1
      BY <3>1 DEF Chain
    <3> QED
      BY <3>2
  <2> QED
    BY <2>1, <2>2
<1>12. heap' = {d[k] : k \in 0..(m - 1)}
  <2>1. ASSUME NEW x \in heap' PROVE \E k \in 0..(m - 1) : x = d[k]
    <3>1. PICK k \in 0..m : x = c[k]
      BY <2>1 DEF Chain
    <3>2. k # 1
      BY <2>1, <3>1, <1>2
    <3>3. CASE k = 0
      BY <3>1, <3>3, <1>1, <1>2, <1>6
    <3>4. CASE k # 0
      <4>1. k - 1 \in 1..(m - 1) /\ (k - 1) + 1 = k
        BY <3>2, <3>4, <1>1
      <4> QED
        BY <4>1, <3>1, <1>6
    <3> QED
      BY <3>3, <3>4
  <2>2. ASSUME NEW k \in 0..(m - 1) PROVE d[k] \in heap'
    <3>1. CASE k = 0
      BY <3>1, <1>1, <1>2, <1>6 DEF Chain
    <3>2. CASE k # 0
      BY <3>2, <1>2, <1>6, <1>7 DEF Chain
    <3> QED
      BY <3>1, <3>2
  <2> QED
    BY <2>1, <2>2
<1>13. Chain(d, m - 1)'
  BY <1>6, <1>8, <1>9, <1>10, <1>11, <1>12 DEF Chain
<1> QED
  BY <1>1, <1>2, <1>5, <1>13 DEF d
\* The chain has as many nodes as are allocated.
LEMMA ChainCount ==
  ASSUME LinkedTypes, NEW m \in Nat, NEW c \in [0..m -> Nodes], Chain(c, m)
  PROVE  /\ IsFiniteSet(heap) /\ Cardinality(heap) = m + 1
         /\ Cardinality(Nodes) \in Nat /\ m + 1 <= Cardinality(Nodes)
         /\ (heap # Nodes => m + 1 < Cardinality(Nodes))
<1> DEFINE g == [k \in 1..(m + 1) |-> c[k - 1]]
<1>1. \A k \in 1..(m + 1) : k - 1 \in 0..m
  OBVIOUS
<1>2. g \in [1..(m + 1) -> heap]
  BY <1>1 DEF Chain
<1>3. ASSUME NEW j \in 1..(m + 1), NEW k \in 1..(m + 1), g[j] = g[k] PROVE j = k
  <2>1. j - 1 = k - 1
    BY <1>1, <1>3 DEF Chain
  <2> QED
    BY <2>1
<1>4. ASSUME NEW x \in heap PROVE \E k \in 1..(m + 1) : g[k] = x
  <2>1. PICK k \in 0..m : x = c[k]
    BY DEF Chain
  <2>2. k + 1 \in 1..(m + 1) /\ (k + 1) - 1 = k
    OBVIOUS
  <2> QED
    BY <2>1, <2>2
<1>5. ExistsBijection(1..(m + 1), heap)
  <2> HIDE DEF g
  <2>1. g \in Bijection(1..(m + 1), heap)
    BY <1>2, <1>3, <1>4 DEF Bijection, Injection, Surjection, IsInjective
  <2> QED
    BY <2>1 DEF ExistsBijection
<1>6. IsFiniteSet(heap) /\ Cardinality(heap) = m + 1
  <2>1. m + 1 \in Nat
    OBVIOUS
  <2> QED
    BY <1>5, <2>1, FS_CountingElements, FS_NatBijection
<1>7. /\ IsFiniteSet(Nodes) /\ heap \in SUBSET Nodes
  BY LibraryAssumption DEF LinkedTypes
<1>8. Cardinality(Nodes) \in Nat /\ Cardinality(heap) <= Cardinality(Nodes)
      /\ (Cardinality(heap) = Cardinality(Nodes) => heap = Nodes)
  BY <1>7, FS_Subset, FS_CardinalityType
<1> QED
  BY <1>6, <1>8

LEMMA LinkedCardinality == \A S : Linked!Cardinality(S) = Cardinality(S)
BY DEF Linked!Cardinality, Cardinality, Linked!IsFiniteSet, IsFiniteSet

\* What Reached computes along next is the chain.
LEMMA ReachedIsChain ==
  ASSUME LinkedTypes, NEW m \in Nat, NEW c \in [0..m -> Nodes], Chain(c, m)
  PROVE  Linked!Reached = [k \in 0..Cardinality(Nodes) |-> IF k <= m THEN c[k] ELSE Nil]
<1> DEFINE C == Cardinality(Nodes)
           g == [k \in 0..C |-> IF k <= m THEN c[k] ELSE Nil]
           Step(f, k) == IF k = 0 THEN first
                         ELSE IF f[k - 1] = Nil THEN Nil ELSE next[f[k - 1]]
           R == Linked!Reached
<1>1. C \in Nat /\ m < C
  BY ChainCount
<1>2. Nil \notin Nodes
  BY LibraryAssumption
<1>3. \A k \in 0..C : g[k] = Step(g, k)
  <2> SUFFICES ASSUME NEW k \in 0..C PROVE g[k] = Step(g, k)
    OBVIOUS
  <2>1. CASE k = 0
    BY <2>1, <1>1 DEF Chain
  <2>2. CASE k # 0 /\ k <= m
    <3>1. k - 1 \in 0..(m - 1) /\ k - 1 \in 0..m /\ k - 1 \in 0..C /\ (k - 1) + 1 = k /\ k - 1 <= m
      BY <2>2, <1>1
    <3>2. g[k - 1] = c[k - 1] /\ c[k - 1] # Nil /\ g[k] = c[k]
      BY <3>1, <2>2, <1>2
    <3>3. next[c[k - 1]] = c[k]
      BY <3>1 DEF Chain
    <3> QED
      BY <3>2, <3>3, <2>2
  <2>3. CASE ~(k <= m)
    <3>1. k - 1 \in 0..C /\ k # 0 /\ m \in 0..C /\ m <= m
      BY <2>3, <1>1
    <3>2. CASE k - 1 = m
      <4>1. g[k - 1] = c[m] /\ c[m] = last /\ next[last] = Nil /\ g[k] = Nil
        BY <2>3, <3>1, <3>2 DEF Chain
      <4> QED
        BY <4>1, <3>1
    <3>3. CASE k - 1 # m
      <4>1. ~(k - 1 <= m)
        BY <2>3, <3>3
      <4>2. g[k - 1] = Nil /\ g[k] = Nil
        BY <4>1, <2>3, <3>1
      <4> QED
        BY <4>2, <3>1
    <3> QED
      BY <3>2, <3>3
  <2> QED
    BY <2>1, <2>2, <2>3
<1>4. g = [k \in 0..C |-> Step(g, k)]
  BY <1>3
<1>5. R = CHOOSE f : f = [k \in 0..C |-> Step(f, k)]
  BY LinkedCardinality DEF Linked!Reached
<1>6. R = [k \in 0..C |-> Step(R, k)]
  <2> HIDE DEF g, R
  <2> QED
    BY <1>4, <1>5
<1> HIDE DEF R
<1>7. DOMAIN R = 0..C /\ \A k \in 0..C : R[k] = Step(R, k)
  BY <1>6
<1>8. \A k \in 0..C : R[k] = g[k]
  <2> SUFFICES ASSUME {k \in 0..C : R[k] # g[k]} # {} PROVE FALSE
    OBVIOUS
  <2> HIDE DEF g
  <2>1. {k \in 0..C : R[k] # g[k]} \in SUBSET Nat
    BY <1>1
  <2>2. PICK x \in {k \in 0..C : R[k] # g[k]} : \A y \in {k \in 0..C : R[k] # g[k]} : x <= y
    BY <2>1, Least
  <2>3. x \in 0..C /\ R[x] # g[x] /\ \A y \in 0..C : R[y] # g[y] => x <= y
    BY <2>2
  <2>4. R[x] = Step(R, x) /\ g[x] = Step(g, x)
    BY <2>3, <1>3, <1>7
  <2>5. CASE x = 0
    BY <2>3, <2>4, <2>5
  <2>6. CASE x # 0
    <3>1. x - 1 \in 0..C /\ ~(x <= x - 1)
      BY <2>3, <2>6, <1>1
    <3>2. R[x - 1] = g[x - 1]
      BY <3>1, <2>3
    <3> QED
      BY <2>3, <2>4, <2>6, <3>2
  <2> QED
    BY <2>5, <2>6
<1>9. R = [k \in 0..C |-> R[k]]
  BY <1>6
<1>10. R = g
  BY <1>8, <1>9
<1> QED
  BY <1>10 DEF R, g
\* Number and place of the items, in terms of the chain.
LEMMA ChainContents ==
  ASSUME LinkedTypes, NEW m \in Nat, NEW c \in [0..m -> Nodes], Chain(c, m)
  PROVE  Linked!Length = m /\ \A k \in 0..m : Linked!Reached[k] = c[k]
<1> DEFINE C == Cardinality(Nodes)
           R == Linked!Reached
<1>1. C \in Nat /\ m < C
  BY ChainCount
<1>2. \A k \in 0..C : R[k] = IF k <= m THEN c[k] ELSE Nil
  BY ReachedIsChain
<1> HIDE DEF R
<1>3. \A k \in 0..m : R[k] = c[k] /\ c[k] # Nil
  <2>1. Nil \notin Nodes
    BY LibraryAssumption
  <2>2. \A k \in 0..m : k \in 0..C /\ k <= m /\ c[k] \in Nodes
    BY <1>1
  <2> HIDE DEF C
  <2> QED
    BY <2>1, <2>2, <1>2
<1>4. {k \in 1..C : R[k] # Nil} = 1..m
  BY <1>1, <1>2, <1>3
<1>5. Cardinality(1..m) = m
  BY FS_Interval
<1>6. Linked!Length = Cardinality({k \in 1..C : R[k] # Nil})
  BY LinkedCardinality DEF Linked!Length, R
<1> QED
  BY <1>3, <1>4, <1>5, <1>6 DEF R

LEMMA LinkedWellFormed == LinkedInv => ListWellFormed
<1> SUFFICES ASSUME LinkedInv PROVE ListWellFormed
  OBVIOUS
<1>0. PICK m \in Nat : \E c \in [0..m -> Nodes] : Chain(c, m)
  BY DEF LinkedInv
<1>1. PICK c \in [0..m -> Nodes] : Chain(c, m)
  BY <1>0
<1>2. LinkedTypes
  BY DEF LinkedInv
<1> DEFINE R == Linked!Reached
<1>3. Linked!Length = m /\ \A k \in 0..m : R[k] = c[k]
  BY <1>1, <1>2, ChainContents
<1> HIDE DEF R
<1>4. R[m] = last /\ next[last] = Nil /\ {R[k] : k \in 0..m} = heap
  BY <1>1, <1>3 DEF Chain
<1>5. Cardinality(heap) = m + 1
  BY <1>1, <1>2, ChainCount
<1> QED
  BY <1>3, <1>4, <1>5, LinkedCardinality DEF ListWellFormed, Linked!ListWellFormed, R

\* Every call keeps the chain.
LEMMA LinkedStep == LinkedInv /\ [Linked!Next]_linkedVars => LinkedInv'
<1> SUFFICES ASSUME LinkedInv, [Linked!Next]_linkedVars PROVE LinkedInv'
  OBVIOUS
<1>0. PICK m \in Nat : \E c \in [0..m -> Nodes] : Chain(c, m)
  BY DEF LinkedInv
<1>1. PICK c \in [0..m -> Nodes] : Chain(c, m)
  BY <1>0
<1>2. LinkedTypes
  BY DEF LinkedInv
<1>3. ASSUME UNCHANGED <<heap, next, id, first, last>> PROVE LinkedInv'
  <2>1. LinkedTypes' /\ Chain(c, m)'
    BY <1>1, <1>2, <1>3 DEF LinkedTypes, Chain
  <2> QED
    BY <2>1 DEF LinkedInv
<1>4. ASSUME NEW v \in Values, Linked!EnQueue(v) PROVE LinkedInv'
  <2>1. ASSUME NEW n \in Nodes \ heap, heap' = heap \cup {n},
               next' = [next EXCEPT ![last] = n, ![n] = Nil],
               id' = [id EXCEPT ![n] = v], last' = n, first' = first
        PROVE  LinkedInv'
    <3> DEFINE d == [k \in 0..(m + 1) |-> IF k <= m THEN c[k] ELSE n]
    <3>1. d \in [0..(m + 1) -> Nodes] /\ m + 1 \in Nat
      OBVIOUS
    <3>2. LinkedTypes' /\ Chain(d, m + 1)'
      BY <1>1, <1>2, <2>1, LinkedEnQueue
    <3> HIDE DEF d
    <3> QED
      BY <3>1, <3>2 DEF LinkedInv
  <2>2. ASSUME next' = [next EXCEPT ![last] = Nil], UNCHANGED <<heap, id, first, last>>
        PROVE  LinkedInv'
    <3>1. next' = next
      BY <2>2, <1>1, <1>2 DEF Chain, LinkedTypes
    <3> QED
      BY <2>2, <3>1, <1>3
  <2> QED
    BY <1>4, <2>1, <2>2 DEF Linked!EnQueue
<1>5. CASE Linked!DeQueue
  <2>1. CASE last # first
    <3> DEFINE d == [k \in 0..(m - 1) |-> IF k = 0 THEN c[0] ELSE c[k + 1]]
    <3>0. /\ last' = IF last = next[first] THEN first ELSE last
          /\ next' = [next EXCEPT ![first] = next[next[first]]]
          /\ heap' = heap \ {next[first]} /\ id' = id /\ first' = first
      BY <1>5, <2>1 DEF Linked!DeQueue, Linked!isEmpty
    <3>1. m > 0 /\ LinkedTypes' /\ Chain(d, m - 1)'
      BY <1>1, <1>2, <2>1, <3>0, LinkedDeQueue
    <3>2. d \in [0..(m - 1) -> Nodes] /\ m - 1 \in Nat
      BY <3>1
    <3> HIDE DEF d
    <3> QED
      BY <3>1, <3>2 DEF LinkedInv
  <2>2. CASE last = first
    BY <1>3, <1>5, <2>2 DEF Linked!DeQueue, Linked!isEmpty
  <2> QED
    BY <2>1, <2>2
<1>6. CASE UNCHANGED linkedVars
  BY <1>3, <1>6 DEF linkedVars
<1> QED
  BY <1>4, <1>5, <1>6 DEF Linked!Next

\* In a step of the library the linked queue makes a step of its own or none.
LEMMA LinkedOfLibrary == [LibraryNext]_allVars => [Linked!Next]_linkedVars
<1> SUFFICES ASSUME [LibraryNext]_allVars PROVE [Linked!Next]_linkedVars
  OBVIOUS
<1>1. CASE Links(Linked!Next)
  BY <1>1 DEF Links
<1>2. CASE LibraryNext /\ ~Links(Linked!Next)
  <2> USE DEF queueVars
  <2>1. Arrays(Next) => UNCHANGED linkedVars
    BY DEF Arrays
  <2>2. Records(Record!Next) => UNCHANGED linkedVars
    BY DEF Records
  <2>3. Keeps(Keep!Next) => UNCHANGED linkedVars
    BY DEF Keeps
  <2>4. Files(File!Next) => UNCHANGED linkedVars
    BY DEF Files
  <2>5. Replies(Reply!Next) => UNCHANGED linkedVars
    BY DEF Replies
  <2> QED
    BY <1>2, <2>1, <2>2, <2>3, <2>4, <2>5 DEF LibraryNext
<1>3. CASE UNCHANGED allVars
  BY <1>3 DEF allVars, queueVars
<1> QED
  BY <1>1, <1>2, <1>3

\* queueLinkList.c: after every sequence of calls, with any results of malloc,
\* the list ends at tail, passes no node twice or after its free and holds all
\* nodes allocated, for any number of addresses.
THEOREM LinkedListWellFormed == LibrarySpec => []ListWellFormed
<1>1. LibraryInit => LinkedInv
  BY LinkedInit DEF LibraryInit, Standing
<1>2. LinkedInv /\ [LibraryNext]_allVars => LinkedInv'
  BY LinkedStep, LinkedOfLibrary
<1> QED
  BY <1>1, <1>2, LinkedWellFormed, PTL DEF LibrarySpec
\* The items are those of the nodes behind the first one.
Items(c, m) == [k \in 1..m |-> id[c[k]]]
Queued == [k \in 1..Linked!Length |-> id[Linked!Reached[k]]]

LEMMA QueuedIs ==
  ASSUME LinkedTypes, NEW m \in Nat, NEW c \in [0..m -> Nodes], Chain(c, m)
  PROVE  /\ Queued = Items(c, m) /\ Items(c, m) \in Seq(Values) /\ Len(Items(c, m)) = m
         /\ \A k \in 1..m : Items(c, m)[k] = id[c[k]]
<1>1. Linked!Length = m /\ \A k \in 0..m : Linked!Reached[k] = c[k]
  BY ChainContents
<1>2. \A k \in 1..m : k \in 0..m /\ c[k] \in Nodes /\ id[c[k]] \in Values
  BY DEF LinkedTypes
<1>3. Queued = Items(c, m)
  BY <1>1, <1>2 DEF Queued, Items
<1>4. Items(c, m) \in [1..m -> Values]
  BY <1>2 DEF Items
<1> QED
  BY <1>3, <1>4, FunctionIsSeq DEF Items

\* The same before and after a step.
ItemsQueued ==
    \A m \in Nat : \A c \in [0..m -> Nodes] : LinkedTypes /\ Chain(c, m) => Queued = Items(c, m)

LEMMA QueuedAfter == ItemsQueued'
<1>1. ItemsQueued
  BY QueuedIs DEF ItemsQueued
<1> QED
  BY <1>1, PTL

\* An insertion appends; where malloc failed nothing changes.
LEMMA LinkedInserts ==
  ASSUME LinkedInv, NEW v \in Values, Linked!EnQueue(v)
  PROVE  Linked!F!Insert(v) \/ Linked!F!Refuse(v)
<1>0. PICK m \in Nat : \E c \in [0..m -> Nodes] : Chain(c, m)
  BY DEF LinkedInv
<1>1. PICK c \in [0..m -> Nodes] : Chain(c, m)
  BY <1>0
<1>2. LinkedTypes
  BY DEF LinkedInv
<1> DEFINE q == Items(c, m)
<1>3. Queued = q /\ q \in Seq(Values) /\ Len(q) = m /\ \A k \in 1..m : q[k] = id[c[k]]
  BY <1>1, <1>2, QueuedIs
<1>4. ASSUME NEW n \in Nodes \ heap, heap' = heap \cup {n},
             next' = [next EXCEPT ![last] = n, ![n] = Nil],
             id' = [id EXCEPT ![n] = v], last' = n, first' = first,
             answer' = <<"enqueue", v, TRUE>>
      PROVE  Linked!F!Insert(v)
  <2> DEFINE d == [k \in 0..(m + 1) |-> IF k <= m THEN c[k] ELSE n]
             r == [k \in 1..(m + 1) |-> id'[d[k]]]
  <2>1. d \in [0..(m + 1) -> Nodes] /\ m + 1 \in Nat
    OBVIOUS
  <2>2. LinkedTypes' /\ Chain(d, m + 1)'
    BY <1>1, <1>2, <1>4, LinkedEnQueue
  <2>3. d[m + 1] = n /\ \A k \in 1..m : d[k] = c[k] /\ c[k] \in Nodes /\ c[k] # n
    BY <1>1 DEF Chain
  <2> HIDE DEF d
  <2>4. Queued' = r
    <3>1. Queued' = Items(d, m + 1)'
      BY <2>1, <2>2, QueuedAfter DEF ItemsQueued
    <3> QED
      BY <3>1 DEF Items
  <2>5. r[m + 1] = v /\ \A k \in 1..m : r[k] = q[k]
    BY <2>3, <1>2, <1>3, <1>4 DEF LinkedTypes
  <2>6. r = Append(q, v)
    <3> DEFINE a == Append(q, v)
    <3> HIDE DEF q
    <3>1. /\ a \in Seq(Values) /\ Len(a) = m + 1 /\ a[m + 1] = v
          /\ \A k \in 1..m : a[k] = q[k]
      BY <1>3, AppendProperties
    <3> HIDE DEF a
    <3>2. a = [k \in 1..(m + 1) |-> a[k]]
      BY <3>1, LenProperties
    <3>3. \A k \in 1..(m + 1) : r[k] = a[k]
      <4> HIDE DEF r
      <4>1. \A k \in 1..(m + 1) : k \in 1..m \/ k = m + 1
        OBVIOUS
      <4> QED
        BY <2>5, <3>1, <4>1
    <3>4. r = [k \in 1..(m + 1) |-> r[k]]
      OBVIOUS
    <3> HIDE DEF r
    <3>5. r = a
      BY <3>2, <3>3, <3>4
    <3> QED
      BY <3>5 DEF a
  <2>7. m < Cardinality(Nodes) - 1
    <3>1. heap # Nodes
      BY <1>4
    <3>2. m + 1 < Cardinality(Nodes) /\ Cardinality(Nodes) \in Nat
      BY <3>1, <1>1, <1>2, ChainCount
    <3> QED
      BY <3>2
  <2> HIDE DEF q, r
  <2> QED
    BY <1>3, <1>4, <2>4, <2>6, <2>7, LinkedCardinality DEF Linked!F!Insert, Queued
<1>5. ASSUME next' = [next EXCEPT ![last] = Nil], UNCHANGED <<heap, id, first, last>>,
             answer' = <<"enqueue", v, FALSE>>
      PROVE  Linked!F!Refuse(v)
  <2>1. next' = next
    BY <1>1, <1>2, <1>5 DEF Chain, LinkedTypes
  <2>2. LinkedTypes' /\ Chain(c, m)'
    BY <1>1, <1>2, <1>5, <2>1 DEF LinkedTypes, Chain
  <2>3. Queued' = Items(c, m)'
    BY <2>2, QueuedAfter DEF ItemsQueued
  <2>4. Queued' = Queued
    BY <2>3, <1>3, <1>5 DEF Items
  <2> QED
    BY <2>4, <1>5 DEF Linked!F!Refuse, Queued
<1> QED
  BY <1>4, <1>5 DEF Linked!EnQueue

\* A removal takes the oldest item, and fails exactly when there is none.
LEMMA LinkedRemoves ==
  ASSUME LinkedInv, Linked!DeQueue
  PROVE  Linked!F!Remove \/ Linked!F!Nothing
<1>0. PICK m \in Nat : \E c \in [0..m -> Nodes] : Chain(c, m)
  BY DEF LinkedInv
<1>1. PICK c \in [0..m -> Nodes] : Chain(c, m)
  BY <1>0
<1>2. LinkedTypes
  BY DEF LinkedInv
<1> DEFINE q == Items(c, m)
<1>3. Queued = q /\ q \in Seq(Values) /\ Len(q) = m /\ \A k \in 1..m : q[k] = id[c[k]]
  BY <1>1, <1>2, QueuedIs
<1>4. CASE last # first
  <2> DEFINE d == [k \in 0..(m - 1) |-> IF k = 0 THEN c[0] ELSE c[k + 1]]
             r == [k \in 1..(m - 1) |-> id'[d[k]]]
  <2>0. /\ last' = IF last = next[first] THEN first ELSE last
        /\ next' = [next EXCEPT ![first] = next[next[first]]]
        /\ heap' = heap \ {next[first]} /\ id' = id /\ first' = first
        /\ answer' = <<"dequeue", id[next[first]], TRUE>>
    BY <1>4 DEF Linked!DeQueue, Linked!isEmpty
  <2>1. m > 0 /\ next[first] = c[1] /\ LinkedTypes' /\ Chain(d, m - 1)'
    BY <1>1, <1>2, <1>4, <2>0, LinkedDeQueue
  <2>2. d \in [0..(m - 1) -> Nodes] /\ m - 1 \in Nat
    BY <2>1
  <2>3. \A k \in 1..(m - 1) : d[k] = c[k + 1] /\ k + 1 \in 1..m
    BY <2>1
  <2> HIDE DEF d
  <2>4. Queued' = r
    <3>1. Queued' = Items(d, m - 1)'
      BY <2>1, <2>2, QueuedAfter DEF ItemsQueued
    <3> QED
      BY <3>1 DEF Items
  <2>5. \A k \in 1..(m - 1) : r[k] = q[k + 1]
    BY <2>0, <2>3, <1>3
  <2>6. q # <<>> /\ Head(q) = id[c[1]] /\ r = Tail(q)
    <3> HIDE DEF q
    <3>1. q # <<>> /\ Head(q) = id[c[1]]
      BY <1>3, <2>1
    <3> DEFINE t == Tail(q)
    <3>2. t \in Seq(Values) /\ Len(t) = m - 1 /\ \A k \in 1..(m - 1) : t[k] = q[k + 1]
      BY <3>1, <1>3, HeadTailProperties
    <3> HIDE DEF t
    <3>3. t = [k \in 1..(m - 1) |-> t[k]]
      BY <3>2, LenProperties
    <3>4. r = [k \in 1..(m - 1) |-> r[k]]
      OBVIOUS
    <3> HIDE DEF r
    <3>5. r = t
      BY <2>5, <3>2, <3>3, <3>4
    <3> QED
      BY <3>1, <3>5 DEF t
  <2> HIDE DEF q, r
  <2> QED
    BY <1>3, <2>0, <2>1, <2>4, <2>6 DEF Linked!F!Remove, Queued
<1>5. CASE last = first
  <2>1. /\ UNCHANGED <<heap, next, id, first, last>> /\ answer' = <<"dequeue", FALSE>>
    BY <1>5 DEF Linked!DeQueue, Linked!isEmpty
  <2>2. LinkedTypes' /\ Chain(c, m)'
    BY <1>1, <1>2, <2>1 DEF LinkedTypes, Chain
  <2>3. Queued' = Items(c, m)'
    BY <2>2, QueuedAfter DEF ItemsQueued
  <2>4. Queued' = Queued
    BY <2>3, <1>3, <2>1 DEF Items
  <2>5. m = 0
    BY <1>1, <1>5 DEF Chain
  <2>6. Queued = <<>>
    BY <2>5, <1>3
  <2> QED
    BY <2>1, <2>4, <2>6 DEF Linked!F!Nothing, Queued
<1> QED
  BY <1>4, <1>5

\* queueLinkList.c implements the abstract FIFO: every sequence of EnQueue and
\* DeQueue, whatever malloc returns, gives the answers of a queue whose contents
\* are the items from head to tail.
THEOREM LinkedQueueImplementsFifo == LibrarySpec => LinkedImplementsFifo
<1>1. LibraryInit => LinkedInv /\ Linked!F!Init
  <2> SUFFICES ASSUME LibraryInit PROVE LinkedInv /\ Linked!F!Init
    OBVIOUS
  <2>1. Linked!InitQueue
    BY DEF LibraryInit, Standing
  <2>2. LinkedInv
    BY <2>1, LinkedInit
  <2>3. PICK m \in Nat : \E c \in [0..m -> Nodes] : Chain(c, m)
    BY <2>2 DEF LinkedInv
  <2>4. PICK c \in [0..m -> Nodes] : Chain(c, m)
    BY <2>3
  <2>5. m = 0
    BY <2>1, <2>4 DEF Chain, Linked!InitQueue
  <2>6. Queued = Items(c, m) /\ Items(c, m) \in Seq(Values) /\ Len(Items(c, m)) = m
    BY <2>2, <2>4, QueuedIs DEF LinkedInv
  <2>7. Queued = <<>>
    BY <2>5, <2>6
  <2> QED
    BY <2>1, <2>2, <2>7 DEF Linked!F!Init, Linked!InitQueue, Queued
<1>2. LinkedInv /\ [LibraryNext]_allVars => LinkedInv' /\ [Linked!F!Next]_<<Queued, answer>>
  <2> SUFFICES ASSUME LinkedInv, [LibraryNext]_allVars
               PROVE  LinkedInv' /\ [Linked!F!Next]_<<Queued, answer>>
    OBVIOUS
  <2>1. [Linked!Next]_linkedVars
    BY LinkedOfLibrary
  <2>2. LinkedInv'
    BY <2>1, LinkedStep
  <2>3. ASSUME NEW v \in Values, Linked!EnQueue(v) PROVE Linked!F!Next
    BY <2>3, LinkedInserts DEF Linked!F!Next
  <2>4. CASE Linked!DeQueue
    BY <2>2, <2>4, LinkedRemoves DEF Linked!F!Next
  <2>5. CASE UNCHANGED linkedVars
    <3>1. UNCHANGED <<heap, next, id, first, last, answer>>
      BY <2>5 DEF linkedVars
    <3>2. Linked!Reached' = Linked!Reached
      BY <3>1 DEF Linked!Reached
    <3>3. Linked!Length' = Linked!Length
      BY <3>2 DEF Linked!Length
    <3>4. Queued' = Queued
      BY <3>1, <3>2, <3>3 DEF Queued
    <3> QED
      BY <2>2, <3>1, <3>4
  <2> QED
    BY <2>1, <2>2, <2>3, <2>4, <2>5 DEF Linked!Next
<1> QED
  BY <1>1, <1>2, PTL DEF LibrarySpec, LinkedImplementsFifo, Linked!ImplementsFifo, Linked!F!Spec, Queued
-------------------------------------------------------------------------------
(* TransmitPending of the select server.                                   *)

\* The last characters the client was sent are the first l of the response.
EndsWith(r, l) == l <= Len(r) /\ \A k \in 1..l : r[(Len(r) - l) + k] = k

LEMMA ReplySuffix ==
  ASSUME NEW r \in Seq(1..N)
  PROVE  Reply!IsSuffix(Reply!Response, r) <=> EndsWith(r, N)
<1>0. N \in Nat /\ Len(r) \in Nat /\ DOMAIN r = 1..Len(r) /\ r \in [1..Len(r) -> 1..N]
  BY LibraryAssumption, SMTT(30)
<1> DEFINE p == Reply!Reverse(Reply!Response)
           t == Reply!Reverse(r)
<1>1. Reply!Response \in [1..N -> 1..N] /\ \A k \in 1..N : Reply!Response[k] = k
  BY <1>0 DEF Reply!Response
<1>2. Len(Reply!Response) = N /\ Reply!Response \in Seq(1..N)
  BY <1>0, <1>1
<1>3. p = [i \in 1..N |-> (N - i) + 1]
  <2>1. p = [i \in 1..N |-> Reply!Response[(N - i) + 1]]
    BY <1>2 DEF Reply!Reverse
  <2>2. \A i \in 1..N : (N - i) + 1 \in 1..N
    BY <1>0
  <2> QED
    BY <1>1, <2>1, <2>2
<1>4. t = [i \in 1..Len(r) |-> r[(Len(r) - i) + 1]]
  BY DEF Reply!Reverse
<1>5. \A i \in 1..N : (N - i) + 1 \in 1..N /\ p[i] = (N - i) + 1
  BY <1>0, <1>3
<1>6. \A i \in 1..Len(r) : (Len(r) - i) + 1 \in 1..Len(r) /\ t[i] = r[(Len(r) - i) + 1]
  BY <1>0, <1>4
<1>7. p \in Seq(1..N) /\ Len(p) = N
  BY <1>0, <1>3, <1>5
<1>8. t \in Seq(1..N) /\ Len(t) = Len(r)
  BY <1>0, <1>4, <1>6
<1> HIDE DEF p, t
<1>9. Reply!IsSuffix(Reply!Response, r) <=> N <= Len(r) /\ SubSeq(p, 1, N) = SubSeq(t, 1, N)
  BY <1>7, <1>8 DEF Reply!IsSuffix, Reply!IsPrefix, p, t
<1>10. ASSUME N <= Len(r)
       PROVE  SubSeq(p, 1, N) = SubSeq(t, 1, N) <=> \A i \in 1..N : p[i] = t[i]
  <2>1. SubSeq(p, 1, N) = [i \in 1..N |-> p[i]] /\ SubSeq(t, 1, N) = [i \in 1..N |-> t[i]]
    BY <1>0, <1>7, <1>8, <1>10
  <2> QED
    BY <2>1
<1>11. ASSUME N <= Len(r)
       PROVE  (\A i \in 1..N : p[i] = t[i]) <=> \A k \in 1..N : r[(Len(r) - N) + k] = k
  <2>1. ASSUME \A i \in 1..N : p[i] = t[i], NEW k \in 1..N PROVE r[(Len(r) - N) + k] = k
    <3>1. (N - k) + 1 \in 1..N /\ (N - k) + 1 \in 1..Len(r) /\ (N - ((N - k) + 1)) + 1 = k
          /\ (Len(r) - ((N - k) + 1)) + 1 = (Len(r) - N) + k
      BY <1>0, <1>11
    <3>2. p[(N - k) + 1] = k
      BY <3>1, <1>5
    <3>3. t[(N - k) + 1] = r[(Len(r) - N) + k]
      BY <3>1, <1>6
    <3> QED
      BY <2>1, <3>1, <3>2, <3>3
  <2>2. ASSUME \A k \in 1..N : r[(Len(r) - N) + k] = k, NEW i \in 1..N PROVE p[i] = t[i]
    <3>1. (N - i) + 1 \in 1..N /\ i \in 1..Len(r)
          /\ (Len(r) - N) + ((N - i) + 1) = (Len(r) - i) + 1
      BY <1>0, <1>11
    <3>2. r[(Len(r) - N) + ((N - i) + 1)] = (N - i) + 1
      BY <2>2, <3>1
    <3> QED
      BY <3>1, <3>2, <1>5, <1>6
  <2> QED
    BY <2>1, <2>2
<1> QED
  BY <1>9, <1>10, <1>11 DEF EndsWith
LEMMA CharactersSent ==
  ASSUME NEW r \in Seq(1..N), NEW l \in Nat, NEW j \in Nat, l + j <= N, EndsWith(r, l)
  PROVE  /\ r \o [k \in 1..j |-> l + k] \in Seq(1..N)
         /\ EndsWith(r \o [k \in 1..j |-> l + k], l + j)
         /\ Len(r \o [k \in 1..j |-> l + k]) = Len(r) + j
<1> DEFINE e == [k \in 1..j |-> l + k]
           u == r \o e
<1>0. N \in Nat /\ Len(r) \in Nat /\ l <= Len(r)
  BY LibraryAssumption DEF EndsWith
<1>1. e \in [1..j -> 1..N]
  BY <1>0
<1>2. e \in Seq(1..N) /\ Len(e) = j /\ \A k \in 1..j : e[k] = l + k
  BY <1>1
<1> HIDE DEF e
<1>3. /\ u \in Seq(1..N) /\ Len(u) = Len(r) + j
      /\ \A i \in 1..(Len(r) + j) : u[i] = IF i <= Len(r) THEN r[i] ELSE e[i - Len(r)]
  BY <1>2, ConcatProperties
<1> HIDE DEF u
<1>4. l + j <= Len(u) /\ Len(u) - (l + j) = Len(r) - l
  BY <1>0, <1>3
<1>5. ASSUME NEW k \in 1..(l + j) PROVE u[(Len(u) - (l + j)) + k] = k
  <2>1. (Len(r) - l) + k \in 1..(Len(r) + j)
    BY <1>0
  <2>2. CASE k <= l
    <3>1. k \in 1..l /\ (Len(r) - l) + k <= Len(r)
      BY <2>2, <1>0
    <3> QED
      BY <3>1, <2>1, <1>3, <1>4 DEF EndsWith
  <2>3. CASE ~(k <= l)
    <3>1. k - l \in 1..j /\ ~((Len(r) - l) + k <= Len(r)) /\ ((Len(r) - l) + k) - Len(r) = k - l
          /\ l + (k - l) = k
      BY <2>3, <1>0
    <3> QED
      BY <3>1, <2>1, <1>2, <1>3, <1>4
  <2> QED
    BY <2>2, <2>3
<1> QED
  BY <1>3, <1>4, <1>5 DEF EndsWith, u, e

\* The invariant.  While characters are pending, the last ones sent are those
\* before buffer; when none are, the last ones sent are the whole response.  Until
\* EWOULDBLOCK ends a call that has sent a part, nothing else was sent.
Once == EndsWith(received, Len(received)) /\ Len(received) <= N

ReplyInv ==
    /\ Reply!TypeOK
    /\ ~again => Once
    /\ ~again /\ pending = 0 /\ ok => Len(received) = N
    /\ ~again /\ pending = N => Len(received) = IF inCall THEN buffer ELSE 0
    /\ pending = 0 /\ ok => EndsWith(received, N)
    /\ ~ok => pending = 0
    /\ inCall => ok /\ buffer # -1
    /\ inCall /\ pending = N => buffer < N /\ EndsWith(received, buffer)

LEMMA ReplyConsts == N \in Nat /\ N > 0 /\ Room \in Nat /\ Reply!NULL = -1
BY LibraryAssumption DEF Reply!NULL

LEMMA ReplyInit == Reply!Init => ReplyInv
<1> SUFFICES ASSUME Reply!Init PROVE ReplyInv
  OBVIOUS
<1>1. received \in Seq(1..N) /\ received = <<>> /\ pending # 0 /\ ~inCall /\ ok
  BY ReplyConsts DEF Reply!Init
<1>1a. Len(received) = 0 /\ Once
  BY <1>1, ReplyConsts DEF Once, EndsWith
<1>2. Reply!TypeOK
  BY <1>1, ReplyConsts DEF Reply!Init, Reply!TypeOK
<1> QED
  BY <1>1, <1>1a, <1>2 DEF ReplyInv

LEMMA ReplyMin ==
  \A x, y \in Nat : Reply!Min({x, y}) = IF x <= y THEN x ELSE y
BY DEF Reply!Min

\* One call of send.
LEMMA ReplySendSome == ReplyInv /\ Reply!SendSome => ReplyInv'
<1> SUFFICES ASSUME ReplyInv, Reply!SendSome PROVE ReplyInv'
  OBVIOUS
<1>1. PICK count \in 1..room :
        /\ count <= Reply!strlen(pending, buffer) + 1
        /\ room' = room - count
        /\ received' = received \o Reply!Characters(buffer, count)
        /\ pending' = IF Reply!Emptied(count) THEN 0 ELSE pending
        /\ nextBuffer' = IF Reply!Emptied(count) THEN nextBuffer ELSE buffer + count
  BY DEF Reply!SendSome
<1>2. /\ inCall /\ buffer' = nextBuffer' /\ inCall' = (buffer' # -1) /\ ok' = ok /\ broken' = broken
      /\ again' = again
  BY ReplyConsts DEF Reply!SendSome
<1>3. /\ pending \in {0, N} /\ buffer \in 0..(N + 1) /\ nextBuffer \in (0..N) \cup {-1}
      /\ room \in 0..Room /\ received \in Seq(1..N) /\ ok /\ ok \in BOOLEAN /\ broken \in BOOLEAN
      /\ again \in BOOLEAN
  BY <1>2, ReplyConsts DEF ReplyInv, Reply!TypeOK
<1>4. count \in Nat /\ count > 0 /\ room' \in 0..Room
  BY <1>1, <1>3, ReplyConsts
<1>4b. ASSUME pending' = 0, nextBuffer' = nextBuffer, received' \in Seq(1..N), EndsWith(received', N),
              ~again => Len(received') = N
       PROVE  ReplyInv'
  <2>1. inCall' \in BOOLEAN /\ buffer' \in (0..(N + 1)) \cup {-1} /\ pending' # N
    BY <1>2, <1>3, <1>4b, ReplyConsts
  <2>2. Reply!TypeOK'
    BY <2>1, <1>2, <1>3, <1>4, <1>4b, ReplyConsts DEF Reply!TypeOK
  <2>3. ~again => Once'
    BY <1>4b, ReplyConsts DEF Once
  <2> QED
    BY <2>1, <2>2, <2>3, <1>2, <1>3, <1>4b DEF ReplyInv
<1>5. CASE pending = 0
  <2>1. Reply!strlen(0, buffer) = 0 /\ Reply!strlen(0, buffer + count) = 0
    BY <1>3, <1>4, ReplyConsts DEF Reply!strlen
  <2>2. Reply!Emptied(count) /\ Reply!Min({count, 0}) = 0
    BY <2>1, <1>4, <1>5, ReplyMin DEF Reply!Emptied
  <2>3. Reply!Characters(buffer, count) = <<>>
    <3>1. Reply!Characters(buffer, count) = [k \in 1..0 |-> buffer + k]
      BY <2>1, <2>2, <1>5 DEF Reply!Characters
    <3>2. 1..0 = {}
      OBVIOUS
    <3> QED
      BY <3>1, <3>2
  <2>4. received' = received
    BY <2>3, <1>1, <1>3
  <2>5. pending' = 0 /\ nextBuffer' = nextBuffer
    BY <2>2, <1>1
  <2>6. EndsWith(received, N) /\ (~again => Len(received) = N)
    BY <1>3, <1>5 DEF ReplyInv
  <2> QED
    BY <2>4, <2>5, <2>6, <1>3, <1>4b
<1>6. CASE pending = N
  <2>0. buffer < N /\ buffer \in Nat /\ EndsWith(received, buffer)
        /\ (~again => Len(received) = buffer)
    BY <1>2, <1>3, <1>6, ReplyConsts DEF ReplyInv
  <2>1. Reply!strlen(N, buffer) = N - buffer /\ N - buffer \in Nat
    BY <2>0, ReplyConsts DEF Reply!strlen
  <2>2. CASE count < N - buffer
    <3>1. ~Reply!Emptied(count) /\ buffer + count < N /\ buffer + count \in 0..N
      BY <2>0, <2>2, <1>4, <1>6, ReplyConsts DEF Reply!Emptied, Reply!strlen
    <3>2. Reply!Characters(buffer, count) = [k \in 1..count |-> buffer + k]
      BY <2>1, <2>2, <1>4, <1>6, ReplyMin DEF Reply!Characters
    <3>3. received' \in Seq(1..N) /\ EndsWith(received', buffer + count)
          /\ Len(received') = Len(received) + count
      BY <3>1, <3>2, <2>0, <1>1, <1>3, <1>4, CharactersSent, ReplyConsts
    <3>4. pending' = N /\ nextBuffer' = buffer + count /\ buffer' = buffer + count /\ pending' # 0
      BY <3>1, <1>1, <1>2, <1>6, ReplyConsts
    <3>5. ~again => Len(received') = buffer + count /\ Once'
      BY <3>1, <3>3, <2>0, ReplyConsts DEF Once
    <3>6. Reply!TypeOK'
      BY <3>1, <3>3, <3>4, <1>2, <1>3, <1>4, ReplyConsts DEF Reply!TypeOK
    <3>7. buffer' = buffer + count /\ pending' = N /\ EndsWith(received', buffer')
      BY <3>3, <3>4
    <3>7a. buffer' \in Nat /\ buffer' # -1 /\ buffer' < N /\ N # 0
      BY <3>1, <3>4, <2>0, <1>4, ReplyConsts
    <3>7b. inCall' /\ ok'
      BY <3>7a, <1>2, <1>3
    <3>8. again' = again
      BY <1>2
    <3> QED
      BY <3>5, <3>6, <3>7, <3>7a, <3>7b, <3>8 DEF ReplyInv
  <2>3. CASE ~(count < N - buffer)
    <3>1. Reply!Emptied(count)
      BY <2>0, <2>3, <1>4, <1>6, ReplyConsts DEF Reply!Emptied, Reply!strlen
    <3>2. Reply!Characters(buffer, count) = [k \in 1..(N - buffer) |-> buffer + k]
      BY <2>1, <2>3, <1>4, <1>6, ReplyMin DEF Reply!Characters
    <3>3. buffer + (N - buffer) = N
      BY <2>0, ReplyConsts
    <3>4. received' \in Seq(1..N) /\ EndsWith(received', N)
          /\ Len(received') = Len(received) + (N - buffer)
      BY <3>2, <3>3, <2>0, <2>1, <1>1, <1>3, CharactersSent, ReplyConsts
    <3>5. pending' = 0 /\ nextBuffer' = nextBuffer /\ pending' # N
      BY <3>1, <1>1, ReplyConsts
    <3>6. ~again => Len(received') = N
      BY <3>3, <3>4, <2>0
    <3> QED
      BY <3>4, <3>5, <3>6, <1>4b
  <2> QED
    BY <2>2, <2>3
<1> QED
  BY <1>3, <1>5, <1>6

LEMMA ReplyStep == ReplyInv /\ [Reply!Next]_sendVars => ReplyInv'
<1> SUFFICES ASSUME ReplyInv, [Reply!Next]_sendVars PROVE ReplyInv'
  OBVIOUS
<1>0. /\ pending \in {0, N} /\ buffer \in (0..(N + 1)) \cup {-1} /\ nextBuffer \in (0..N) \cup {-1}
      /\ inCall \in BOOLEAN /\ ok \in BOOLEAN /\ broken \in BOOLEAN /\ again \in BOOLEAN
      /\ room \in 0..Room /\ received \in Seq(1..N)
  BY ReplyConsts DEF ReplyInv, Reply!TypeOK
<1>1. CASE Reply!Call
  <2>1. EndsWith(received, 0)
    BY <1>0 DEF EndsWith
  <2> QED
    BY <1>0, <1>1, <2>1, ReplyConsts DEF Reply!Call, ReplyInv, Reply!TypeOK, Once
<1>2. CASE Reply!SendSome
  BY <1>2, ReplySendSome
<1>3. CASE Reply!WouldBlock
  <2>1. Reply!strlen(pending, buffer) = 0 => pending = 0
    BY <1>0, <1>3, ReplyConsts DEF ReplyInv, Reply!strlen, Reply!WouldBlock
  <2>2. pending' = pending
    BY <2>1, <1>3 DEF Reply!WouldBlock
  <2>3. ~again' => ~again /\ (pending # 0 => received = <<>>)
    BY <1>0, <1>3, <2>2 DEF Reply!WouldBlock
  <2>4. received = <<>> => Len(received) = 0
    OBVIOUS
  <2>5. Reply!TypeOK' /\ inCall' = FALSE /\ received' = received /\ ok' = ok
    BY <1>0, <1>3, <2>2, ReplyConsts DEF Reply!WouldBlock, Reply!TypeOK
  <2> QED
    BY <1>0, <2>2, <2>3, <2>4, <2>5, ReplyConsts DEF ReplyInv, Once
<1>4. CASE Reply!Fail
  BY <1>0, <1>4, ReplyConsts DEF Reply!Fail, ReplyInv, Reply!TypeOK, Once
<1>5. CASE Reply!ClientReads
  BY <1>0, <1>5, ReplyConsts DEF Reply!ClientReads, ReplyInv, Reply!TypeOK, Once
<1>6. CASE Reply!Break
  BY <1>0, <1>6, ReplyConsts DEF Reply!Break, ReplyInv, Reply!TypeOK, Once
<1>7. CASE UNCHANGED sendVars
  BY <1>0, <1>7 DEF sendVars, ReplyInv, Reply!TypeOK, Once
<1> QED
  BY <1>1, <1>2, <1>3, <1>4, <1>5, <1>6, <1>7 DEF Reply!Next, Reply!TransmitPending

LEMMA ReplyExact ==
  ReplyInv => Reply!TypeOK /\ Reply!CompleteAtEnd /\ Reply!OnceUnlessBlocked /\ Reply!ErrorReleases
<1> SUFFICES ASSUME ReplyInv
             PROVE  /\ Reply!TypeOK /\ Reply!CompleteAtEnd
                    /\ Reply!OnceUnlessBlocked /\ Reply!ErrorReleases
  OBVIOUS
<1>1. Reply!TypeOK /\ received \in Seq(1..N)
  BY DEF ReplyInv, Reply!TypeOK
<1>2. Reply!OnceUnlessBlocked
  <2>1. DOMAIN received = 1..Len(received) /\ Len(received) \in Nat
    BY <1>1
  <2> QED
    BY <2>1 DEF ReplyInv, Once, EndsWith, Reply!OnceUnlessBlocked
<1> QED
  BY <1>1, <1>2, ReplySuffix DEF ReplyInv, Reply!CompleteAtEnd, Reply!ErrorReleases
-------------------------------------------------------------------------------
(* readLine of read_line.c.                                                *)

\* The first m bytes of the r-th line or record.
Prefix(r, m) == [p \in 1..m |-> <<r, p>>]

LEMMA PrefixShape ==
  ASSUME NEW r \in Nat, NEW m \in Nat
  PROVE  /\ Prefix(r, m) \in Seq(Nat \X Nat) /\ Len(Prefix(r, m)) = m
         /\ DOMAIN Prefix(r, m) = 1..m
         /\ \A p \in 1..m : Prefix(r, m)[p] = <<r, p>>
         /\ Append(Prefix(r, m), <<r, m + 1>>) = Prefix(r, m + 1)
         /\ (Prefix(r, m) = <<>> <=> m = 0)
<1> DEFINE f == Prefix(r, m)
<1>1. f \in [1..m -> Nat \X Nat] /\ \A p \in 1..m : f[p] = <<r, p>>
  BY DEF Prefix
<1>2. f \in Seq(Nat \X Nat) /\ Len(f) = m /\ DOMAIN f = 1..m
  BY <1>1, FunctionIsSeq
<1>3. Append(f, <<r, m + 1>>) = Prefix(r, m + 1)
  <2> DEFINE a == Append(f, <<r, m + 1>>)
  <2> HIDE DEF f
  <2>1. /\ a \in Seq(Nat \X Nat) /\ Len(a) = m + 1 /\ a[m + 1] = <<r, m + 1>>
        /\ \A p \in 1..m : a[p] = f[p]
    BY <1>2, AppendProperties
  <2> HIDE DEF a
  <2>2. a = [p \in 1..(m + 1) |-> a[p]]
    BY <2>1, LenProperties
  <2>3. \A p \in 1..(m + 1) : a[p] = <<r, p>>
    <3>1. \A p \in 1..(m + 1) : p \in 1..m \/ p = m + 1
      OBVIOUS
    <3> QED
      BY <1>1, <2>1, <3>1
  <2>4. a = Prefix(r, m + 1)
    BY <2>2, <2>3 DEF Prefix
  <2> QED
    BY <2>4 DEF a
<1>4. f = <<>> <=> m = 0
  BY <1>2
<1> QED
  BY <1>1, <1>2, <1>3, <1>4

Less(x, y) == IF x <= y THEN x ELSE y

LEMMA FileConsts ==
  /\ FileLens \in Seq(Nat) /\ DOMAIN FileLens = 1..Len(FileLens) /\ Len(FileLens) \in Nat
  /\ (\A k \in 1..Len(FileLens) : FileLens[k] \in Nat /\ FileLens[k] > 0)
  /\ FileRoom \in Nat /\ FileRoom > 0 /\ FileRoom - 1 \in Nat
  /\ File!Bytes = UNION {{<<k, p>> : p \in 1..FileLens[k]} : k \in 1..Len(FileLens)}
  /\ File!Start = <<1, 0>>
  /\ \A x, y \in Nat : File!Min({x, y}) = Less(x, y)
<1>1. FileLens \in Seq(Nat \ {0}) /\ FileRoom \in Nat \ {0}
  BY LibraryAssumption
<1>2. /\ FileLens \in Seq(Nat) /\ DOMAIN FileLens = 1..Len(FileLens) /\ Len(FileLens) \in Nat
      /\ \A k \in 1..Len(FileLens) : FileLens[k] \in Nat /\ FileLens[k] > 0
  BY <1>1
<1>3. \A x, y \in Nat : File!Min({x, y}) = Less(x, y)
  BY DEF File!Min, Less
<1> QED
  BY <1>1, <1>2, <1>3 DEF File!Bytes, File!Start

\* A byte of the file, or the place before the first one.
Place(b) == b = <<1, 0>> \/ b \in File!Bytes

LEMMA PlaceShape ==
  \A b : Place(b) <=> \E k, p \in Nat : /\ b = <<k, p>>
                                        /\ \/ k = 1 /\ p = 0
                                           \/ k \in 1..Len(FileLens) /\ p \in 1..FileLens[k]
<1> SUFFICES ASSUME NEW b
             PROVE  Place(b) <=> \E k, p \in Nat : /\ b = <<k, p>>
                                        /\ \/ k = 1 /\ p = 0
                                           \/ k \in 1..Len(FileLens) /\ p \in 1..FileLens[k]
  OBVIOUS
<1>1. b \in File!Bytes <=> \E k \in 1..Len(FileLens) : \E p \in 1..FileLens[k] : b = <<k, p>>
  BY FileConsts, SMTT(30)
<1>2. \A k \in 1..Len(FileLens) : k \in Nat /\ \A p \in 1..FileLens[k] : p \in Nat
  BY FileConsts
<1> QED
  BY <1>1, <1>2 DEF Place

\* The invariant.  What was returned of the lines up to the last byte read, and
\* what the call in progress has of its line; a call that ended with the file
\* has returned the part of a line that there was.
Got(r) == IF r < taken[1] THEN FileLens[r] ELSE taken[2]

InLine ==
    /\ Len(returned) = taken[1] - 1 /\ line = Prefix(taken[1], Less(FileRoom - 1, taken[2]))
    /\ taken = <<1, 0>> \/ taken[2] < FileLens[taken[1]]
BetweenLines ==
    /\ Len(returned) = taken[1] /\ line = <<>> /\ taken # <<1, 0>>
    /\ taken[2] = FileLens[taken[1]] \/ (ends /\ taken = given)

FileInv ==
    /\ Place(given) /\ Place(taken) /\ ~File!Before(given, taken)
    /\ ends \in BOOLEAN /\ ended \in {"no", "eof", "error"}
    /\ returned \in Seq(Seq(Nat \X Nat))
    /\ \A r \in 1..Len(returned) : returned[r] = Prefix(r, Less(FileRoom - 1, Got(r)))
    /\ InLine \/ BetweenLines

LEMMA FileInit == File!Init => FileInv
<1> SUFFICES ASSUME File!Init PROVE FileInv
  OBVIOUS
<1>1. /\ given = <<1, 0>> /\ taken = <<1, 0>> /\ ends = FALSE /\ ended = "no"
      /\ returned = <<>> /\ line = <<>>
  BY DEF File!Init, File!Start
<1>2. Place(given) /\ Place(taken) /\ ~File!Before(given, taken)
  BY <1>1 DEF Place, File!Before
<1>3. Less(FileRoom - 1, 0) = 0
  BY FileConsts DEF Less
<1>4. Prefix(1, 0) = <<>>
  BY PrefixShape
<1>5. InLine
  BY <1>1, <1>3, <1>4 DEF InLine
<1>6. returned \in Seq(Seq(Nat \X Nat)) /\ 1..Len(returned) = {}
  BY <1>1
<1> QED
  BY <1>1, <1>2, <1>5, <1>6 DEF FileInv
\* The places as numbers.
LEMMA FilePlaces ==
  ASSUME FileInv
  PROVE  /\ taken = <<taken[1], taken[2]>> /\ taken[1] \in Nat /\ taken[2] \in Nat
         /\ given = <<given[1], given[2]>> /\ given[1] \in Nat /\ given[2] \in Nat
         /\ taken = <<1, 0>> \/ (taken[1] \in 1..Len(FileLens) /\ taken[2] \in 1..FileLens[taken[1]])
         /\ given = <<1, 0>> \/ (given[1] \in 1..Len(FileLens) /\ given[2] \in 1..FileLens[given[1]])
         /\ taken[1] < given[1] \/ (taken[1] = given[1] /\ taken[2] <= given[2])
         /\ taken[1] > 0
<1>1. PICK k, p \in Nat : taken = <<k, p>> /\ (\/ k = 1 /\ p = 0
                                               \/ k \in 1..Len(FileLens) /\ p \in 1..FileLens[k])
  BY PlaceShape DEF FileInv
<1>2. PICK i, q \in Nat : given = <<i, q>> /\ (\/ i = 1 /\ q = 0
                                               \/ i \in 1..Len(FileLens) /\ q \in 1..FileLens[i])
  BY PlaceShape DEF FileInv
<1>3. ~(i < k \/ (i = k /\ q < p))
  BY <1>1, <1>2 DEF FileInv, File!Before
<1> QED
  BY <1>1, <1>2, <1>3

\* What follows a byte that was read, when there is more.
LEMMA FileAfter ==
  ASSUME FileInv, taken # given, InLine \/ BetweenLines
  PROVE  /\ taken[1] \in 1..Len(FileLens)
         /\ File!After(taken) = IF InLine THEN <<taken[1], taken[2] + 1>> ELSE <<taken[1] + 1, 1>>
         /\ Place(File!After(taken)) /\ ~File!Before(given, File!After(taken))
<1> DEFINE k == taken[1]
           p == taken[2]
           i == given[1]
           q == given[2]
<1>1. /\ taken = <<k, p>> /\ k \in Nat /\ p \in Nat /\ given = <<i, q>> /\ i \in Nat /\ q \in Nat
      /\ taken = <<1, 0>> \/ (k \in 1..Len(FileLens) /\ p \in 1..FileLens[k])
      /\ given = <<1, 0>> \/ (i \in 1..Len(FileLens) /\ q \in 1..FileLens[i])
      /\ k < i \/ (k = i /\ p <= q)
      /\ k > 0
  BY FilePlaces
<1> HIDE DEF k, p, i, q
<1>2. k < i \/ (k = i /\ p < q)
  BY <1>1
<1>3. given # <<1, 0>> /\ i \in 1..Len(FileLens) /\ q \in 1..FileLens[i] /\ k \in 1..Len(FileLens)
  BY <1>1, <1>2, FileConsts
<1>4. FileLens[k] \in Nat /\ FileLens[k] > 0 /\ FileLens[i] \in Nat
  BY <1>3, FileConsts
<1>5. p < FileLens[k] \/ p = FileLens[k]
  BY <1>1, <1>4
<1>6. InLine <=> p < FileLens[k]
  <2>1. ASSUME InLine PROVE p < FileLens[k]
    BY <2>1, <1>1, <1>4 DEF InLine, k, p
  <2>2. ASSUME BetweenLines PROVE p = FileLens[k]
    BY <2>2 DEF BetweenLines, k, p
  <2> QED
    BY <2>1, <2>2, <1>1, <1>4
<1>7. CASE InLine
  <2>1. File!After(taken) = <<k, p + 1>>
    BY <1>1, <1>4, <1>6, <1>7 DEF File!After, File!Newline, k, p
  <2>2. p + 1 \in 1..FileLens[k]
    BY <1>1, <1>4, <1>6, <1>7
  <2>3. ~(i < k \/ (i = k /\ q < p + 1))
    BY <1>1, <1>2, <1>3, <1>4
  <2>4. ~File!Before(given, <<k, p + 1>>)
    BY <2>3, <1>1 DEF File!Before, i, q
  <2>5. Place(<<k, p + 1>>)
    BY <2>2, <1>1, <1>3, PlaceShape
  <2> QED
    BY <2>1, <2>4, <2>5, <1>3, <1>7 DEF k, p
<1>8. CASE ~InLine
  <2>0. p = FileLens[k]
    BY <1>5, <1>6, <1>8
  <2>1. File!After(taken) = <<k + 1, 1>>
    BY <2>0 DEF File!After, File!Newline, k, p
  <2>2. k < i
    BY <2>0, <1>1, <1>2, <1>3, <1>4
  <2>3. k + 1 \in 1..Len(FileLens) /\ ~(i < k + 1 \/ (i = k + 1 /\ q < 1))
    BY <2>2, <1>1, <1>3, <1>4, FileConsts
  <2>4. ~File!Before(given, <<k + 1, 1>>)
    BY <2>3 DEF File!Before, i, q
  <2>5. 1 \in 1..FileLens[k + 1]
    BY <2>3, FileConsts
  <2>6. Place(<<k + 1, 1>>)
    BY <2>3, <2>5, PlaceShape
  <2> QED
    BY <2>1, <2>4, <2>6, <1>3, <1>8 DEF k, p
<1> QED
  BY <1>7, <1>8

\* Lines that were returned stay what they should be.
LEMMA FileAppend ==
  ASSUME NEW S, NEW s \in Seq(S), NEW e \in S
  PROVE  /\ Append(s, e) \in Seq(S) /\ Len(Append(s, e)) = Len(s) + 1 /\ Len(s) \in Nat
         /\ Append(s, e)[Len(s) + 1] = e /\ \A r \in 1..Len(s) : Append(s, e)[r] = s[r]
BY AppendProperties

LEMMA FileRead == FileInv /\ File!Read => FileInv'
<1> SUFFICES ASSUME FileInv, File!Read PROVE FileInv'
  OBVIOUS
<1>0. PICK b : b = File!After(taken)
  OBVIOUS
<1>0a. PICK k : k = b[1]
  OBVIOUS
<1>0b. PICK p : p = b[2]
  OBVIOUS
<1> DEFINE kept == IF Len(line) < FileRoom - 1 THEN Append(line, b) ELSE line
<1>1. /\ taken # given /\ taken' = b /\ given' = given /\ ends' = ends /\ ended' = ended
      /\ \/ p = FileLens[k] /\ returned' = Append(returned, kept) /\ line' = <<>>
         \/ p # FileLens[k] /\ line' = kept /\ returned' = returned
  BY <1>0, <1>0a, <1>0b DEF File!Read, File!EndsLine, File!Newline, File!Return, File!Fits
<1>2. InLine \/ BetweenLines
  BY DEF FileInv
<1>3. /\ taken[1] \in 1..Len(FileLens) /\ Place(b) /\ ~File!Before(given, b)
      /\ b = IF InLine THEN <<taken[1], taken[2] + 1>> ELSE <<taken[1] + 1, 1>>
  BY <1>0, <1>1, <1>2, FileAfter
<1>4. taken[1] \in Nat /\ taken[2] \in Nat /\ taken[1] > 0
  BY FilePlaces
<1>5. b = <<k, p>> /\ k \in Nat /\ p \in Nat /\ p > 0 /\ k > 0
  BY <1>0a, <1>0b, <1>3, <1>4
<1>6. k \in 1..Len(FileLens) /\ p \in 1..FileLens[k] /\ FileLens[k] \in Nat
  <2>1. PICK i, q \in Nat : b = <<i, q>> /\ (\/ i = 1 /\ q = 0
                                             \/ i \in 1..Len(FileLens) /\ q \in 1..FileLens[i])
    BY <1>3, PlaceShape
  <2>2. i = k /\ q = p
    BY <2>1, <1>5
  <2> QED
    BY <2>1, <2>2, <1>5, FileConsts
<1>7. Len(returned) = k - 1 /\ line = Prefix(k, Less(FileRoom - 1, p - 1)) /\ p - 1 \in Nat
  <2>1. CASE InLine
    <3>1. k = taken[1] /\ p = taken[2] + 1 /\ p - 1 = taken[2]
      BY <2>1, <1>0a, <1>0b, <1>3, <1>4
    <3> QED
      BY <3>1, <2>1, <1>4 DEF InLine
  <2>2. CASE ~InLine
    <3>1. k = taken[1] + 1 /\ p = 1 /\ p - 1 = 0 /\ k - 1 = taken[1]
      BY <2>2, <1>0a, <1>0b, <1>3, <1>4
    <3>2. Len(returned) = taken[1] /\ line = <<>>
      BY <2>2, <1>2 DEF BetweenLines
    <3>3. Less(FileRoom - 1, 0) = 0
      BY FileConsts DEF Less
    <3>4. Prefix(k, 0) = <<>>
      BY PrefixShape, <1>5
    <3> QED
      BY <3>1, <3>2, <3>3, <3>4
  <2> QED
    BY <2>1, <2>2
<1>8. kept = Prefix(k, Less(FileRoom - 1, p))
  <2> DEFINE m == Less(FileRoom - 1, p - 1)
  <2>1. m \in Nat
    BY <1>7, FileConsts DEF Less
  <2>2. /\ m < FileRoom - 1 => m = p - 1 /\ Less(FileRoom - 1, p) = m + 1
        /\ ~(m < FileRoom - 1) => Less(FileRoom - 1, p) = m
    BY <1>5, <1>7, FileConsts DEF Less
  <2> HIDE DEF m
  <2>3. Len(line) = m /\ line = Prefix(k, m)
    BY <2>1, <1>5, <1>7, PrefixShape DEF m
  <2>4. CASE m < FileRoom - 1
    <3>1. b = <<k, m + 1>>
      BY <2>2, <2>4, <1>5
    <3>2. Append(line, b) = Prefix(k, m + 1)
      <4>1. Append(Prefix(k, m), <<k, m + 1>>) = Prefix(k, m + 1)
        BY <2>1, <1>5, PrefixShape
      <4> QED
        BY <4>1, <2>3, <3>1
    <3> QED
      BY <2>2, <2>3, <2>4, <3>2
  <2>5. CASE ~(m < FileRoom - 1)
    BY <2>2, <2>3, <2>5
  <2> QED
    BY <2>4, <2>5
<1>9. kept \in Seq(Nat \X Nat)
  <2>1. Less(FileRoom - 1, p) \in Nat
    BY <1>5, FileConsts DEF Less
  <2> QED
    BY <2>1, <1>5, <1>8, PrefixShape
<1> HIDE DEF kept
<1>10. taken'[1] = k /\ taken'[2] = p /\ taken' = <<k, p>> /\ taken' # <<1, 0>>
  BY <1>1, <1>5
<1>11. /\ returned \in Seq(Seq(Nat \X Nat)) /\ Len(returned) \in Nat
       /\ \A r \in 1..(k - 1) : returned[r] = Prefix(r, Less(FileRoom - 1, FileLens[r]))
  <2>1. returned \in Seq(Seq(Nat \X Nat)) /\ Len(returned) \in Nat
    BY DEF FileInv
  <2>2. ASSUME NEW r \in 1..(k - 1) PROVE Got(r) = FileLens[r] /\ r \in 1..Len(returned)
    <3>1. CASE InLine
      <4>1. k = taken[1]
        BY <3>1, <1>0a, <1>3
      <4> QED
        BY <4>1, <1>5, <1>7 DEF Got
    <3>2. CASE ~InLine
      <4>1. k = taken[1] + 1 /\ taken[2] = FileLens[taken[1]]
        BY <3>2, <1>0a, <1>1, <1>2, <1>3 DEF BetweenLines
      <4>2. r = taken[1] \/ r < taken[1]
        BY <4>1, <1>4
      <4> QED
        BY <4>1, <4>2, <1>4, <1>5, <1>7 DEF Got
    <3> QED
      BY <3>1, <3>2
  <2> QED
    BY <2>1, <2>2 DEF FileInv
<1>12. /\ Place(given') /\ Place(taken') /\ ~File!Before(given', taken')
       /\ ends' \in BOOLEAN /\ ended' \in {"no", "eof", "error"}
  <2>1. Place(given) /\ ends \in BOOLEAN /\ ended \in {"no", "eof", "error"}
    BY DEF FileInv
  <2> QED
    BY <2>1, <1>1, <1>3
<1>13. \A r \in 1..(k - 1) : Got(r)' = FileLens[r]
  BY <1>10, <1>5 DEF Got
<1>14. CASE p = FileLens[k]
  <2>1. returned' = Append(returned, kept) /\ line' = <<>>
    BY <1>1, <1>14
  <2>2. /\ returned' \in Seq(Seq(Nat \X Nat)) /\ Len(returned') = k /\ returned'[k] = kept
        /\ \A r \in 1..(k - 1) : returned'[r] = returned[r]
    <3>1. Len(returned) = k - 1 /\ Len(returned) + 1 = k
      BY <1>5, <1>7
    <3> DEFINE S == Seq(Nat \X Nat)
    <3>2. returned \in Seq(S) /\ kept \in S
      BY <1>9, <1>11
    <3> HIDE DEF S
    <3>3. /\ Append(returned, kept) \in Seq(S) /\ Len(Append(returned, kept)) = Len(returned) + 1
          /\ Append(returned, kept)[Len(returned) + 1] = kept
          /\ \A r \in 1..Len(returned) : Append(returned, kept)[r] = returned[r]
      BY <3>2, FileAppend
    <3> QED
      BY <2>1, <3>1, <3>3 DEF S
  <2>3. Got(k)' = p
    <3>1. ~(k < k)
      BY <1>5
    <3> QED
      BY <3>1, <1>10 DEF Got
  <2>4. ASSUME NEW r \in 1..Len(returned') PROVE returned'[r] = Prefix(r, Less(FileRoom - 1, Got(r)'))
    <3>1. r = k \/ r \in 1..(k - 1)
      BY <2>2, <1>5
    <3> QED
      BY <3>1, <2>2, <2>3, <1>8, <1>11, <1>13
  <2>5. BetweenLines'
    BY <2>1, <2>2, <1>10, <1>14 DEF BetweenLines
  <2> QED
    BY <2>2, <2>4, <2>5, <1>12 DEF FileInv
<1>15. CASE p # FileLens[k]
  <2>1. returned' = returned /\ line' = kept
    BY <1>1, <1>15
  <2>2. InLine'
    <3>1. p < FileLens[k]
      BY <1>5, <1>6, <1>15
    <3> QED
      BY <2>1, <3>1, <1>7, <1>8, <1>10 DEF InLine
  <2>3. \A r \in 1..Len(returned') : returned'[r] = Prefix(r, Less(FileRoom - 1, Got(r)'))
    BY <2>1, <1>7, <1>11, <1>13
  <2> QED
    BY <2>1, <2>2, <2>3, <1>11, <1>12 DEF FileInv
<1> QED
  BY <1>14, <1>15

\* The sender goes on, or closes; nothing that was read changes.
LEMMA FileSender == FileInv /\ (File!Send \/ File!Close) => FileInv'
<1> SUFFICES ASSUME FileInv, File!Send \/ File!Close PROVE FileInv'
  OBVIOUS
<1>1. UNCHANGED <<taken, line, returned, ended>> /\ ends = FALSE
  BY DEF FileInv, File!Send, File!Close
<1>2. Place(taken') /\ ended' \in {"no", "eof", "error"} /\ ends' \in BOOLEAN
  BY <1>1 DEF FileInv, File!Send, File!Close
<1>3. Place(given') /\ ~File!Before(given', taken')
  <2>1. CASE File!Send
    <3>1. PICK b \in File!Bytes : File!Before(given, b) /\ given' = b
      BY <2>1 DEF File!Send
    <3>2. PICK i \in 1..Len(FileLens) : \E q \in 1..FileLens[i] : b = <<i, q>>
      BY <3>1, FileConsts
    <3>3. PICK q \in 1..FileLens[i] : b = <<i, q>>
      BY <3>2
    <3>4. i \in Nat /\ q \in Nat
      BY <3>2, <3>3, FileConsts
    <3>5. given[1] < i \/ (given[1] = i /\ given[2] < q)
      BY <3>1, <3>3 DEF File!Before
    <3>6. /\ taken[1] \in Nat /\ taken[2] \in Nat /\ given[1] \in Nat /\ given[2] \in Nat
          /\ taken[1] < given[1] \/ (taken[1] = given[1] /\ taken[2] <= given[2])
      BY FilePlaces
    <3>7. ~(i < taken[1] \/ (i = taken[1] /\ q < taken[2]))
      BY <3>4, <3>5, <3>6
    <3>8. ~File!Before(given', taken')
      BY <3>1, <3>3, <3>7, <1>1 DEF File!Before
    <3> QED
      BY <3>1, <3>8 DEF Place
  <2>2. CASE File!Close
    BY <2>2, <1>1 DEF File!Close, FileInv, File!Before
  <2> QED
    BY <2>1, <2>2
<1>4. InLine => InLine'
  BY <1>1 DEF InLine
<1>5. BetweenLines => BetweenLines'
  BY <1>1 DEF BetweenLines
<1>6. /\ returned' \in Seq(Seq(Nat \X Nat))
      /\ \A r \in 1..Len(returned') : returned'[r] = Prefix(r, Less(FileRoom - 1, Got(r)'))
  BY <1>1 DEF FileInv, Got
<1> QED
  BY <1>2, <1>3, <1>4, <1>5, <1>6 DEF FileInv

LEMMA FileEof == FileInv /\ File!Eof => FileInv'
<1> SUFFICES ASSUME FileInv, File!Eof PROVE FileInv'
  OBVIOUS
<1>1. /\ UNCHANGED <<given, ends, taken>> /\ ends = TRUE /\ taken = given
      /\ \/ line = <<>> /\ ended' = "eof" /\ UNCHANGED <<line, returned>>
         \/ /\ line # <<>> /\ ended' = ended /\ line' = <<>>
            /\ returned' = Append(returned, line)
  BY DEF File!Eof, File!Return, FileInv
<1>2. /\ Place(given') /\ Place(taken') /\ ~File!Before(given', taken')
      /\ ends' \in BOOLEAN /\ ended' \in {"no", "eof", "error"}
  BY <1>1 DEF FileInv, File!Before
<1>3. CASE line = <<>>
  <2>1. UNCHANGED <<line, returned>>
    BY <1>1, <1>3
  <2>2. InLine' \/ BetweenLines'
    BY <1>1, <2>1 DEF FileInv, InLine, BetweenLines
  <2>3. /\ returned' \in Seq(Seq(Nat \X Nat))
        /\ \A r \in 1..Len(returned') : returned'[r] = Prefix(r, Less(FileRoom - 1, Got(r)'))
    BY <1>1, <2>1 DEF FileInv, Got
  <2> QED
    BY <1>2, <2>2, <2>3 DEF FileInv
<1>4. CASE line # <<>>
  <2>1. InLine
    BY <1>4 DEF FileInv, BetweenLines
  <2>2. PICK k : k = taken[1]
    OBVIOUS
  <2>3. PICK p : p = taken[2]
    OBVIOUS
  <2>4. taken = <<k, p>> /\ k \in Nat /\ p \in Nat /\ k > 0
    BY FilePlaces, <2>2, <2>3
  <2>5. Len(returned) = k - 1 /\ line = Prefix(k, Less(FileRoom - 1, p))
    BY <2>1, <2>2, <2>3 DEF InLine
  <2>6. Less(FileRoom - 1, p) \in Nat /\ (p = 0 => Less(FileRoom - 1, p) = 0)
    BY <2>4, FileConsts DEF Less
  <2>7. line \in Seq(Nat \X Nat) /\ p # 0
    BY <2>4, <2>5, <2>6, <1>4, PrefixShape
  <2>8. taken' = <<k, p>> /\ taken'[1] = k /\ taken'[2] = p /\ taken' # <<1, 0>>
    BY <2>4, <2>7, <1>1
  <2>9. returned \in Seq(Seq(Nat \X Nat))
    BY DEF FileInv
  <2>10. /\ returned' \in Seq(Seq(Nat \X Nat)) /\ Len(returned') = k /\ returned'[k] = line
         /\ \A r \in 1..(k - 1) : returned'[r] = returned[r]
    <3>1. Len(returned) = k - 1 /\ Len(returned) + 1 = k
      BY <2>4, <2>5
    <3> DEFINE S == Seq(Nat \X Nat)
    <3>2. returned \in Seq(S) /\ line \in S
      BY <2>7, <2>9
    <3> HIDE DEF S
    <3>3. /\ Append(returned, line) \in Seq(S) /\ Len(Append(returned, line)) = Len(returned) + 1
          /\ Append(returned, line)[Len(returned) + 1] = line
          /\ \A r \in 1..Len(returned) : Append(returned, line)[r] = returned[r]
      BY <3>2, FileAppend
    <3> QED
      BY <1>1, <1>4, <3>1, <3>3 DEF S
  <2>11. BetweenLines'
    BY <2>8, <2>10, <1>1, <1>4 DEF BetweenLines
  <2>12. ASSUME NEW r \in 1..Len(returned')
         PROVE  returned'[r] = Prefix(r, Less(FileRoom - 1, Got(r)'))
    <3>1. r = k \/ r \in 1..(k - 1)
      BY <2>4, <2>10
    <3>2. CASE r = k
      <4>1. Got(k)' = p
        <5>1. ~(k < k)
          BY <2>4
        <5> QED
          BY <5>1, <2>8 DEF Got
      <4> QED
        BY <3>2, <4>1, <2>5, <2>10
    <3>3. CASE r \in 1..(k - 1)
      <4>1. Got(r)' = Got(r)
        BY <1>1 DEF Got
      <4>2. r \in 1..Len(returned)
        BY <3>3, <2>5
      <4> QED
        BY <3>3, <4>1, <4>2, <2>10 DEF FileInv
    <3> QED
      BY <3>1, <3>2, <3>3
  <2> QED
    BY <1>2, <2>10, <2>11, <2>12 DEF FileInv
<1> QED
  BY <1>3, <1>4

LEMMA FileStep == FileInv /\ [File!Next]_fileVars => FileInv'
<1>1. FileInv /\ UNCHANGED fileVars => FileInv'
  BY DEF fileVars, FileInv, Place, File!Before, InLine, BetweenLines, Got
<1>2. FileInv /\ File!Fails => FileInv'
  BY DEF File!Fails, FileInv, Place, File!Before, InLine, BetweenLines, Got
<1> QED
  BY <1>1, <1>2, FileRead, FileSender, FileEof DEF File!Next

LEMMA PrefixOfPrefix ==
  ASSUME NEW r \in Nat, NEW c \in Nat, NEW m \in 0..c
  PROVE  SubSeq(Prefix(r, c), 1, m) = Prefix(r, m)
<1> DEFINE s == Prefix(r, m)
           t == Prefix(r, c)
           B == Nat \X Nat
<1>0. m \in Nat /\ m <= c
  OBVIOUS
<1>1a. s \in Seq(B) /\ Len(s) = m /\ \A p \in 1..m : s[p] = <<r, p>>
  BY <1>0, PrefixShape
<1>1b. t \in Seq(B) /\ Len(t) = c /\ \A p \in 1..c : t[p] = <<r, p>>
  BY PrefixShape
<1>1c. \A p \in Nat : <<r, p>> \in B
  OBVIOUS
<1> HIDE DEF s, t, B
<1>1. s \in Seq(B) /\ Len(s) = m /\ t \in Seq(B) /\ Len(t) = c /\ m \in Nat /\ m <= c
  BY <1>0, <1>1a, <1>1b
<1>2. \A p \in 1..m : s[p] = t[p] /\ t[p] \in B
  <2>1. \A p \in 1..m : p \in 1..c /\ p \in Nat
    BY <1>1
  <2> QED
    BY <1>1a, <1>1b, <1>1c, <2>1
<1>4. /\ SubSeq(t, 1, m) \in Seq(B) /\ Len(SubSeq(t, 1, m)) = m
      /\ \A p \in 1..m : SubSeq(t, 1, m)[p] = t[p]
  <2>1. 1 \in Int /\ m \in Int /\ \A i \in 1..m : t[i] \in B
    BY <1>1, <1>2
  <2>2. /\ SubSeq(t, 1, m) \in Seq(B) /\ Len(SubSeq(t, 1, m)) = IF 1 <= m THEN m - 1 + 1 ELSE 0
        /\ \A i \in 1..(m - 1 + 1) : SubSeq(t, 1, m)[i] = t[1 + i - 1]
    BY <2>1, SubSeqProperties
  <2>3. m - 1 + 1 = m /\ (IF 1 <= m THEN m - 1 + 1 ELSE 0) = m /\ \A i \in 1..m : 1 + i - 1 = i
    BY <1>1
  <2> QED
    BY <2>2, <2>3
<1>5. SubSeq(t, 1, m) = s
  BY <1>1, <1>2, <1>4, SeqEqual
<1> QED
  BY <1>5 DEF s, t

LEMMA FileExact == FileInv => File!TypeOK /\ File!LinesTruncated
<1> SUFFICES ASSUME FileInv PROVE File!TypeOK /\ File!LinesTruncated
  OBVIOUS
<1> DEFINE k == taken[1]
           p == taken[2]
           i == given[1]
           q == given[2]
<1>1. /\ taken = <<k, p>> /\ k \in Nat /\ p \in Nat /\ given = <<i, q>> /\ i \in Nat /\ q \in Nat
      /\ taken = <<1, 0>> \/ (k \in 1..Len(FileLens) /\ p \in 1..FileLens[k])
      /\ given = <<1, 0>> \/ (i \in 1..Len(FileLens) /\ q \in 1..FileLens[i])
      /\ k < i \/ (k = i /\ p <= q)
      /\ k > 0
  BY FilePlaces
<1> HIDE DEF k, p, i, q
<1>2. Len(returned) \in Nat /\ DOMAIN returned = 1..Len(returned)
  BY DEF FileInv
<1>3. Len(returned) <= Len(FileLens) /\ Len(returned) <= k
  <2>1. CASE InLine
    <3>1. Len(returned) = k - 1
      BY <2>1 DEF InLine, k
    <3>2. k = 1 \/ k \in 1..Len(FileLens)
      BY <1>1
    <3> QED
      BY <3>1, <3>2, <1>1, FileConsts
  <2>2. CASE BetweenLines
    <3>1. Len(returned) = k /\ taken # <<1, 0>>
      BY <2>2 DEF BetweenLines, k
    <3> QED
      BY <3>1, <1>1, FileConsts
  <2> QED
    BY <2>1, <2>2 DEF FileInv
<1>4. Less(FileRoom - 1, p) \in Nat /\ Less(FileRoom - 1, p) < FileRoom
  BY <1>1, FileConsts DEF Less
<1>5. Len(line) < FileRoom
  <2>1. CASE InLine
    <3>1. line = Prefix(k, Less(FileRoom - 1, p))
      BY <2>1 DEF InLine, k, p
    <3> QED
      BY <3>1, <1>1, <1>4, PrefixShape
  <2>2. CASE BetweenLines
    <3>1. Len(line) = 0
      BY <2>2 DEF BetweenLines
    <3> QED
      BY <3>1, FileConsts
  <2> QED
    BY <2>1, <2>2 DEF FileInv
<1>6. ASSUME NEW r \in 1..Len(returned)
      PROVE  /\ r \in Nat /\ Got(r) \in Nat
             /\ File!Line(r) = Prefix(r, Got(r))
  <2>1. r \in Nat /\ r > 0 /\ r <= k /\ r \in 1..Len(FileLens)
    BY <1>1, <1>2, <1>3, FileConsts, SMTT(30)
  <2>2. FileLens[r] \in Nat
    BY <2>1, FileConsts
  <2>3. Got(r) = IF r < k THEN FileLens[r] ELSE p
    BY DEF Got, k, p
  <2>4. Got(r) = IF r < i THEN FileLens[r] ELSE IF r = i THEN q ELSE 0
    <3>1. CASE r < k
      BY <3>1, <2>1, <2>3, <1>1
    <3>2. CASE r = k
      <4>0. Got(r) = p
        BY <3>2, <2>1, <2>3
      <4>1. Len(returned) = k
        <5>1. r <= Len(returned)
          BY <1>2
        <5>2. k <= Len(returned) /\ Len(returned) <= k /\ k \in Nat /\ Len(returned) \in Nat
          BY <5>1, <3>2, <1>1, <1>2, <1>3
        <5> QED
          BY <5>2
      <4>2. BetweenLines
        <5>1. InLine => Len(returned) = k - 1
          BY DEF InLine, k
        <5> QED
          BY <4>1, <5>1, <1>1 DEF FileInv
      <4>3. p = FileLens[k] \/ (p = q /\ i = k)
        BY <4>2 DEF BetweenLines, k, p, i, q
      <4>4. CASE p = FileLens[k]
        <5>1. CASE r < i
          BY <4>0, <4>4, <5>1, <3>2
        <5>2. CASE r = i
          <6>1. p <= q /\ q <= FileLens[k]
            BY <5>2, <4>4, <3>2, <2>1, <2>2, <1>1
          <6>2. p = q
            BY <6>1, <4>4, <2>2, <3>2, <1>1
          <6> QED
            BY <6>2, <5>2, <4>0, <2>1
        <5> QED
          BY <5>1, <5>2, <3>2, <1>1
      <4>5. CASE p = q /\ i = k
        BY <4>0, <4>5, <3>2, <2>1
      <4> QED
        BY <4>3, <4>4, <4>5
    <3> QED
      BY <3>1, <3>2, <2>1, <1>1
  <2>5. File!Line(r) = Prefix(r, Got(r))
    BY <2>4 DEF File!Line, Prefix, i, q
  <2> QED
    BY <2>1, <2>2, <2>3, <2>5, <1>1
<1>7. ASSUME NEW r \in 1..Len(returned)
      PROVE  /\ Len(returned[r]) < FileRoom
             /\ returned[r] = SubSeq(File!Line(r), 1, File!Min({FileRoom - 1, Len(File!Line(r))}))
  <2> DEFINE g == Got(r)
  <2>1. r \in Nat /\ g \in Nat /\ File!Line(r) = Prefix(r, g)
    BY <1>6
  <2>2. returned[r] = Prefix(r, Less(FileRoom - 1, g))
    BY DEF FileInv
  <2> HIDE DEF g
  <2>3. Less(FileRoom - 1, g) \in 0..g /\ Less(FileRoom - 1, g) \in Nat /\ Less(FileRoom - 1, g) < FileRoom
    BY <2>1, FileConsts DEF Less
  <2>4. Len(returned[r]) = Less(FileRoom - 1, g)
    BY <2>1, <2>2, <2>3, PrefixShape
  <2>5. File!Min({FileRoom - 1, g}) = Less(FileRoom - 1, g)
    BY <2>1, FileConsts
  <2>6. Len(File!Line(r)) = g
    BY <2>1, PrefixShape
  <2>7. SubSeq(File!Line(r), 1, Less(FileRoom - 1, g)) = returned[r]
    BY <2>1, <2>2, <2>3, PrefixOfPrefix
  <2> QED
    BY <2>3, <2>4, <2>5, <2>6, <2>7
<1>8. {given, taken} \subseteq File!Bytes \cup {File!Start} /\ ~File!Before(given, taken)
  BY FileConsts DEF FileInv, Place
<1> QED
  BY <1>2, <1>3, <1>5, <1>7, <1>8 DEF File!TypeOK, File!LinesTruncated, FileInv
-------------------------------------------------------------------------------
(* Bytes of a stream on their way: each is followed by the next byte of its  *)
(* line or record, or by the first one of the next.  L has their lengths.    *)

Byte == Nat \X Nat
Following(L, b) == IF b[2] = L[b[1]] THEN <<b[1] + 1, 1>> ELSE <<b[1], b[2] + 1>>

\* w is a run of bytes, and e the one that will follow it.
Run(L, w, e) ==
    /\ w \in Seq(Byte) /\ e \in Byte
    /\ \A i \in 1..Len(w) :
          /\ w[i][1] \in 1..Len(L) /\ w[i][2] \in 1..L[w[i][1]]
          /\ Following(L, w[i]) = IF i < Len(w) THEN w[i + 1] ELSE e

\* The byte that will be received next.
Due(w, e) == IF w = <<>> THEN e ELSE w[1]

\* The bytes c + 1 .. c + m of line or record r.
Part(r, c, m) == [k \in 1..m |-> <<r, c + k>>]

LEMMA PartShape ==
  ASSUME NEW r \in Nat, NEW c \in Nat, NEW m \in Nat
  PROVE  /\ Part(r, c, m) \in Seq(Byte) /\ Len(Part(r, c, m)) = m
         /\ \A k \in 1..m : Part(r, c, m)[k] = <<r, c + k>>
         /\ (Part(r, c, m) = <<>> <=> m = 0)
<1> DEFINE f == Part(r, c, m)
<1>1. \A k \in 1..m : c + k \in Nat /\ <<r, c + k>> \in Byte
  BY DEF Byte
<1>2. f \in [1..m -> Byte] /\ \A k \in 1..m : f[k] = <<r, c + k>>
  BY <1>1 DEF Part
<1>3. f \in Seq(Byte) /\ Len(f) = m
  BY <1>2, FunctionIsSeq
<1> HIDE DEF f
<1>4. f = <<>> <=> m = 0
  BY <1>3
<1> QED
  BY <1>2, <1>3, <1>4 DEF f

\* A sequence is a part when its bytes are.
LEMMA PartIs ==
  ASSUME NEW r \in Nat, NEW c \in Nat, NEW s \in Seq(Byte),
         \A k \in 1..Len(s) : s[k] = <<r, c + k>>
  PROVE  s = Part(r, c, Len(s))
<1>1. Len(s) \in Nat
  OBVIOUS
<1>2. /\ Part(r, c, Len(s)) \in Seq(Byte) /\ Len(Part(r, c, Len(s))) = Len(s)
      /\ \A k \in 1..Len(s) : Part(r, c, Len(s))[k] = <<r, c + k>>
  BY <1>1, PartShape
<1> QED
  BY <1>2, SeqEqual

LEMMA PartGrows ==
  ASSUME NEW r \in Nat, NEW c \in Nat, NEW m \in Nat, NEW s \in Seq(Byte),
         \A k \in 1..Len(s) : s[k] = <<r, c + m + k>>
  PROVE  Part(r, c, m) \o s = Part(r, c, m + Len(s))
<1> DEFINE f == Part(r, c, m)
           g == f \o s
<1>1. f \in Seq(Byte) /\ Len(f) = m /\ \A k \in 1..m : f[k] = <<r, c + k>>
  BY PartShape
<1> HIDE DEF f
<1>2. g \in Seq(Byte) /\ Len(g) = m + Len(s)
  BY <1>1, ConcatProperties
<1>3. ASSUME NEW k \in 1..Len(g) PROVE g[k] = <<r, c + k>>
  <2>0. k \in Nat /\ Len(s) \in Nat /\ k \in 1..(Len(f) + Len(s))
    BY <1>1, <1>2
  <2>1. g[k] = IF k <= m THEN f[k] ELSE s[k - m]
    BY <1>1, <2>0, ConcatProperties
  <2>2. CASE k <= m
    BY <2>0, <2>1, <2>2, <1>1
  <2>3. CASE ~(k <= m)
    <3>1. k - m \in 1..Len(s) /\ c + m + (k - m) = c + k
      BY <2>0, <2>3, <1>1
    <3> QED
      BY <2>1, <2>3, <3>1
  <2> QED
    BY <2>2, <2>3
<1> HIDE DEF g
<1>4. g = Part(r, c, Len(g))
  BY <1>2, <1>3, PartIs
<1> QED
  BY <1>2, <1>4 DEF f, g

\* What a suffix and a prefix of a sequence are.
LEMMA Cut ==
  ASSUME NEW S, NEW w \in Seq(S), NEW m \in 0..Len(w)
  PROVE  /\ SubSeq(w, m + 1, Len(w)) \in Seq(S) /\ Len(SubSeq(w, m + 1, Len(w))) = Len(w) - m
         /\ \A i \in 1..(Len(w) - m) : SubSeq(w, m + 1, Len(w))[i] = w[m + i]
         /\ SubSeq(w, 1, m) \in Seq(S) /\ Len(SubSeq(w, 1, m)) = m
         /\ \A i \in 1..m : SubSeq(w, 1, m)[i] = w[i]
<1> DEFINE k == Len(w)
<1>0. k \in Nat /\ m \in Nat /\ m <= k /\ \A i \in 1..k : w[i] \in S
  BY ElementOfSeq
<1> HIDE DEF k
<1>1. /\ SubSeq(w, m + 1, k) \in Seq(S) /\ Len(SubSeq(w, m + 1, k)) = k - m
      /\ \A i \in 1..(k - m) : SubSeq(w, m + 1, k)[i] = w[m + i]
  <2>1. m + 1 \in Int /\ k \in Int /\ \A i \in (m + 1)..k : w[i] \in S
    BY <1>0
  <2>2. /\ SubSeq(w, m + 1, k) \in Seq(S)
        /\ Len(SubSeq(w, m + 1, k)) = IF m + 1 <= k THEN k - (m + 1) + 1 ELSE 0
        /\ \A i \in 1..(k - (m + 1) + 1) : SubSeq(w, m + 1, k)[i] = w[m + 1 + i - 1]
    BY <2>1, SubSeqProperties
  <2>3. k - (m + 1) + 1 = k - m /\ (IF m + 1 <= k THEN k - (m + 1) + 1 ELSE 0) = k - m
        /\ \A i \in 1..(k - m) : m + 1 + i - 1 = m + i
    BY <1>0
  <2> QED
    BY <2>2, <2>3
<1>2. /\ SubSeq(w, 1, m) \in Seq(S) /\ Len(SubSeq(w, 1, m)) = m
      /\ \A i \in 1..m : SubSeq(w, 1, m)[i] = w[i]
  <2>1. 1 \in Int /\ m \in Int /\ \A i \in 1..m : w[i] \in S
    BY <1>0
  <2>2. /\ SubSeq(w, 1, m) \in Seq(S)
        /\ Len(SubSeq(w, 1, m)) = IF 1 <= m THEN m - 1 + 1 ELSE 0
        /\ \A i \in 1..(m - 1 + 1) : SubSeq(w, 1, m)[i] = w[1 + i - 1]
    BY <2>1, SubSeqProperties
  <2>3. m - 1 + 1 = m /\ (IF 1 <= m THEN m - 1 + 1 ELSE 0) = m
        /\ \A i \in 1..m : 1 + i - 1 = i
    BY <1>0
  <2> QED
    BY <2>2, <2>3
<1> QED
  BY <1>1, <1>2 DEF k

\* Receiving m bytes of a run leaves a run.
LEMMA RunTake ==
  ASSUME NEW L, NEW w, NEW e, Run(L, w, e), NEW m \in 1..Len(w)
  PROVE  /\ Run(L, SubSeq(w, m + 1, Len(w)), e)
         /\ Due(SubSeq(w, m + 1, Len(w)), e) = Following(L, w[m])
<1> DEFINE k == Len(w)
           v == SubSeq(w, m + 1, k)
<1>0. w \in Seq(Byte) /\ e \in Byte /\ k \in Nat /\ m \in Nat /\ m <= k /\ m > 0 /\ m \in 0..Len(w)
  BY DEF Run
<1>1. v \in Seq(Byte) /\ Len(v) = k - m /\ \A i \in 1..(k - m) : v[i] = w[m + i]
  BY <1>0, Cut
<1>2. \A i \in 1..k : /\ w[i][1] \in 1..Len(L) /\ w[i][2] \in 1..L[w[i][1]]
                      /\ Following(L, w[i]) = IF i < k THEN w[i + 1] ELSE e
  BY DEF Run
<1> HIDE DEF k, v
<1>3. ASSUME NEW i \in 1..Len(v)
      PROVE  /\ v[i][1] \in 1..Len(L) /\ v[i][2] \in 1..L[v[i][1]]
             /\ Following(L, v[i]) = IF i < Len(v) THEN v[i + 1] ELSE e
  <2>1. /\ i \in Nat /\ i \in 1..(k - m) /\ m + i \in 1..k /\ (m + i < k <=> i < Len(v))
        /\ (m + i) + 1 = m + (i + 1) /\ (i < Len(v) => i + 1 \in 1..(k - m))
    <3>1. i \in Nat /\ i >= 1 /\ i <= k - m /\ Len(v) = k - m /\ k - m \in Nat
      BY <1>0, <1>1
    <3> QED
      BY <3>1, <1>0
  <2>2. v[i] = w[m + i] /\ (i < Len(v) => v[i + 1] = w[(m + i) + 1])
    BY <1>1, <2>1
  <2> QED
    BY <1>2, <2>1, <2>2
<1>4. Run(L, v, e)
  BY <1>0, <1>1, <1>3 DEF Run
<1>5. Due(v, e) = Following(L, w[m])
  <2>1. CASE m = k
    <3>1. v = <<>>
      BY <1>0, <1>1, <2>1
    <3>2. m \in 1..k /\ ~(m < k)
      BY <1>0, <2>1
    <3> QED
      BY <3>1, <3>2, <1>2 DEF Due
  <2>2. CASE m # k
    <3>1. m \in 1..k /\ m < k /\ 1 \in 1..(k - m)
      BY <1>0, <2>2
    <3>2. v[1] = w[m + 1] /\ v # <<>>
      BY <1>1, <3>1
    <3> QED
      BY <3>1, <3>2, <1>2 DEF Due
  <2> QED
    BY <2>1, <2>2
<1> QED
  BY <1>4, <1>5 DEF k, v

\* Sending the next m bytes of a line or record makes a longer run.
LEMMA RunPut ==
  ASSUME NEW L, NEW w, NEW r \in 1..Len(L), NEW c \in Nat, Run(L, w, <<r, c + 1>>),
         Len(L) \in Nat, L[r] \in Nat, NEW m \in Nat, m > 0, c + m <= L[r],
         NEW e \in Byte, e = IF c + m = L[r] THEN <<r + 1, 1>> ELSE <<r, c + m + 1>>
  PROVE  /\ Run(L, w \o Part(r, c, m), e)
         /\ Due(w \o Part(r, c, m), e) = Due(w, <<r, c + 1>>)
         /\ Len(w \o Part(r, c, m)) = Len(w) + m
<1> DEFINE k == Len(w)
           s == Part(r, c, m)
           v == w \o s
<1>0. w \in Seq(Byte) /\ k \in Nat /\ r \in Nat
  BY DEF Run
<1>1. s \in Seq(Byte) /\ Len(s) = m /\ \A i \in 1..m : s[i] = <<r, c + i>>
  BY <1>0, PartShape, ZenonT(60)
<1>2. \A i \in 1..k : /\ w[i][1] \in 1..Len(L) /\ w[i][2] \in 1..L[w[i][1]]
                      /\ Following(L, w[i]) = IF i < k THEN w[i + 1] ELSE <<r, c + 1>>
  BY DEF Run
<1> HIDE DEF s
<1>3. /\ v \in Seq(Byte) /\ Len(v) = k + m
      /\ \A i \in 1..(k + m) : v[i] = IF i <= k THEN w[i] ELSE s[i - k]
  BY <1>0, <1>1, ConcatProperties
<1> HIDE DEF k, v
<1>3a. ASSUME NEW i \in 1..m PROVE v[k + i] = s[i]
  <2>1. PICK j \in 1..(k + m) : j = k + i
    BY <1>0
  <2>2. ~(j <= k) /\ j - k = i
    BY <2>1, <1>0
  <2>3. v[j] = s[j - k]
    BY <2>2, <1>3
  <2> QED
    BY <2>1, <2>2, <2>3
<1>4. ASSUME NEW i \in 1..k
      PROVE  /\ v[i][1] \in 1..Len(L) /\ v[i][2] \in 1..L[v[i][1]]
             /\ Following(L, v[i]) = v[i + 1]
  <2>1. i \in Nat /\ i \in 1..(k + m) /\ i <= k /\ i + 1 \in 1..(k + m)
    BY <1>0
  <2>2. v[i] = w[i]
    BY <1>3, <2>1
  <2>3. CASE i < k
    <3>1. i + 1 <= k
      BY <2>3, <2>1, <1>0
    <3>2. v[i + 1] = w[i + 1]
      BY <3>1, <2>1, <1>3
    <3> QED
      BY <2>2, <2>3, <3>2, <1>2
  <2>4. CASE ~(i < k)
    <3>1. i = k /\ ~(i + 1 <= k) /\ i + 1 - k = 1 /\ 1 \in 1..m
      BY <2>4, <2>1, <1>0
    <3>2. v[i + 1] = s[1]
      BY <3>1, <2>1, <1>3
    <3>3. s[1] = <<r, c + 1>>
      BY <3>1, <1>1
    <3> QED
      BY <2>2, <2>4, <3>2, <3>3, <1>2
  <2> QED
    BY <2>3, <2>4
<1>5. ASSUME NEW i \in 1..m
      PROVE  /\ v[k + i][1] \in 1..Len(L) /\ v[k + i][2] \in 1..L[v[k + i][1]]
             /\ Following(L, v[k + i]) = IF k + i < k + m THEN v[k + i + 1] ELSE e
  <2>1. i \in Nat /\ k + i \in 1..(k + m) /\ ~(k + i <= k) /\ k + i - k = i
    BY <1>0
  <2>2. v[k + i] = <<r, c + i>>
    BY <1>1, <1>3a
  <2>3. c + i \in 1..L[r]
    BY <2>1
  <2>4. CASE i < m
    <3>1. k + i + 1 \in 1..(k + m) /\ ~(k + i + 1 <= k) /\ k + i + 1 - k = i + 1 /\ i + 1 \in 1..m
          /\ k + i < k + m /\ c + i # L[r] /\ c + i + 1 = c + (i + 1)
      BY <2>1, <2>4, <1>0
    <3>2. v[k + i + 1] = <<r, c + i + 1>>
      <4>1. k + i + 1 = k + (i + 1)
        BY <1>0, <2>1
      <4>2. v[k + (i + 1)] = s[i + 1]
        BY <3>1, <1>3a
      <4>3. s[i + 1] = <<r, c + (i + 1)>>
        BY <3>1, <1>1
      <4> QED
        BY <4>1, <4>2, <4>3, <3>1
    <3> QED
      BY <2>2, <2>3, <3>1, <3>2 DEF Following
  <2>5. CASE ~(i < m)
    <3>1. i = m /\ ~(k + i < k + m)
      BY <2>1, <2>5, <1>0
    <3> QED
      BY <2>2, <2>3, <3>1 DEF Following
  <2> QED
    BY <2>4, <2>5
<1>6. ASSUME NEW i \in 1..Len(v)
      PROVE  /\ v[i][1] \in 1..Len(L) /\ v[i][2] \in 1..L[v[i][1]]
             /\ Following(L, v[i]) = IF i < Len(v) THEN v[i + 1] ELSE e
  <2>0. i \in Nat /\ Len(v) = k + m
    BY <1>3
  <2>1. CASE i \in 1..k
    <3>1. i < Len(v)
      BY <2>1, <1>0, <1>3
    <3> QED
      BY <2>1, <3>1, <1>4
  <2>2. CASE ~(i \in 1..k)
    <3>1. i - k \in 1..m /\ k + (i - k) = i
      BY <2>0, <2>2, <1>0
    <3> QED
      BY <3>1, <2>0, <1>5
  <2> QED
    BY <2>1, <2>2
<1>7. Run(L, v, e)
  BY <1>3, <1>6 DEF Run
<1>8. Due(v, e) = Due(w, <<r, c + 1>>)
  <2>0. v # <<>> /\ 1 \in 1..(k + m)
    BY <1>0, <1>3
  <2>1. CASE k = 0
    <3>1. w = <<>> /\ ~(1 <= k) /\ 1 - k = 1 /\ 1 \in 1..m
      BY <2>1, <1>0 DEF k
    <3>2. v[1] = <<r, c + 1>>
      BY <2>0, <3>1, <1>1, <1>3
    <3> QED
      BY <3>1, <3>2, <2>0 DEF Due
  <2>2. CASE k # 0
    <3>1. w # <<>> /\ 1 <= k
      BY <2>2, <1>0 DEF k
    <3>2. v[1] = w[1]
      BY <2>0, <3>1, <1>3
    <3> QED
      BY <3>1, <3>2, <2>0 DEF Due
  <2> QED
    BY <2>1, <2>2
<1> QED
  BY <1>3, <1>7, <1>8 DEF k, s, v

\* A run that begins in a line goes through it.
Through(w, r, c, m) == \A i \in 1..m : w[i] = <<r, c + i>>

LEMMA RunThrough ==
  ASSUME NEW L, NEW w, NEW e, Run(L, w, e), NEW r \in Nat, NEW c \in Nat,
         Due(w, e) = <<r, c + 1>>, L[r] \in Nat, NEW m \in 1..Len(w), c + m <= L[r]
  PROVE  Through(w, r, c, m)
<1> DEFINE T == {i \in 1..m : w[i] # <<r, c + i>>}
<1>0. /\ w \in Seq(Byte) /\ Len(w) \in Nat /\ m \in Nat /\ m <= Len(w)
      /\ \A i \in 1..Len(w) : Following(L, w[i]) = IF i < Len(w) THEN w[i + 1] ELSE e
  BY DEF Run
<1>1. w[1] = <<r, c + 1>>
  BY <1>0 DEF Due
<1> SUFFICES ASSUME T # {} PROVE FALSE
  BY DEF Through
<1>2. T \in SUBSET Nat
  BY <1>0
<1> HIDE DEF T
<1>3. PICK x \in T : \A y \in T : x <= y
  BY <1>2, Least
<1> USE DEF T
<1>4. x \in 1..m /\ w[x] # <<r, c + x>> /\ x \in Nat /\ \A y \in 1..m : y < x => w[y] = <<r, c + y>>
  BY <1>0, <1>3
<1> HIDE DEF T
<1>5. x # 1
  BY <1>1, <1>4
<1>6. /\ x - 1 \in 1..m /\ x - 1 < x /\ x - 1 \in 1..Len(w) /\ x - 1 < Len(w) /\ (x - 1) + 1 = x
      /\ c + (x - 1) # L[r] /\ c + (x - 1) + 1 = c + x
  BY <1>0, <1>4, <1>5
<1>7. w[x - 1] = <<r, c + (x - 1)>>
  BY <1>4, <1>6
<1>8. Following(L, w[x - 1]) = <<r, c + x>>
  BY <1>6, <1>7 DEF Following
<1>9. Following(L, w[x - 1]) = w[x]
  BY <1>0, <1>6
<1> QED
  BY <1>4, <1>8, <1>9

\* A run goes forward.
LEMMA RunForward ==
  ASSUME NEW L, NEW w, NEW e, Run(L, w, e), NEW a \in 1..Len(w)
  PROVE  /\ \A i \in a..Len(w) : w[a][1] <= w[i][1] /\ (i > a /\ w[a][2] = L[w[a][1]] => w[a][1] < w[i][1])
         /\ \A i \in a..Len(w) : /\ w[a][1] <= Following(L, w[i])[1]
                                 /\ w[a][2] = L[w[a][1]] => w[a][1] < Following(L, w[i])[1]
         /\ w[a][1] \in Nat /\ \A i \in a..Len(w) : Following(L, w[i])[1] \in Nat
<1> DEFINE Ahead(i) == w[a][1] <= w[i][1] /\ (i > a /\ w[a][2] = L[w[a][1]] => w[a][1] < w[i][1])
           T == {i \in a..Len(w) : ~Ahead(i)}
<1>0. /\ w \in Seq(Byte) /\ Len(w) \in Nat /\ a \in Nat /\ a > 0 /\ a <= Len(w)
      /\ \A i \in 1..Len(w) : Following(L, w[i]) = IF i < Len(w) THEN w[i + 1] ELSE e
  BY DEF Run
<1>1. \A i \in a..Len(w) : i \in 1..Len(w) /\ i \in Nat
  BY <1>0
<1>2. \A i \in 1..Len(w) : w[i] \in Byte
  BY <1>0, ElementOfSeq
<1>2a. \A i \in 1..Len(w) : w[i][1] \in Nat /\ w[i][2] \in Nat
  BY <1>2 DEF Byte
<1>3. \A i \in 1..Len(w) : Following(L, w[i])[1] = w[i][1] \/ Following(L, w[i])[1] = w[i][1] + 1
  BY DEF Following
<1>4. T = {}
  <2> SUFFICES ASSUME T # {} PROVE FALSE
    OBVIOUS
  <2>1. T \in SUBSET Nat
    BY <1>1
  <2> HIDE DEF T
  <2>2. PICK x \in T : \A y \in T : x <= y
    BY <2>1, Least
  <2>3. x \in a..Len(w) /\ x \in Nat /\ ~Ahead(x) /\ \A y \in a..Len(w) : y < x => Ahead(y)
    BY <2>1, <2>2, <1>1 DEF T
  <2>4. x # a
    BY <2>3, <1>0, <1>2a
  <2>5. /\ x - 1 \in a..Len(w) /\ x - 1 < x /\ x - 1 \in 1..Len(w) /\ x - 1 < Len(w)
        /\ (x - 1) + 1 = x /\ (x - 1 = a \/ x - 1 > a)
    BY <2>3, <2>4, <1>0
  <2>6. Ahead(x - 1)
    BY <2>3, <2>5
  <2>7. w[x] = Following(L, w[x - 1])
    BY <2>5, <1>0
  <2>8. w[x][1] = w[x - 1][1] \/ w[x][1] = w[x - 1][1] + 1
    BY <2>5, <2>7, <1>3
  <2>9. x - 1 = a /\ w[a][2] = L[w[a][1]] => w[x][1] = w[a][1] + 1
    BY <2>7 DEF Following
  <2>10. w[a][1] \in Nat /\ w[x - 1][1] \in Nat
    BY <2>5, <1>2a
  <2> QED
    BY <2>3, <2>5, <2>6, <2>8, <2>9, <2>10
<1>5. \A i \in a..Len(w) : Ahead(i)
  BY <1>4
<1>6. ASSUME NEW i \in a..Len(w)
      PROVE  /\ w[a][1] <= Following(L, w[i])[1]
             /\ w[a][2] = L[w[a][1]] => w[a][1] < Following(L, w[i])[1]
             /\ Following(L, w[i])[1] \in Nat
  <2>1. /\ i \in 1..Len(w) /\ i \in Nat /\ w[i][1] \in Nat /\ w[a][1] \in Nat
        /\ (i = a \/ i > a)
    BY <1>0, <1>1, <1>2a
  <2>2. i = a /\ w[a][2] = L[w[a][1]] => Following(L, w[i])[1] = w[a][1] + 1
    BY DEF Following
  <2>3. Ahead(i)
    BY <1>5
  <2>4. Following(L, w[i])[1] = w[i][1] \/ Following(L, w[i])[1] = w[i][1] + 1
    BY <2>1, <1>3
  <2> QED
    BY <2>1, <2>2, <2>3, <2>4
<1> QED
  BY <1>0, <1>2a, <1>5, <1>6

\* What comes next is not behind what follows the run.
LEMMA DueForward ==
  ASSUME NEW L, NEW w, NEW e, Run(L, w, e)
  PROVE  Due(w, e)[1] <= e[1] /\ Due(w, e)[1] \in Nat /\ e[1] \in Nat
<1>1. w \in Seq(Byte) /\ Len(w) \in Nat /\ e[1] \in Nat
  BY DEF Run, Byte
<1>2. CASE w = <<>>
  BY <1>1, <1>2 DEF Due
<1>3. CASE w # <<>>
  <2>1. 1 \in 1..Len(w) /\ Len(w) \in 1..Len(w) /\ ~(Len(w) < Len(w))
    BY <1>1, <1>3
  <2>2. Following(L, w[Len(w)]) = e
    BY <2>1 DEF Run
  <2>3. w[1][1] <= Following(L, w[Len(w)])[1] /\ w[1][1] \in Nat
    BY <2>1, RunForward
  <2> QED
    BY <2>2, <2>3, <1>1, <1>3 DEF Due
<1> QED
  BY <1>2, <1>3
-------------------------------------------------------------------------------
(* readline of etcp.c.                                                       *)

LEMMA KeepConsts ==
  /\ Len(KeepLens) \in Nat /\ DOMAIN KeepLens = 1..Len(KeepLens)
  /\ (\A k \in 1..Len(KeepLens) : KeepLens[k] \in Nat /\ KeepLens[k] > 0)
  /\ KeepRoom \in Nat /\ KeepRoom > 1 /\ Chunk \in Nat /\ Chunk > 0 /\ MaxIntr \in Nat
<1>1. KeepLens \in Seq(Nat \ {0})
  BY LibraryAssumption
<1>2. /\ Len(KeepLens) \in Nat /\ DOMAIN KeepLens = 1..Len(KeepLens)
      /\ \A k \in 1..Len(KeepLens) : KeepLens[k] \in Nat \ {0}
  BY <1>1
<1>3. KeepRoom \in Nat /\ KeepRoom > 1 /\ Chunk \in Nat \ {0} /\ MaxIntr \in Nat
  BY LibraryAssumption
<1> QED
  BY <1>2, <1>3

\* The byte that keep will receive next.
KeepDue == Due(input, <<sent + 1, 1>>)

\* As long as nothing was thrown away: the lines that were returned are those
\* the client sent; what readline has copied is the beginning of the next one,
\* and the stream stands behind it; without room left that line is too long.
KeepExact ==
    /\ \A k \in 1..Len(lines) : lines[k] = Part(k, 0, KeepLens[k])
    /\ left > 1 => /\ KeepDue = <<Len(lines) + 1, Len(copied) + 1>>
                   /\ copied = Part(Len(lines) + 1, 0, Len(copied))
    /\ left <= 1 => /\ Len(lines) + 1 \in 1..Len(KeepLens)
                    /\ KeepLens[Len(lines) + 1] >= KeepRoom

KeepTypes ==
    /\ sent \in 0..Len(KeepLens) /\ eof \in BOOLEAN /\ intr \in 0..MaxIntr /\ lost \in BOOLEAN
    /\ status \in {"open", "peer disconnected", "message too long", "recv failure"}
    /\ copied \in Seq(Byte) /\ lines \in Seq(Seq(Byte))

\* The invariant: at most one line is returned for each that was received, even
\* when bytes were thrown away.
KeepInv ==
    /\ KeepTypes
    /\ Run(KeepLens, input, <<sent + 1, 1>>)
    /\ Len(copied) < KeepRoom /\ left = KeepRoom - Len(copied)
    /\ Len(lines) < KeepDue[1]
    /\ status = "message too long" => left <= 1
    /\ ~lost => KeepExact

LEMMA KeepFacts ==
  ASSUME KeepInv
  PROVE  /\ sent \in Nat /\ sent <= Len(KeepLens) /\ intr \in Nat /\ intr <= MaxIntr
         /\ lines \in Seq(Seq(Byte)) /\ Len(lines) \in Nat /\ DOMAIN lines = 1..Len(lines)
         /\ copied \in Seq(Byte) /\ Len(copied) \in Nat /\ Len(copied) < KeepRoom
         /\ left = KeepRoom - Len(copied) /\ left \in Nat /\ left > 0
         /\ input \in Seq(Byte) /\ Len(input) \in Nat
         /\ Run(KeepLens, input, <<sent + 1, 1>>) /\ lost \in BOOLEAN
<1>1. /\ sent \in 0..Len(KeepLens) /\ intr \in 0..MaxIntr /\ lines \in Seq(Seq(Byte))
      /\ copied \in Seq(Byte) /\ lost \in BOOLEAN
  BY DEF KeepInv, KeepTypes
<1>2. Run(KeepLens, input, <<sent + 1, 1>>)
  BY DEF KeepInv
<1>3. input \in Seq(Byte)
  BY <1>2 DEF Run
<1>4. Len(lines) \in Nat /\ DOMAIN lines = 1..Len(lines) /\ Len(copied) \in Nat /\ Len(input) \in Nat
  BY <1>1, <1>3
<1>5. Len(copied) < KeepRoom /\ left = KeepRoom - Len(copied)
  BY DEF KeepInv
<1>6. left \in Nat /\ left > 0
  BY <1>4, <1>5, KeepConsts
<1>7. sent \in Nat /\ sent <= Len(KeepLens) /\ intr \in Nat /\ intr <= MaxIntr
  BY <1>1, KeepConsts
<1> QED
  BY <1>1, <1>2, <1>3, <1>4, <1>5, <1>6, <1>7

LEMMA KeepInit == Keep!Init => KeepInv
<1> SUFFICES ASSUME Keep!Init PROVE KeepInv
  OBVIOUS
<1>1. /\ sent = 0 /\ input = <<>> /\ eof = FALSE /\ copied = <<>> /\ left = KeepRoom
      /\ lines = <<>> /\ status = "open" /\ intr = 0 /\ lost = FALSE
  BY DEF Keep!Init
<1>2. KeepTypes
  <2>1. 0 \in 0..Len(KeepLens) /\ 0 \in 0..MaxIntr
    BY KeepConsts
  <2>2. <<>> \in Seq(Byte) /\ <<>> \in Seq(Seq(Byte))
    OBVIOUS
  <2> QED
    BY <1>1, <2>1, <2>2 DEF KeepTypes
<1>3. sent + 1 = 1 /\ <<1, 1>> \in Byte /\ 1..Len(input) = {} /\ input \in Seq(Byte)
  BY <1>1 DEF Byte
<1>4. Run(KeepLens, input, <<sent + 1, 1>>)
  BY <1>3 DEF Run
<1>5. KeepDue = <<1, 1>>
  BY <1>1, <1>3 DEF KeepDue, Due
<1>6. Len(copied) = 0 /\ Len(lines) = 0 /\ 0 + 1 = 1 /\ 1..0 = {}
  BY <1>1
<1>7. Part(1, 0, 0) = <<>>
  BY PartShape
<1>8. KeepExact
  BY <1>1, <1>5, <1>6, <1>7, KeepConsts DEF KeepExact
<1> QED
  BY <1>1, <1>2, <1>4, <1>5, <1>6, <1>8, KeepConsts DEF KeepInv

LEMMA KeepSend == KeepInv /\ Keep!Send => KeepInv'
<1> SUFFICES ASSUME KeepInv, Keep!Send PROVE KeepInv'
  OBVIOUS
<1>1. /\ sent < Len(KeepLens) /\ sent' = sent + 1 /\ input' = input \o Keep!Line(sent + 1)
      /\ UNCHANGED <<eof, copied, left, lines, status, intr, lost>>
  BY DEF Keep!Send, Keep!server
<1>2. PICK r : r = sent + 1
  OBVIOUS
<1>3. r \in Nat /\ r \in 1..Len(KeepLens) /\ sent' = r /\ sent \in Nat /\ r \in 0..Len(KeepLens)
  BY <1>1, <1>2, KeepConsts, KeepFacts, SMTT(30)
<1>4. KeepLens[r] \in Nat /\ KeepLens[r] > 0 /\ 0 + KeepLens[r] = KeepLens[r] /\ 0 \in Nat
  BY <1>3, KeepConsts
<1>5. Keep!Line(r) = Part(r, 0, KeepLens[r])
  <2>1. \A p \in 1..KeepLens[r] : 0 + p = p
    BY <1>4
  <2> QED
    BY <2>1 DEF Keep!Line, Part
<1>6. PICK c \in Nat : c = 0
  OBVIOUS
<1>7. PICK q \in Nat : q = KeepLens[r]
  BY <1>4
<1>7a. PICK e : e = <<r + 1, 1>>
  OBVIOUS
<1>7b. e \in Byte /\ Len(KeepLens) \in Nat
  BY <1>3, <1>7a, KeepConsts DEF Byte
<1> DEFINE v == input \o Part(r, c, q)
<1>8. Run(KeepLens, v, e) /\ Due(v, e) = Due(input, <<r, c + 1>>)
  <2>1. c + 1 = 1 /\ c + q = KeepLens[r] /\ c + q <= KeepLens[r] /\ q > 0
    BY <1>4, <1>6, <1>7
  <2>2. Run(KeepLens, input, <<r, c + 1>>)
    BY <2>1, <1>2, KeepFacts
  <2>3. e = IF c + q = KeepLens[r] THEN <<r + 1, 1>> ELSE <<r, c + q + 1>>
    BY <2>1, <1>7a
  <2> QED
    BY <1>3, <1>4, <1>6, <1>7, <1>7b, <2>1, <2>2, <2>3, RunPut, SMTT(30)
<1> HIDE DEF v
<1>9. input' = v
  BY <1>1, <1>2, <1>5, <1>6, <1>7 DEF v
<1>10. Run(KeepLens, input, <<sent + 1, 1>>)' /\ KeepDue' = KeepDue
  <2>1. <<r, c + 1>> = <<sent + 1, 1>> /\ <<sent' + 1, 1>> = e
    BY <1>2, <1>3, <1>6, <1>7a
  <2> QED
    BY <2>1, <1>8, <1>9 DEF KeepDue
<1>11. KeepTypes'
  BY <1>1, <1>3 DEF KeepInv, KeepTypes
<1>12. KeepExact => KeepExact'
  BY <1>1, <1>10 DEF KeepExact
<1> QED
  BY <1>1, <1>10, <1>11, <1>12 DEF KeepInv

\* How much of a recv is copied: up to the newline, the end of the buffer or of
\* the bytes.
LEMMA KeepCopied ==
  ASSUME KeepInv, Keep!Reading, NEW m \in 1..Len(input), NEW k, k = Keep!Copied(SubSeq(input, 1, m))
  PROVE  /\ k \in 1..m /\ k <= left - 1
         /\ \A p \in 1..(k - 1) : ~Keep!Newline(input[p])
         /\ k = m \/ k = left - 1 \/ Keep!Newline(input[k])
<1> DEFINE bytes == SubSeq(input, 1, m)
           S == {left - 1, Len(bytes)} \union {p \in DOMAIN bytes : Keep!Newline(bytes[p])}
<1>0. /\ input \in Seq(Byte) /\ m \in Nat /\ m > 0 /\ m <= Len(input) /\ Len(input) \in Nat
      /\ left \in Nat /\ left > 1 /\ left - 1 \in Nat /\ left - 1 > 0
  <2>1. left > 1
    BY DEF Keep!Reading
  <2> QED
    BY <2>1, KeepFacts
<1>1. bytes \in Seq(Byte) /\ Len(bytes) = m /\ \A i \in 1..m : bytes[i] = input[i]
  <2>1. m \in 0..Len(input)
    BY <1>0
  <2> QED
    BY <1>0, <2>1, Cut
<1>2. k = Keep!Min(S)
  BY DEF Keep!Copied, Keep!Space
<1> HIDE DEF bytes
<1>3. DOMAIN bytes = 1..m
  BY <1>1
<1>4. S = {left - 1, m} \union {p \in 1..m : Keep!Newline(input[p])}
  BY <1>1, <1>3
<1>5. S \in SUBSET Nat /\ S # {}
  BY <1>0, <1>4
<1> HIDE DEF S
<1>6. \E x \in S : \A y \in S : x <= y
  BY <1>5, Least
<1>7. k \in S /\ \A y \in S : k <= y
  BY <1>2, <1>6 DEF Keep!Min
<1>8. left - 1 \in S /\ m \in S /\ \A p \in 1..m : Keep!Newline(input[p]) => p \in S
  BY <1>4
<1>9. k <= left - 1 /\ k <= m /\ k \in Nat
  BY <1>5, <1>7, <1>8
<1>10. k = left - 1 \/ k = m \/ (k \in 1..m /\ Keep!Newline(input[k]))
  BY <1>4, <1>7
<1>11. k \in 1..m
  BY <1>0, <1>9, <1>10
<1>12. ASSUME NEW p \in 1..(k - 1), Keep!Newline(input[p]) PROVE FALSE
  <2>1. p \in 1..m /\ p < k /\ p \in Nat
    BY <1>0, <1>9, <1>11
  <2>2. k <= p
    BY <2>1, <1>7, <1>8, <1>12
  <2> QED
    BY <2>1, <2>2, <1>9
<1> QED
  BY <1>9, <1>10, <1>11, <1>12

\* The bytes that are copied continue the line, as long as nothing was lost.
LEMMA KeepContinues ==
  ASSUME KeepInv, Keep!Reading, ~lost, NEW m \in 1..Len(input), NEW k,
         k = Keep!Copied(SubSeq(input, 1, m))
  PROVE  /\ Len(lines) + 1 \in 1..Len(KeepLens) /\ KeepLens[Len(lines) + 1] \in Nat
         /\ Len(copied) + k <= KeepLens[Len(lines) + 1]
         /\ Through(input, Len(lines) + 1, Len(copied), k)
         /\ Keep!Newline(input[k]) <=> Len(copied) + k = KeepLens[Len(lines) + 1]
<1>0a. PICK r : r = Len(lines) + 1
  OBVIOUS
<1>0b. PICK c : c = Len(copied)
  OBVIOUS
<1>1. /\ k \in 1..m /\ k <= left - 1 /\ \A p \in 1..(k - 1) : ~Keep!Newline(input[p])
  BY KeepCopied
<1>2. KeepDue = <<r, c + 1>> /\ r \in Nat /\ c \in Nat
  BY <1>0a, <1>0b, KeepFacts DEF KeepInv, KeepExact, Keep!Reading
<1>3. Run(KeepLens, input, <<sent + 1, 1>>) /\ Len(input) \in Nat /\ input # <<>>
  <2>1. Len(input) # 0
    BY KeepFacts
  <2> QED
    BY <2>1, KeepFacts
<1>4. input[1] = <<r, c + 1>>
  BY <1>2, <1>3 DEF KeepDue, Due
<1>5. r \in 1..Len(KeepLens) /\ c + 1 \in 1..KeepLens[r]
  <2>1. 1 \in 1..Len(input)
    OBVIOUS
  <2>2. input[1][1] \in 1..Len(KeepLens) /\ input[1][2] \in 1..KeepLens[input[1][1]]
    BY <2>1, <1>3 DEF Run
  <2> QED
    BY <2>2, <1>4
<1>6. KeepLens[r] \in Nat
  BY <1>5, KeepConsts
<1>7. k \in Nat /\ k > 0 /\ k \in 1..Len(input) /\ m \in Nat
  BY <1>1, <1>3
<1>8. ASSUME NEW j \in 1..Len(input), c + j <= KeepLens[r]
      PROVE  Through(input, r, c, j)
  <2>1. Due(input, <<sent + 1, 1>>) = <<r, c + 1>>
    BY <1>2 DEF KeepDue
  <2> QED
    BY <2>1, <1>2, <1>3, <1>6, <1>8, RunThrough
<1>9. c + k <= KeepLens[r]
  <2> SUFFICES ASSUME c + k > KeepLens[r] PROVE FALSE
    BY <1>2, <1>6, <1>7
  <2>1. PICK j \in Nat : j = KeepLens[r] - c
    BY <1>2, <1>5, <1>6
  <2>1z. PICK q \in Nat : q = KeepLens[r]
    BY <1>6
  <2>1a. j > 0 /\ c + j = KeepLens[r] /\ j <= k - 1 /\ k - 1 < Len(input)
    <3>1. c + k > q /\ c + 1 <= q /\ j = q - c /\ k <= Len(input)
      <4>1. c + 1 \in 1..q
        BY <2>1z, <1>5
      <4> QED
        BY <4>1, <2>1, <2>1z, <1>2, <1>3, <1>7
    <3>2. j \in Nat /\ c \in Nat /\ k \in Nat /\ q \in Nat /\ Len(input) \in Nat
      BY <2>1, <2>1z, <1>2, <1>3, <1>7
    <3>3. j > 0 /\ c + j = q /\ j <= k - 1 /\ k - 1 < Len(input)
      BY <3>1, <3>2
    <3> QED
      BY <3>3, <2>1z
  <2>2. j \in 1..(k - 1) /\ j \in 1..Len(input) /\ c + j = KeepLens[r] /\ c + j <= KeepLens[r] /\ j \in 1..j
    BY <2>1, <2>1a, <1>3, <1>6, <1>7
  <2>3. input[j] = <<r, KeepLens[r]>>
    BY <2>2, <1>8 DEF Through
  <2>4. Keep!Newline(input[j])
    BY <2>3 DEF Keep!Newline
  <2> QED
    BY <2>2, <2>4, <1>1
<1>10. Through(input, r, c, k)
  BY <1>7, <1>8, <1>9
<1>11. input[k] = <<r, c + k>>
  <2>1. k \in 1..k
    BY <1>7
  <2> QED
    BY <2>1, <1>10 DEF Through
<1> QED
  BY <1>0a, <1>0b, <1>5, <1>6, <1>9, <1>10, <1>11 DEF Keep!Newline

LEMMA KeepRecv == KeepInv /\ Keep!Recv => KeepInv'
<1> SUFFICES ASSUME KeepInv, Keep!Recv PROVE KeepInv'
  OBVIOUS
<1>0. /\ KeepTypes /\ Run(KeepLens, input, <<sent + 1, 1>>) /\ Keep!Reading
      /\ left > 1 /\ status = "open" /\ input \in Seq(Byte) /\ Len(input) \in Nat
      /\ Len(copied) \in Nat /\ Len(lines) \in Nat /\ left = KeepRoom - Len(copied)
  BY KeepFacts DEF KeepInv, Keep!Recv, Keep!Reading
<1>1. PICK m \in 1..Keep!Min({Chunk, Len(input)}) :
         LET bytes == SubSeq(input, 1, m)
             k == Keep!Copied(bytes)
             got == copied \o SubSeq(bytes, 1, k) IN
         /\ input' = SubSeq(input, m + 1, Len(input))
         /\ IF k > 0 /\ Keep!Newline(bytes[k])
            THEN /\ lines' = Append(lines, got) /\ copied' = <<>> /\ left' = KeepRoom
                 /\ lost' = (lost \/ k < m)
            ELSE copied' = got /\ left' = left - k /\ UNCHANGED <<lines, lost>>
  BY DEF Keep!Recv
<1>2. UNCHANGED <<sent, eof, status, intr>>
  BY DEF Keep!Recv, Keep!client
<1>3. m \in 1..Len(input) /\ m \in Nat
  <2>1. Keep!Min({Chunk, Len(input)}) <= Len(input) /\ Keep!Min({Chunk, Len(input)}) \in Nat
    BY <1>0, KeepConsts, SMTT(30) DEF Keep!Min
  <2> QED
    BY <2>1, <1>0
<1>4. PICK k : k = Keep!Copied(SubSeq(input, 1, m))
  OBVIOUS
<1>5. /\ k \in 1..m /\ k <= left - 1 /\ k \in Nat /\ k > 0
      /\ k = m \/ k = left - 1 \/ Keep!Newline(input[k])
  BY <1>0, <1>3, <1>4, KeepCopied
<1>6. PICK s : s = SubSeq(SubSeq(input, 1, m), 1, k)
  OBVIOUS
<1>7. /\ s \in Seq(Byte) /\ Len(s) = k /\ \A i \in 1..k : s[i] = input[i]
      /\ SubSeq(input, 1, m)[k] = input[k]
  <2>1. m \in 0..Len(input)
    BY <1>3
  <2>2. /\ SubSeq(input, 1, m) \in Seq(Byte) /\ Len(SubSeq(input, 1, m)) = m
        /\ \A i \in 1..m : SubSeq(input, 1, m)[i] = input[i]
    BY <1>0, <2>1, Cut
  <2> DEFINE b == SubSeq(input, 1, m)
  <2> HIDE DEF b
  <2>3. k \in 0..Len(b)
    BY <2>2, <1>5 DEF b
  <2>4. b \in Seq(Byte)
    BY <2>2 DEF b
  <2>5. SubSeq(b, 1, k) \in Seq(Byte) /\ Len(SubSeq(b, 1, k)) = k /\ \A i \in 1..k : SubSeq(b, 1, k)[i] = b[i]
    BY <2>3, <2>4, Cut
  <2>6. \A i \in 1..k : i \in 1..m
    BY <1>3, <1>5
  <2> QED
    BY <2>2, <2>5, <2>6, <1>5, <1>6 DEF b
<1>8. PICK got : got = copied \o s
  OBVIOUS
<1>9. got \in Seq(Byte) /\ Len(got) = Len(copied) + k
  BY <1>0, <1>7, <1>8, ConcatProperties DEF KeepTypes
<1>10. /\ input' = SubSeq(input, m + 1, Len(input))
       /\ IF Keep!Newline(input[k])
          THEN /\ lines' = Append(lines, got) /\ copied' = <<>> /\ left' = KeepRoom
               /\ lost' = (lost \/ k < m)
          ELSE copied' = got /\ left' = left - k /\ UNCHANGED <<lines, lost>>
  BY <1>1, <1>4, <1>5, <1>6, <1>7, <1>8
<1>11. Run(KeepLens, input, <<sent + 1, 1>>)' /\ KeepDue' = Following(KeepLens, input[m])
  <2>1. /\ Run(KeepLens, SubSeq(input, m + 1, Len(input)), <<sent + 1, 1>>)
        /\ Due(SubSeq(input, m + 1, Len(input)), <<sent + 1, 1>>) = Following(KeepLens, input[m])
    BY <1>0, <1>3, RunTake
  <2> QED
    BY <2>1, <1>2, <1>10 DEF KeepDue
<1>12. Len(lines) < KeepDue[1] /\ KeepDue = input[1]
  BY <1>0, <1>3 DEF KeepInv, KeepDue, Due
<1>13. /\ input[1][1] \in Nat /\ input[k][1] \in Nat /\ KeepDue'[1] \in Nat
       /\ input[1][1] <= input[k][1] /\ input[1][1] <= KeepDue'[1]
       /\ Keep!Newline(input[k]) => input[k][1] < KeepDue'[1]
  <2>1. 1 \in 1..Len(input) /\ k \in 1..Len(input) /\ m \in 1..Len(input) /\ k \in 1..Len(input) /\ m \in k..Len(input)
    BY <1>0, <1>3, <1>5
  <2>2. /\ input[1][1] <= input[k][1] /\ input[1][1] <= Following(KeepLens, input[m])[1]
        /\ input[1][1] \in Nat /\ Following(KeepLens, input[m])[1] \in Nat
    BY <1>0, <2>1, RunForward
  <2>3. /\ input[k][1] \in Nat
        /\ input[k][2] = KeepLens[input[k][1]] => input[k][1] < Following(KeepLens, input[m])[1]
    BY <1>0, <2>1, RunForward
  <2> QED
    BY <2>2, <2>3, <1>11 DEF Keep!Newline
<1>14. CASE Keep!Newline(input[k])
  <2>1. /\ lines' = Append(lines, got) /\ copied' = <<>> /\ left' = KeepRoom
        /\ lost' = (lost \/ k < m)
    BY <1>10, <1>14
  <2>2. /\ lines' \in Seq(Seq(Byte)) /\ Len(lines') = Len(lines) + 1
        /\ lines'[Len(lines) + 1] = got /\ \A i \in 1..Len(lines) : lines'[i] = lines[i]
    <3> DEFINE S == Seq(Byte)
    <3>1. lines \in Seq(S) /\ got \in S
      BY <1>0, <1>9 DEF KeepTypes
    <3> HIDE DEF S
    <3>2. /\ Append(lines, got) \in Seq(S) /\ Len(Append(lines, got)) = Len(lines) + 1
          /\ Append(lines, got)[Len(lines) + 1] = got
          /\ \A i \in 1..Len(lines) : Append(lines, got)[i] = lines[i]
      BY <3>1, FileAppend
    <3> QED
      BY <2>1, <3>2 DEF S
  <2>3. lost' \in BOOLEAN
    BY <2>1
  <2>4. KeepTypes'
    BY <1>0, <1>2, <2>1, <2>2, <2>3 DEF KeepTypes
  <2>5. Len(lines)' < KeepDue'[1]
    <3>1. Len(lines) < input[1][1] /\ input[1][1] <= input[k][1] /\ input[k][1] < KeepDue'[1]
      BY <1>12, <1>13, <1>14
    <3>2. /\ Len(lines)' = Len(lines) + 1 /\ Len(lines) \in Nat /\ input[1][1] \in Nat
          /\ input[k][1] \in Nat /\ KeepDue'[1] \in Nat
      BY <1>0, <1>13, <2>2
    <3> QED
      BY <3>1, <3>2
  <2>6. Len(copied') = 0 /\ Len(copied') < KeepRoom /\ left' = KeepRoom - Len(copied') /\ left' > 1 /\ ~(left' <= 1)
    BY <2>1, KeepConsts
  <2>7. ASSUME ~lost' PROVE KeepExact'
    <3>1. ~lost /\ k = m
      <4>1. ~lost /\ ~(k < m)
        BY <2>1, <2>7
      <4> QED
        BY <4>1, <1>3, <1>5
    <3>2. PICK r : r = Len(lines) + 1
      OBVIOUS
    <3>3. PICK c : c = Len(copied)
      OBVIOUS
    <3>4. /\ r \in 1..Len(KeepLens) /\ KeepLens[r] \in Nat /\ c + k = KeepLens[r]
          /\ Through(input, r, c, k)
      BY <3>1, <3>2, <3>3, <1>0, <1>3, <1>4, <1>14, KeepContinues
    <3>5. r \in Nat /\ c \in Nat /\ copied = Part(r, 0, c)
      BY <3>1, <3>2, <3>3, <1>0 DEF KeepInv, KeepExact
    <3>6. got = Part(r, 0, KeepLens[r])
      <4>1. \A i \in 1..Len(s) : s[i] = <<r, 0 + c + i>>
        <5>1. \A i \in 1..k : 0 + c + i = c + i
          BY <3>5
        <5> QED
          BY <5>1, <3>4, <1>7 DEF Through
      <4>2. Part(r, 0, c) \o s = Part(r, 0, c + Len(s))
        <5>1. 0 \in Nat
          OBVIOUS
        <5> QED
          BY <5>1, <4>1, <3>5, <1>7, PartGrows, ZenonT(30)
      <4> QED
        BY <4>2, <3>4, <3>5, <1>7, <1>8
    <3>7. Len(lines') = r /\ \A i \in 1..r : lines'[i] = Part(i, 0, KeepLens[i])
      <4>1. \A i \in 1..Len(lines) : lines[i] = Part(i, 0, KeepLens[i])
        BY <3>1 DEF KeepInv, KeepExact
      <4>2. \A i \in 1..r : i = r \/ i \in 1..Len(lines)
        BY <3>2, <3>5, <1>0
      <4> QED
        BY <4>1, <4>2, <3>2, <3>6, <2>2
    <3>8. KeepDue' = <<r + 1, 0 + 1>>
      <4>1. input[m] = <<r, KeepLens[r]>>
        BY <3>1, <3>4, <1>5 DEF Through
      <4> QED
        BY <4>1, <1>11 DEF Following
    <3>9. Part(r + 1, 0, 0) = <<>>
      BY <3>5, PartShape
    <3> QED
      BY <3>7, <3>8, <3>9, <2>1, <2>6 DEF KeepExact
  <2> QED
    BY <1>0, <1>2, <1>11, <2>4, <2>5, <2>6, <2>7 DEF KeepInv
<1>15. CASE ~Keep!Newline(input[k])
  <2>1. copied' = got /\ left' = left - k /\ UNCHANGED <<lines, lost>>
    BY <1>10, <1>15
  <2>2. KeepTypes'
    BY <1>0, <1>2, <1>9, <2>1 DEF KeepTypes
  <2>3. Len(lines)' < KeepDue'[1]
    BY <1>0, <1>12, <1>13, <2>1
  <2>4. /\ Len(copied') = Len(copied) + k /\ Len(copied') < KeepRoom
        /\ left' = KeepRoom - Len(copied')
    BY <2>1, <1>0, <1>5, <1>9, KeepConsts
  <2>5. ASSUME ~lost' PROVE KeepExact'
    <3>1. ~lost
      BY <2>1, <2>5
    <3>2. PICK r : r = Len(lines) + 1
      OBVIOUS
    <3>3. PICK c : c = Len(copied)
      OBVIOUS
    <3>4. /\ r \in 1..Len(KeepLens) /\ KeepLens[r] \in Nat /\ c + k <= KeepLens[r] /\ c + k # KeepLens[r]
          /\ Through(input, r, c, k)
      BY <3>1, <3>2, <3>3, <1>0, <1>3, <1>4, <1>15, KeepContinues
    <3>5. r \in Nat /\ c \in Nat /\ copied = Part(r, 0, c)
      BY <3>1, <3>2, <3>3, <1>0 DEF KeepInv, KeepExact
    <3>6. got = Part(r, 0, c + k)
      <4>1. \A i \in 1..Len(s) : s[i] = <<r, 0 + c + i>>
        <5>1. \A i \in 1..k : 0 + c + i = c + i
          BY <3>5
        <5> QED
          BY <5>1, <3>4, <1>7 DEF Through
      <4>2. Part(r, 0, c) \o s = Part(r, 0, c + Len(s))
        <5>1. 0 \in Nat
          OBVIOUS
        <5> QED
          BY <5>1, <4>1, <3>5, <1>7, PartGrows, ZenonT(30)
      <4> QED
        BY <4>2, <3>5, <1>7, <1>8
    <3>7. Len(copied') = c + k /\ Len(lines') + 1 = r /\ lines' = lines
      BY <2>1, <2>4, <3>2, <3>3
    <3>8. \A i \in 1..Len(lines') : lines'[i] = Part(i, 0, KeepLens[i])
      BY <3>1, <2>1 DEF KeepInv, KeepExact
    <3>9. ASSUME left' > 1 PROVE KeepDue' = <<r, c + k + 1>>
      <4>1. k = m
        BY <3>9, <2>1, <1>0, <1>5, <1>15
      <4>2. input[m] = <<r, c + k>>
        BY <4>1, <3>4, <1>5 DEF Through
      <4> QED
        BY <4>2, <3>4, <1>11 DEF Following
    <3>10. ASSUME left' <= 1 PROVE KeepLens[r] >= KeepRoom
      <4>1. left - k <= 1 /\ left = KeepRoom - c
        BY <3>10, <2>1, <3>3, <1>0
      <4> QED
        <5>1. PICK q \in Nat : q = KeepLens[r]
          BY <3>4
        <5>2. c + k <= q /\ c + k # q
          BY <5>1, <3>4
        <5>3. q >= KeepRoom
          BY <4>1, <5>2, <3>5, <1>5, KeepConsts
        <5> QED
          BY <5>1, <5>3
    <3> QED
      BY <2>1, <3>4, <3>6, <3>7, <3>8, <3>9, <3>10 DEF KeepExact
  <2> QED
    BY <1>0, <1>2, <1>11, <2>1, <2>2, <2>3, <2>4, <2>5 DEF KeepInv
<1> QED
  BY <1>14, <1>15

LEMMA KeepStep == KeepInv /\ [Keep!Next]_keepVars => KeepInv'
<1> SUFFICES ASSUME KeepInv, [Keep!Next]_keepVars PROVE KeepInv'
  OBVIOUS
<1>1. CASE Keep!Close
  BY <1>1 DEF Keep!Close, Keep!server, KeepInv, KeepTypes, KeepExact, KeepDue
<1>2. CASE Keep!Interrupted
  <2>1. /\ intr < MaxIntr /\ intr' = intr + 1 /\ left' = left
        /\ UNCHANGED <<sent, input, eof, copied, lines, status, lost>>
    BY <1>2 DEF Keep!Interrupted, Keep!LenKept, Keep!client
  <2>2. intr' \in 0..MaxIntr
    BY <2>1, KeepFacts, KeepConsts
  <2> QED
    BY <2>1, <2>2 DEF KeepInv, KeepTypes, KeepExact, KeepDue
<1>3. CASE Keep!EndOfFile
  BY <1>3 DEF Keep!EndOfFile, Keep!Ends, Keep!client, KeepInv, KeepTypes, KeepExact, KeepDue
<1>4. CASE Keep!TooLong
  <2>1. left <= 1
    <3>1. ~(left > 1)
      BY <1>4 DEF Keep!TooLong, Keep!Reading
    <3> QED
      BY <3>1, KeepFacts
  <2>2. status' = "message too long" /\ UNCHANGED <<sent, input, eof, copied, left, lines, intr, lost>>
    BY <1>4 DEF Keep!TooLong, Keep!Ends, Keep!client
  <2> QED
    BY <2>1, <2>2 DEF KeepInv, KeepTypes, KeepExact, KeepDue
<1>5. CASE Keep!RecvFails
  BY <1>5 DEF Keep!RecvFails, Keep!Ends, Keep!client, KeepInv, KeepTypes, KeepExact, KeepDue
<1>6. CASE UNCHANGED keepVars
  BY <1>6 DEF keepVars, KeepInv, KeepTypes, KeepExact, KeepDue
<1> QED
  BY <1>1, <1>2, <1>3, <1>4, <1>5, <1>6, KeepSend, KeepRecv DEF Keep!Next

LEMMA KeepExactly == KeepInv => Keep!TypeOK /\ Keep!LinesExact
<1> SUFFICES ASSUME KeepInv PROVE Keep!TypeOK /\ Keep!LinesExact
  OBVIOUS
<1>1. Len(lines) \in Nat /\ Len(copied) \in Nat /\ DOMAIN lines = 1..Len(lines) /\ sent \in Nat
  BY KeepFacts
<1>2. Len(lines) <= Len(KeepLens)
  <2>1. KeepDue[1] <= <<sent + 1, 1>>[1] /\ KeepDue[1] \in Nat
    BY DueForward DEF KeepInv, KeepDue
  <2>2. Len(lines) < KeepDue[1] /\ sent \in 0..Len(KeepLens)
    BY DEF KeepInv, KeepTypes
  <2> QED
    BY <2>1, <2>2, <1>1, KeepConsts
<1>3. Keep!TypeOK
  <2>1. left \in 0..KeepRoom /\ left + Len(copied) <= KeepRoom /\ Len(copied) < KeepRoom
    BY KeepFacts, KeepConsts
  <2> QED
    BY <2>1, <1>2 DEF Keep!TypeOK, KeepInv, KeepTypes
<1>4. ASSUME ~lost, NEW k \in DOMAIN lines PROVE lines[k] = Keep!Line(k)
  <2>1. k \in 1..Len(lines) /\ k \in 1..Len(KeepLens)
    BY <1>1, <1>2, KeepConsts
  <2>2. lines[k] = Part(k, 0, KeepLens[k])
    BY <2>1, <1>4 DEF KeepInv, KeepExact
  <2>3. \A p \in 1..KeepLens[k] : 0 + p = p
    BY <2>1, KeepConsts
  <2> QED
    BY <2>2, <2>3 DEF Keep!Line, Part
<1>5. ASSUME ~lost, status = "message too long" PROVE ~Keep!Fits(Len(lines) + 1)
  <2>1. KeepLens[Len(lines) + 1] >= KeepRoom /\ left <= 1
    BY <1>5 DEF KeepInv, KeepExact
  <2>2. Len(lines) + 1 \in 1..Len(KeepLens)
    BY <1>5 DEF KeepInv, KeepExact
  <2> QED
    BY <2>1, <2>2, KeepConsts DEF Keep!Fits
<1> QED
  BY <1>3, <1>4, <1>5 DEF Keep!LinesExact
-------------------------------------------------------------------------------
(* readvrec of etcp.c.                                                       *)

Sizes == [r \in 1..Len(RecordLens) |-> Header + RecordLens[r]]

LEMMA RecordConsts ==
  /\ Len(RecordLens) \in Nat /\ DOMAIN RecordLens = 1..Len(RecordLens)
  /\ (\A r \in 1..Len(RecordLens) : RecordLens[r] \in Nat /\ RecordLens[r] > 0)
  /\ Header \in Nat /\ Header > 0 /\ RecordRoom \in Nat /\ RecordRoom > 0 /\ Capacity \in Nat
  /\ Len(Sizes) = Len(RecordLens)
  /\ \A r \in 1..Len(RecordLens) : Sizes[r] = Header + RecordLens[r] /\ Sizes[r] \in Nat
<1>1. RecordLens \in Seq(Nat \ {0})
  BY LibraryAssumption
<1>2. /\ Len(RecordLens) \in Nat /\ DOMAIN RecordLens = 1..Len(RecordLens)
      /\ \A r \in 1..Len(RecordLens) : RecordLens[r] \in Nat \ {0}
  BY <1>1
<1>3. Header \in Nat \ {0} /\ RecordRoom \in Nat \ {0} /\ Capacity \in Nat
  BY LibraryAssumption
<1>4. \A r \in 1..Len(RecordLens) : Sizes[r] = Header + RecordLens[r] /\ Sizes[r] \in Nat
  BY <1>2, <1>3 DEF Sizes
<1>5. Sizes \in [1..Len(RecordLens) -> Nat]
  BY <1>2, <1>3 DEF Sizes
<1>6. Len(Sizes) = Len(RecordLens)
  BY <1>2, <1>5, FunctionIsSeq
<1> QED
  BY <1>2, <1>3, <1>4, <1>6

\* The byte that will be read next, the record that this call reads, and how
\* much of it earlier calls of readn have read.
RecordDue == Due(wire, <<rec, totWritten + 1>>)
Turn == Len(results) + 1
Base == IF mode = "length" THEN 0
        ELSE IF mode = "record" THEN Header ELSE Header + (RecordLens[Turn] - reclen)

RecordTypes ==
    /\ rec \in 1..(Len(RecordLens) + 1) /\ totWritten \in Nat /\ closed \in BOOLEAN
    /\ mode \in {"length", "record", "discard", "ended", "failed"}
    /\ buf \in Seq(Byte) /\ want \in Nat /\ reclen \in Nat /\ len \in 0..RecordRoom
    /\ results \in Seq({"EMSGSIZE"} \union Seq(Byte))
    /\ Len(buf) <= want /\ (want <= Header \/ want <= RecordRoom)

\* writen has not yet written the whole of its record.
Writing ==
    /\ rec <= Len(RecordLens) => totWritten < Sizes[rec]
    /\ rec > Len(RecordLens) => totWritten = 0

\* What readn has is what follows, in the record, what was read before.
InCall ==
    /\ RecordDue = <<Turn, Base + Len(buf) + 1>> /\ buf = Part(Turn, Base, Len(buf))
    /\ Len(buf) < want

\* The three calls of readn that readvrec makes.
InLength == mode = "length" /\ want = Header /\ len = RecordRoom
InRecord ==
    /\ mode = "record" /\ Turn \in 1..Len(RecordLens) /\ want = RecordLens[Turn]
    /\ want <= RecordRoom
InDiscard ==
    /\ mode = "discard" /\ Turn \in 1..Len(RecordLens) /\ RecordLens[Turn] > RecordRoom
    /\ reclen <= RecordLens[Turn] /\ want = len /\ len > 0 /\ want <= reclen

RecordResults ==
    /\ Len(results) <= Len(RecordLens)
    /\ \A r \in 1..Len(results) : results[r] = Record!Expected(r)

RecordInv ==
    /\ RecordTypes /\ Writing /\ RecordResults
    /\ Run(Sizes, wire, <<rec, totWritten + 1>>) /\ Len(wire) <= Capacity
    /\ Record!Receiving => InCall /\ (InLength \/ InRecord \/ InDiscard)

LEMMA RecordFacts ==
  ASSUME RecordInv
  PROVE  /\ rec \in Nat /\ rec > 0 /\ rec <= Len(RecordLens) + 1 /\ totWritten \in Nat
         /\ Len(wire) \in Nat /\ wire \in Seq(Byte) /\ Run(Sizes, wire, <<rec, totWritten + 1>>)
         /\ buf \in Seq(Byte) /\ Len(buf) \in Nat /\ want \in Nat /\ reclen \in Nat
         /\ len \in Nat /\ len <= RecordRoom /\ Len(results) \in Nat /\ Turn \in Nat
         /\ DOMAIN results = 1..Len(results) /\ Len(wire) <= Capacity
         /\ results \in Seq({"EMSGSIZE"} \union Seq(Byte))
<1>1. /\ rec \in 1..(Len(RecordLens) + 1) /\ totWritten \in Nat
      /\ buf \in Seq(Byte) /\ want \in Nat /\ reclen \in Nat /\ len \in 0..RecordRoom
      /\ results \in Seq({"EMSGSIZE"} \union Seq(Byte))
  BY DEF RecordInv, RecordTypes
<1>2. Run(Sizes, wire, <<rec, totWritten + 1>>) /\ Len(wire) <= Capacity
  BY DEF RecordInv
<1>3. wire \in Seq(Byte)
  BY <1>2 DEF Run
<1>4. /\ Len(wire) \in Nat /\ Len(buf) \in Nat /\ Len(results) \in Nat
      /\ DOMAIN results = 1..Len(results)
  BY <1>1, <1>3
<1>5. Turn \in Nat
  BY <1>4 DEF Turn
<1>6. rec \in Nat /\ rec > 0 /\ rec <= Len(RecordLens) + 1 /\ len \in Nat /\ len <= RecordRoom
  BY <1>1, RecordConsts
<1> QED
  BY <1>1, <1>2, <1>3, <1>4, <1>5, <1>6

LEMMA RecordInit == Record!Init => RecordInv
<1> SUFFICES ASSUME Record!Init PROVE RecordInv
  OBVIOUS
<1>1. /\ rec = 1 /\ totWritten = 0 /\ wire = <<>> /\ closed = FALSE /\ mode = "length"
      /\ buf = <<>> /\ want = Header /\ reclen = 0 /\ len = RecordRoom /\ results = <<>>
  BY DEF Record!Init
<1>2. /\ Len(buf) = 0 /\ Len(results) = 0 /\ Len(wire) = 0 /\ <<>> \in Seq(Byte)
      /\ <<>> \in Seq({"EMSGSIZE"} \union Seq(Byte))
  BY <1>1
<1>3. 1 \in 1..(Len(RecordLens) + 1) /\ RecordRoom \in 0..RecordRoom /\ Header <= Header /\ 0 <= Header
  BY RecordConsts
<1>4. RecordTypes
  BY <1>1, <1>2, <1>3, RecordConsts DEF RecordTypes
<1>5. Writing
  BY <1>1, RecordConsts DEF Writing
<1>6. RecordResults
  <2>1. 1..0 = {}
    OBVIOUS
  <2> QED
    BY <2>1, <1>2, RecordConsts DEF RecordResults
<1>7. <<rec, totWritten + 1>> = <<1, 1>> /\ <<1, 1>> \in Byte /\ 1..0 = {}
  BY <1>1 DEF Byte
<1>8. Run(Sizes, wire, <<rec, totWritten + 1>>) /\ Len(wire) <= Capacity
  BY <1>1, <1>2, <1>7, RecordConsts DEF Run
<1>9. Turn = 1 /\ Base = 0 /\ Base + Len(buf) + 1 = 1
  BY <1>1, <1>2 DEF Turn, Base
<1>10. Part(1, 0, 0) = <<>>
  BY PartShape
<1>11. RecordDue = <<1, 1>>
  BY <1>1, <1>7 DEF RecordDue, Due
<1>12. InCall /\ InLength
  BY <1>1, <1>2, <1>9, <1>10, <1>11, RecordConsts DEF InCall, InLength
<1> QED
  BY <1>4, <1>5, <1>6, <1>8, <1>12 DEF RecordInv

LEMMA RecordWrite == RecordInv /\ Record!Write => RecordInv'
<1> SUFFICES ASSUME RecordInv, Record!Write PROVE RecordInv'
  OBVIOUS
<1>1. PICK m \in 1..Record!Min({Capacity - Len(wire), Record!Size(rec) - totWritten}) :
         /\ wire' = wire \o [k \in 1..m |-> <<rec, totWritten + k>>]
         /\ IF totWritten + m = Record!Size(rec)
            THEN rec' = rec + 1 /\ totWritten' = 0
            ELSE rec' = rec /\ totWritten' = totWritten + m
  BY DEF Record!Write
<1>2. rec <= Len(RecordLens) /\ UNCHANGED <<closed, mode, buf, want, reclen, len, results>>
  BY DEF Record!Write, Record!reader
<1>3. PICK r : r = rec
  OBVIOUS
<1>4. PICK c : c = totWritten
  OBVIOUS
<1>5. PICK size : size = Sizes[r]
  OBVIOUS
<1>6. /\ r \in Nat /\ r \in 1..Len(RecordLens) /\ c \in Nat /\ size \in Nat /\ c < size
      /\ Record!Size(rec) = size /\ size > 0
  <2>1. r \in Nat /\ r \in 1..Len(RecordLens) /\ c \in Nat
    BY <1>2, <1>3, <1>4, RecordFacts, RecordConsts
  <2>2. size \in Nat /\ Record!Size(rec) = size
    BY <2>1, <1>3, <1>5, RecordConsts DEF Record!Size
  <2>3. c < size
    BY <1>2, <1>3, <1>4, <1>5 DEF RecordInv, Writing
  <2> QED
    BY <2>1, <2>2, <2>3
<1>7. m \in Nat /\ m > 0 /\ c + m <= size /\ Len(wire) + m <= Capacity
  <2>0. Len(wire) \in Nat /\ Len(wire) <= Capacity /\ Capacity \in Nat
    BY RecordFacts, RecordConsts
  <2>1. PICK x \in Nat : x = Capacity - Len(wire)
    BY <2>0
  <2>2. PICK y \in Nat : y = size - c
    BY <1>6
  <2>3. Record!Min({x, y}) <= x /\ Record!Min({x, y}) <= y /\ Record!Min({x, y}) \in Nat
    <3>1. \A i, j \in Nat : Record!Min({i, j}) = Less(i, j)
      BY DEF Record!Min, Less
    <3>2. Record!Min({x, y}) = Less(x, y)
      BY <3>1, <2>1, <2>2
    <3> QED
      BY <3>2, <2>1, <2>2 DEF Less
  <2>4. m \in 1..Record!Min({x, y})
    BY <1>1, <1>4, <1>6, <2>1, <2>2
  <2>5. m \in Nat /\ m > 0 /\ m <= x /\ m <= y
    BY <2>1, <2>2, <2>3, <2>4
  <2> QED
    BY <2>0, <2>1, <2>2, <2>5, <1>6
<1>8. PICK e : e = <<rec', totWritten' + 1>>
  OBVIOUS
<1>9. /\ e = IF c + m = size THEN <<r + 1, 1>> ELSE <<r, c + m + 1>>
      /\ e \in Byte
  <2>1. CASE c + m = size
    <3>1. rec' = r + 1 /\ totWritten' = 0
      BY <1>1, <1>3, <1>4, <1>6, <2>1
    <3> QED
      BY <3>1, <2>1, <1>6, <1>8 DEF Byte
  <2>2. CASE c + m # size
    <3>1. rec' = r /\ totWritten' = c + m
      BY <1>1, <1>3, <1>4, <1>6, <2>2
    <3> QED
      BY <3>1, <2>2, <1>6, <1>7, <1>8 DEF Byte
  <2> QED
    BY <2>1, <2>2
<1>10. wire' = wire \o Part(r, c, m)
  BY <1>1, <1>3, <1>4 DEF Part
<1> DEFINE v == wire \o Part(r, c, m)
<1>11. Run(Sizes, v, e) /\ Due(v, e) = Due(wire, <<r, c + 1>>) /\ Len(v) = Len(wire) + m
  <2>1. Run(Sizes, wire, <<r, c + 1>>)
    BY <1>3, <1>4, RecordFacts
  <2>2. r \in 1..Len(Sizes) /\ Len(Sizes) \in Nat /\ Sizes[r] \in Nat /\ c + m <= Sizes[r]
    BY <1>5, <1>6, <1>7, RecordConsts
  <2>3. e = IF c + m = Sizes[r] THEN <<r + 1, 1>> ELSE <<r, c + m + 1>>
    BY <1>5, <1>9
  <2> QED
    BY <2>1, <2>2, <2>3, <1>6, <1>7, <1>9, RunPut
<1> HIDE DEF v
<1>12. wire' = v
  BY <1>10 DEF v
<1>13. Run(Sizes, wire, <<rec, totWritten + 1>>)' /\ RecordDue' = RecordDue /\ Len(wire') <= Capacity
  <2>1. <<r, c + 1>> = <<rec, totWritten + 1>>
    BY <1>3, <1>4
  <2> QED
    BY <2>1, <1>7, <1>8, <1>11, <1>12 DEF RecordDue
<1>14. rec' \in 1..(Len(RecordLens) + 1) /\ totWritten' \in Nat /\ Writing'
  <2>1. CASE c + m = size
    <3>1. rec' = r + 1 /\ totWritten' = 0
      BY <1>1, <1>3, <1>4, <1>6, <2>1
    <3>2. r + 1 \in 1..(Len(RecordLens) + 1)
      BY <1>6, RecordConsts
    <3>3. r + 1 <= Len(RecordLens) => Sizes[r + 1] > 0
      <4>1. ASSUME r + 1 <= Len(RecordLens) PROVE r + 1 \in 1..Len(RecordLens)
        BY <4>1, <1>6, RecordConsts
      <4> QED
        BY <4>1, RecordConsts
    <3> QED
      BY <3>1, <3>2, <3>3 DEF Writing
  <2>2. CASE c + m # size
    <3>1. rec' = r /\ totWritten' = c + m
      BY <1>1, <1>3, <1>4, <1>6, <2>2
    <3>2. c + m < size /\ c + m \in Nat /\ r \in 1..(Len(RecordLens) + 1) /\ ~(r > Len(RecordLens))
      BY <2>2, <1>6, <1>7, RecordConsts
    <3> QED
      BY <3>1, <3>2, <1>5 DEF Writing
  <2> QED
    BY <2>1, <2>2
<1>15. RecordTypes'
  BY <1>2, <1>14 DEF RecordInv, RecordTypes
<1>16. Turn' = Turn /\ Base' = Base
  BY <1>2 DEF Turn, Base
<1>17. InCall => InCall'
  BY <1>2, <1>13, <1>16 DEF InCall
<1>18. (InLength => InLength') /\ (InRecord => InRecord') /\ (InDiscard => InDiscard')
  BY <1>2, <1>16 DEF InLength, InRecord, InDiscard
<1>19. RecordResults' /\ (Record!Receiving' <=> Record!Receiving)
  BY <1>2 DEF RecordInv, RecordResults, Record!Expected, Record!Body, Record!Receiving
<1> QED
  BY <1>2, <1>13, <1>14, <1>15, <1>17, <1>18, <1>19 DEF RecordInv

\* What readn needs lies in the record.
LEMMA RecordBase ==
  ASSUME RecordInv, Record!Receiving, wire # <<>>
  PROVE  /\ Turn \in 1..Len(RecordLens) /\ Base \in Nat /\ Base + want <= Sizes[Turn]
         /\ wire[1] = <<Turn, Base + Len(buf) + 1>>
<1>1. InCall /\ (InLength \/ InRecord \/ InDiscard)
  BY DEF RecordInv
<1>2. RecordDue = wire[1]
  BY DEF RecordDue, Due
<1>3. wire[1] = <<Turn, Base + Len(buf) + 1>>
  BY <1>1, <1>2 DEF InCall
<1>4. Turn \in 1..Len(RecordLens)
  <2>1. 1 \in 1..Len(wire)
    BY RecordFacts
  <2>2. wire[1][1] \in 1..Len(Sizes)
    BY <2>1, RecordFacts DEF Run
  <2> QED
    BY <2>2, <1>3, RecordConsts
<1>5. PICK q \in Nat : q = RecordLens[Turn]
  BY <1>4, RecordConsts
<1>6. Sizes[Turn] = Header + q
  BY <1>4, <1>5, RecordConsts
<1>7. CASE InLength
  <2>1. Base = 0 /\ want = Header
    BY <1>7 DEF InLength, Base
  <2> QED
    BY <2>1, <1>3, <1>4, <1>5, <1>6, RecordConsts
<1>8. CASE InRecord
  <2>1. Base = Header /\ want = q
    BY <1>5, <1>8 DEF InRecord, Base
  <2> QED
    BY <2>1, <1>3, <1>4, <1>5, <1>6, RecordConsts
<1>9. CASE InDiscard
  <2>1. Base = Header + (q - reclen) /\ want <= reclen /\ reclen <= q
    BY <1>5, <1>9 DEF InDiscard, Base
  <2>2. want \in Nat /\ reclen \in Nat /\ Header \in Nat
    BY RecordFacts, RecordConsts
  <2>3. q - reclen \in Nat
    BY <2>1, <2>2, <1>5
  <2>4. Base \in Nat /\ Base + want <= Header + q
    BY <2>1, <2>2, <2>3, <1>5, SMTT(30)
  <2> QED
    BY <2>4, <1>3, <1>4, <1>6
<1> QED
  BY <1>1, <1>7, <1>8, <1>9

LEMMA RecordBytes ==
  ASSUME RecordInv, Record!Receiving, NEW m \in 1..Len(wire), m <= want - Len(buf)
  PROVE  /\ buf \o SubSeq(wire, 1, m) = Part(Turn, Base, Len(buf) + m)
         /\ Run(Sizes, SubSeq(wire, m + 1, Len(wire)), <<rec, totWritten + 1>>)
         /\ Due(SubSeq(wire, m + 1, Len(wire)), <<rec, totWritten + 1>>) =
               IF Base + Len(buf) + m = Sizes[Turn] THEN <<Turn + 1, 1>>
               ELSE <<Turn, Base + Len(buf) + m + 1>>
         /\ Len(SubSeq(wire, m + 1, Len(wire))) <= Capacity
<1>0. m \in Nat /\ m > 0 /\ m <= Len(wire) /\ wire # <<>> /\ m \in 0..Len(wire)
  BY RecordFacts
<1>1. PICK r : r = Turn
  OBVIOUS
<1>2. PICK b : b = Base
  OBVIOUS
<1>3. PICK h : h = Len(buf)
  OBVIOUS
<1>4. PICK c : c = b + h
  OBVIOUS
<1>5. /\ r \in Nat /\ b \in Nat /\ h \in Nat /\ c \in Nat /\ r \in 1..Len(RecordLens)
      /\ Sizes[r] \in Nat /\ b + want <= Sizes[r] /\ want \in Nat /\ m <= want - h
  <2>1. r \in Nat /\ h \in Nat /\ want \in Nat /\ m <= want - h
    BY <1>1, <1>3, RecordFacts
  <2>2. b \in Nat /\ r \in 1..Len(RecordLens) /\ b + want <= Sizes[r]
    BY <1>0, <1>1, <1>2, RecordBase
  <2>3. Sizes[r] \in Nat
    BY <2>2, RecordConsts
  <2>4. c \in Nat
    BY <2>1, <2>2, <1>4
  <2> QED
    BY <2>1, <2>2, <2>3, <2>4
<1>6. c + m <= Sizes[r]
  BY <1>0, <1>4, <1>5
<1>7. Due(wire, <<rec, totWritten + 1>>) = <<r, c + 1>>
  BY <1>1, <1>2, <1>3, <1>4 DEF RecordInv, InCall, RecordDue
<1>8. Through(wire, r, c, m)
  BY <1>5, <1>6, <1>7, RecordFacts, RunThrough
<1>9. PICK s : s = SubSeq(wire, 1, m)
  OBVIOUS
<1>10. s \in Seq(Byte) /\ Len(s) = m /\ \A i \in 1..m : s[i] = wire[i]
  BY <1>0, <1>9, RecordFacts, Cut
<1>11. \A i \in 1..Len(s) : s[i] = <<r, b + h + i>>
  BY <1>4, <1>8, <1>10 DEF Through
<1>12. Part(r, b, h) \o s = Part(r, b, h + Len(s))
  BY <1>5, <1>10, <1>11, PartGrows, ZenonT(30)
<1>13. buf = Part(r, b, h)
  BY <1>1, <1>2, <1>3 DEF RecordInv, InCall
<1>14. buf \o SubSeq(wire, 1, m) = Part(Turn, Base, Len(buf) + m)
  BY <1>1, <1>2, <1>3, <1>9, <1>10, <1>12, <1>13
<1>15. wire[m] = <<r, c + m>>
  <2>1. m \in 1..m
    BY <1>0
  <2> QED
    BY <2>1, <1>8 DEF Through
<1>16. /\ Run(Sizes, SubSeq(wire, m + 1, Len(wire)), <<rec, totWritten + 1>>)
       /\ Due(SubSeq(wire, m + 1, Len(wire)), <<rec, totWritten + 1>>) = Following(Sizes, wire[m])
  BY RecordFacts, RunTake
<1>17. Following(Sizes, wire[m]) = IF c + m = Sizes[r] THEN <<r + 1, 1>> ELSE <<r, c + m + 1>>
  BY <1>15 DEF Following
<1>18. Len(SubSeq(wire, m + 1, Len(wire))) <= Capacity
  <2>1. Len(SubSeq(wire, m + 1, Len(wire))) = Len(wire) - m
    BY <1>0, RecordFacts, Cut
  <2> QED
    BY <2>1, <1>0, RecordFacts, RecordConsts
<1> QED
  BY <1>1, <1>2, <1>3, <1>4, <1>14, <1>16, <1>17, <1>18

LEMMA RecordReturn ==
  ASSUME RecordInv, NEW x \in {"EMSGSIZE"} \union Seq(Byte), Record!Return(x),
         Turn \in 1..Len(RecordLens), x = Record!Expected(Turn)
  PROVE  /\ RecordResults' /\ results' \in Seq({"EMSGSIZE"} \union Seq(Byte)) /\ Turn' = Turn + 1
         /\ mode' = "length" /\ want' = Header /\ buf' = <<>> /\ reclen' = 0 /\ len' = RecordRoom
<1>1. /\ mode' = "length" /\ want' = Header /\ buf' = <<>> /\ reclen' = 0 /\ len' = RecordRoom
      /\ results' = Append(results, x)
  BY DEF Record!Return, Record!Reading
<1>2. PICK r : r = Turn
  OBVIOUS
<1>3. r = Len(results) + 1 /\ r \in Nat /\ r \in 1..Len(RecordLens) /\ x = Record!Expected(r)
  BY <1>2, RecordFacts DEF Turn
<1>4. /\ results' \in Seq({"EMSGSIZE"} \union Seq(Byte)) /\ Len(results') = r /\ results'[r] = x
      /\ \A i \in 1..Len(results) : results'[i] = results[i]
  <2> DEFINE S == {"EMSGSIZE"} \union Seq(Byte)
  <2>1. results \in Seq(S) /\ x \in S
    BY RecordFacts
  <2> HIDE DEF S
  <2>2. /\ Append(results, x) \in Seq(S) /\ Len(Append(results, x)) = Len(results) + 1
        /\ Append(results, x)[Len(results) + 1] = x
        /\ \A i \in 1..Len(results) : Append(results, x)[i] = results[i]
    BY <2>1, FileAppend
  <2> QED
    BY <2>2, <1>1, <1>3 DEF S
<1>5. ASSUME NEW i \in 1..r PROVE results'[i] = Record!Expected(i)
  <2>1. i = r \/ i \in 1..Len(results)
    BY <1>3, RecordFacts
  <2>2. \A j \in 1..Len(results) : results[j] = Record!Expected(j)
    BY DEF RecordInv, RecordResults
  <2> QED
    BY <2>1, <2>2, <1>3, <1>4
<1>6. RecordResults'
  <2>1. \A i \in 1..Len(results') : results'[i] = Record!Expected(i)
    BY <1>4, <1>5
  <2>2. Len(results') <= Len(RecordLens)
    BY <1>3, <1>4, RecordConsts
  <2> QED
    BY <2>1, <2>2 DEF RecordResults, Record!Expected, Record!Body
<1> QED
  BY <1>1, <1>2, <1>3, <1>4, <1>6 DEF Turn

\* A readn that is not finished goes on.
LEMMA RecordPartRead ==
  ASSUME RecordInv, Record!Receiving, NEW m \in 1..Len(wire), m <= want - Len(buf),
         Len(buf) + m # want, wire' = SubSeq(wire, m + 1, Len(wire)),
         buf' = buf \o SubSeq(wire, 1, m),
         UNCHANGED <<rec, totWritten, closed, mode, want, reclen, len, results>>
  PROVE  RecordInv'
<1>0. wire # <<>> /\ m \in Nat /\ m > 0
  BY RecordFacts
<1>1. Turn' = Turn /\ Base' = Base
  BY DEF Turn, Base
<1>2. PICK r : r = Turn
  OBVIOUS
<1>3. PICK b : b = Base
  OBVIOUS
<1>4. PICK h : h = Len(buf) + m
  OBVIOUS
<1>5. /\ r \in Nat /\ b \in Nat /\ h \in Nat /\ h < want /\ want \in Nat /\ Sizes[r] \in Nat
      /\ b + want <= Sizes[r]
  <2>1. Len(buf) \in Nat /\ want \in Nat /\ r \in Nat
    BY <1>2, RecordFacts
  <2>2. h \in Nat /\ h < want
    BY <2>1, <1>0, <1>4
  <2>3. r \in 1..Len(RecordLens) /\ b \in Nat /\ b + want <= Sizes[r]
    BY <1>0, <1>2, <1>3, RecordBase
  <2>4. Sizes[r] \in Nat
    BY <2>3, RecordConsts
  <2> QED
    BY <2>1, <2>2, <2>3, <2>4
<1>6. buf' = Part(r, b, h)
  BY <1>2, <1>3, <1>4, RecordBytes
<1>7. buf' \in Seq(Byte) /\ Len(buf') = h
  <2>1. r \in Nat /\ b \in Nat /\ h \in Nat
    BY <1>5
  <2>2. Part(r, b, h) \in Seq(Byte) /\ Len(Part(r, b, h)) = h
    BY <2>1, PartShape
  <2> QED
    BY <2>2, <1>6
<1>8. Run(Sizes, wire, <<rec, totWritten + 1>>)' /\ Len(wire') <= Capacity
  BY RecordBytes
<1>9. RecordDue' = <<r, b + h + 1>>
  <2>1. RecordDue' = IF Base + Len(buf) + m = Sizes[Turn] THEN <<Turn + 1, 1>>
                     ELSE <<Turn, Base + Len(buf) + m + 1>>
    BY RecordBytes DEF RecordDue
  <2>2. Base + Len(buf) + m = b + h
    BY <1>0, <1>3, <1>4, <1>5, RecordFacts
  <2>3. b + h # Sizes[Turn]
    BY <1>2, <1>5
  <2> QED
    BY <2>1, <2>2, <2>3, <1>2
<1>10. InCall'
  BY <1>1, <1>2, <1>3, <1>5, <1>6, <1>7, <1>9 DEF InCall
<1>11. (InLength => InLength') /\ (InRecord => InRecord') /\ (InDiscard => InDiscard')
  BY <1>1 DEF InLength, InRecord, InDiscard
<1>12. RecordTypes'
  <2>1. Len(buf') <= want'
    BY <1>5, <1>7
  <2> QED
    BY <2>1, <1>7 DEF RecordInv, RecordTypes
<1>13. RecordResults' /\ Writing'
  BY DEF RecordInv, RecordResults, Record!Expected, Record!Body, Writing
<1> QED
  BY <1>8, <1>10, <1>11, <1>12, <1>13 DEF RecordInv

\* A new readn begins where the last one ended.
LEMMA RecordFresh ==
  ASSUME RecordInv, UNCHANGED <<rec, totWritten, closed>>, buf' = <<>>,
         Run(Sizes, wire, <<rec, totWritten + 1>>)', Len(wire') <= Capacity,
         RecordResults', results' \in Seq({"EMSGSIZE"} \union Seq(Byte)),
         NEW r \in Nat, NEW b \in Nat, Turn' = r, Base' = b, RecordDue' = <<r, b + 1>>,
         want' \in Nat, want' > 0, want' <= Header \/ want' <= RecordRoom,
         reclen' \in Nat, len' \in 0..RecordRoom,
         InLength' \/ InRecord' \/ InDiscard'
  PROVE  RecordInv'
<1>1. Len(buf') = 0 /\ buf' \in Seq(Byte) /\ b + Len(buf') + 1 = b + 1
  OBVIOUS
<1>2. Part(r, b, 0) = <<>>
  BY PartShape
<1>3. InCall'
  BY <1>1, <1>2 DEF InCall
<1>4. mode' \in {"length", "record", "discard", "ended", "failed"}
  BY DEF InLength, InRecord, InDiscard
<1>5. Len(buf') <= want'
  BY <1>1
<1>6. RecordTypes'
  BY <1>1, <1>4, <1>5 DEF RecordInv, RecordTypes
<1>7. Writing'
  BY DEF RecordInv, Writing
<1> QED
  BY <1>3, <1>6, <1>7 DEF RecordInv

LEMMA RecordFinished ==
  ASSUME RecordInv, Record!Receiving, NEW m \in 1..Len(wire), m <= want - Len(buf),
         Len(buf) + m = want, wire' = SubSeq(wire, m + 1, Len(wire)),
         UNCHANGED <<rec, totWritten, closed>>,
         Record!Finished(buf \o SubSeq(wire, 1, m))
  PROVE  RecordInv'
<1>0. wire # <<>> /\ m \in Nat /\ m > 0
  BY RecordFacts
<1>1. PICK r : r = Turn
  OBVIOUS
<1>2. PICK b : b = Base
  OBVIOUS
<1>3. PICK q : q = RecordLens[r]
  OBVIOUS
<1>4. PICK bytes : bytes = buf \o SubSeq(wire, 1, m)
  OBVIOUS
<1>5. /\ r \in Nat /\ r \in 1..Len(RecordLens) /\ b \in Nat /\ want \in Nat
      /\ q \in Nat /\ q > 0 /\ Sizes[r] = Header + q /\ b + want <= Header + q
  <2>1. r \in Nat /\ want \in Nat
    BY <1>1, RecordFacts
  <2>2. r \in 1..Len(RecordLens) /\ b \in Nat /\ b + want <= Sizes[r]
    BY <1>0, <1>1, <1>2, RecordBase
  <2>3. q \in Nat /\ q > 0 /\ Sizes[r] = Header + q
    BY <2>2, <1>3, RecordConsts
  <2> QED
    BY <2>1, <2>2, <2>3
<1>6. bytes = Part(r, b, want)
  BY <1>1, <1>2, <1>4, RecordBytes
<1>7. bytes \in Seq(Byte) /\ Len(bytes) = want /\ \A i \in 1..want : bytes[i] = <<r, b + i>>
  <2>1. r \in Nat /\ b \in Nat /\ want \in Nat
    BY <1>5
  <2>2. /\ Part(r, b, want) \in Seq(Byte) /\ Len(Part(r, b, want)) = want
        /\ \A i \in 1..want : Part(r, b, want)[i] = <<r, b + i>>
    BY <2>1, PartShape
  <2> QED
    BY <2>2, <1>6
<1>8. Run(Sizes, wire, <<rec, totWritten + 1>>)' /\ Len(wire') <= Capacity
  BY RecordBytes
<1>9. RecordDue' = IF b + want = Header + q THEN <<r + 1, 1>> ELSE <<r, b + want + 1>>
  <2>1. RecordDue' = IF Base + Len(buf) + m = Sizes[Turn] THEN <<Turn + 1, 1>>
                     ELSE <<Turn, Base + Len(buf) + m + 1>>
    BY RecordBytes DEF RecordDue
  <2>2. Base + Len(buf) + m = b + want
    <3>1. Len(buf) \in Nat /\ b \in Nat /\ m \in Nat
      BY <1>0, <1>5, RecordFacts
    <3>2. b + Len(buf) + m = b + (Len(buf) + m)
      BY <3>1
    <3> QED
      BY <3>2, <1>2
  <2> QED
    BY <2>1, <2>2, <1>1, <1>5
<1>10. Record!Finished(bytes)
  BY <1>4
<1>11. InLength \/ InRecord \/ InDiscard
  BY DEF RecordInv
<1>12. RecordResults /\ results \in Seq({"EMSGSIZE"} \union Seq(Byte)) /\ reclen \in Nat /\ len \in 0..RecordRoom
  BY DEF RecordInv, RecordTypes
<1>13. UNCHANGED results => RecordResults' /\ results' \in Seq({"EMSGSIZE"} \union Seq(Byte)) /\ Turn' = r
  BY <1>1, <1>12 DEF RecordResults, Record!Expected, Record!Body, Turn
<1>14. CASE InLength
  <2>1. mode = "length" /\ want = Header /\ len = RecordRoom /\ b = 0
    BY <1>2, <1>14 DEF InLength, Base
  <2>2. Record!ntohl(bytes) = q
    <3>1. bytes = [k \in 1..Header |-> <<r, k>>]
      <4>1. \A k \in 1..Header : 0 + k = k
        BY RecordConsts
      <4> QED
        BY <4>1, <2>1, <1>6 DEF Part
    <3>2. bytes[1][1] = r
      <4>1. 1 \in 1..Header
        BY RecordConsts
      <4> QED
        BY <4>1, <3>1
    <3> QED
      BY <3>1, <3>2, <1>3 DEF Record!ntohl
  <2>3. /\ IF q > RecordRoom THEN Record!Reading("discard", RecordRoom, q, RecordRoom)
           ELSE Record!Reading("record", q, q, RecordRoom)
        /\ UNCHANGED results
    BY <2>1, <2>2, <1>10 DEF Record!Finished
  <2>4. b + want # Header + q /\ b + want + 1 = Header + 1
    BY <2>1, <1>5, RecordConsts
  <2>5. RecordDue' = <<r, Header + 1>> /\ Turn' = r
    BY <2>3, <2>4, <1>9, <1>13
  <2>6. CASE q > RecordRoom
    <3>1. /\ mode' = "discard" /\ want' = RecordRoom /\ buf' = <<>> /\ reclen' = q
          /\ len' = RecordRoom
      BY <2>3, <2>6 DEF Record!Reading
    <3>2. InDiscard'
      BY <3>1, <2>5, <2>6, <1>3, <1>5, RecordConsts, SMTT(30) DEF InDiscard
    <3>3. Base' = Header
      <4>1. Base' = Header + (q - q)
        BY <3>1, <2>5, <1>3 DEF Base
      <4> QED
        BY <4>1, <1>5, RecordConsts
    <3>4. RecordRoom \in 0..RecordRoom /\ RecordRoom \in Nat /\ RecordRoom > 0 /\ Header \in Nat
      BY RecordConsts
    <3> QED
      BY <3>1, <3>2, <3>3, <3>4, <2>3, <2>5, <1>5, <1>8, <1>13, RecordFresh
  <2>7. CASE ~(q > RecordRoom)
    <3>1. /\ mode' = "record" /\ want' = q /\ buf' = <<>> /\ reclen' = q
          /\ len' = RecordRoom
      BY <2>3, <2>7 DEF Record!Reading
    <3>2. InRecord'
      BY <3>1, <2>5, <2>7, <1>3, <1>5, RecordConsts DEF InRecord
    <3>3. Base' = Header
      BY <3>1 DEF Base
    <3>4. RecordRoom \in 0..RecordRoom /\ Header \in Nat /\ q <= RecordRoom
      BY <2>7, <1>5, RecordConsts
    <3> QED
      BY <3>1, <3>2, <3>3, <3>4, <2>3, <2>5, <1>5, <1>8, <1>13, RecordFresh
  <2> QED
    BY <2>6, <2>7
<1>15. ASSUME NEW x \in {"EMSGSIZE"} \union Seq(Byte), Record!Return(x), x = Record!Expected(r),
              b + want = Header + q
       PROVE  RecordInv'
  <2>1. /\ RecordResults' /\ results' \in Seq({"EMSGSIZE"} \union Seq(Byte)) /\ Turn' = r + 1
        /\ mode' = "length" /\ want' = Header /\ buf' = <<>> /\ reclen' = 0 /\ len' = RecordRoom
    BY <1>1, <1>5, <1>15, RecordReturn
  <2>2. Base' = 0 /\ InLength'
    BY <2>1 DEF Base, InLength
  <2>3. RecordDue' = <<r + 1, 0 + 1>> /\ r + 1 \in Nat /\ 0 \in Nat
    BY <1>5, <1>9, <1>15
  <2>4. RecordRoom \in 0..RecordRoom /\ Header \in Nat /\ Header > 0 /\ Header <= Header
    BY RecordConsts
  <2> QED
    BY <2>1, <2>2, <2>3, <2>4, <1>8, RecordFresh
<1>16. CASE InRecord
  <2>1. mode = "record" /\ want = q /\ b = Header /\ q <= RecordRoom
    BY <1>1, <1>2, <1>3, <1>16 DEF InRecord, Base
  <2>2. Record!Return(bytes)
    BY <2>1, <1>10 DEF Record!Finished
  <2>3. bytes = Record!Expected(r)
    <3>1. ~(RecordLens[r] > RecordRoom)
      BY <2>1, <1>3, <1>5, RecordConsts
    <3> QED
      BY <3>1, <2>1, <1>3, <1>6 DEF Record!Expected, Record!Body, Part
  <2> QED
    BY <2>1, <2>2, <2>3, <1>7, <1>15
<1>17. CASE InDiscard
  <2>1. /\ mode = "discard" /\ q > RecordRoom /\ reclen <= q /\ want = len /\ len > 0 /\ want <= reclen
        /\ b = Header + (q - reclen)
    BY <1>1, <1>2, <1>3, <1>17 DEF InDiscard, Base
  <2>2. PICK rest : rest = reclen - want
    OBVIOUS
  <2>3. rest \in Nat /\ b + want = Header + (q - rest) /\ rest < q
    BY <2>1, <2>2, <1>5, <1>12, RecordConsts
  <2>4. IF rest <= 0 THEN Record!Return("EMSGSIZE")
        ELSE /\ Record!Reading("discard", Less(rest, len), rest, Less(rest, len))
             /\ UNCHANGED results
    <3>1. Record!DiscardLen(rest, len) = Less(rest, len)
      BY <2>3, RecordFacts, SMTT(30) DEF Record!DiscardLen, Less
    <3> QED
      BY <3>1, <2>1, <2>2, <1>10 DEF Record!Finished, Record!RestOfRecord
  <2>5. CASE rest <= 0
    <3>1. b + want = Header + q
      BY <2>3, <2>5, <1>5, RecordConsts
    <3>2. Record!Expected(r) = "EMSGSIZE"
      BY <2>1, <1>3 DEF Record!Expected
    <3> QED
      BY <3>1, <3>2, <2>4, <2>5, <1>15
  <2>6. CASE ~(rest <= 0)
    <3>0. PICK l : l = Less(rest, len)
      OBVIOUS
    <3>1. /\ mode' = "discard" /\ want' = l /\ buf' = <<>> /\ reclen' = rest /\ len' = l
          /\ UNCHANGED results
      BY <3>0, <2>4, <2>6 DEF Record!Reading
    <3>2. l \in Nat /\ l > 0 /\ l <= rest /\ l <= RecordRoom /\ l \in 0..RecordRoom
      <4>1. len \in Nat /\ len <= RecordRoom /\ RecordRoom \in Nat
        BY RecordFacts, RecordConsts
      <4> QED
        BY <4>1, <3>0, <2>1, <2>3, <2>6 DEF Less
    <3>3. Turn' = r
      BY <3>1, <1>13
    <3>4. InDiscard'
      BY <3>1, <3>2, <3>3, <2>1, <2>3, <1>3, <1>5 DEF InDiscard
    <3>5. Base' = b + want
      BY <3>1, <3>3, <2>3, <1>3 DEF Base
    <3>6. b + want # Header + q /\ b + want \in Nat
      BY <2>3, <2>6, <1>5, RecordConsts
    <3>7. RecordDue' = <<r, b + want + 1>>
      BY <3>6, <1>9
    <3>8. PICK d \in Nat : d = b + want
      BY <3>6
    <3> QED
      BY <3>1, <3>2, <3>3, <3>4, <3>5, <3>7, <3>8, <2>3, <1>5, <1>8, <1>13, RecordFresh
  <2> QED
    BY <2>5, <2>6
<1> QED
  BY <1>11, <1>14, <1>16, <1>17

LEMMA RecordRead == RecordInv /\ Record!Read => RecordInv'
<1> SUFFICES ASSUME RecordInv, Record!Read PROVE RecordInv'
  OBVIOUS
<1>1. Record!Receiving /\ UNCHANGED <<rec, totWritten, closed>>
  BY DEF Record!Read, Record!writer
<1>2. PICK m \in 1..Record!Min({Len(wire), want - Len(buf)}) :
         LET bytes == buf \o SubSeq(wire, 1, m) IN
         /\ wire' = SubSeq(wire, m + 1, Len(wire))
         /\ IF Record!Done(bytes) THEN Record!Finished(bytes)
            ELSE buf' = bytes /\ UNCHANGED <<mode, want, reclen, len, results>>
  BY DEF Record!Read
<1>3. m \in 1..Len(wire) /\ m <= want - Len(buf) /\ m \in Nat
  <2>1. PICK x \in Nat : x = Len(wire)
    BY RecordFacts
  <2>2. PICK y \in Nat : y = want - Len(buf)
    <3>1. Len(buf) <= want
      BY DEF RecordInv, RecordTypes
    <3>2. Len(buf) \in Nat /\ want \in Nat
      BY RecordFacts
    <3>3. want - Len(buf) \in Nat
      BY <3>1, <3>2
    <3> QED
      BY <3>3
  <2>3. \A i, j \in Nat : Record!Min({i, j}) = Less(i, j)
    BY DEF Record!Min, Less
  <2>4. Record!Min({x, y}) = Less(x, y)
    BY <2>1, <2>2, <2>3
  <2>5. m \in 1..Less(x, y)
    BY <2>1, <2>2, <2>4
  <2> QED
    BY <2>1, <2>2, <2>5 DEF Less
<1>4. PICK bytes : bytes = buf \o SubSeq(wire, 1, m)
  OBVIOUS
<1>5. Len(bytes) = Len(buf) + m
  <2>1. m \in 0..Len(wire)
    BY <1>3
  <2>2. SubSeq(wire, 1, m) \in Seq(Byte) /\ Len(SubSeq(wire, 1, m)) = m
    BY <2>1, RecordFacts, Cut
  <2> DEFINE s == SubSeq(wire, 1, m)
  <2> HIDE DEF s
  <2>3. Len(buf \o s) = Len(buf) + Len(s)
    BY <2>2, RecordFacts, ConcatProperties DEF s
  <2> QED
    BY <2>2, <2>3, <1>4 DEF s
<1>6. CASE Len(bytes) = want
  <2>1. Record!Finished(buf \o SubSeq(wire, 1, m)) /\ wire' = SubSeq(wire, m + 1, Len(wire))
    BY <1>2, <1>4, <1>6 DEF Record!Done
  <2> QED
    BY <2>1, <1>1, <1>3, <1>5, <1>6, RecordFinished
<1>7. CASE Len(bytes) # want
  <2>1. /\ buf' = buf \o SubSeq(wire, 1, m) /\ wire' = SubSeq(wire, m + 1, Len(wire))
        /\ UNCHANGED <<mode, want, reclen, len, results>>
    BY <1>2, <1>4, <1>7 DEF Record!Done
  <2> QED
    BY <2>1, <1>1, <1>3, <1>5, <1>7, RecordPartRead
<1> QED
  BY <1>6, <1>7

LEMMA RecordStep == RecordInv /\ [Record!Next]_recordVars => RecordInv'
<1> SUFFICES ASSUME RecordInv, [Record!Next]_recordVars PROVE RecordInv'
  OBVIOUS
<1> USE DEF RecordInv, RecordTypes, Writing, RecordResults, Record!Expected, Record!Body,
            InCall, InLength, InRecord, InDiscard, RecordDue, Turn, Base, Record!Receiving
<1>1. CASE Record!Close
  BY <1>1 DEF Record!Close, Record!writer, Record!reader
<1>2. CASE Record!ReadEof
  BY <1>2 DEF Record!ReadEof, Record!writer
<1>3. CASE Record!ReadFails
  BY <1>3 DEF Record!ReadFails, Record!writer
<1>4. CASE UNCHANGED recordVars
  BY <1>4 DEF recordVars
<1> QED
  BY <1>1, <1>2, <1>3, <1>4, RecordWrite, RecordRead DEF Record!Next

LEMMA RecordExactly == RecordInv => Record!TypeOK /\ Record!RecordsExact /\ Record!InSync
<1> SUFFICES ASSUME RecordInv PROVE Record!TypeOK /\ Record!RecordsExact /\ Record!InSync
  OBVIOUS
<1>1. Record!RecordsExact
  BY RecordFacts DEF RecordInv, RecordResults, Record!RecordsExact
<1>2. Record!InSync
  <2> SUFFICES ASSUME mode = "length", buf = <<>>, wire # <<>>
               PROVE  wire[1] = <<Len(results) + 1, 1>>
    BY DEF Record!InSync
  <2>1. RecordDue = <<Turn, Base + Len(buf) + 1>> /\ RecordDue = wire[1]
    BY DEF RecordInv, InCall, RecordDue, Due, Record!Receiving
  <2>2. Base = 0 /\ Len(buf) = 0 /\ Base + Len(buf) + 1 = 1
    BY DEF Base
  <2> QED
    BY <2>1, <2>2 DEF Turn
<1>3. Record!TypeOK
  <2>1. Header <= Record!Max({Header, RecordRoom}) /\ RecordRoom <= Record!Max({Header, RecordRoom})
        /\ Record!Max({Header, RecordRoom}) \in Nat
    <3>1. \A i, j \in Nat : Record!Max({i, j}) = IF i <= j THEN j ELSE i
      BY DEF Record!Max
    <3>2. Header \in Nat /\ RecordRoom \in Nat
      BY RecordConsts
    <3>3. Record!Max({Header, RecordRoom}) = IF Header <= RecordRoom THEN RecordRoom ELSE Header
      BY <3>1, <3>2
    <3> QED
      BY <3>2, <3>3
  <2>2. want <= Record!Max({Header, RecordRoom})
    <3>1. want <= Header \/ want <= RecordRoom
      BY DEF RecordInv, RecordTypes
    <3>2. want \in Nat /\ Header \in Nat /\ RecordRoom \in Nat
      BY RecordFacts, RecordConsts
    <3> QED
      BY <2>1, <3>1, <3>2
  <2> QED
    BY <2>2 DEF RecordInv, RecordTypes, Record!TypeOK
<1> QED
  BY <1>1, <1>2, <1>3
-------------------------------------------------------------------------------
(* A step of the library is a step of one part, and leaves the others alone. *)

LEMMA RecordOfLibrary == [LibraryNext]_allVars => [Record!Next]_recordVars
<1> USE DEF byteVars
<1>1. Arrays(Next) \/ Links(Linked!Next) => UNCHANGED recordVars
  BY DEF Arrays, Links
<1>2. Records(Record!Next) => Record!Next
  BY DEF Records
<1>3. Keeps(Keep!Next) \/ Files(File!Next) \/ Replies(Reply!Next) => UNCHANGED recordVars
  BY DEF Keeps, Files, Replies
<1>4. UNCHANGED allVars => UNCHANGED recordVars
  BY DEF allVars
<1> QED
  BY <1>1, <1>2, <1>3, <1>4 DEF LibraryNext

LEMMA KeepOfLibrary == [LibraryNext]_allVars => [Keep!Next]_keepVars
<1> USE DEF byteVars
<1>1. Arrays(Next) \/ Links(Linked!Next) => UNCHANGED keepVars
  BY DEF Arrays, Links
<1>2. Keeps(Keep!Next) => Keep!Next
  BY DEF Keeps
<1>3. Records(Record!Next) \/ Files(File!Next) \/ Replies(Reply!Next) => UNCHANGED keepVars
  BY DEF Records, Files, Replies
<1>4. UNCHANGED allVars => UNCHANGED keepVars
  BY DEF allVars
<1> QED
  BY <1>1, <1>2, <1>3, <1>4 DEF LibraryNext

LEMMA FileOfLibrary == [LibraryNext]_allVars => [File!Next]_fileVars
<1> USE DEF byteVars
<1>1. Arrays(Next) \/ Links(Linked!Next) => UNCHANGED fileVars
  BY DEF Arrays, Links
<1>2. Files(File!Next) => File!Next
  BY DEF Files
<1>3. Records(Record!Next) \/ Keeps(Keep!Next) \/ Replies(Reply!Next) => UNCHANGED fileVars
  BY DEF Records, Keeps, Replies
<1>4. UNCHANGED allVars => UNCHANGED fileVars
  BY DEF allVars
<1> QED
  BY <1>1, <1>2, <1>3, <1>4 DEF LibraryNext

LEMMA ReplyOfLibrary == [LibraryNext]_allVars => [Reply!Next]_sendVars
<1> USE DEF byteVars
<1>1. Arrays(Next) \/ Links(Linked!Next) => UNCHANGED sendVars
  BY DEF Arrays, Links
<1>2. Replies(Reply!Next) => Reply!Next
  BY DEF Replies
<1>3. Records(Record!Next) \/ Keeps(Keep!Next) \/ Files(File!Next) => UNCHANGED sendVars
  BY DEF Records, Keeps, Files
<1>4. UNCHANGED allVars => UNCHANGED sendVars
  BY DEF allVars
<1> QED
  BY <1>1, <1>2, <1>3, <1>4 DEF LibraryNext

\* etcp.c, read_line.c, serverModel.c of select: however the streams are cut up,
\* interrupted and ended, readvrec returns every record whole or refuses it and
\* stays at the boundary of a record, readline returns whole lines until one recv
\* brings the bytes of two, readLine returns the beginning of every line, and
\* TransmitPending clears a response only when it was sent whole or send failed,
\* with no part sent twice until EWOULDBLOCK ends a call.  read, recv and send may
\* fail at any call.
THEOREM TransfersAreExact == LibrarySpec => []TransfersExact
<1> DEFINE TransfersInv == RecordInv /\ KeepInv /\ FileInv /\ ReplyInv
<1>1. LibraryInit => TransfersInv
  BY RecordInit, KeepInit, FileInit, ReplyInit DEF LibraryInit, Standing
<1>2. TransfersInv /\ [LibraryNext]_allVars => TransfersInv'
  <2> SUFFICES ASSUME TransfersInv, [LibraryNext]_allVars PROVE TransfersInv'
    OBVIOUS
  <2>1. RecordInv'
    BY RecordStep, RecordOfLibrary
  <2>2. KeepInv'
    BY KeepStep, KeepOfLibrary
  <2>3. FileInv'
    BY FileStep, FileOfLibrary
  <2>4. ReplyInv'
    BY ReplyStep, ReplyOfLibrary
  <2> QED
    BY <2>1, <2>2, <2>3, <2>4
<1>3. TransfersInv => TransfersExact
  BY RecordExactly, KeepExactly, FileExact, ReplyExact DEF TransfersExact
<1> QED
  BY <1>1, <1>2, <1>3, PTL DEF LibrarySpec
===============================================================================
