------------------------------ MODULE ArrayQueue ------------------------------
(***************************************************************************)
(* The circular queue of dataStruct/queue/src/queueArray.c.  One slot of   *)
(* the array stays unused, so that head = tail means empty.  InitQueue's   *)
(* malloc is assumed to succeed (its result is not tested); the memory it  *)
(* returns holds anything.                                                 *)
(***************************************************************************)
EXTENDS Integers, Sequences

CONSTANTS
  QLen,   \* Q->QLen, set before InitQueue
  Values  \* the ids of the items

ASSUME QLenAssumption == QLen \in Nat /\ QLen > 0

VARIABLES head, tail, item,
  reply   \* the last call and what it returned

vars == <<head, tail, item, reply>>

InitQueue ==
  /\ head = 0 /\ tail = 0
  /\ item \in [0 .. QLen - 1 -> Values]
  /\ reply = <<"init">>

\* The index after i.
NextIndex(i) == (i + 1) % QLen

QueueEmpty == head = tail

\* Seeded fault: the queue counts as full one item too late.
QueueFullLate == FALSE

QueueFull == NextIndex(tail) = head

EnQueue(v) ==
  \/ /\ ~QueueFull
     /\ item' = [item EXCEPT ![tail] = v]
     /\ tail' = NextIndex(tail)
     /\ reply' = <<"enqueue", v, TRUE>>
     /\ UNCHANGED head
  \/ /\ QueueFull
     /\ reply' = <<"enqueue", v, FALSE>>
     /\ UNCHANGED <<head, tail, item>>

DeQueue ==
  \/ /\ ~QueueEmpty
     /\ reply' = <<"dequeue", item[head], TRUE>>
     /\ head' = NextIndex(head)
     /\ UNCHANGED <<tail, item>>
  \/ /\ QueueEmpty
     /\ reply' = <<"dequeue", FALSE>>
     /\ UNCHANGED <<head, tail, item>>

Next == (\E v \in Values : EnQueue(v)) \/ DeQueue

Spec == InitQueue /\ [][Next]_vars

-------------------------------------------------------------------------------
\* Type invariant: the indices stay inside the array.
TypeOK ==
  /\ head \in 0 .. QLen - 1 /\ tail \in 0 .. QLen - 1
  /\ item \in [0 .. QLen - 1 -> Values]

\* The contents: the slots from head up to tail, around the end of the array.
Length == IF tail >= head THEN tail - head ELSE tail - head + QLen
Slot(k) == IF head + k >= QLen THEN head + k - QLen ELSE head + k
Contents == [k \in 1 .. Length |-> item[Slot(k - 1)]]

F == INSTANCE Fifo WITH Capacity <- QLen - 1, MayRefuse <- FALSE, q <- Contents

\* Every sequence of EnQueue and DeQueue behaves as a FIFO that holds QLen - 1
\* items ("QLen-1 is the useful size"), also after the indices have wrapped.
ImplementsFifo == F!Spec
===============================================================================
