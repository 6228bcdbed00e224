------------------------------ MODULE LinkedQueue ------------------------------
(***************************************************************************)
(* The queue of dataStruct/queue/src/queueLinkList.c: a singly linked list *)
(* behind a node without contents.  malloc returns any block that is not   *)
(* allocated, or NULL; a node that is freed may be returned again at once  *)
(* with its old contents.                                                  *)
(***************************************************************************)
EXTENDS Naturals, Sequences, FiniteSets

CONSTANTS
  Nodes,    \* the addresses malloc may return
  NULL,
  Values    \* the ids of the items

VARIABLES
  heap,     \* the nodes allocated
  next, id, \* the fields of the nodes, of free ones too
  head, tail,
  reply     \* the last call and what it returned

vars == <<heap, next, id, head, tail, reply>>

InitQueue ==
  /\ head \in Nodes /\ tail = head
  /\ heap = {head}
  /\ next = [n \in Nodes |-> NULL]
  /\ id \in [Nodes -> Values]
  /\ reply = <<"init">>

isEmpty == tail = head

EnQueue(v) ==
  \/ \E n \in Nodes \ heap :
       /\ heap' = heap \cup {n}
       /\ next' = [next EXCEPT ![tail] = n, ![n] = NULL]
       /\ id' = [id EXCEPT ![n] = v]
       /\ tail' = n
       /\ reply' = <<"enqueue", v, TRUE>>
       /\ UNCHANGED head
  \/ /\ next' = [next EXCEPT ![tail] = NULL]
     /\ reply' = <<"enqueue", v, FALSE>>
     /\ UNCHANGED <<heap, id, head, tail>>

\* Seeded fault: "lose tail", the case the code guards against.
DeQueueLoseTail ==
  \/ /\ ~isEmpty
     /\ LET temp == next[head] IN
          /\ reply' = <<"dequeue", id[temp], TRUE>>
          /\ next' = [next EXCEPT ![head] = next[temp]]
          /\ heap' = heap \ {temp}
     /\ UNCHANGED <<id, head, tail>>
  \/ /\ isEmpty
     /\ reply' = <<"dequeue", FALSE>>
     /\ UNCHANGED <<heap, next, id, head, tail>>

DeQueue ==
  \/ /\ ~isEmpty
     /\ LET temp == next[head] IN
          /\ reply' = <<"dequeue", id[temp], TRUE>>
          /\ tail' = IF tail = temp THEN head ELSE tail
          /\ next' = [next EXCEPT ![head] = next[temp]]
          /\ heap' = heap \ {temp}
     /\ UNCHANGED <<id, head>>
  \/ /\ isEmpty
     /\ reply' = <<"dequeue", FALSE>>
     /\ UNCHANGED <<heap, next, id, head, tail>>

Next == (\E v \in Values : EnQueue(v)) \/ DeQueue

Spec == InitQueue /\ [][Next]_vars

-------------------------------------------------------------------------------
\* The k-th node behind the head, NULL past the end of the list.
Reached == LET node[k \in 0 .. Cardinality(Nodes)] ==
                 IF k = 0 THEN head
                 ELSE IF node[k - 1] = NULL THEN NULL ELSE next[node[k - 1]]
           IN  node
Length == Cardinality({k \in 1 .. Cardinality(Nodes) : Reached[k] # NULL})

\* The list is well formed: it ends at tail, passes no node twice or after its
\* free, and every node allocated is in it, so that nothing leaks.
ListWellFormed ==
  /\ Reached[Length] = tail /\ next[tail] = NULL
  /\ {Reached[k] : k \in 0 .. Length} = heap
  /\ Cardinality(heap) = Length + 1

F == INSTANCE Fifo WITH
       Capacity <- Cardinality(Nodes) - 1, MayRefuse <- TRUE,
       q <- [k \in 1 .. Length |-> id[Reached[k]]]

\* Every sequence of EnQueue and DeQueue behaves as a FIFO, although malloc may
\* return a node that was just freed, or none.
ImplementsFifo == F!Spec
================================================================================
