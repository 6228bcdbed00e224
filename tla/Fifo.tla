--------------------------------- MODULE Fifo ---------------------------------
(***************************************************************************)
(* What the queues of dataStruct/queue promise: first in, first out.  An   *)
(* insertion is refused when the queue has reached its capacity, and may   *)
(* be refused when MayRefuse says so (no memory); a removal is refused     *)
(* exactly when the queue is empty.                                        *)
(***************************************************************************)
EXTENDS Naturals, Sequences

CONSTANTS Values, Capacity, MayRefuse

VARIABLES
  q,     \* the contents, oldest first
  reply  \* the last call and what it returned

Init == q = <<>> /\ reply = <<"init">>

Insert(v) ==
  /\ Len(q) < Capacity
  /\ q' = Append(q, v)
  /\ reply' = <<"enqueue", v, TRUE>>

Refuse(v) ==
  /\ Len(q) = Capacity \/ MayRefuse
  /\ q' = q
  /\ reply' = <<"enqueue", v, FALSE>>

Remove ==
  /\ q # <<>>
  /\ q' = Tail(q)
  /\ reply' = <<"dequeue", Head(q), TRUE>>

Nothing ==
  /\ q = <<>>
  /\ q' = q
  /\ reply' = <<"dequeue", FALSE>>

Next == (\E v \in Values : Insert(v) \/ Refuse(v)) \/ Remove \/ Nothing

Spec == Init /\ [][Next]_<<q, reply>>
===============================================================================
