----------------------------- MODULE TaskService -----------------------------
(***************************************************************************)
(* What the thread pool promises to its callers, without threads, lock,    *)
(* condition variable or circular queue: tasks 1, 2, ... are accepted in   *)
(* order into a bounded FIFO, started in that order, each at most once,    *)
(* and at most Servers at a time; after a shutdown nothing is accepted; a  *)
(* graceful shutdown closes only when everything accepted has finished, an *)
(* immediate one when what was started has finished.                       *)
(***************************************************************************)
EXTENDS Naturals, Sequences, FiniteSets

CONSTANTS Capacity, Servers

VARIABLES pending, running, done, accepted, mode

svars == <<pending, running, done, accepted, mode>>

Init ==
  /\ pending = <<>> /\ running = {} /\ done = {}
  /\ accepted = 0
  /\ mode = "open"

Submit ==
  /\ mode = "open"
  /\ Len(pending) < Capacity
  /\ accepted' = accepted + 1
  /\ pending' = Append(pending, accepted + 1)
  /\ UNCHANGED <<running, done, mode>>

Start ==
  /\ mode \in {"open", "draining"}
  /\ pending # <<>>
  /\ Cardinality(running) < Servers
  /\ running' = running \cup {Head(pending)}
  /\ pending' = Tail(pending)
  /\ UNCHANGED <<done, accepted, mode>>

Finish ==
  \E t \in running :
     /\ running' = running \ {t}
     /\ done' = done \cup {t}
     /\ UNCHANGED <<pending, accepted, mode>>

Shutdown ==
  /\ mode = "open"
  /\ mode' \in {"draining", "stopping"}
  /\ UNCHANGED <<pending, running, done, accepted>>

Close ==
  /\ \/ mode = "draining" /\ pending = <<>>
     \/ mode = "stopping"
  /\ running = {}
  /\ mode' = "closed"
  /\ UNCHANGED <<pending, running, done, accepted>>

Next == Submit \/ Start \/ Finish \/ Shutdown \/ Close

Spec == Init /\ [][Next]_svars
=============================================================================
