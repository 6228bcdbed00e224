----------------------------- MODULE MCDispatch ------------------------------
(***************************************************************************)
(* Dispatch over two kinds of sockets in one run.  "partial": small ones   *)
(* that take any number of bytes, beside accept and send that may fail.    *)
(* "whole": sockets with room for every connection that take whole ints,   *)
(* as Linux does with its default buffer sizes.                            *)
(***************************************************************************)
EXTENDS Dispatch

CONSTANTS
  WholeCap,    \* bytes a socket of the second kind holds
  WholeConns   \* bound on the connections made with it

ASSUME WholeCapAssumption == WholeCap \in Nat \ {0} /\ WholeConns \in 0 .. MaxConns

VARIABLE sockets     \* the kind

Whole == INSTANCE Dispatch WITH
  ChanCap <- WholeCap, Granule <- IntSize, Errors <- FALSE, MaxConns <- WholeConns

DispatchInit == sockets \in {"partial", "whole"} /\ Init

DispatchNext ==
  /\ \/ sockets = "partial" /\ Next
     \/ sockets = "whole" /\ Whole!Next
  /\ UNCHANGED sockets

DispatchSpec == DispatchInit /\ [][DispatchNext]_<<sockets, vars>>

\* With whole transfers, a thread that can run does run.
Running == sockets = "whole" /\ Alive /\ UNCHANGED sockets

DispatchFairSpec ==
  /\ DispatchSpec
  /\ WF_<<sockets, vars>>(Running /\ Whole!MainThread)
  /\ WF_<<sockets, vars>>(Running /\ Whole!Dispatcher)
  /\ \A c \in Channels : WF_<<sockets, vars>>(Running /\ Whole!Worker(c))

\* While transfers are whole ints: what a worker registers is exactly what was
\* delivered to it, no int is put together from the bytes of two, and the
\* assert of readfun_getConnections does not end the process.  The types hold
\* for either kind of socket.
WholeRegistered ==
  IF sockets = "whole" THEN Whole!TypeOK /\ RegisteredAsDelivered ELSE TypeOK

\* While transfers are whole ints: every connection made, below MAX_FD, is
\* eventually registered by a worker.
WholeReachesWorker == sockets = "whole" => EveryConnectionRegistered
==============================================================================
