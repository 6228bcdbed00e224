------------------------------ MODULE Sockets ------------------------------
(***************************************************************************)
(* The kernel's side of a TCP server and its clients, as the poll and the  *)
(* select server use it: the queue of a listening socket and, for each     *)
(* accepted descriptor, what the next recv and send on it will report.     *)
(* Clients are anonymous; a byte stream is reduced to "something to read"  *)
(* and the room left in the send buffer.                                   *)
(***************************************************************************)
EXTENDS Integers, FiniteSets, FiniteSetsExt

CONSTANTS
    Fds,        \* descriptors accept can return (positive integers)
    Backlog,    \* bound on connections waiting to be accepted
    Room,       \* bytes the send buffer of a socket holds
    Resets      \* whether peers may reset a connection

ASSUME FdsAssumption == Fds \in SUBSET (Nat \ {0}) /\ Fds # {} /\ IsFiniteSet(Fds)
ASSUME BoundsAssumption == Backlog \in Nat \ {0} /\ Room \in Nat \ {0} /\ Resets \in BOOLEAN

VARIABLES
    backlog,    \* connections waiting on the listening socket
    sock        \* descriptor -> its connection, or Closed

sockVars == <<backlog, sock>>

\* What the peer has done: still there, sent a FIN, sent a RST whose error is
\* yet to be reported, or sent a RST whose error recv or send has reported.
Peers == {"open", "fin", "reset", "broken"}

Closed == [peer |-> "none", data |-> FALSE, room |-> 0]
Accepted == [peer |-> "open", data |-> FALSE, room |-> Room]

SockType ==
    /\ backlog \in 0..Backlog
    /\ sock \in [Fds -> {Closed} \cup [peer : Peers, data : BOOLEAN, room : 0..Room]]

SockInit ==
    /\ backlog = 0
    /\ sock = [f \in Fds |-> Closed]

OpenFds == {f \in Fds : sock[f] # Closed}

Readable(f) == sock[f].data \/ sock[f].peer \in {"fin", "reset"}
Writable(f) == sock[f].room > 0 \/ sock[f].peer \in {"reset", "broken"}

\* The socket after a recv that found data, and after one that did not.
AfterRecv(s) ==
    IF s.data THEN [s EXCEPT !.data = FALSE]
    ELSE [s EXCEPT !.peer = IF @ = "reset" THEN "broken" ELSE @]

----------------------------------------------------------------------------
(* What clients do, at any moment of the server's round.                   *)

Connect ==
    /\ backlog < Backlog
    /\ backlog' = backlog + 1
    /\ UNCHANGED sock

ClientSends(f) ==
    /\ sock[f].peer = "open" /\ ~sock[f].data
    /\ sock' = [sock EXCEPT ![f].data = TRUE]
    /\ UNCHANGED backlog

ClientCloses(f) ==
    /\ sock[f].peer = "open"
    /\ sock' = [sock EXCEPT ![f].peer = "fin"]
    /\ UNCHANGED backlog

\* A crash of the client, or its answer to bytes sent after it closed; what
\* already arrived can still be read.
ClientResets(f) ==
    /\ Resets
    /\ sock[f].peer \in {"open", "fin"}
    /\ sock' = [sock EXCEPT ![f].peer = "reset"]
    /\ UNCHANGED backlog

ClientReads(f) ==
    /\ sock[f].peer \in {"open", "fin"} /\ sock[f].room < Room
    /\ sock' = [sock EXCEPT ![f].room = Room]
    /\ UNCHANGED backlog

ClientStep ==
    \/ Connect
    \/ \E f \in Fds : ClientSends(f) \/ ClientCloses(f) \/ ClientResets(f) \/ ClientReads(f)
============================================================================
