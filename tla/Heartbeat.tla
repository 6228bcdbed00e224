----------------------------- MODULE Heartbeat ------------------------------
(***************************************************************************)
(* sockapi/demo/heartBeat1: a client and a server that sit in select with  *)
(* a timeout and exchange messages of fixed size over one connection.  A   *)
(* silent client sends a heartbeat, the server sends it back, and either   *)
(* side gives up after more than three timeouts in a row.                  *)
(*                                                                         *)
(* Time advances in ticks, and only when neither program has something to  *)
(* do: select returns without delay.  A byte is on its way for at most     *)
(* Delay ticks, and a message arrives in any number of pieces.  Cut is a   *)
(* network that from now on loses everything.  On Linux select leaves what *)
(* remains of the interval in its argument and the programs set only the   *)
(* seconds, so a timeout set after a message may be longer by Residue.     *)
(***************************************************************************)
EXTENDS Integers, Sequences

CONSTANTS
    T1, T2,     \* idle time before a heartbeat, time to wait for a response
    Size,       \* sizeof(msg_t), in pieces
    Delay,      \* longest way of a byte
    Residue,    \* what select may leave in tv_usec
    MayCut      \* whether the network may fail

Sides == {"client", "server"}
Peer(s) == IF s = "client" THEN "server" ELSE "client"
MaxMissed == 3

VARIABLES
    tv,         \* what is left of each side's timeout
    missed,     \* heartbeats, missed_heartbeats
    msg,        \* the bytes each side has of the message it receives
    net,        \* bytes on their way to each side
    cut,
    state,      \* "up", or why the program ended
    quiet       \* history: ticks since a side last received something

vars == <<tv, missed, msg, net, cut, state, quiet>>

\* The history is counted no further than this.
MaxQuiet == T1 + (MaxMissed + 1) * T2 + Residue + 1

Older(q) == IF q < MaxQuiet THEN q + 1 ELSE q

Idle(s) == IF s = "client" THEN T1 ELSE T1 + T2

Byte == [type : {"data", "heartbeat", "fin"}, place : 1..Size, age : 0..Delay]

TypeOK ==
    /\ tv \in [Sides -> 0..(T1 + T2 + Residue)]
    /\ missed \in [Sides -> 0..(MaxMissed + 1)]
    /\ msg \in [Sides -> Seq(Byte)] /\ net \in [Sides -> Seq(Byte)]
    /\ \A s \in Sides : Len(msg[s]) < Size
    /\ cut \in BOOLEAN /\ quiet \in [Sides -> 0..MaxQuiet]
    /\ state \in [Sides -> {"up", "dead", "terminated", "unknown", "killed"}]

Init ==
    /\ tv = [s \in Sides |-> Idle(s)] /\ missed = [s \in Sides |-> 0]
    /\ msg = [s \in Sides |-> <<>>] /\ net = [s \in Sides |-> <<>>]
    /\ cut = FALSE /\ state = [s \in Sides |-> "up"] /\ quiet = [s \in Sides |-> 0]

\* The bytes of a message; what the network keeps of them.
Message(type) == [k \in 1..Size |-> [type |-> type, place |-> k, age |-> 0]]
Fin == <<[type |-> "fin", place |-> 1, age |-> 0]>>
Sent(n, s, bytes) == IF cut THEN n ELSE [n EXCEPT ![Peer(s)] = @ \o bytes]

\* error(1, ...): the program ends and its socket is closed.
Exit(s, why) == state' = [state EXCEPT ![s] = why]

CountWraps(s) == (missed[s] + 1) % (MaxMissed + 1)          \* seeded fault
Counted(s) == missed[s] + 1

SendBeat(s, bytes) == net' = IF s = "client" THEN Sent(net, s, bytes) ELSE net

\* select returned 0.
Timeout(s) ==
    /\ state[s] = "up" /\ tv[s] = 0
    /\ missed' = [missed EXCEPT ![s] = Counted(s)]
    /\ IF Counted(s) > MaxMissed
       THEN Exit(s, "dead") /\ net' = Sent(net, s, Fin) /\ UNCHANGED tv
       ELSE /\ SendBeat(s, Message("heartbeat"))
            /\ tv' = [tv EXCEPT ![s] = T2]
            /\ UNCHANGED state
    /\ UNCHANGED <<msg, cut, quiet>>

\* The count and the timeout after something was received.
HeardKept(s) == missed' = missed /\ tv' = [tv EXCEPT ![s] = Idle(s)]    \* seeded fault
Heard(s) ==
    /\ missed' = [missed EXCEPT ![s] = 0]
    /\ \E r \in 0..Residue : tv' = [tv EXCEPT ![s] = Idle(s) + r]

\* The in-line readn: cnt is what the message still lacks.
NextMsg(bytes) == IF Len(bytes) < Size THEN bytes ELSE <<>>

\* A whole message; its type is the type of its first byte, if it is one.
Type(bytes) == IF \A k \in 1..Size : bytes[k].place = k THEN bytes[1].type ELSE "garbled"
Process(s, bytes, rest) ==
    IF s = "client" \/ Len(bytes) < Size THEN net' = rest /\ UNCHANGED state
    ELSE CASE Type(bytes) = "data" -> net' = rest /\ UNCHANGED state
           [] Type(bytes) = "heartbeat" -> net' = Sent(rest, s, Message("heartbeat")) /\ UNCHANGED state
           [] OTHER -> net' = Sent(rest, s, Fin) /\ Exit(s, "unknown")

\* select found the socket readable; one recv.
Receive(s) ==
    /\ state[s] = "up" /\ net[s] # <<>>
    /\ IF net[s][1].type = "fin"
       THEN /\ net' = Sent([net EXCEPT ![s] = <<>>], s, Fin) /\ Exit(s, "terminated")
            /\ UNCHANGED <<tv, missed, msg, quiet>>
       ELSE \E n \in 1..(Size - Len(msg[s])) :
               LET bytes == msg[s] \o SubSeq(net[s], 1, n) IN
               /\ n <= Len(net[s]) /\ \A k \in 1..n : net[s][k].type # "fin"
               /\ Heard(s)
               /\ msg' = [msg EXCEPT ![s] = NextMsg(bytes)]
               /\ Process(s, bytes, [net EXCEPT ![s] = SubSeq(@, n + 1, Len(@))])
               /\ quiet' = [quiet EXCEPT ![s] = 0]
    /\ UNCHANGED cut

\* The client's application sends, a message at a time.
Talk ==
    /\ state["client"] = "up" /\ net["server"] = <<>> /\ ~cut
    /\ net' = Sent(net, "client", Message("data"))
    /\ UNCHANGED <<tv, missed, msg, cut, state, quiet>>

\* A program is killed: its kernel closes the connection.
Kill(s) ==
    /\ state[s] = "up" /\ Exit(s, "killed") /\ net' = Sent(net, s, Fin)
    /\ UNCHANGED <<tv, missed, msg, cut, quiet>>

Cut ==
    /\ MayCut /\ ~cut
    /\ cut' = TRUE /\ net' = [s \in Sides |-> <<>>]
    /\ UNCHANGED <<tv, missed, msg, state, quiet>>

Tick ==
    /\ \E s \in Sides : state[s] = "up"
    /\ \A s \in Sides : state[s] = "up" => tv[s] > 0 /\ \A k \in DOMAIN net[s] : net[s][k].age < Delay
    /\ tv' = [s \in Sides |-> IF state[s] = "up" THEN tv[s] - 1 ELSE tv[s]]
    /\ quiet' = [s \in Sides |-> IF state[s] = "up" THEN Older(quiet[s]) ELSE quiet[s]]
    /\ net' = [s \in Sides |-> IF state[s] # "up" THEN <<>>
                               ELSE [k \in DOMAIN net[s] |-> [net[s][k] EXCEPT !.age = @ + 1]]]
    /\ UNCHANGED <<missed, msg, cut, state>>

Next ==
    \/ \E s \in Sides : Timeout(s) \/ Receive(s) \/ Kill(s)
    \/ Talk \/ Cut \/ Tick

Spec == Init /\ [][Next]_vars
FairSpec ==
    /\ Spec /\ WF_vars(Tick)
    /\ \A s \in Sides : WF_vars(Timeout(s)) /\ WF_vars(Receive(s))

\* While the network delivers within Delay, neither side takes the connection
\* for dead, however messages are cut up and late: the client's heartbeats and
\* the server's count of missed ones fit together.
NoFalseAlarm == ~cut => \A s \in Sides : state[s] # "dead"

\* No side stays longer without a message than its timeouts allow.
NoticedInTime ==
    \A s \in Sides : state[s] = "up" => quiet[s] <= Idle(s) + Residue + MaxMissed * T2

\* The pieces of a message are put together at their places: the server never
\* takes part of one for the head of another and ends with an unknown type.
InStep ==
    /\ state["server"] # "unknown"
    /\ \A s \in Sides : \A k \in DOMAIN msg[s] : msg[s][k].place = k

\* Once the network is cut or one side is gone, both programs end.
EndNoticed == cut \/ (\E s \in Sides : state[s] # "up") ~> \A s \in Sides : state[s] # "up"
=============================================================================
