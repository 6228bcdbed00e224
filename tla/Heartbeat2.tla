----------------------------- MODULE Heartbeat2 -----------------------------
(***************************************************************************)
(* sockapi/demo/heartBeat2: as heartBeat1, but the heartbeats are single   *)
(* bytes on a connection of their own (chb, shb) beside the data (sdata).  *)
(* Both programs have made their two connections and sit in select.  The   *)
(* client receives from chb where sdata is readable (hb_client.c:72) and   *)
(* waits there when chb has nothing; data stays unread.                    *)
(*                                                                         *)
(* Time, Delay and Residue are those of Heartbeat.  Faults: the network is *)
(* cut, and either program is killed.                                      *)
(***************************************************************************)
EXTENDS Integers, Sequences

CONSTANTS T1, T2, Delay, Residue

Sides == {"client", "server"}
Conns == {"hb", "data"}
Peer(s) == IF s = "client" THEN "server" ELSE "client"
MaxMissed == 3
MaxQuiet == T1 + (MaxMissed + 1) * T2 + Residue + 1
Older(q) == IF q < MaxQuiet THEN q + 1 ELSE q

VARIABLES
    tv, missed,     \* what is left of the timeout; heartbeats, missd_heartbeats
    net,            \* on their way to a side on a connection: [kind, age]
    rcv,            \* arrived there and not yet received
    state,          \* "select", "recv" (waiting for chb), or why it ended
    cut,
    quiet           \* history: ticks since a side last received something

vars == <<tv, missed, net, rcv, state, cut, quiet>>

Up(s) == state[s] \in {"select", "recv"}
\* What select is called with once something was received.
Idle(s) == IF s = "client" THEN T1 ELSE T1 + T2

Kinds == {"byte", "fin"}

TypeOK ==
    /\ tv \in [Sides -> 0..(T1 + T2 + Residue)] /\ missed \in [Sides -> 0..(MaxMissed + 1)]
    /\ net \in [Sides -> [Conns -> Seq([kind : Kinds, age : 0..Delay])]]
    /\ rcv \in [Sides -> [Conns -> Seq(Kinds)]]
    /\ state \in [Sides -> {"select", "recv", "dead", "terminated", "killed"}]
    /\ state["server"] # "recv"
    /\ cut \in BOOLEAN /\ quiet \in [Sides -> 0..MaxQuiet]

Init ==
    /\ tv = [s \in Sides |-> Idle(s)] /\ missed = [s \in Sides |-> 0]
    /\ net = [s \in Sides |-> [c \in Conns |-> <<>>]] /\ rcv = net
    /\ state = [s \in Sides |-> "select"] /\ cut = FALSE
    /\ quiet = [s \in Sides |-> 0]

\* Bytes of a kind that side s sends on the connections cs.
Sent(s, cs, kind) ==
    IF cut THEN net
    ELSE [net EXCEPT ![Peer(s)] = [c \in Conns |->
             IF c \in cs THEN Append(@[c], [kind |-> kind, age |-> 0]) ELSE @[c]]]

\* The program ends; its two connections are closed.
Exit(s, why) == state' = [state EXCEPT ![s] = why] /\ net' = Sent(s, Conns, "fin")

CountWraps(s) == (missed[s] + 1) % (MaxMissed + 1)          \* seeded fault
Counted(s) == missed[s] + 1

\* select returned 0.
Timeout(s) ==
    /\ state[s] = "select" /\ tv[s] = 0 /\ \A c \in Conns : rcv[s][c] = <<>>
    /\ missed' = [missed EXCEPT ![s] = Counted(s)]
    /\ IF Counted(s) > MaxMissed THEN Exit(s, "dead") /\ UNCHANGED tv
       ELSE /\ net' = IF s = "client" THEN Sent(s, {"hb"}, "byte") ELSE net
            /\ tv' = [tv EXCEPT ![s] = T2]
            /\ UNCHANGED state
    /\ UNCHANGED <<rcv, cut, quiet>>

\* The end of the loop's body: rcv is what is left, kept in state "select".
HeardKept(s) ==                                             \* seeded fault
    /\ missed' = missed /\ tv' = [tv EXCEPT ![s] = Idle(s)]
    /\ quiet' = [quiet EXCEPT ![s] = 0] /\ state' = [state EXCEPT ![s] = "select"]
Heard(s) ==
    /\ missed' = [missed EXCEPT ![s] = 0]
    /\ \E r \in 0..Residue : tv' = [tv EXCEPT ![s] = Idle(s) + r]
    /\ quiet' = [quiet EXCEPT ![s] = 0]
    /\ state' = [state EXCEPT ![s] = "select"]

\* recv of the connection's first byte, of all its bytes; the end of file.
OneOf(q) == IF q = <<>> THEN q ELSE Tail(q)
NoneOf(q) == IF q # <<>> /\ q[Len(q)] = "fin" THEN <<"fin">> ELSE <<>>
AtEof(q) == q # <<>> /\ Head(q) = "fin"

Terminated(s) == Exit(s, "terminated") /\ UNCHANGED <<tv, missed, quiet, rcv>>

\* A round of the server after select returned.
ServerRound(s) ==
    /\ s = "server" /\ state[s] = "select" /\ \E c \in Conns : rcv[s][c] # <<>>
    /\ IF \E c \in Conns : AtEof(rcv[s][c]) THEN Terminated(s)
       ELSE /\ Heard(s)
            /\ net' = IF rcv[s]["hb"] = <<>> THEN net ELSE Sent(s, {"hb"}, "byte")
            /\ rcv' = [rcv EXCEPT ![s]["hb"] = OneOf(@), ![s]["data"] = NoneOf(@)]
    /\ UNCHANGED cut

\* A round of the client; a readable sdata makes it receive from chb, where
\* it waits when nothing has come.
ClientRound(s) ==
    /\ s = "client" /\ state[s] = "select" /\ \E c \in Conns : rcv[s][c] # <<>>
    /\ LET hb == OneOf(rcv[s]["hb"]) IN
       IF AtEof(rcv[s]["hb"]) \/ (rcv[s]["data"] # <<>> /\ AtEof(hb)) THEN Terminated(s)
       ELSE IF rcv[s]["data"] # <<>> /\ hb = <<>>
       THEN /\ state' = [state EXCEPT ![s] = "recv"]
            /\ rcv' = [rcv EXCEPT ![s]["hb"] = hb]
            /\ UNCHANGED <<tv, missed, net, quiet>>
       ELSE /\ Heard(s)
            /\ rcv' = [rcv EXCEPT ![s]["hb"] = IF rcv[s]["data"] # <<>> THEN NoneOf(hb) ELSE hb]
            /\ UNCHANGED net
    /\ UNCHANGED cut

\* The recv the client waits in returns.
RecvReturns(s) ==
    /\ state[s] = "recv" /\ rcv[s]["hb"] # <<>>
    /\ IF AtEof(rcv[s]["hb"]) THEN Terminated(s)
       ELSE /\ Heard(s) /\ rcv' = [rcv EXCEPT ![s]["hb"] = NoneOf(@)]
            /\ UNCHANGED net
    /\ UNCHANGED cut

\* The client's application sends data, a message at a time.
Talk ==
    /\ state["client"] = "select" /\ ~cut
    /\ net["server"]["data"] = <<>> /\ rcv["server"]["data"] = <<>>
    /\ net' = Sent("client", {"data"}, "byte")
    /\ UNCHANGED <<tv, missed, rcv, state, cut, quiet>>

Arrive(s, c) ==
    /\ Up(s) /\ net[s][c] # <<>>
    /\ rcv' = [rcv EXCEPT ![s][c] = Append(@, Head(net[s][c]).kind)]
    /\ net' = [net EXCEPT ![s][c] = Tail(@)]
    /\ UNCHANGED <<tv, missed, state, cut, quiet>>

Cut ==
    /\ ~cut /\ cut' = TRUE
    /\ net' = [s \in Sides |-> [c \in Conns |-> <<>>]]
    /\ UNCHANGED <<tv, missed, rcv, state, quiet>>

Kill(s) ==
    /\ Up(s) /\ Exit(s, "killed")
    /\ UNCHANGED <<tv, missed, rcv, cut, quiet>>

\* A program has something to do: time waits for it.
Busy(s) ==
    \/ state[s] = "select" /\ (tv[s] = 0 \/ \E c \in Conns : rcv[s][c] # <<>>)
    \/ state[s] = "recv" /\ rcv[s]["hb"] # <<>>

Tick ==
    /\ \E s \in Sides : Up(s)
    /\ \A s \in Sides : Up(s) =>
          ~Busy(s) /\ \A c \in Conns : \A k \in DOMAIN net[s][c] : net[s][c][k].age < Delay
    /\ tv' = [s \in Sides |-> IF state[s] = "select" THEN tv[s] - 1 ELSE tv[s]]
    /\ quiet' = [s \in Sides |-> IF Up(s) THEN Older(quiet[s]) ELSE quiet[s]]
    /\ net' = [s \in Sides |-> [c \in Conns |-> IF ~Up(s) THEN <<>>
                  ELSE [k \in DOMAIN net[s][c] |-> [net[s][c][k] EXCEPT !.age = @ + 1]]]]
    /\ UNCHANGED <<missed, rcv, state, cut>>

Program(s) == Timeout(s) \/ ServerRound(s) \/ ClientRound(s) \/ RecvReturns(s)

Next ==
    \/ \E s \in Sides : Program(s) \/ Kill(s) \/ \E c \in Conns : Arrive(s, c)
    \/ Talk \/ Cut \/ Tick

Spec == Init /\ [][Next]_vars
FairSpec ==
    /\ Spec /\ WF_vars(Tick)
    /\ \A s \in Sides : WF_vars(Program(s)) /\ \A c \in Conns : WF_vars(Arrive(s, c))

\* While the network delivers within Delay, neither side takes the connection
\* for dead.
NoFalseAlarm == ~cut => \A s \in Sides : state[s] # "dead"

\* The client waits in recv on chb for the end of a server that has gone, and
\* the network was cut before that end could come.  The wait has no timeout: only
\* a kill ends it.
Deaf == state["client"] = "recv" /\ cut /\ ~Up("server") /\ rcv["client"]["hb"] = <<>>

\* A client that has heard nothing for the idle time has sent a heartbeat, unless
\* it is deaf; Delay is allowed for the rest of what the server sent when it ended.
HeartbeatWhenIdle ==
    Up("client") /\ ~Deaf /\ quiet["client"] > T1 + Residue + Delay => missed["client"] > 0

\* No side stays longer without a message than its timeouts allow, but for the
\* deaf client, which is the only one that leaves its timeouts behind.
NoticedInTime ==
    \A s \in Sides : Up(s) => quiet[s] <= Idle(s) + Residue + MaxMissed * T2 \/ (s = "client" /\ Deaf)

\* Once the network is cut or one side is gone, both programs end or the client
\* is deaf: a cut alone or any number of ends alone make both end.
EndNoticed == cut \/ (\E s \in Sides : ~Up(s)) ~> \A s \in Sides : ~Up(s) \/ (s = "client" /\ Deaf)
=============================================================================
