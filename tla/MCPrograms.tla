------------------------------ MODULE MCPrograms ------------------------------
(***************************************************************************)
(* Four small programs in one run: daemon_SIGHUP.c, demo_sigio.c and the   *)
(* two heartbeat demos.  A behaviour is one of one of them; the others     *)
(* stand still in their initial state.                                     *)
(***************************************************************************)
EXTENDS Daemon

CONSTANTS T1, T2, Size, Delay, Residue                          \* of the heartbeats

\* A byte takes no longer than a side waits for an answer, and the microseconds
\* that select leaves are no more than that either.
ASSUME BeatAssumption ==
    /\ {T1, T2, Size} \subseteq Nat \ {0} /\ {Delay, Residue} \subseteq Nat
    /\ Delay <= T2 /\ Residue <= T2

VARIABLES
    which,                                                      \* the one that runs
    at, gotSigio, done, signal, input, keys,                    \* demo_sigio.c
    tv, missed, msg, net, cut, state, quiet,                    \* heartBeat1
    tv2, missed2, net2, rcv, state2, cut2, quiet2       \* heartBeat2

sigioVars == <<at, gotSigio, done, signal, input, keys>>
beatVars == <<tv, missed, msg, net, cut, state, quiet>>
beat2Vars == <<tv2, missed2, net2, rcv, state2, cut2, quiet2>>
allVars == <<which, vars, sigioVars, beatVars, beat2Vars>>

Keyboard == INSTANCE Sigio WITH MaxKeys <- 5, pc <- at

Beat == INSTANCE Heartbeat WITH MayCut <- TRUE

Beat2 == INSTANCE Heartbeat2 WITH
    tv <- tv2, missed <- missed2, net <- net2, state <- state2, cut <- cut2, quiet <- quiet2

ProgramsInit ==
    /\ which \in {"daemon", "sigio", "beat", "beat2"}
    /\ Init /\ Keyboard!Init /\ Beat!Init /\ Beat2!Init

Daemons(A) == which = "daemon" /\ A /\ UNCHANGED <<which, sigioVars, beatVars, beat2Vars>>
Sigios(A) == which = "sigio" /\ A /\ UNCHANGED <<which, vars, beatVars, beat2Vars>>
Beats(A) == which = "beat" /\ A /\ UNCHANGED <<which, vars, sigioVars, beat2Vars>>
Beats2(A) == which = "beat2" /\ A /\ UNCHANGED <<which, vars, sigioVars, beatVars>>

ProgramsNext ==
    Daemons(Next) \/ Sigios(Keyboard!Next) \/ Beats(Beat!Next) \/ Beats2(Beat2!Next)

\* The processes are scheduled, time passes and what was sent arrives.  As one
\* program runs, a condition on actions of several is one on each of them.
ProgramsSpec ==
    /\ ProgramsInit /\ [][ProgramsNext]_allVars
    /\ WF_allVars(Daemons(Main) \/ Sigios(Keyboard!Main))
    /\ WF_allVars(Daemons(Clock) \/ Sigios(Keyboard!sigioHandler)
                     \/ Beats(Beat!Tick) \/ Beats2(Beat2!Tick))
    /\ \A s \in Beat!Sides :
          /\ WF_allVars(Beats(Beat!Timeout(s)) \/ Beats2(Beat2!Program(s)))
          /\ WF_allVars(Beats(Beat!Receive(s)) \/ Beats2(Beat2!Arrive(s, "hb")))
          /\ WF_allVars(Beats2(Beat2!Arrive(s, "data")))

\* daemon_SIGHUP.c: a SIGHUP that has come is acted upon or still will be,
\* wherever in the loop it came, and signals that interrupt the sleep do not
\* change the interval between two lines of the log.
HupsAndInterval == TypeOK /\ NoHupLost /\ IntervalKept

\* What a signal asks for is done some time.  daemon_SIGHUP.c: both files are
\* read, unless they change again or the daemon could not open its log.
\* demo_sigio.c: a signal that comes during the delay loop has all the input
\* read, however many keys follow it, unless a hash ends the program.
SignalsServed == (which = "daemon" => Reloaded) /\ Keyboard!InputRead

\* Both heartbeat demos: while the network delivers within Delay, neither side
\* takes the connection for dead, although messages arrive in pieces, which are
\* put together at their places.
NoFalseAlarm ==
    /\ Beat!TypeOK /\ Beat!NoFalseAlarm /\ Beat!InStep
    /\ Beat2!TypeOK /\ Beat2!NoFalseAlarm

\* Both heartbeat demos, whichever programs are killed and whether or not the
\* network is cut: no side stays longer without a message than its timeouts
\* allow, and a client of heartBeat2 that has heard nothing for the idle time has
\* sent a heartbeat.  The one exception is the client of heartBeat2 that waits in
\* recv when the server has ended and then the network was cut.
NoticedInTime ==
    Beat!NoticedInTime /\ Beat2!NoticedInTime /\ Beat2!HeartbeatWhenIdle

\* Both heartbeat demos: once the network is cut or one side is gone, both
\* programs end, with the same exception.
EndNoticed == Beat!EndNoticed /\ Beat2!EndNoticed
===============================================================================
