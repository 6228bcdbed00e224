------------------------------- MODULE Daemon -------------------------------
(***************************************************************************)
(* daemonapi/src/daemon_SIGHUP.c: a daemon that sleeps, writes a message   *)
(* per interval, and after a SIGHUP reopens its log file and reads its     *)
(* configuration again.  The handler runs between any two steps of the     *)
(* loop.  An administrator changes the configuration or moves the log file *)
(* away and then sends the signal.  Files are known by their version.      *)
(* The clock is finer than the seconds in which sleep counts.              *)
(***************************************************************************)
EXTENDS Integers

CONSTANTS
    SLEEP_TIME,     \* in seconds
    Second,         \* ticks of the clock in a second
    MaxChanges      \* bound on the versions of each file

ASSUME DaemonAssumption == {SLEEP_TIME, Second} \subseteq Nat \ {0} /\ MaxChanges \in Nat

VARIABLES
    pc,             \* where the main loop stands
    hupReceived,
    unslept, left,  \* of main, in seconds; ticks left of the sleep in progress
    woken,          \* whether a handler interrupted it
    config, str,    \* version of the configuration file; the one that was read
    log, logfp,     \* version of the log file's name; the one that is open
    owed,           \* the administrator has not yet sent the signal
    since,          \* history: ticks slept since the last interval was counted
    rounded         \* history: sleeps of the interval cut short inside a second

daemon == <<pc, unslept, left, since, rounded, str, logfp>>
vars == <<daemon, hupReceived, woken, config, log, owed>>

Closed == -1

TypeOK ==
    /\ pc \in {"sleep", "sleeping", "check", "close", "open", "config", "count", "exited"}
    /\ {hupReceived, woken, owed} \subseteq BOOLEAN
    /\ {unslept, rounded} \subseteq 0..SLEEP_TIME
    /\ {left, since} \subseteq 0 .. SLEEP_TIME * Second
    /\ {config, log} \subseteq 0..MaxChanges
    /\ str \in 0..config /\ logfp \in Closed..log

\* The handler is installed; the log and the configuration are still to be read.
Init ==
    /\ pc = "open" /\ hupReceived = FALSE /\ unslept = SLEEP_TIME /\ left = 0 /\ woken = FALSE
    /\ config = 0 /\ str = 0 /\ log = 0 /\ logfp = Closed /\ owed = FALSE /\ since = 0 /\ rounded = 0

Sleep ==
    /\ pc = "sleep" /\ pc' = "sleeping" /\ left' = unslept * Second /\ woken' = FALSE
    /\ UNCHANGED <<hupReceived, unslept, since, rounded, str, logfp, config, log, owed>>

Clock ==
    /\ pc = "sleeping" /\ left > 0 /\ ~woken
    /\ left' = left - 1 /\ since' = since + 1
    /\ UNCHANGED <<pc, hupReceived, unslept, rounded, str, logfp, woken, config, log, owed>>

UnsleptRoundedUp == (left + Second - 1) \div Second             \* seeded fault
\* sleep returns the whole seconds that were not slept.
Unslept == left \div Second

Wake ==
    /\ pc = "sleeping" /\ (left = 0 \/ woken)
    /\ pc' = "check" /\ unslept' = Unslept
    /\ rounded' = IF left % Second = 0 THEN rounded ELSE rounded + 1
    /\ UNCHANGED <<hupReceived, left, since, str, logfp, woken, config, log, owed>>

Check ==
    /\ pc = "check"
    /\ pc' = IF hupReceived THEN "close" ELSE "count"
    /\ hupReceived' = FALSE
    /\ UNCHANGED <<unslept, left, since, rounded, str, logfp, woken, config, log, owed>>

logClose ==
    /\ pc = "close" /\ pc' = "open" /\ logfp' = Closed
    /\ UNCHANGED <<hupReceived, unslept, left, since, rounded, str, woken, config, log, owed>>

logOpen ==
    /\ pc = "open"
    /\ \/ pc' = "config" /\ logfp' = log
       \/ pc' = "exited" /\ UNCHANGED logfp
    /\ UNCHANGED <<hupReceived, unslept, left, since, rounded, str, woken, config, log, owed>>

\* The flag is not touched again after it was taken.
FlagReset == FALSE                                          \* seeded fault
FlagKept == hupReceived

readConfigFile ==
    /\ pc = "config" /\ pc' = "count" /\ str' = config /\ hupReceived' = FlagKept
    /\ UNCHANGED <<unslept, left, since, rounded, logfp, woken, config, log, owed>>

Count ==
    /\ pc = "count" /\ pc' = "sleep"
    /\ IF unslept = 0 THEN unslept' = SLEEP_TIME /\ since' = 0 /\ rounded' = 0
       ELSE UNCHANGED <<unslept, since, rounded>>
    /\ UNCHANGED <<hupReceived, left, str, logfp, woken, config, log, owed>>

Main == Sleep \/ Wake \/ Check \/ logClose \/ logOpen \/ readConfigFile \/ Count

sighupHandler ==
    /\ pc # "exited"
    /\ hupReceived' = TRUE /\ woken' = (pc = "sleeping") /\ owed' = FALSE
    /\ UNCHANGED <<daemon, config, log>>

Change ==
    /\ owed' = TRUE
    /\ \/ config < MaxChanges /\ config' = config + 1 /\ UNCHANGED log
       \/ log < MaxChanges /\ log' = log + 1 /\ UNCHANGED config
    /\ UNCHANGED <<daemon, hupReceived, woken>>

Next == Main \/ Clock \/ sighupHandler \/ Change
Spec == Init /\ [][Next]_vars
FairSpec == Spec /\ WF_vars(Main) /\ WF_vars(Clock)

\* No SIGHUP is lost, wherever in the loop it comes: a file that was changed
\* before the signal is current, or will be read because the flag is set or
\* the reload has not come to it.
NoHupLost ==
    ~owed /\ pc # "exited" =>
       /\ log # logfp => hupReceived \/ pc \in {"close", "open"}
       /\ config # str => hupReceived \/ pc \in {"close", "open", "config"}

\* An interval of which t ticks are slept or planned has its length but for the
\* rest of a second that each of the sleeps cut short inside one lost.
NearlyWhole(t) == t \in SLEEP_TIME * Second - rounded * (Second - 1) .. SLEEP_TIME * Second

\* Signals never make an interval longer, and however many of them interrupt it
\* each takes less than a second of it, and none that comes at a whole second
\* takes anything: while main sleeps, and when it counts the interval.
IntervalKept ==
    /\ pc = "sleeping" => NearlyWhole(since + left)
    /\ pc = "count" /\ unslept = 0 => NearlyWhole(since)

\* After the signal both files are read, unless they change again, the
\* daemon could not open its log, or it is signalled over and over.
Reloaded ==
    ~owed ~> owed \/ pc = "exited" \/ (str = config /\ logfp = log)
=============================================================================
