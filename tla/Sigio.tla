------------------------------- MODULE Sigio --------------------------------
(***************************************************************************)
(* IOModels/sigio/demo_sigio.c: the kernel sends SIGIO when a key is       *)
(* pressed, the handler sets gotSigio, and the main loop polls the flag,   *)
(* reads all there is and then resets the flag.  Keys are "#" or others.   *)
(***************************************************************************)
EXTENDS Integers, Sequences

CONSTANT MaxKeys    \* bound on the keys that are pressed

VARIABLES
    pc,             \* "delay", "check", "read", "reset" or "exited"
    gotSigio, done,
    signal,         \* SIGIO is pending
    input, keys     \* keys not yet read, number of keys pressed

vars == <<pc, gotSigio, done, signal, input, keys>>

TypeOK ==
    /\ pc \in {"delay", "check", "read", "reset", "exited"}
    /\ {gotSigio, done, signal} \subseteq BOOLEAN
    /\ input \in Seq({"#", "key"}) /\ keys \in Len(input)..MaxKeys
    /\ pc = "exited" => done

Init ==
    /\ pc = "delay" /\ gotSigio = FALSE /\ done = FALSE /\ signal = FALSE
    /\ input = <<>> /\ keys = 0

Press(k) ==
    /\ keys < MaxKeys
    /\ input' = Append(input, k) /\ keys' = keys + 1 /\ signal' = TRUE
    /\ UNCHANGED <<pc, gotSigio, done>>

sigioHandler ==
    /\ signal /\ signal' = FALSE /\ gotSigio' = TRUE
    /\ UNCHANGED <<pc, done, input, keys>>

\* A pending signal is handled before the program goes on.
Runs(from, to) == ~signal /\ pc = from /\ pc' = to

Pause == Runs("delay", "check") /\ UNCHANGED <<gotSigio, done, signal, input, keys>>

Check ==
    /\ Runs("check", IF gotSigio THEN "read" ELSE "delay")
    /\ UNCHANGED <<gotSigio, done, signal, input, keys>>

\* while(read(...) > 0 && !done): done is looked at after the read.
OneRead(c) == "reset"                                       \* seeded fault: no loop
AfterRead(c) == IF done THEN "reset" ELSE "read"

Read ==
    /\ input # <<>> /\ Runs("read", AfterRead(Head(input)))
    /\ done' = (done \/ Head(input) = "#") /\ input' = Tail(input)
    /\ UNCHANGED <<gotSigio, signal, keys>>

ReadFails ==
    /\ input = <<>> /\ Runs("read", "reset")
    /\ UNCHANGED <<gotSigio, done, signal, input, keys>>

ExitNow == done

Reset ==
    /\ Runs("reset", IF ExitNow THEN "exited" ELSE "delay") /\ gotSigio' = FALSE
    /\ UNCHANGED <<done, signal, input, keys>>

Main == Pause \/ Check \/ Read \/ ReadFails \/ Reset
Next == Main \/ sigioHandler \/ \E k \in {"#", "key"} : Press(k)
Spec == Init /\ [][Next]_vars
FairSpec == Spec /\ WF_vars(Main) /\ WF_vars(sigioHandler)

\* A signal that comes while the program is in its delay loop has all the
\* input read, however many keys follow it and wherever in the loop they come,
\* unless a hash ends the program.  (Of a signal that comes between the last
\* read and the reset of the flag this is not so: it is forgotten.)
InputRead == signal /\ pc = "delay" ~> input = <<>> \/ (pc = "exited" /\ done)
=============================================================================
