------------------------------ MODULE ReadLine ------------------------------
(***************************************************************************)
(* lib/src/read_line.c: readLine takes one byte per read, keeps the first  *)
(* n - 1 of a line and discards the rest of it.  A caller calls it until   *)
(* it returns 0 or -1.  The sender sends whole lines or parts of them at   *)
(* any time and may close anywhere.  Interrupted reads are restarted and   *)
(* change nothing; a read may fail for another reason.  A byte is its line *)
(* and its place; the last is '\n'.                                        *)
(***************************************************************************)
EXTENDS Integers, Sequences, FiniteSetsExt

CONSTANTS Lens, n       \* lengths of the lines, newline included; size of buffer

VARIABLES
    sent, closed,       \* the last byte sent, and end of file
    taken,              \* the last byte read
    buf,                \* *buf of the call in progress
    results,
    ended               \* how the caller's loop ended: "no", "eof" or "error"

vars == <<sent, closed, taken, buf, results, ended>>

Start == <<1, 0>>
Newline(b) == b[2] = Lens[b[1]]
After(b) == IF Newline(b) THEN <<b[1] + 1, 1>> ELSE <<b[1], b[2] + 1>>
Before(a, b) == a[1] < b[1] \/ (a[1] = b[1] /\ a[2] < b[2])

Bytes == UNION {{<<k, p>> : p \in 1..Lens[k]} : k \in DOMAIN Lens}

TypeOK ==
    /\ {sent, taken} \subseteq Bytes \cup {Start} /\ ~Before(sent, taken)
    /\ closed \in BOOLEAN /\ ended \in {"no", "eof", "error"}
    /\ Len(buf) < n /\ Len(results) <= Len(Lens) /\ \A r \in DOMAIN results : Len(results[r]) < n

Init ==
    /\ sent = Start /\ closed = FALSE /\ taken = Start /\ buf = <<>>
    /\ results = <<>> /\ ended = "no"

Send ==
    /\ ~closed /\ \E b \in Bytes : Before(sent, b) /\ sent' = b
    /\ UNCHANGED <<closed, taken, buf, results, ended>>

Close == ~closed /\ closed' = TRUE /\ UNCHANGED <<sent, taken, buf, results, ended>>

\* totRead < n - 1
Fits == Len(buf) < n - 1

\* Where a line ends: at its newline, whether or not there was room for it.
EndIfRoom(b) == Newline(b) /\ Fits                          \* seeded fault
EndsLine(b) == Newline(b)

Return(line) == results' = Append(results, line) /\ buf' = <<>>

Read ==
    /\ ended = "no" /\ taken # sent /\ taken' = After(taken)
    /\ LET b == After(taken)
           kept == IF Fits THEN Append(buf, b) ELSE buf IN
       IF EndsLine(b) THEN Return(kept)
       ELSE buf' = kept /\ UNCHANGED results
    /\ UNCHANGED <<sent, closed, ended>>

\* End of file: what was read is a line of its own, nothing is the end.
Eof ==
    /\ ended = "no" /\ closed /\ taken = sent
    /\ IF buf # <<>> THEN Return(buf) /\ UNCHANGED ended
       ELSE ended' = "eof" /\ UNCHANGED <<buf, results>>
    /\ UNCHANGED <<sent, closed, taken>>

\* read fails: readLine returns -1, and what it has of the line is given up.
Fails ==
    /\ ended = "no" /\ ended' = "error"
    /\ UNCHANGED <<sent, closed, taken, buf, results>>

Next == Send \/ Close \/ Read \/ Eof \/ Fails
Spec == Init /\ [][Next]_vars
FairSpec == Spec /\ WF_vars(Read) /\ WF_vars(Eof) /\ WF_vars(Close)

\* What was sent of the r-th line.
Line(r) ==
    LET count == IF r < sent[1] THEN Lens[r] ELSE IF r = sent[1] THEN sent[2] ELSE 0
    IN  [p \in 1..count |-> <<r, p>>]

\* The r-th result is the first n - 1 bytes of what was sent of the r-th line.
LinesTruncated ==
    \A r \in DOMAIN results : results[r] = SubSeq(Line(r), 1, Min({n - 1, Len(Line(r))}))

\* The lines whose last byte was read.
Whole == IF taken = Start THEN 0 ELSE IF Newline(taken) THEN taken[1] ELSE taken[1] - 1

\* When the sender closes, the caller sees every line it began, then the end; when
\* a read fails before that, the whole lines that were read and no other.
AllSeen ==
    <>(\/ ended = "eof" /\ Len(results) = IF sent = Start THEN 0 ELSE sent[1]
       \/ ended = "error" /\ Len(results) \in {Whole, Whole + 1})
=============================================================================
