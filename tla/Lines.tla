------------------------------- MODULE Lines --------------------------------
(***************************************************************************)
(* readline of sockapi/libsrc/etcp.c, called in a loop by the server of    *)
(* sockapi/demo/keepalive/keep.c.  recv delivers any part of what has      *)
(* arrived, is interrupted or fails; the bytes of one recv are copied in   *)
(* the same step, up to a newline or the end of the buffer, and the rest   *)
(* of them is gone when readline returns.  A byte is its line and its      *)
(* place; the last one of a line is the newline.                           *)
(***************************************************************************)
EXTENDS Integers, Sequences, FiniteSetsExt

CONSTANTS
    Lens,       \* length of each line the client sends, newline included
    BufLen,     \* sizeof(buf)
    Chunk,      \* sizeof(b)
    MaxIntr     \* bound on interrupted calls of recv

VARIABLES
    sent, wire, closed,     \* lines sent, bytes that have arrived, end of file
    copied, len,            \* of readline: what it has copied, what room is left
    results, status,        \* lines that were returned; "open", or why keep ended
    intr,                   \* interrupted calls so far
    lost                    \* history: bytes behind a newline were thrown away

client == <<sent, closed>>
server == <<copied, len, results, status>>
vars == <<client, wire, server, intr, lost>>

Line(k) == [p \in 1..Lens[k] |-> <<k, p>>]
Newline(byte) == byte[2] = Lens[byte[1]]

TypeOK ==
    /\ sent \in 0..Len(Lens) /\ closed \in BOOLEAN /\ intr \in 0..MaxIntr /\ lost \in BOOLEAN
    /\ Len(copied) < BufLen /\ len \in 0..BufLen /\ len + Len(copied) <= BufLen
    /\ Len(results) <= Len(Lens)
    /\ status \in {"open", "peer disconnected", "message too long", "recv failure"}

Init ==
    /\ sent = 0 /\ wire = <<>> /\ closed = FALSE
    /\ copied = <<>> /\ len = BufLen /\ results = <<>> /\ status = "open" /\ intr = 0
    /\ lost = FALSE

Send ==
    /\ ~closed /\ sent < Len(Lens)
    /\ sent' = sent + 1 /\ wire' = wire \o Line(sent + 1)
    /\ UNCHANGED <<closed, server, intr, lost>>

Close ==
    /\ ~closed /\ closed' = TRUE
    /\ UNCHANGED <<sent, wire, server, intr, lost>>

\* While --len > 0 there is room for a byte and the final '\0'.
Space == len - 1

\* How many bytes of a recv are copied.
Copied(bytes) ==
    Min({Space, Len(bytes)} \union {p \in DOMAIN bytes : Newline(bytes[p])})

Reading == status = "open" /\ len > 1

Recv ==
    /\ Reading
    /\ \E n \in 1..Min({Chunk, Len(wire)}) :
          LET bytes == SubSeq(wire, 1, n)
              k == Copied(bytes)
              line == copied \o SubSeq(bytes, 1, k) IN
          /\ wire' = SubSeq(wire, n + 1, Len(wire))
          /\ IF k > 0 /\ Newline(bytes[k])
             THEN /\ results' = Append(results, line) /\ copied' = <<>> /\ len' = BufLen
                  /\ lost' = (lost \/ k < n)
             ELSE copied' = line /\ len' = len - k /\ UNCHANGED <<results, lost>>
    /\ UNCHANGED <<client, status, intr>>

\* recv fails with EINTR: len++ takes back what the loop will count again.
LenKept == len

Interrupted ==
    /\ Reading /\ intr < MaxIntr
    /\ len' = LenKept /\ intr' = intr + 1
    /\ UNCHANGED <<client, wire, copied, results, status, lost>>

\* keep calls readline until it returns no line.
Ends(why) == status' = why

\* readline returns 0, -1 with EMSGSIZE or -1 with the error of recv, as
\* ETIMEDOUT when the keepalive probes are not answered.  keep tells the last
\* two apart by the errno it prints.
EndOfFile ==
    /\ Reading /\ wire = <<>> /\ closed
    /\ Ends("peer disconnected")
    /\ UNCHANGED <<client, wire, copied, len, results, intr, lost>>

TooLong ==
    /\ status = "open" /\ ~Reading
    /\ Ends("message too long")
    /\ UNCHANGED <<client, wire, copied, len, results, intr, lost>>

RecvFails ==
    /\ Reading
    /\ Ends("recv failure")
    /\ UNCHANGED <<client, wire, copied, len, results, intr, lost>>

Next == Send \/ Close \/ Recv \/ Interrupted \/ EndOfFile \/ TooLong \/ RecvFails
Spec == Init /\ [][Next]_vars
FairSpec == Spec /\ WF_vars(Recv) /\ WF_vars(EndOfFile) /\ WF_vars(TooLong)

Fits(k) == Lens[k] < BufLen

\* Until one recv brings the bytes of two lines, of which readline throws the
\* second's away, each line that is returned is a line the client sent, whole
\* and in order, also when recv fails; and readline refuses a line as too long
\* only when it does not fit the buffer.
LinesExact ==
    ~lost => /\ \A k \in DOMAIN results : results[k] = Line(k)
             /\ status = "message too long" => ~Fits(Len(results) + 1)

\* As long as the lines fit, none is thrown away, the client does not close and
\* recv does not fail, every one of them is returned, interrupted calls or not.
LinesReturned ==
    \A k \in DOMAIN Lens :
       sent >= k ~> \/ Len(results) >= k
                    \/ closed \/ lost \/ status = "recv failure" \/ \E j \in 1..k : ~Fits(j)
=============================================================================
