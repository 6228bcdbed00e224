------------------------------- MODULE Stream -------------------------------
(***************************************************************************)
(* sockapi/libsrc/etcp.c: records of variable length over a byte stream.   *)
(* A sender hands each record, length first, to writen; a receiver calls   *)
(* readvrec again and again.  read and write move any number of the bytes  *)
(* there is room for, one step for each call; a call that is interrupted   *)
(* is restarted and changes nothing; any call may fail for another reason. *)
(* A byte is its record and its place, so that what the receiver makes of  *)
(* it can be compared with what it is.                                     *)
(***************************************************************************)
EXTENDS Integers, Sequences, FiniteSetsExt

CONSTANTS
    Lens,       \* length of each record to be sent
    Header,     \* sizeof(u_int32_t)
    BufLen,     \* room in the receiver's buffer
    Capacity,   \* bytes the connection holds
    Breaks      \* whether read and write may fail

VARIABLES
    rec, totWritten,    \* the writen in progress
    wire, closed,       \* bytes on their way; whether the sender closed
    mode, buf, want,    \* what readvrec reads; bytes this readn has, and needs
    reclen, len,        \* of readvrec
    results             \* what the calls of readvrec returned

writer == <<rec, totWritten>>
reader == <<mode, buf, want, reclen, len, results>>
vars == <<writer, wire, closed, reader>>

Size(r) == Header + Lens[r]
Body(r) == [k \in 1..Lens[r] |-> <<r, Header + k>>]

\* ntohl of the bytes of a length field (of anything else: some length).
ntohl(bytes) ==
    LET r == bytes[1][1] IN IF bytes = [k \in 1..Header |-> <<r, k>>] THEN Lens[r] ELSE 1

TypeOK ==
    /\ rec \in 1..(Len(Lens) + 1) /\ totWritten \in Nat
    /\ Len(wire) <= Capacity /\ closed \in BOOLEAN
    /\ mode \in {"length", "record", "discard", "ended", "failed"}
    /\ Len(buf) <= want /\ want <= Max({Header, BufLen})
    /\ reclen \in Nat /\ len \in 0..BufLen

Init ==
    /\ rec = 1 /\ totWritten = 0 /\ wire = <<>> /\ closed = FALSE
    /\ mode = "length" /\ buf = <<>> /\ want = Header
    /\ reclen = 0 /\ len = BufLen /\ results = <<>>

\* One write of writen; the record is done when all of it is written.
Write ==
    /\ rec <= Len(Lens) /\ ~closed
    /\ \E n \in 1..Min({Capacity - Len(wire), Size(rec) - totWritten}) :
          /\ wire' = wire \o [k \in 1..n |-> <<rec, totWritten + k>>]
          /\ IF totWritten + n = Size(rec)
             THEN rec' = rec + 1 /\ totWritten' = 0
             ELSE rec' = rec /\ totWritten' = totWritten + n
    /\ UNCHANGED <<closed, reader>>

\* The sender closes when it has sent every record; in the middle of one when
\* write has failed and writen returned -1.
Close ==
    /\ ~closed /\ (Breaks \/ rec > Len(Lens))
    /\ closed' = TRUE
    /\ UNCHANGED <<writer, wire, reader>>

Reading(m, n, rl, l) == mode' = m /\ want' = n /\ buf' = <<>> /\ reclen' = rl /\ len' = l

\* readvrec returns result and is called again.
Return(result) ==
    Reading("length", Header, 0, BufLen) /\ results' = Append(results, result)

\* A record that is too long is discarded in pieces of the buffer's size.
DiscardSame(rl, l) == l                                     \* seeded fault
DiscardLen(rl, l) == IF rl < l THEN rl ELSE l

Done(bytes) == Len(bytes) = want

RestOfRecord == reclen - want

\* What readvrec does with the bytes of a finished readn.
Finished(bytes) ==
    CASE mode = "length" ->
            /\ IF ntohl(bytes) > len THEN Reading("discard", len, ntohl(bytes), len)
               ELSE Reading("record", ntohl(bytes), ntohl(bytes), len)
            /\ UNCHANGED results
      [] mode = "discard" ->
            IF RestOfRecord <= 0 THEN Return("EMSGSIZE")
            ELSE /\ Reading("discard", DiscardLen(RestOfRecord, len), RestOfRecord,
                            DiscardLen(RestOfRecord, len))
                 /\ UNCHANGED results
      [] mode = "record" -> Return(bytes)

Receiving == mode \notin {"ended", "failed"}

\* One read of readn.
Read ==
    /\ Receiving
    /\ \E n \in 1..Min({Len(wire), want - Len(buf)}) :
          LET bytes == buf \o SubSeq(wire, 1, n) IN
          /\ wire' = SubSeq(wire, n + 1, Len(wire))
          /\ IF Done(bytes) THEN Finished(bytes)
             ELSE buf' = bytes /\ UNCHANGED <<mode, want, reclen, len, results>>
    /\ UNCHANGED <<writer, closed>>

\* End of file: readn returns what it has, readvrec returns 0.
ReadEof ==
    /\ Receiving /\ wire = <<>> /\ closed
    /\ mode' = "ended"
    /\ UNCHANGED <<writer, wire, closed, buf, want, reclen, len, results>>

\* read fails, as with ECONNRESET or ETIMEDOUT: readn and readvrec return -1,
\* what was read of the record is given up, and so is what was on its way.
ReadFails ==
    /\ Receiving /\ Breaks
    /\ mode' = "failed"
    /\ UNCHANGED <<writer, wire, closed, buf, want, reclen, len, results>>

Next == Write \/ Close \/ Read \/ ReadEof \/ ReadFails
Spec == Init /\ [][Next]_vars
FairSpec == Spec /\ WF_vars(Write) /\ WF_vars(Close) /\ WF_vars(Read) /\ WF_vars(ReadEof)

\* What a call of readvrec should return for each record.
Expected(r) == IF Lens[r] > BufLen THEN "EMSGSIZE" ELSE Body(r)

\* However the stream is cut up and wherever it ends, the calls of readvrec
\* return the records in order, each whole, and an error for each that is too
\* long: no part of a record is taken for a record.
RecordsExact ==
    /\ Len(results) <= Len(Lens)
    /\ \A r \in DOMAIN results : results[r] = Expected(r)

\* Between two calls the stream stands at the beginning of a record, after a
\* record that was discarded too.
InSync ==
    mode = "length" /\ buf = <<>> /\ wire # <<>> => wire[1] = <<Len(results) + 1, 1>>

\* The receiver comes to an end.  When that is the end of the stream and the
\* sender came to its end too, every record was returned or refused.
AllReceived ==
    <>(~Receiving /\ (mode = "ended" /\ rec > Len(Lens) => Len(results) = Len(Lens)))
============================================================================
