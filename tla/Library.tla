-------------------------------- MODULE Library --------------------------------
(***************************************************************************)
(* The library code whose bytes and nodes can be reasoned about: the two   *)
(* queues of dataStruct/queue, readvrec and readline of etcp.c, readLine   *)
(* of read_line.c, and TransmitPending of the select server.  A behaviour  *)
(* is one of one of them; the others stand still in their initial state.   *)
(***************************************************************************)
EXTENDS ArrayQueue, FiniteSets

CONSTANTS
    Nodes, Nil,                                     \* queueLinkList.c
    RecordLens, Header, RecordRoom, Capacity,       \* readvrec
    KeepLens, KeepRoom, Chunk, MaxIntr,             \* readline
    FileLens, FileRoom,                             \* readLine
    N, Room, MaxSent                                \* TransmitPending

\* Records and lines are not empty; a line has its newline, a buffer of readline
\* room for a byte and the final zero, one of readLine for the zero.
ASSUME LibraryAssumption ==
    /\ IsFiniteSet(Nodes) /\ Nodes # {} /\ Nil \notin Nodes
    /\ {RecordLens, KeepLens, FileLens} \subseteq Seq(Nat \ {0})
    /\ {Header, RecordRoom, Chunk, FileRoom, N} \subseteq Nat \ {0}
    /\ {Capacity, MaxIntr, Room, MaxSent} \subseteq Nat
    /\ KeepRoom \in Nat /\ KeepRoom > 1

VARIABLES
    which,                                                          \* the one that runs
    heap, next, id, first, last, answer,                            \* linked queue
    rec, totWritten, wire, closed, mode, buf, want, reclen, len, results,  \* readvrec
    sent, input, eof, copied, left, lines, status, intr, lost,      \* readline
    given, ends, taken, line, returned, ended,                      \* readLine
    pending, buffer, nextBuffer, inCall, ok, room, broken, received, again  \* TransmitPending

arrayVars == vars
linkedVars == <<heap, next, id, first, last, answer>>
recordVars == <<rec, totWritten, wire, closed, mode, buf, want, reclen, len, results>>
keepVars == <<sent, input, eof, copied, left, lines, status, intr, lost>>
fileVars == <<given, ends, taken, line, returned, ended>>
sendVars == <<pending, buffer, nextBuffer, inCall, ok, room, broken, received, again>>
queueVars == <<arrayVars, linkedVars>>
byteVars == <<recordVars, keepVars, fileVars, sendVars>>
allVars == <<which, queueVars, byteVars>>

Linked == INSTANCE LinkedQueue WITH NULL <- Nil, head <- first, tail <- last, reply <- answer

Record == INSTANCE Stream WITH Lens <- RecordLens, BufLen <- RecordRoom, Breaks <- TRUE

Keep == INSTANCE Lines WITH
    Lens <- KeepLens, BufLen <- KeepRoom,
    wire <- input, closed <- eof, len <- left, results <- lines

File == INSTANCE ReadLine WITH
    Lens <- FileLens, n <- FileRoom,
    sent <- given, closed <- ends, buf <- line, results <- returned

Reply == INSTANCE SendBuffer WITH Breaks <- TRUE, status <- ok

\* What stands still has one initial state.
Standing ==
    /\ InitQueue /\ Linked!InitQueue
    /\ Record!Init /\ Keep!Init /\ File!Init /\ Reply!Init
    /\ which # "array" => item = [i \in DOMAIN item |-> CHOOSE v \in Values : TRUE]
    /\ which # "linked" => /\ first = CHOOSE n \in Nodes : TRUE
                           /\ id = [n \in Nodes |-> CHOOSE v \in Values : TRUE]
    /\ which # "reply" => room = 0

LibraryInit == which \in {"array", "linked", "records", "keep", "file", "reply"} /\ Standing

Arrays(A) == which = "array" /\ A /\ UNCHANGED <<which, linkedVars, byteVars>>
Links(A) == which = "linked" /\ A /\ UNCHANGED <<which, arrayVars, byteVars>>
Records(A) ==
    which = "records" /\ A /\ UNCHANGED <<which, queueVars, keepVars, fileVars, sendVars>>
Keeps(A) ==
    which = "keep" /\ A /\ UNCHANGED <<which, queueVars, recordVars, fileVars, sendVars>>
Files(A) ==
    which = "file" /\ A /\ UNCHANGED <<which, queueVars, recordVars, keepVars, sendVars>>
Replies(A) ==
    which = "reply" /\ A /\ UNCHANGED <<which, queueVars, recordVars, keepVars, fileVars>>

LibraryNext ==
    \/ Arrays(Next) \/ Links(Linked!Next)
    \/ Records(Record!Next) \/ Keeps(Keep!Next) \/ Files(File!Next) \/ Replies(Reply!Next)

\* Both ends of a stream go on; of the clients of keep nothing is assumed, and
\* the sender of read_line.c closes some time.
Fairness ==
    /\ WF_allVars(Records(Record!Write)) /\ WF_allVars(Records(Record!Close))
    /\ WF_allVars(Records(Record!Read)) /\ WF_allVars(Records(Record!ReadEof))
    /\ WF_allVars(Keeps(Keep!Recv)) /\ WF_allVars(Keeps(Keep!EndOfFile))
    /\ WF_allVars(Keeps(Keep!TooLong))
    /\ WF_allVars(Files(File!Read)) /\ WF_allVars(Files(File!Eof)) /\ WF_allVars(Files(File!Close))

LibrarySpec == LibraryInit /\ [][LibraryNext]_allVars /\ Fairness

\* queueLinkList.c: every sequence of EnQueue and DeQueue behaves as a FIFO,
\* although malloc may return a node that was just freed, or none.
LinkedImplementsFifo == Linked!ImplementsFifo

\* queueLinkList.c: the list ends at tail, passes no node twice or after its
\* free, and every node allocated is in it.
ListWellFormed == Linked!ListWellFormed

\* However a stream is cut up and wherever it ends or fails.  readvrec returns the
\* records whole and in order, refuses those that are too long and is then at
\* the beginning of the next.  readline returns whole lines until one recv
\* brings the bytes of two.  readLine returns the first n - 1 bytes of each line.
\* A response that TransmitPending cleared without an error has been sent whole,
\* each part once until EWOULDBLOCK ends a call, and when send fails nothing
\* stays pending.
TransfersExact ==
    /\ Record!TypeOK /\ Record!RecordsExact /\ Record!InSync
    /\ Keep!TypeOK /\ Keep!LinesExact
    /\ File!TypeOK /\ File!LinesTruncated
    /\ Reply!TypeOK /\ Reply!CompleteAtEnd /\ Reply!OnceUnlessBlocked
    /\ Reply!ErrorReleases

\* A receiver comes to an end.  When read and recv do not fail that is the end of
\* the stream, all of which has been taken: readvrec had every record returned or
\* refused, readLine every line begun; and readline returns every line that fits
\* as long as none is thrown away.
TransfersEnd ==
    /\ which = "records" => Record!AllReceived
    /\ which = "keep" => Keep!LinesReturned
    /\ which = "file" => File!AllSeen
================================================================================
