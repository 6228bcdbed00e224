----------------------------- MODULE SendBuffer -----------------------------
(***************************************************************************)
(* TransmitPending of IOModels/select/serverModel.c, one step for each     *)
(* call of send, for a response of N characters that a callback has put in *)
(* pendingSendBuffer.  The buffer is zero-filled, so a pointer into it is  *)
(* an offset and what it points to follows from how many characters the    *)
(* buffer still holds.  Calls are repeated in every round of the server.   *)
(***************************************************************************)
EXTENDS Integers, Sequences, SequencesExt

CONSTANTS
    N,          \* characters of the response
    Room,       \* bytes the send buffer of the socket holds
    MaxSent,    \* bound on the characters recorded
    Breaks      \* whether the connection may break

VARIABLES
    pending,            \* characters in pendingSendBuffer: N or, after memset, 0
    buffer, nextBuffer, \* offsets, or NULL
    inCall, status,     \* in the for loop; what the call returns
    room, broken,       \* of the socket
    received,           \* characters the client was sent, without the zero bytes
    again               \* history: a part was sent by a call that EWOULDBLOCK ended

vars == <<pending, buffer, nextBuffer, inCall, status, room, broken, received, again>>

NULL == -1
Response == [k \in 1..N |-> k]

strlen(p, offset) == IF offset < p THEN p - offset ELSE 0

TypeOK ==
    /\ pending \in {0, N}
    /\ buffer \in (0..(N + 1)) \cup {NULL} /\ nextBuffer \in (0..N) \cup {NULL}
    /\ {inCall, status, broken, again} \subseteq BOOLEAN
    /\ room \in 0..Room
    /\ received \in Seq(1..N)

Init ==
    /\ pending = N /\ buffer = NULL /\ nextBuffer = NULL
    /\ inCall = FALSE /\ status = TRUE /\ broken = FALSE
    /\ room \in 0..Room /\ received = <<>> /\ again = FALSE

Call ==
    /\ ~inCall /\ status /\ Len(received) < MaxSent
    /\ inCall' = TRUE /\ buffer' = 0 /\ nextBuffer' = NULL
    /\ UNCHANGED <<pending, status, room, broken, received, again>>

\* The characters at offsets from .. from + count - 1 that are not zero bytes.
Characters(from, count) ==
    [k \in 1..Min({count, strlen(pending, from)}) |-> from + k]

Emptied(count) == strlen(pending, buffer + count) = 0

\* Room was left: the bytes that fit are sent.  When the buffer is empty then,
\* it is cleared but nextBuffer keeps what it was.
SendSome ==
    /\ inCall /\ ~broken /\ room > 0
    /\ \E count \in 1..room :
          /\ count <= strlen(pending, buffer) + 1
          /\ room' = room - count
          /\ received' = received \o Characters(buffer, count)
          /\ pending' = IF Emptied(count) THEN 0 ELSE pending
          /\ nextBuffer' = IF Emptied(count) THEN nextBuffer ELSE buffer + count
    /\ buffer' = nextBuffer'
    /\ inCall' = (buffer' # NULL)
    /\ UNCHANGED <<status, broken, again>>

\* EWOULDBLOCK: how far the call got is forgotten.
WouldBlock ==
    /\ inCall /\ ~broken /\ room = 0
    /\ pending' = IF strlen(pending, buffer) = 0 THEN 0 ELSE pending
    /\ again' = (again \/ (pending' # 0 /\ received # <<>>))
    /\ inCall' = FALSE /\ buffer' = NULL /\ nextBuffer' = NULL
    /\ UNCHANGED <<status, room, broken, received>>

\* EPIPE and other errors release what is pending.
Fail ==
    /\ inCall /\ broken
    /\ status' = FALSE /\ pending' = 0
    /\ inCall' = FALSE /\ buffer' = NULL /\ nextBuffer' = NULL
    /\ UNCHANGED <<room, broken, received, again>>

ClientReads ==
    /\ room < Room
    /\ \E r \in (room + 1)..Room : room' = r
    /\ UNCHANGED <<pending, buffer, nextBuffer, inCall, status, broken, received, again>>

Break ==
    /\ Breaks /\ ~broken
    /\ broken' = TRUE
    /\ UNCHANGED <<pending, buffer, nextBuffer, inCall, status, room, received, again>>

TransmitPending == Call \/ SendSome \/ WouldBlock \/ Fail

Next == TransmitPending \/ ClientReads \/ Break

Spec == Init /\ [][Next]_vars

\* When the buffer has been cleared without an error, the client was sent the
\* whole response: the calls end with all its characters, however send cut it up.
CompleteAtEnd ==
    pending = 0 /\ status => IsSuffix(Response, received)

\* A call sends the remainder after each part that was accepted.  Until
\* EWOULDBLOCK ends a call, of which the next one knows nothing, every character
\* is sent once and in its place; after that the client may be sent parts again.
OnceUnlessBlocked ==
    ~again => Len(received) <= N /\ \A k \in DOMAIN received : received[k] = k

\* "we clear the transmit pending condition by releasing any queued buffers":
\* a call that fails leaves nothing pending, whatever was sent before.
ErrorReleases == ~status => pending = 0
============================================================================
