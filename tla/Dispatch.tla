------------------------------- MODULE Dispatch -------------------------------
(***************************************************************************)
(* The way of an accepted connection to its worker in the server of        *)
(* c1000kPracticeGuide/cppserver (src/listenfd.cc, src/main.cc and         *)
(* readfun_getConnections of src/worker.cc).  The main thread accepts from *)
(* an edge-triggered listening socket and publishes batches of descriptors *)
(* in acceptedFDlist; the dispatcher writes each batch, as ints, to the    *)
(* socket pair of the next worker in turn, through a buffer that keeps     *)
(* what the socket did not take; a worker reads ints from its end.         *)
(*                                                                         *)
(* Each critical section of dispatch_mutex has no wait inside and is one   *)
(* action.  A descriptor is a number of Conns; it is written as IntSize    *)
(* bytes <<fd, 1>>, <<fd, 2>>...                                           *)
(***************************************************************************)
EXTENDS Naturals, Sequences, FiniteSets, FiniteSetsExt

CONSTANTS
  cpu_num,       \* the processors: one main thread and cpu_num - 1 workers
  MAXACCEPTSIZE, \* descriptors of a batch
  MAX_FD,        \* the first descriptor the server refuses
  IntSize,       \* sizeof(int)
  ChanCap,       \* bytes a socket pair holds
  Granule,       \* a send transfers a multiple of it (4 with Linux' defaults)
  SendBufLen,    \* sizeof(buff) of SendFdBuff, 4 * 30000
  RecvBuf,       \* sizeof(buffer) of readfun_getConnections
  MaxConns,      \* bound on the connections made
  Errors         \* accept may fail with ECONNABORTED, EPROTO or EINTR, or
                 \* fatally, and send with any error

Conns == 1 .. MaxConns
Channels == 1 .. cpu_num - 1

ASSUME DispatchConstants ==
  /\ cpu_num \in Nat /\ cpu_num >= 2
  /\ {MAXACCEPTSIZE, IntSize, ChanCap, Granule, RecvBuf} \subseteq Nat \ {0}
  /\ {MAX_FD, MaxConns, SendBufLen} \subseteq Nat /\ Errors \in BOOLEAN
  /\ RecvBuf >= IntSize

VARIABLES
  arrived,   \* connections made so far, 1 .. arrived
  taken,     \* connections accepted so far, 1 .. taken
  ledge,     \* the listening socket has an event not yet reported
  apc,       \* the main thread: "wait", "accept", "publish" or "last"
  fdBuff,    \* its batch
  acceptedFDlist, \* the published batches, the latest first
  dpc,       \* the dispatcher: "check", "waiting", "next" or "send"
  paccept,   \* the batches it has taken from the list
  sum,       \* the batches it has dispatched
  sendfdBuff,\* per channel, the first needSendLen bytes of its buffer
  sended,    \* bytes sent of the current buffer
  overrun,   \* a batch was moved beyond the end of its buffer
  chan,      \* per channel, the bytes in the socket
  wedge,     \* per channel, the worker's end has an event not yet reported
  wpc,       \* per worker, "wait" or "recv"
  buffer,    \* per worker, the received bytes not yet processed
  delivered, \* per worker, the bytes it has received so far
  registered,\* per worker, the ints it registered
  down       \* the process has exited or aborted

acceptor == <<taken, apc, fdBuff>>
dispatcher == <<paccept, sum, sendfdBuff, sended, overrun>>
worker == <<wpc, buffer, delivered, registered>>
vars == <<arrived, ledge, acceptor, acceptedFDlist, dpc, dispatcher, chan, wedge, worker, down>>

Init ==
  /\ arrived = 0 /\ taken = 0 /\ ledge = FALSE
  /\ apc = "wait" /\ fdBuff = <<>> /\ acceptedFDlist = <<>>
  /\ dpc = "check" /\ paccept = <<>> /\ sum = 0 /\ sended = 0 /\ overrun = FALSE
  /\ sendfdBuff = [c \in Channels |-> <<>>]
  /\ chan = [c \in Channels |-> <<>>]
  /\ wedge = [c \in Channels |-> FALSE]
  /\ wpc = [c \in Channels |-> "wait"]
  /\ buffer = [c \in Channels |-> <<>>]
  /\ delivered = [c \in Channels |-> <<>>]
  /\ registered = [c \in Channels |-> <<>>]
  /\ down = FALSE

\* The bytes of a batch, and the whole ints at the start of a buffer.
Bytes(batch) == [j \in 1 .. Len(batch) * IntSize |->
                   <<batch[((j - 1) \div IntSize) + 1], ((j - 1) % IntSize) + 1>>]
Ints(bytes) == [i \in 1 .. Len(bytes) \div IntSize |->
                  SubSeq(bytes, (i - 1) * IntSize + 1, i * IntSize)]

-------------------------------------------------------------------------------
(***************************************************************************)
(* The main thread: accept_readfun.                                        *)
(***************************************************************************)
Arrive ==
  /\ arrived < MaxConns
  /\ arrived' = arrived + 1
  /\ ledge' = TRUE
  /\ UNCHANGED <<acceptor, acceptedFDlist, dpc, dispatcher, chan, wedge, worker, down>>

ListenEvent ==
  /\ apc = "wait" /\ ledge
  /\ ledge' = FALSE
  /\ apc' = "accept"
  /\ UNCHANGED <<arrived, taken, fdBuff, acceptedFDlist, dpc, dispatcher, chan, wedge, worker, down>>

\* accept succeeds: a descriptor too large is closed, another one joins the
\* batch, which is published when it is full.
Accept ==
  /\ apc = "accept" /\ taken < arrived
  /\ taken' = taken + 1
  /\ fdBuff' = IF taken + 1 >= MAX_FD THEN fdBuff ELSE Append(fdBuff, taken + 1)
  /\ apc' = IF Len(fdBuff') < MAXACCEPTSIZE THEN "accept" ELSE "publish"
  /\ UNCHANGED <<arrived, ledge, acceptedFDlist, dpc, dispatcher, chan, wedge, worker, down>>

\* accept fails: with EAGAIN because nobody is waiting, or with one of the
\* three errors taken for it, which also ends the loop.
AcceptFail ==
  /\ apc = "accept"
  /\ taken = arrived \/ Errors
  /\ apc' = IF fdBuff # <<>> THEN "last" ELSE "wait"
  /\ UNCHANGED <<arrived, ledge, taken, fdBuff, acceptedFDlist, dpc, dispatcher, chan, wedge, worker, down>>

\* Any other error: exit.
AcceptExit ==
  /\ apc = "accept" /\ Errors
  /\ down' = TRUE
  /\ UNCHANGED <<arrived, ledge, acceptor, acceptedFDlist, dpc, dispatcher, chan, wedge, worker>>

\* Seeded fault: acceptindex is not reset.
PublishKept ==
  /\ apc \in {"publish", "last"}
  /\ acceptedFDlist' = <<fdBuff>> \o acceptedFDlist
  /\ dpc' = IF dpc = "waiting" THEN "check" ELSE dpc
  /\ apc' = IF apc = "publish" THEN "accept" ELSE "wait"
  /\ UNCHANGED <<arrived, ledge, taken, fdBuff, dispatcher, chan, wedge, worker, down>>

\* Seeded fault: the broadcast after the last batch is forgotten.
PublishQuietly ==
  /\ apc \in {"publish", "last"}
  /\ acceptedFDlist' = <<fdBuff>> \o acceptedFDlist
  /\ dpc' = IF dpc = "waiting" /\ apc = "publish" THEN "check" ELSE dpc
  /\ fdBuff' = <<>>
  /\ apc' = IF apc = "publish" THEN "accept" ELSE "wait"
  /\ UNCHANGED <<arrived, ledge, taken, dispatcher, chan, wedge, worker, down>>

\* The batch is put before the list and the dispatcher is woken, under
\* dispatch_mutex.
Publish ==
  /\ apc \in {"publish", "last"}
  /\ acceptedFDlist' = <<fdBuff>> \o acceptedFDlist
  /\ dpc' = IF dpc = "waiting" THEN "check" ELSE dpc
  /\ fdBuff' = <<>>
  /\ apc' = IF apc = "publish" THEN "accept" ELSE "wait"
  /\ UNCHANGED <<arrived, ledge, taken, dispatcher, chan, wedge, worker, down>>

-------------------------------------------------------------------------------
(***************************************************************************)
(* The dispatcher: dispatch_conn and sendConnectionsToWorker.              *)
(***************************************************************************)
\* Under dispatch_mutex: wait while the list is empty, else take all of it.
TakeList ==
  /\ dpc = "check"
  /\ dpc' = IF acceptedFDlist = <<>> THEN "waiting" ELSE "next"
  /\ paccept' = acceptedFDlist
  /\ acceptedFDlist' = <<>>
  /\ UNCHANGED <<arrived, ledge, acceptor, sum, sendfdBuff, sended, overrun, chan, wedge, worker, down>>

channel == (sum % (cpu_num - 1)) + 1

Fits == Len(sendfdBuff[channel]) + Len(Head(paccept)) * IntSize <= SendBufLen

\* The next batch goes behind what is left in the channel's buffer.
NextBatch ==
  /\ dpc = "next" /\ paccept # <<>> /\ Fits
  /\ sendfdBuff' = [sendfdBuff EXCEPT ![channel] = @ \o Bytes(Head(paccept))]
  /\ sended' = 0
  /\ dpc' = "send"
  /\ UNCHANGED <<arrived, ledge, acceptor, acceptedFDlist, paccept, sum, overrun, chan, wedge, worker, down>>

\* Nothing tests for that: memmove writes behind the buffer, and what the process
\* does from then on is undefined and not followed.
Overrun ==
  /\ dpc = "next" /\ paccept # <<>> /\ ~Fits
  /\ overrun' = TRUE
  /\ UNCHANGED <<arrived, ledge, acceptor, acceptedFDlist, dpc, paccept, sum, sendfdBuff, sended, chan, wedge, worker, down>>

ListDone ==
  /\ dpc = "next" /\ paccept = <<>>
  /\ dpc' = "check"
  /\ UNCHANGED <<arrived, ledge, acceptor, acceptedFDlist, dispatcher, chan, wedge, worker, down>>

Room(c) == ChanCap - Len(chan[c])
Unsent == Len(sendfdBuff[channel]) - sended

\* One send: the socket takes some of the bytes, and the worker's end has an
\* event.
Send ==
  /\ dpc = "send"
  /\ \E n \in 1 .. ChanCap :
       /\ n <= Unsent /\ n <= Room(channel) /\ n % Granule = 0
       /\ chan' = [chan EXCEPT ![channel] =
                     @ \o SubSeq(sendfdBuff[channel], sended + 1, sended + n)]
       /\ sended' = sended + n
  /\ wedge' = [wedge EXCEPT ![channel] = TRUE]
  /\ UNCHANGED <<arrived, ledge, acceptor, acceptedFDlist, dpc, paccept, sum, sendfdBuff, overrun, worker, down>>

\* Seeded fault: what the socket did not take is not moved to the front.
SendDoneUnmoved ==
  /\ dpc = "send"
  /\ Unsent = 0 \/ Room(channel) < Granule \/ Errors
  /\ sendfdBuff' = [sendfdBuff EXCEPT ![channel] = SubSeq(@, 1, Unsent)]
  /\ sum' = sum + 1 /\ paccept' = Tail(paccept) /\ sended' = 0
  /\ dpc' = "next"
  /\ UNCHANGED <<arrived, ledge, acceptor, acceptedFDlist, overrun, chan, wedge, worker, down>>

\* All is sent, the socket is full or send fails: what is left is moved to the front of
\* the buffer, where it stays until the next batch for this channel.
SendDone ==
  /\ dpc = "send"
  /\ Unsent = 0 \/ Room(channel) < Granule \/ Errors
  /\ sendfdBuff' = [sendfdBuff EXCEPT ![channel] = SubSeq(@, sended + 1, Len(@))]
  /\ sum' = sum + 1 /\ paccept' = Tail(paccept) /\ sended' = 0
  /\ dpc' = "next"
  /\ UNCHANGED <<arrived, ledge, acceptor, acceptedFDlist, overrun, chan, wedge, worker, down>>

-------------------------------------------------------------------------------
(***************************************************************************)
(* The workers: readfun_getConnections.                                    *)
(***************************************************************************)
OrderEvent(c) ==
  /\ wpc[c] = "wait" /\ wedge[c]
  /\ wedge' = [wedge EXCEPT ![c] = FALSE]
  /\ wpc' = [wpc EXCEPT ![c] = "recv"]
  /\ UNCHANGED <<arrived, ledge, acceptor, acceptedFDlist, dpc, dispatcher, chan, buffer, delivered, registered, down>>

Received(c) == SubSeq(chan[c], 1, Min({Len(chan[c]), RecvBuf - Len(buffer[c])}))

\* Seeded fault: < for <= in process_connection's test, so that the last int
\* is left in the buffer.
RecvButLast(c) ==
  /\ wpc[c] = "recv" /\ chan[c] # <<>>
  /\ LET in == Received(c)
         all == buffer[c] \o in
         whole == ((Len(all) - 1) \div IntSize) * IntSize
     IN  /\ Len(all) >= IntSize
         /\ registered' = [registered EXCEPT ![c] = @ \o Ints(SubSeq(all, 1, whole))]
         /\ buffer' = [buffer EXCEPT ![c] = SubSeq(all, whole + 1, Len(all))]
         /\ delivered' = [delivered EXCEPT ![c] = @ \o in]
         /\ chan' = [chan EXCEPT ![c] = SubSeq(@, Len(in) + 1, Len(@))]
  /\ UNCHANGED <<arrived, ledge, acceptor, acceptedFDlist, dpc, dispatcher, wedge, wpc, down>>

\* recv returns bytes: process_connection registers every whole int and moves
\* the rest to the front of the buffer.
Recv(c) ==
  /\ wpc[c] = "recv" /\ chan[c] # <<>>
  /\ LET in == Received(c)
         all == buffer[c] \o in
         whole == (Len(all) \div IntSize) * IntSize
     IN  /\ Len(all) >= IntSize
         /\ registered' = [registered EXCEPT ![c] = @ \o Ints(all)]
         /\ buffer' = [buffer EXCEPT ![c] = SubSeq(all, whole + 1, Len(all))]
         /\ delivered' = [delivered EXCEPT ![c] = @ \o in]
         /\ chan' = [chan EXCEPT ![c] = SubSeq(@, Len(in) + 1, Len(@))]
  /\ UNCHANGED <<arrived, ledge, acceptor, acceptedFDlist, dpc, dispatcher, wedge, wpc, down>>

\* The bytes received do not make an int: assert(false).
RecvAssert(c) ==
  /\ wpc[c] = "recv" /\ chan[c] # <<>>
  /\ Len(buffer[c]) + Len(Received(c)) < IntSize
  /\ down' = TRUE
  /\ UNCHANGED <<arrived, ledge, acceptor, acceptedFDlist, dpc, dispatcher, chan, wedge, worker>>

\* EAGAIN: the function returns, and its buffer goes with it.
RecvEnd(c) ==
  /\ wpc[c] = "recv" /\ chan[c] = <<>>
  /\ wpc' = [wpc EXCEPT ![c] = "wait"]
  /\ buffer' = [buffer EXCEPT ![c] = <<>>]
  /\ UNCHANGED <<arrived, ledge, acceptor, acceptedFDlist, dpc, dispatcher, chan, wedge, delivered, registered, down>>

-------------------------------------------------------------------------------
MainThread == ListenEvent \/ Accept \/ AcceptFail \/ AcceptExit \/ Publish
Dispatcher == TakeList \/ NextBatch \/ Overrun \/ ListDone \/ Send \/ SendDone
Worker(c) == OrderEvent(c) \/ Recv(c) \/ RecvAssert(c) \/ RecvEnd(c)

Alive == ~down /\ ~overrun

\* Every thread waits and no connection will be made any more, or the process
\* is gone or not followed any more.
Quiet ==
  /\ \/ ~Alive
     \/ /\ arrived = MaxConns /\ apc = "wait" /\ ~ledge /\ dpc = "waiting"
        /\ \A c \in Channels : wpc[c] = "wait" /\ ~wedge[c]
  /\ UNCHANGED vars

Next ==
  \/ /\ Alive
     /\ Arrive \/ MainThread \/ Dispatcher \/ \E c \in Channels : Worker(c)
  \/ Quiet

Spec == Init /\ [][Next]_vars

\* A thread that can run does run.
FairSpec ==
  /\ Spec
  /\ WF_vars(Alive /\ MainThread) /\ WF_vars(Alive /\ Dispatcher)
  /\ \A c \in Channels : WF_vars(Alive /\ Worker(c))

-------------------------------------------------------------------------------
\* Type invariant.
TypeOK ==
  /\ taken <= arrived /\ arrived <= MaxConns
  /\ Len(fdBuff) <= MAXACCEPTSIZE
  /\ dpc = "send" => paccept # <<>> /\ sended <= Len(sendfdBuff[channel])
  /\ \A c \in Channels : Len(chan[c]) <= ChanCap /\ Len(buffer[c]) < IntSize

\* What is still to be sent on a channel.
ToSend(c) == SubSeq(sendfdBuff[c], IF c = channel THEN sended + 1 ELSE 1, Len(sendfdBuff[c]))

\* All that ever went down a channel, in the order of the bytes.
Stream(c) == delivered[c] \o chan[c] \o ToSend(c)

\* The stream of a channel is a sequence of whole ints in spite of partial
\* sends at any byte: sendConnectionsToWorker neither loses nor repeats nor
\* reorders a byte of a buffer, whatever the socket takes of it, as long as no batch
\* is moved beyond the end of its buffer.
StreamWhole ==
  \A c \in Channels :
    LET s == Stream(c) IN
    /\ Len(s) % IntSize = 0
    /\ \A i \in 1 .. Len(s) \div IntSize : \E f \in Conns :
         \A k \in 1 .. IntSize : s[(i - 1) * IntSize + k] = <<f, k>>

\* The batches that have not reached a channel's buffer yet.
Underway ==
  <<fdBuff>> \o acceptedFDlist \o (IF dpc = "send" THEN Tail(paccept) ELSE paccept)

\* Every accepted descriptor below MAX_FD is in exactly one place on the way
\* from accept to a worker, and once in that place, as long as no batch is moved
\* beyond the end of its buffer; a refused one is nowhere.
Conserved ==
  LET under == Underway
      stream == [c \in Channels |-> Stream(c)]
  IN \A f \in Conns :
    Cardinality({p \in UNION {{i} \X DOMAIN under[i] : i \in DOMAIN under} :
                   under[p[1]][p[2]] = f})
    + Cardinality({p \in UNION {{c} \X DOMAIN stream[c] : c \in Channels} :
                     stream[p[1]][p[2]] = <<f, 1>>})
      = IF f <= taken /\ f < MAX_FD THEN 1 ELSE 0

\* While transfers are whole ints: what a worker registers is exactly what was
\* delivered to it, no int is put together from the bytes of two, and the
\* assert of readfun_getConnections does not end the process.
RegisteredAsDelivered ==
  /\ \A c \in Channels : registered[c] = Ints(delivered[c])
  /\ ~down

\* No thread sleeps beside its work: the dispatcher does not wait with batches
\* in the list, nor a worker with bytes in its socket and no event.
NoLostWakeup ==
  /\ dpc = "waiting" => acceptedFDlist = <<>>
  /\ \A c \in Channels : wpc[c] = "wait" /\ chan[c] # <<>> => wedge[c]

Registered(f) ==
  \E c \in Channels : \E i \in DOMAIN registered[c] :
    registered[c][i] = [k \in 1 .. IntSize |-> <<f, k>>]

\* Every connection made, below MAX_FD, is eventually registered by a worker.  As
\* no connection is forgotten again and their number is bounded, that is: again
\* and again all those made are registered.
EveryConnectionRegistered ==
  []<>(\A f \in Conns : f <= arrived /\ f < MAX_FD => Registered(f))
===============================================================================
