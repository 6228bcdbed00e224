---------------------------- MODULE DispatchProofs ----------------------------
(***************************************************************************)
(* Proofs about the way of a connection to its worker, for any number of   *)
(* processors, sizes of ints, batches and sockets, and for either kind of  *)
(* socket of MCDispatch.                                                   *)
(***************************************************************************)
EXTENDS MCDispatch, SequenceTheorems, FiniteSetTheorems, TLAPS

-------------------------------------------------------------------------------
(***************************************************************************)
(* Ints and their bytes.                                                   *)
(***************************************************************************)
Byte == Conns \X (1 .. IntSize)

LEMMA Sizes ==
  /\ IntSize \in Nat \ {0} /\ MAXACCEPTSIZE \in Nat \ {0} /\ MaxConns \in Nat
  /\ RecvBuf \in Nat \ {0} /\ RecvBuf >= IntSize /\ cpu_num \in Nat /\ cpu_num >= 2
BY DispatchConstants

\* The quotient and the remainder of a division by the size of an int.
LEMMA DivModOf ==
  ASSUME NEW I \in Nat \ {0}, NEW n \in Nat
  PROVE  n \div I \in Nat /\ n % I \in 0 .. I - 1 /\ n = ((n \div I) * I) + (n % I)
OBVIOUS

LEMMA DivMod ==
  ASSUME NEW n \in Nat
  PROVE  /\ n \div IntSize \in Nat /\ n % IntSize \in 0 .. IntSize - 1
         /\ n = ((n \div IntSize) * IntSize) + (n % IntSize)
BY Sizes, DivModOf

\* The part of n bytes that whole ints make up.
LEMMA WholePart ==
  ASSUME NEW n \in Nat
  PROVE  /\ (n \div IntSize) * IntSize \in 0 .. n
         /\ n - (n \div IntSize) * IntSize = n % IntSize
         /\ n - (n \div IntSize) * IntSize < IntSize
<1> DEFINE w == (n \div IntSize) * IntSize
           r == n % IntSize
<1>1. n \div IntSize \in Nat /\ r \in 0 .. IntSize - 1 /\ n = w + r
  BY DivMod
<1>2. w \in Nat
  BY <1>1, Sizes
<1> HIDE DEF w, r
<1>3. w \in 0 .. n /\ n - w = r /\ n - w < IntSize
  BY <1>1, <1>2, Sizes
<1> QED BY <1>3 DEF w, r

LEMMA DivModUnique ==
  ASSUME NEW q \in Nat, NEW r \in 0 .. IntSize - 1
  PROVE  (q * IntSize + r) \div IntSize = q /\ (q * IntSize + r) % IntSize = r
BY Sizes

LEMMA SizeMonotonic ==
  ASSUME NEW p \in Nat, NEW q \in Nat, p < q
  PROVE  p * IntSize \in Nat /\ p * IntSize + IntSize <= q * IntSize
<1>1. PICK d \in Nat : q = p + 1 + d
  OBVIOUS
<1> QED
  BY <1>1, Sizes

\* Bytes(batch) has the bytes of every descriptor, in their order.
LEMMA BytesShape ==
  ASSUME NEW b \in Seq(Conns)
  PROVE  /\ Bytes(b) \in Seq(Byte) /\ Len(Bytes(b)) = Len(b) * IntSize
         /\ \A i \in 1 .. Len(b), k \in 1 .. IntSize :
               /\ (i - 1) * IntSize + k \in 1 .. Len(b) * IntSize
               /\ Bytes(b)[(i - 1) * IntSize + k] = <<b[i], k>>
<1> DEFINE n == Len(b) * IntSize
<1>1. n \in Nat /\ Len(b) \in Nat
  BY Sizes
<1>2. ASSUME NEW j \in 1 .. n
      PROVE  <<b[((j - 1) \div IntSize) + 1], ((j - 1) % IntSize) + 1>> \in Byte
  <2>1. ((j - 1) \div IntSize) \in Nat /\ (j - 1) % IntSize \in 0 .. IntSize - 1
    <3>1. j - 1 \in Nat
      BY <1>1
    <3> QED BY <3>1, DivMod
  <2>2. (j - 1) \div IntSize < Len(b)
    <3> DEFINE q == (j - 1) \div IntSize
    <3>1. q \in Nat /\ j - 1 = (q * IntSize) + ((j - 1) % IntSize)
      <4>1. j - 1 \in Nat
        BY <1>1
      <4> QED BY <4>1, DivMod
    <3>2. ASSUME Len(b) <= q PROVE FALSE
      <4>1. Len(b) * IntSize <= q * IntSize
        <5>1. CASE Len(b) = q
          BY <5>1, <1>1, <3>1, Sizes
        <5>2. CASE Len(b) < q
          BY <5>2, <1>1, <3>1, SizeMonotonic, Sizes
        <5> QED BY <5>1, <5>2, <3>2, <1>1, <3>1
      <4>2. q * IntSize \in Nat
        BY <3>1, Sizes
      <4> QED BY <4>1, <4>2, <3>1, <2>1, <1>1
    <3> QED BY <3>1, <3>2, <1>1
  <2>3. ((j - 1) \div IntSize) + 1 \in 1 .. Len(b) /\ ((j - 1) % IntSize) + 1 \in 1 .. IntSize
    BY <2>1, <2>2, <1>1, Sizes
  <2>4. b[((j - 1) \div IntSize) + 1] \in Conns
    BY <2>3, ElementOfSeq
  <2> QED BY <2>3, <2>4 DEF Byte
<1>3. Bytes(b) \in [1 .. n -> Byte]
  BY <1>2 DEF Bytes
<1>4. Bytes(b) \in Seq(Byte) /\ Len(Bytes(b)) = n
  <2>1. Bytes(b) \in Seq(Byte)
    BY <1>1, <1>3, SeqDef
  <2> QED BY <2>1, <1>1, <1>3, LenProperties
<1>5. ASSUME NEW i \in 1 .. Len(b), NEW k \in 1 .. IntSize
      PROVE  /\ (i - 1) * IntSize + k \in 1 .. n
             /\ Bytes(b)[(i - 1) * IntSize + k] = <<b[i], k>>
  <2> DEFINE j == (i - 1) * IntSize + k
  <2>1. (i - 1) * IntSize \in Nat /\ (i - 1) * IntSize + IntSize <= Len(b) * IntSize
    BY <1>1, SizeMonotonic
  <2>2. j \in 1 .. n
    <3> DEFINE m == (i - 1) * IntSize
    <3>1. m \in Nat /\ m + IntSize <= n /\ j = m + k
      BY <2>1
    <3> HIDE DEF m, n, j
    <3> QED BY <3>1, <1>1, Sizes
  <2>3. j - 1 = (i - 1) * IntSize + (k - 1) /\ i - 1 \in Nat /\ k - 1 \in 0 .. IntSize - 1
    BY <2>1, Sizes
  <2>4. (j - 1) \div IntSize = i - 1 /\ (j - 1) % IntSize = k - 1
    BY <2>3, DivModUnique
  <2> QED BY <2>2, <2>4 DEF Bytes
<1> QED BY <1>4, <1>5

\* The bytes of two batches one after the other.
LEMMA BytesConcat ==
  ASSUME NEW a \in Seq(Conns), NEW b \in Seq(Conns)
  PROVE  a \o b \in Seq(Conns) /\ Bytes(a \o b) = Bytes(a) \o Bytes(b)
<1> DEFINE s == Bytes(a \o b)
           t == Bytes(a) \o Bytes(b)
           la == Len(a)
           lb == Len(b)
           m == la * IntSize
           n == lb * IntSize
<1>1. a \o b \in Seq(Conns) /\ Len(a \o b) = la + lb /\ la \in Nat /\ lb \in Nat
  BY ConcatProperties
<1>2. m \in Nat /\ n \in Nat /\ (la + lb) * IntSize = m + n
  BY <1>1, Sizes
<1>3. s \in Seq(Byte) /\ Len(s) = m + n
  BY <1>1, <1>2, BytesShape
<1>4. /\ Bytes(a) \in Seq(Byte) /\ Len(Bytes(a)) = m
      /\ Bytes(b) \in Seq(Byte) /\ Len(Bytes(b)) = n
  BY BytesShape
<1>5. t \in Seq(Byte) /\ Len(t) = m + n
  BY <1>4, ConcatProperties
<1>6. ASSUME NEW j \in 1 .. m + n
      PROVE  s[j] = t[j]
  <2> DEFINE q == (j - 1) \div IntSize
             r == (j - 1) % IntSize
  <2>0. j - 1 \in Nat
    BY <1>2
  <2>1. q \in Nat /\ r \in 0 .. IntSize - 1 /\ j - 1 = (q * IntSize) + r
    BY <2>0, DivMod
  <2>2. j = ((q + 1) - 1) * IntSize + (r + 1) /\ r + 1 \in 1 .. IntSize /\ q * IntSize \in Nat
    BY <2>1, Sizes, <1>2
  <2>3. CASE q < la
    <3>1. q + 1 \in 1 .. la /\ q + 1 \in 1 .. la + lb
      BY <2>3, <2>1, <1>1
    <3>2. j \in 1 .. m /\ Bytes(a)[j] = <<a[q + 1], r + 1>>
      BY <2>2, <3>1, BytesShape, SMTT(30)
    <3>3. s[j] = <<(a \o b)[q + 1], r + 1>>
      <4>1. Bytes(a \o b)[((q + 1) - 1) * IntSize + (r + 1)] = <<(a \o b)[q + 1], r + 1>>
        BY <2>2, <3>1, <1>1, BytesShape
      <4> QED BY <4>1, <2>2
    <3>4. (a \o b)[q + 1] = a[q + 1]
      BY <3>1, <1>1, ConcatProperties
    <3>5. t[j] = Bytes(a)[j]
      BY <3>2, <1>4, ConcatProperties, <1>2
    <3> QED BY <3>2, <3>3, <3>4, <3>5
  <2>4. CASE la <= q
    <3>1. PICK d \in Nat : q = la + d
      <4> HIDE DEF q, la
      <4>1. q - la \in Nat /\ q = la + (q - la)
        BY <2>4, <2>1, <1>1
      <4> QED BY <4>1
    <3>2. q * IntSize = m + d * IntSize /\ d * IntSize \in Nat
      BY <3>1, <1>1, Sizes
    <3>3. j - m = d * IntSize + (r + 1) /\ j - m \in 1 .. n
      <4> DEFINE e == d * IntSize
                 x == q * IntSize
      <4>1. x = m + e /\ e \in Nat /\ j - 1 = x + r /\ r \in 0 .. IntSize - 1
        BY <2>1, <3>2
      <4> HIDE DEF m, n, q, r, e, x
      <4>2. j - m = e + (r + 1) /\ j - m \in 1 .. n
        BY <4>1, <1>2, Sizes
      <4> QED BY <4>2 DEF e
    <3>4. d < lb
      <4> SUFFICES ASSUME lb <= d PROVE FALSE
        BY <1>1
      <4>1. n <= d * IntSize
        <5>1. CASE lb = d
          BY <5>1, <1>1, Sizes
        <5>2. CASE lb < d
          <6>1. n + IntSize <= d * IntSize
            BY <5>2, <1>1, SizeMonotonic
          <6> HIDE DEF n
          <6> QED BY <6>1, <3>2, <1>2, Sizes
        <5> QED BY <5>1, <5>2, <1>1
      <4> HIDE DEF m, n, q, r
      <4> QED BY <4>1, <3>3, <3>2, <2>1, <1>2, SMTT(30)
    <3>5. d + 1 \in 1 .. lb /\ q + 1 \in 1 .. la + lb /\ (d + 1) - 1 = d
      BY <3>1, <3>4, <1>1
    <3>6. Bytes(b)[j - m] = <<b[d + 1], r + 1>>
      BY <3>3, <3>5, <2>2, BytesShape
    <3>7. s[j] = <<(a \o b)[q + 1], r + 1>>
      <4>1. Bytes(a \o b)[((q + 1) - 1) * IntSize + (r + 1)] = <<(a \o b)[q + 1], r + 1>>
        BY <2>2, <3>5, <1>1, BytesShape
      <4> QED BY <4>1, <2>2
    <3>8. (a \o b)[q + 1] = b[d + 1]
      <4>1. (a \o b)[q + 1] = b[q + 1 - la]
        BY <3>5, <3>1, <1>1, ConcatProperties
      <4> QED BY <4>1, <3>1, <1>1
    <3>9. t[j] = Bytes(b)[j - m]
      <4> HIDE DEF m, n
      <4>1. ~(j <= m) /\ j \in 1 .. m + n
        BY <3>3, <1>2
      <4>2. \A i \in 1 .. m + n : t[i] = IF i <= m THEN Bytes(a)[i] ELSE Bytes(b)[i - m]
        BY <1>4, ConcatProperties
      <4> QED BY <4>1, <4>2
    <3> QED BY <3>6, <3>7, <3>8, <3>9
  <2>5. q < la \/ la <= q
    <3> HIDE DEF q, la
    <3> QED BY <2>1, <1>1
  <2> QED BY <2>3, <2>4, <2>5
<1> QED BY <1>1, <1>3, <1>5, <1>6, SeqEqual

-------------------------------------------------------------------------------
(***************************************************************************)
(* The steps of both kinds of socket: a socket holds cap bytes, a send     *)
(* transfers a multiple of g, and with err a call may fail at any time.     *)
(***************************************************************************)
FailOf(err) ==
  /\ apc = "accept"
  /\ taken = arrived \/ err
  /\ apc' = IF fdBuff # <<>> THEN "last" ELSE "wait"
  /\ UNCHANGED <<arrived, ledge, taken, fdBuff, acceptedFDlist, dpc, dispatcher, chan, wedge, worker, down>>

ExitOf(err) ==
  /\ apc = "accept" /\ err
  /\ down' = TRUE
  /\ UNCHANGED <<arrived, ledge, acceptor, acceptedFDlist, dpc, dispatcher, chan, wedge, worker>>

SendOf(cap, g) ==
  /\ dpc = "send"
  /\ \E n \in 1 .. cap :
       /\ n <= Unsent /\ n <= cap - Len(chan[channel]) /\ n % g = 0
       /\ chan' = [chan EXCEPT ![channel] =
                     @ \o SubSeq(sendfdBuff[channel], sended + 1, sended + n)]
       /\ sended' = sended + n
  /\ wedge' = [wedge EXCEPT ![channel] = TRUE]
  /\ UNCHANGED <<arrived, ledge, acceptor, acceptedFDlist, dpc, paccept, sum, sendfdBuff, overrun, worker, down>>

\* When the dispatcher gives a buffer up does not matter here.
SendEnd ==
  /\ dpc = "send"
  /\ sendfdBuff' = [sendfdBuff EXCEPT ![channel] = SubSeq(@, sended + 1, Len(@))]
  /\ sum' = sum + 1 /\ paccept' = Tail(paccept) /\ sended' = 0
  /\ dpc' = "next"
  /\ UNCHANGED <<arrived, ledge, acceptor, acceptedFDlist, overrun, chan, wedge, worker, down>>

StepOf(cap, g, err) ==
  \/ Arrive \/ ListenEvent \/ Accept \/ FailOf(err) \/ ExitOf(err) \/ Publish
  \/ TakeList \/ NextBatch \/ Overrun \/ ListDone \/ SendOf(cap, g) \/ SendEnd
  \/ \E c \in Channels : Worker(c)
  \/ UNCHANGED vars

LEMMA PartialStep == Next => StepOf(ChanCap, Granule, Errors)
<1>1. Send => SendOf(ChanCap, Granule)
  BY DEF Send, SendOf, Room
<1>2. SendDone => SendEnd
  BY DEF SendDone, SendEnd
<1>3. AcceptFail => FailOf(Errors)
  BY DEF AcceptFail, FailOf
<1>4. AcceptExit => ExitOf(Errors)
  BY DEF AcceptExit, ExitOf
<1> QED
  BY <1>1, <1>2, <1>3, <1>4 DEF Next, MainThread, Dispatcher, Quiet, StepOf

LEMMA WholeStep ==
  ASSUME arrived \in Nat, Whole!Next
  PROVE  StepOf(WholeCap, IntSize, FALSE)
<1> USE DEF Whole!acceptor, Whole!dispatcher, Whole!worker, acceptor, dispatcher, worker
<1>1. Whole!Send => SendOf(WholeCap, IntSize)
  BY DEF Whole!Send, SendOf, Whole!Room, Whole!Unsent, Unsent, Whole!channel, channel
<1>2. Whole!SendDone => SendEnd
  BY DEF Whole!SendDone, SendEnd, Whole!channel, channel
<1>3. Whole!AcceptFail => FailOf(FALSE)
  BY DEF Whole!AcceptFail, FailOf
<1>4. ~Whole!AcceptExit
  BY DEF Whole!AcceptExit
<1>5. Whole!Arrive => Arrive
  <2>1. MaxConns \in Nat /\ WholeConns \in 0 .. MaxConns
    BY WholeCapAssumption, DispatchConstants
  <2>2. arrived < WholeConns => arrived < MaxConns
    BY <2>1
  <2> QED BY <2>2 DEF Whole!Arrive, Arrive
<1>6. Whole!ListenEvent => ListenEvent
  BY DEF Whole!ListenEvent, ListenEvent
<1>7. Whole!Accept => Accept
  BY DEF Whole!Accept, Accept
<1>8. Whole!Publish => Publish
  BY DEF Whole!Publish, Publish
<1>9. Whole!TakeList => TakeList
  BY DEF Whole!TakeList, TakeList
<1>10. Whole!NextBatch => NextBatch
  BY DEF Whole!NextBatch, NextBatch, Whole!Fits, Fits, Whole!channel, channel, Whole!Bytes, Bytes
<1>10a. Whole!Overrun => Overrun
  BY DEF Whole!Overrun, Overrun, Whole!Fits, Fits, Whole!channel, channel
<1>11. Whole!ListDone => ListDone
  BY DEF Whole!ListDone, ListDone
<1>12. ASSUME NEW c, Whole!Worker(c) PROVE Worker(c)
  <2>1. Whole!Received(c) = Received(c)
    BY DEF Whole!Received, Received, Whole!Min, Min
  <2>2. \A s : Whole!Ints(s) = Ints(s)
    BY DEF Whole!Ints, Ints
  <2>3. Whole!OrderEvent(c) => OrderEvent(c)
    BY DEF Whole!OrderEvent, OrderEvent
  <2>4. Whole!Recv(c) => Recv(c)
    BY <2>1, <2>2 DEF Whole!Recv, Recv
  <2>5. Whole!RecvAssert(c) => RecvAssert(c)
    BY <2>1 DEF Whole!RecvAssert, RecvAssert
  <2>6. Whole!RecvEnd(c) => RecvEnd(c)
    BY DEF Whole!RecvEnd, RecvEnd
  <2> QED
    BY <1>12, <2>3, <2>4, <2>5, <2>6 DEF Whole!Worker, Worker
<1>13. Whole!Quiet => UNCHANGED vars
  BY DEF Whole!Quiet, Whole!vars, vars
<1>14. Whole!Channels = Channels
  BY DEF Whole!Channels, Channels
<1> QED
  BY <1>1, <1>2, <1>3, <1>4, <1>5, <1>6, <1>7, <1>8, <1>9, <1>10, <1>10a, <1>11, <1>12, <1>13, <1>14
     DEF Whole!Next, Whole!MainThread, Whole!Dispatcher, StepOf

-------------------------------------------------------------------------------
(***************************************************************************)
(* The types, and what holds at each place of the three loops.             *)
(***************************************************************************)
MainTypes ==
  /\ arrived \in Nat /\ taken \in Nat /\ taken <= arrived /\ arrived <= MaxConns
  /\ apc \in {"wait", "accept", "publish", "last"}
  /\ fdBuff \in Seq(Conns) /\ Len(fdBuff) <= MAXACCEPTSIZE
  /\ apc = "wait" => fdBuff = <<>>
  /\ apc = "accept" => Len(fdBuff) < MAXACCEPTSIZE
  /\ acceptedFDlist \in Seq(Seq(Conns))

DispatcherTypes ==
  /\ dpc \in {"check", "waiting", "next", "send"}
  /\ paccept \in Seq(Seq(Conns)) /\ sum \in Nat /\ sended \in Nat
  /\ sendfdBuff \in [Channels -> Seq(Byte)]
  /\ dpc \in {"check", "waiting"} => paccept = <<>>
  /\ dpc = "send" => paccept # <<>> /\ sended <= Len(sendfdBuff[channel])
  /\ dpc # "send" => sended = 0

WorkerTypes ==
  /\ chan \in [Channels -> Seq(Byte)]
  /\ wedge \in [Channels -> BOOLEAN]
  /\ wpc \in [Channels -> {"wait", "recv"}]
  /\ buffer \in [Channels -> Seq(Byte)]
  /\ delivered \in [Channels -> Seq(Byte)]
  /\ registered \in [Channels -> Seq(Seq(Byte))]
  /\ \A c \in Channels : Len(buffer[c]) < IntSize

Bounded(cap) == \A c \in Channels : Len(chan[c]) <= cap

Types == MainTypes /\ DispatcherTypes /\ WorkerTypes

LEMMA InitTypes == Init => Types /\ \A cap \in Nat : Bounded(cap)
<1> SUFFICES ASSUME Init PROVE Types /\ \A cap \in Nat : Bounded(cap)
  OBVIOUS
<1>1. MainTypes
  BY Sizes, EmptySeq DEF Init, MainTypes
<1>2. DispatcherTypes
  BY EmptySeq DEF Init, DispatcherTypes
<1>3. WorkerTypes
  BY Sizes, EmptySeq DEF Init, WorkerTypes
<1>4. \A cap \in Nat : Bounded(cap)
  BY DEF Init, Bounded
<1> QED
  BY <1>1, <1>2, <1>3, <1>4 DEF Types

\* The dispatcher uses the channels in turn.
LEMMA ChannelIsOne == sum \in Nat => channel \in Channels
<1> SUFFICES ASSUME sum \in Nat PROVE channel \in Channels
  OBVIOUS
<1>1. cpu_num - 1 \in Nat \ {0}
  BY Sizes
<1>2. sum % (cpu_num - 1) \in 0 .. (cpu_num - 1) - 1
  BY <1>1, DivModOf
<1> QED
  BY <1>1, <1>2, Sizes DEF channel, Channels

\* What recv takes from the socket: at least a byte, at most what is there and
\* what the buffer has room for.
LEMMA ReceivedShape ==
  ASSUME Types, NEW c \in Channels, chan[c] # <<>>
  PROVE  \E k \in 1 .. Len(chan[c]) :
            /\ Received(c) = SubSeq(chan[c], 1, k)
            /\ Received(c) \in Seq(Byte) /\ Len(Received(c)) = k
            /\ k = Len(chan[c]) \/ k = RecvBuf - Len(buffer[c])
            /\ k <= RecvBuf - Len(buffer[c])
<1> DEFINE a == Len(chan[c])
           b == RecvBuf - Len(buffer[c])
           k == Min({a, b})
<1>1. chan[c] \in Seq(Byte) /\ a \in Nat \ {0}
  BY EmptySeq DEF Types, WorkerTypes
<1>2. b \in Nat \ {0}
  <2>1. Len(buffer[c]) \in Nat /\ Len(buffer[c]) < IntSize
    BY DEF Types, WorkerTypes
  <2> QED BY <2>1, Sizes
<1>3. k \in {a, b} /\ k <= a /\ k <= b
  <2> HIDE DEF a, b
  <2>1. \E x \in {a, b} : \A y \in {a, b} : x <= y
    BY <1>1, <1>2
  <2> QED BY <2>1 DEF Min
<1>4. k \in 1 .. a
  <2> HIDE DEF a, b, k
  <2> QED BY <1>1, <1>2, <1>3
<1>5. Received(c) = SubSeq(chan[c], 1, k)
  BY DEF Received
<1>6. SubSeq(chan[c], 1, k) \in Seq(Byte) /\ Len(SubSeq(chan[c], 1, k)) = k
  <2>1. \A i \in 1 .. k : chan[c][i] \in Byte
    <3> HIDE DEF k
    <3> QED BY <1>1, <1>4
  <2> HIDE DEF k
  <2> QED BY <2>1, <1>4, SubSeqProperties
<1> HIDE DEF k
<1> QED BY <1>3, <1>4, <1>5, <1>6

\* A suffix of a sequence of bytes.
LEMMA SuffixShape ==
  ASSUME NEW S, NEW s \in Seq(S), NEW m \in 0 .. Len(s)
  PROVE  /\ SubSeq(s, m + 1, Len(s)) \in Seq(S)
         /\ Len(SubSeq(s, m + 1, Len(s))) = Len(s) - m
         /\ \A i \in 1 .. Len(s) - m : SubSeq(s, m + 1, Len(s))[i] = s[m + i]
<1>1. Len(s) \in Nat /\ m \in Nat /\ m <= Len(s)
  OBVIOUS
<1>2. \A i \in m + 1 .. Len(s) : s[i] \in S
  BY <1>1
<1>3. /\ SubSeq(s, m + 1, Len(s)) \in Seq(S)
      /\ Len(SubSeq(s, m + 1, Len(s))) = IF m + 1 <= Len(s) THEN Len(s) - (m + 1) + 1 ELSE 0
      /\ \A i \in 1 .. Len(s) - (m + 1) + 1 : SubSeq(s, m + 1, Len(s))[i] = s[(m + 1) + i - 1]
  BY <1>1, <1>2, SubSeqProperties
<1>4. Len(s) - (m + 1) + 1 = Len(s) - m
  BY <1>1
<1>5. \A i \in 1 .. Len(s) - m : (m + 1) + i - 1 = m + i
  BY <1>1
<1>6. (IF m + 1 <= Len(s) THEN Len(s) - (m + 1) + 1 ELSE 0) = Len(s) - m
  BY <1>1
<1>7. \A i \in 1 .. Len(s) - m : SubSeq(s, m + 1, Len(s))[i] = s[m + i]
  BY <1>3, <1>4, <1>5
<1> QED
  BY <1>3, <1>6, <1>7

\* The whole ints of a buffer.
LEMMA IntsShape ==
  ASSUME NEW s \in Seq(Byte)
  PROVE  /\ Ints(s) \in Seq(Seq(Byte)) /\ Len(Ints(s)) = Len(s) \div IntSize
         /\ \A i \in 1 .. Len(s) \div IntSize :
               /\ (i - 1) * IntSize \in Nat
               /\ (i - 1) * IntSize + IntSize = i * IntSize
               /\ i * IntSize \in Nat
               /\ i * IntSize <= (Len(s) \div IntSize) * IntSize
               /\ i * IntSize <= Len(s)
               /\ Ints(s)[i] = SubSeq(s, (i - 1) * IntSize + 1, i * IntSize)
<1> DEFINE n == Len(s) \div IntSize
           w == n * IntSize
<1>1. n \in Nat /\ w \in Nat /\ w <= Len(s) /\ Len(s) \in Nat
  <2>1. n \in Nat /\ Len(s) % IntSize \in Nat /\ Len(s) = w + (Len(s) % IntSize)
    <3>1. Len(s) \in Nat
      OBVIOUS
    <3> QED BY <3>1, DivMod
  <2>2. w \in Nat
    BY <2>1, Sizes
  <2> HIDE DEF n, w
  <2> QED BY <2>1, <2>2
<1>2. ASSUME NEW i \in 1 .. n
      PROVE  /\ (i - 1) * IntSize \in Nat /\ (i - 1) * IntSize + IntSize = i * IntSize
             /\ i * IntSize \in Nat /\ i * IntSize <= w
  <2>0. i - 1 \in Nat /\ i - 1 < n
    BY <1>1
  <2>1. (i - 1) * IntSize \in Nat /\ (i - 1) * IntSize + IntSize <= w
    BY <2>0, <1>1, SizeMonotonic
  <2>2. (i - 1) * IntSize + IntSize = i * IntSize
    BY <1>1, Sizes
  <2>3. (i - 1) * IntSize + IntSize \in Nat
    BY <2>1, Sizes
  <2> QED BY <2>1, <2>2, <2>3
<1>3. ASSUME NEW i \in 1 .. n
      PROVE  i * IntSize <= Len(s) /\ SubSeq(s, (i - 1) * IntSize + 1, i * IntSize) \in Seq(Byte)
  <2> DEFINE a == (i - 1) * IntSize
             b == i * IntSize
  <2>1. a \in Nat /\ b \in Nat /\ b <= w
    BY <1>2
  <2> HIDE DEF a, b, w
  <2>2. b <= Len(s) /\ \A k \in a + 1 .. b : s[k] \in Byte
    BY <2>1, <1>1
  <2>3. SubSeq(s, a + 1, b) \in Seq(Byte)
    BY <2>1, <2>2, SubSeqProperties
  <2> QED BY <2>2, <2>3 DEF a, b
<1>4. Ints(s) \in [1 .. n -> Seq(Byte)]
  BY <1>3 DEF Ints
<1>5. Ints(s) \in Seq(Seq(Byte)) /\ Len(Ints(s)) = n
  <2>1. Ints(s) \in Seq(Seq(Byte))
    BY <1>1, <1>4, SeqDef
  <2> QED BY <2>1, <1>1, <1>4, LenProperties
<1>6. \A i \in 1 .. n : Ints(s)[i] = SubSeq(s, (i - 1) * IntSize + 1, i * IntSize)
  BY DEF Ints
<1> QED BY <1>2, <1>3, <1>5, <1>6

\* accept_readfun keeps the types.
LEMMA MainTypesStep ==
  ASSUME Types, NEW err,
         Arrive \/ ListenEvent \/ Accept \/ FailOf(err) \/ ExitOf(err) \/ Publish
  PROVE  Types'
<1> USE DEF Types
<1>1. DispatcherTypes'
  BY DEF Arrive, ListenEvent, Accept, FailOf, ExitOf, Publish, dispatcher, DispatcherTypes, channel
<1>2. WorkerTypes'
  BY DEF Arrive, ListenEvent, Accept, FailOf, ExitOf, Publish, worker, WorkerTypes
<1>3. MainTypes'
  <2>1. CASE Arrive
    BY <2>1, Sizes DEF Arrive, acceptor, MainTypes
  <2>2. CASE ListenEvent
    BY <2>2, Sizes DEF ListenEvent, MainTypes
  <2>3. CASE Accept
    <3>1. taken + 1 \in Conns /\ fdBuff \in Seq(Conns) /\ Len(fdBuff) < MAXACCEPTSIZE
      BY <2>3, Sizes DEF Accept, MainTypes, Conns
    <3>2. /\ Append(fdBuff, taken + 1) \in Seq(Conns)
          /\ Len(Append(fdBuff, taken + 1)) = Len(fdBuff) + 1
      BY <3>1, AppendProperties
    <3>3. fdBuff' \in Seq(Conns) /\ Len(fdBuff') <= MAXACCEPTSIZE
      BY <2>3, <3>1, <3>2, Sizes DEF Accept
    <3>4. taken' \in Nat /\ taken' <= arrived'
      BY <2>3 DEF Accept, MainTypes
    <3> QED
      BY <2>3, <3>3, <3>4 DEF Accept, MainTypes
  <2>4. CASE FailOf(err)
    BY <2>4 DEF FailOf, MainTypes
  <2>5. CASE ExitOf(err)
    BY <2>5 DEF ExitOf, acceptor, MainTypes
  <2>6. CASE Publish
    <3>1. <<fdBuff>> \o acceptedFDlist \in Seq(Seq(Conns))
      <4>1. <<fdBuff>> \in Seq(Seq(Conns)) /\ acceptedFDlist \in Seq(Seq(Conns))
        BY DEF MainTypes
      <4> QED BY <4>1, ConcatProperties
    <3>2. fdBuff' \in Seq(Conns) /\ Len(fdBuff') = 0 /\ fdBuff' = <<>>
      BY <2>6, EmptySeq DEF Publish
    <3> QED
      BY <2>6, <3>1, <3>2, Sizes DEF Publish, MainTypes
  <2> QED
    BY <2>1, <2>2, <2>3, <2>4, <2>5, <2>6
<1> QED
  BY <1>1, <1>2, <1>3

\* So does dispatch_conn.
LEMMA DispatcherTypesStep ==
  ASSUME Types, NEW cap \in Nat, NEW g,
         TakeList \/ NextBatch \/ Overrun \/ ListDone \/ SendOf(cap, g) \/ SendEnd
  PROVE  Types'
<1> USE DEF Types
<1>1. channel \in Channels
  BY ChannelIsOne DEF DispatcherTypes
<1>2. MainTypes'
  BY EmptySeq DEF TakeList, NextBatch, Overrun, ListDone, SendOf, SendEnd, acceptor, MainTypes
<1>3. CASE TakeList
  BY <1>2, <1>3 DEF TakeList, worker, MainTypes, DispatcherTypes, WorkerTypes, channel
<1>4. CASE NextBatch
  <2>1. Head(paccept) \in Seq(Conns)
    BY <1>4, HeadTailProperties DEF NextBatch, DispatcherTypes
  <2>2. sendfdBuff[channel] \o Bytes(Head(paccept)) \in Seq(Byte)
    BY <2>1, <1>1, BytesShape, ConcatProperties DEF DispatcherTypes
  <2>3. sendfdBuff' \in [Channels -> Seq(Byte)]
    BY <1>4, <2>2 DEF NextBatch, DispatcherTypes
  <2>4. channel' = channel /\ sended' = 0
    BY <1>4 DEF NextBatch, channel
  <2>5. Len(sendfdBuff'[channel]) \in Nat
    BY <2>3, <1>1
  <2>6. DispatcherTypes'
    BY <1>4, <2>3, <2>4, <2>5 DEF NextBatch, DispatcherTypes
  <2> QED
    BY <1>2, <2>6, <1>4 DEF NextBatch, worker, WorkerTypes
<1>4a. CASE Overrun
  BY <1>2, <1>4a DEF Overrun, worker, DispatcherTypes, WorkerTypes, channel
<1>5. CASE ListDone
  BY <1>2, <1>5 DEF ListDone, dispatcher, worker, DispatcherTypes, WorkerTypes, channel
<1>6. CASE SendOf(cap, g)
  <2> USE DEF SendOf
  <2>1. PICK n \in 1 .. cap :
          /\ n <= Unsent
          /\ chan' = [chan EXCEPT ![channel] =
                       @ \o SubSeq(sendfdBuff[channel], sended + 1, sended + n)]
          /\ sended' = sended + n
    BY <1>6
  <2>2. sendfdBuff[channel] \in Seq(Byte) /\ sended \in Nat /\ Len(sendfdBuff[channel]) \in Nat
    BY <1>1 DEF DispatcherTypes
  <2>3. sended + n <= Len(sendfdBuff[channel])
    BY <2>1, <2>2 DEF Unsent
  <2>4. SubSeq(sendfdBuff[channel], sended + 1, sended + n) \in Seq(Byte)
    <3>1. \A i \in sended + 1 .. sended + n : sendfdBuff[channel][i] \in Byte
      BY <2>2, <2>3
    <3> QED BY <3>1, <2>2, SubSeqProperties
  <2>5. chan[channel] \o SubSeq(sendfdBuff[channel], sended + 1, sended + n) \in Seq(Byte)
    BY <1>1, <2>4, ConcatProperties DEF WorkerTypes
  <2>6. chan' \in [Channels -> Seq(Byte)]
    BY <2>1, <2>5 DEF WorkerTypes
  <2>7. wedge' \in [Channels -> BOOLEAN]
    BY <1>6 DEF WorkerTypes
  <2>8. WorkerTypes'
    BY <1>6, <2>6, <2>7 DEF worker, WorkerTypes
  <2>9. channel' = channel
    BY <1>6 DEF channel
  <2>10. sended' \in Nat
    BY <2>1, <2>2
  <2>11. DispatcherTypes'
    BY <1>6, <2>1, <2>3, <2>9, <2>10 DEF DispatcherTypes
  <2> QED
    BY <1>2, <2>8, <2>11
<1>7. CASE SendEnd
  <2> USE DEF SendEnd
  <2>1. sendfdBuff[channel] \in Seq(Byte) /\ sended \in 0 .. Len(sendfdBuff[channel])
    BY <1>1, <1>7 DEF DispatcherTypes
  <2>2. SubSeq(sendfdBuff[channel], sended + 1, Len(sendfdBuff[channel])) \in Seq(Byte)
    BY <2>1, SuffixShape
  <2>3. sendfdBuff' \in [Channels -> Seq(Byte)]
    BY <1>7, <2>2 DEF DispatcherTypes
  <2>4. paccept' \in Seq(Seq(Conns)) /\ sum' \in Nat
    BY <1>7, HeadTailProperties DEF DispatcherTypes
  <2>5. DispatcherTypes'
    BY <1>7, <2>3, <2>4 DEF DispatcherTypes
  <2> QED
    BY <1>2, <2>5, <1>7 DEF worker, WorkerTypes
<1> QED
  BY <1>3, <1>4, <1>4a, <1>5, <1>6, <1>7

\* What one recv and process_connection do to the bytes of a worker: k of them
\* leave the socket, w of those in the buffer become ints, the rest stays.
LEMMA RecvShape ==
  ASSUME Types, NEW c \in Channels, Recv(c)
  PROVE  \E k \in 1 .. Len(chan[c]), in \in Seq(Byte), all \in Seq(Byte) :
            /\ in = SubSeq(chan[c], 1, k) /\ Len(in) = k
            /\ k = Len(chan[c]) \/ k = RecvBuf - Len(buffer[c])
            /\ all = buffer[c] \o in /\ Len(all) = Len(buffer[c]) + k
            /\ registered' = [registered EXCEPT ![c] = @ \o Ints(all)]
            /\ buffer' = [buffer EXCEPT ![c] =
                            SubSeq(all, ((Len(all) \div IntSize) * IntSize) + 1, Len(all))]
            /\ delivered' = [delivered EXCEPT ![c] = @ \o in]
            /\ chan' = [chan EXCEPT ![c] = SubSeq(@, k + 1, Len(@))]
            /\ (Len(all) \div IntSize) * IntSize \in 0 .. Len(all)
<1>1. chan[c] # <<>> /\ buffer[c] \in Seq(Byte)
  BY DEF Recv, Types, WorkerTypes
<1>2. PICK k \in 1 .. Len(chan[c]) :
         /\ Received(c) = SubSeq(chan[c], 1, k)
         /\ Received(c) \in Seq(Byte) /\ Len(Received(c)) = k
         /\ k = Len(chan[c]) \/ k = RecvBuf - Len(buffer[c])
         /\ k <= RecvBuf - Len(buffer[c])
  BY <1>1, ReceivedShape
<1> DEFINE all == buffer[c] \o Received(c)
<1>3. all \in Seq(Byte) /\ Len(all) = Len(buffer[c]) + k /\ Len(all) \in Nat
  BY <1>1, <1>2, ConcatProperties
<1>4. /\ registered' = [registered EXCEPT ![c] = @ \o Ints(all)]
      /\ buffer' = [buffer EXCEPT ![c] =
                      SubSeq(all, (Len(all) \div IntSize) * IntSize + 1, Len(all))]
      /\ delivered' = [delivered EXCEPT ![c] = @ \o Received(c)]
      /\ chan' = [chan EXCEPT ![c] = SubSeq(@, Len(Received(c)) + 1, Len(@))]
  BY DEF Recv
<1>5. (Len(all) \div IntSize) * IntSize \in 0 .. Len(all)
  BY <1>3, WholePart
<1> HIDE DEF all
<1>6. /\ Received(c) = SubSeq(chan[c], 1, k) /\ Len(Received(c)) = k
      /\ k = Len(chan[c]) \/ k = RecvBuf - Len(buffer[c])
      /\ all = buffer[c] \o Received(c) /\ Len(all) = Len(buffer[c]) + k
      /\ registered' = [registered EXCEPT ![c] = @ \o Ints(all)]
      /\ buffer' = [buffer EXCEPT ![c] =
                      SubSeq(all, ((Len(all) \div IntSize) * IntSize) + 1, Len(all))]
      /\ delivered' = [delivered EXCEPT ![c] = @ \o Received(c)]
      /\ chan' = [chan EXCEPT ![c] = SubSeq(@, k + 1, Len(@))]
      /\ (Len(all) \div IntSize) * IntSize \in 0 .. Len(all)
  BY <1>2, <1>3, <1>4, <1>5 DEF all
<1> QED
  BY <1>2, <1>3, <1>6, Zenon

\* readfun_getConnections keeps the types.
LEMMA WorkerTypesStep ==
  ASSUME Types, NEW c \in Channels, Worker(c)
  PROVE  Types'
<1> USE DEF Types
<1>1. MainTypes' /\ DispatcherTypes'
  BY DEF Worker, OrderEvent, Recv, RecvAssert, RecvEnd, acceptor, dispatcher, MainTypes,
         DispatcherTypes, channel
<1>2. CASE OrderEvent(c)
  BY <1>1, <1>2 DEF OrderEvent, WorkerTypes
<1>3. CASE Recv(c)
  <2>1. PICK k \in 1 .. Len(chan[c]), in \in Seq(Byte), all \in Seq(Byte) :
            /\ in = SubSeq(chan[c], 1, k) /\ Len(in) = k
            /\ k = Len(chan[c]) \/ k = RecvBuf - Len(buffer[c])
            /\ all = buffer[c] \o in /\ Len(all) = Len(buffer[c]) + k
            /\ registered' = [registered EXCEPT ![c] = @ \o Ints(all)]
            /\ buffer' = [buffer EXCEPT ![c] =
                            SubSeq(all, ((Len(all) \div IntSize) * IntSize) + 1, Len(all))]
            /\ delivered' = [delivered EXCEPT ![c] = @ \o in]
            /\ chan' = [chan EXCEPT ![c] = SubSeq(@, k + 1, Len(@))]
            /\ (Len(all) \div IntSize) * IntSize \in 0 .. Len(all)
    BY <1>3, RecvShape, Zenon
  <2> DEFINE w == (Len(all) \div IntSize) * IntSize
             kept == SubSeq(all, w + 1, Len(all))
  <2>2. kept \in Seq(Byte) /\ Len(kept) = Len(all) - w
    BY <2>1, SuffixShape
  <2>3. Len(all) - w < IntSize
    <3>1. Len(all) \in Nat
      OBVIOUS
    <3> QED BY <3>1, WholePart
  <2> HIDE DEF w, kept
  <2>4. buffer' = [buffer EXCEPT ![c] = kept]
    BY <2>1 DEF kept, w
  <2>5. buffer' \in [Channels -> Seq(Byte)] /\ \A d \in Channels : Len(buffer'[d]) < IntSize
    BY <2>2, <2>3, <2>4 DEF WorkerTypes
  <2>6. chan' \in [Channels -> Seq(Byte)]
    <3>1. SubSeq(chan[c], k + 1, Len(chan[c])) \in Seq(Byte)
      BY SuffixShape DEF WorkerTypes
    <3> QED BY <2>1, <3>1 DEF WorkerTypes
  <2>7. delivered' \in [Channels -> Seq(Byte)]
    BY <2>1, ConcatProperties DEF WorkerTypes
  <2>8. registered' \in [Channels -> Seq(Seq(Byte))]
    <3>1. registered[c] \o Ints(all) \in Seq(Seq(Byte))
      BY IntsShape, ConcatProperties DEF WorkerTypes
    <3> QED BY <2>1, <3>1 DEF WorkerTypes
  <2>9. wedge' = wedge /\ wpc' = wpc
    BY <1>3 DEF Recv
  <2> QED
    BY <1>1, <2>5, <2>6, <2>7, <2>8, <2>9 DEF WorkerTypes
<1>4. CASE RecvAssert(c)
  BY <1>1, <1>4 DEF RecvAssert, worker, WorkerTypes
<1>5. CASE RecvEnd(c)
  BY <1>1, <1>5, Sizes, EmptySeq DEF RecvEnd, WorkerTypes
<1> QED
  BY <1>2, <1>3, <1>4, <1>5 DEF Worker

LEMMA TypesStep ==
  ASSUME Types, NEW cap \in Nat, NEW g, NEW err, StepOf(cap, g, err)
  PROVE  Types'
<1>1. CASE UNCHANGED vars
  BY <1>1 DEF vars, acceptor, dispatcher, worker, Types, MainTypes, DispatcherTypes, WorkerTypes,
              channel
<1> QED
  BY <1>1, MainTypesStep, DispatcherTypesStep, WorkerTypesStep DEF StepOf

\* A send puts no more into a socket than it holds.
LEMMA BoundedStep ==
  ASSUME Types, NEW cap \in Nat, NEW g, NEW err, Bounded(cap), StepOf(cap, g, err)
  PROVE  Bounded(cap)'
<1>1. CASE UNCHANGED chan
  BY <1>1 DEF Bounded
<1>2. CASE SendOf(cap, g)
  <2>1. channel \in Channels /\ sended \in Nat /\ sendfdBuff[channel] \in Seq(Byte)
    BY ChannelIsOne DEF Types, DispatcherTypes
  <2>2. chan \in [Channels -> Seq(Byte)]
    BY DEF Types, WorkerTypes
  <2>3. PICK n \in 1 .. cap :
          /\ n <= Unsent /\ n <= cap - Len(chan[channel])
          /\ chan' = [chan EXCEPT ![channel] =
                       @ \o SubSeq(sendfdBuff[channel], sended + 1, sended + n)]
    BY <1>2 DEF SendOf
  <2> DEFINE out == SubSeq(sendfdBuff[channel], sended + 1, sended + n)
  <2>4. out \in Seq(Byte) /\ Len(out) = n
    <3>1. \A i \in sended + 1 .. sended + n : sendfdBuff[channel][i] \in Byte
      BY <2>1, <2>3 DEF Unsent
    <3>2. out \in Seq(Byte) /\ Len(out) = IF sended + 1 <= sended + n THEN sended + n - (sended + 1) + 1 ELSE 0
      BY <3>1, <2>1, SubSeqProperties
    <3> QED BY <3>2, <2>1
  <2>5. Len(chan[channel] \o out) = Len(chan[channel]) + n
    BY <2>1, <2>2, <2>4, ConcatProperties
  <2> HIDE DEF out
  <2>6. chan'[channel] = chan[channel] \o out /\ \A c \in Channels : c # channel => chan'[c] = chan[c]
    BY <2>1, <2>2, <2>3 DEF out
  <2>7. Len(chan'[channel]) <= cap
    BY <2>1, <2>2, <2>3, <2>5, <2>6
  <2>8. ASSUME NEW c \in Channels PROVE Len(chan'[c]) <= cap
    <3>1. CASE c = channel
      BY <3>1, <2>7
    <3>2. CASE c # channel
      BY <3>2, <2>6 DEF Bounded
    <3> QED BY <3>1, <3>2
  <2> QED
    BY <2>8 DEF Bounded
<1>3. ASSUME NEW c \in Channels, Recv(c) PROVE Bounded(cap)'
  <2>1. PICK k \in 1 .. Len(chan[c]) : chan' = [chan EXCEPT ![c] = SubSeq(@, k + 1, Len(@))]
    BY <1>3, RecvShape
  <2>2. chan \in [Channels -> Seq(Byte)]
    BY DEF Types, WorkerTypes
  <2>3. Len(SubSeq(chan[c], k + 1, Len(chan[c]))) = Len(chan[c]) - k
    BY <2>2, SuffixShape
  <2>4. chan'[c] = SubSeq(chan[c], k + 1, Len(chan[c])) /\ \A d \in Channels : d # c => chan'[d] = chan[d]
    BY <2>1, <2>2
  <2>5. ASSUME NEW d \in Channels PROVE Len(chan'[d]) <= cap
    <3>1. CASE d = c
      <4>1. Len(chan[c]) \in Nat /\ Len(chan[c]) <= cap
        BY <2>2 DEF Bounded
      <4>2. Len(chan'[c]) = Len(chan[c]) - k
        BY <2>3, <2>4
      <4> QED BY <3>1, <4>1, <4>2
    <3>2. CASE d # c
      BY <3>2, <2>4 DEF Bounded
    <3> QED BY <3>1, <3>2
  <2> QED
    BY <2>5 DEF Bounded
<1>4. \/ UNCHANGED chan \/ SendOf(cap, g) \/ \E c \in Channels : Recv(c)
  BY DEF StepOf, Arrive, ListenEvent, Accept, FailOf, ExitOf, Publish, TakeList, NextBatch, Overrun, ListDone,
         SendEnd, Worker, OrderEvent, RecvAssert, RecvEnd, vars
<1> QED
  BY <1>1, <1>2, <1>3, <1>4

-------------------------------------------------------------------------------
(***************************************************************************)
(* No thread sleeps beside its work.                                       *)
(***************************************************************************)
LEMMA WakeupStep ==
  ASSUME Types, NoLostWakeup, NEW cap \in Nat, NEW g, NEW err, StepOf(cap, g, err)
  PROVE  NoLostWakeup'
<1> USE DEF NoLostWakeup
<1>1. (dpc = "waiting" => acceptedFDlist = <<>>)'
  BY DEF StepOf, Arrive, ListenEvent, Accept, FailOf, ExitOf, Publish, TakeList, NextBatch, Overrun, ListDone,
         SendOf, SendEnd, Worker, OrderEvent, Recv, RecvAssert, RecvEnd, vars
<1>2. (\A c \in Channels : wpc[c] = "wait" /\ chan[c] # <<>> => wedge[c])'
  <2>1. CASE UNCHANGED <<wpc, chan, wedge>>
    BY <2>1
  <2>2. CASE SendOf(cap, g)
    <3>1. wedge \in [Channels -> BOOLEAN] /\ chan \in [Channels -> Seq(Byte)] /\ channel \in Channels
      BY ChannelIsOne DEF Types, WorkerTypes, DispatcherTypes
    <3>2. wpc' = wpc /\ wedge' = [wedge EXCEPT ![channel] = TRUE]
      BY <2>2 DEF SendOf, worker
    <3>3. \A c \in Channels : c # channel => chan'[c] = chan[c]
      BY <2>2, <3>1 DEF SendOf
    <3> QED
      BY <3>1, <3>2, <3>3
  <2>3. ASSUME NEW d \in Channels, OrderEvent(d) \/ Recv(d) \/ RecvEnd(d)
        PROVE  (\A c \in Channels : wpc[c] = "wait" /\ chan[c] # <<>> => wedge[c])'
    <3>1. /\ wedge \in [Channels -> BOOLEAN] /\ chan \in [Channels -> Seq(Byte)]
          /\ wpc \in [Channels -> {"wait", "recv"}]
      BY DEF Types, WorkerTypes
    <3>2. CASE OrderEvent(d)
      BY <3>1, <3>2 DEF OrderEvent
    <3>3. CASE Recv(d)
      <4>1. wpc' = wpc /\ wedge' = wedge /\ wpc[d] = "recv"
        BY <3>3 DEF Recv
      <4>2. \A c \in Channels : c # d => chan'[c] = chan[c]
        BY <3>1, <3>3 DEF Recv
      <4> QED
        BY <4>1, <4>2
    <3>4. CASE RecvEnd(d)
      BY <3>1, <3>4 DEF RecvEnd
    <3> QED
      BY <2>3, <3>2, <3>3, <3>4
  <2>4. \/ UNCHANGED <<wpc, chan, wedge>> \/ SendOf(cap, g)
        \/ \E d \in Channels : OrderEvent(d) \/ Recv(d) \/ RecvEnd(d)
    BY DEF StepOf, Arrive, ListenEvent, Accept, FailOf, ExitOf, Publish, TakeList, NextBatch, Overrun, ListDone,
           SendEnd, Worker, RecvAssert, worker, vars
  <2> QED
    BY <2>1, <2>2, <2>3, <2>4
<1> QED
  BY <1>1, <1>2

\* Both kinds of socket make the steps proved about.
LEMMA SocketStep ==
  ASSUME Types, [DispatchNext]_<<sockets, vars>>
  PROVE  /\ sockets' = sockets
         /\ sockets # "whole" => StepOf(ChanCap, Granule, Errors)
         /\ sockets = "whole" => StepOf(WholeCap, IntSize, FALSE)
<1>1. CASE UNCHANGED <<sockets, vars>>
  BY <1>1 DEF StepOf
<1>2. CASE DispatchNext
  <2>1. arrived \in Nat
    BY DEF Types, MainTypes
  <2> QED BY <1>2, <2>1, PartialStep, WholeStep DEF DispatchNext
<1> QED
  BY <1>1, <1>2

LEMMA Capacities == ChanCap \in Nat /\ WholeCap \in Nat
BY DispatchConstants, WholeCapAssumption

LEMMA TypesAlways == DispatchSpec => []Types
<1>1. DispatchInit => Types
  BY InitTypes DEF DispatchInit
<1>2. Types /\ [DispatchNext]_<<sockets, vars>> => Types'
  BY SocketStep, TypesStep, Capacities
<1> QED
  BY <1>1, <1>2, PTL DEF DispatchSpec

\* The dispatcher does not wait with batches in acceptedFDlist, and a worker
\* does not wait with bytes in its socket and no event: neither the broadcast of
\* accept_readfun nor an edge of a socket pair is missed, in any interleaving.
THEOREM NoWakeupIsLost == DispatchSpec => []NoLostWakeup
<1>1. DispatchInit => NoLostWakeup
  BY DEF DispatchInit, Init, NoLostWakeup
<1>2. Types /\ NoLostWakeup /\ [DispatchNext]_<<sockets, vars>> => NoLostWakeup'
  BY SocketStep, WakeupStep, Capacities
<1> QED
  BY <1>1, <1>2, TypesAlways, PTL DEF DispatchSpec

-------------------------------------------------------------------------------
(***************************************************************************)
(* The stream of a channel.  Only a new batch makes it longer, by the      *)
(* bytes of the batch; every other step moves bytes within it.             *)
(***************************************************************************)
\* Concatenation under a name of its own, which the provers do not open.
Cat(s, t) == s \o t

LEMMA CatType ==
  ASSUME NEW S, NEW x \in Seq(S), NEW y \in Seq(S)
  PROVE  Cat(x, y) \in Seq(S)
BY ConcatProperties DEF Cat

LEMMA CatAssoc ==
  ASSUME NEW S, NEW x \in Seq(S), NEW y \in Seq(S), NEW z \in Seq(S)
  PROVE  Cat(Cat(x, y), z) = Cat(x, Cat(y, z))
BY ConcatAssociative DEF Cat

\* A sequence cut in two.
LEMMA Cut ==
  ASSUME NEW S, NEW y \in Seq(S), NEW k \in 0 .. Len(y)
  PROVE  /\ SubSeq(y, 1, k) \in Seq(S) /\ SubSeq(y, k + 1, Len(y)) \in Seq(S)
         /\ Cat(SubSeq(y, 1, k), SubSeq(y, k + 1, Len(y))) = y
<1>1. SubSeq(y, 1, k) \in Seq(S)
  <2>1. \A i \in 1 .. k : y[i] \in S
    OBVIOUS
  <2> QED BY <2>1, SubSeqProperties
<1>2. SubSeq(y, 1, k) \o SubSeq(y, k + 1, Len(y)) = y
  <2>1. 1 \in 1 .. Len(y) + 1 /\ k \in 1 - 1 .. Len(y) /\ Len(y) \in k .. Len(y)
    OBVIOUS
  <2>2. SubSeq(y, 1, k) \o SubSeq(y, k + 1, Len(y)) = SubSeq(y, 1, Len(y))
    BY <2>1, ConcatAdjacentSubSeq
  <2> QED BY <2>2, SubSeqFull
<1> QED BY <1>1, <1>2, SuffixShape DEF Cat

\* Bytes that move from one part of a stream to the next stay at their place.
LEMMA BytesMove ==
  ASSUME NEW S, NEW x \in Seq(S), NEW y \in Seq(S), NEW z \in Seq(S), NEW k \in 0 .. Len(y)
  PROVE  Cat(Cat(x, SubSeq(y, 1, k)), Cat(SubSeq(y, k + 1, Len(y)), z)) = Cat(x, Cat(y, z))
<1> DEFINE a == SubSeq(y, 1, k)
           b == SubSeq(y, k + 1, Len(y))
<1>1. a \in Seq(S) /\ b \in Seq(S) /\ Cat(a, b) = y
  BY Cut
<1> HIDE DEF a, b
<1>2. Cat(b, z) \in Seq(S)
  BY <1>1, CatType
<1>3. Cat(Cat(x, a), Cat(b, z)) = Cat(x, Cat(a, Cat(b, z)))
  BY <1>1, <1>2, CatAssoc
<1>4. Cat(a, Cat(b, z)) = Cat(Cat(a, b), z)
  BY <1>1, CatAssoc
<1> QED BY <1>1, <1>3, <1>4 DEF a, b

LEMMA StreamIs == \A c : Stream(c) = Cat(Cat(delivered[c], chan[c]), ToSend(c))
BY DEF Stream, Cat

LEMMA StreamShape ==
  ASSUME Types, NEW c \in Channels
  PROVE  /\ delivered[c] \in Seq(Byte) /\ chan[c] \in Seq(Byte)
         /\ ToSend(c) \in Seq(Byte) /\ Stream(c) \in Seq(Byte)
         /\ Stream(c) = Cat(delivered[c], Cat(chan[c], ToSend(c)))
         /\ sended = 0 \/ c # channel => ToSend(c) = sendfdBuff[c]
<1>1. delivered[c] \in Seq(Byte) /\ chan[c] \in Seq(Byte) /\ sendfdBuff[c] \in Seq(Byte)
  BY DEF Types, WorkerTypes, DispatcherTypes
<1>2. sended = 0 \/ c # channel => ToSend(c) = sendfdBuff[c]
  <2> SUFFICES ASSUME sended = 0 \/ c # channel PROVE ToSend(c) = sendfdBuff[c]
    OBVIOUS
  <2>1. ToSend(c) = SubSeq(sendfdBuff[c], 1, Len(sendfdBuff[c]))
    BY DEF ToSend
  <2> QED BY <2>1, <1>1, SubSeqFull
<1>3. ToSend(c) \in Seq(Byte)
  <2>1. CASE sended = 0 \/ c # channel
    BY <2>1, <1>1, <1>2
  <2>2. CASE sended # 0 /\ c = channel
    <3>1. sended \in 0 .. Len(sendfdBuff[c])
      BY <2>2, <1>1 DEF Types, DispatcherTypes
    <3> QED BY <3>1, <2>2, <1>1, SuffixShape DEF ToSend
  <2> QED BY <2>1, <2>2
<1>4. Stream(c) \in Seq(Byte) /\ Stream(c) = Cat(delivered[c], Cat(chan[c], ToSend(c)))
  <2>1. Stream(c) = Cat(Cat(delivered[c], chan[c]), ToSend(c))
    BY StreamIs
  <2>2. Cat(delivered[c], chan[c]) \in Seq(Byte)
    BY <1>1, CatType
  <2>3. Cat(Cat(delivered[c], chan[c]), ToSend(c)) \in Seq(Byte)
    BY <2>2, <1>3, CatType
  <2>4. Cat(Cat(delivered[c], chan[c]), ToSend(c)) = Cat(delivered[c], Cat(chan[c], ToSend(c)))
    BY <1>1, <1>3, CatAssoc
  <2> QED BY <2>1, <2>3, <2>4
<1> QED BY <1>1, <1>2, <1>3, <1>4

LEMMA SendKeepsStream ==
  ASSUME Types, Types', NEW cap \in Nat, NEW g, SendOf(cap, g)
  PROVE  \A c \in Channels : Stream(c)' = Stream(c)
<1> SUFFICES ASSUME NEW c \in Channels PROVE Stream(c)' = Stream(c)
  OBVIOUS
<1>1. channel \in Channels /\ channel' = channel /\ sended \in Nat
  BY ChannelIsOne DEF Types, DispatcherTypes, SendOf, channel
<1>2. /\ sendfdBuff' = sendfdBuff /\ delivered' = delivered
      /\ sendfdBuff[channel] \in Seq(Byte) /\ chan \in [Channels -> Seq(Byte)]
  BY <1>1 DEF SendOf, worker, Types, WorkerTypes, DispatcherTypes
<1>3. PICK n \in 1 .. cap :
        /\ n <= Unsent
        /\ chan' = [chan EXCEPT ![channel] =
                     @ \o SubSeq(sendfdBuff[channel], sended + 1, sended + n)]
        /\ sended' = sended + n
  BY DEF SendOf
<1>4. CASE c # channel
  BY <1>4, <1>1, <1>2, <1>3 DEF Stream, ToSend
<1>5. CASE c = channel
  <2> DEFINE b == sendfdBuff[channel]
             out == SubSeq(b, sended + 1, sended + n)
             left == SubSeq(b, sended + n + 1, Len(b))
             all == SubSeq(b, sended + 1, Len(b))
  <2>1. sended + n <= Len(b) /\ Len(b) \in Nat
    BY <1>1, <1>2, <1>3 DEF Unsent
  <2>2. Cat(out, left) = all
    <3>1. /\ sended + 1 \in 1 .. Len(b) + 1 /\ sended + n \in (sended + 1) - 1 .. Len(b)
          /\ Len(b) \in sended + n .. Len(b)
      BY <1>1, <2>1
    <3>2. b \in Seq(Byte)
      BY <1>2
    <3> HIDE DEF b
    <3>3. out \o left = all
      BY <3>1, <3>2, ConcatAdjacentSubSeq
    <3> QED BY <3>3 DEF Cat
  <2>3. ToSend(c) = all /\ ToSend(c)' = left
    BY <1>1, <1>2, <1>3, <1>5 DEF ToSend
  <2>4. out \in Seq(Byte) /\ left \in Seq(Byte)
    <3>1. \A i \in sended + 1 .. sended + n : b[i] \in Byte
      BY <1>1, <1>2, <2>1
    <3>2. \A i \in sended + n + 1 .. Len(b) : b[i] \in Byte
      BY <1>1, <1>2, <2>1
    <3> QED BY <3>1, <3>2, <1>1, <2>1, SubSeqProperties
  <2>5. chan'[c] = Cat(chan[c], out)
    BY <1>1, <1>2, <1>3, <1>5 DEF Cat
  <2>6. delivered[c] \in Seq(Byte) /\ chan[c] \in Seq(Byte)
    BY StreamShape
  <2>7. Stream(c) = Cat(delivered[c], Cat(chan[c], ToSend(c)))
    BY StreamShape
  <2>8. Stream(c)' = Cat(Cat(delivered'[c], chan'[c]), ToSend(c)')
    BY DEF Stream, Cat
  <2> HIDE DEF out, left, all, b
  <2>9. Cat(Cat(chan[c], out), left) = Cat(chan[c], all)
    BY <2>2, <2>4, <2>6, CatAssoc
  <2>10. Cat(Cat(delivered[c], Cat(chan[c], out)), left) = Cat(delivered[c], Cat(Cat(chan[c], out), left))
    <3>1. Cat(chan[c], out) \in Seq(Byte)
      BY <2>4, <2>6, CatType
    <3> QED BY <3>1, <2>4, <2>6, CatAssoc
  <2> QED BY <1>2, <2>3, <2>5, <2>7, <2>8, <2>9, <2>10
<1> QED BY <1>4, <1>5

LEMMA SendEndKeepsStream ==
  ASSUME Types, Types', SendEnd
  PROVE  \A c \in Channels : Stream(c)' = Stream(c)
<1> SUFFICES ASSUME NEW c \in Channels PROVE Stream(c)' = Stream(c)
  OBVIOUS
<1>1. channel \in Channels /\ sendfdBuff \in [Channels -> Seq(Byte)]
  BY ChannelIsOne DEF Types, DispatcherTypes
<1>2. ToSend(c)' = sendfdBuff'[c]
  <2>1. sendfdBuff'[c] \in Seq(Byte) /\ sended' = 0
    BY DEF Types, DispatcherTypes, SendEnd
  <2>2. ToSend(c)' = SubSeq(sendfdBuff'[c], 1, Len(sendfdBuff'[c]))
    BY <2>1 DEF ToSend
  <2> QED BY <2>1, <2>2, SubSeqFull
<1>3. sendfdBuff'[c] = ToSend(c)
  <2>1. CASE c = channel
    BY <2>1, <1>1 DEF SendEnd, ToSend
  <2>2. CASE c # channel
    BY <2>2, <1>1, StreamShape DEF SendEnd
  <2> QED BY <2>1, <2>2
<1> QED BY <1>2, <1>3 DEF Stream, SendEnd, worker

LEMMA RecvKeepsStream ==
  ASSUME Types, Types', NEW d \in Channels, Recv(d)
  PROVE  \A c \in Channels : Stream(c)' = Stream(c)
<1> SUFFICES ASSUME NEW c \in Channels PROVE Stream(c)' = Stream(c)
  OBVIOUS
<1>1. PICK k \in 1 .. Len(chan[d]) :
        /\ delivered' = [delivered EXCEPT ![d] = @ \o SubSeq(chan[d], 1, k)]
        /\ chan' = [chan EXCEPT ![d] = SubSeq(@, k + 1, Len(@))]
  BY RecvShape
<1>2. chan \in [Channels -> Seq(Byte)] /\ delivered \in [Channels -> Seq(Byte)]
  BY DEF Types, WorkerTypes
<1>3. ToSend(c)' = ToSend(c)
  BY DEF Recv, ToSend, dispatcher, channel
<1>4. CASE c # d
  BY <1>1, <1>2, <1>3, <1>4 DEF Stream
<1>5. CASE c = d
  <2>1. /\ delivered'[c] = Cat(delivered[c], SubSeq(chan[c], 1, k))
        /\ chan'[c] = SubSeq(chan[c], k + 1, Len(chan[c]))
    BY <1>1, <1>2, <1>5 DEF Cat
  <2>2. /\ delivered'[c] \in Seq(Byte) /\ chan'[c] \in Seq(Byte)
        /\ ToSend(c) \in Seq(Byte) /\ delivered[c] \in Seq(Byte) /\ chan[c] \in Seq(Byte)
        /\ Stream(c) = Cat(delivered[c], Cat(chan[c], ToSend(c)))
    BY StreamShape DEF Types, WorkerTypes
  <2>3. Stream(c)' = Cat(Cat(delivered'[c], chan'[c]), ToSend(c))
    BY <1>3 DEF Stream, Cat
  <2>4. Cat(Cat(delivered'[c], chan'[c]), ToSend(c)) = Cat(delivered'[c], Cat(chan'[c], ToSend(c)))
    BY <2>2, CatAssoc
  <2>5. k \in 0 .. Len(chan[c])
    BY <1>5, <2>2
  <2>6. Cat(Cat(delivered[c], SubSeq(chan[c], 1, k)), Cat(SubSeq(chan[c], k + 1, Len(chan[c])), ToSend(c)))
          = Cat(delivered[c], Cat(chan[c], ToSend(c)))
    BY <2>2, <2>5, BytesMove
  <2> QED BY <2>1, <2>2, <2>3, <2>4, <2>6
<1> QED BY <1>4, <1>5

LEMMA BatchExtendsStream ==
  ASSUME Types, Types', NextBatch
  PROVE  /\ channel \in Channels /\ Head(paccept) \in Seq(Conns)
         /\ Stream(channel)' = Cat(Stream(channel), Bytes(Head(paccept)))
         /\ \A c \in Channels : c # channel => Stream(c)' = Stream(c)
<1>1. channel \in Channels /\ sendfdBuff \in [Channels -> Seq(Byte)] /\ sended = 0 /\ channel' = channel
  BY ChannelIsOne DEF Types, DispatcherTypes, NextBatch, channel
<1>2. Head(paccept) \in Seq(Conns)
  BY HeadTailProperties DEF NextBatch, Types, DispatcherTypes
<1> DEFINE new == Bytes(Head(paccept))
<1>3. new \in Seq(Byte)
  BY <1>2, BytesShape
<1>4. /\ sendfdBuff' = [sendfdBuff EXCEPT ![channel] = @ \o new] /\ sended' = 0
      /\ chan' = chan /\ delivered' = delivered
  BY DEF NextBatch, worker
<1> HIDE DEF new
<1>5. ASSUME NEW c \in Channels PROVE ToSend(c)' = sendfdBuff'[c] /\ ToSend(c) = sendfdBuff[c]
  <2>1. sendfdBuff'[c] \in Seq(Byte) /\ sended' = 0
    BY <1>4 DEF Types, DispatcherTypes
  <2>2. ToSend(c)' = SubSeq(sendfdBuff'[c], 1, Len(sendfdBuff'[c]))
    BY <2>1 DEF ToSend
  <2> QED BY <2>1, <2>2, SubSeqFull, <1>1, StreamShape
<1>6. \A c \in Channels : c # channel => Stream(c)' = Stream(c)
  BY <1>1, <1>4, <1>5 DEF Stream
<1>7. Stream(channel)' = Cat(Stream(channel), new)
  <2> DEFINE h == Cat(delivered[channel], chan[channel])
             b == sendfdBuff[channel]
  <2>1. h \in Seq(Byte) /\ b \in Seq(Byte)
    BY <1>1, StreamShape, CatType
  <2>2. Stream(channel) = Cat(h, b)
    BY <1>1, <1>5, StreamIs
  <2>3. ToSend(channel)' = Cat(b, new)
    <3>1. ToSend(channel)' = sendfdBuff'[channel]
      BY <1>1, <1>5 DEF ToSend
    <3> QED BY <3>1, <1>1, <1>4 DEF Cat
  <2>4. Stream(channel)' = Cat(h, Cat(b, new))
    <3>1. Stream(channel)' = Cat(Cat(delivered'[channel'], chan'[channel']), ToSend(channel)')
      BY DEF Stream, Cat
    <3> QED BY <3>1, <2>3, <1>1, <1>4
  <2> HIDE DEF h, b
  <2>5. Cat(h, Cat(b, new)) = Cat(Cat(h, b), new)
    BY <2>1, <1>3, CatAssoc
  <2> QED BY <2>2, <2>4, <2>5
<1> QED BY <1>1, <1>2, <1>6, <1>7 DEF new

\* The steps that do not touch a stream at all.
LEMMA StreamCases ==
  ASSUME Types, Types', NEW cap \in Nat, NEW g, NEW err, StepOf(cap, g, err)
  PROVE  NextBatch \/ \A c \in Channels : Stream(c)' = Stream(c)
<1>1. CASE UNCHANGED <<delivered, chan, sendfdBuff, sended, sum>>
  BY <1>1 DEF Stream, ToSend, channel
<1>2. \/ UNCHANGED <<delivered, chan, sendfdBuff, sended, sum>>
      \/ NextBatch \/ SendOf(cap, g) \/ SendEnd \/ \E c \in Channels : Recv(c)
  BY DEF StepOf, Arrive, ListenEvent, Accept, FailOf, ExitOf, Publish, TakeList, Overrun, ListDone,
         Worker, OrderEvent, RecvAssert, RecvEnd, dispatcher, worker, vars
<1> QED
  BY <1>1, <1>2, SendKeepsStream, SendEndKeepsStream, RecvKeepsStream

-------------------------------------------------------------------------------
(***************************************************************************)
(* The stream of a channel is made of the bytes of whole descriptors.      *)
(***************************************************************************)
\* The descriptors whose bytes a stream is made of.
Owners(s) == [i \in 1 .. Len(s) \div IntSize |-> s[(i - 1) * IntSize + 1][1]]
Fds(c) == Owners(Stream(c))

StreamOfFds == \A c \in Channels : Fds(c) \in Seq(Conns) /\ Stream(c) = Bytes(Fds(c))

LEMMA OwnersOfBytes ==
  ASSUME NEW b \in Seq(Conns)
  PROVE  Owners(Bytes(b)) = b
<1>1. Len(Bytes(b)) \div IntSize = Len(b)
  <2>1. Len(Bytes(b)) = Len(b) * IntSize /\ Len(b) \in Nat
    BY BytesShape
  <2>2. 0 \in 0 .. IntSize - 1
    BY Sizes
  <2>3. (Len(b) * IntSize + 0) \div IntSize = Len(b)
    BY <2>1, <2>2, DivModUnique
  <2>4. Len(b) * IntSize + 0 = Len(b) * IntSize
    BY <2>1, Sizes
  <2> QED BY <2>1, <2>3, <2>4
<1>2. \A i \in 1 .. Len(b) : Bytes(b)[(i - 1) * IntSize + 1] = <<b[i], 1>>
  <2>1. 1 \in 1 .. IntSize
    BY Sizes
  <2> QED BY <2>1, BytesShape
<1>3. \A i \in 1 .. Len(b) : Bytes(b)[(i - 1) * IntSize + 1][1] = b[i]
  BY <1>2
<1>4. Owners(Bytes(b)) = [i \in 1 .. Len(b) |-> b[i]]
  BY <1>1, <1>3 DEF Owners
<1> QED BY <1>4

LEMMA EmptyBytes == Bytes(<<>>) = <<>> /\ <<>> \in Seq(Conns)
<1>1. <<>> \in Seq(Conns) /\ Len(<<>>) = 0
  BY EmptySeq
<1>2. Bytes(<<>>) \in Seq(Byte) /\ Len(Bytes(<<>>)) = 0 * IntSize
  BY <1>1, BytesShape
<1>3. 0 * IntSize = 0
  BY Sizes
<1> QED BY <1>1, <1>2, <1>3, EmptySeq

LEMMA StreamInit == Init => StreamOfFds
<1> SUFFICES ASSUME Init, NEW c \in Channels
             PROVE  Fds(c) \in Seq(Conns) /\ Stream(c) = Bytes(Fds(c))
  BY DEF StreamOfFds
<1>1. delivered[c] = <<>> /\ chan[c] = <<>> /\ sendfdBuff[c] = <<>> /\ sended = 0
  BY DEF Init
<1>2. ToSend(c) = <<>>
  BY <1>1, SubSeqEmpty DEF ToSend
<1>3. Stream(c) = <<>>
  BY <1>1, <1>2 DEF Stream
<1> QED BY <1>3, EmptyBytes, OwnersOfBytes DEF Fds

LEMMA StreamStep ==
  ASSUME Types, Types', StreamOfFds, NEW cap \in Nat, NEW g, NEW err, StepOf(cap, g, err)
  PROVE  /\ StreamOfFds'
         /\ NextBatch => Fds(channel)' = Fds(channel) \o Head(paccept)
         /\ NextBatch => \A c \in Channels : c # channel => Fds(c)' = Fds(c)
         /\ ~NextBatch => \A c \in Channels : Fds(c)' = Fds(c)
<1>1. CASE ~NextBatch
  <2>1. \A c \in Channels : Stream(c)' = Stream(c)
    BY <1>1, StreamCases
  <2>2. \A c \in Channels : Fds(c)' = Fds(c)
    BY <2>1 DEF Fds, Owners
  <2>3. \A c \in Channels : Bytes(Fds(c))' = Bytes(Fds(c))
    BY <2>2 DEF Bytes
  <2> QED BY <1>1, <2>1, <2>2, <2>3 DEF StreamOfFds
<1>2. CASE NextBatch
  <2> DEFINE a == Fds(channel)
             b == Head(paccept)
  <2>1. /\ channel \in Channels /\ b \in Seq(Conns)
        /\ Stream(channel)' = Cat(Stream(channel), Bytes(b))
        /\ \A c \in Channels : c # channel => Stream(c)' = Stream(c)
    BY <1>2, BatchExtendsStream
  <2>2. a \in Seq(Conns) /\ Stream(channel) = Bytes(a)
    BY <2>1 DEF StreamOfFds
  <2>3. a \o b \in Seq(Conns) /\ Bytes(a \o b) = Cat(Bytes(a), Bytes(b))
    <3> HIDE DEF a, b
    <3> QED BY <2>1, <2>2, BytesConcat DEF Cat
  <2>4. Stream(channel)' = Bytes(a \o b)
    BY <2>1, <2>2, <2>3
  <2>5. Fds(channel)' = a \o b
    <3> HIDE DEF a, b
    <3>1. Owners(Stream(channel)') = a \o b
      BY <2>3, <2>4, OwnersOfBytes
    <3>2. Fds(channel)' = Owners(Stream(channel)')
      BY DEF Fds, Owners
    <3> QED BY <3>1, <3>2
  <2>6. \A c \in Channels : c # channel => Fds(c)' = Fds(c)
    BY <2>1 DEF Fds, Owners
  <2>7. channel' = channel
    BY <1>2 DEF NextBatch, channel
  <2>8. ASSUME NEW c \in Channels PROVE (Fds(c) \in Seq(Conns) /\ Stream(c) = Bytes(Fds(c)))'
    <3>1. CASE c = channel
      <4>1. Fds(c)' = Fds(channel)' /\ Stream(c)' = Stream(channel)'
        BY <3>1, <2>7 DEF Fds, Stream, ToSend
      <4>2. Bytes(Fds(c))' = Bytes(a \o b)
        BY <4>1, <2>5 DEF Bytes
      <4> QED BY <4>1, <4>2, <2>3, <2>4, <2>5
    <3>2. CASE c # channel
      <4>1. Bytes(Fds(c))' = Bytes(Fds(c)) /\ Fds(c)' = Fds(c) /\ Stream(c)' = Stream(c)
        BY <3>2, <2>1, <2>6 DEF Bytes
      <4> QED BY <4>1 DEF StreamOfFds
    <3> QED BY <3>1, <3>2
  <2>9. StreamOfFds'
    BY <2>8 DEF StreamOfFds
  <2> QED BY <1>2, <2>5, <2>6, <2>9
<1> QED BY <1>1, <1>2

LEMMA StreamOfFdsIsWhole == StreamOfFds => StreamWhole
<1> SUFFICES ASSUME StreamOfFds, NEW c \in Channels
             PROVE  LET s == Stream(c) IN
                    /\ Len(s) % IntSize = 0
                    /\ \A i \in 1 .. Len(s) \div IntSize : \E f \in Conns :
                         \A k \in 1 .. IntSize : s[(i - 1) * IntSize + k] = <<f, k>>
  BY DEF StreamWhole
<1> DEFINE b == Fds(c)
<1>1. b \in Seq(Conns) /\ Stream(c) = Bytes(b)
  BY DEF StreamOfFds
<1> HIDE DEF b
<1>2. Len(Stream(c)) % IntSize = 0 /\ Len(Stream(c)) \div IntSize = Len(b)
  <2>1. Len(Stream(c)) = Len(b) * IntSize /\ Len(b) \in Nat
    BY <1>1, BytesShape
  <2>2. 0 \in 0 .. IntSize - 1
    BY Sizes
  <2>3. (Len(b) * IntSize + 0) \div IntSize = Len(b) /\ (Len(b) * IntSize + 0) % IntSize = 0
    BY <2>1, <2>2, DivModUnique
  <2>4. Len(b) * IntSize + 0 = Len(b) * IntSize
    BY <2>1, Sizes
  <2> QED BY <2>1, <2>3, <2>4
<1>3. ASSUME NEW i \in 1 .. Len(b)
      PROVE  \E f \in Conns : \A k \in 1 .. IntSize : Stream(c)[(i - 1) * IntSize + k] = <<f, k>>
  <2>1. b[i] \in Conns
    BY <1>1
  <2>2. \A k \in 1 .. IntSize : Stream(c)[(i - 1) * IntSize + k] = <<b[i], k>>
    BY <1>1, BytesShape
  <2> QED BY <2>1, <2>2
<1> QED BY <1>2, <1>3

LEMMA StreamOfFdsAlways == DispatchSpec => []StreamOfFds
<1>1. DispatchInit => StreamOfFds
  BY StreamInit DEF DispatchInit
<1>2. Types /\ Types' /\ StreamOfFds /\ [DispatchNext]_<<sockets, vars>> => StreamOfFds'
  BY SocketStep, StreamStep, Capacities
<1> QED
  BY <1>1, <1>2, TypesAlways, PTL DEF DispatchSpec

\* As long as every batch fits the fixed buffer of sendConnectionsToWorker (the
\* model stops at the first that does not), and whatever part of a buffer the
\* socket pair takes at a time, the bytes that went down a channel are those of whole ints in their order: what
\* sendConnectionsToWorker keeps back for the next batch continues where the
\* socket stopped.
THEOREM StreamsAreWhole == DispatchSpec => []StreamWhole
BY StreamOfFdsAlways, StreamOfFdsIsWhole, PTL

-------------------------------------------------------------------------------
(***************************************************************************)
(* Whole transfers: a worker registers what was delivered to it.           *)
(***************************************************************************)
WholeLen(s) == (Len(s) \div IntSize) * IntSize
Rest(s) == SubSeq(s, WholeLen(s) + 1, Len(s))

\* Parts of a concatenation.
LEMMA PartOfFirst ==
  ASSUME NEW S, NEW p \in Seq(S), NEW a \in Seq(S),
         NEW m \in Nat, NEW n \in Nat, m < n, n <= Len(p)
  PROVE  SubSeq(Cat(p, a), m + 1, n) = SubSeq(p, m + 1, n)
<1>1. m + 1 \in 1 .. Len(p) /\ n \in 1 .. Len(p)
  OBVIOUS
<1>2. SubSeq(p \o a, m + 1, n) = SubSeq(p, m + 1, n)
  BY <1>1, SubSeqOfConcat1
<1> QED BY <1>2 DEF Cat

LEMMA PartOfSecond ==
  ASSUME NEW S, NEW p \in Seq(S), NEW a \in Seq(S),
         NEW m \in Nat, NEW n \in Nat, m <= n, n <= Len(a)
  PROVE  SubSeq(Cat(p, a), Len(p) + m + 1, Len(p) + n) = SubSeq(a, m + 1, n)
<1>1. CASE m < n
  <2>1. /\ Len(p) + m + 1 \in Len(p) + 1 .. Len(p) + Len(a)
        /\ Len(p) + n \in Len(p) + 1 .. Len(p) + Len(a)
        /\ Len(p) + m + 1 - Len(p) = m + 1 /\ Len(p) + n - Len(p) = n
    BY <1>1
  <2>2. SubSeq(p \o a, Len(p) + m + 1, Len(p) + n)
          = SubSeq(a, Len(p) + m + 1 - Len(p), Len(p) + n - Len(p))
    BY <2>1, SubSeqOfConcat2
  <2> QED BY <2>1, <2>2 DEF Cat
<1>2. CASE m = n
  <2>1. /\ Len(p) + m + 1 \in Int /\ Len(p) + n \in Int /\ Len(p) + n < Len(p) + m + 1
        /\ m + 1 \in Int /\ n \in Int /\ n < m + 1
    BY <1>2
  <2>2. SubSeq(Cat(p, a), Len(p) + m + 1, Len(p) + n) = <<>> /\ SubSeq(a, m + 1, n) = <<>>
    BY <2>1, SubSeqEmpty
  <2> QED BY <2>2
<1> QED BY <1>1, <1>2

\* The ints of what was received so far, when more is received: those it had and
\* those of its rest together with what is new.
LEMMA IntsContinue ==
  ASSUME NEW d \in Seq(Byte), NEW in \in Seq(Byte)
  PROVE  /\ Rest(d) \in Seq(Byte) /\ Cat(Rest(d), in) \in Seq(Byte)
         /\ Ints(Cat(d, in)) = Cat(Ints(d), Ints(Cat(Rest(d), in)))
         /\ Rest(Cat(d, in)) = Rest(Cat(Rest(d), in))
<1> DEFINE q == Len(d) \div IntSize
           w == WholeLen(d)
           p == SubSeq(d, 1, w)
           all == Cat(Rest(d), in)
           qa == Len(all) \div IntSize
           wa == WholeLen(all)
           t == Cat(d, in)
<1>1. q \in Nat /\ w \in 0 .. Len(d) /\ Len(d) \in Nat /\ w = q * IntSize
  <2>1. Len(d) \in Nat
    OBVIOUS
  <2> QED BY <2>1, DivMod, WholePart DEF WholeLen
<1>2. p \in Seq(Byte) /\ Rest(d) \in Seq(Byte) /\ Cat(p, Rest(d)) = d
  <2> HIDE DEF w
  <2> QED BY <1>1, Cut DEF Rest, w
<1>3. Len(p) = w
  <2> HIDE DEF w
  <2>1. \A i \in 1 .. w : d[i] \in Byte
    BY <1>1
  <2>2. Len(p) = IF 1 <= w THEN w - 1 + 1 ELSE 0
    BY <2>1, <1>1, SubSeqProperties
  <2> QED BY <2>2, <1>1
<1>4. all \in Seq(Byte) /\ t \in Seq(Byte) /\ t = Cat(p, all)
  <2>1. all \in Seq(Byte) /\ t \in Seq(Byte)
    BY <1>2, CatType
  <2> HIDE DEF p
  <2>2. Cat(Cat(p, Rest(d)), in) = Cat(p, Cat(Rest(d), in))
    BY <1>2, CatAssoc
  <2> QED BY <2>1, <2>2, <1>2
<1>5. Len(t) = w + Len(all) /\ Len(all) \in Nat
  <2> HIDE DEF t, p, all, w
  <2>1. Len(Cat(p, all)) = Len(p) + Len(all)
    BY <1>2, <1>4, ConcatProperties DEF Cat
  <2> QED BY <2>1, <1>3, <1>4
<1>6. qa \in Nat /\ wa \in 0 .. Len(all) /\ wa = qa * IntSize
  <2> HIDE DEF all
  <2> QED BY <1>5, DivMod, WholePart DEF WholeLen
<1>7. Len(t) \div IntSize = q + qa /\ WholeLen(t) = w + wa
  <2>1. Len(all) % IntSize \in 0 .. IntSize - 1 /\ Len(all) = wa + (Len(all) % IntSize)
    <3> HIDE DEF all
    <3> QED BY <1>5, DivMod DEF WholeLen
  <2> DEFINE r == Len(all) % IntSize
  <2>2. (q + qa) * IntSize = w + wa
    <3> HIDE DEF q, qa, w, wa
    <3> QED BY <1>1, <1>6, Sizes
  <2>3. (q + qa) * IntSize + r = Len(t)
    <3> HIDE DEF q, qa, w, wa, r, t, all
    <3>1. r \in Nat /\ Len(all) = wa + r
      BY <2>1, Sizes DEF r
    <3> QED BY <1>1, <1>5, <1>6, <2>2, <3>1
  <2>4. Len(t) \div IntSize = q + qa
    <3> HIDE DEF q, qa, w, wa, t, all
    <3>1. q + qa \in Nat /\ r \in 0 .. IntSize - 1
      BY <1>1, <1>6, <2>1
    <3>2. ((q + qa) * IntSize + r) \div IntSize = q + qa
      BY <3>1, DivModUnique
    <3> QED BY <2>3, <3>2
  <2> HIDE DEF t
  <2> QED BY <2>2, <2>4 DEF WholeLen
<1> HIDE DEF w, wa, q, qa, p, all, t
<1>8. Rest(t) = Rest(all)
  <2>1. Rest(t) = SubSeq(t, w + wa + 1, w + Len(all))
    BY <1>5, <1>7 DEF Rest
  <2>2. SubSeq(Cat(p, all), Len(p) + wa + 1, Len(p) + Len(all)) = SubSeq(all, wa + 1, Len(all))
    <3>1. wa \in Nat /\ wa <= Len(all) /\ Len(all) <= Len(all)
      BY <1>5, <1>6
    <3> QED BY <3>1, <1>2, <1>4, <1>5, PartOfSecond
  <2> QED BY <2>1, <2>2, <1>3, <1>4 DEF Rest, wa
<1>9. Ints(t) = Cat(Ints(d), Ints(all))
  <2>1. /\ Ints(d) \in Seq(Seq(Byte)) /\ Len(Ints(d)) = q
        /\ Ints(all) \in Seq(Seq(Byte)) /\ Len(Ints(all)) = qa
        /\ Ints(t) \in Seq(Seq(Byte)) /\ Len(Ints(t)) = q + qa
    BY <1>4, <1>7, IntsShape DEF q, qa
  <2>2. /\ Cat(Ints(d), Ints(all)) \in Seq(Seq(Byte)) /\ Len(Cat(Ints(d), Ints(all))) = q + qa
        /\ \A i \in 1 .. q + qa : Cat(Ints(d), Ints(all))[i] =
              IF i <= q THEN Ints(d)[i] ELSE Ints(all)[i - q]
    BY <2>1, ConcatProperties DEF Cat
  <2>3. ASSUME NEW i \in 1 .. q + qa
        PROVE  Ints(t)[i] = Cat(Ints(d), Ints(all))[i]
    <3> DEFINE m == (i - 1) * IntSize
               n == i * IntSize
    <3>1. m \in Nat /\ m + IntSize = n /\ n \in Nat /\ Ints(t)[i] = SubSeq(t, m + 1, n)
      BY <1>4, <1>7, IntsShape
    <3>2. CASE i <= q
      <4>1. i \in 1 .. Len(d) \div IntSize
        BY <3>2, <1>1, <1>6 DEF q
      <4>2. n <= Len(d) /\ Ints(d)[i] = SubSeq(d, m + 1, n)
        BY <4>1, IntsShape
      <4> HIDE DEF m, n
      <4>3. m < n
        BY <3>1, Sizes
      <4>4. SubSeq(t, m + 1, n) = SubSeq(d, m + 1, n)
        BY <3>1, <4>2, <4>3, PartOfFirst, ZenonT(60) DEF t
      <4> QED BY <3>1, <3>2, <4>2, <4>4, <2>2
    <3>3. CASE i > q
      <4> DEFINE j == i - q
                 mj == (j - 1) * IntSize
                 nj == j * IntSize
      <4>1. j \in 1 .. qa /\ i = q + j
        BY <3>3, <1>1, <1>6
      <4> HIDE DEF j
      <4>2. /\ mj \in Nat /\ mj + IntSize = nj /\ nj \in Nat /\ nj <= Len(all)
            /\ Ints(all)[j] = SubSeq(all, mj + 1, nj)
        BY <4>1, <1>4, IntsShape DEF qa
      <4>3. m = w + mj /\ n = w + nj
        BY <4>1, <1>1, <1>6, Sizes
      <4> HIDE DEF mj, nj, m, n
      <4>4. SubSeq(Cat(p, all), Len(p) + mj + 1, Len(p) + nj) = SubSeq(all, mj + 1, nj)
        <5>1. mj <= nj
          BY <4>2, Sizes
        <5>2. /\ p \in Seq(Byte) /\ all \in Seq(Byte) /\ mj \in Nat /\ nj \in Nat
              /\ nj <= Len(all)
          BY <4>2, <1>2, <1>4
        <5> QED BY <5>1, <5>2, PartOfSecond, Zenon
      <4>5. Ints(t)[i] = Ints(all)[j]
        BY <3>1, <4>2, <4>3, <4>4, <1>3, <1>4
      <4>6. Cat(Ints(d), Ints(all))[i] = Ints(all)[j]
        BY <2>2, <3>3, <1>1 DEF j
      <4> QED BY <4>5, <4>6
    <3> QED BY <3>2, <3>3, <1>1, <1>6
  <2> QED BY <2>1, <2>2, <2>3, SeqEqual
<1> QED BY <1>2, <1>4, <1>8, <1>9 DEF all, t

\* What a worker registered and what is in its buffer are together all that was
\* delivered, and its buffer and its socket together hold whole ints.
WholeInts(n) == \E m \in Nat : n = m * IntSize
Exact(c) ==
  /\ registered[c] = Ints(delivered[c])
  /\ buffer[c] = Rest(delivered[c])
  /\ WholeInts(Len(buffer[c]) + Len(chan[c]))
WorkersExact == ~down /\ \A c \in Channels : Exact(c)

\* Fewer bytes than an int has, but a whole number of ints: none.
LEMMA LessThanAnInt ==
  ASSUME NEW n \in Nat, WholeInts(n), n < IntSize
  PROVE  n = 0
<1>1. PICK m \in Nat : n = m * IntSize
  BY DEF WholeInts
<1>2. CASE m = 0
  BY <1>1, <1>2, Sizes
<1>3. CASE 0 < m
  <2>1. 0 * IntSize + IntSize <= m * IntSize /\ 0 * IntSize \in Nat
    BY <1>3, SizeMonotonic
  <2> QED BY <2>1, <1>1, Sizes
<1> QED BY <1>1, <1>2, <1>3

LEMMA WholeIntsAdd ==
  ASSUME NEW n \in Nat, WholeInts(n), NEW k \in Nat, k % IntSize = 0
  PROVE  WholeInts(n + k)
<1>1. PICK m \in Nat : n = m * IntSize
  BY DEF WholeInts
<1>2. k \div IntSize \in Nat /\ k = ((k \div IntSize) * IntSize) + 0
  BY DivMod
<1>3. PICK l \in Nat : k = l * IntSize
  <2>1. (k \div IntSize) * IntSize \in Nat
    BY <1>2, Sizes
  <2> QED BY <1>2, <2>1
<1>4. n + k = (m + l) * IntSize
  BY <1>1, <1>3, Sizes
<1> QED BY <1>4 DEF WholeInts

LEMMA WholeIntsSubtract ==
  ASSUME NEW n \in Nat, WholeInts(n), NEW l \in Nat, l * IntSize <= n
  PROVE  WholeInts(n - l * IntSize)
<1>1. PICK m \in Nat : n = m * IntSize
  BY DEF WholeInts
<1>2. l <= m
  <2> SUFFICES ASSUME m < l PROVE FALSE
    OBVIOUS
  <2>1. m * IntSize \in Nat /\ m * IntSize + IntSize <= l * IntSize
    BY SizeMonotonic
  <2>2. l * IntSize \in Nat
    BY Sizes
  <2> QED BY <2>1, <2>2, <1>1, Sizes
<1>3. n - l * IntSize = (m - l) * IntSize /\ m - l \in Nat
  BY <1>1, <1>2, Sizes
<1> QED BY <1>3 DEF WholeInts

LEMMA ExactInit == Init => WorkersExact
<1> SUFFICES ASSUME Init, NEW c \in Channels PROVE Exact(c)
  BY DEF WorkersExact, Init
<1>1. /\ delivered[c] = <<>> /\ registered[c] = <<>> /\ buffer[c] = <<>> /\ chan[c] = <<>>
  BY DEF Init
<1>2. 0 \div IntSize = 0 /\ 0 * IntSize = 0
  <2>1. (0 * IntSize + 0) \div IntSize = 0
    BY DivModUnique, Sizes
  <2> QED BY <2>1, Sizes
<1>3. Rest(<<>>) = <<>>
  <2>1. Rest(<<>>) = SubSeq(<<>>, 0 + 1, 0)
    BY <1>2 DEF Rest, WholeLen
  <2> QED BY <2>1, SubSeqEmpty
<1>4. Ints(<<>>) = <<>>
  <2>1. <<>> \in Seq(Byte) /\ Len(<<>>) = 0
    BY EmptySeq
  <2>2. Ints(<<>>) \in Seq(Seq(Byte)) /\ Len(Ints(<<>>)) = 0
    BY <2>1, <1>2, IntsShape
  <2> QED BY <2>2, EmptySeq
<1>5. WholeInts(Len(buffer[c]) + Len(chan[c]))
  BY <1>1, <1>2 DEF WholeInts
<1> QED BY <1>1, <1>3, <1>4, <1>5 DEF Exact

LEMMA ExactSend ==
  ASSUME Types, WorkersExact, NEW cap \in Nat, SendOf(cap, IntSize)
  PROVE  WorkersExact'
<1>1. channel \in Channels /\ sended \in Nat /\ sendfdBuff[channel] \in Seq(Byte)
  BY ChannelIsOne DEF Types, DispatcherTypes
<1>2. chan \in [Channels -> Seq(Byte)] /\ buffer \in [Channels -> Seq(Byte)]
  BY DEF Types, WorkerTypes
<1>3. PICK n \in 1 .. cap :
        /\ n <= Unsent /\ n % IntSize = 0
        /\ chan' = [chan EXCEPT ![channel] =
                     @ \o SubSeq(sendfdBuff[channel], sended + 1, sended + n)]
  BY DEF SendOf
<1> DEFINE out == SubSeq(sendfdBuff[channel], sended + 1, sended + n)
<1>4. out \in Seq(Byte) /\ Len(out) = n
  <2>1. \A i \in sended + 1 .. sended + n : sendfdBuff[channel][i] \in Byte
    BY <1>1, <1>3 DEF Unsent
  <2>2. /\ out \in Seq(Byte)
        /\ Len(out) = IF sended + 1 <= sended + n THEN sended + n - (sended + 1) + 1 ELSE 0
    BY <2>1, <1>1, SubSeqProperties
  <2> QED BY <2>2, <1>1
<1>5. Len(chan[channel] \o out) = Len(chan[channel]) + n
  BY <1>1, <1>2, <1>4, ConcatProperties
<1> HIDE DEF out
<1>6. /\ chan'[channel] = chan[channel] \o out
      /\ \A c \in Channels : c # channel => chan'[c] = chan[c]
  BY <1>1, <1>2, <1>3 DEF out
<1>7. UNCHANGED <<registered, buffer, delivered, down>>
  BY DEF SendOf, worker
<1>8. ASSUME NEW c \in Channels PROVE Exact(c)'
  <2>1. /\ (registered[c] = Ints(delivered[c]))'
        /\ (buffer[c] = Rest(delivered[c]))'
    BY <1>7 DEF WorkersExact, Exact, Ints, Rest, WholeLen
  <2>2. CASE c # channel
    BY <2>1, <2>2, <1>6, <1>7 DEF WorkersExact, Exact, WholeInts
  <2>3. CASE c = channel
    <3> DEFINE l == Len(buffer[c]) + Len(chan[c])
    <3>1. l \in Nat /\ WholeInts(l)
      BY <1>2 DEF WorkersExact, Exact
    <3>2. WholeInts(l + n)
      <4> HIDE DEF l
      <4> QED BY <3>1, <1>3, WholeIntsAdd
    <3>3. Len(buffer'[c]) + Len(chan'[c]) = l + n
      <4>1. Len(buffer'[c]) = Len(buffer[c]) /\ Len(chan'[c]) = Len(chan[c]) + n
        BY <1>5, <1>6, <1>7, <2>3
      <4>2. Len(buffer[c]) \in Nat /\ Len(chan[c]) \in Nat
        BY <1>2
      <4> DEFINE x == Len(buffer[c])
                 y == Len(chan[c])
      <4>3. x \in Nat /\ y \in Nat /\ n \in Nat
        BY <4>2
      <4>4. Len(buffer'[c]) + Len(chan'[c]) = x + (y + n)
        BY <4>1
      <4> HIDE DEF x, y
      <4>5. x + (y + n) = (x + y) + n
        BY <4>3
      <4> QED BY <4>4, <4>5 DEF x, y
    <3>4. WholeInts(Len(buffer'[c]) + Len(chan'[c]))
      BY <3>2, <3>3
    <3> QED BY <2>1, <3>4 DEF Exact, WholeInts
  <2> QED BY <2>2, <2>3
<1> QED BY <1>7, <1>8 DEF WorkersExact

LEMMA ExactRecv ==
  ASSUME Types, WorkersExact, NEW d \in Channels, Recv(d)
  PROVE  WorkersExact'
<1>1. PICK k \in 1 .. Len(chan[d]), in \in Seq(Byte), all \in Seq(Byte) :
          /\ in = SubSeq(chan[d], 1, k) /\ Len(in) = k
          /\ k = Len(chan[d]) \/ k = RecvBuf - Len(buffer[d])
          /\ all = buffer[d] \o in /\ Len(all) = Len(buffer[d]) + k
          /\ registered' = [registered EXCEPT ![d] = @ \o Ints(all)]
          /\ buffer' = [buffer EXCEPT ![d] =
                          SubSeq(all, ((Len(all) \div IntSize) * IntSize) + 1, Len(all))]
          /\ delivered' = [delivered EXCEPT ![d] = @ \o in]
          /\ chan' = [chan EXCEPT ![d] = SubSeq(@, k + 1, Len(@))]
          /\ (Len(all) \div IntSize) * IntSize \in 0 .. Len(all)
  BY RecvShape, Zenon
<1>2. /\ chan \in [Channels -> Seq(Byte)] /\ buffer \in [Channels -> Seq(Byte)]
      /\ delivered \in [Channels -> Seq(Byte)] /\ registered \in [Channels -> Seq(Seq(Byte))]
  BY DEF Types, WorkerTypes
<1>3. ASSUME NEW c \in Channels, c # d PROVE Exact(c)'
  <2>1. /\ registered'[c] = registered[c] /\ buffer'[c] = buffer[c]
        /\ delivered'[c] = delivered[c] /\ chan'[c] = chan[c]
    BY <1>1, <1>2, <1>3
  <2>2. Exact(c)
    BY DEF WorkersExact
  <2> QED BY <2>1, <2>2 DEF Exact, Ints, Rest, WholeLen, WholeInts
<1>4. Exact(d)
  BY DEF WorkersExact
<1>5. /\ registered'[d] = Cat(registered[d], Ints(all)) /\ buffer'[d] = Rest(all)
      /\ delivered'[d] = Cat(delivered[d], in)
      /\ chan'[d] = SubSeq(chan[d], k + 1, Len(chan[d]))
  BY <1>1, <1>2 DEF Cat, Rest, WholeLen
<1>6. all = Cat(Rest(delivered[d]), in)
  BY <1>1, <1>4 DEF Cat, Exact
<1>7. delivered[d] \in Seq(Byte)
  BY <1>2
<1>8. registered'[d] = Ints(delivered'[d]) /\ buffer'[d] = Rest(delivered'[d])
  <2>1. /\ Ints(Cat(delivered[d], in)) = Cat(Ints(delivered[d]), Ints(Cat(Rest(delivered[d]), in)))
        /\ Rest(Cat(delivered[d], in)) = Rest(Cat(Rest(delivered[d]), in))
    BY <1>7, IntsContinue
  <2>2. registered[d] = Ints(delivered[d])
    BY <1>4 DEF Exact
  <2> QED BY <1>5, <1>6, <2>1, <2>2
<1>9. WholeInts(Len(buffer'[d]) + Len(chan'[d]))
  <2> DEFINE b == Len(buffer[d])
             l == Len(chan[d])
             qa == Len(all) \div IntSize
             wa == qa * IntSize
  <2>1. b \in Nat /\ l \in Nat /\ WholeInts(b + l)
    BY <1>2, <1>4 DEF Exact
  <2>2. wa \in 0 .. Len(all) /\ qa \in Nat /\ Len(all) = b + k /\ k <= l
    <3>1. Len(all) \in Nat
      OBVIOUS
    <3>2. qa \in Nat
      BY <3>1, DivMod
    <3> QED BY <1>1, <3>2, <2>1
  <2>3. Len(buffer'[d]) = Len(all) - wa
    <3>1. Len(Rest(all)) = Len(all) - WholeLen(all)
      BY <1>1, SuffixShape DEF Rest, WholeLen
    <3> QED BY <3>1, <1>5 DEF WholeLen
  <2>4. Len(chan'[d]) = l - k
    <3>1. Len(SubSeq(chan[d], k + 1, Len(chan[d]))) = Len(chan[d]) - k
      BY <1>2, SuffixShape
    <3> QED BY <3>1, <1>5
  <2>5. Len(buffer'[d]) + Len(chan'[d]) = b + l - wa /\ wa <= b + l /\ b + l \in Nat
    <3> HIDE DEF b, l, wa, qa
    <3> QED BY <2>1, <2>2, <2>3, <2>4
  <2>6. WholeInts(b + l - wa)
    <3> HIDE DEF b, l, qa
    <3> QED BY <2>1, <2>2, <2>5, WholeIntsSubtract
  <2> QED BY <2>5, <2>6
<1>10. Exact(d)'
  BY <1>8, <1>9 DEF Exact, Ints, Rest, WholeLen, WholeInts
<1>11. down' = down
  BY DEF Recv
<1> QED BY <1>3, <1>10, <1>11 DEF WorkersExact

\* With whole ints in the socket, recv always has one: the assert of
\* readfun_getConnections does not fail, and nothing is in the buffer when the
\* function returns.
LEMMA ExactEnds ==
  ASSUME Types, WorkersExact, NEW d \in Channels
  PROVE  ~RecvAssert(d) /\ (RecvEnd(d) => WorkersExact')
<1> DEFINE b == Len(buffer[d])
           l == Len(chan[d])
<1>1. b \in Nat /\ l \in Nat /\ b < IntSize /\ WholeInts(b + l)
  BY DEF Types, WorkerTypes, WorkersExact, Exact
<1>2. chan[d] \in Seq(Byte) /\ buffer \in [Channels -> Seq(Byte)]
  BY DEF Types, WorkerTypes
<1>3. ASSUME RecvAssert(d) PROVE FALSE
  <2>1. chan[d] # <<>> /\ b + Len(Received(d)) < IntSize
    BY <1>3 DEF RecvAssert
  <2>2. PICK k \in 1 .. l : Len(Received(d)) = k /\ (k = l \/ k = RecvBuf - b)
    BY <2>1, ReceivedShape
  <2> HIDE DEF b, l
  <2>3. CASE k = l
    <3>1. b + l \in Nat /\ b + l < IntSize
      BY <2>1, <2>2, <2>3, <1>1
    <3>2. b + l = 0
      BY <3>1, <1>1, LessThanAnInt
    <3> QED BY <3>2, <2>2, <1>1
  <2>4. CASE k = RecvBuf - b
    BY <2>1, <2>2, <2>4, <1>1, Sizes
  <2> QED BY <2>2, <2>3, <2>4
<1>4. ASSUME RecvEnd(d) PROVE WorkersExact'
  <2>1. l = 0
    BY <1>4 DEF RecvEnd
  <2>2. b = 0
    <3> HIDE DEF b, l
    <3> QED BY <2>1, <1>1, LessThanAnInt
  <2>3. buffer[d] = <<>>
    BY <2>2, <1>2, EmptySeq
  <2>4. buffer' = buffer
    BY <1>4, <2>3, <1>2 DEF RecvEnd
  <2>5. UNCHANGED <<registered, delivered, chan, down>>
    BY <1>4 DEF RecvEnd
  <2> QED BY <2>4, <2>5 DEF WorkersExact, Exact, Ints, Rest, WholeLen, WholeInts
<1> QED BY <1>3, <1>4

LEMMA ExactStep ==
  ASSUME Types, WorkersExact, NEW cap \in Nat, StepOf(cap, IntSize, FALSE)
  PROVE  WorkersExact'
<1>1. CASE UNCHANGED <<registered, delivered, buffer, chan, down>>
  BY <1>1 DEF WorkersExact, Exact, Ints, Rest, WholeLen, WholeInts
<1>2. \/ UNCHANGED <<registered, delivered, buffer, chan, down>>
      \/ SendOf(cap, IntSize) \/ \E c \in Channels : Recv(c) \/ RecvAssert(c) \/ RecvEnd(c)
  BY DEF StepOf, Arrive, ListenEvent, Accept, FailOf, ExitOf, Publish, TakeList, NextBatch, Overrun, ListDone,
         SendEnd, Worker, OrderEvent, worker, vars
<1> QED BY <1>1, <1>2, ExactSend, ExactRecv, ExactEnds

\* The types of the partial and of the whole sockets, as the module states them.
LEMMA TypesImplyTypeOK ==
  /\ Types /\ Bounded(ChanCap) => TypeOK
  /\ Types /\ Bounded(WholeCap) /\ arrived <= WholeConns => Whole!TypeOK
<1>1. Types /\ Bounded(ChanCap) => TypeOK
  BY DEF Types, MainTypes, DispatcherTypes, WorkerTypes, Bounded, TypeOK
<1>2. Types /\ Bounded(WholeCap) /\ arrived <= WholeConns => Whole!TypeOK
  BY DEF Types, MainTypes, DispatcherTypes, WorkerTypes, Bounded, Whole!TypeOK, Whole!channel,
         channel, Whole!Channels, Channels
<1> QED BY <1>1, <1>2

\* What holds of the sockets of one kind only.
ByKind ==
  /\ sockets # "whole" => Bounded(ChanCap)
  /\ sockets = "whole" => Bounded(WholeCap) /\ WorkersExact /\ arrived <= WholeConns

\* The bound on the connections made with whole sockets.
LEMMA WholeArrivals ==
  ASSUME arrived \in Nat, arrived <= WholeConns, Whole!Next
  PROVE  arrived' <= WholeConns
<1>1. WholeConns \in Nat
  BY WholeCapAssumption, DispatchConstants
<1>2. CASE Whole!Arrive
  BY <1>1, <1>2 DEF Whole!Arrive
<1>3. CASE ~Whole!Arrive
  <2>1. arrived' = arrived
    BY <1>3 DEF Whole!Next, Whole!MainThread, Whole!Dispatcher, Whole!Worker, Whole!Quiet, Whole!vars,
                Whole!ListenEvent, Whole!Accept, Whole!AcceptFail, Whole!AcceptExit, Whole!Publish,
                Whole!TakeList, Whole!NextBatch, Whole!Overrun, Whole!ListDone, Whole!Send,
                Whole!SendDone, Whole!OrderEvent, Whole!Recv, Whole!RecvAssert, Whole!RecvEnd
  <2> QED BY <2>1
<1> QED BY <1>2, <1>3

\* While transfers are whole ints, what a worker registers is exactly what was
\* delivered to it, in its order and without an int put together from two, for
\* any size of its buffer, and the assert of readfun_getConnections never ends the
\* process.  The types hold for either kind of socket.
THEOREM WholeIsRegistered == DispatchSpec => []WholeRegistered
<1>1. DispatchInit => ByKind
  <2> SUFFICES ASSUME Init PROVE ByKind
    BY DEF DispatchInit
  <2>1. arrived <= WholeConns
    BY WholeCapAssumption, DispatchConstants DEF Init
  <2> QED BY <2>1, InitTypes, ExactInit, Capacities DEF ByKind
<1>2. Types /\ ByKind /\ [DispatchNext]_<<sockets, vars>> => ByKind'
  <2> SUFFICES ASSUME Types, ByKind, [DispatchNext]_<<sockets, vars>> PROVE ByKind'
    OBVIOUS
  <2>1. CASE sockets = "whole"
    <3>1. arrived' <= WholeConns
      <4>1. arrived \in Nat /\ arrived <= WholeConns
        BY <2>1 DEF Types, MainTypes, ByKind
      <4>2. CASE Whole!Next
        BY <4>1, <4>2, WholeArrivals
      <4>3. CASE UNCHANGED arrived
        BY <4>1, <4>3
      <4> QED BY <2>1, <4>2, <4>3 DEF DispatchNext, vars
    <3> QED BY <2>1, <3>1, SocketStep, BoundedStep, ExactStep, Capacities DEF ByKind
  <2>2. CASE sockets # "whole"
    BY <2>2, SocketStep, BoundedStep, Capacities DEF ByKind
  <2> QED BY <2>1, <2>2
<1>3. Types /\ ByKind => WholeRegistered
  BY TypesImplyTypeOK DEF ByKind, WorkersExact, Exact, WholeRegistered, RegisteredAsDelivered
<1> QED
  BY <1>1, <1>2, <1>3, TypesAlways, PTL DEF DispatchSpec

-------------------------------------------------------------------------------
(***************************************************************************)
(* How often a descriptor occurs: not at all (0), once (1) or more (2), in *)
(* a sequence and in a family of sequences.                                *)
(***************************************************************************)
None(s, f) == \A j \in DOMAIN s : s[j] # f
Once(s, f) == \E j \in DOMAIN s : s[j] = f /\ \A k \in DOMAIN s : s[k] = f => k = j
Occ(s, f) == IF None(s, f) THEN 0 ELSE IF Once(s, f) THEN 1 ELSE 2

NoneOf(B, f) == \A i \in DOMAIN B : None(B[i], f)
OnceOf(B, f) ==
  \E i \in DOMAIN B : Once(B[i], f) /\ \A k \in DOMAIN B : k # i => None(B[k], f)
OccOf(B, f) == IF NoneOf(B, f) THEN 0 ELSE IF OnceOf(B, f) THEN 1 ELSE 2

Sat(n) == IF n <= 1 THEN n ELSE 2

\* The places of a concatenation.
LEMMA CatPlaces ==
  ASSUME NEW S, NEW s \in Seq(S), NEW t \in Seq(S)
  PROVE  /\ \A j \in DOMAIN s : j \in DOMAIN Cat(s, t) /\ Cat(s, t)[j] = s[j]
         /\ \A j \in DOMAIN t : Len(s) + j \in DOMAIN Cat(s, t) /\ Cat(s, t)[Len(s) + j] = t[j]
         /\ \A k \in DOMAIN Cat(s, t) :
               k \in DOMAIN s \/ \E j \in DOMAIN t : k = Len(s) + j
         /\ \A j \in DOMAIN s, k \in DOMAIN t : j # Len(s) + k
         /\ \A j, k \in DOMAIN t : Len(s) + j = Len(s) + k => j = k
<1> DEFINE u == Cat(s, t)
           m == Len(s)
           n == Len(t)
<1>1. /\ m \in Nat /\ n \in Nat /\ DOMAIN s = 1 .. m /\ DOMAIN t = 1 .. n
      /\ DOMAIN u = 1 .. m + n
      /\ \A i \in 1 .. m + n : u[i] = IF i <= m THEN s[i] ELSE t[i - m]
  <2>1. u \in Seq(S) /\ Len(u) = m + n
    BY ConcatProperties DEF Cat
  <2>2. \A i \in 1 .. m + n : u[i] = IF i <= m THEN s[i] ELSE t[i - m]
    BY ConcatProperties DEF Cat
  <2>3. DOMAIN u = 1 .. m + n
    BY <2>1, LenProperties
  <2> QED BY <2>2, <2>3, LenProperties
<1> HIDE DEF u, m, n
<1>2. \A j \in DOMAIN s : j \in DOMAIN u /\ u[j] = s[j]
  BY <1>1
<1>3. \A j \in DOMAIN t : m + j \in DOMAIN u /\ u[m + j] = t[j]
  <2> SUFFICES ASSUME NEW j \in 1 .. n PROVE m + j \in DOMAIN u /\ u[m + j] = t[j]
    BY <1>1
  <2>1. m + j \in 1 .. m + n /\ ~(m + j <= m) /\ (m + j) - m = j
    BY <1>1
  <2> QED BY <2>1, <1>1
<1>4. \A k \in DOMAIN u : k \in DOMAIN s \/ \E j \in DOMAIN t : k = m + j
  <2> SUFFICES ASSUME NEW k \in 1 .. m + n, ~(k \in 1 .. m) PROVE \E j \in 1 .. n : k = m + j
    BY <1>1
  <2>1. k - m \in 1 .. n /\ k = m + (k - m)
    BY <1>1
  <2> QED BY <2>1
<1>5. /\ \A j \in DOMAIN s, k \in DOMAIN t : j # m + k
      /\ \A j, k \in DOMAIN t : m + j = m + k => j = k
  BY <1>1
<1> QED BY <1>2, <1>3, <1>4, <1>5 DEF u, m

LEMMA NoneInCat ==
  ASSUME NEW S, NEW s \in Seq(S), NEW t \in Seq(S), NEW f
  PROVE  None(Cat(s, t), f) <=> None(s, f) /\ None(t, f)
BY CatPlaces DEF None

LEMMA OnceInCat ==
  ASSUME NEW S, NEW s \in Seq(S), NEW t \in Seq(S), NEW f
  PROVE  Once(Cat(s, t), f) <=> (Once(s, f) /\ None(t, f)) \/ (None(s, f) /\ Once(t, f))
<1> DEFINE u == Cat(s, t)
           m == Len(s)
<1>1. /\ \A j \in DOMAIN s : j \in DOMAIN u /\ u[j] = s[j]
      /\ \A j \in DOMAIN t : m + j \in DOMAIN u /\ u[m + j] = t[j]
      /\ \A k \in DOMAIN u : k \in DOMAIN s \/ \E j \in DOMAIN t : k = m + j
      /\ \A j \in DOMAIN s, k \in DOMAIN t : j # m + k
      /\ \A j, k \in DOMAIN t : m + j = m + k => j = k
  BY CatPlaces
<1> HIDE DEF u, m
<1>2. ASSUME Once(u, f) PROVE (Once(s, f) /\ None(t, f)) \/ (None(s, f) /\ Once(t, f))
  <2>1. PICK k \in DOMAIN u : u[k] = f /\ \A l \in DOMAIN u : u[l] = f => l = k
    BY <1>2 DEF Once
  <2>2. CASE k \in DOMAIN s
    BY <2>1, <2>2, <1>1 DEF Once, None
  <2>3. ASSUME NEW j \in DOMAIN t, k = m + j PROVE None(s, f) /\ Once(t, f)
    <3>1. None(s, f)
      BY <2>1, <2>3, <1>1 DEF None
    <3>2. t[j] = f /\ \A l \in DOMAIN t : t[l] = f => l = j
      BY <2>1, <2>3, <1>1
    <3> QED BY <3>1, <3>2 DEF Once
  <2> QED BY <2>1, <2>2, <2>3, <1>1
<1>3. ASSUME Once(s, f), None(t, f) PROVE Once(u, f)
  <2>1. PICK j \in DOMAIN s : s[j] = f /\ \A k \in DOMAIN s : s[k] = f => k = j
    BY <1>3 DEF Once
  <2>2. j \in DOMAIN u /\ u[j] = f /\ \A k \in DOMAIN u : u[k] = f => k = j
    BY <1>1, <1>3, <2>1 DEF None
  <2> QED BY <2>2 DEF Once
<1>4. ASSUME None(s, f), Once(t, f) PROVE Once(u, f)
  <2>1. PICK j \in DOMAIN t : t[j] = f /\ \A k \in DOMAIN t : t[k] = f => k = j
    BY <1>4 DEF Once
  <2>2. m + j \in DOMAIN u /\ u[m + j] = f /\ \A k \in DOMAIN u : u[k] = f => k = m + j
    BY <1>1, <1>4, <2>1 DEF None
  <2> QED BY <2>2 DEF Once
<1> QED BY <1>2, <1>3, <1>4 DEF u

LEMMA OccInCat ==
  ASSUME NEW S, NEW s \in Seq(S), NEW t \in Seq(S), NEW f
  PROVE  Occ(Cat(s, t), f) = Sat(Occ(s, f) + Occ(t, f))
<1>1. None(s, f) => ~Once(s, f)
  BY DEF None, Once
<1>2. None(t, f) => ~Once(t, f)
  BY DEF None, Once
<1> QED BY <1>1, <1>2, NoneInCat, OnceInCat DEF Occ, Sat

LEMMA OccOfOne ==
  ASSUME NEW x, NEW f
  PROVE  Occ(<<x>>, f) = IF x = f THEN 1 ELSE 0
BY DEF Occ, None, Once

LEMMA OccTypes ==
  ASSUME NEW s, NEW f
  PROVE  Occ(s, f) \in 0 .. 2 /\ OccOf(s, f) \in 0 .. 2
BY DEF Occ, OccOf

LEMMA OccOfEmpty ==
  ASSUME NEW f
  PROVE  Occ(<<>>, f) = 0 /\ OccOf(<<>>, f) = 0
BY DEF Occ, None, OccOf, NoneOf

\* The same of families of sequences.
LEMMA NoneOfCat ==
  ASSUME NEW S, NEW B \in Seq(S), NEW C \in Seq(S), NEW f
  PROVE  NoneOf(Cat(B, C), f) <=> NoneOf(B, f) /\ NoneOf(C, f)
BY CatPlaces DEF NoneOf

LEMMA OnceOfCat ==
  ASSUME NEW S, NEW B \in Seq(S), NEW C \in Seq(S), NEW f
  PROVE  OnceOf(Cat(B, C), f) <=>
           (OnceOf(B, f) /\ NoneOf(C, f)) \/ (NoneOf(B, f) /\ OnceOf(C, f))
<1> DEFINE u == Cat(B, C)
           m == Len(B)
<1>1. /\ \A j \in DOMAIN B : j \in DOMAIN u /\ u[j] = B[j]
      /\ \A j \in DOMAIN C : m + j \in DOMAIN u /\ u[m + j] = C[j]
      /\ \A k \in DOMAIN u : k \in DOMAIN B \/ \E j \in DOMAIN C : k = m + j
      /\ \A j \in DOMAIN B, k \in DOMAIN C : j # m + k
      /\ \A j, k \in DOMAIN C : m + j = m + k => j = k
  BY CatPlaces
<1> HIDE DEF u, m
<1>2. ASSUME OnceOf(u, f) PROVE (OnceOf(B, f) /\ NoneOf(C, f)) \/ (NoneOf(B, f) /\ OnceOf(C, f))
  <2>1. PICK k \in DOMAIN u : Once(u[k], f) /\ \A l \in DOMAIN u : l # k => None(u[l], f)
    BY <1>2 DEF OnceOf
  <2>2. CASE k \in DOMAIN B
    <3>1. NoneOf(C, f)
      BY <2>1, <2>2, <1>1 DEF NoneOf
    <3>2. Once(B[k], f) /\ \A l \in DOMAIN B : l # k => None(B[l], f)
      BY <2>1, <2>2, <1>1
    <3> QED BY <2>2, <3>1, <3>2 DEF OnceOf
  <2>3. ASSUME NEW j \in DOMAIN C, k = m + j PROVE NoneOf(B, f) /\ OnceOf(C, f)
    <3>1. NoneOf(B, f)
      BY <2>1, <2>3, <1>1 DEF NoneOf
    <3>2. Once(C[j], f) /\ \A l \in DOMAIN C : l # j => None(C[l], f)
      BY <2>1, <2>3, <1>1
    <3> QED BY <3>1, <3>2 DEF OnceOf
  <2> QED BY <2>1, <2>2, <2>3, <1>1
<1>3. ASSUME OnceOf(B, f), NoneOf(C, f) PROVE OnceOf(u, f)
  <2>1. PICK j \in DOMAIN B : Once(B[j], f) /\ \A k \in DOMAIN B : k # j => None(B[k], f)
    BY <1>3 DEF OnceOf
  <2>2. j \in DOMAIN u /\ Once(u[j], f) /\ \A k \in DOMAIN u : k # j => None(u[k], f)
    BY <1>1, <1>3, <2>1 DEF NoneOf
  <2> QED BY <2>2 DEF OnceOf
<1>4. ASSUME NoneOf(B, f), OnceOf(C, f) PROVE OnceOf(u, f)
  <2>1. PICK j \in DOMAIN C : Once(C[j], f) /\ \A k \in DOMAIN C : k # j => None(C[k], f)
    BY <1>4 DEF OnceOf
  <2>2. m + j \in DOMAIN u /\ Once(u[m + j], f) /\ \A k \in DOMAIN u : k # m + j => None(u[k], f)
    BY <1>1, <1>4, <2>1 DEF NoneOf
  <2> QED BY <2>2 DEF OnceOf
<1> QED BY <1>2, <1>3, <1>4 DEF u

LEMMA OccOfCat ==
  ASSUME NEW S, NEW B \in Seq(S), NEW C \in Seq(S), NEW f
  PROVE  OccOf(Cat(B, C), f) = Sat(OccOf(B, f) + OccOf(C, f))
<1>0. \A b : None(b, f) => ~Once(b, f)
  BY DEF None, Once
<1>1. NoneOf(B, f) => ~OnceOf(B, f)
  BY <1>0 DEF NoneOf, OnceOf
<1>2. NoneOf(C, f) => ~OnceOf(C, f)
  BY <1>0 DEF NoneOf, OnceOf
<1> QED BY <1>1, <1>2, NoneOfCat, OnceOfCat DEF OccOf, Sat

LEMMA OccOfSingle ==
  ASSUME NEW b, NEW f
  PROVE  OccOf(<<b>>, f) = Occ(b, f)
<1>1. NoneOf(<<b>>, f) <=> None(b, f)
  BY DEF NoneOf
<1>2. OnceOf(<<b>>, f) <=> Once(b, f)
  BY DEF OnceOf
<1> QED BY <1>1, <1>2 DEF OccOf, Occ

\* One sequence of a family becomes longer.
Grows(B, G, D, S, c, b) ==
  /\ B \in [D -> Seq(S)] /\ G \in [D -> Seq(S)] /\ c \in D /\ b \in Seq(S)
  /\ G[c] = Cat(B[c], b)
  /\ \A d \in D : d # c => G[d] = B[d]

LEMMA OccOfGrow ==
  ASSUME NEW S, NEW D, NEW B, NEW G, NEW c, NEW b, NEW f, Grows(B, G, D, S, c, b)
  PROVE  OccOf(G, f) = Sat(OccOf(B, f) + Occ(b, f))
<1>0. /\ B \in [D -> Seq(S)] /\ G \in [D -> Seq(S)] /\ c \in D /\ b \in Seq(S)
      /\ G[c] = Cat(B[c], b) /\ \A d \in D : d # c => G[d] = B[d]
  BY DEF Grows
<1>1. c \in D /\ DOMAIN G = D /\ DOMAIN B = D /\ G[c] = Cat(B[c], b) /\ \A d \in D : d # c => G[d] = B[d]
  BY <1>0
<1>2. /\ None(G[c], f) <=> None(B[c], f) /\ None(b, f)
      /\ Once(G[c], f) <=> (Once(B[c], f) /\ None(b, f)) \/ (None(B[c], f) /\ Once(b, f))
  <2>1. B[c] \in Seq(S) /\ b \in Seq(S)
    BY <1>0
  <2> QED BY <1>1, <2>1, NoneInCat, OnceInCat
<1>3. \A s : None(s, f) => ~Once(s, f)
  BY DEF None, Once
<1>4. NoneOf(G, f) <=> NoneOf(B, f) /\ None(b, f)
  BY <1>1, <1>2 DEF NoneOf
<1>5. OnceOf(G, f) <=> (OnceOf(B, f) /\ None(b, f)) \/ (NoneOf(B, f) /\ Once(b, f))
  <2>1. ASSUME OnceOf(G, f) PROVE (OnceOf(B, f) /\ None(b, f)) \/ (NoneOf(B, f) /\ Once(b, f))
    <3>1. PICK i \in D : Once(G[i], f) /\ \A k \in D : k # i => None(G[k], f)
      BY <2>1, <1>1 DEF OnceOf
    <3>2. CASE i = c
      <4>1. \A k \in D : k # c => None(B[k], f)
        BY <3>1, <3>2, <1>1
      <4>2. CASE Once(B[c], f) /\ None(b, f)
        BY <4>1, <4>2, <1>1 DEF OnceOf
      <4>3. CASE None(B[c], f) /\ Once(b, f)
        BY <4>1, <4>3, <1>1 DEF NoneOf
      <4> QED BY <3>1, <3>2, <4>2, <4>3, <1>2
    <3>3. CASE i # c
      <4>1. None(B[c], f) /\ None(b, f)
        BY <3>1, <3>3, <1>1, <1>2
      <4>2. Once(B[i], f) /\ \A k \in D : k # i => None(B[k], f)
        BY <3>1, <3>3, <4>1, <1>1
      <4> QED BY <4>1, <4>2, <1>1 DEF OnceOf
    <3> QED BY <3>2, <3>3
  <2>2. ASSUME OnceOf(B, f), None(b, f) PROVE OnceOf(G, f)
    <3>1. PICK i \in D : Once(B[i], f) /\ \A k \in D : k # i => None(B[k], f)
      BY <2>2, <1>1 DEF OnceOf
    <3>2. Once(G[i], f) /\ \A k \in D : k # i => None(G[k], f)
      BY <3>1, <2>2, <1>1, <1>2
    <3> QED BY <3>2, <1>1 DEF OnceOf
  <2>3. ASSUME NoneOf(B, f), Once(b, f) PROVE OnceOf(G, f)
    <3>1. Once(G[c], f) /\ \A k \in D : k # c => None(G[k], f)
      BY <2>3, <1>1, <1>2 DEF NoneOf
    <3> QED BY <3>1, <1>1 DEF OnceOf
  <2> QED BY <2>1, <2>2, <2>3
<1>6. NoneOf(B, f) => ~OnceOf(B, f)
  BY <1>3 DEF NoneOf, OnceOf
<1> QED BY <1>3, <1>4, <1>5, <1>6 DEF OccOf, Occ, Sat

-------------------------------------------------------------------------------
(***************************************************************************)
(* Every accepted descriptor is in one place: in the batch of the main     *)
(* thread, in the published list, in a batch the dispatcher has taken, or  *)
(* in the stream of a channel.                                             *)
(***************************************************************************)
Waiting == IF dpc = "send" THEN Tail(paccept) ELSE paccept
Streams == [c \in Channels |-> Fds(c)]
Total(f) == Occ(fdBuff, f) + OccOf(acceptedFDlist, f) + OccOf(Waiting, f) + OccOf(Streams, f)
Expected(f) == IF f <= taken /\ f < MAX_FD THEN 1 ELSE 0
EachOnce == \A f \in Conns : Total(f) = Expected(f)

LEMMA TotalTypes ==
  ASSUME NEW f
  PROVE  /\ Occ(fdBuff, f) \in 0 .. 2 /\ OccOf(acceptedFDlist, f) \in 0 .. 2
         /\ OccOf(Waiting, f) \in 0 .. 2 /\ OccOf(Streams, f) \in 0 .. 2
BY OccTypes

LEMMA OnceInit == Init => EachOnce
<1> SUFFICES ASSUME Init, NEW f \in Conns PROVE Total(f) = Expected(f)
  BY DEF EachOnce
<1>1. fdBuff = <<>> /\ acceptedFDlist = <<>> /\ Waiting = <<>> /\ taken = 0
  BY DEF Init, Waiting
<1>2. ASSUME NEW c \in Channels PROVE Fds(c) = <<>>
  <2>1. delivered[c] = <<>> /\ chan[c] = <<>> /\ sendfdBuff[c] = <<>> /\ sended = 0
    BY DEF Init
  <2>2. ToSend(c) = <<>>
    BY <2>1, SubSeqEmpty DEF ToSend
  <2>3. Stream(c) = <<>>
    BY <2>1, <2>2 DEF Stream
  <2> QED BY <2>3, EmptyBytes, OwnersOfBytes DEF Fds
<1>3. OccOf(Streams, f) = 0
  BY <1>2 DEF Streams, OccOf, NoneOf, None
<1>4. Expected(f) = 0
  BY <1>1, Sizes DEF Expected, Conns
<1> QED BY <1>1, <1>3, <1>4, OccOfEmpty DEF Total

LEMMA OnceAccept ==
  ASSUME Types, EachOnce, Accept, Streams' = Streams
  PROVE  EachOnce'
<1> SUFFICES ASSUME NEW f \in Conns PROVE Total(f)' = Expected(f)'
  BY DEF EachOnce
<1>0. MAX_FD \in Nat /\ f \in Nat /\ taken \in Nat
  BY DispatchConstants, Sizes DEF Conns, Types, MainTypes
<1>1. Total(f) = Expected(f)
  BY DEF EachOnce
<1>2. OccOf(acceptedFDlist, f)' = OccOf(acceptedFDlist, f) /\ OccOf(Waiting, f)' = OccOf(Waiting, f)
  <2>1. acceptedFDlist' = acceptedFDlist /\ Waiting' = Waiting
    BY DEF Accept, dispatcher, Waiting
  <2> QED BY <2>1 DEF OccOf, NoneOf, OnceOf, None, Once
<1>3. OccOf(Streams, f)' = OccOf(Streams, f)
  BY DEF OccOf, NoneOf, OnceOf, None, Once
<1>4. CASE taken + 1 >= MAX_FD
  <2>1. fdBuff' = fdBuff /\ taken' = taken + 1
    BY <1>4 DEF Accept
  <2>2. Occ(fdBuff, f)' = Occ(fdBuff, f)
    BY <2>1 DEF Occ, None, Once
  <2>3. Expected(f)' = Expected(f)
    BY <2>1, <1>0, <1>4 DEF Expected
  <2> QED BY <1>1, <1>2, <1>3, <2>2, <2>3 DEF Total
<1>5. CASE ~(taken + 1 >= MAX_FD)
  <2>1. fdBuff' = Append(fdBuff, taken + 1) /\ taken' = taken + 1
    BY <1>5 DEF Accept
  <2>2. taken + 1 \in Conns /\ fdBuff \in Seq(Conns)
    BY Sizes DEF Accept, Types, MainTypes, Conns
  <2>3. fdBuff' = Cat(fdBuff, <<taken + 1>>) /\ <<taken + 1>> \in Seq(Conns)
    BY <2>1, <2>2, AppendIsConcat DEF Cat
  <2>4. Occ(fdBuff', f) = Sat(Occ(fdBuff, f) + (IF taken + 1 = f THEN 1 ELSE 0))
    BY <2>2, <2>3, OccInCat, OccOfOne
  <2>5. Occ(fdBuff, f)' = Occ(fdBuff', f)
    BY DEF Occ, None, Once
  <2>6. CASE taken + 1 = f
    <3>1. Expected(f) = 0 /\ Expected(f)' = 1
      BY <2>1, <2>6, <1>0, <1>5 DEF Expected
    <3> QED BY <3>1, <1>1, <1>2, <1>3, <2>4, <2>5, <2>6, TotalTypes DEF Total, Sat
  <2>7. CASE taken + 1 # f
    <3>1. Expected(f)' = Expected(f)
      BY <2>1, <2>7, <1>0 DEF Expected
    <3>2. Occ(fdBuff, f) <= 1
      BY <1>1, TotalTypes DEF Total, Expected
    <3>3. Occ(fdBuff, f)' = Occ(fdBuff, f)
      BY <3>2, <2>4, <2>5, <2>7, TotalTypes DEF Sat
    <3> QED BY <3>1, <3>3, <1>1, <1>2, <1>3 DEF Total
  <2> QED BY <2>6, <2>7
<1> QED BY <1>4, <1>5

LEMMA OncePublish ==
  ASSUME Types, EachOnce, Publish, Streams' = Streams
  PROVE  EachOnce'
<1> SUFFICES ASSUME NEW f \in Conns PROVE Total(f)' = Expected(f)'
  BY DEF EachOnce
<1>1. Total(f) = Expected(f)
  BY DEF EachOnce
<1>2. fdBuff' = <<>> /\ acceptedFDlist' = Cat(<<fdBuff>>, acceptedFDlist) /\ taken' = taken
  BY DEF Publish, Cat
<1>3. Waiting' = Waiting
  BY DEF Publish, dispatcher, Waiting
<1>4. Occ(fdBuff, f)' = 0
  <2>1. Occ(fdBuff, f)' = Occ(fdBuff', f)
    BY DEF Occ, None, Once
  <2> QED BY <2>1, <1>2, OccOfEmpty
<1>5. OccOf(acceptedFDlist, f)' = Sat(Occ(fdBuff, f) + OccOf(acceptedFDlist, f))
  <2>1. <<fdBuff>> \in Seq(Seq(Conns)) /\ acceptedFDlist \in Seq(Seq(Conns))
    BY DEF Types, MainTypes
  <2>2. OccOf(acceptedFDlist', f) = Sat(OccOf(<<fdBuff>>, f) + OccOf(acceptedFDlist, f))
    BY <2>1, <1>2, OccOfCat
  <2>3. OccOf(acceptedFDlist, f)' = OccOf(acceptedFDlist', f)
    BY DEF OccOf, NoneOf, OnceOf, None, Once
  <2> QED BY <2>2, <2>3, OccOfSingle
<1>6. OccOf(Waiting, f)' = OccOf(Waiting, f) /\ OccOf(Streams, f)' = OccOf(Streams, f)
  BY <1>3 DEF OccOf, NoneOf, OnceOf, None, Once
<1>7. Expected(f)' = Expected(f) /\ Expected(f) \in 0 .. 1
  BY <1>2 DEF Expected
<1> QED BY <1>1, <1>4, <1>5, <1>6, <1>7, TotalTypes DEF Total, Sat

LEMMA OnceTakeList ==
  ASSUME Types, EachOnce, TakeList, Streams' = Streams
  PROVE  EachOnce'
<1> SUFFICES ASSUME NEW f \in Conns PROVE Total(f)' = Expected(f)'
  BY DEF EachOnce
<1>1. Total(f) = Expected(f)
  BY DEF EachOnce
<1>2. /\ Waiting = <<>> /\ Waiting' = acceptedFDlist /\ acceptedFDlist' = <<>>
      /\ fdBuff' = fdBuff /\ taken' = taken
  BY DEF TakeList, acceptor, Waiting, Types, DispatcherTypes
<1>3. OccOf(Waiting, f)' = OccOf(acceptedFDlist, f) /\ OccOf(acceptedFDlist, f)' = OccOf(Waiting, f)
  <2>1. OccOf(Waiting, f)' = OccOf(Waiting', f) /\ OccOf(acceptedFDlist, f)' = OccOf(acceptedFDlist', f)
    BY DEF OccOf, NoneOf, OnceOf, None, Once
  <2> QED BY <2>1, <1>2
<1>4. Occ(fdBuff, f)' = Occ(fdBuff, f) /\ OccOf(Streams, f)' = OccOf(Streams, f)
  BY <1>2 DEF Occ, OccOf, NoneOf, OnceOf, None, Once
<1>5. Expected(f)' = Expected(f)
  BY <1>2 DEF Expected
<1> QED BY <1>1, <1>3, <1>4, <1>5, TotalTypes DEF Total

LEMMA OnceNextBatch ==
  ASSUME Types, EachOnce, NextBatch, StreamOfFds,
         Fds(channel)' = Fds(channel) \o Head(paccept),
         \A c \in Channels : c # channel => Fds(c)' = Fds(c)
  PROVE  EachOnce'
<1> SUFFICES ASSUME NEW f \in Conns PROVE Total(f)' = Expected(f)'
  BY DEF EachOnce
<1>1. Total(f) = Expected(f)
  BY DEF EachOnce
<1> DEFINE b == Head(paccept)
<1>2. /\ Waiting = paccept /\ Waiting' = Tail(paccept) /\ acceptedFDlist' = acceptedFDlist
      /\ fdBuff' = fdBuff /\ taken' = taken
  BY DEF NextBatch, acceptor, Waiting
<1>3. paccept \in Seq(Seq(Conns)) /\ paccept # <<>>
  BY DEF NextBatch, Types, DispatcherTypes
<1>4. b \in Seq(Conns) /\ Tail(paccept) \in Seq(Seq(Conns))
  BY <1>3, HeadTailProperties
<1>5. paccept = Cat(<<b>>, Tail(paccept))
  <2>1. Len(paccept) \in Nat \ {0}
    BY <1>3, EmptySeq
  <2>2. paccept = SubSeq(paccept, 1, Len(paccept))
    BY <1>3, SubSeqFull
  <2>3. SubSeq(paccept, 1, Len(paccept)) = << paccept[1] >> \o SubSeq(paccept, 1 + 1, Len(paccept))
    BY <1>3, <2>1, SubSeqRecursiveFirst
  <2>4. Tail(paccept) = SubSeq(paccept, 2, Len(paccept))
    BY <1>3, TailIsSubSeq
  <2>5. b = paccept[1]
    BY <1>3, <2>1
  <2> QED BY <2>2, <2>3, <2>4, <2>5 DEF Cat
<1>6. OccOf(Waiting, f) = Sat(Occ(b, f) + OccOf(Waiting, f)')
  <2> HIDE DEF b
  <2>1. OccOf(paccept, f) = Sat(OccOf(<<b>>, f) + OccOf(Tail(paccept), f))
    <3> DEFINE t == Tail(paccept)
    <3>1. <<b>> \in Seq(Seq(Conns)) /\ t \in Seq(Seq(Conns)) /\ paccept = Cat(<<b>>, t)
      BY <1>4, <1>5
    <3> HIDE DEF t
    <3>2. OccOf(Cat(<<b>>, t), f) = Sat(OccOf(<<b>>, f) + OccOf(t, f))
      BY <3>1, OccOfCat
    <3> QED BY <3>1, <3>2 DEF t
  <2>2. OccOf(Waiting, f)' = OccOf(Waiting', f)
    BY DEF OccOf, NoneOf, OnceOf, None, Once
  <2> QED BY <2>1, <2>2, <1>2, OccOfSingle
<1>7. OccOf(Streams, f)' = Sat(OccOf(Streams, f) + Occ(b, f))
  <2>1. channel \in Channels /\ channel' = channel
    BY ChannelIsOne DEF Types, DispatcherTypes, NextBatch, channel
  <2>2. Streams \in [Channels -> Seq(Conns)]
    BY DEF Streams, StreamOfFds
  <2>3. Fds(channel)' = Cat(Streams[channel], b)
    BY <2>1 DEF Cat, Streams
  <2>4. \A c \in Channels : Fds(c)' = IF c = channel THEN Cat(Streams[channel], b) ELSE Streams[c]
    <3> SUFFICES ASSUME NEW c \in Channels
                 PROVE  Fds(c)' = IF c = channel THEN Cat(Streams[channel], b) ELSE Streams[c]
      OBVIOUS
    <3>1. CASE c = channel
      <4>1. Fds(c)' = Fds(channel)'
        BY <3>1, <2>1 DEF Fds, Stream, ToSend
      <4> QED BY <4>1, <3>1, <2>3
    <3>2. CASE c # channel
      BY <3>2 DEF Streams
    <3> QED BY <3>1, <3>2
  <2>5. /\ Streams' \in [Channels -> Seq(Conns)]
        /\ Streams'[channel] = Cat(Streams[channel], b)
        /\ \A d \in Channels : d # channel => Streams'[d] = Streams[d]
    <3>1. Streams' = [c \in Channels |-> Fds(c)']
      BY DEF Streams, Channels
    <3>2. Cat(Streams[channel], b) \in Seq(Conns)
      BY <1>4, <2>1, <2>2, CatType
    <3> HIDE DEF b
    <3> QED BY <3>1, <3>2, <2>1, <2>2, <2>4
  <2>6. OccOf(Streams', f) = Sat(OccOf(Streams, f) + Occ(b, f))
    <3> DEFINE old == Streams
               new == Streams'
               ch == channel
    <3>1. Grows(old, new, Channels, Conns, ch, b)
      BY <1>4, <2>1, <2>2, <2>5 DEF Grows
    <3> HIDE DEF old, new, ch, b
    <3>2. OccOf(new, f) = Sat(OccOf(old, f) + Occ(b, f))
      BY <3>1, OccOfGrow
    <3> QED BY <3>2 DEF old, new
  <2>7. OccOf(Streams, f)' = OccOf(Streams', f)
    BY DEF OccOf, NoneOf, OnceOf, None, Once
  <2> QED BY <2>6, <2>7
<1>8. Occ(fdBuff, f)' = Occ(fdBuff, f) /\ OccOf(acceptedFDlist, f)' = OccOf(acceptedFDlist, f)
  BY <1>2 DEF Occ, OccOf, NoneOf, OnceOf, None, Once
<1>9. Expected(f)' = Expected(f) /\ Expected(f) \in 0 .. 1
  BY <1>2 DEF Expected
<1>10. Occ(b, f) \in 0 .. 2 /\ OccOf(Waiting, f)' \in 0 .. 2
  BY OccTypes
<1> HIDE DEF b
<1> QED BY <1>1, <1>6, <1>7, <1>8, <1>9, <1>10, TotalTypes DEF Total, Sat

LEMMA OnceOther ==
  ASSUME EachOnce, UNCHANGED <<fdBuff, taken, acceptedFDlist>>, Waiting' = Waiting, Streams' = Streams
  PROVE  EachOnce'
<1> SUFFICES ASSUME NEW f \in Conns PROVE Total(f)' = Expected(f)'
  BY DEF EachOnce
<1>1. Total(f) = Expected(f)
  BY DEF EachOnce
<1>2. Expected(f)' = Expected(f)
  BY DEF Expected
<1>3. /\ Occ(fdBuff, f)' = Occ(fdBuff, f) /\ OccOf(acceptedFDlist, f)' = OccOf(acceptedFDlist, f)
      /\ OccOf(Waiting, f)' = OccOf(Waiting, f) /\ OccOf(Streams, f)' = OccOf(Streams, f)
  BY DEF Occ, OccOf, NoneOf, OnceOf, None, Once
<1> QED BY <1>1, <1>2, <1>3 DEF Total

LEMMA OnceStep ==
  ASSUME Types, Types', StreamOfFds, EachOnce,
         NEW cap \in Nat, NEW g, NEW err, StepOf(cap, g, err)
  PROVE  EachOnce'
<1>1. CASE NextBatch
  BY <1>1, StreamStep, OnceNextBatch
<1>2. CASE ~NextBatch
  <2>1. Streams' = Streams
    BY <1>2, StreamStep DEF Streams, Channels
  <2>2. CASE Accept \/ Publish \/ TakeList
    BY <2>1, <2>2, OnceAccept, OncePublish, OnceTakeList
  <2>3. CASE ~(Accept \/ Publish \/ TakeList)
    <3>1. UNCHANGED <<fdBuff, taken, acceptedFDlist>>
      BY <1>2, <2>3
         DEF StepOf, Arrive, ListenEvent, FailOf, ExitOf, Overrun, ListDone, SendOf, SendEnd, Worker,
             OrderEvent, Recv, RecvAssert, RecvEnd, acceptor, vars
    <3>2. Waiting' = Waiting
      BY <1>2, <2>3
         DEF StepOf, Arrive, ListenEvent, FailOf, ExitOf, Overrun, ListDone, SendOf, SendEnd, Worker,
             OrderEvent, Recv, RecvAssert, RecvEnd, dispatcher, vars, Waiting
    <3> QED BY <2>1, <3>1, <3>2, OnceOther
  <2> QED BY <2>2, <2>3
<1> QED BY <1>1, <1>2

\* A family in which f occurs at most once has that many places of f.
LEMMA PlacesOfFamily ==
  ASSUME NEW B, NEW f, OccOf(B, f) <= 1
  PROVE  Cardinality({p \in UNION {{i} \X DOMAIN B[i] : i \in DOMAIN B} : B[p[1]][p[2]] = f})
           = OccOf(B, f)
<1> DEFINE P == {p \in UNION {{i} \X DOMAIN B[i] : i \in DOMAIN B} : B[p[1]][p[2]] = f}
<1>1. CASE NoneOf(B, f)
  <2>1. P = {}
    BY <1>1 DEF NoneOf, None
  <2> QED BY <1>1, <2>1, FS_EmptySet DEF OccOf
<1>2. CASE ~NoneOf(B, f)
  <2>1. OnceOf(B, f) /\ OccOf(B, f) = 1
    BY <1>2 DEF OccOf
  <2>2. PICK i \in DOMAIN B : Once(B[i], f) /\ \A k \in DOMAIN B : k # i => None(B[k], f)
    BY <2>1 DEF OnceOf
  <2>3. PICK j \in DOMAIN B[i] : B[i][j] = f /\ \A k \in DOMAIN B[i] : B[i][k] = f => k = j
    BY <2>2 DEF Once
  <2>4. <<i, j>> \in P
    BY <2>3
  <2>5. ASSUME NEW p \in P PROVE p = <<i, j>>
    <3>1. PICK k \in DOMAIN B : p \in {k} \X DOMAIN B[k]
      OBVIOUS
    <3>2. p = <<k, p[2]>> /\ p[2] \in DOMAIN B[k] /\ B[k][p[2]] = f
      BY <3>1
    <3>3. k = i
      BY <3>2, <2>2 DEF None
    <3> QED BY <3>2, <3>3, <2>3
  <2>6. P = {<<i, j>>}
    BY <2>4, <2>5
  <2> QED BY <2>1, <2>6, FS_Singleton
<1> QED BY <1>1, <1>2

\* Every byte of a batch belongs to one of its descriptors.
LEMMA BytesPlaces ==
  ASSUME NEW b \in Seq(Conns), NEW x \in 1 .. Len(b) * IntSize
  PROVE  \E i \in 1 .. Len(b), k \in 1 .. IntSize : x = (i - 1) * IntSize + k
<1> DEFINE q == (x - 1) \div IntSize
           r == (x - 1) % IntSize
           n == Len(b) * IntSize
<1>1. Len(b) \in Nat /\ n \in Nat
  BY Sizes
<1>2. x - 1 \in Nat /\ x <= n
  BY <1>1
<1>3. q \in Nat /\ r \in 0 .. IntSize - 1 /\ x - 1 = (q * IntSize) + r
  BY <1>2, DivMod
<1>4. q < Len(b)
  <2> SUFFICES ASSUME Len(b) <= q PROVE FALSE
    <3> HIDE DEF q
    <3> QED BY <1>1, <1>3
  <2>1. n <= q * IntSize
    <3>1. CASE Len(b) = q
      BY <3>1, <1>1, <1>3, Sizes
    <3>2. CASE Len(b) < q
      <4>1. n + IntSize <= q * IntSize
        <5> HIDE DEF q
        <5> QED BY <3>2, <1>1, <1>3, SizeMonotonic
      <4>2. q * IntSize \in Nat
        BY <1>3, Sizes
      <4> HIDE DEF n, q
      <4> QED BY <4>1, <4>2, <1>1, Sizes
    <3> HIDE DEF q
    <3> QED BY <3>1, <3>2, <1>1, <1>3
  <2>2. q * IntSize \in Nat
    BY <1>3, Sizes
  <2> HIDE DEF n, q, r
  <2> QED BY <2>1, <2>2, <1>1, <1>2, <1>3
<1>5. q + 1 \in 1 .. Len(b) /\ r + 1 \in 1 .. IntSize
  <2> HIDE DEF q, r
  <2> QED BY <1>1, <1>3, <1>4, Sizes
<1>6. x = ((q + 1) - 1) * IntSize + (r + 1)
  <2>1. (q + 1) - 1 = q /\ q * IntSize \in Nat
    BY <1>3, Sizes
  <2> HIDE DEF q, r
  <2> QED BY <2>1, <1>2, <1>3, Sizes
<1> HIDE DEF q, r
<1> QED BY <1>5, <1>6

\* The first bytes of f in the streams are as many as f has places in Streams.
LEMMA PlacesInStreams ==
  ASSUME StreamOfFds, NEW f, OccOf(Streams, f) <= 1
  PROVE  Cardinality({p \in UNION {{c} \X DOMAIN Stream(c) : c \in Channels} :
                        Stream(p[1])[p[2]] = <<f, 1>>}) = OccOf(Streams, f)
<1> DEFINE P == {p \in UNION {{c} \X DOMAIN Stream(c) : c \in Channels} :
                   Stream(p[1])[p[2]] = <<f, 1>>}
<1>1. DOMAIN Streams = Channels /\ \A c \in Channels : Streams[c] = Fds(c)
  BY DEF Streams
<1>2. ASSUME NEW c \in Channels
      PROVE  /\ DOMAIN Fds(c) = 1 .. Len(Fds(c))
             /\ DOMAIN Stream(c) = 1 .. Len(Fds(c)) * IntSize
             /\ Fds(c) \in Seq(Conns) /\ Stream(c) = Bytes(Fds(c))
  <2>1. Fds(c) \in Seq(Conns) /\ Stream(c) = Bytes(Fds(c))
    BY DEF StreamOfFds
  <2>2. Stream(c) \in Seq(Byte) /\ Len(Stream(c)) = Len(Fds(c)) * IntSize
    BY <2>1, BytesShape
  <2> QED BY <2>1, <2>2, LenProperties
<1>3. ASSUME NEW c \in Channels, NEW x \in DOMAIN Stream(c), Stream(c)[x] = <<f, 1>>
      PROVE  \E i \in DOMAIN Fds(c) : Fds(c)[i] = f /\ x = (i - 1) * IntSize + 1
  <2> DEFINE b == Fds(c)
  <2>1. b \in Seq(Conns) /\ x \in 1 .. Len(b) * IntSize /\ Bytes(b)[x] = <<f, 1>> /\ DOMAIN b = 1 .. Len(b)
    BY <1>2, <1>3
  <2> HIDE DEF b
  <2>2. PICK i \in 1 .. Len(b), k \in 1 .. IntSize : x = (i - 1) * IntSize + k
    BY <2>1, BytesPlaces
  <2>3. Bytes(b)[x] = <<b[i], k>>
    BY <2>1, <2>2, BytesShape
  <2>4. b[i] = f /\ k = 1
    BY <2>1, <2>3
  <2>5. i \in DOMAIN b /\ b[i] = f /\ x = (i - 1) * IntSize + 1
    BY <2>1, <2>2, <2>4
  <2> QED BY <2>5 DEF b
<1>4. ASSUME NEW c \in Channels, NEW i \in DOMAIN Fds(c), Fds(c)[i] = f
      PROVE  /\ (i - 1) * IntSize + 1 \in DOMAIN Stream(c)
             /\ Stream(c)[(i - 1) * IntSize + 1] = <<f, 1>>
  <2>1. 1 \in 1 .. IntSize
    BY Sizes
  <2> QED BY <2>1, <1>2, <1>4, BytesShape
<1>5. CASE NoneOf(Streams, f)
  <2>1. ASSUME NEW p \in P PROVE FALSE
    <3>1. PICK c \in Channels : p \in {c} \X DOMAIN Stream(c)
      OBVIOUS
    <3>2. p[1] = c /\ p[2] \in DOMAIN Stream(c) /\ Stream(c)[p[2]] = <<f, 1>>
      BY <3>1
    <3> QED BY <3>2, <1>1, <1>3, <1>5 DEF NoneOf, None
  <2>2. P = {}
    BY <2>1
  <2> QED BY <1>5, <2>2, FS_EmptySet DEF OccOf
<1>6. CASE ~NoneOf(Streams, f)
  <2>1. OnceOf(Streams, f) /\ OccOf(Streams, f) = 1
    BY <1>6 DEF OccOf
  <2>2. PICK c \in Channels : Once(Fds(c), f) /\ \A d \in Channels : d # c => None(Fds(d), f)
    BY <2>1, <1>1 DEF OnceOf
  <2>3. PICK i \in DOMAIN Fds(c) : Fds(c)[i] = f /\ \A k \in DOMAIN Fds(c) : Fds(c)[k] = f => k = i
    BY <2>2 DEF Once
  <2> DEFINE x == (i - 1) * IntSize + 1
  <2>4. <<c, x>> \in P
    BY <2>3, <1>4
  <2>5. ASSUME NEW p \in P PROVE p = <<c, x>>
    <3>1. PICK d \in Channels : p \in {d} \X DOMAIN Stream(d)
      OBVIOUS
    <3>2. p = <<d, p[2]>> /\ p[2] \in DOMAIN Stream(d) /\ Stream(d)[p[2]] = <<f, 1>>
      BY <3>1
    <3>3. PICK k \in DOMAIN Fds(d) : Fds(d)[k] = f /\ p[2] = (k - 1) * IntSize + 1
      BY <3>2, <1>3
    <3>4. d = c
      BY <3>3, <2>2 DEF None
    <3> QED BY <3>2, <3>3, <3>4, <2>3
  <2>6. P = {<<c, x>>}
    BY <2>4, <2>5
  <2> QED BY <2>1, <2>6, FS_Singleton
<1> QED BY <1>5, <1>6

LEMMA OnceIsConserved == Types /\ StreamOfFds /\ EachOnce => Conserved
<1> SUFFICES ASSUME Types, StreamOfFds, EachOnce, NEW f \in Conns
             PROVE  Cardinality({p \in UNION {{i} \X DOMAIN Underway[i] : i \in DOMAIN Underway} :
                                   Underway[p[1]][p[2]] = f})
                    + Cardinality({p \in UNION {{c} \X DOMAIN Stream(c) : c \in Channels} :
                                     Stream(p[1])[p[2]] = <<f, 1>>})
                      = IF f <= taken /\ f < MAX_FD THEN 1 ELSE 0
  <2> DEFINE stream == [c \in Channels |-> Stream(c)]
  <2>1. \A c \in Channels : stream[c] = Stream(c)
    OBVIOUS
  <2> HIDE DEF stream
  <2>2. UNION {{c} \X DOMAIN stream[c] : c \in Channels} = UNION {{c} \X DOMAIN Stream(c) : c \in Channels}
    BY <2>1
  <2>3. \A p \in UNION {{c} \X DOMAIN stream[c] : c \in Channels} : p[1] \in Channels
    OBVIOUS
  <2>4. ASSUME NEW f
        PROVE  {p \in UNION {{c} \X DOMAIN stream[c] : c \in Channels} : stream[p[1]][p[2]] = <<f, 1>>}
               = {p \in UNION {{c} \X DOMAIN Stream(c) : c \in Channels} : Stream(p[1])[p[2]] = <<f, 1>>}
    BY <2>1, <2>2, <2>3
  <2> QED BY <2>4 DEF Conserved, stream
<1>1. Total(f) = Expected(f) /\ Expected(f) \in 0 .. 1
  BY DEF EachOnce, Expected
<1>2. Underway = Cat(Cat(<<fdBuff>>, acceptedFDlist), Waiting)
  BY DEF Underway, Waiting, Cat
<1>3. /\ <<fdBuff>> \in Seq(Seq(Conns)) /\ acceptedFDlist \in Seq(Seq(Conns))
      /\ Waiting \in Seq(Seq(Conns))
  <2>1. Waiting \in Seq(Seq(Conns))
    BY HeadTailProperties DEF Types, DispatcherTypes, Waiting
  <2> QED BY <2>1 DEF Types, MainTypes
<1>4. OccOf(Cat(<<fdBuff>>, acceptedFDlist), f) = Sat(Occ(fdBuff, f) + OccOf(acceptedFDlist, f))
  <2> DEFINE x == <<fdBuff>>
  <2>1. OccOf(x, f) = Occ(fdBuff, f)
    BY OccOfSingle DEF Types, MainTypes
  <2>2. x \in Seq(Seq(Conns))
    BY <1>3
  <2> HIDE DEF x
  <2>3. OccOf(Cat(x, acceptedFDlist), f) = Sat(OccOf(x, f) + OccOf(acceptedFDlist, f))
    BY <2>2, <1>3, OccOfCat
  <2> QED BY <2>1, <2>3 DEF x
<1>5. OccOf(Underway, f) = Sat(OccOf(Cat(<<fdBuff>>, acceptedFDlist), f) + OccOf(Waiting, f))
  <2>1. Cat(<<fdBuff>>, acceptedFDlist) \in Seq(Seq(Conns))
    BY <1>3, CatType
  <2> QED BY <2>1, <1>2, <1>3, OccOfCat
<1>6. /\ OccOf(Underway, f) + OccOf(Streams, f) = Expected(f)
      /\ OccOf(Underway, f) <= 1 /\ OccOf(Streams, f) <= 1
  BY <1>1, <1>4, <1>5, TotalTypes DEF Total, Sat
<1> QED BY <1>6, PlacesOfFamily, PlacesInStreams DEF Expected

\* Until a batch overruns the fixed buffer of sendConnectionsToWorker, where the
\* model stops, every accepted descriptor below MAX_FD is in one place on its way from
\* accept_readfun to a worker, and once there, however accepting, publishing,
\* dispatching, partial sends and receiving interleave; a refused one is nowhere.
THEOREM DescriptorsAreConserved == DispatchSpec => []Conserved
<1>1. DispatchInit => EachOnce
  BY OnceInit DEF DispatchInit
<1>2. Types /\ Types' /\ StreamOfFds /\ EachOnce /\ [DispatchNext]_<<sockets, vars>> => EachOnce'
  BY SocketStep, OnceStep, Capacities
<1> QED
  BY <1>1, <1>2, TypesAlways, StreamOfFdsAlways, OnceIsConserved, PTL DEF DispatchSpec
===============================================================================
