---------------------------- MODULE ProgramsProofs ----------------------------
(***************************************************************************)
(* daemon_SIGHUP.c loses no signal and keeps its interval but for parts of *)
(* a second, for every SLEEP_TIME and any changes of its files.  The       *)
(* heartbeat demos raise no false alarm and notice failures in time, for   *)
(* all timeouts and message sizes and every delay up to the time to wait   *)
(* for an answer.                                                          *)
(***************************************************************************)
EXTENDS MCPrograms, SequenceTheorems, TLAPS

Whole == SLEEP_TIME * Second

\* What r sleeps that were cut short inside a second may have lost.
Loss(r) == r * (Second - 1)

LEMMA Times ==
  /\ SLEEP_TIME \in Nat \ {0} /\ Second \in Nat \ {0} /\ Whole \in Nat \ {0} /\ SLEEP_TIME <= Whole
  /\ Loss(0) = 0
  /\ \A r \in Nat : Loss(r) \in Nat /\ Loss(r + 1) = Loss(r) + (Second - 1)
<1>1. SLEEP_TIME \in Nat \ {0} /\ Second \in Nat \ {0}
  BY DaemonAssumption
<1>2. PICK s \in Nat : Second = s + 1
  BY <1>1
<1>3. SLEEP_TIME * s \in Nat /\ Whole = SLEEP_TIME * s + SLEEP_TIME
  BY <1>1, <1>2 DEF Whole
<1>4. \A r \in Nat : Loss(r) \in Nat /\ Loss(r + 1) = Loss(r) + (Second - 1)
  BY <1>1, <1>2 DEF Loss
<1>5. Loss(0) = 0
  BY <1>1 DEF Loss
<1> QED
  BY <1>1, <1>3, <1>4, <1>5

\* The whole seconds among l ticks of a sleep of n seconds.
LEMMA WholeSeconds ==
  ASSUME NEW n \in Nat, NEW l \in Nat, l <= n * Second
  PROVE  /\ l \div Second \in 0 .. n /\ (l \div Second) * Second \in Nat
         /\ (l \div Second) * Second <= l /\ l <= (l \div Second) * Second + (Second - 1)
         /\ l % Second = 0 => (l \div Second) * Second = l
         /\ l % Second # 0 => l \div Second < n
<1>1. Second \in Nat \ {0}
  BY Times
<1> DEFINE q == l \div Second
           m == l % Second
<1>2. q \in Nat /\ m \in 0 .. Second - 1 /\ l = (q * Second) + m
  BY <1>1
<1> HIDE DEF q, m
<1>3. q * Second \in Nat /\ n * Second \in Nat
  BY <1>1, <1>2
<1>4. \A a, b \in Nat : a <= b => a * Second \in Nat /\ b * Second \in Nat /\ a * Second <= b * Second
  <2> SUFFICES ASSUME NEW a \in Nat, NEW b \in Nat, a <= b PROVE a * Second \in Nat /\ b * Second \in Nat /\ a * Second <= b * Second
    OBVIOUS
  <2>1. PICK d \in Nat : b = a + d
    OBVIOUS
  <2>2. d * Second \in Nat /\ a * Second \in Nat /\ (a + d) * Second = a * Second + d * Second
    BY <1>1
  <2> QED
    BY <2>1, <2>2
<1>5. ASSUME n < q PROVE FALSE
  <2>1. (n + 1) * Second <= q * Second /\ (n + 1) * Second = n * Second + Second
    BY <1>1, <1>2, <1>4, <1>5
  <2> QED
    BY <1>1, <1>2, <1>3, <2>1
<1>6. ASSUME m # 0, n <= q PROVE FALSE
  <2>1. n * Second <= q * Second
    BY <1>2, <1>4, <1>6
  <2> QED
    BY <1>2, <1>3, <1>6, <2>1
<1>7. q \in 0 .. n /\ (m # 0 => q < n)
  BY <1>2, <1>5, <1>6
<1>8. q * Second <= l /\ l <= q * Second + (Second - 1) /\ (m = 0 => q * Second = l)
  BY <1>1, <1>2, <1>3
<1> QED
  BY <1>3, <1>7, <1>8 DEF q, m

LEMMA SumBelow ==
  ASSUME NEW a \in Nat, NEW b \in Nat, NEW n \in Nat, a + b <= n
  PROVE  /\ a \in 0 .. n /\ b \in 0 .. n
         /\ \A c \in Nat : c <= a => c + b <= n
         /\ \A c \in Nat : c < a => c + (b + 1) <= n
OBVIOUS

\* Main is between two sleeps, so that unslept is what is left to sleep.
Awake == pc \in {"sleep", "check", "close", "open", "config", "count"}

\* The interval is kept while main works, too, not only where it sleeps.  Each sleep
\* that was cut short inside a second has lowered unslept.
IntervalEverywhere ==
    /\ unslept + rounded <= SLEEP_TIME
    /\ Awake => NearlyWhole(since + unslept * Second)
    /\ pc = "sleeping" => NearlyWhole(since + left) /\ left <= unslept * Second

DaemonInv == TypeOK /\ NoHupLost /\ IntervalEverywhere

LEMMA NearlyIs ==
  /\ \A t : NearlyWhole(t) <=> t \in Whole - Loss(rounded) .. Whole
  /\ (\A t : NearlyWhole(t) <=> t \in Whole - Loss(rounded) .. Whole)'
BY DEF NearlyWhole, Whole, Loss

LEMMA NearlyWhen ==
  ASSUME NEW t \in Int, Loss(rounded) \in Nat
  PROVE  NearlyWhole(t) <=> Whole - Loss(rounded) <= t /\ t <= Whole
<1>1. NearlyWhole(t) <=> t \in Whole - Loss(rounded) .. Whole
  BY NearlyIs
<1>2. Whole \in Nat
  BY Times
<1> QED
  BY <1>1, <1>2

\* The daemon starts with its log closed and a whole interval before it.
LEMMA DaemonInit == Init => DaemonInv
<1> SUFFICES ASSUME Init PROVE DaemonInv
  OBVIOUS
<1>1. TypeOK
  <2>1. {hupReceived, woken, owed} \subseteq BOOLEAN
    BY DEF Init
  <2>2. {unslept, rounded} \subseteq 0..SLEEP_TIME /\ {config, log} \subseteq 0..MaxChanges
    BY DaemonAssumption DEF Init
  <2>3. {left, since} \subseteq 0 .. SLEEP_TIME * Second
    BY Times DEF Init, Whole
  <2>4. str \in 0..config /\ logfp \in Closed..log
    BY DEF Init, Closed
  <2> QED
    BY <2>1, <2>2, <2>3, <2>4 DEF Init, TypeOK
<1>2. NoHupLost
  BY DEF Init, NoHupLost
<1>3. IntervalEverywhere
  <2>1. since + unslept * Second = Whole
    BY Times DEF Init, Whole
  <2>2. rounded = 0 /\ Whole \in Whole - 0 .. Whole
    BY Times DEF Init
  <2>3. NearlyWhole(since + unslept * Second)
    BY <2>1, <2>2, NearlyIs, Times
  <2> QED
    BY <2>3, Times DEF Init, IntervalEverywhere
<1> QED
  BY <1>1, <1>2, <1>3 DEF DaemonInv

\* A sleep lasts what the interval has left, and returns the whole seconds of what
\* it did not sleep.
LEMMA SleepSteps ==
  ASSUME DaemonInv, Sleep \/ Clock \/ Wake
  PROVE  DaemonInv'
<1> USE DEF DaemonInv
<1>0. /\ {unslept, rounded} \subseteq 0..SLEEP_TIME /\ {left, since} \subseteq 0 .. Whole
      /\ unslept \in Nat /\ rounded \in Nat /\ left \in Nat /\ since \in Nat
      /\ Whole \in Nat /\ SLEEP_TIME \in Nat /\ Second \in Nat \ {0}
      /\ Loss(rounded) \in Nat
  <2>1. SLEEP_TIME \in Nat /\ Second \in Nat \ {0} /\ Whole \in Nat
    BY Times
  <2>2. unslept \in Nat /\ rounded \in Nat /\ left \in Nat /\ since \in Nat
    BY <2>1 DEF TypeOK, Whole
  <2>3. {unslept, rounded} \subseteq 0..SLEEP_TIME /\ {left, since} \subseteq 0 .. Whole
    BY DEF TypeOK, Whole
  <2> QED
    BY <2>1, <2>2, <2>3, Times
<1>1. CASE Sleep
  <2>0. unslept * Second \in Nat /\ NearlyWhole(since + unslept * Second) /\ unslept + rounded <= SLEEP_TIME
    BY <1>0, <1>1, Times DEF Sleep, IntervalEverywhere, Awake
  <2>b. since + unslept * Second <= Whole
    <3>1. since + unslept * Second \in Int
      BY <1>0, <2>0
    <3> QED
      BY <1>0, <2>0, <3>1, NearlyWhen
  <2>1. unslept * Second \in 0 .. Whole
    BY <1>0, <2>0, <2>b, Times
  <2>2. TypeOK'
    BY <1>1, <2>1 DEF Sleep, TypeOK, Whole
  <2>3. NoHupLost'
    BY <1>1 DEF Sleep, NoHupLost
  <2>4. IntervalEverywhere'
    BY <1>1, <2>0 DEF Sleep, IntervalEverywhere, Awake, NearlyWhole
  <2> QED
    BY <2>2, <2>3, <2>4
<1>2. CASE Clock
  <2>0. NearlyWhole(since + left) /\ unslept + rounded <= SLEEP_TIME /\ left <= unslept * Second /\ left > 0
    BY <1>2 DEF Clock, IntervalEverywhere
  <2>c. left' = left - 1 /\ since' = since + 1 /\ since + left \in Int
    BY <1>0, <1>2 DEF Clock
  <2>1. left' = left - 1 /\ since' = since + 1 /\ since' + left' = since + left /\ since + left <= Whole
    BY <1>0, <2>0, <2>c, NearlyWhen
  <2>2. left' \in 0 .. Whole /\ since' \in 0 .. Whole /\ left' <= unslept * Second
    BY <1>0, <2>0, <2>1, Times
  <2>3. TypeOK'
    BY <1>2, <2>2 DEF Clock, TypeOK, Whole
  <2>4. NoHupLost'
    BY <1>2 DEF Clock, NoHupLost
  <2>5. unslept' = unslept /\ rounded' = rounded /\ pc' = "sleeping"
    BY <1>2 DEF Clock
  <2>6. IntervalEverywhere'
    BY <2>0, <2>1, <2>2, <2>5 DEF IntervalEverywhere, Awake, NearlyWhole
  <2> QED
    BY <2>3, <2>4, <2>6
<1>3. CASE Wake
  <2>0. NearlyWhole(since + left) /\ unslept + rounded <= SLEEP_TIME /\ left <= unslept * Second
    BY <1>3 DEF Wake, IntervalEverywhere
  <2>a. pc' = "check" /\ unslept' = left \div Second /\ left' = left /\ since' = since
    BY <1>3 DEF Wake, Unslept
  <2>b. rounded' = IF left % Second = 0 THEN rounded ELSE rounded + 1
    BY <1>3 DEF Wake
  <2>1. /\ unslept' \in 0 .. unslept /\ unslept' * Second \in Nat
        /\ unslept' * Second <= left /\ left <= unslept' * Second + (Second - 1)
        /\ left % Second = 0 => unslept' * Second = left
        /\ left % Second # 0 => unslept' < unslept
    BY <1>0, <2>0, <2>a, WholeSeconds
  <2>d. unslept \in Nat /\ rounded \in Nat /\ SLEEP_TIME \in Nat
    BY <1>0
  <2>e. unslept' \in Nat /\ unslept' <= unslept
    BY <2>1, <2>d
  <2>2. rounded' \in Nat /\ unslept' + rounded' <= SLEEP_TIME /\ unslept' \in Nat
    <3>1. CASE left % Second = 0
      <4>1. rounded' = rounded
        BY <2>b, <3>1
      <4> QED
        BY <2>0, <2>d, <2>e, <4>1, SumBelow
    <3>2. CASE left % Second # 0
      <4>1. rounded' = rounded + 1 /\ unslept' < unslept
        BY <2>1, <2>b, <3>2
      <4>2. unslept' + (rounded + 1) <= SLEEP_TIME
        BY <2>0, <2>d, <2>e, <4>1, SumBelow
      <4>3. rounded' \in Nat
        BY <2>d, <4>1
      <4> QED
        BY <2>e, <4>1, <4>2, <4>3
    <3> QED
      BY <3>1, <3>2
  <2>3. rounded' \in 0 .. SLEEP_TIME /\ unslept' \in 0 .. SLEEP_TIME
    BY <2>2, <2>d, SumBelow
  <2>4. TypeOK'
    BY <1>3, <2>3 DEF Wake, TypeOK
  <2>5. NoHupLost'
    BY <1>3 DEF Wake, NoHupLost
  <2>6. Whole - Loss(rounded) <= since + left /\ since + left <= Whole
    BY <1>0, <2>0, NearlyWhen
  <2>7. Whole - Loss(rounded') <= since' + unslept' * Second
    <3>1. Loss(rounded) \in Nat /\ Loss(rounded + 1) = Loss(rounded) + (Second - 1)
      BY <1>0, Times
    <3>2. CASE left % Second = 0
      BY <1>0, <2>1, <2>6, <2>a, <2>b, <3>1, <3>2, Times
    <3>3. CASE left % Second # 0
      BY <1>0, <2>1, <2>6, <2>a, <2>b, <3>1, <3>3, Times
    <3> QED
      BY <3>2, <3>3
  <2>8. since' + unslept' * Second \in Int /\ since' + unslept' * Second <= Whole
    BY <1>0, <2>1, <2>6, <2>a
  <2>9. NearlyWhole(since + unslept * Second)'
    <3>1. since' + unslept' * Second \in Whole - Loss(rounded') .. Whole
      BY <2>2, <2>7, <2>8, Times
    <3> QED
      BY <3>1, NearlyIs
  <2> QED
    BY <2>2, <2>4, <2>5, <2>9, <2>a DEF IntervalEverywhere
<1> QED
  BY <1>1, <1>2, <1>3

\* The flag is taken before the files are read, so that a signal that comes
\* between leaves it set.
LEMMA ReloadSteps ==
  ASSUME DaemonInv, Check \/ logClose \/ logOpen \/ readConfigFile
  PROVE  DaemonInv'
<1> USE DEF DaemonInv
<1>1. TypeOK'
  <2>1. CASE Check
    BY <2>1 DEF Check, TypeOK
  <2>2. CASE logClose
    BY <2>2 DEF logClose, TypeOK, Closed
  <2>3. CASE logOpen
    BY <2>3, DaemonAssumption DEF logOpen, TypeOK, Closed
  <2>4. CASE readConfigFile
    BY <2>4, DaemonAssumption DEF readConfigFile, FlagKept, TypeOK
  <2> QED
    BY <2>1, <2>2, <2>3, <2>4
<1>2. NoHupLost'
  BY DEF Check, logClose, logOpen, readConfigFile, FlagKept, NoHupLost
<1>3. IntervalEverywhere'
  BY DEF Check, logClose, logOpen, readConfigFile, IntervalEverywhere, Awake, NearlyWhole
<1> QED
  BY <1>1, <1>2, <1>3

\* A new interval begins when nothing is left to sleep of the last one.
LEMMA CountStep ==
  ASSUME DaemonInv, Count
  PROVE  DaemonInv'
<1> USE DEF DaemonInv, Count
<1>1. TypeOK'
  <2>1. {unslept', rounded'} \subseteq 0..SLEEP_TIME
    BY DaemonAssumption DEF TypeOK
  <2>2. {left', since'} \subseteq 0 .. SLEEP_TIME * Second
    BY Times DEF TypeOK, Whole
  <2> QED
    BY <2>1, <2>2 DEF TypeOK
<1>2. NoHupLost'
  BY DEF NoHupLost
<1>3. CASE unslept = 0
  <2>1. since' + unslept' * Second = Whole /\ rounded' = 0 /\ unslept' + rounded' <= SLEEP_TIME
    BY <1>3, Times DEF Whole
  <2>2. Whole \in Whole - Loss(rounded') .. Whole
    BY <2>1, Times
  <2>3. NearlyWhole(since + unslept * Second)'
    BY <2>1, <2>2, NearlyIs
  <2> QED
    BY <1>1, <1>2, <2>1, <2>3 DEF IntervalEverywhere
<1>4. CASE unslept # 0
  <2>1. IntervalEverywhere'
    BY <1>4 DEF IntervalEverywhere, Awake, NearlyWhole
  <2> QED
    BY <1>1, <1>2, <2>1
<1> QED
  BY <1>3, <1>4

\* The administrator changes a file and owes the signal; the handler runs
\* between any two steps of main and sets the flag.
LEMMA OutsideSteps ==
  ASSUME DaemonInv, sighupHandler \/ Change
  PROVE  DaemonInv'
<1> USE DEF DaemonInv
<1>1. TypeOK'
  <2>1. CASE sighupHandler
    BY <2>1 DEF sighupHandler, daemon, TypeOK
  <2>2. CASE Change
    BY <2>2, DaemonAssumption DEF Change, daemon, TypeOK, Closed
  <2> QED
    BY <2>1, <2>2
<1>2. NoHupLost'
  BY DEF sighupHandler, Change, daemon, NoHupLost
<1>3. IntervalEverywhere'
  BY DEF sighupHandler, Change, daemon, IntervalEverywhere, Awake, NearlyWhole
<1> QED
  BY <1>1, <1>2, <1>3

LEMMA DaemonStep ==
  ASSUME DaemonInv, [Next]_vars
  PROVE  DaemonInv'
<1>1. CASE Next
  BY <1>1, SleepSteps, ReloadSteps, CountStep, OutsideSteps DEF Next, Main
<1>2. CASE UNCHANGED vars
  BY <1>2 DEF vars, daemon, DaemonInv, TypeOK, NoHupLost, IntervalEverywhere, Awake, NearlyWhole
<1> QED
  BY <1>1, <1>2

\* A SIGHUP that has come to daemon_SIGHUP.c is acted upon or still will be, in
\* whatever step of the loop it came, and the signals that interrupt a sleep make
\* the interval between two lines of the log shorter by less than a second each.
THEOREM DaemonKeepsHupsAndInterval == ProgramsSpec => []HupsAndInterval
<1>1. ProgramsInit => DaemonInv
  BY DaemonInit DEF ProgramsInit
<1>2. [ProgramsNext]_allVars => [Next]_vars
  BY DEF ProgramsNext, Daemons, Sigios, Beats, Beats2, allVars
<1>3. DaemonInv /\ [ProgramsNext]_allVars => DaemonInv'
  BY <1>2, DaemonStep
<1>4. DaemonInv => HupsAndInterval
  <2>1. DaemonInv /\ pc = "count" /\ unslept = 0 => since + unslept * Second = since
    BY Times DEF DaemonInv, TypeOK
  <2> QED
    BY <2>1 DEF DaemonInv, HupsAndInterval, IntervalEverywhere, IntervalKept, Awake
<1> QED
  BY <1>1, <1>3, <1>4, PTL DEF ProgramsSpec

-------------------------------------------------------------------------------
(***************************************************************************)
(* The heartbeats of heartBeat1.                                           *)
(***************************************************************************)
LEMMA BeatTimes ==
  /\ T1 \in Nat /\ T1 > 0 /\ T2 \in Nat /\ T2 > 0 /\ Size \in Nat /\ Size > 0
  /\ Delay \in Nat /\ Residue \in Nat /\ Delay <= T2 /\ Residue <= T2
BY BeatAssumption

\* The time m waits for an answer take.
Wait(m) == m * T2

LEMMA Waits ==
  /\ Wait(0) = 0 /\ Wait(3) = 3 * T2
  /\ \A m \in 0..3 : Wait(m) \in Nat /\ Wait(m) <= 3 * T2 /\ Wait(3 - m) \in Nat
  /\ \A m \in 0..2 : Wait(m + 1) = Wait(m) + T2 /\ Wait(3 - m) = Wait(3 - (m + 1)) + T2
<1>1. /\ Wait(0) = 0 /\ Wait(1) = T2 /\ Wait(2) = T2 + T2 /\ Wait(3) = T2 + T2 + T2
      /\ Wait(3) = 3 * T2
  BY BeatTimes DEF Wait
<1>2. /\ 3 - 0 = 3 /\ 3 - 1 = 2 /\ 3 - 2 = 1 /\ 3 - 3 = 0 /\ 0 + 1 = 1 /\ 1 + 1 = 2 /\ 2 + 1 = 3
  OBVIOUS
<1>3. 0..3 = {0, 1, 2, 3} /\ 0..2 = {0, 1, 2}
  OBVIOUS
<1> HIDE DEF Wait
<1> QED
  BY <1>1, <1>2, <1>3, BeatTimes

\* The bytes m of a message are its first ones.
Begun(m) == \A k \in DOMAIN m : m[k].place = k /\ m[k].type # "fin" /\ m[k].type = m[1].type

\* What is under way to a side that has the bytes m of a message: their message
\* is continued, messages follow one another whole, and an end comes last.
Frames(m, n) ==
    /\ \A k \in DOMAIN n : n[k].type = "fin" => k = Len(n)
    /\ n # <<>> /\ n[1].type # "fin" =>
          n[1].place = Len(m) + 1 /\ (m # <<>> => n[1].type = m[1].type)
    /\ n = <<>> \/ n[1].type = "fin" => m = <<>>
    /\ \A k \in DOMAIN n : n[k].type # "fin" =>
          \A i \in 0..(Size - n[k].place) :
             k + i \in DOMAIN n /\ n[k + i].place = n[k].place + i /\ n[k + i].type = n[k].type
    /\ \A k \in DOMAIN n :
          n[k].type # "fin" /\ n[k].place = Size /\ k < Len(n) /\ n[k + 1].type # "fin" =>
          n[k + 1].place = 1

HasFin(n) == n # <<>> /\ n[Len(n)].type = "fin"

LEMMA ByteParts ==
  \A b \in Beat!Byte : b.place \in 1..Size /\ b.age \in 0..Delay /\ b.type \in {"data", "heartbeat", "fin"}
BY DEF Beat!Byte

LEMMA MessageShape ==
  ASSUME NEW type \in {"data", "heartbeat"}
  PROVE  /\ Beat!Message(type) \in Seq(Beat!Byte) /\ Len(Beat!Message(type)) = Size
         /\ \A k \in 1..Size : /\ Beat!Message(type)[k].place = k
                               /\ Beat!Message(type)[k].type = type
                               /\ Beat!Message(type)[k].age = 0
BY BeatTimes DEF Beat!Message, Beat!Byte

LEMMA FinShape ==
  /\ Beat!Fin \in Seq(Beat!Byte) /\ Len(Beat!Fin) = 1
  /\ Beat!Fin[1].type = "fin" /\ Beat!Fin[1].age = 0
BY BeatTimes DEF Beat!Fin, Beat!Byte

\* What is put behind n, and its elements.
Cat(n, b) == n \o b
Joined(S, n, b, u) ==
    /\ u \in Seq(S) /\ Len(u) = Len(n) + Len(b) /\ Len(n) \in Nat /\ Len(b) \in Nat
    /\ DOMAIN n = 1..Len(n) /\ DOMAIN u = 1..Len(u)
    /\ \A k \in 1..Len(n) : u[k] = n[k]
    /\ \A k \in 1..Len(b) : u[Len(n) + k] = b[k]

LEMMA Behind ==
  ASSUME NEW S, NEW n \in Seq(S), NEW b \in Seq(S)
  PROVE  Joined(S, n, b, Cat(n, b))
<1> USE DEF Cat, Joined
<1>1. Len(n) \in Nat /\ Len(b) \in Nat
  OBVIOUS
<1>2. n \o b \in Seq(S) /\ Len(n \o b) = Len(n) + Len(b)
  BY ConcatProperties
<1>3. \A k \in 1..Len(n) + Len(b) : (n \o b)[k] = IF k <= Len(n) THEN n[k] ELSE b[k - Len(n)]
  BY <1>2, ConcatProperties
<1> QED
  BY <1>1, <1>2, <1>3

LEMMA NoFinInside ==
  ASSUME NEW m, NEW n \in Seq(Beat!Byte), Frames(m, n), ~HasFin(n)
  PROVE  \A k \in DOMAIN n : n[k].type # "fin"
BY DEF Frames, HasFin

\* A message behind whole ones.
LEMMA FramesMessage ==
  ASSUME NEW m \in Seq(Beat!Byte), NEW n \in Seq(Beat!Byte), Frames(m, n), ~HasFin(n),
         NEW type \in {"data", "heartbeat"}
  PROVE  Frames(m, Cat(n, Beat!Message(type))) /\ ~HasFin(Cat(n, Beat!Message(type)))
<1> DEFINE b == Beat!Message(type)
           u == Cat(n, b)
<1>1. /\ b \in Seq(Beat!Byte) /\ Len(b) = Size
      /\ \A k \in 1..Size : b[k].place = k /\ b[k].type = type
  BY MessageShape
<1> HIDE DEF b
<1>2. /\ u \in Seq(Beat!Byte) /\ Len(u) = Len(n) + Size /\ Len(n) \in Nat
      /\ DOMAIN n = 1..Len(n) /\ DOMAIN u = 1..Len(u)
      /\ \A k \in 1..Len(n) : u[k] = n[k]
      /\ \A k \in 1..Size : u[Len(n) + k] = b[k]
  <2>1. Joined(Beat!Byte, n, b, u)
    BY <1>1, Behind
  <2> QED
    BY <2>1, <1>1 DEF Joined
<1> HIDE DEF u
<1>3. \A k \in 1..Len(n) : n[k].type # "fin" /\ n[k].place \in 1..Size
  BY NoFinInside, ByteParts
<1>4. \A k \in 1..Len(u) :
        \/ k \in 1..Len(n) /\ u[k] = n[k]
        \/ \E j \in 1..Size : k = Len(n) + j /\ u[k].place = j /\ u[k].type = type
  <2> SUFFICES ASSUME NEW k \in 1..Len(u), ~(k \in 1..Len(n))
               PROVE  \E j \in 1..Size : k = Len(n) + j /\ u[k].place = j /\ u[k].type = type
    BY <1>2, Zenon
  <2>1. k - Len(n) \in 1..Size /\ k = Len(n) + (k - Len(n))
    BY <1>2, BeatTimes
  <2> QED
    BY <2>1, <1>1, <1>2
<1>5. n # <<>> => n[Len(n)].place = Size
  <2> SUFFICES ASSUME n # <<>> PROVE n[Len(n)].place = Size
    OBVIOUS
  <2>1. Len(n) \in 1..Len(n)
    BY <1>2
  <2> DEFINE i == Size - n[Len(n)].place
  <2>2. i \in 0..(Size - n[Len(n)].place)
    BY <2>1, <1>3, BeatTimes
  <2>3. Len(n) + i \in DOMAIN n
    BY <2>1, <2>2, <1>3 DEF Frames
  <2> QED
    BY <2>1, <2>3, <1>2, <1>3, BeatTimes
<1>6. ASSUME NEW k \in 1..Len(u), NEW i \in 0..(Size - u[k].place)
      PROVE  k + i \in DOMAIN u /\ u[k + i].place = u[k].place + i /\ u[k + i].type = u[k].type
  <2>1. CASE k \in 1..Len(n) /\ u[k] = n[k]
    <3>1. k + i \in 1..Len(n) /\ n[k + i].place = n[k].place + i /\ n[k + i].type = n[k].type
      BY <2>1, <1>3 DEF Frames
    <3>2. k + i \in 1..Len(u) /\ u[k + i] = n[k + i]
      BY <3>1, <1>2, BeatTimes
    <3> QED
      BY <3>1, <3>2, <2>1, <1>2
  <2>2. ASSUME NEW j \in 1..Size, k = Len(n) + j, u[k].place = j, u[k].type = type
        PROVE  k + i \in DOMAIN u /\ u[k + i].place = u[k].place + i /\ u[k + i].type = u[k].type
    <3>1. j + i \in 1..Size /\ k + i = Len(n) + (j + i)
      BY <2>2, <1>2, BeatTimes
    <3>2. u[k + i] = b[j + i] /\ b[j + i].place = j + i /\ b[j + i].type = type
      BY <3>1, <1>1, <1>2
    <3>3. k + i \in 1..Len(u)
      BY <3>1, <1>2, BeatTimes
    <3> QED
      BY <2>2, <3>2, <3>3, <1>2
  <2> QED
    BY <2>1, <2>2, <1>4
<1>7. ASSUME NEW k \in 1..Len(u), u[k].place = Size, k < Len(u)
      PROVE  u[k + 1].place = 1
  <2>1. CASE k < Len(n)
    <3>1. k \in DOMAIN n /\ k + 1 \in 1..Len(n) /\ u[k] = n[k] /\ u[k + 1] = n[k + 1]
      BY <2>1, <1>2
    <3>2. n[k].type # "fin" /\ n[k + 1].type # "fin" /\ n[k].place = Size
      BY <3>1, <1>2, <1>3, <1>7
    <3> QED
      BY <2>1, <3>1, <3>2 DEF Frames
  <2>2. CASE k = Len(n)
    <3>1. 1 \in 1..Size
      BY BeatTimes
    <3>2. u[Len(n) + 1] = b[1] /\ b[1].place = 1
      BY <3>1, <1>1, <1>2
    <3> QED
      BY <2>2, <3>2
  <2>3. CASE k > Len(n)
    <3>1. PICK j \in 1..Size : k = Len(n) + j /\ u[k].place = j
      BY <2>3, <1>2, <1>4
    <3> QED
      BY <3>1, <1>2, <1>7
  <2>4. k \in Nat /\ Len(n) \in Nat
    BY <1>2
  <2> QED
    BY <2>1, <2>2, <2>3, <2>4
<1>8. u # <<>> /\ (\A k \in 1..Len(u) : u[k].type # "fin")
  <2>1. u # <<>>
    BY <1>2, BeatTimes
  <2> QED
    BY <2>1, <1>3, <1>4
<1>9. u[1].place = Len(m) + 1 /\ (m # <<>> => u[1].type = m[1].type)
  <2>1. CASE n = <<>>
    <3>1. m = <<>> /\ Len(m) = 0 /\ u[1].place = 1
      BY <2>1, <1>1, <1>2, BeatTimes DEF Frames
    <3> QED
      BY <3>1
  <2>2. CASE n # <<>>
    BY <2>2, <1>2, <1>3 DEF Frames
  <2> QED
    BY <2>1, <2>2
<1>10. Frames(m, u)
  BY <1>2, <1>6, <1>7, <1>8, <1>9 DEF Frames
<1> QED
  BY <1>2, <1>8, <1>10 DEF HasFin, u, b

\* The end behind whole messages.
LEMMA FramesEnd ==
  ASSUME NEW m \in Seq(Beat!Byte), NEW n \in Seq(Beat!Byte), Frames(m, n), ~HasFin(n)
  PROVE  Frames(m, Cat(n, Beat!Fin)) /\ HasFin(Cat(n, Beat!Fin))
<1> DEFINE b == Beat!Fin
           u == Cat(n, b)
<1>1. b \in Seq(Beat!Byte) /\ Len(b) = 1 /\ b[1].type = "fin"
  BY FinShape
<1> HIDE DEF b
<1>2. Joined(Beat!Byte, n, b, u)
  BY <1>1, Behind
<1> HIDE DEF u
<1>3. /\ u \in Seq(Beat!Byte) /\ Len(u) = Len(n) + 1 /\ Len(n) \in Nat
      /\ DOMAIN n = 1..Len(n) /\ DOMAIN u = 1..Len(u)
      /\ \A k \in 1..Len(n) : u[k] = n[k]
      /\ u[Len(n) + 1].type = "fin"
  BY <1>1, <1>2 DEF Joined
<1>4. \A k \in 1..Len(n) : n[k].type # "fin" /\ n[k].place \in 1..Size
  BY NoFinInside, ByteParts, <1>3
<1>5. ASSUME NEW k \in 1..Len(u), u[k].type # "fin"
      PROVE  k \in 1..Len(n) /\ u[k] = n[k]
  BY <1>5, <1>3
<1>6. ASSUME NEW k \in 1..Len(u), u[k].type # "fin", NEW i \in 0..(Size - u[k].place)
      PROVE  k + i \in DOMAIN u /\ u[k + i].place = u[k].place + i /\ u[k + i].type = u[k].type
  <2>1. k \in 1..Len(n) /\ u[k] = n[k]
    BY <1>5, <1>6
  <2>2. k + i \in 1..Len(n) /\ n[k + i].place = n[k].place + i /\ n[k + i].type = n[k].type
    <3>1. k \in DOMAIN n /\ n[k].type # "fin" /\ i \in 0..(Size - n[k].place)
      BY <2>1, <1>3, <1>6
    <3>2. /\ k + i \in DOMAIN n /\ n[k + i].place = n[k].place + i
          /\ n[k + i].type = n[k].type
      BY <3>1 DEF Frames
    <3> QED
      BY <3>2, <1>3
  <2>3. k + i \in 1..Len(u) /\ u[k + i] = n[k + i]
    BY <2>2, <1>3
  <2> QED
    BY <2>1, <2>2, <2>3, <1>3
<1>7. ASSUME NEW k \in 1..Len(u), u[k].type # "fin", u[k].place = Size, k < Len(u), u[k + 1].type # "fin"
      PROVE  u[k + 1].place = 1
  <2>1. k + 1 \in 1..Len(u)
    BY <1>3, <1>7
  <2>2. k + 1 \in 1..Len(n) /\ u[k + 1] = n[k + 1] /\ k \in 1..Len(n) /\ u[k] = n[k]
    BY <2>1, <1>5, <1>7
  <2>3. n[k].type # "fin" /\ n[k + 1].type # "fin" /\ n[k].place = Size /\ k < Len(n)
    BY <2>2, <1>3, <1>7
  <2> QED
    BY <2>2, <2>3, <1>3, SMTT(30) DEF Frames
<1>8. \A k \in 1..Len(u) : u[k].type = "fin" => k = Len(u)
  <2> SUFFICES ASSUME NEW k \in 1..Len(u), k # Len(u) PROVE u[k].type # "fin"
    OBVIOUS
  <2>1. k \in 1..Len(n)
    BY <1>3
  <2> QED
    BY <2>1, <1>3, <1>4
<1>9. /\ u[1].type # "fin" => u[1].place = Len(m) + 1 /\ (m # <<>> => u[1].type = m[1].type)
      /\ u[1].type = "fin" => m = <<>>
  <2>1. CASE n = <<>>
    BY <2>1, <1>3 DEF Frames
  <2>2. CASE n # <<>>
    <3>1. 1 \in 1..Len(n)
      BY <2>2, <1>3
    <3>2. u[1] = n[1] /\ n[1].type # "fin"
      BY <3>1, <1>3, <1>4
    <3> QED
      BY <2>2, <3>2 DEF Frames
  <2> QED
    BY <2>1, <2>2
<1>10. u # <<>>
  BY <1>3
<1>11. Frames(m, u)
  BY <1>3, <1>6, <1>7, <1>8, <1>9, <1>10 DEF Frames
<1>12. HasFin(u)
  BY <1>3, <1>10 DEF HasFin
<1> QED
  BY <1>11, <1>12 DEF u, b

\* The bytes that follow the first j.
Without(n, j) == SubSeq(n, j + 1, Len(n))
Rest(S, n, j, u) ==
    /\ u \in Seq(S) /\ Len(u) = Len(n) - j /\ Len(u) \in Nat /\ DOMAIN u = 1..Len(u)
    /\ \A k \in 1..Len(u) : u[k] = n[k + j]

LEMMA WithoutShape ==
  ASSUME NEW S, NEW n \in Seq(S), NEW j \in 1..Len(n)
  PROVE  Rest(S, n, j, Without(n, j))
<1>1. Len(n) \in Nat /\ \A k \in 1..Len(n) : n[k] \in S
  OBVIOUS
<1>2. Without(n, j) = [k \in 1..(Len(n) - j) |-> n[k + j]]
  BY <1>1 DEF Without
<1>3. \A k \in 1..(Len(n) - j) : n[k + j] \in S
  BY <1>1
<1>4. Len(n) - j \in Nat
  BY <1>1
<1> QED
  BY <1>1, <1>2, <1>3, <1>4 DEF Rest

\* What a message under way loses to the receiver's buffer continues it.
Taken(m, n, j, b, u) ==
    /\ b \in Seq(Beat!Byte) /\ Len(b) = Len(m) + j /\ Begun(b)
    /\ Len(b) = Size => b[1].type = n[j].type /\ n[j].place = Size
    /\ Rest(Beat!Byte, n, j, u)
    /\ Frames(IF Len(b) < Size THEN b ELSE <<>>, u) /\ (HasFin(u) <=> HasFin(n))
    /\ n[j].place = Len(b) /\ \A k \in 1..j : n[k].place < Size \/ k = j

LEMMA FramesTake ==
  ASSUME NEW m \in Seq(Beat!Byte), NEW n \in Seq(Beat!Byte), Begun(m), Frames(m, n),
         NEW j \in 1..(Size - Len(m)), j <= Len(n), \A k \in 1..j : n[k].type # "fin"
  PROVE  Taken(m, n, j, Cat(m, SubSeq(n, 1, j)), Without(n, j))
<1> DEFINE a == SubSeq(n, 1, j)
           b == Cat(m, a)
           u == Without(n, j)
           w == IF Len(b) < Size THEN b ELSE <<>>
<1>0. Len(m) \in Nat /\ Len(n) \in Nat /\ DOMAIN n = 1..Len(n) /\ DOMAIN m = 1..Len(m) /\ j \in 1..Len(n)
  BY BeatTimes
<1>1. a \in Seq(Beat!Byte) /\ Len(a) = j /\ \A k \in 1..j : a[k] = n[k]
  <2>1. a = [k \in 1..j |-> n[k]]
    BY <1>0
  <2>2. \A k \in 1..j : n[k] \in Beat!Byte
    BY <1>0
  <2> QED
    BY <2>1, <2>2, <1>0
<1> HIDE DEF a
<1>2. Joined(Beat!Byte, m, a, b)
  BY <1>1, Behind
<1> HIDE DEF b
<1>3. /\ b \in Seq(Beat!Byte) /\ Len(b) = Len(m) + j /\ DOMAIN b = 1..Len(b)
      /\ \A k \in 1..Len(m) : b[k] = m[k]
      /\ \A k \in 1..j : b[Len(m) + k] = n[k]
  BY <1>1, <1>2 DEF Joined
<1>4a. Rest(Beat!Byte, n, j, u)
  BY <1>0, WithoutShape
<1> HIDE DEF u
<1>4. /\ u \in Seq(Beat!Byte) /\ Len(u) = Len(n) - j /\ Len(u) \in Nat /\ DOMAIN u = 1..Len(u)
      /\ \A k \in 1..Len(u) : u[k] = n[k + j]
  BY <1>4a DEF Rest
<1>4b. Len(u) = Len(n) - j /\ Len(u) \in Nat /\ Len(n) \in Nat /\ j \in Nat
  BY <1>0, <1>4
<1>5. /\ n[1].place = Len(m) + 1 /\ (m # <<>> => n[1].type = m[1].type)
      /\ \A i \in 0..(Size - n[1].place) :
            1 + i \in DOMAIN n /\ n[1 + i].place = n[1].place + i /\ n[1 + i].type = n[1].type
  <2>1. n # <<>> /\ 1 \in DOMAIN n /\ 1 \in 1..j /\ n[1].type # "fin"
    BY <1>0
  <2> QED
    BY <2>1 DEF Frames
<1>6. ASSUME NEW k \in 1..(Size - Len(m))
      PROVE  k \in DOMAIN n /\ n[k].place = Len(m) + k /\ n[k].type = n[1].type
  <2>1. k - 1 \in 0..(Size - n[1].place) /\ 1 + (k - 1) = k
    BY <1>0, <1>5, BeatTimes
  <2>2. n[1].place + (k - 1) = Len(m) + k
    BY <1>0, <1>5
  <2> QED
    BY <2>1, <2>2, <1>5
<1>7. \A k \in 1..j : n[k].place = Len(m) + k /\ n[k].type = n[1].type
  BY <1>0, <1>6, BeatTimes
<1>8. Begun(b) /\ b[1].type = n[1].type
  <2>1. \A k \in 1..Len(m) : m[k].place = k /\ m[k].type # "fin" /\ m[k].type = m[1].type
    BY <1>0 DEF Begun
  <2>2. b[1].type = n[1].type
    <3>1. CASE m = <<>>
      <4>1. Len(m) = 0 /\ 1 \in 1..j
        BY <3>1, <1>0
      <4> QED
        BY <4>1, <1>3
    <3>2. CASE m # <<>>
      <4>1. 1 \in 1..Len(m)
        BY <3>2, <1>0
      <4> QED
        BY <3>2, <4>1, <1>3, <1>5
    <3> QED
      BY <3>1, <3>2
  <2>3. ASSUME NEW k \in 1..Len(b)
        PROVE  b[k].place = k /\ b[k].type # "fin" /\ b[k].type = b[1].type
    <3>1. CASE k \in 1..Len(m)
      <4>1. m # <<>> /\ m[1].type = n[1].type
        BY <3>1, <1>0, <1>5
      <4> QED
        BY <3>1, <4>1, <2>1, <2>2, <1>3
    <3>2. CASE ~(k \in 1..Len(m))
      <4>1. k - Len(m) \in 1..j /\ Len(m) + (k - Len(m)) = k
        BY <3>2, <1>0, <1>3
      <4>2. b[k] = n[k - Len(m)]
        BY <4>1, <1>3
      <4> QED
        BY <4>1, <4>2, <2>2, <1>7
    <3> QED
      BY <3>1, <3>2
  <2> QED
    BY <2>2, <2>3, <1>3 DEF Begun
<1>9. \A k \in 1..Len(u) : k + j \in 1..Len(n) /\ u[k].place = n[k + j].place /\ u[k].type = n[k + j].type
  BY <1>0, <1>4
<1>10. \A k \in 1..Len(u) : u[k].type = "fin" => k = Len(u)
  <2> SUFFICES ASSUME NEW k \in 1..Len(u), u[k].type = "fin" PROVE k = Len(u)
    OBVIOUS
  <2>1. k + j \in DOMAIN n /\ n[k + j].type = "fin"
    BY <1>0, <1>9
  <2>2. k + j = Len(n)
    BY <2>1 DEF Frames
  <2> QED
    BY <2>2, <1>0, <1>4
<1>11. ASSUME NEW k \in 1..Len(u), u[k].type # "fin", NEW i \in 0..(Size - u[k].place)
       PROVE  k + i \in DOMAIN u /\ u[k + i].place = u[k].place + i /\ u[k + i].type = u[k].type
  <2>1. /\ k + j \in DOMAIN n /\ n[k + j].type # "fin" /\ i \in 0..(Size - n[k + j].place)
    BY <1>0, <1>9, <1>11
  <2>2. /\ (k + j) + i \in DOMAIN n /\ n[(k + j) + i].place = n[k + j].place + i
        /\ n[(k + j) + i].type = n[k + j].type
    BY <2>1 DEF Frames
  <2>3a. i \in Nat /\ k \in Nat \ {0} /\ (k + j) + i <= Len(n)
    BY <2>2, <1>0, <1>4b
  <2>3. k + i \in 1..Len(u) /\ (k + j) + i = (k + i) + j
    BY <2>3a, <1>4b
  <2> QED
    BY <2>2, <2>3, <1>4, <1>9
<1>12. ASSUME NEW k \in 1..Len(u), u[k].type # "fin", u[k].place = Size, k < Len(u), u[k + 1].type # "fin"
       PROVE  u[k + 1].place = 1
  <2>0. k \in Nat /\ j \in Nat /\ Len(u) \in Nat
    BY <1>0, <1>4
  <2>1. k + 1 \in 1..Len(u) /\ (k + 1) + j = (k + j) + 1
    BY <2>0, <1>12
  <2>2. /\ k + j \in DOMAIN n /\ n[k + j].type # "fin" /\ n[k + j].place = Size
        /\ k + j < Len(n) /\ n[(k + j) + 1].type # "fin" /\ u[k + 1].place = n[(k + j) + 1].place
    BY <2>1, <1>12, <1>0, <1>4, <1>9
  <2> QED
    BY <2>2 DEF Frames
<1>13. Len(u) > 0 => u[1].place = n[j + 1].place /\ u[1].type = n[j + 1].type /\ j < Len(n)
  <2> SUFFICES ASSUME Len(u) > 0
               PROVE  u[1].place = n[j + 1].place /\ u[1].type = n[j + 1].type /\ j < Len(n)
    OBVIOUS
  <2>1. 1 \in 1..Len(u) /\ 1 + j = j + 1 /\ j < Len(n)
    BY <1>4b
  <2> QED
    BY <2>1, <1>9
<1>14. CASE Len(b) < Size
  <2>1. j + 1 \in 1..(Size - Len(m))
    BY <1>14, <1>0, <1>3, BeatTimes
  <2>2. j + 1 \in DOMAIN n /\ n[j + 1].place = Len(m) + (j + 1) /\ n[j + 1].type = n[1].type
    BY <2>1, <1>6
  <2>3. Len(u) > 0 /\ u # <<>> /\ u[1].type # "fin" /\ u[1].place = Len(b) + 1 /\ u[1].type = b[1].type
    <3>1. Len(u) > 0 /\ u # <<>>
      BY <2>2, <1>0, <1>4
    <3>2. n[1].type # "fin"
      BY <1>0
    <3> QED
      BY <3>1, <3>2, <2>2, <1>0, <1>3, <1>8, <1>13
  <2>4. Frames(b, u)
    BY <2>3, <1>4, <1>10, <1>11, <1>12 DEF Frames
  <2>5. Len(u) \in 1..Len(u) /\ Len(u) + j = Len(n) /\ n # <<>>
    BY <2>3, <1>0, <1>4
  <2>6. HasFin(u) <=> HasFin(n)
    BY <2>3, <2>5, <1>4 DEF HasFin
  <2>7. Frames(w, u) /\ ~(Len(b) = Size)
    BY <2>4, <1>14, <1>0, <1>3, BeatTimes
  <2>8. n[j].place = Len(b) /\ \A k \in 1..j : n[k].place < Size \/ k = j
    BY <1>7, <1>14, <1>0, <1>3, BeatTimes
  <2> QED
    BY <2>6, <2>7, <2>8, <1>3, <1>4a, <1>8 DEF Taken, u, b, a
<1>15. CASE ~(Len(b) < Size)
  <2>1. Len(b) = Size /\ j = Size - Len(m) /\ n[j].place = Size /\ b[1].type = n[j].type
    <3>1. j = Size - Len(m)
      BY <1>15, <1>0, <1>3, BeatTimes
    <3> QED
      BY <3>1, <1>0, <1>3, <1>7, <1>8, BeatTimes
  <2>2. Len(u) > 0 /\ u[1].type # "fin" => u[1].place = 1
    <3> SUFFICES ASSUME Len(u) > 0, u[1].type # "fin" PROVE u[1].place = 1
      OBVIOUS
    <3>1. j \in DOMAIN n /\ n[j].type # "fin" /\ j < Len(n) /\ n[j + 1].type # "fin"
      BY <1>0, <1>13
    <3> QED
      BY <3>1, <2>1, <1>13 DEF Frames
  <2>3. u # <<>> => Len(u) > 0
    BY <1>4
  <2>4. Frames(<<>>, u)
    <3>1. Len(<<>>) = 0 /\ (u # <<>> /\ u[1].type # "fin" => u[1].place = Len(<<>>) + 1)
      BY <2>2, <2>3
    <3> QED
      BY <3>1, <1>4, <1>10, <1>11, <1>12 DEF Frames
  <2>5. HasFin(u) <=> HasFin(n)
    <3>1. CASE Len(u) > 0
      <4>1. Len(u) \in 1..Len(u) /\ Len(u) + j = Len(n)
        BY <3>1, <1>0, <1>4
      <4>2. u[Len(u)] = n[Len(u) + j]
        BY <4>1, <1>4
      <4>3. u # <<>> /\ n # <<>>
        BY <3>1, <1>0
      <4> QED
        BY <4>1, <4>2, <4>3 DEF HasFin
    <3>2. CASE ~(Len(u) > 0)
      <4>0. Len(u) = 0 /\ j = Len(n)
        BY <3>2, <1>4b
      <4>1. u = <<>> /\ n # <<>>
        BY <4>0, <1>0, <1>4
      <4>2. n[j].type # "fin"
        BY <1>0
      <4> QED
        BY <4>0, <4>1, <4>2 DEF HasFin
    <3> QED
      BY <3>1, <3>2
  <2>6. Frames(w, u)
    BY <2>4, <1>15
  <2>7. n[j].place = Len(b) /\ \A k \in 1..j : n[k].place < Size \/ k = j
    <3>1. Size \in Nat /\ Len(m) \in Nat /\ j \in Nat
      BY <1>0, BeatTimes
    <3>2. ASSUME NEW k \in 1..j PROVE Len(m) + k < Size \/ k = j
      <4>1. k \in Nat /\ k <= j /\ j = Size - Len(m)
        BY <2>1, <3>1
      <4>2. \A x, y, l, z \in Nat : x <= y /\ y = z - l => l + x < z \/ x = y
        OBVIOUS
      <4> HIDE DEF w, u, b, a
      <4> QED
        BY <4>1, <4>2, <3>1
    <3>3. \A k \in 1..j : n[k].place = Len(m) + k
      BY <1>7
    <3> QED
      BY <3>2, <3>3, <2>1
  <2> QED
    BY <2>1, <2>5, <2>6, <2>7, <1>3, <1>4a, <1>8 DEF Taken, u, b, a
<1> QED
  BY <1>14, <1>15

\* Framing depends on places and types only.
LEMMA FramesSame ==
  ASSUME NEW m, NEW n \in Seq(Beat!Byte), NEW u \in Seq(Beat!Byte), Len(u) = Len(n),
         \A k \in 1..Len(n) : u[k].place = n[k].place /\ u[k].type = n[k].type, Frames(m, n)
  PROVE  Frames(m, u) /\ (HasFin(u) <=> HasFin(n))
<1>1. DOMAIN u = DOMAIN n /\ DOMAIN n = 1..Len(n) /\ Len(n) \in Nat /\ (u = <<>> <=> n = <<>>)
  OBVIOUS
<1>2. n # <<>> => 1 \in 1..Len(n) /\ Len(n) \in 1..Len(n)
  OBVIOUS
<1>3. HasFin(u) <=> HasFin(n)
  BY <1>1, <1>2 DEF HasFin
<1>4. \A k \in DOMAIN u : u[k].type = "fin" => k = Len(u)
  BY <1>1 DEF Frames
<1>5. /\ u # <<>> /\ u[1].type # "fin" =>
            u[1].place = Len(m) + 1 /\ (m # <<>> => u[1].type = m[1].type)
      /\ u = <<>> \/ u[1].type = "fin" => m = <<>>
  BY <1>1, <1>2 DEF Frames
<1>6. \A k \in DOMAIN u : u[k].type # "fin" =>
          \A i \in 0..(Size - u[k].place) :
             k + i \in DOMAIN u /\ u[k + i].place = u[k].place + i /\ u[k + i].type = u[k].type
  BY <1>1 DEF Frames
<1>7. \A k \in DOMAIN u :
          u[k].type # "fin" /\ u[k].place = Size /\ k < Len(u) /\ u[k + 1].type # "fin" =>
          u[k + 1].place = 1
  <2> SUFFICES ASSUME NEW k \in DOMAIN u, u[k].type # "fin", u[k].place = Size, k < Len(u), u[k + 1].type # "fin"
               PROVE  u[k + 1].place = 1
    OBVIOUS
  <2>1. k \in 1..Len(n) /\ k + 1 \in 1..Len(n)
    BY <1>1
  <2> QED
    BY <2>1, <1>1 DEF Frames
<1> QED
  BY <1>3, <1>4, <1>5, <1>6, <1>7 DEF Frames

\* A heartbeat under way to the server that will be answered in time, the
\* answer; w is the time the client has waited since it sent the first one, and
\* what is left of its timeout.
Asked(n, t, w) ==
    \E k \in DOMAIN n : n[k].place = Size /\ n[k].type = "heartbeat" /\ n[k].age + t >= w
Answered(n, t, w) == \E k \in DOMAIN n : n[k].age + Delay + t >= w

\* Bytes that arrive before the server has given up, and the answers to those it
\* has just received.
InTime(n, l) == \E k \in DOMAIN n : l + n[k].age > Delay
Recent(n, l) == \A k \in DOMAIN n : n[k].type # "fin" => l + n[k].age >= T1 + 4 * T2

\* The time until a side gives up that has t left of a timeout and missed m.
Left(t, m) == t + Wait(3 - m)

LEMMA Kept ==
  ASSUME NEW n \in Seq(Beat!Byte), NEW b \in Seq(Beat!Byte), NEW t, NEW w
  PROVE  /\ Asked(n, t, w) => Asked(Cat(n, b), t, w)
         /\ Answered(n, t, w) => Answered(Cat(n, b), t, w)
         /\ InTime(n, t) => InTime(Cat(n, b), t)
<1> DEFINE u == Cat(n, b)
<1>1. Joined(Beat!Byte, n, b, u)
  BY Behind
<1> HIDE DEF u
<1>2. \A k \in DOMAIN n : k \in DOMAIN u /\ u[k] = n[k]
  BY <1>1 DEF Joined
<1> QED
  BY <1>2 DEF Asked, Answered, InTime, u

LEMMA MessageSent ==
  ASSUME NEW n \in Seq(Beat!Byte), NEW t \in Nat, NEW w \in Int, NEW type \in {"data", "heartbeat"}
  PROVE  /\ type = "heartbeat" /\ t >= w => Asked(Cat(n, Beat!Message(type)), t, w)
         /\ Delay + t >= w => Answered(Cat(n, Beat!Message(type)), t, w)
         /\ t > Delay => InTime(Cat(n, Beat!Message(type)), t)
<1> DEFINE b == Beat!Message(type)
           u == Cat(n, b)
<1>1. /\ b \in Seq(Beat!Byte) /\ Len(b) = Size
      /\ \A k \in 1..Size : b[k].place = k /\ b[k].type = type /\ b[k].age = 0
  BY MessageShape
<1> HIDE DEF b
<1>2. Joined(Beat!Byte, n, b, u)
  BY <1>1, Behind
<1> HIDE DEF u
<1>3. Size \in 1..Size
  BY BeatTimes
<1>4. /\ Len(n) + Size \in DOMAIN u /\ u[Len(n) + Size].place = Size
      /\ u[Len(n) + Size].type = type /\ u[Len(n) + Size].age = 0
  BY <1>1, <1>2, <1>3, BeatTimes DEF Joined
<1>5. 0 + t = t /\ t + 0 = t /\ 0 + Delay + t = Delay + t
  BY BeatTimes
<1> QED
  BY <1>4, <1>5 DEF Asked, Answered, InTime, u, b

LEMMA FinSent ==
  ASSUME NEW n \in Seq(Beat!Byte), NEW t \in Nat, NEW w \in Int
  PROVE  /\ Delay + t >= w => Answered(Cat(n, Beat!Fin), t, w)
         /\ t > Delay => InTime(Cat(n, Beat!Fin), t)
<1> DEFINE b == Beat!Fin
           u == Cat(n, b)
<1>1. b \in Seq(Beat!Byte) /\ Len(b) = 1 /\ b[1].age = 0
  BY FinShape
<1> HIDE DEF b
<1>2. Joined(Beat!Byte, n, b, u)
  BY <1>1, Behind
<1> HIDE DEF u
<1>3. Len(n) + 1 \in DOMAIN u /\ u[Len(n) + 1].age = 0
  BY <1>1, <1>2 DEF Joined
<1>4. t + 0 = t /\ 0 + Delay + t = Delay + t
  BY BeatTimes
<1> QED
  BY <1>3, <1>4 DEF Answered, InTime, u, b

\* After n's bytes have become older by one, and what is left less by one.
Aged(n, u) ==
    /\ n \in Seq(Beat!Byte) /\ u \in Seq(Beat!Byte) /\ Len(u) = Len(n)
    /\ \A k \in 1..Len(n) : u[k].place = n[k].place /\ u[k].type = n[k].type /\ u[k].age = n[k].age + 1

LEMMA OlderBytes ==
  ASSUME NEW n, NEW u, Aged(n, u), NEW t \in Nat, NEW w \in Int
  PROVE  /\ Asked(n, t, w) => Asked(u, t - 1, w)
         /\ Answered(n, t, w) => Answered(u, t - 1, w)
         /\ InTime(n, t) => InTime(u, t - 1)
         /\ Recent(n, t) => Recent(u, t - 1)
<1>1. DOMAIN n = DOMAIN u /\ DOMAIN n = 1..Len(n)
  BY DEF Aged
<1>2. \A k \in DOMAIN n : n[k].age \in Nat
  BY ByteParts, BeatTimes, <1>1 DEF Aged
<1>3. \A k \in DOMAIN n : /\ u[k].age + (t - 1) = n[k].age + t /\ (t - 1) + u[k].age = t + n[k].age
                          /\ u[k].age + Delay + (t - 1) = n[k].age + Delay + t
  <2> TAKE k \in DOMAIN n
  <2>1. u[k].age = n[k].age + 1 /\ n[k].age \in Nat
    BY <1>1, <1>2 DEF Aged
  <2> QED
    BY <2>1, BeatTimes
<1>4. \A k \in DOMAIN n : u[k].place = n[k].place /\ u[k].type = n[k].type
  BY <1>1 DEF Aged
<1> QED
  BY <1>1, <1>3, <1>4 DEF Asked, Answered, InTime, Recent

\* What is said of every byte under way is said of those that are left.
LEMMA RestRecent ==
  ASSUME NEW n \in Seq(Beat!Byte), NEW j \in 1..Len(n), NEW u, Rest(Beat!Byte, n, j, u), NEW l, Recent(n, l)
  PROVE  Recent(u, l)
<1>1. \A k \in DOMAIN u : k + j \in DOMAIN n /\ u[k] = n[k + j]
  BY DEF Rest
<1> QED
  BY <1>1 DEF Recent

LEMMA FinInTime ==
  ASSUME NEW n \in Seq(Beat!Byte), HasFin(n), NEW l \in Nat, l > Delay
  PROVE  InTime(n, l)
<1>1. Len(n) \in DOMAIN n
  BY DEF HasFin
<1>2. n[Len(n)].age \in Nat
  BY <1>1, ByteParts, BeatTimes
<1>3. l + n[Len(n)].age > Delay
  BY <1>2, BeatTimes
<1> QED
  BY <1>1, <1>3 DEF InTime

LEMMA FinAnswers ==
  ASSUME NEW n \in Seq(Beat!Byte), HasFin(n), NEW t \in Nat, NEW w \in Int, Delay + t >= w
  PROVE  Answered(n, t, w)
<1>1. Len(n) \in DOMAIN n
  BY DEF HasFin
<1>2. n[Len(n)].age \in Nat
  BY <1>1, ByteParts, BeatTimes
<1>3. n[Len(n)].age + Delay + t >= w
  BY <1>2, BeatTimes
<1> QED
  BY <1>1, <1>3 DEF Answered

\* A byte under way has been so for at most Delay.
LEMMA NotLater ==
  ASSUME NEW n \in Seq(Beat!Byte), NEW t \in Nat, NEW w \in Int
  PROVE  /\ Asked(n, t, w) => Delay + t >= w
         /\ Answered(n, t, w) => Delay + Delay + t >= w
         /\ InTime(n, t) => t > 0
<1>1. \A k \in DOMAIN n : n[k].age \in Nat /\ n[k].age <= Delay
  BY ByteParts, BeatTimes
<1> QED
  BY <1>1, BeatTimes DEF Asked, Answered, InTime

\* The inductive invariant of heartBeat1.
BeatTypes ==
    /\ Beat!TypeOK
    /\ \A s \in Beat!Sides :
          /\ state[s] = "up" => missed[s] <= 3
          /\ missed[s] > 0 => tv[s] <= T2
          /\ missed[s] = 0 => tv[s] <= Beat!Idle(s) + Residue

BeatFrames ==
    /\ cut => \A s \in Beat!Sides : net[s] = <<>>
    /\ \A s \in Beat!Sides : Begun(msg[s]) /\ state[s] # "unknown"
    /\ ~cut => \A s \in Beat!Sides : state[s] = "up" =>
          Frames(msg[s], net[s]) /\ (HasFin(net[s]) <=> state[Beat!Peer(s)] # "up")

BeatQuiet ==
    \A s \in Beat!Sides : state[s] = "up" =>
        quiet[s] + tv[s] <= Beat!Idle(s) + Residue + Wait(missed[s])

BeatClient ==
    ~cut /\ state["client"] = "up" /\ missed["client"] > 0 =>
        \/ state["server"] = "up" /\ Asked(net["server"], tv["client"], Wait(missed["client"]))
        \/ Answered(net["client"], tv["client"], Wait(missed["client"]))

BeatServer ==
    ~cut /\ state["server"] = "up" =>
        /\ \/ InTime(net["server"], Left(tv["server"], missed["server"]))
           \/ state["client"] = "up" /\ Left(tv["server"], missed["server"]) > tv["client"] + Delay
        /\ state["client"] = "up" => Recent(net["client"], Left(tv["server"], missed["server"]))

BeatAlive == ~cut => \A s \in Beat!Sides : state[s] # "dead"

BeatInv == BeatTypes /\ BeatFrames /\ BeatQuiet /\ BeatClient /\ BeatServer /\ BeatAlive

LEMMA Ends ==
  /\ Beat!Sides = {"client", "server"} /\ "client" # "server"
  /\ Beat!Peer("client") = "server" /\ Beat!Peer("server") = "client"
  /\ Beat!Idle("client") = T1 /\ Beat!Idle("server") = T1 + T2
  /\ Beat!MaxMissed = 3
BY DEF Beat!Sides, Beat!Peer, Beat!Idle, Beat!MaxMissed

LEMMA LeftIs ==
  ASSUME NEW t \in Nat, NEW m \in 0..3
  PROVE  /\ Left(t, m) \in Nat /\ Left(t, 3) = t /\ Left(t, 0) = t + 3 * T2 /\ Left(t, m) >= t
         /\ t > 0 => Left(t - 1, m) = Left(t, m) - 1
         /\ m < 3 => Left(T2, m + 1) = Left(0, m)
<1>1. Wait(3 - m) \in Nat /\ 3 - 3 = 0 /\ 3 - 0 = 3 /\ Wait(0) = 0 /\ Wait(3) = 3 * T2 /\ T2 \in Nat
  BY Waits, BeatTimes
<1>2. m < 3 => Wait(3 - m) = Wait(3 - (m + 1)) + T2 /\ Wait(3 - (m + 1)) \in Nat
  BY Waits
<1>3. t > 0 => (t - 1) + Wait(3 - m) = (t + Wait(3 - m)) - 1
  BY <1>1
<1> QED
  BY <1>1, <1>2, <1>3 DEF Left

LEMMA BeatInit ==
  ASSUME Beat!Init PROVE BeatInv
<1> USE DEF Beat!Init
<1>1. \A s \in Beat!Sides : /\ tv[s] = Beat!Idle(s) /\ missed[s] = 0 /\ msg[s] = <<>> /\ net[s] = <<>>
                            /\ state[s] = "up" /\ quiet[s] = 0
  OBVIOUS
<1>2. \A s \in Beat!Sides : Beat!Idle(s) \in Nat /\ Beat!Idle(s) <= T1 + T2
  BY Ends, BeatTimes
<1>3. Wait(0) = 0
  BY Waits
<1>4. Beat!MaxQuiet \in Nat
  BY Ends, BeatTimes DEF Beat!MaxQuiet
<1>5. Beat!TypeOK
  <2>1. tv \in [Beat!Sides -> 0..(T1 + T2 + Residue)]
    BY <1>2, BeatTimes
  <2>2. quiet \in [Beat!Sides -> 0..Beat!MaxQuiet] /\ missed \in [Beat!Sides -> 0..(Beat!MaxMissed + 1)]
    BY <1>4, Ends
  <2>3. <<>> \in Seq(Beat!Byte) /\ Len(<<>>) < Size
    BY BeatTimes
  <2> QED
    BY <2>1, <2>2, <2>3 DEF Beat!TypeOK
<1>6. BeatTypes
  <2>1. \A s \in Beat!Sides : tv[s] <= Beat!Idle(s) + Residue
    BY <1>1, <1>2, BeatTimes
  <2> QED
    BY <1>1, <1>5, <2>1 DEF BeatTypes
<1>7. BeatFrames
  <2>1. Frames(<<>>, <<>>) /\ ~HasFin(<<>>) /\ Begun(<<>>)
    BY DEF Frames, HasFin, Begun
  <2>2. \A s \in Beat!Sides : Beat!Peer(s) \in Beat!Sides
    BY Ends
  <2> QED
    BY <1>1, <2>1, <2>2 DEF BeatFrames
<1>8. BeatQuiet
  BY <1>1, <1>2, <1>3, BeatTimes DEF BeatQuiet
<1>9. BeatClient
  BY <1>1, Ends DEF BeatClient
<1>10. BeatServer
  <2>1. Left(T1 + T2, 0) = T1 + T2 + 3 * T2
    BY LeftIs, BeatTimes
  <2>2. Left(T1 + T2, 0) > T1 + Delay
    BY <2>1, BeatTimes
  <2>3. Recent(<<>>, Left(T1 + T2, 0))
    BY DEF Recent
  <2> QED
    BY <1>1, <2>2, <2>3, Ends DEF BeatServer
<1>11. BeatAlive
  BY <1>1 DEF BeatAlive
<1> QED
  BY <1>6, <1>7, <1>8, <1>9, <1>10, <1>11 DEF BeatInv

\* What the invariant says of a side.
LEMMA BeatSide ==
  ASSUME BeatTypes, NEW s \in Beat!Sides
  PROVE  /\ tv[s] \in Nat /\ tv[s] <= T1 + T2 + Residue /\ missed[s] \in 0..4
         /\ state[s] = "up" => missed[s] \in 0..3
         /\ msg[s] \in Seq(Beat!Byte) /\ net[s] \in Seq(Beat!Byte)
         /\ Len(msg[s]) < Size /\ quiet[s] \in Nat
         /\ Beat!Peer(s) \in Beat!Sides /\ Beat!Peer(s) # s /\ Beat!Peer(Beat!Peer(s)) = s
         /\ tv[s] <= T1 + Residue \/ tv[s] <= T2 \/ s = "server"
<1>1. /\ tv[s] \in 0..(T1 + T2 + Residue) /\ missed[s] \in 0..4
      /\ msg[s] \in Seq(Beat!Byte) /\ net[s] \in Seq(Beat!Byte)
      /\ Len(msg[s]) < Size /\ quiet[s] \in 0..Beat!MaxQuiet
  BY Ends DEF BeatTypes, Beat!TypeOK
<1>2. Beat!MaxQuiet \in Nat
  BY Ends, BeatTimes DEF Beat!MaxQuiet
<1>3. Beat!Peer(s) \in Beat!Sides /\ Beat!Peer(s) # s /\ Beat!Peer(Beat!Peer(s)) = s
  BY Ends
<1>4. state[s] = "up" => missed[s] \in 0..3
  BY <1>1 DEF BeatTypes
<1>5. tv[s] <= T1 + Residue \/ tv[s] <= T2 \/ s = "server"
  <2>1. missed[s] = 0 \/ missed[s] > 0
    BY <1>1
  <2> QED
    BY <2>1, Ends DEF BeatTypes
<1> QED
  BY <1>1, <1>2, <1>3, <1>4, <1>5, BeatTimes

\* What a side sends is put behind what is under way to its peer.
LEMMA SentIs ==
  ASSUME NEW n, NEW s \in Beat!Sides, NEW b \in Seq(Beat!Byte), n \in [Beat!Sides -> Seq(Beat!Byte)]
  PROVE  /\ Beat!Sent(n, s, b) \in [Beat!Sides -> Seq(Beat!Byte)]
         /\ cut => Beat!Sent(n, s, b) = n
         /\ ~cut => /\ Beat!Sent(n, s, b)[Beat!Peer(s)] = Cat(n[Beat!Peer(s)], b)
                    /\ Beat!Sent(n, s, b)[s] = n[s]
<1>1. Beat!Peer(s) \in Beat!Sides /\ Beat!Peer(s) # s
  BY Ends
<1>2. n[Beat!Peer(s)] \in Seq(Beat!Byte)
  BY <1>1
<1>3. Cat(n[Beat!Peer(s)], b) \in Seq(Beat!Byte)
  BY <1>2, Behind DEF Joined
<1> QED
  BY <1>1, <1>3 DEF Beat!Sent, Cat

LEMMA BeatNets ==
  ASSUME BeatTypes PROVE net \in [Beat!Sides -> Seq(Beat!Byte)] /\ msg \in [Beat!Sides -> Seq(Beat!Byte)]
BY DEF BeatTypes, Beat!TypeOK

\* With the network cut little is to be shown.
LEMMA BeatCut ==
  ASSUME BeatInv, cut', BeatTypes', BeatQuiet', net' = [s \in Beat!Sides |-> <<>>],
         \A s \in Beat!Sides : Begun(msg'[s]) /\ state'[s] # "unknown"
  PROVE  BeatInv'
BY DEF BeatInv, BeatFrames, BeatClient, BeatServer, BeatAlive

\* A heartbeat or the count of a missed one.
LEMMA BeatTimeout ==
  ASSUME BeatInv, NEW s \in Beat!Sides, Beat!Timeout(s) PROVE BeatInv'
<1> DEFINE c == "client"
           v == "server"
<1>0. /\ BeatTypes /\ BeatFrames /\ BeatQuiet /\ BeatClient /\ BeatServer /\ BeatAlive
  BY DEF BeatInv
<1>1. /\ state[s] = "up" /\ tv[s] = 0 /\ missed' = [missed EXCEPT ![s] = missed[s] + 1]
      /\ msg' = msg /\ cut' = cut /\ quiet' = quiet
  BY DEF Beat!Timeout, Beat!Counted
<1>2. /\ missed[s] \in 0..3 /\ quiet[s] \in Nat
      /\ missed \in [Beat!Sides -> 0..4] /\ tv \in [Beat!Sides -> 0..(T1 + T2 + Residue)]
      /\ state \in [Beat!Sides -> {"up", "dead", "terminated", "unknown", "killed"}]
  BY <1>0, <1>1, BeatSide, Ends DEF BeatTypes, Beat!TypeOK
<1>3. CASE missed[s] + 1 > 3
  <2>1. missed[s] = 3
    BY <1>2, <1>3
  <2>2. /\ state' = [state EXCEPT ![s] = "dead"] /\ net' = Beat!Sent(net, s, Beat!Fin) /\ tv' = tv
    BY <1>3, Ends DEF Beat!Timeout, Beat!Counted, Beat!Exit
  <2>3. cut
    <3> SUFFICES ASSUME ~cut PROVE FALSE
      OBVIOUS
    <3>1. Wait(3) = 3 * T2 /\ Wait(3) \in Int
      BY Waits, BeatTimes
    <3>2. CASE s = c
      <4>1. net[v] \in Seq(Beat!Byte) /\ net[c] \in Seq(Beat!Byte)
        BY <1>0, BeatNets, Ends
      <4>2. Asked(net[v], 0, Wait(3)) \/ Answered(net[c], 0, Wait(3))
        BY <1>0, <1>1, <2>1, <3>2 DEF BeatClient
      <4>3. Delay + 0 >= Wait(3) \/ Delay + Delay + 0 >= Wait(3)
        BY <3>1, <4>1, <4>2, NotLater
      <4> QED
        BY <3>1, <4>3, BeatTimes
    <3>3. CASE s = v
      <4>1. net[v] \in Seq(Beat!Byte) /\ tv[c] \in Nat
        BY <1>0, BeatNets, BeatSide, Ends
      <4>2. Left(0, 3) = 0
        BY LeftIs
      <4>3. InTime(net[v], 0) \/ 0 > tv[c] + Delay
        BY <1>0, <1>1, <2>1, <3>3, <4>2 DEF BeatServer
      <4>4. ~InTime(net[v], 0)
        <5>1. InTime(net[v], 0) => 0 > 0
          BY <4>1, NotLater
        <5> QED
          BY <5>1
      <4> QED
        BY <4>1, <4>3, <4>4, BeatTimes
    <3> QED
      BY <3>2, <3>3, Ends
  <2>4. net' = net /\ net = [x \in Beat!Sides |-> <<>>]
    <3>1. net \in [Beat!Sides -> Seq(Beat!Byte)] /\ \A x \in Beat!Sides : net[x] = <<>>
      BY <2>3, <1>0, BeatNets DEF BeatFrames
    <3>2. net' = net
      BY <2>2, <2>3 DEF Beat!Sent
    <3> QED
      BY <3>1, <3>2
  <2>5. BeatTypes'
    <3>1. Beat!TypeOK'
      <4>1. missed' \in [Beat!Sides -> 0..4]
        BY <1>1, <1>2
      <4>2. state' \in [Beat!Sides -> {"up", "dead", "terminated", "unknown", "killed"}]
        BY <1>2, <2>2
      <4> QED
        BY <4>1, <4>2, <1>0, <1>1, <2>2, <2>4, Ends DEF BeatTypes, Beat!TypeOK
    <3>2. \A x \in Beat!Sides : (state'[x] = "up" => missed'[x] <= 3)
      BY <1>0, <1>1, <1>2, <2>2 DEF BeatTypes
    <3>3. \A x \in Beat!Sides : /\ (missed'[x] > 0 => tv'[x] <= T2)
                                /\ (missed'[x] = 0 => tv'[x] <= Beat!Idle(x) + Residue)
      <4> TAKE x \in Beat!Sides
      <4>1. CASE x = s
        BY <4>1, <1>1, <1>2, <2>2, BeatTimes
      <4>2. CASE x # s
        BY <4>2, <1>0, <1>1, <1>2, <2>2 DEF BeatTypes
      <4> QED
        BY <4>1, <4>2
    <3> QED
      BY <3>1, <3>2, <3>3 DEF BeatTypes
  <2>6. BeatQuiet'
    BY <1>0, <1>1, <1>2, <2>2 DEF BeatQuiet
  <2>7. \A x \in Beat!Sides : Begun(msg'[x]) /\ state'[x] # "unknown"
    BY <1>0, <1>1, <1>2, <2>2 DEF BeatFrames
  <2> QED
    BY <2>3, <2>4, <2>5, <2>6, <2>7, <1>1, BeatCut
<1>4. CASE ~(missed[s] + 1 > 3)
  <2>1. missed[s] \in 0..2 /\ missed[s] + 1 \in 0..3 /\ missed[s] < 3 /\ missed[s] + 1 > 0
    BY <1>2, <1>4
  <2> DEFINE b == Beat!Message("heartbeat")
  <2>b. b \in Seq(Beat!Byte)
    BY MessageShape
  <2>2. /\ state' = state /\ tv' = [tv EXCEPT ![s] = T2]
        /\ net' = IF s = c THEN Beat!Sent(net, s, b) ELSE net
    BY <1>4, Ends DEF Beat!Timeout, Beat!Counted, Beat!SendBeat
  <2> HIDE DEF b
  <2>3. net \in [Beat!Sides -> Seq(Beat!Byte)] /\ net' \in [Beat!Sides -> Seq(Beat!Byte)]
    BY <2>b, <2>2, <1>0, BeatNets, SentIs
  <2>4. net'[c] = net[c] /\ (s = v => net'[v] = net[v]) /\ (cut => net' = net)
    <3>1. CASE cut
      BY <2>2, <3>1 DEF Beat!Sent
    <3>2. CASE ~cut /\ s = c
      BY <2>b, <2>2, <2>3, <3>2, SentIs
    <3>3. CASE s = v
      BY <2>2, <3>3
    <3> QED
      BY <3>1, <3>2, <3>3, Ends
  <2>5. s = c /\ ~cut => net'[v] = Cat(net[v], b)
    <3> SUFFICES ASSUME s = c, ~cut PROVE net'[v] = Cat(net[v], b)
      OBVIOUS
    <3>1. Beat!Sent(net, c, b)[Beat!Peer(c)] = Cat(net[Beat!Peer(c)], b)
      BY <2>b, <2>3, SentIs
    <3> QED
      BY <2>2, <3>1, Ends
  <2>6. BeatTypes'
    <3>1. Beat!TypeOK'
      <4>1. missed' \in [Beat!Sides -> 0..4]
        BY <1>1, <1>2
      <4>2. tv' \in [Beat!Sides -> 0..(T1 + T2 + Residue)]
        BY <1>2, <2>2, BeatTimes
      <4> QED
        BY <4>1, <4>2, <1>0, <1>1, <2>2, <2>3, Ends DEF BeatTypes, Beat!TypeOK
    <3>2. \A x \in Beat!Sides : (state'[x] = "up" => missed'[x] <= 3)
      BY <1>0, <1>1, <1>2, <2>1, <2>2 DEF BeatTypes
    <3>3. \A x \in Beat!Sides : /\ (missed'[x] > 0 => tv'[x] <= T2)
                                /\ (missed'[x] = 0 => tv'[x] <= Beat!Idle(x) + Residue)
      <4> TAKE x \in Beat!Sides
      <4>1. CASE x = s
        <5>1. missed'[x] = missed[s] + 1 /\ tv'[x] = T2
          BY <4>1, <1>1, <1>2, <2>2
        <5> QED
          BY <5>1, <2>1, BeatTimes
      <4>2. CASE x # s
        BY <4>2, <1>0, <1>1, <1>2, <2>2 DEF BeatTypes
      <4> QED
        BY <4>1, <4>2
    <3> QED
      BY <3>1, <3>2, <3>3 DEF BeatTypes
  <2>7. BeatFrames'
    <3>1. cut' => \A x \in Beat!Sides : net'[x] = <<>>
      BY <1>0, <1>1, <2>4 DEF BeatFrames
    <3>2. \A x \in Beat!Sides : Begun(msg'[x]) /\ state'[x] # "unknown"
      BY <1>0, <1>1, <2>2 DEF BeatFrames
    <3>3. ASSUME ~cut, NEW x \in Beat!Sides, state[x] = "up"
          PROVE  Frames(msg[x], net'[x]) /\ (HasFin(net'[x]) <=> state[Beat!Peer(x)] # "up")
      <4>1. Frames(msg[x], net[x]) /\ (HasFin(net[x]) <=> state[Beat!Peer(x)] # "up")
        BY <1>0, <3>3 DEF BeatFrames
      <4>2. CASE s = c /\ x = v
        <5>1. ~HasFin(net[v]) /\ msg[v] \in Seq(Beat!Byte) /\ net[v] \in Seq(Beat!Byte) /\ Frames(msg[v], net[v])
          BY <4>1, <4>2, <1>0, <1>1, <2>3, Ends, BeatSide
        <5>2. Frames(msg[v], Cat(net[v], b)) /\ ~HasFin(Cat(net[v], b))
          BY <5>1, FramesMessage DEF b
        <5> QED
          BY <4>1, <4>2, <5>1, <5>2, <3>3, <2>5
      <4>3. CASE ~(s = c /\ x = v)
        <5>1. net'[x] = net[x]
          BY <4>3, <2>4, Ends
        <5> QED
          BY <4>1, <5>1
      <4> QED
        BY <4>2, <4>3
    <3> QED
      BY <3>1, <3>2, <3>3, <1>1, <2>2 DEF BeatFrames
  <2>8. BeatQuiet'
    <3> SUFFICES ASSUME NEW x \in Beat!Sides, state[x] = "up"
                 PROVE  quiet[x] + tv'[x] <= Beat!Idle(x) + Residue + Wait(missed'[x])
      BY <1>1, <2>2 DEF BeatQuiet
    <3>1. quiet[x] + tv[x] <= Beat!Idle(x) + Residue + Wait(missed[x])
      BY <1>0 DEF BeatQuiet
    <3>2. CASE x = s
      <4>1. tv'[x] = T2 /\ missed'[x] = missed[s] + 1 /\ Wait(missed[s] + 1) = Wait(missed[s]) + T2 /\ tv[x] = 0
        BY <3>2, <1>1, <1>2, <2>1, <2>2, Waits
      <4>2. Wait(missed[s]) \in Nat /\ Beat!Idle(x) \in Nat /\ quiet[x] \in Nat
        BY <1>2, <3>2, Waits, Ends, BeatTimes
      <4> QED
        BY <3>1, <3>2, <4>1, <4>2, BeatTimes
    <3>3. CASE x # s
      BY <3>1, <3>3, <1>1, <1>2, <2>2
    <3> QED
      BY <3>2, <3>3
  <2>9. BeatClient'
    <3> SUFFICES ASSUME ~cut, state[c] = "up", missed'[c] > 0
                 PROVE  \/ state[v] = "up" /\ Asked(net'[v], tv'[c], Wait(missed'[c]))
                        \/ Answered(net'[c], tv'[c], Wait(missed'[c]))
      BY <1>1, <2>2 DEF BeatClient
    <3>1. net[v] \in Seq(Beat!Byte) /\ net[c] \in Seq(Beat!Byte)
      BY <2>3, Ends
    <3>2. CASE s = c /\ missed[c] = 0
      <4>1. tv'[c] = T2 /\ missed'[c] = 1 /\ Wait(1) = T2
        <5>1. Wait(0 + 1) = Wait(0) + T2 /\ Wait(0) = 0 /\ 0 + 1 = 1
          BY Waits
        <5>2. missed'[c] = 0 + 1
          BY <3>2, <1>1, <1>2
        <5> QED
          BY <5>1, <5>2, <3>2, <1>1, <1>2, <2>2, BeatTimes
      <4>2. T2 \in Nat /\ T2 \in Int /\ T2 >= T2 /\ Delay + T2 >= T2
        BY BeatTimes
      <4>3. CASE state[v] = "up"
        <5>1. Asked(Cat(net[v], b), T2, T2)
          BY <3>1, <4>2, MessageSent DEF b
        <5> QED
          BY <5>1, <4>1, <4>3, <3>2, <2>5
      <4>4. CASE state[v] # "up"
        <5>1. HasFin(net[c])
          BY <4>4, <1>0, Ends DEF BeatFrames
        <5>2. Answered(net[c], T2, T2)
          BY <5>1, <4>2, <3>1, FinAnswers
        <5> QED
          BY <5>2, <4>1, <2>4
      <4> QED
        BY <4>3, <4>4
    <3>3. CASE s = c /\ missed[c] # 0
      <4>1. tv[c] = 0 /\ tv'[c] = T2 /\ missed'[c] = missed[c] + 1 /\ missed[c] \in 0..2 /\ missed[c] > 0
        BY <3>3, <1>1, <1>2, <2>1, <2>2
      <4> DEFINE w == Wait(missed[c])
      <4>2. Wait(missed'[c]) = w + T2 /\ w \in Nat
        <5>1. missed[c] \in 0..3
          BY <4>1
        <5> QED
          BY <4>1, <5>1, Waits
      <4>3. \/ state[v] = "up" /\ Asked(net[v], 0, w)
            \/ Answered(net[c], 0, w)
        BY <4>1, <1>0 DEF BeatClient
      <4> HIDE DEF w
      <4>4. ASSUME NEW n \in Seq(Beat!Byte)
            PROVE  /\ Asked(n, 0, w) => Asked(n, T2, w + T2)
                   /\ Answered(n, 0, w) => Answered(n, T2, w + T2)
        <5>1. \A k \in DOMAIN n : n[k].age \in Nat
          BY ByteParts, BeatTimes
        <5>2. \A k \in DOMAIN n : /\ (n[k].age + 0 >= w => n[k].age + T2 >= w + T2)
                                  /\ (n[k].age + Delay + 0 >= w => n[k].age + Delay + T2 >= w + T2)
          BY <5>1, <4>2, BeatTimes
        <5> QED
          BY <5>2 DEF Asked, Answered
      <4>5. Asked(net[v], T2, w + T2) => Asked(net'[v], T2, w + T2)
        BY <2>b, <2>5, <3>1, <3>3, Kept
      <4> QED
        BY <4>1, <4>2, <4>3, <4>4, <4>5, <3>1, <2>4
    <3>4. CASE s = v
      <4>1. tv'[c] = tv[c] /\ missed'[c] = missed[c] /\ net'[c] = net[c] /\ net'[v] = net[v]
        BY <3>4, <1>1, <1>2, <2>2, <2>4, Ends
      <4> QED
        BY <4>1, <1>0 DEF BeatClient
    <3> QED
      BY <3>2, <3>3, <3>4, Ends
  <2>10. BeatServer'
    <3> DEFINE l == Left(tv[v], missed[v])
    <3> SUFFICES ASSUME ~cut, state[v] = "up"
                 PROVE  /\ \/ InTime(net'[v], Left(tv'[v], missed'[v]))
                           \/ state[c] = "up" /\ Left(tv'[v], missed'[v]) > tv'[c] + Delay
                        /\ state[c] = "up" => Recent(net'[c], Left(tv'[v], missed'[v]))
      BY <1>1, <2>2 DEF BeatServer
    <3>1. /\ InTime(net[v], l) \/ (state[c] = "up" /\ l > tv[c] + Delay)
          /\ state[c] = "up" => Recent(net[c], l)
      BY <1>0 DEF BeatServer
    <3>2. l \in Nat /\ tv[c] \in Nat
      <4>1. tv[v] \in Nat /\ missed[v] \in 0..3 /\ tv[c] \in Nat
        BY <1>0, BeatSide, Ends
      <4> QED
        BY <4>1, LeftIs
    <3>3. Left(tv'[v], missed'[v]) = l
      <4>1. CASE s = v
        <5>1. tv'[v] = T2 /\ missed'[v] = missed[v] + 1 /\ missed[v] \in 0..3 /\ missed[v] < 3 /\ tv[v] = 0
          BY <4>1, <1>1, <1>2, <2>1, <2>2
        <5> QED
          BY <5>1, LeftIs, BeatTimes
      <4>2. CASE s = c
        BY <4>2, <1>1, <1>2, <2>2, Ends
      <4> QED
        BY <4>1, <4>2, Ends
    <3> HIDE DEF l
    <3>4. CASE s = v
      <4>1. net'[v] = net[v] /\ net'[c] = net[c] /\ tv'[c] = tv[c]
        BY <3>4, <2>2, <2>4, <1>2, Ends
      <4> QED
        BY <3>1, <3>3, <4>1
    <3>5. CASE s = c
      <4>1. net[v] \in Seq(Beat!Byte) /\ net'[v] = Cat(net[v], b) /\ tv[c] = 0
        BY <3>5, <1>1, <2>3, <2>5, Ends
      <4>2. InTime(net'[v], l)
        <5>1. CASE InTime(net[v], l)
          BY <4>1, <5>1, <2>b, Kept
        <5>2. CASE l > tv[c] + Delay
          <6>1. l > Delay
            BY <5>2, <4>1, BeatTimes
          <6> QED
            BY <4>1, <6>1, <3>2, MessageSent DEF b
        <5> QED
          BY <5>1, <5>2, <3>1
      <4> QED
        BY <4>2, <3>1, <3>3, <2>4
    <3> QED
      BY <3>4, <3>5, Ends
  <2>11. BeatAlive'
    BY <1>0, <1>1, <2>2 DEF BeatAlive
  <2> QED
    BY <2>6, <2>7, <2>8, <2>9, <2>10, <2>11 DEF BeatInv
<1> QED
  BY <1>3, <1>4

\* A side is killed: the end follows what it has sent.
LEMMA BeatKill ==
  ASSUME BeatInv, NEW s \in Beat!Sides, Beat!Kill(s) PROVE BeatInv'
<1> DEFINE c == "client"
           v == "server"
           p == Beat!Peer(s)
<1>0. /\ BeatTypes /\ BeatFrames /\ BeatQuiet /\ BeatClient /\ BeatServer /\ BeatAlive
  BY DEF BeatInv
<1>1. /\ state[s] = "up" /\ state' = [state EXCEPT ![s] = "killed"]
      /\ net' = Beat!Sent(net, s, Beat!Fin)
      /\ tv' = tv /\ missed' = missed /\ msg' = msg /\ cut' = cut /\ quiet' = quiet
  BY DEF Beat!Kill, Beat!Exit
<1>2. /\ net \in [Beat!Sides -> Seq(Beat!Byte)] /\ Beat!Fin \in Seq(Beat!Byte)
      /\ state \in [Beat!Sides -> {"up", "dead", "terminated", "unknown", "killed"}]
      /\ p \in Beat!Sides /\ p # s
  BY <1>0, BeatNets, BeatSide, FinShape DEF BeatTypes, Beat!TypeOK
<1>3. /\ net' \in [Beat!Sides -> Seq(Beat!Byte)] /\ (cut => net' = net)
      /\ (~cut => net'[p] = Cat(net[p], Beat!Fin))
  BY <1>1, <1>2, SentIs
<1>4. state'[s] # "up" /\ state'[p] = state[p]
  BY <1>1, <1>2
<1>5. BeatTypes'
  <2>1. Beat!TypeOK'
    <3>1. state' \in [Beat!Sides -> {"up", "dead", "terminated", "unknown", "killed"}]
      BY <1>1, <1>2
    <3> QED
      BY <3>1, <1>0, <1>1, <1>3 DEF BeatTypes, Beat!TypeOK
  <2>2. \A x \in Beat!Sides : state'[x] = "up" => state[x] = "up"
    BY <1>1, <1>2
  <2> QED
    BY <2>1, <2>2, <1>0, <1>1 DEF BeatTypes
<1>6. \A x \in Beat!Sides : state'[x] = "up" => x = p /\ state[p] = "up"
  BY <1>1, <1>2, <1>4, Ends
<1>7. ~cut /\ state[p] = "up" => Frames(msg[p], net'[p]) /\ HasFin(net'[p])
  <2> SUFFICES ASSUME ~cut, state[p] = "up" PROVE Frames(msg[p], net'[p]) /\ HasFin(net'[p])
    OBVIOUS
  <2>1. Frames(msg[p], net[p]) /\ ~HasFin(net[p]) /\ msg[p] \in Seq(Beat!Byte) /\ net[p] \in Seq(Beat!Byte)
    BY <1>0, <1>1, <1>2, BeatSide DEF BeatFrames
  <2>2. Frames(msg[p], Cat(net[p], Beat!Fin)) /\ HasFin(Cat(net[p], Beat!Fin))
    BY <2>1, FramesEnd
  <2> QED
    BY <2>2, <1>3
<1>8. BeatFrames'
  <2>1. cut' => \A x \in Beat!Sides : net'[x] = <<>>
    BY <1>0, <1>1, <1>3 DEF BeatFrames
  <2>2. \A x \in Beat!Sides : Begun(msg'[x]) /\ state'[x] # "unknown"
    BY <1>0, <1>1, <1>2 DEF BeatFrames
  <2>3. Beat!Peer(p) = s
    BY BeatSide, <1>0
  <2>4. ~cut' => \A x \in Beat!Sides : state'[x] = "up" =>
           Frames(msg'[x], net'[x]) /\ (HasFin(net'[x]) <=> state'[Beat!Peer(x)] # "up")
    BY <2>3, <1>1, <1>4, <1>6, <1>7
  <2> QED
    BY <2>1, <2>2, <2>4 DEF BeatFrames
<1>9. BeatQuiet'
  BY <1>0, <1>1, <1>6 DEF BeatQuiet
<1>10. BeatClient'
  <2> SUFFICES ASSUME ~cut, state'[c] = "up", missed[c] > 0
               PROVE  Answered(net'[c], tv[c], Wait(missed[c]))
    BY <1>1 DEF BeatClient
  <2>1. p = c /\ state[c] = "up" /\ net[c] \in Seq(Beat!Byte) /\ net[v] \in Seq(Beat!Byte)
    BY <1>2, <1>6, Ends
  <2>2. tv[c] \in Nat /\ Wait(missed[c]) \in Nat
    <3>1. tv[c] \in Nat /\ missed[c] \in 0..3
      BY <2>1, <1>0, BeatSide, Ends
    <3> QED
      BY <3>1, Waits
  <2>3. Asked(net[v], tv[c], Wait(missed[c])) \/ Answered(net[c], tv[c], Wait(missed[c]))
    BY <2>1, <1>0 DEF BeatClient
  <2>4. CASE Answered(net[c], tv[c], Wait(missed[c]))
    BY <2>4, <2>1, <1>2, <1>3, Kept
  <2>5. CASE Asked(net[v], tv[c], Wait(missed[c]))
    <3>1. Delay + tv[c] >= Wait(missed[c])
      BY <2>1, <2>2, <2>5, NotLater
    <3> QED
      BY <3>1, <2>1, <2>2, <1>3, FinSent
  <2> QED
    BY <2>3, <2>4, <2>5
<1>11. BeatServer'
  <2> DEFINE l == Left(tv[v], missed[v])
  <2> SUFFICES ASSUME ~cut, state'[v] = "up"
               PROVE  InTime(net'[v], l) /\ state'[c] # "up"
    BY <1>1 DEF BeatServer
  <2>1. p = v /\ s = c /\ state[v] = "up" /\ net[v] \in Seq(Beat!Byte)
    BY <1>2, <1>6, Ends
  <2>2. l \in Nat /\ tv[c] \in Nat
    <3>1. tv[v] \in Nat /\ missed[v] \in 0..3 /\ tv[c] \in Nat
      BY <2>1, <1>0, BeatSide, Ends
    <3> QED
      BY <3>1, LeftIs
  <2>3. InTime(net[v], l) \/ l > tv[c] + Delay
    BY <2>1, <1>0 DEF BeatServer
  <2> HIDE DEF l
  <2>4. CASE InTime(net[v], l)
    BY <2>1, <2>4, <1>2, <1>3, <1>4, Kept
  <2>5. CASE l > tv[c] + Delay
    <3>1. l > Delay
      BY <2>2, <2>5, BeatTimes
    <3> QED
      BY <3>1, <2>1, <2>2, <1>3, <1>4, FinSent
  <2> QED
    BY <2>3, <2>4, <2>5
<1>12. BeatAlive'
  BY <1>0, <1>1, <1>2 DEF BeatAlive
<1> QED
  BY <1>5, <1>8, <1>9, <1>10, <1>11, <1>12 DEF BeatInv

\* The client's application has a message sent.
LEMMA BeatTalk ==
  ASSUME BeatInv, Beat!Talk PROVE BeatInv'
<1> DEFINE c == "client"
           v == "server"
           b == Beat!Message("data")
<1>0. /\ BeatTypes /\ BeatFrames /\ BeatQuiet /\ BeatClient /\ BeatServer /\ BeatAlive
  BY DEF BeatInv
<1>1. /\ state[c] = "up" /\ ~cut /\ net' = Beat!Sent(net, c, b)
      /\ tv' = tv /\ missed' = missed /\ msg' = msg /\ cut' = cut /\ state' = state /\ quiet' = quiet
  BY DEF Beat!Talk
<1>2. b \in Seq(Beat!Byte) /\ net \in [Beat!Sides -> Seq(Beat!Byte)] /\ net[v] \in Seq(Beat!Byte)
  BY <1>0, BeatNets, MessageShape, Ends
<1> HIDE DEF b
<1>3. /\ net' \in [Beat!Sides -> Seq(Beat!Byte)]
      /\ net'[v] = Cat(net[v], b) /\ net'[c] = net[c]
  <2>1. c \in Beat!Sides /\ Beat!Peer(c) = v
    BY Ends
  <2> QED
    BY <2>1, <1>1, <1>2, SentIs
<1>4. BeatTypes'
  BY <1>0, <1>1, <1>3 DEF BeatTypes, Beat!TypeOK
<1>5. BeatFrames'
  <2>1. \A x \in Beat!Sides : Begun(msg'[x]) /\ state'[x] # "unknown"
    BY <1>0, <1>1 DEF BeatFrames
  <2>2. ASSUME NEW x \in Beat!Sides, state[x] = "up"
        PROVE  Frames(msg[x], net'[x]) /\ (HasFin(net'[x]) <=> state[Beat!Peer(x)] # "up")
    <3>1. Frames(msg[x], net[x]) /\ (HasFin(net[x]) <=> state[Beat!Peer(x)] # "up")
      BY <1>0, <1>1, <2>2 DEF BeatFrames
    <3>2. CASE x = v
      <4>1. ~HasFin(net[v]) /\ msg[v] \in Seq(Beat!Byte) /\ Frames(msg[v], net[v])
        BY <3>1, <3>2, <1>0, <1>1, Ends, BeatSide
      <4>2. Frames(msg[v], Cat(net[v], b)) /\ ~HasFin(Cat(net[v], b))
        BY <4>1, <1>2, FramesMessage DEF b
      <4> QED
        BY <3>1, <3>2, <4>1, <4>2, <1>3
    <3>3. CASE x = c
      BY <3>1, <3>3, <1>3
    <3> QED
      BY <3>2, <3>3, Ends
  <2> QED
    BY <2>1, <2>2, <1>1 DEF BeatFrames
<1>6. BeatQuiet' /\ BeatAlive'
  BY <1>0, <1>1 DEF BeatQuiet, BeatAlive
<1>7. BeatClient'
  BY <1>0, <1>1, <1>2, <1>3, Kept DEF BeatClient
<1>8. BeatServer'
  BY <1>0, <1>1, <1>2, <1>3, Kept DEF BeatServer
<1> QED
  BY <1>4, <1>5, <1>6, <1>7, <1>8 DEF BeatInv

LEMMA BeatCutStep ==
  ASSUME BeatInv, Beat!Cut PROVE BeatInv'
<1>1. /\ cut' = TRUE /\ net' = [s \in Beat!Sides |-> <<>>]
      /\ tv' = tv /\ missed' = missed /\ msg' = msg /\ state' = state /\ quiet' = quiet
  BY DEF Beat!Cut
<1>2. net' \in [Beat!Sides -> Seq(Beat!Byte)]
  BY <1>1
<1>3. BeatTypes'
  BY <1>1, <1>2 DEF BeatInv, BeatTypes, Beat!TypeOK
<1>4. BeatQuiet' /\ \A s \in Beat!Sides : Begun(msg'[s]) /\ state'[s] # "unknown"
  BY <1>1 DEF BeatInv, BeatQuiet, BeatFrames
<1> QED
  BY <1>1, <1>3, <1>4, BeatCut

\* Time passes while nothing is to be done.
LEMMA BeatTick ==
  ASSUME BeatInv, Beat!Tick PROVE BeatInv'
<1> DEFINE c == "client"
           v == "server"
<1>0. /\ BeatTypes /\ BeatFrames /\ BeatQuiet /\ BeatClient /\ BeatServer /\ BeatAlive
  BY DEF BeatInv
<1>1. missed' = missed /\ msg' = msg /\ cut' = cut /\ state' = state
  BY DEF Beat!Tick
<1>2. ASSUME NEW s \in Beat!Sides
      PROVE  /\ state[s] = "up" => tv[s] > 0 /\ tv'[s] = tv[s] - 1 /\ quiet'[s] = Beat!Older(quiet[s])
             /\ state[s] # "up" => tv'[s] = tv[s] /\ quiet'[s] = quiet[s] /\ net'[s] = <<>>
  BY DEF Beat!Tick
<1>3. ASSUME NEW s \in Beat!Sides, state[s] = "up"
      PROVE  Aged(net[s], net'[s])
  <2> DEFINE n == net[s]
  <2>1. n \in Seq(Beat!Byte) /\ DOMAIN n = 1..Len(n) /\ Len(n) \in Nat
    BY <1>0, BeatSide
  <2>2. /\ net'[s] = [k \in DOMAIN n |-> [n[k] EXCEPT !.age = @ + 1]]
        /\ \A k \in DOMAIN n : n[k].age < Delay
    BY <1>3 DEF Beat!Tick
  <2> HIDE DEF n
  <2>3. ASSUME NEW k \in 1..Len(n)
        PROVE  /\ [n[k] EXCEPT !.age = @ + 1] \in Beat!Byte
               /\ [n[k] EXCEPT !.age = @ + 1].place = n[k].place
               /\ [n[k] EXCEPT !.age = @ + 1].type = n[k].type
               /\ [n[k] EXCEPT !.age = @ + 1].age = n[k].age + 1
    <3>1. n[k] \in Beat!Byte /\ n[k].age \in 0..Delay /\ n[k].age < Delay
      BY <2>1, <2>2, ByteParts
    <3>2. n[k].age + 1 \in 0..Delay
      BY <3>1, BeatTimes
    <3> QED
      BY <3>1, <3>2 DEF Beat!Byte
  <2>4. net'[s] \in Seq(Beat!Byte) /\ Len(net'[s]) = Len(n)
    BY <2>1, <2>2, <2>3
  <2>5. \A k \in 1..Len(n) : net'[s][k] = [n[k] EXCEPT !.age = @ + 1]
    BY <2>1, <2>2
  <2>6. Aged(n, net'[s])
    BY <2>1, <2>3, <2>4, <2>5 DEF Aged
  <2> QED
    BY <2>6 DEF n
<1>4. \A s \in Beat!Sides : /\ tv[s] \in Nat /\ tv[s] <= T1 + T2 + Residue /\ quiet[s] \in 0..Beat!MaxQuiet
                            /\ missed[s] \in 0..4 /\ net[s] \in Seq(Beat!Byte) /\ msg[s] \in Seq(Beat!Byte)
  <2>1. \A s \in Beat!Sides : quiet[s] \in 0..Beat!MaxQuiet
    BY <1>0 DEF BeatTypes, Beat!TypeOK
  <2> QED
    BY <2>1, <1>0, BeatSide
<1>5. Beat!MaxQuiet \in Nat
  BY Ends, BeatTimes DEF Beat!MaxQuiet
<1>6. ASSUME NEW s \in Beat!Sides
      PROVE  tv'[s] \in Nat /\ tv'[s] <= tv[s] /\ quiet'[s] \in 0..Beat!MaxQuiet /\ net'[s] \in Seq(Beat!Byte)
  <2>1. CASE state[s] = "up"
    BY <2>1, <1>2, <1>3, <1>4, <1>5 DEF Aged, Beat!Older
  <2>2. CASE state[s] # "up"
    <3>1. tv'[s] = tv[s] /\ quiet'[s] = quiet[s] /\ net'[s] = <<>>
      BY <2>2, <1>2
    <3> QED
      BY <3>1, <1>4
  <2> QED
    BY <2>1, <2>2
<1>7. BeatTypes'
  <2>1. tv' \in [Beat!Sides -> 0..(T1 + T2 + Residue)]
    <3>1. \A s \in Beat!Sides : tv'[s] \in 0..(T1 + T2 + Residue)
      BY <1>4, <1>6, BeatTimes
    <3>2. tv' = [s \in Beat!Sides |-> tv'[s]]
      BY DEF Beat!Tick
    <3> QED
      BY <3>1, <3>2
  <2>2. quiet' \in [Beat!Sides -> 0..Beat!MaxQuiet]
    <3>1. quiet' = [s \in Beat!Sides |-> quiet'[s]]
      BY DEF Beat!Tick
    <3> QED
      BY <3>1, <1>6
  <2>3. net' \in [Beat!Sides -> Seq(Beat!Byte)]
    <3>1. net' = [s \in Beat!Sides |-> net'[s]]
      BY DEF Beat!Tick
    <3> QED
      BY <3>1, <1>6
  <2>4. Beat!TypeOK'
    BY <2>1, <2>2, <2>3, <1>0, <1>1 DEF BeatTypes, Beat!TypeOK, Beat!MaxQuiet
  <2>5. ASSUME NEW s \in Beat!Sides
        PROVE  /\ (state[s] = "up" => missed[s] <= 3)
               /\ (missed[s] > 0 => tv'[s] <= T2)
               /\ (missed[s] = 0 => tv'[s] <= Beat!Idle(s) + Residue)
    <3>1. /\ (state[s] = "up" => missed[s] <= 3)
          /\ (missed[s] > 0 => tv[s] <= T2)
          /\ (missed[s] = 0 => tv[s] <= Beat!Idle(s) + Residue)
      BY <1>0 DEF BeatTypes
    <3>2. tv[s] \in Nat /\ tv'[s] \in Nat /\ tv'[s] <= tv[s] /\ Beat!Idle(s) \in Nat
      BY <1>4, <1>6, Ends, BeatTimes, SMTT(30)
    <3> QED
      BY <3>1, <3>2, BeatTimes
  <2> QED
    BY <2>4, <2>5, <1>1 DEF BeatTypes
<1>8. BeatFrames'
  <2>1. \A x \in Beat!Sides : Begun(msg'[x]) /\ state'[x] # "unknown"
    BY <1>0, <1>1 DEF BeatFrames
  <2>2. cut => \A x \in Beat!Sides : net'[x] = <<>>
    <3> SUFFICES ASSUME cut, NEW x \in Beat!Sides PROVE net'[x] = <<>>
      OBVIOUS
    <3>1. CASE state[x] = "up"
      <4>1. Aged(net[x], net'[x]) /\ net[x] = <<>>
        BY <3>1, <1>0, <1>3 DEF BeatFrames
      <4> QED
        BY <4>1 DEF Aged
    <3>2. CASE state[x] # "up"
      BY <3>2, <1>2
    <3> QED
      BY <3>1, <3>2
  <2>3. ASSUME ~cut, NEW x \in Beat!Sides, state[x] = "up"
        PROVE  Frames(msg[x], net'[x]) /\ (HasFin(net'[x]) <=> state[Beat!Peer(x)] # "up")
    <3>1. Frames(msg[x], net[x]) /\ (HasFin(net[x]) <=> state[Beat!Peer(x)] # "up")
      BY <1>0, <2>3 DEF BeatFrames
    <3>2. Aged(net[x], net'[x])
      BY <2>3, <1>3
    <3>3. Frames(msg[x], net'[x]) /\ (HasFin(net'[x]) <=> HasFin(net[x]))
      BY <3>1, <3>2, FramesSame DEF Aged
    <3> QED
      BY <3>1, <3>3
  <2> QED
    BY <2>1, <2>2, <2>3, <1>1 DEF BeatFrames
<1>9. BeatQuiet'
  <2> SUFFICES ASSUME NEW x \in Beat!Sides, state[x] = "up"
               PROVE  quiet'[x] + tv'[x] <= Beat!Idle(x) + Residue + Wait(missed[x])
    BY <1>1 DEF BeatQuiet
  <2>1. quiet[x] + tv[x] <= Beat!Idle(x) + Residue + Wait(missed[x])
    BY <1>0 DEF BeatQuiet
  <2>2. missed[x] \in 0..3 /\ Beat!Idle(x) \in Nat
    BY <1>0, BeatSide, Ends, BeatTimes, SMTT(30)
  <2>3. Wait(missed[x]) \in Nat
    BY <2>2, Waits
  <2>4. tv'[x] = tv[x] - 1 /\ tv[x] > 0 /\ tv[x] \in Nat /\ quiet[x] \in Nat /\ quiet'[x] \in Nat /\ quiet'[x] <= quiet[x] + 1
    BY <1>2, <1>4, <1>5 DEF Beat!Older
  <2> QED
    BY <2>1, <2>2, <2>3, <2>4, BeatTimes
<1>10. BeatClient'
  <2> SUFFICES ASSUME ~cut, state[c] = "up", missed[c] > 0
               PROVE  \/ state[v] = "up" /\ Asked(net'[v], tv'[c], Wait(missed[c]))
                      \/ Answered(net'[c], tv'[c], Wait(missed[c]))
    BY <1>1 DEF BeatClient
  <2>1. /\ tv'[c] = tv[c] - 1 /\ tv[c] \in Nat /\ Aged(net[c], net'[c])
        /\ (state[v] = "up" => Aged(net[v], net'[v]))
    BY <1>2, <1>3, <1>4, Ends
  <2>2. missed[c] \in 0..3
    BY <1>0, BeatSide, Ends
  <2>3. Wait(missed[c]) \in Int
    BY <2>2, Waits
  <2>4. \/ state[v] = "up" /\ Asked(net[v], tv[c], Wait(missed[c]))
        \/ Answered(net[c], tv[c], Wait(missed[c]))
    BY <1>0 DEF BeatClient
  <2> QED
    BY <2>1, <2>3, <2>4, OlderBytes
<1>11. BeatServer'
  <2> DEFINE l == Left(tv[v], missed[v])
             k == Left(tv'[v], missed[v])
  <2> SUFFICES ASSUME ~cut, state[v] = "up"
               PROVE  /\ InTime(net'[v], k) \/ (state[c] = "up" /\ k > tv'[c] + Delay)
                      /\ state[c] = "up" => Recent(net'[c], k)
    BY <1>1 DEF BeatServer
  <2>1. /\ InTime(net[v], l) \/ (state[c] = "up" /\ l > tv[c] + Delay)
        /\ state[c] = "up" => Recent(net[c], l)
    BY <1>0 DEF BeatServer
  <2>2. k = l - 1 /\ l \in Nat /\ 0 \in Int
    <3>1. tv[v] \in Nat /\ missed[v] \in 0..3 /\ tv[v] > 0 /\ tv'[v] = tv[v] - 1
      BY <1>0, <1>2, BeatSide, Ends
    <3>2. Left(tv[v] - 1, missed[v]) = Left(tv[v], missed[v]) - 1 /\ Left(tv[v], missed[v]) \in Nat
      BY <3>1, LeftIs
    <3> QED
      BY <3>1, <3>2
  <2>3. Aged(net[v], net'[v]) /\ (state[c] = "up" => Aged(net[c], net'[c]))
    BY <1>3, Ends
  <2>4. state[c] = "up" => tv'[c] = tv[c] - 1 /\ tv[c] \in Nat
    BY <1>2, <1>4, Ends
  <2> HIDE DEF l, k
  <2>5. InTime(net[v], l) => InTime(net'[v], k)
    BY <2>2, <2>3, OlderBytes
  <2>6. state[c] = "up" => (Recent(net[c], l) => Recent(net'[c], k))
    BY <2>2, <2>3, OlderBytes
  <2>7. state[c] = "up" => (l > tv[c] + Delay => k > tv'[c] + Delay)
    BY <2>2, <2>4, BeatTimes
  <2> QED
    BY <2>1, <2>5, <2>6, <2>7
<1>12. BeatAlive'
  BY <1>0, <1>1 DEF BeatAlive
<1> QED
  BY <1>7, <1>8, <1>9, <1>10, <1>11, <1>12 DEF BeatInv

\* What a side has after it has heard something.
LEMMA HeardIs ==
  ASSUME BeatTypes, NEW s \in Beat!Sides, Beat!Heard(s)
  PROVE  /\ missed' \in [Beat!Sides -> 0..4] /\ tv' \in [Beat!Sides -> 0..(T1 + T2 + Residue)]
         /\ missed'[s] = 0 /\ tv'[s] >= Beat!Idle(s) /\ tv'[s] <= Beat!Idle(s) + Residue
         /\ \A x \in Beat!Sides : x # s => missed'[x] = missed[x] /\ tv'[x] = tv[x]
<1>1. PICK r \in 0..Residue : tv' = [tv EXCEPT ![s] = Beat!Idle(s) + r]
  BY DEF Beat!Heard
<1>2. missed' = [missed EXCEPT ![s] = 0]
  BY DEF Beat!Heard
<1>3. missed \in [Beat!Sides -> 0..4] /\ tv \in [Beat!Sides -> 0..(T1 + T2 + Residue)]
  BY Ends DEF BeatTypes, Beat!TypeOK
<1>4. Beat!Idle(s) \in Nat /\ Beat!Idle(s) <= T1 + T2
  BY Ends, BeatTimes
<1>5. r \in Nat /\ r <= Residue /\ Beat!Idle(s) + r \in 0..(T1 + T2 + Residue)
  BY <1>4, BeatTimes
<1>6. tv'[s] = Beat!Idle(s) + r
  BY <1>1, <1>3
<1> QED
  BY <1>1, <1>2, <1>3, <1>4, <1>5, <1>6, BeatTimes

\* A whole message that has begun is one of its kind.
LEMMA WholeMessage ==
  ASSUME NEW b \in Seq(Beat!Byte), Begun(b), Len(b) = Size
  PROVE  Beat!Type(b) = b[1].type /\ Beat!Type(b) \in {"data", "heartbeat"}
<1>1. DOMAIN b = 1..Size /\ 1 \in DOMAIN b
  BY BeatTimes
<1>2. Beat!Type(b) = b[1].type
  BY <1>1 DEF Beat!Type, Begun
<1>3. b[1].type # "fin" /\ b[1].type \in {"data", "heartbeat", "fin"}
  BY <1>1, ByteParts DEF Begun
<1> QED
  BY <1>2, <1>3

\* The end is read.
LEMMA BeatEof ==
  ASSUME BeatInv, NEW s \in Beat!Sides, Beat!Receive(s), net[s][1].type = "fin" PROVE BeatInv'
<1> DEFINE p == Beat!Peer(s)
           n == [net EXCEPT ![s] = <<>>]
<1>0. /\ BeatTypes /\ BeatFrames /\ BeatQuiet /\ BeatClient /\ BeatServer /\ BeatAlive
  BY DEF BeatInv
<1>1. /\ state[s] = "up" /\ net[s] # <<>> /\ net' = Beat!Sent(n, s, Beat!Fin)
      /\ state' = [state EXCEPT ![s] = "terminated"]
      /\ tv' = tv /\ missed' = missed /\ msg' = msg /\ quiet' = quiet /\ cut' = cut
  BY DEF Beat!Receive, Beat!Exit
<1>2. /\ net \in [Beat!Sides -> Seq(Beat!Byte)] /\ Beat!Fin \in Seq(Beat!Byte)
      /\ state \in [Beat!Sides -> {"up", "dead", "terminated", "unknown", "killed"}]
      /\ p \in Beat!Sides /\ p # s
  BY <1>0, BeatNets, BeatSide, FinShape DEF BeatTypes, Beat!TypeOK
<1>3. ~cut
  BY <1>0, <1>1 DEF BeatFrames
<1>4. state[p] # "up"
  <2>1. net[s] \in Seq(Beat!Byte) /\ Frames(msg[s], net[s]) /\ (HasFin(net[s]) => state[p] # "up")
    BY <1>0, <1>1, <1>2, <1>3 DEF BeatFrames
  <2>2. 1 \in DOMAIN net[s]
    BY <2>1, <1>1
  <2>3. 1 = Len(net[s])
    BY <2>1, <2>2 DEF Frames
  <2> QED
    BY <2>1, <2>3, <1>1 DEF HasFin
<1>5. \A x \in Beat!Sides : state'[x] # "up"
  BY <1>1, <1>2, <1>4, Ends
<1>6. net' \in [Beat!Sides -> Seq(Beat!Byte)]
  <2>1. n \in [Beat!Sides -> Seq(Beat!Byte)]
    BY <1>2
  <2> HIDE DEF n
  <2> QED
    BY <2>1, <1>1, <1>2, SentIs
<1>7. BeatTypes'
  <2>1. state' \in [Beat!Sides -> {"up", "dead", "terminated", "unknown", "killed"}]
    BY <1>1, <1>2
  <2> QED
    BY <2>1, <1>0, <1>1, <1>5, <1>6 DEF BeatTypes, Beat!TypeOK
<1>8. BeatFrames' /\ BeatAlive'
  BY <1>0, <1>1, <1>2, <1>3, <1>5 DEF BeatFrames, BeatAlive
<1>9. BeatQuiet' /\ BeatClient' /\ BeatServer'
  BY <1>5, Ends DEF BeatQuiet, BeatClient, BeatServer
<1> QED
  BY <1>7, <1>8, <1>9 DEF BeatInv

\* Part of a message, or its end, is read; the server sends a whole heartbeat back.
LEMMA BeatBytes ==
  ASSUME BeatInv, NEW s \in Beat!Sides, Beat!Receive(s), net[s][1].type # "fin" PROVE BeatInv'
<1> DEFINE c == "client"
           v == "server"
           n == net[s]
           h == Beat!Message("heartbeat")
<1>0. /\ BeatTypes /\ BeatFrames /\ BeatQuiet /\ BeatClient /\ BeatServer /\ BeatAlive
  BY DEF BeatInv
<1>1. PICK j \in 1..(Size - Len(msg[s])) :
         /\ j <= Len(net[s]) /\ \A k \in 1..j : net[s][k].type # "fin"
         /\ Beat!Heard(s)
         /\ msg' = [msg EXCEPT ![s] = Beat!NextMsg(msg[s] \o SubSeq(net[s], 1, j))]
         /\ Beat!Process(s, msg[s] \o SubSeq(net[s], 1, j),
                         [net EXCEPT ![s] = SubSeq(net[s], j + 1, Len(net[s]))])
         /\ quiet' = [quiet EXCEPT ![s] = 0]
  BY DEF Beat!Receive
<1> DEFINE b == Cat(msg[s], SubSeq(net[s], 1, j))
           u == Without(net[s], j)
           rest == [net EXCEPT ![s] = u]
<1>2. /\ Beat!Heard(s) /\ msg' = [msg EXCEPT ![s] = IF Len(b) < Size THEN b ELSE <<>>]
      /\ Beat!Process(s, b, rest) /\ quiet' = [quiet EXCEPT ![s] = 0]
      /\ state[s] = "up" /\ net[s] # <<>> /\ cut' = cut
  BY <1>1 DEF Beat!Receive, Beat!NextMsg, Cat, Without
<1>3. /\ net \in [Beat!Sides -> Seq(Beat!Byte)] /\ msg \in [Beat!Sides -> Seq(Beat!Byte)]
      /\ state \in [Beat!Sides -> {"up", "dead", "terminated", "unknown", "killed"}]
      /\ quiet \in [Beat!Sides -> 0..Beat!MaxQuiet] /\ Beat!MaxQuiet \in Nat
      /\ n \in Seq(Beat!Byte) /\ msg[s] \in Seq(Beat!Byte) /\ j \in 1..Len(n) /\ Len(msg[s]) < Size
      /\ Len(msg[s]) \in Nat /\ h \in Seq(Beat!Byte)
  <2>1. Beat!MaxQuiet \in Nat
    BY Ends, BeatTimes DEF Beat!MaxQuiet
  <2>2. n \in Seq(Beat!Byte) /\ msg[s] \in Seq(Beat!Byte) /\ Len(msg[s]) < Size
    BY <1>0, BeatSide
  <2>3. j \in 1..Len(n) /\ Len(msg[s]) \in Nat
    BY <1>1, <2>2
  <2> QED
    BY <2>1, <2>2, <2>3, <1>0, BeatNets, MessageShape DEF BeatTypes, Beat!TypeOK
<1>4. ~cut
  BY <1>0, <1>2 DEF BeatFrames
<1>5. /\ Frames(msg[s], n) /\ (HasFin(n) <=> state[Beat!Peer(s)] # "up") /\ Begun(msg[s])
  BY <1>0, <1>2, <1>4 DEF BeatFrames
<1>6. Taken(msg[s], n, j, b, u)
  <2>1. \A k \in 1..j : n[k].type # "fin"
    BY <1>1
  <2> QED
    BY <2>1, <1>1, <1>3, <1>5, FramesTake
<1> HIDE DEF b, u, h
<1>7. /\ b \in Seq(Beat!Byte) /\ Len(b) \in Nat /\ Len(b) <= Size /\ Begun(b) /\ u \in Seq(Beat!Byte)
      /\ (Len(b) = Size => b[1].type = n[j].type) /\ n[j].place = Len(b)
      /\ Frames(IF Len(b) < Size THEN b ELSE <<>>, u) /\ (HasFin(u) <=> HasFin(n))
  <2>1. Len(b) = Len(msg[s]) + j /\ j \in Nat /\ j <= Size - Len(msg[s])
    BY <1>6, <1>3, BeatTimes DEF Taken
  <2>2. Len(b) \in Nat /\ Len(b) <= Size
    BY <2>1, <1>3, BeatTimes
  <2> QED
    BY <2>2, <1>6 DEF Taken, Rest
<1>8. rest \in [Beat!Sides -> Seq(Beat!Byte)] /\ rest[s] = u /\ \A x \in Beat!Sides : x # s => rest[x] = net[x]
  BY <1>3, <1>7
<1> HIDE DEF rest
<1>9. /\ state' = state
      /\ \/ net' = rest /\ (s = c \/ Len(b) < Size \/ n[j].type = "data")
         \/ s = v /\ Len(b) = Size /\ net' = Beat!Sent(rest, v, h) /\ n[j].type = "heartbeat"
  <2>1. CASE s = c \/ Len(b) < Size
    BY <2>1, <1>2 DEF Beat!Process
  <2>2. CASE s = v /\ ~(Len(b) < Size)
    <3>1. Len(b) = Size
      BY <2>2, <1>7, BeatTimes
    <3>2. Beat!Type(b) = n[j].type /\ Beat!Type(b) \in {"data", "heartbeat"}
      BY <3>1, <1>7, WholeMessage
    <3>3. CASE Beat!Type(b) = "data"
      BY <2>2, <3>2, <3>3, <1>2, Ends DEF Beat!Process
    <3>4. CASE Beat!Type(b) = "heartbeat"
      BY <2>2, <3>1, <3>2, <3>4, <1>2, Ends DEF Beat!Process, h
    <3> QED
      BY <3>2, <3>3, <3>4
  <2> QED
    BY <2>1, <2>2, Ends
<1>10. /\ net' \in [Beat!Sides -> Seq(Beat!Byte)] /\ net'[s] = u
       /\ s = c => net'[v] = net[v]
       /\ s = v => net'[c] = net[c] \/ net'[c] = Cat(net[c], h)
       /\ s = v /\ Len(b) = Size /\ n[j].type = "heartbeat" => net'[c] = Cat(net[c], h)
  <2>1. CASE net' = rest /\ (s = c \/ Len(b) < Size \/ n[j].type = "data")
    BY <2>1, <1>8, <1>7, Ends, BeatTimes
  <2>2. CASE s = v /\ net' = Beat!Sent(rest, v, h)
    <3>1. v \in Beat!Sides /\ Beat!Peer(v) = c /\ c \in Beat!Sides /\ c # v
      BY Ends
    <3>2. net' \in [Beat!Sides -> Seq(Beat!Byte)] /\ net'[c] = Cat(rest[c], h) /\ net'[v] = rest[v]
      <4>1. /\ Beat!Sent(rest, v, h) \in [Beat!Sides -> Seq(Beat!Byte)]
            /\ Beat!Sent(rest, v, h)[Beat!Peer(v)] = Cat(rest[Beat!Peer(v)], h)
            /\ Beat!Sent(rest, v, h)[v] = rest[v]
        BY <3>1, <1>3, <1>4, <1>8, SentIs
      <4> QED
        BY <4>1, <3>1, <2>2
    <3> QED
      BY <2>2, <3>1, <3>2, <1>8
  <2> QED
    BY <2>1, <2>2, <1>9
<1>11. /\ missed' \in [Beat!Sides -> 0..4] /\ tv' \in [Beat!Sides -> 0..(T1 + T2 + Residue)]
       /\ missed'[s] = 0 /\ tv'[s] >= Beat!Idle(s) /\ tv'[s] <= Beat!Idle(s) + Residue
       /\ \A x \in Beat!Sides : x # s => missed'[x] = missed[x] /\ tv'[x] = tv[x]
  BY <1>0, <1>2, HeardIs
<1>12. BeatTypes'
  <2>1. msg' \in [Beat!Sides -> Seq(Beat!Byte)] /\ \A x \in Beat!Sides : Len(msg'[x]) < Size
    <3>1. (IF Len(b) < Size THEN b ELSE <<>>) \in Seq(Beat!Byte) /\ Len(IF Len(b) < Size THEN b ELSE <<>>) < Size
      BY <1>7, BeatTimes
    <3>2. \A x \in Beat!Sides : Len(msg[x]) < Size
      BY <1>0, BeatSide
    <3> QED
      BY <3>1, <3>2, <1>2, <1>3
  <2>2. quiet' \in [Beat!Sides -> 0..Beat!MaxQuiet]
    BY <1>2, <1>3
  <2>3. Beat!TypeOK'
    <3>1. cut' \in BOOLEAN /\ state' \in [Beat!Sides -> {"up", "dead", "terminated", "unknown", "killed"}]
      <4>1. cut \in BOOLEAN
        BY <1>0 DEF BeatTypes, Beat!TypeOK
      <4> QED
        BY <4>1, <1>2, <1>3, <1>9
    <3>2. net' \in [Beat!Sides -> Seq(Beat!Byte)]
      BY <1>10
    <3> QED
      BY <2>1, <2>2, <3>1, <3>2, <1>11, Ends DEF Beat!TypeOK, Beat!MaxQuiet
  <2>4. ASSUME NEW x \in Beat!Sides
        PROVE  /\ (state[x] = "up" => missed'[x] <= 3)
               /\ (missed'[x] > 0 => tv'[x] <= T2)
               /\ (missed'[x] = 0 => tv'[x] <= Beat!Idle(x) + Residue)
    <3>1. CASE x = s
      BY <3>1, <1>11
    <3>2. CASE x # s
      BY <3>2, <1>0, <1>11 DEF BeatTypes
    <3> QED
      BY <3>1, <3>2
  <2> QED
    BY <2>3, <2>4, <1>9 DEF BeatTypes
<1>13. BeatFrames'
  <2>1. \A x \in Beat!Sides : Begun(msg'[x]) /\ state'[x] # "unknown"
    <3>1. Begun(<<>>)
      BY DEF Begun
    <3>2. \A x \in Beat!Sides : Begun(msg[x]) /\ state[x] # "unknown"
      BY <1>0 DEF BeatFrames
    <3> QED
      BY <3>1, <3>2, <1>2, <1>3, <1>7, <1>9
  <2>2. ASSUME NEW x \in Beat!Sides, state[x] = "up"
        PROVE  Frames(msg'[x], net'[x]) /\ (HasFin(net'[x]) <=> state[Beat!Peer(x)] # "up")
    <3>1. CASE x = s
      <4>1. msg'[x] = IF Len(b) < Size THEN b ELSE <<>>
        BY <3>1, <1>2, <1>3
      <4> QED
        BY <3>1, <4>1, <1>5, <1>7, <1>10
    <3>2. CASE x # s
      <4>1. /\ Frames(msg[x], net[x]) /\ (HasFin(net[x]) <=> state[Beat!Peer(x)] # "up")
            /\ msg'[x] = msg[x] /\ Beat!Peer(x) = s /\ msg[x] \in Seq(Beat!Byte) /\ net[x] \in Seq(Beat!Byte)
        BY <3>2, <2>2, <1>0, <1>2, <1>3, <1>4, Ends DEF BeatFrames
      <4>2. CASE net'[x] = net[x]
        BY <4>1, <4>2
      <4>3. CASE net'[x] = Cat(net[x], h)
        <5>1. ~HasFin(net[x])
          BY <4>1, <1>2
        <5>2. Frames(msg[x], Cat(net[x], h)) /\ ~HasFin(Cat(net[x], h))
          BY <4>1, <5>1, FramesMessage DEF h
        <5> QED
          BY <4>1, <4>3, <5>1, <5>2
      <4> QED
        BY <3>2, <4>2, <4>3, <1>10, Ends
    <3> QED
      BY <3>1, <3>2
  <2> QED
    BY <2>1, <2>2, <1>2, <1>4, <1>9 DEF BeatFrames
<1>14. BeatQuiet'
  <2> SUFFICES ASSUME NEW x \in Beat!Sides, state[x] = "up"
               PROVE  quiet'[x] + tv'[x] <= Beat!Idle(x) + Residue + Wait(missed'[x])
    BY <1>9 DEF BeatQuiet
  <2>1. CASE x = s
    <3>1. quiet'[x] = 0 /\ missed'[x] = 0 /\ Wait(0) = 0 /\ tv'[x] \in Nat /\ Beat!Idle(x) \in Nat
      <4>1. quiet'[s] = 0
        BY <1>2, <1>3
      <4>2. tv'[s] \in Nat /\ Beat!Idle(s) \in Nat
        BY <1>11, Ends, BeatTimes
      <4> QED
        BY <2>1, <4>1, <4>2, <1>11, Waits
    <3> QED
      BY <2>1, <3>1, <1>11, BeatTimes
  <2>2. CASE x # s
    BY <2>2, <1>0, <1>2, <1>3, <1>11 DEF BeatQuiet
  <2> QED
    BY <2>1, <2>2
<1>15. BeatClient'
  <2> SUFFICES ASSUME state[c] = "up", missed'[c] > 0
               PROVE  \/ state[v] = "up" /\ Asked(net'[v], tv'[c], Wait(missed'[c]))
                      \/ Answered(net'[c], tv'[c], Wait(missed'[c]))
    BY <1>9 DEF BeatClient
  <2>1. s = v
    BY <1>11, Ends
  <2>2. missed'[c] = missed[c] /\ tv'[c] = tv[c]
    BY <2>1, <1>11, Ends
  <2>3. tv[c] \in Nat /\ Wait(missed[c]) \in Nat /\ net[c] \in Seq(Beat!Byte)
    <3>1. tv[c] \in Nat /\ missed[c] \in 0..3
      BY <1>0, BeatSide, Ends
    <3> QED
      BY <3>1, <1>3, Waits, Ends
  <2>4. \/ Asked(n, tv[c], Wait(missed[c]))
        \/ Answered(net[c], tv[c], Wait(missed[c]))
    BY <2>1, <2>2, <1>0, <1>4 DEF BeatClient
  <2>5. CASE Answered(net[c], tv[c], Wait(missed[c]))
    BY <2>1, <2>2, <2>3, <2>5, <1>3, <1>10, Kept
  <2>6. CASE Asked(n, tv[c], Wait(missed[c]))
    <3>1. PICK k \in DOMAIN n : n[k].place = Size /\ n[k].type = "heartbeat" /\ n[k].age + tv[c] >= Wait(missed[c])
      BY <2>6 DEF Asked
    <3>2. CASE k > j
      <4>1. k - j \in DOMAIN u /\ (k - j) + j = k
        <5>1. k \in 1..Len(n) /\ Len(n) \in Nat /\ Len(u) = Len(n) - j /\ DOMAIN u = 1..Len(u)
          BY <1>3, <1>6 DEF Taken, Rest
        <5> QED
          BY <5>1, <3>2, <1>3, SMTT(30)
      <4>2. u[k - j] = n[k]
        BY <4>1, <1>6 DEF Taken, Rest
      <4>3. Asked(u, tv[c], Wait(missed[c]))
        BY <4>1, <4>2, <3>1 DEF Asked
      <4> QED
        BY <4>3, <2>1, <2>2, <1>2, <1>10
    <3>3. CASE ~(k > j)
      <4>1. k \in 1..j
        BY <3>3, <1>3
      <4>2. k = j
        BY <4>1, <3>1, <1>6, BeatTimes DEF Taken
      <4>3. Len(b) = Size /\ n[j].type = "heartbeat"
        BY <4>2, <3>1, <1>7
      <4>4. net'[c] = Cat(net[c], h)
        BY <4>3, <2>1, <1>10
      <4>5. Delay + tv[c] >= Wait(missed[c])
        BY <2>3, <2>6, <1>3, NotLater
      <4>6. Answered(Cat(net[c], h), tv[c], Wait(missed[c]))
        BY <4>5, <2>3, MessageSent DEF h
      <4> QED
        BY <4>4, <4>6, <2>2
    <3> QED
      BY <3>2, <3>3
  <2> QED
    BY <2>4, <2>5, <2>6
<1>16. BeatServer'
  <2> DEFINE l == Left(tv'[v], missed'[v])
  <2> SUFFICES ASSUME state[v] = "up"
               PROVE  /\ InTime(net'[v], l) \/ (state[c] = "up" /\ l > tv'[c] + Delay)
                      /\ state[c] = "up" => Recent(net'[c], l)
    BY <1>9 DEF BeatServer
  <2>1. CASE s = v
    <3>1. /\ tv'[v] \in Nat /\ missed'[v] = 0 /\ tv'[v] >= T1 + T2 /\ tv'[c] = tv[c] /\ tv[c] \in Nat
          /\ net'[v] = u /\ net'[c] \in Seq(Beat!Byte)
      BY <2>1, <1>0, <1>10, <1>11, Ends, BeatSide
    <3>2. l = tv'[v] + 3 * T2
      BY <3>1, LeftIs
    <3>3. l \in Nat /\ l >= T1 + 4 * T2
      BY <3>1, <3>2, BeatTimes
    <3> HIDE DEF l
    <3>4. Recent(net'[c], l)
      <4>1. \A k \in DOMAIN net'[c] : net'[c][k].age \in Nat
        BY <3>1, ByteParts, BeatTimes
      <4>2. \A k \in DOMAIN net'[c] : l + net'[c][k].age >= T1 + 4 * T2
        BY <4>1, <3>3, BeatTimes
      <4> QED
        BY <4>2 DEF Recent
    <3>5. CASE state[c] = "up"
      <4>1. tv[c] <= T1 + Residue \/ tv[c] <= T2
        BY <1>0, BeatSide, Ends
      <4>2. l > tv[c] + Delay
        BY <4>1, <3>1, <3>3, BeatTimes
      <4> QED
        BY <4>2, <3>1, <3>4, <3>5
    <3>6. CASE state[c] # "up"
      <4>1. HasFin(u)
        BY <2>1, <3>6, <1>5, <1>7, Ends
      <4>2. l > Delay
        BY <3>3, BeatTimes
      <4> QED
        BY <4>1, <4>2, <3>1, <3>3, <3>6, <1>7, FinInTime
    <3> QED
      BY <3>5, <3>6
  <2>2. CASE s = c
    <3>1. /\ tv'[v] = tv[v] /\ missed'[v] = missed[v] /\ net'[v] = net[v] /\ net'[c] = u
          /\ tv'[c] <= T1 + Residue /\ tv'[c] \in Nat /\ state[c] = "up"
      BY <2>2, <1>2, <1>10, <1>11, Ends
    <3>2. l \in Nat
      <4>1. tv[v] \in Nat /\ missed[v] \in 0..3
        BY <1>0, BeatSide, Ends
      <4> QED
        BY <3>1, <4>1, LeftIs
    <3>3. Recent(n, l)
      BY <2>2, <3>1, <1>0, <1>4 DEF BeatServer
    <3> HIDE DEF l
    <3>4. Recent(u, l)
      BY <3>3, <1>3, <1>6, RestRecent DEF Taken
    <3>5. l > tv'[c] + Delay
      <4>1. 1 \in DOMAIN n /\ n[1].type # "fin" /\ n[1] \in Beat!Byte
        BY <1>1, <1>3
      <4>2. l + n[1].age >= T1 + 4 * T2 /\ n[1].age \in 0..Delay
        BY <4>1, <3>3, ByteParts DEF Recent
      <4>3. /\ T1 \in Nat /\ T2 \in Nat /\ Delay \in Nat /\ Residue \in Nat
            /\ Delay <= T2 /\ Residue <= T2 /\ T2 > 0 /\ n[1].age \in Nat /\ n[1].age <= Delay
        BY <4>2, BeatTimes
      <4>4. l >= T1 + 4 * T2 - Delay
        BY <4>2, <4>3, <3>2
      <4>5. T1 + 4 * T2 - Delay > T1 + Residue + Delay
        BY <4>3
      <4> QED
        BY <4>3, <4>4, <4>5, <3>1, <3>2
    <3> QED
      BY <3>1, <3>4, <3>5
  <2> QED
    BY <2>1, <2>2, Ends
<1>17. BeatAlive'
  BY <1>0, <1>2, <1>9 DEF BeatAlive
<1> QED
  BY <1>12, <1>13, <1>14, <1>15, <1>16, <1>17 DEF BeatInv

LEMMA BeatNext ==
  ASSUME BeatInv, Beat!Next \/ UNCHANGED Beat!vars PROVE BeatInv'
<1>1. ASSUME NEW s \in Beat!Sides, Beat!Receive(s) PROVE BeatInv'
  BY <1>1, BeatEof, BeatBytes
<1>2. ASSUME UNCHANGED Beat!vars PROVE BeatInv'
  BY <1>2 DEF Beat!vars, BeatInv, BeatTypes, Beat!TypeOK, BeatFrames, BeatQuiet, BeatClient, BeatServer, BeatAlive
<1> QED
  BY <1>1, <1>2, BeatTimeout, BeatKill, BeatTalk, BeatCutStep, BeatTick DEF Beat!Next

LEMMA BeatSafe ==
  ASSUME BeatInv PROVE Beat!TypeOK /\ Beat!NoFalseAlarm /\ Beat!InStep /\ Beat!NoticedInTime
<1>1. Beat!TypeOK /\ Beat!NoFalseAlarm
  BY DEF BeatInv, BeatTypes, BeatAlive, Beat!NoFalseAlarm
<1>2. Beat!InStep
  BY Ends DEF BeatInv, BeatFrames, Begun, Beat!InStep
<1>3. Beat!NoticedInTime
  <2> SUFFICES ASSUME NEW s \in Beat!Sides, state[s] = "up"
               PROVE  quiet[s] <= Beat!Idle(s) + Residue + 3 * T2
    BY Ends DEF Beat!NoticedInTime
  <2>1. quiet[s] + tv[s] <= Beat!Idle(s) + Residue + Wait(missed[s])
    BY DEF BeatInv, BeatQuiet
  <2>2. missed[s] \in 0..3 /\ tv[s] \in Nat /\ quiet[s] \in Nat
    BY BeatSide DEF BeatInv
  <2>3. Wait(missed[s]) \in Nat /\ Wait(missed[s]) <= 3 * T2
    BY <2>2, Waits
  <2>4. Beat!Idle(s) \in Nat
    BY Ends, BeatTimes
  <2> QED
    BY <2>1, <2>2, <2>3, <2>4, BeatTimes
<1> QED
  BY <1>1, <1>2, <1>3

-------------------------------------------------------------------------------
(***************************************************************************)
(* The heartbeats of heartBeat2, on a connection of their own.             *)
(***************************************************************************)
Part == [kind : Beat2!Kinds, age : 0..Delay]

LEMMA PartIs ==
  /\ \A e \in Part : e.kind \in {"byte", "fin"} /\ e.age \in Nat /\ e.age <= Delay
  /\ \A kind \in {"byte", "fin"} : [kind |-> kind, age |-> 0] \in Part
BY BeatTimes DEF Part, Beat2!Kinds

\* A connection on which q is under way to a side and r has arrived there: its
\* sender has not ended; it has, and the end is the last that comes.
Open(q, r) ==
    /\ \A k \in DOMAIN q : q[k].kind # "fin"
    /\ \A k \in DOMAIN r : r[k] # "fin"
Shut(q, r) ==
    /\ q # <<>> => q[Len(q)].kind = "fin"
    /\ q = <<>> => r # <<>> /\ r[Len(r)] = "fin"
    /\ \A k \in DOMAIN q : q[k].kind = "fin" => k = Len(q)
    /\ \A k \in DOMAIN r : r[k] = "fin" => k = Len(r) /\ q = <<>>

\* One of the parts under way is at least so old that w is reached after t.
Due(n, t, w) == \E k \in DOMAIN n : n[k].age + t >= w
\* The answers to what the server has just received; l is the time until it gives up.
Recent2(n, l) == \A k \in DOMAIN n : n[k].kind # "fin" => l + n[k].age >= T1 + 4 * T2

\* The elements of a sequence that grows at its end or loses its first one.
LEMMA Appended ==
  ASSUME NEW S, NEW q \in Seq(S), NEW e \in S
  PROVE  /\ Append(q, e) \in Seq(S) /\ Len(Append(q, e)) = Len(q) + 1 /\ Append(q, e) # <<>>
         /\ DOMAIN Append(q, e) = 1..(Len(q) + 1) /\ DOMAIN q = 1..Len(q) /\ Len(q) \in Nat
         /\ Append(q, e)[Len(q) + 1] = e
         /\ \A k \in 1..Len(q) : Append(q, e)[k] = q[k]
OBVIOUS

LEMMA Tailed ==
  ASSUME NEW S, NEW q \in Seq(S), q # <<>>
  PROVE  /\ Tail(q) \in Seq(S) /\ Len(Tail(q)) = Len(q) - 1 /\ Len(q) \in Nat /\ Len(q) >= 1
         /\ DOMAIN Tail(q) = 1..(Len(q) - 1) /\ DOMAIN q = 1..Len(q) /\ Head(q) = q[1] /\ Head(q) \in S
         /\ \A k \in 1..(Len(q) - 1) : Tail(q)[k] = q[k + 1]
OBVIOUS

LEMMA DueAppend ==
  ASSUME NEW n \in Seq(Part), NEW e \in Part, NEW t \in Nat, NEW w \in Int
  PROVE  /\ Due(n, t, w) => Due(Append(n, e), t, w)
         /\ e.age = 0 /\ t >= w => Due(Append(n, e), t, w)
<1> DEFINE u == Append(n, e)
<1>1. /\ DOMAIN u = 1..(Len(n) + 1) /\ DOMAIN n = 1..Len(n) /\ Len(n) \in Nat
      /\ u[Len(n) + 1] = e /\ \A k \in 1..Len(n) : u[k] = n[k]
  BY Appended
<1> HIDE DEF u
<1>2. \A k \in DOMAIN n : k \in DOMAIN u /\ u[k] = n[k]
  BY <1>1
<1>3. Len(n) + 1 \in DOMAIN u
  BY <1>1
<1>4. 0 + t = t
  OBVIOUS
<1> QED
  BY <1>1, <1>2, <1>3, <1>4 DEF Due, u

LEMMA DueTail ==
  ASSUME NEW n \in Seq(Part), n # <<>>, NEW t \in Nat, NEW w \in Int, Due(n, t, w)
  PROVE  Due(Tail(n), t, w) \/ Delay + t >= w
<1>1. PICK k \in DOMAIN n : n[k].age + t >= w
  BY DEF Due
<1>2. /\ DOMAIN Tail(n) = 1..(Len(n) - 1) /\ DOMAIN n = 1..Len(n) /\ Len(n) \in Nat
      /\ \A i \in 1..(Len(n) - 1) : Tail(n)[i] = n[i + 1]
  BY Tailed
<1>3. CASE k = 1
  <2>1. n[k].age \in Nat /\ n[k].age <= Delay
    BY PartIs
  <2> QED
    BY <1>1, <2>1, BeatTimes
<1>4. CASE k # 1
  <2>1. k - 1 \in DOMAIN Tail(n) /\ (k - 1) + 1 = k
    BY <1>2, <1>4
  <2>2. Tail(n)[k - 1] = n[k]
    BY <1>2, <2>1
  <2> QED
    BY <1>1, <2>1, <2>2 DEF Due
<1> QED
  BY <1>3, <1>4

LEMMA DueNow ==
  ASSUME NEW n \in Seq(Part), NEW t \in Nat, NEW w \in Int
  PROVE  /\ Due(n, t, w) => Delay + t >= w
         /\ n # <<>> /\ t >= w => Due(n, t, w)
         /\ \A d \in Nat : Due(n, t, w) => Due(n, t + d, w + d)
<1>1. \A k \in DOMAIN n : n[k].age \in Nat /\ n[k].age <= Delay
  BY PartIs
<1>2. Due(n, t, w) => Delay + t >= w
  BY <1>1, BeatTimes DEF Due
<1>3. n # <<>> /\ t >= w => Due(n, t, w)
  <2>1. n # <<>> => 1 \in DOMAIN n
    OBVIOUS
  <2> QED
    BY <1>1, <2>1 DEF Due
<1>4. \A d \in Nat : Due(n, t, w) => Due(n, t + d, w + d)
  BY <1>1 DEF Due
<1> QED
  BY <1>2, <1>3, <1>4

\* After the parts have become older by one.
Aged2(n, u) ==
    /\ n \in Seq(Part) /\ u \in Seq(Part) /\ Len(u) = Len(n)
    /\ \A k \in 1..Len(n) : u[k].kind = n[k].kind /\ u[k].age = n[k].age + 1

LEMMA OlderParts ==
  ASSUME NEW n, NEW u, Aged2(n, u), NEW t \in Nat, NEW w \in Int
  PROVE  /\ Due(n, t, w) => Due(u, t - 1, w)
         /\ Recent2(n, t) => Recent2(u, t - 1)
<1>1. DOMAIN n = DOMAIN u /\ DOMAIN n = 1..Len(n)
  BY DEF Aged2
<1>2. \A k \in DOMAIN n : n[k].age \in Nat
  BY PartIs, <1>1 DEF Aged2
<1>3. \A k \in DOMAIN n : u[k].age + (t - 1) = n[k].age + t /\ (t - 1) + u[k].age = t + n[k].age
  <2> TAKE k \in DOMAIN n
  <2>1. u[k].age = n[k].age + 1 /\ n[k].age \in Nat
    BY <1>1, <1>2 DEF Aged2
  <2> QED
    BY <2>1
<1>4. \A k \in DOMAIN n : u[k].kind = n[k].kind
  BY <1>1 DEF Aged2
<1> QED
  BY <1>1, <1>3, <1>4 DEF Due, Recent2

LEMMA SameEnds ==
  ASSUME NEW n, NEW u, Aged2(n, u), NEW r
  PROVE  (Open(n, r) => Open(u, r)) /\ (Shut(n, r) => Shut(u, r))
<1>1. DOMAIN n = DOMAIN u /\ DOMAIN n = 1..Len(n) /\ Len(u) = Len(n) /\ Len(n) \in Nat /\ (u = <<>> <=> n = <<>>)
  BY DEF Aged2
<1>2. \A k \in DOMAIN n : u[k].kind = n[k].kind
  BY <1>1 DEF Aged2
<1>3. n # <<>> => Len(n) \in DOMAIN n
  BY <1>1 DEF Aged2
<1> QED
  BY <1>1, <1>2, <1>3 DEF Open, Shut

\* Sending on a connection whose sender has not ended.
LEMMA EndsSent ==
  ASSUME NEW q \in Seq(Part), NEW e \in Part, NEW r, Open(q, r)
  PROVE  /\ e.kind # "fin" => Open(Append(q, e), r)
         /\ e.kind = "fin" => Shut(Append(q, e), r)
<1> DEFINE u == Append(q, e)
<1>1. /\ DOMAIN u = 1..(Len(q) + 1) /\ DOMAIN q = 1..Len(q) /\ Len(q) \in Nat /\ u # <<>>
      /\ u[Len(q) + 1] = e /\ (\A k \in 1..Len(q) : u[k] = q[k]) /\ Len(u) = Len(q) + 1
  BY Appended
<1> HIDE DEF u
<1>2. \A k \in DOMAIN u : k = Len(q) + 1 \/ (k \in DOMAIN q /\ u[k] = q[k])
  BY <1>1
<1> QED
  BY <1>1, <1>2 DEF Open, Shut, u

\* The first part under way arrives.
LEMMA EndsArrive ==
  ASSUME NEW q \in Seq(Part), q # <<>>, NEW r \in Seq({"byte", "fin"})
  PROVE  /\ Open(q, r) => Open(Tail(q), Append(r, Head(q).kind))
         /\ Shut(q, r) => Shut(Tail(q), Append(r, Head(q).kind))
<1> DEFINE u == Tail(q)
           x == Head(q).kind
           v == Append(r, x)
<1>1. /\ u \in Seq(Part) /\ Len(u) = Len(q) - 1 /\ Len(q) \in Nat /\ Len(q) >= 1
      /\ DOMAIN u = 1..(Len(q) - 1) /\ DOMAIN q = 1..Len(q) /\ x = q[1].kind /\ x \in {"byte", "fin"}
      /\ \A k \in 1..(Len(q) - 1) : u[k] = q[k + 1]
  BY Tailed, PartIs
<1> HIDE DEF u, x
<1>2. /\ DOMAIN v = 1..(Len(r) + 1) /\ DOMAIN r = 1..Len(r) /\ Len(r) \in Nat /\ Len(v) = Len(r) + 1 /\ v # <<>>
      /\ v[Len(r) + 1] = x /\ \A k \in 1..Len(r) : v[k] = r[k]
  <2> DEFINE K == {"byte", "fin"}
  <2>1. r \in Seq(K) /\ x \in K
    BY <1>1
  <2> HIDE DEF K
  <2> QED
    BY <2>1, Appended
<1> HIDE DEF v
<1>3. \A k \in DOMAIN u : k + 1 \in DOMAIN q /\ u[k] = q[k + 1]
  BY <1>1
<1>4. \A k \in DOMAIN v : k = Len(r) + 1 \/ (k \in DOMAIN r /\ v[k] = r[k])
  BY <1>2
<1>5. 1 \in DOMAIN q
  BY <1>1
<1>6. Open(q, r) => Open(u, v)
  BY <1>1, <1>2, <1>3, <1>4, <1>5 DEF Open
<1>7. ASSUME Shut(q, r) PROVE Shut(u, v)
  <2>1. \A k \in DOMAIN r : r[k] # "fin"
    BY <1>7 DEF Shut
  <2>2. \A k \in DOMAIN q : q[k].kind = "fin" => k = Len(q)
    BY <1>7 DEF Shut
  <2>3. q[Len(q)].kind = "fin"
    BY <1>7 DEF Shut
  <2>4. CASE Len(q) = 1
    <3>1. u = <<>> /\ x = "fin" /\ DOMAIN u = {}
      BY <2>3, <2>4, <1>1
    <3> QED
      BY <3>1, <2>1, <1>2, <1>4 DEF Shut
  <2>5. CASE Len(q) # 1
    <3>1. x # "fin"
      BY <2>2, <2>5, <1>1, <1>5
    <3>2. Len(u) \in DOMAIN u /\ Len(u) + 1 = Len(q) /\ u # <<>>
      BY <2>5, <1>1
    <3>3. u[Len(u)].kind = "fin"
      BY <3>2, <2>3, <1>3
    <3>4. \A k \in DOMAIN u : u[k].kind = "fin" => k = Len(u)
      <4> SUFFICES ASSUME NEW k \in DOMAIN u, u[k].kind = "fin" PROVE k = Len(u)
        OBVIOUS
      <4>1. k + 1 = Len(q) /\ k \in Nat
        BY <1>1, <1>3, <2>2
      <4> QED
        BY <4>1, <3>2, <1>1
    <3>5. \A k \in DOMAIN v : v[k] # "fin"
      BY <3>1, <2>1, <1>2, <1>4
    <3> QED
      BY <3>2, <3>3, <3>4, <3>5 DEF Shut
  <2> QED
    BY <2>4, <2>5
<1> QED
  BY <1>6, <1>7 DEF u, x, v

\* What is received of a connection leaves its end.
LEMMA EndsReceived ==
  ASSUME NEW q, NEW r \in Seq({"byte", "fin"})
  PROVE  /\ Beat2!NoneOf(r) \in Seq({"byte", "fin"}) /\ Beat2!OneOf(r) \in Seq({"byte", "fin"})
         /\ Open(q, r) => Open(q, Beat2!NoneOf(r)) /\ Open(q, Beat2!OneOf(r))
         /\ Shut(q, r) => Shut(q, Beat2!NoneOf(r))
         /\ Shut(q, r) /\ ~Beat2!AtEof(r) => Shut(q, Beat2!OneOf(r))
         /\ Beat2!AtEof(r) => ~Open(q, r)
<1>0. DOMAIN r = 1..Len(r) /\ Len(r) \in Nat
  OBVIOUS
<1>1. Beat2!NoneOf(r) = <<>> \/ (Beat2!NoneOf(r) = <<"fin">> /\ r # <<>> /\ r[Len(r)] = "fin")
  BY DEF Beat2!NoneOf
<1>2. Beat2!AtEof(r) => 1 \in DOMAIN r /\ r[1] = "fin"
  BY DEF Beat2!AtEof
<1>3. r # <<>> => Len(r) \in DOMAIN r
  BY <1>0
<1>4. Open(q, r) => Open(q, Beat2!NoneOf(r))
  BY <1>1, <1>3 DEF Open
<1>5. Shut(q, r) => Shut(q, Beat2!NoneOf(r))
  <2>1. CASE r # <<>> /\ r[Len(r)] = "fin"
    <3>1. Beat2!NoneOf(r) = <<"fin">> /\ <<"fin">> # <<>> /\ Len(<<"fin">>) = 1 /\ DOMAIN <<"fin">> = {1} /\ <<"fin">>[1] = "fin"
      BY <2>1 DEF Beat2!NoneOf
    <3> QED
      BY <2>1, <3>1, <1>3 DEF Shut
  <2>2. CASE ~(r # <<>> /\ r[Len(r)] = "fin")
    <3>1. Beat2!NoneOf(r) = <<>> /\ DOMAIN <<>> = {}
      BY <2>2 DEF Beat2!NoneOf
    <3> QED
      BY <2>2, <3>1 DEF Shut
  <2> QED
    BY <2>1, <2>2
<1>8. Beat2!NoneOf(r) \in Seq({"byte", "fin"})
  <2>1. <<>> \in Seq({"byte", "fin"}) /\ <<"fin">> \in Seq({"byte", "fin"})
    OBVIOUS
  <2> QED
    BY <2>1, <1>1
<1>9. Beat2!AtEof(r) => ~Open(q, r)
  BY <1>2 DEF Open
<1>6. CASE r = <<>>
  <2>1. Beat2!OneOf(r) = r
    BY <1>6 DEF Beat2!OneOf
  <2> QED
    BY <2>1, <1>4, <1>5, <1>8, <1>9
<1>7. CASE r # <<>>
  <2> DEFINE u == Tail(r)
  <2>1. /\ u \in Seq({"byte", "fin"}) /\ Len(u) = Len(r) - 1 /\ Len(r) >= 1
        /\ DOMAIN u = 1..(Len(r) - 1) /\ Head(r) = r[1]
        /\ \A k \in 1..(Len(r) - 1) : u[k] = r[k + 1]
    BY <1>7, Tailed
  <2>2. Beat2!OneOf(r) = u
    BY <1>7 DEF Beat2!OneOf
  <2> HIDE DEF u
  <2>3. \A k \in DOMAIN u : k + 1 \in DOMAIN r /\ u[k] = r[k + 1]
    BY <2>1, <1>0
  <2>4. Open(q, r) => Open(q, u)
    BY <2>3 DEF Open
  <2>5. ASSUME Shut(q, r), ~Beat2!AtEof(r) PROVE Shut(q, u)
    <3>1. r[1] # "fin"
      BY <2>5, <2>1, <1>7 DEF Beat2!AtEof
    <3>2. \A k \in DOMAIN u : u[k] = "fin" => k = Len(u) /\ q = <<>>
      <4> SUFFICES ASSUME NEW k \in DOMAIN u, u[k] = "fin" PROVE k = Len(u) /\ q = <<>>
        OBVIOUS
      <4>1. k + 1 = Len(r) /\ q = <<>> /\ k \in Nat
        BY <2>1, <2>3, <2>5 DEF Shut
      <4> QED
        BY <4>1, <2>1, <1>0
    <3>3. q = <<>> => u # <<>> /\ u[Len(u)] = "fin"
      <4> SUFFICES ASSUME q = <<>> PROVE u # <<>> /\ u[Len(u)] = "fin"
        OBVIOUS
      <4>1. r[Len(r)] = "fin"
        BY <2>5 DEF Shut
      <4>2. Len(r) # 1
        BY <4>1, <3>1
      <4>3. Len(u) \in DOMAIN u /\ Len(u) + 1 = Len(r) /\ u # <<>>
        BY <4>2, <2>1, <1>0
      <4> QED
        BY <4>1, <4>3, <2>3
    <3> QED
      BY <3>2, <3>3, <2>5 DEF Shut
  <2> QED
    BY <2>1, <2>2, <2>4, <2>5, <1>4, <1>5, <1>8, <1>9
<1> QED
  BY <1>6, <1>7

\* The inductive invariant of heartBeat2.
Nets2 == [Beat2!Sides -> [Beat2!Conns -> Seq(Part)]]
Rcvs2 == [Beat2!Sides -> [Beat2!Conns -> Seq({"byte", "fin"})]]
States2 == [Beat2!Sides -> {"select", "recv", "dead", "terminated", "killed"}]

Beat2Types ==
    /\ Beat2!TypeOK
    /\ \A s \in Beat2!Sides :
          /\ Beat2!Up(s) => missed2[s] <= 3
          /\ missed2[s] > 0 => tv2[s] <= T2
          /\ missed2[s] = 0 => tv2[s] <= Beat2!Idle(s) + Residue

\* Nothing but an end comes to the client on the data connection.
OnlyEnd(q, r) == (\A k \in DOMAIN q : q[k].kind = "fin") /\ (\A k \in DOMAIN r : r[k] = "fin")

Beat2Ends ==
    /\ cut2 => \A s \in Beat2!Sides, c \in Beat2!Conns : net2[s][c] = <<>>
    /\ \A s \in Beat2!Sides : Beat2!Up(s) => \A c \in Beat2!Conns :
          IF Beat2!Up(Beat2!Peer(s)) THEN Open(net2[s][c], rcv[s][c]) ELSE Shut(net2[s][c], rcv[s][c]) \/ (cut2 /\ Open(net2[s][c], rcv[s][c]))
    /\ Beat2!Up("client") => OnlyEnd(net2["client"]["data"], rcv["client"]["data"])
    /\ state2["client"] = "recv" => ~Beat2!Up("server")

\* The longest a client is without a message when the data connection ends.
Longest2(m) == T1 + Residue + (IF m = 0 THEN 0 ELSE 2 * Delay)

\* The client in recv has its end or will have it: it is not deaf.
Hears == state2["client"] = "recv" /\ (cut2 => rcv["client"]["hb"] # <<>>)

Beat2Quiet ==
    /\ \A s \in Beat2!Sides : state2[s] = "select" =>
          quiet2[s] + tv2[s] <= Beat2!Idle(s) + Residue + Wait(missed2[s])
    /\ Hears =>
          /\ quiet2["client"] <= Longest2(missed2["client"]) + Delay
          /\ \A k \in DOMAIN net2["client"]["hb"] : net2["client"]["hb"][k].kind = "fin" =>
                quiet2["client"] <= Longest2(missed2["client"]) + net2["client"]["hb"][k].age

Beat2Client ==
    ~cut2 /\ state2["client"] = "select" /\ missed2["client"] > 0 =>
        \/ Beat2!Up("server") /\ Due(net2["server"]["hb"], tv2["client"], Wait(missed2["client"]))
        \/ Beat2!Up("server") /\ rcv["server"]["hb"] # <<>> /\ Delay + tv2["client"] >= Wait(missed2["client"])
        \/ Due(net2["client"]["hb"], Delay + tv2["client"], Wait(missed2["client"]))
        \/ rcv["client"]["hb"] # <<>> /\ Delay + (Delay + tv2["client"]) >= Wait(missed2["client"])

\* Whether something arrives before the server gives up; l is the time until then.
Coming2(l) ==
    \/ \E c \in Beat2!Conns : rcv["server"][c] # <<>> \/ Due(net2["server"][c], l, Delay + 1)
    \/ state2["client"] = "select" /\ l > tv2["client"] + Delay
Heard2(l) == (\E k \in DOMAIN rcv["client"]["hb"] : rcv["client"]["hb"][k] # "fin") => l + Delay >= T1 + 4 * T2

Beat2Server ==
    ~cut2 /\ Beat2!Up("server") =>
        /\ Coming2(Left(tv2["server"], missed2["server"]))
        /\ Beat2!Up("client") => /\ Recent2(net2["client"]["hb"], Left(tv2["server"], missed2["server"]))
                                 /\ Heard2(Left(tv2["server"], missed2["server"]))

Beat2Alive == ~cut2 => \A s \in Beat2!Sides : state2[s] # "dead"

Beat2Inv == Beat2Types /\ Beat2Ends /\ Beat2Quiet /\ Beat2Client /\ Beat2Server /\ Beat2Alive

LEMMA Ends2 ==
  /\ Beat2!Sides = {"client", "server"} /\ "client" # "server"
  /\ Beat2!Conns = {"hb", "data"} /\ "hb" # "data"
  /\ Beat2!Peer("client") = "server" /\ Beat2!Peer("server") = "client"
  /\ Beat2!Idle("client") = T1 /\ Beat2!Idle("server") = T1 + T2
  /\ Beat2!MaxMissed = 3 /\ Beat2!Kinds = {"byte", "fin"}
BY DEF Beat2!Sides, Beat2!Conns, Beat2!Peer, Beat2!Idle, Beat2!MaxMissed, Beat2!Kinds

LEMMA Types2 ==
  Beat2!TypeOK <=>
    /\ tv2 \in [Beat2!Sides -> 0..(T1 + T2 + Residue)] /\ missed2 \in [Beat2!Sides -> 0..4]
    /\ net2 \in Nets2 /\ rcv \in Rcvs2 /\ state2 \in States2 /\ state2["server"] # "recv"
    /\ cut2 \in BOOLEAN /\ quiet2 \in [Beat2!Sides -> 0..Beat2!MaxQuiet]
BY Ends2 DEF Beat2!TypeOK, Nets2, Rcvs2, States2, Part

\* What the invariant says of a side.
LEMMA Beat2Side ==
  ASSUME Beat2Types, NEW s \in Beat2!Sides
  PROVE  /\ tv2[s] \in Nat /\ tv2[s] <= T1 + T2 + Residue /\ missed2[s] \in 0..4
         /\ Beat2!Up(s) => missed2[s] \in 0..3
         /\ \A c \in Beat2!Conns : net2[s][c] \in Seq(Part) /\ rcv[s][c] \in Seq({"byte", "fin"})
         /\ quiet2[s] \in Nat /\ quiet2[s] <= Beat2!MaxQuiet /\ Beat2!MaxQuiet \in Nat
         /\ Beat2!Peer(s) \in Beat2!Sides /\ Beat2!Peer(s) # s /\ Beat2!Peer(Beat2!Peer(s)) = s
         /\ tv2[s] <= T1 + Residue \/ tv2[s] <= T2 \/ s = "server"
         /\ Beat2!Idle(s) \in Nat /\ Beat2!Idle(s) <= T1 + T2
<1>1. /\ tv2[s] \in 0..(T1 + T2 + Residue) /\ missed2[s] \in 0..4 /\ quiet2[s] \in 0..Beat2!MaxQuiet
      /\ net2[s] \in [Beat2!Conns -> Seq(Part)] /\ rcv[s] \in [Beat2!Conns -> Seq({"byte", "fin"})]
  BY Types2 DEF Beat2Types, Nets2, Rcvs2
<1>2. Beat2!MaxQuiet \in Nat
  BY Ends2, BeatTimes DEF Beat2!MaxQuiet
<1>3. Beat2!Peer(s) \in Beat2!Sides /\ Beat2!Peer(s) # s /\ Beat2!Peer(Beat2!Peer(s)) = s
  BY Ends2
<1>4. Beat2!Up(s) => missed2[s] \in 0..3
  BY <1>1 DEF Beat2Types
<1>5. tv2[s] <= T1 + Residue \/ tv2[s] <= T2 \/ s = "server"
  <2>1. missed2[s] = 0 \/ missed2[s] > 0
    BY <1>1
  <2> QED
    BY <2>1, Ends2 DEF Beat2Types
<1>6. Beat2!Idle(s) \in Nat /\ Beat2!Idle(s) <= T1 + T2
  BY Ends2, BeatTimes
<1> QED
  BY <1>1, <1>2, <1>3, <1>4, <1>5, <1>6, BeatTimes

\* What a side sends on some of its connections.
LEMMA Sent2 ==
  ASSUME Beat2Types, NEW s \in Beat2!Sides, NEW cs, NEW kind \in {"byte", "fin"}
  PROVE  /\ Beat2!Sent(s, cs, kind) \in Nets2
         /\ cut2 => Beat2!Sent(s, cs, kind) = net2
         /\ ~cut2 => \A c \in Beat2!Conns :
              /\ Beat2!Sent(s, cs, kind)[s][c] = net2[s][c]
              /\ Beat2!Sent(s, cs, kind)[Beat2!Peer(s)][c] =
                    IF c \in cs THEN Append(net2[Beat2!Peer(s)][c], [kind |-> kind, age |-> 0])
                    ELSE net2[Beat2!Peer(s)][c]
<1> DEFINE p == Beat2!Peer(s)
           e == [kind |-> kind, age |-> 0]
<1>1. p \in Beat2!Sides /\ p # s /\ e \in Part
  BY Beat2Side, PartIs
<1>2. net2 \in Nets2 /\ \A c \in Beat2!Conns : net2[p][c] \in Seq(Part)
  BY <1>1, Types2, Beat2Side DEF Beat2Types
<1> HIDE DEF p
<1>3. CASE cut2
  BY <1>2, <1>3 DEF Beat2!Sent
<1>4. CASE ~cut2
  <2> DEFINE f == [c \in Beat2!Conns |-> IF c \in cs THEN Append(net2[p][c], e) ELSE net2[p][c]]
  <2>1. Beat2!Sent(s, cs, kind) = [net2 EXCEPT ![p] = f]
    BY <1>4 DEF Beat2!Sent, p
  <2>2. f \in [Beat2!Conns -> Seq(Part)]
    <3>1. \A c \in Beat2!Conns : Append(net2[p][c], e) \in Seq(Part)
      BY <1>1, <1>2, Appended
    <3> QED
      BY <3>1, <1>2
  <2>3. \A c \in Beat2!Conns : f[c] = IF c \in cs THEN Append(net2[p][c], e) ELSE net2[p][c]
    OBVIOUS
  <2> HIDE DEF f, e
  <2>4. /\ [net2 EXCEPT ![p] = f] \in Nets2 /\ [net2 EXCEPT ![p] = f][p] = f
        /\ [net2 EXCEPT ![p] = f][s] = net2[s]
    BY <2>2, <1>1, <1>2 DEF Nets2
  <2> QED
    BY <2>1, <2>3, <2>4, <1>4 DEF e, p
<1> QED
  BY <1>3, <1>4

LEMMA Beat2Init ==
  ASSUME Beat2!Init PROVE Beat2Inv
<1> USE DEF Beat2!Init
<1>1. \A s \in Beat2!Sides : /\ tv2[s] = Beat2!Idle(s) /\ missed2[s] = 0 /\ state2[s] = "select" /\ quiet2[s] = 0
                             /\ Beat2!Up(s) /\ \A c \in Beat2!Conns : net2[s][c] = <<>> /\ rcv[s][c] = <<>>
  BY DEF Beat2!Up
<1>2. \A s \in Beat2!Sides : Beat2!Idle(s) \in Nat /\ Beat2!Idle(s) <= T1 + T2 /\ Beat2!Peer(s) \in Beat2!Sides
  BY Ends2, BeatTimes
<1>3. Wait(0) = 0
  BY Waits
<1>4. Beat2!MaxQuiet \in Nat
  BY Ends2, BeatTimes DEF Beat2!MaxQuiet
<1>5. Beat2!TypeOK
  <2>1. tv2 \in [Beat2!Sides -> 0..(T1 + T2 + Residue)]
    BY <1>2, BeatTimes
  <2>2. quiet2 \in [Beat2!Sides -> 0..Beat2!MaxQuiet] /\ missed2 \in [Beat2!Sides -> 0..4]
    BY <1>4
  <2>3. net2 \in Nets2 /\ rcv \in Rcvs2
    BY DEF Nets2, Rcvs2
  <2>4. state2 \in States2 /\ state2["server"] # "recv"
    BY <1>1, Ends2 DEF States2
  <2> QED
    BY <2>1, <2>2, <2>3, <2>4, Types2
<1>6. Beat2Types
  <2>1. \A s \in Beat2!Sides : tv2[s] <= Beat2!Idle(s) + Residue
    BY <1>1, <1>2, BeatTimes
  <2> QED
    BY <1>1, <1>5, <2>1 DEF Beat2Types
<1>7. Beat2Ends
  <2>1. Open(<<>>, <<>>) /\ OnlyEnd(<<>>, <<>>)
    BY DEF Open, OnlyEnd
  <2> QED
    BY <1>1, <1>2, <2>1, Ends2 DEF Beat2Ends
<1>8. Beat2Quiet
  <2>1. state2["client"] # "recv"
    BY <1>1, Ends2
  <2> QED
    BY <1>1, <1>2, <1>3, <2>1, BeatTimes DEF Beat2Quiet, Hears
<1>9. Beat2Client
  BY <1>1, Ends2 DEF Beat2Client
<1>10. Beat2Server
  <2>1. Left(T1 + T2, 0) = T1 + T2 + 3 * T2
    BY LeftIs, BeatTimes
  <2>2. Left(T1 + T2, 0) > T1 + Delay
    BY <2>1, BeatTimes
  <2>3. Recent2(<<>>, Left(T1 + T2, 0)) /\ DOMAIN <<>> = {}
    BY DEF Recent2
  <2> QED
    BY <1>1, <2>2, <2>3, Ends2 DEF Beat2Server, Coming2, Heard2
<1>11. Beat2Alive
  BY <1>1 DEF Beat2Alive
<1> QED
  BY <1>6, <1>7, <1>8, <1>9, <1>10, <1>11 DEF Beat2Inv

\* Both programs have ended.
LEMMA Beat2Over ==
  ASSUME Beat2Inv, Beat2!TypeOK', tv2' = tv2, missed2' = missed2, cut2' = cut2,
         \A s \in Beat2!Sides : ~Beat2!Up(s)', cut2 => net2' = net2,
         \A s \in Beat2!Sides : state2'[s] = "dead" => state2[s] = "dead"
  PROVE  Beat2Inv'
<1>1. Beat2Types'
  BY DEF Beat2Inv, Beat2Types
<1>2. \A s \in Beat2!Sides : state2'[s] # "select" /\ state2'[s] # "recv"
  BY DEF Beat2!Up
<1>3. Beat2Ends' /\ Beat2Quiet' /\ Beat2Client' /\ Beat2Server' /\ Beat2Alive'
  BY <1>2, Ends2 DEF Beat2Inv, Beat2Ends, Beat2Quiet, Hears, Beat2Client, Beat2Server, Beat2Alive
<1> QED
  BY <1>1, <1>3 DEF Beat2Inv

\* The last count: only with the network cut.
LEMMA Beat2Dead ==
  ASSUME Beat2Inv, NEW s \in Beat2!Sides, Beat2!Timeout(s), missed2[s] + 1 > 3 PROVE Beat2Inv'
<1> DEFINE c == "client"
           v == "server"
<1>0. /\ Beat2Types /\ Beat2Ends /\ Beat2Quiet /\ Beat2Client /\ Beat2Server /\ Beat2Alive
  BY DEF Beat2Inv
<1>1. /\ state2[s] = "select" /\ tv2[s] = 0 /\ \A d \in Beat2!Conns : rcv[s][d] = <<>>
      /\ missed2' = [missed2 EXCEPT ![s] = missed2[s] + 1] /\ tv2' = tv2
      /\ state2' = [state2 EXCEPT ![s] = "dead"] /\ net2' = Beat2!Sent(s, Beat2!Conns, "fin")
      /\ rcv' = rcv /\ cut2' = cut2 /\ quiet2' = quiet2
  BY Ends2 DEF Beat2!Timeout, Beat2!Counted, Beat2!Exit
<1>2. Beat2!Up(s) /\ missed2[s] = 3
  <2>1. Beat2!Up(s)
    BY <1>1 DEF Beat2!Up
  <2> QED
    BY <2>1, <1>0, Beat2Side
<1>3. cut2
  <2> SUFFICES ASSUME ~cut2 PROVE FALSE
    OBVIOUS
  <2>1. Wait(3) = 3 * T2 /\ Wait(3) \in Int /\ T2 \in Nat /\ T2 > 0 /\ Delay \in Nat /\ Delay <= T2 /\ Delay + 0 = Delay
    BY Waits, BeatTimes
  <2>2. /\ net2[v]["hb"] \in Seq(Part) /\ net2[v]["data"] \in Seq(Part) /\ net2[c]["hb"] \in Seq(Part)
        /\ tv2[c] \in Nat
    BY <1>0, Beat2Side, Ends2
  <2>3. CASE s = c
    <3>1. \/ Due(net2[v]["hb"], 0, Wait(3)) \/ Delay >= Wait(3) \/ Due(net2[c]["hb"], Delay, Wait(3))
          \/ Delay + Delay >= Wait(3)
      BY <2>1, <2>3, <1>0, <1>1, <1>2 DEF Beat2Client
    <3>2. /\ Due(net2[v]["hb"], 0, Wait(3)) => Delay + 0 >= Wait(3)
          /\ Due(net2[c]["hb"], Delay, Wait(3)) => Delay + Delay >= Wait(3)
      BY <2>1, <2>2, DueNow
    <3> QED
      BY <3>1, <3>2, <2>1
  <2>4. CASE s = v
    <3>1. Left(0, 3) = 0
      BY LeftIs
    <3>2. Coming2(0)
      BY <2>4, <3>1, <1>0, <1>1, <1>2 DEF Beat2Server
    <3>3. Due(net2[v]["hb"], 0, Delay + 1) \/ Due(net2[v]["data"], 0, Delay + 1) \/ 0 > tv2[c] + Delay
      BY <2>4, <3>2, <1>1, Ends2 DEF Coming2
    <3>4. Delay + 1 \in Int /\ ~(Delay + 0 >= Delay + 1) /\ ~(0 > tv2[c] + Delay)
      BY <2>1, <2>2
    <3> QED
      BY <3>3, <3>4, <2>2, DueNow
  <2> QED
    BY <2>3, <2>4, Ends2
<1>4. net2' = net2
  BY <1>0, <1>1, <1>3, Sent2
<1>5. /\ tv2 \in [Beat2!Sides -> 0..(T1 + T2 + Residue)] /\ missed2 \in [Beat2!Sides -> 0..4]
      /\ net2 \in Nets2 /\ rcv \in Rcvs2 /\ state2 \in States2 /\ state2["server"] # "recv"
      /\ cut2 \in BOOLEAN /\ quiet2 \in [Beat2!Sides -> 0..Beat2!MaxQuiet]
  BY <1>0, Types2 DEF Beat2Types
<1>6. \A x \in Beat2!Sides : /\ (x # s => state2'[x] = state2[x] /\ missed2'[x] = missed2[x]) /\ state2'[s] = "dead"
                             /\ missed2'[s] = 4
  BY <1>1, <1>2, <1>5 DEF States2
<1>7. Beat2!TypeOK'
  <2>1. missed2' \in [Beat2!Sides -> 0..4] /\ state2' \in States2 /\ state2'["server"] # "recv"
    BY <1>1, <1>2, <1>5, Ends2 DEF States2
  <2> QED
    BY <2>1, <1>1, <1>4, <1>5, Ends2 DEF Beat2!TypeOK, Beat2!MaxQuiet, Nets2, Rcvs2, States2, Part
<1>8. \A x \in Beat2!Sides : Beat2!Up(x)' => x # s /\ Beat2!Up(x)
  BY <1>6 DEF Beat2!Up
<1>9. Beat2Types'
  <2>1. ASSUME NEW x \in Beat2!Sides
        PROVE  /\ (Beat2!Up(x)' => missed2'[x] <= 3)
               /\ (missed2'[x] > 0 => tv2[x] <= T2)
               /\ (missed2'[x] = 0 => tv2[x] <= Beat2!Idle(x) + Residue)
    <3>1. CASE x = s
      BY <3>1, <1>1, <1>6, <1>8, BeatTimes
    <3>2. CASE x # s
      BY <3>2, <1>0, <1>6, <1>8 DEF Beat2Types
    <3> QED
      BY <3>1, <3>2
  <2> QED
    BY <2>1, <1>1, <1>7 DEF Beat2Types
<1>10. Beat2Ends'
  <2>1. state2'["client"] # "recv"
    BY <1>0, <1>2, <1>6, Ends2 DEF Beat2Ends
  <2>2. \A x \in Beat2!Sides, d \in Beat2!Conns : net2[x][d] = <<>>
    BY <1>0, <1>3 DEF Beat2Ends
  <2>3. \A x \in Beat2!Sides : Beat2!Up(x)' => \A d \in Beat2!Conns : Open(net2[x][d], rcv[x][d])
    <3>1. \A x \in Beat2!Sides : x # s => Beat2!Peer(x) = s
      BY Ends2
    <3> QED
      BY <3>1, <1>0, <1>2, <1>8 DEF Beat2Ends
  <2>4. Beat2!Up("client")' => OnlyEnd(net2["client"]["data"], rcv["client"]["data"])
    BY <1>0, <1>8, Ends2 DEF Beat2Ends
  <2> QED
    BY <2>1, <2>2, <2>3, <2>4, <1>1, <1>3, <1>4, <1>8 DEF Beat2Ends
<1>11. Beat2Quiet'
  <2>1. \A x \in Beat2!Sides : state2'[x] = "select" => x # s /\ state2[x] = "select" /\ missed2'[x] = missed2[x]
    BY <1>6
  <2>2. state2'["client"] # "recv"
    BY <1>0, <1>2, <1>6, Ends2 DEF Beat2Ends
  <2> QED
    BY <2>1, <2>2, <1>0, <1>1 DEF Beat2Quiet, Hears
<1>12. Beat2Client' /\ Beat2Server' /\ Beat2Alive'
  BY <1>1, <1>3 DEF Beat2Client, Beat2Server, Beat2Alive
<1> QED
  BY <1>9, <1>10, <1>11, <1>12 DEF Beat2Inv

\* A heartbeat is sent, or the count goes on.
LEMMA Beat2Timeout ==
  ASSUME Beat2Inv, NEW s \in Beat2!Sides, Beat2!Timeout(s), ~(missed2[s] + 1 > 3) PROVE Beat2Inv'
<1> DEFINE c == "client"
           v == "server"
           e == [kind |-> "byte", age |-> 0]
<1>0. /\ Beat2Types /\ Beat2Ends /\ Beat2Quiet /\ Beat2Client /\ Beat2Server /\ Beat2Alive
  BY DEF Beat2Inv
<1>1. /\ state2[s] = "select" /\ tv2[s] = 0 /\ \A d \in Beat2!Conns : rcv[s][d] = <<>>
      /\ missed2' = [missed2 EXCEPT ![s] = missed2[s] + 1] /\ tv2' = [tv2 EXCEPT ![s] = T2]
      /\ state2' = state2 /\ net2' = IF s = c THEN Beat2!Sent(s, {"hb"}, "byte") ELSE net2
      /\ rcv' = rcv /\ cut2' = cut2 /\ quiet2' = quiet2
  BY Ends2 DEF Beat2!Timeout, Beat2!Counted
<1>2. Beat2!Up(s) /\ missed2[s] \in 0..2 /\ missed2[s] < 3 /\ missed2[s] \in 0..3
  <2>1. Beat2!Up(s)
    BY <1>1 DEF Beat2!Up
  <2> QED
    BY <2>1, <1>0, Beat2Side
<1>3. /\ tv2 \in [Beat2!Sides -> 0..(T1 + T2 + Residue)] /\ missed2 \in [Beat2!Sides -> 0..4]
      /\ net2 \in Nets2 /\ rcv \in Rcvs2 /\ state2 \in States2 /\ state2["server"] # "recv"
      /\ cut2 \in BOOLEAN /\ quiet2 \in [Beat2!Sides -> 0..Beat2!MaxQuiet]
  BY <1>0, Types2 DEF Beat2Types
<1>4. /\ net2' \in Nets2 /\ (cut2 => net2' = net2)
      /\ \A d \in Beat2!Conns : net2'[c][d] = net2[c][d]
      /\ net2'[v]["data"] = net2[v]["data"]
      /\ s = v => net2' = net2
      /\ s = c /\ ~cut2 => net2'[v]["hb"] = Append(net2[v]["hb"], e)
  <2>1. CASE s = v
    BY <2>1, <1>1, <1>3, Ends2
  <2>2. CASE s = c
    <3> DEFINE w == Beat2!Sent(c, {"hb"}, "byte")
    <3>1. /\ w \in Nets2 /\ (cut2 => w = net2)
          /\ ~cut2 => \A d \in Beat2!Conns :
                /\ w[c][d] = net2[c][d]
                /\ w[Beat2!Peer(c)][d] = IF d \in {"hb"} THEN Append(net2[Beat2!Peer(c)][d], e)
                                         ELSE net2[Beat2!Peer(c)][d]
      BY <1>0, Ends2, Sent2
    <3>2. net2' = w
      BY <2>2, <1>1
    <3> HIDE DEF w, e
    <3> QED
      BY <2>2, <3>1, <3>2, Ends2
  <2> QED
    BY <2>1, <2>2, Ends2
<1>5. /\ tv2'[s] = T2 /\ missed2'[s] = missed2[s] + 1
      /\ \A x \in Beat2!Sides : x # s => tv2'[x] = tv2[x] /\ missed2'[x] = missed2[x]
  BY <1>1, <1>3
<1>6. \A x \in Beat2!Sides : Beat2!Up(x)' <=> Beat2!Up(x)
  BY <1>1 DEF Beat2!Up
<1>7. Beat2Types'
  <2>1. Beat2!TypeOK'
    <3>1. missed2' \in [Beat2!Sides -> 0..4] /\ tv2' \in [Beat2!Sides -> 0..(T1 + T2 + Residue)]
      BY <1>1, <1>2, <1>3, BeatTimes
    <3> QED
      BY <3>1, <1>1, <1>3, <1>4, Ends2, SMTT(30) DEF Beat2!TypeOK, Beat2!MaxQuiet, Nets2, Rcvs2, States2, Part
  <2>2. ASSUME NEW x \in Beat2!Sides
        PROVE  /\ (Beat2!Up(x)' => missed2'[x] <= 3)
               /\ (missed2'[x] > 0 => tv2'[x] <= T2)
               /\ (missed2'[x] = 0 => tv2'[x] <= Beat2!Idle(x) + Residue)
    <3>1. CASE x = s
      BY <3>1, <1>2, <1>5, BeatTimes
    <3>2. CASE x # s
      BY <3>2, <1>0, <1>5, <1>6 DEF Beat2Types
    <3> QED
      BY <3>1, <3>2
  <2> QED
    BY <2>1, <2>2 DEF Beat2Types
<1>8. Beat2Ends'
  <2>1. cut2 => \A x \in Beat2!Sides, d \in Beat2!Conns : net2'[x][d] = <<>>
    BY <1>0, <1>4 DEF Beat2Ends
  <2>2. ASSUME NEW x \in Beat2!Sides, Beat2!Up(x), NEW d \in Beat2!Conns
        PROVE  IF Beat2!Up(Beat2!Peer(x)) THEN Open(net2'[x][d], rcv[x][d]) ELSE Shut(net2'[x][d], rcv[x][d]) \/ (cut2 /\ Open(net2'[x][d], rcv[x][d]))
    <3>1. IF Beat2!Up(Beat2!Peer(x)) THEN Open(net2[x][d], rcv[x][d]) ELSE Shut(net2[x][d], rcv[x][d]) \/ (cut2 /\ Open(net2[x][d], rcv[x][d]))
      BY <1>0, <2>2 DEF Beat2Ends
    <3>2. CASE s = c /\ x = v /\ d = "hb" /\ ~cut2
      <4>1. Open(net2[v]["hb"], rcv[v]["hb"]) /\ Beat2!Up(Beat2!Peer(x))
        BY <3>1, <3>2, <1>2, Ends2
      <4>2. net2[v]["hb"] \in Seq(Part) /\ e \in Part /\ e.kind # "fin"
        BY <1>0, Beat2Side, PartIs, Ends2
      <4>3. Open(Append(net2[v]["hb"], e), rcv[v]["hb"])
        BY <4>1, <4>2, EndsSent
      <4> QED
        BY <4>1, <4>3, <3>2, <1>4
    <3>3. CASE ~(s = c /\ x = v /\ d = "hb" /\ ~cut2)
      <4>1. net2'[x][d] = net2[x][d]
        BY <3>3, <1>4, Ends2
      <4> QED
        BY <3>1, <4>1
    <3> QED
      BY <3>2, <3>3
  <2>3. \A x \in Beat2!Sides : Beat2!Peer(x) \in Beat2!Sides
    BY Ends2
  <2>4. Beat2!Up(c) => OnlyEnd(net2'[c]["data"], rcv[c]["data"])
    BY <1>0, <1>4, Ends2 DEF Beat2Ends
  <2> QED
    BY <2>1, <2>2, <2>3, <2>4, <1>0, <1>1, <1>6, Ends2 DEF Beat2Ends
<1>9. Beat2Quiet'
  <2>1. ASSUME NEW x \in Beat2!Sides, state2[x] = "select"
        PROVE  quiet2[x] + tv2'[x] <= Beat2!Idle(x) + Residue + Wait(missed2'[x])
    <3>1. quiet2[x] + tv2[x] <= Beat2!Idle(x) + Residue + Wait(missed2[x])
      BY <1>0, <2>1 DEF Beat2Quiet, Hears
    <3>2. CASE x = s
      <4>1. tv2'[x] = T2 /\ missed2'[x] = missed2[s] + 1 /\ Wait(missed2[s] + 1) = Wait(missed2[s]) + T2 /\ tv2[x] = 0
        BY <3>2, <1>1, <1>2, <1>5, Waits
      <4>2. Wait(missed2[s]) \in Nat /\ Beat2!Idle(x) \in Nat /\ quiet2[x] \in Nat
        BY <1>0, <1>2, <3>2, Waits, Beat2Side
      <4> QED
        BY <3>1, <3>2, <4>1, <4>2, BeatTimes
    <3>3. CASE x # s
      BY <3>1, <3>3, <1>5
    <3> QED
      BY <3>2, <3>3
  <2>2. state2[c] = "recv" => c # s
    BY <1>1
  <2> QED
    BY <2>1, <2>2, <1>0, <1>1, <1>4, <1>5, Ends2 DEF Beat2Quiet, Hears
<1>10. Beat2Client'
  <2> DEFINE m == missed2'[c]
             t == tv2'[c]
  <2> SUFFICES ASSUME ~cut2, state2[c] = "select", m > 0
               PROVE  \/ Beat2!Up(v) /\ Due(net2'[v]["hb"], t, Wait(m))
                      \/ Beat2!Up(v) /\ rcv[v]["hb"] # <<>> /\ Delay + t >= Wait(m)
                      \/ Due(net2'[c]["hb"], Delay + t, Wait(m))
                      \/ rcv[c]["hb"] # <<>> /\ Delay + (Delay + t) >= Wait(m)
    BY <1>1, <1>6, Ends2 DEF Beat2Client
  <2>1. net2[v]["hb"] \in Seq(Part) /\ net2[c]["hb"] \in Seq(Part) /\ net2'[c]["hb"] = net2[c]["hb"] /\ e \in Part /\ e.age = 0
    BY <1>0, <1>4, Beat2Side, PartIs, Ends2
  <2>2. CASE s = c /\ missed2[c] = 0
    <3>1. t = T2 /\ Wait(m) = T2
      <4>1. Wait(0 + 1) = Wait(0) + T2 /\ Wait(0) = 0 /\ T2 \in Nat
        BY Waits, BeatTimes
      <4> QED
        BY <4>1, <2>2, <1>5
    <3>2. T2 \in Nat /\ T2 \in Int /\ T2 >= T2 /\ Delay + T2 >= T2 /\ Delay + T2 \in Nat
      BY BeatTimes
    <3>3. CASE Beat2!Up(v)
      <4>1. Due(Append(net2[v]["hb"], e), T2, T2)
        BY <3>2, <2>1, DueAppend
      <4> QED
        BY <4>1, <3>1, <3>3, <2>2, <1>4
    <3>4. CASE ~Beat2!Up(v)
      <4>1. Shut(net2[c]["hb"], rcv[c]["hb"])
        BY <3>4, <2>2, <1>0, <1>2, Ends2 DEF Beat2Ends
      <4>2. net2[c]["hb"] # <<>>
        BY <4>1, <2>2, <1>1, Ends2 DEF Shut
      <4>3. Due(net2[c]["hb"], Delay + T2, T2)
        BY <4>2, <3>2, <2>1, DueNow
      <4> QED
        BY <4>3, <3>1, <2>1
    <3> QED
      BY <3>3, <3>4
  <2>3. CASE s = c /\ missed2[c] # 0
    <3> DEFINE w == Wait(missed2[c])
    <3>1. tv2[c] = 0 /\ t = T2 /\ m = missed2[c] + 1 /\ missed2[c] \in 0..2 /\ missed2[c] > 0 /\ missed2[c] \in 0..3
      BY <2>3, <1>1, <1>2, <1>5
    <3>2. Wait(m) = w + T2 /\ w \in Nat /\ T2 \in Nat /\ Delay \in Nat
      BY <3>1, Waits, BeatTimes
    <3>3. rcv[c]["hb"] = <<>>
      BY <2>3, <1>1, Ends2
    <3>4. \/ Beat2!Up(v) /\ Due(net2[v]["hb"], 0, w)
          \/ Beat2!Up(v) /\ rcv[v]["hb"] # <<>> /\ Delay + 0 >= w
          \/ Due(net2[c]["hb"], Delay + 0, w)
      BY <3>1, <3>3, <1>0 DEF Beat2Client
    <3> HIDE DEF w, m, t
    <3>5. Due(net2[v]["hb"], 0, w) => Due(net2[v]["hb"], 0 + T2, w + T2)
      BY <3>2, <2>1, DueNow
    <3>6. Due(net2[c]["hb"], Delay + 0, w) => Due(net2[c]["hb"], (Delay + 0) + T2, w + T2)
      BY <3>2, <2>1, DueNow
    <3>7. /\ 0 + T2 = T2 /\ (Delay + 0) + T2 = Delay + T2 /\ (Delay + 0 >= w => Delay + T2 >= w + T2)
          /\ w + T2 \in Int
      BY <3>2
    <3>8. Due(net2[v]["hb"], T2, w + T2) => Due(net2'[v]["hb"], T2, w + T2)
      <4>1. Due(net2[v]["hb"], T2, w + T2) => Due(Append(net2[v]["hb"], e), T2, w + T2)
        BY <3>2, <3>7, <2>1, DueAppend
      <4> QED
        BY <4>1, <2>3, <1>4
    <3> QED
      BY <3>1, <3>2, <3>4, <3>5, <3>6, <3>7, <3>8, <2>1
  <2>4. CASE s = v
    <3>1. t = tv2[c] /\ m = missed2[c] /\ net2' = net2
      BY <2>4, <1>4, <1>5, Ends2
    <3> QED
      BY <3>1, <1>0 DEF Beat2Client
  <2> QED
    BY <2>2, <2>3, <2>4, Ends2
<1>11. Beat2Server'
  <2> DEFINE l == Left(tv2[v], missed2[v])
  <2> SUFFICES ASSUME ~cut2, Beat2!Up(v)
               PROVE  /\ Left(tv2'[v], missed2'[v]) = l
                      /\ \/ \E d \in Beat2!Conns : rcv[v][d] # <<>> \/ Due(net2'[v][d], l, Delay + 1)
                         \/ state2[c] = "select" /\ l > tv2'[c] + Delay
                      /\ Beat2!Up(c) => Recent2(net2'[c]["hb"], l) /\ Heard2(l)
    BY <1>1, <1>6, Ends2 DEF Beat2Server, Coming2, Heard2
  <2>1. Coming2(l) /\ (Beat2!Up(c) => Recent2(net2[c]["hb"], l) /\ Heard2(l))
    BY <1>0 DEF Beat2Server
  <2>2. l \in Nat /\ tv2[c] \in Nat /\ missed2[v] \in 0..3
    <3>1. tv2[v] \in Nat /\ missed2[v] \in 0..3 /\ tv2[c] \in Nat
      BY <1>0, Beat2Side, Ends2
    <3> QED
      BY <3>1, LeftIs
  <2>3. Left(tv2'[v], missed2'[v]) = l
    <3>1. CASE s = v
      <4>1. tv2'[v] = T2 /\ missed2'[v] = missed2[v] + 1 /\ missed2[v] \in 0..3 /\ missed2[v] < 3 /\ tv2[v] = 0
        BY <3>1, <1>1, <1>2, <1>5
      <4>2. Left(T2, missed2[v] + 1) = Left(0, missed2[v])
        BY <4>1, LeftIs, BeatTimes
      <4> QED
        BY <4>1, <4>2
    <3>2. CASE s = c
      BY <3>2, <1>5, Ends2
    <3> QED
      BY <3>1, <3>2, Ends2
  <2> HIDE DEF l
  <2>4. CASE s = v
    <3>1. net2' = net2 /\ tv2'[c] = tv2[c]
      BY <2>4, <1>4, <1>5, Ends2
    <3> QED
      BY <2>1, <2>3, <3>1 DEF Coming2
  <2>5. CASE s = c
    <3>1. /\ net2[v]["hb"] \in Seq(Part) /\ net2'[v]["hb"] = Append(net2[v]["hb"], e) /\ e \in Part /\ e.age = 0
          /\ net2'[v]["data"] = net2[v]["data"] /\ tv2[c] = 0 /\ net2'[c]["hb"] = net2[c]["hb"]
      BY <2>5, <1>0, <1>1, <1>4, Beat2Side, PartIs, Ends2
    <3>2. Delay + 1 \in Int /\ (l > tv2[c] + Delay => l >= Delay + 1)
      BY <2>2, <3>1, BeatTimes
    <3>3. /\ (Due(net2[v]["hb"], l, Delay + 1) => Due(net2'[v]["hb"], l, Delay + 1))
          /\ (l >= Delay + 1 => Due(net2'[v]["hb"], l, Delay + 1))
      BY <3>1, <3>2, <2>2, DueAppend
    <3> QED
      BY <3>1, <3>2, <3>3, <2>1, <2>3, Ends2 DEF Coming2
  <2> QED
    BY <2>4, <2>5, Ends2
<1>12. Beat2Alive'
  BY <1>0, <1>1 DEF Beat2Alive
<1> QED
  BY <1>7, <1>8, <1>9, <1>10, <1>11, <1>12 DEF Beat2Inv

\* What is under way arrives.
LEMMA Beat2Arrive ==
  ASSUME Beat2Inv, NEW s \in Beat2!Sides, NEW d \in Beat2!Conns, Beat2!Arrive(s, d) PROVE Beat2Inv'
<1> DEFINE c == "client"
           v == "server"
           q == net2[s][d]
           r == rcv[s][d]
           K == {"byte", "fin"}
<1>0. /\ Beat2Types /\ Beat2Ends /\ Beat2Quiet /\ Beat2Client /\ Beat2Server /\ Beat2Alive
  BY DEF Beat2Inv
<1>1. /\ Beat2!Up(s) /\ q # <<>>
      /\ rcv' = [rcv EXCEPT ![s][d] = Append(r, Head(q).kind)] /\ net2' = [net2 EXCEPT ![s][d] = Tail(q)]
      /\ tv2' = tv2 /\ missed2' = missed2 /\ state2' = state2 /\ cut2' = cut2 /\ quiet2' = quiet2
  BY DEF Beat2!Arrive
<1>2. /\ net2 \in Nets2 /\ rcv \in Rcvs2 /\ q \in Seq(Part) /\ r \in Seq(K)
  BY <1>0, Types2, Beat2Side DEF Beat2Types
<1>3. /\ Tail(q) \in Seq(Part) /\ Head(q).kind \in K /\ Head(q) = q[1] /\ q[1] \in Part
      /\ \A k \in DOMAIN Tail(q) : k + 1 \in DOMAIN q /\ Tail(q)[k] = q[k + 1]
  <2>1. /\ Tail(q) \in Seq(Part) /\ Len(q) \in Nat /\ Len(q) >= 1
        /\ DOMAIN Tail(q) = 1..(Len(q) - 1) /\ DOMAIN q = 1..Len(q) /\ Head(q) = q[1] /\ Head(q) \in Part
        /\ \A k \in 1..(Len(q) - 1) : Tail(q)[k] = q[k + 1]
    BY <1>1, <1>2, Tailed
  <2>2. Head(q).kind \in K
    BY <2>1, PartIs
  <2> QED
    BY <2>1, <2>2
<1> DEFINE u == Tail(q)
           a == Append(r, Head(q).kind)
<1>4. u \in Seq(Part) /\ a \in Seq(K) /\ a # <<>>
  <2> HIDE DEF K
  <2>1. a \in Seq(K) /\ a # <<>>
    BY <1>2, <1>3, Appended
  <2> QED
    BY <1>3, <2>1
<1>5. (Open(q, r) => Open(u, a)) /\ (Shut(q, r) => Shut(u, a))
  BY <1>1, <1>2, EndsArrive
<1>6. /\ ~cut2 /\ \A k \in DOMAIN a : (k \in DOMAIN r /\ a[k] = r[k]) \/ a[k] = q[1].kind
  <2>1. /\ DOMAIN a = 1..(Len(r) + 1) /\ DOMAIN r = 1..Len(r) /\ Len(r) \in Nat
        /\ a[Len(r) + 1] = Head(q).kind /\ \A k \in 1..Len(r) : a[k] = r[k]
    <3> HIDE DEF K
    <3> QED
      BY <1>2, <1>3, Appended
  <2>2. ~cut2
    BY <1>0, <1>1 DEF Beat2Ends
  <2> QED
    BY <2>1, <2>2, <1>3
<1> HIDE DEF u, a, K
<1>7. /\ net2' \in Nets2 /\ rcv' \in Rcvs2 /\ net2'[s][d] = u /\ rcv'[s][d] = a
      /\ \A x \in Beat2!Sides, y \in Beat2!Conns :
            ~(x = s /\ y = d) => net2'[x][y] = net2[x][y] /\ rcv'[x][y] = rcv[x][y]
  <2>1. net2' = [net2 EXCEPT ![s][d] = u] /\ rcv' = [rcv EXCEPT ![s][d] = a]
    BY <1>1 DEF u, a
  <2>2. a \in Seq({"byte", "fin"})
    BY <1>4 DEF K
  <2> QED
    BY <2>1, <2>2, <1>2, <1>4 DEF Nets2, Rcvs2
<1>8. \A x \in Beat2!Sides : Beat2!Up(x)' <=> Beat2!Up(x)
  BY <1>1 DEF Beat2!Up
<1>9. Beat2Types'
  <2>1. Beat2!TypeOK'
    BY <1>0, <1>1, <1>7, Ends2 DEF Beat2Types, Beat2!TypeOK, Nets2, Rcvs2, Part
  <2> QED
    BY <2>1, <1>0, <1>1, <1>8 DEF Beat2Types
<1>10. Beat2Ends'
  <2>1. ASSUME NEW x \in Beat2!Sides, Beat2!Up(x), NEW y \in Beat2!Conns
        PROVE  IF Beat2!Up(Beat2!Peer(x)) THEN Open(net2'[x][y], rcv'[x][y]) ELSE Shut(net2'[x][y], rcv'[x][y]) \/ (cut2 /\ Open(net2'[x][y], rcv'[x][y]))
    <3>1. IF Beat2!Up(Beat2!Peer(x)) THEN Open(net2[x][y], rcv[x][y]) ELSE Shut(net2[x][y], rcv[x][y]) \/ (cut2 /\ Open(net2[x][y], rcv[x][y]))
      BY <1>0, <2>1 DEF Beat2Ends
    <3> QED
      BY <3>1, <1>5, <1>7
  <2>2. Beat2!Up(c) => OnlyEnd(net2'[c]["data"], rcv'[c]["data"])
    <3> SUFFICES ASSUME Beat2!Up(c) PROVE OnlyEnd(net2'[c]["data"], rcv'[c]["data"])
      OBVIOUS
    <3>1. OnlyEnd(net2[c]["data"], rcv[c]["data"])
      BY <1>0 DEF Beat2Ends
    <3>2. CASE s = c /\ d = "data"
      <4>1. 1 \in DOMAIN q
        BY <1>1, <1>2
      <4>2. OnlyEnd(u, a)
        BY <3>1, <3>2, <4>1, <1>3, <1>6 DEF OnlyEnd, u
      <4> QED
        BY <3>2, <4>2, <1>7
    <3>3. CASE ~(s = c /\ d = "data")
      BY <3>1, <3>3, <1>7, Ends2
    <3> QED
      BY <3>2, <3>3
  <2>3. \A x \in Beat2!Sides : Beat2!Peer(x) \in Beat2!Sides
    BY Ends2
  <2> QED
    BY <2>1, <2>2, <2>3, <1>0, <1>1, <1>6, <1>8, Ends2 DEF Beat2Ends
<1>11. Beat2Quiet'
  <2>1. \A k \in DOMAIN net2'[c]["hb"] : \E i \in DOMAIN net2[c]["hb"] : net2'[c]["hb"][k] = net2[c]["hb"][i]
    <3>1. CASE s = c /\ d = "hb"
      BY <3>1, <1>3, <1>7 DEF u
    <3>2. CASE ~(s = c /\ d = "hb")
      BY <3>2, <1>7, Ends2
    <3> QED
      BY <3>1, <3>2
  <2>2. \A x \in Beat2!Sides : state2[x] = "select" => quiet2[x] + tv2[x] <= Beat2!Idle(x) + Residue + Wait(missed2[x])
    BY <1>0 DEF Beat2Quiet, Hears
  <2>3. state2[c] = "recv" =>
          /\ quiet2[c] <= Longest2(missed2[c]) + Delay
          /\ \A k \in DOMAIN net2'[c]["hb"] : net2'[c]["hb"][k].kind = "fin" =>
                quiet2[c] <= Longest2(missed2[c]) + net2'[c]["hb"][k].age
    BY <2>1, <1>0, <1>6 DEF Beat2Quiet, Hears
  <2> QED
    BY <2>2, <2>3, <1>1 DEF Beat2Quiet, Hears
<1>12. Beat2Client'
  <2> DEFINE t == tv2[c]
             w == Wait(missed2[c])
  <2> SUFFICES ASSUME state2[c] = "select", missed2[c] > 0
               PROVE  \/ Beat2!Up(v) /\ Due(net2'[v]["hb"], t, w)
                      \/ Beat2!Up(v) /\ rcv'[v]["hb"] # <<>> /\ Delay + t >= w
                      \/ Due(net2'[c]["hb"], Delay + t, w)
                      \/ rcv'[c]["hb"] # <<>> /\ Delay + (Delay + t) >= w
    BY <1>1, <1>8, Ends2 DEF Beat2Client
  <2>1. t \in Nat /\ w \in Int /\ Delay + t \in Nat
    <3>1. Beat2!Up(c)
      BY DEF Beat2!Up
    <3>2. t \in Nat /\ missed2[c] \in 0..3
      BY <3>1, <1>0, Beat2Side, Ends2
    <3> QED
      BY <3>2, Waits, BeatTimes
  <2>2. \/ Beat2!Up(v) /\ Due(net2[v]["hb"], t, w)
        \/ Beat2!Up(v) /\ rcv[v]["hb"] # <<>> /\ Delay + t >= w
        \/ Due(net2[c]["hb"], Delay + t, w)
        \/ rcv[c]["hb"] # <<>> /\ Delay + (Delay + t) >= w
    BY <1>0, <1>6 DEF Beat2Client
  <2> HIDE DEF t, w
  <2>3. \A x \in Beat2!Sides : rcv[x]["hb"] # <<>> => rcv'[x]["hb"] # <<>>
    BY <1>4, <1>7, Ends2
  <2>4. ASSUME NEW i \in Nat, Due(q, i, w) PROVE Due(u, i, w) \/ Delay + i >= w
    BY <2>1, <2>4, <1>1, <1>2, DueTail DEF u
  <2>5. ASSUME NEW x \in Beat2!Sides, NEW i \in Nat, Due(net2[x]["hb"], i, w)
        PROVE  Due(net2'[x]["hb"], i, w) \/ (rcv'[x]["hb"] # <<>> /\ Delay + i >= w)
    <3>1. CASE x = s /\ d = "hb"
      BY <3>1, <2>4, <2>5, <1>4, <1>7
    <3>2. CASE ~(x = s /\ d = "hb")
      BY <3>2, <2>5, <1>7, Ends2
    <3> QED
      BY <3>1, <3>2
  <2> QED
    BY <2>1, <2>2, <2>3, <2>5, Ends2
<1>13. Beat2Server'
  <2> DEFINE l == Left(tv2[v], missed2[v])
  <2> SUFFICES ASSUME Beat2!Up(v)
               PROVE  /\ \/ \E y \in Beat2!Conns : rcv'[v][y] # <<>> \/ Due(net2'[v][y], l, Delay + 1)
                         \/ state2[c] = "select" /\ l > tv2[c] + Delay
                      /\ Beat2!Up(c) => /\ Recent2(net2'[c]["hb"], l)
                                        /\ (\E k \in DOMAIN rcv'[c]["hb"] : rcv'[c]["hb"][k] # "fin") =>
                                              l + Delay >= T1 + 4 * T2
    BY <1>1, <1>8, Ends2 DEF Beat2Server, Coming2, Heard2
  <2>1. Coming2(l) /\ (Beat2!Up(c) => Recent2(net2[c]["hb"], l) /\ Heard2(l))
    BY <1>0, <1>6 DEF Beat2Server
  <2>2. l \in Nat
    <3>1. tv2[v] \in Nat /\ missed2[v] \in 0..3
      BY <1>0, Beat2Side, Ends2
    <3> QED
      BY <3>1, LeftIs
  <2> HIDE DEF l
  <2>3. \/ \E y \in Beat2!Conns : rcv'[v][y] # <<>> \/ Due(net2'[v][y], l, Delay + 1)
        \/ state2[c] = "select" /\ l > tv2[c] + Delay
    <3>1. CASE s = v
      BY <3>1, <1>4, <1>7
    <3>2. CASE s = c
      <4>1. \A y \in Beat2!Conns : rcv'[v][y] = rcv[v][y] /\ net2'[v][y] = net2[v][y]
        BY <3>2, <1>7, Ends2
      <4> QED
        BY <4>1, <2>1 DEF Coming2
    <3> QED
      BY <3>1, <3>2, Ends2
  <2>4. ASSUME Beat2!Up(c)
        PROVE  /\ Recent2(net2'[c]["hb"], l)
               /\ (\E k \in DOMAIN rcv'[c]["hb"] : rcv'[c]["hb"][k] # "fin") => l + Delay >= T1 + 4 * T2
    <3>1. Recent2(net2[c]["hb"], l) /\ Heard2(l)
      BY <2>1, <2>4
    <3>2. CASE s = c /\ d = "hb"
      <4>1. Recent2(q, l) /\ 1 \in DOMAIN q
        BY <3>1, <3>2, <1>1, <1>2
      <4>2. Recent2(u, l)
        BY <4>1, <1>3 DEF Recent2, u
      <4>3. q[1].kind # "fin" => l + Delay >= T1 + 4 * T2
        <5>1. q[1].age \in Nat /\ q[1].age <= Delay
          BY <1>3, PartIs
        <5>2. q[1].kind # "fin" => l + q[1].age >= T1 + 4 * T2
          BY <4>1 DEF Recent2
        <5> QED
          BY <5>1, <5>2, <2>2, BeatTimes
      <4>4. (\E k \in DOMAIN r : r[k] # "fin") => l + Delay >= T1 + 4 * T2
        BY <3>1, <3>2 DEF Heard2
      <4>5. (\E k \in DOMAIN a : a[k] # "fin") => l + Delay >= T1 + 4 * T2
        BY <4>3, <4>4, <1>6
      <4> QED
        BY <3>2, <4>2, <4>5, <1>7
    <3>3. CASE ~(s = c /\ d = "hb")
      <4>1. net2'[c]["hb"] = net2[c]["hb"] /\ rcv'[c]["hb"] = rcv[c]["hb"]
        BY <3>3, <1>7, Ends2
      <4> QED
        BY <3>1, <4>1 DEF Heard2
    <3> QED
      BY <3>2, <3>3
  <2> QED
    BY <2>3, <2>4
<1>14. Beat2Alive'
  BY <1>0, <1>1 DEF Beat2Alive
<1> QED
  BY <1>9, <1>10, <1>11, <1>12, <1>13, <1>14 DEF Beat2Inv

\* The client's application has data sent.
LEMMA Beat2Talk ==
  ASSUME Beat2Inv, Beat2!Talk PROVE Beat2Inv'
<1> DEFINE c == "client"
           v == "server"
           e == [kind |-> "byte", age |-> 0]
<1>0. /\ Beat2Types /\ Beat2Ends /\ Beat2Quiet /\ Beat2Client /\ Beat2Server /\ Beat2Alive
  BY DEF Beat2Inv
<1>1. /\ state2[c] = "select" /\ ~cut2 /\ net2' = Beat2!Sent(c, {"data"}, "byte")
      /\ tv2' = tv2 /\ missed2' = missed2 /\ state2' = state2 /\ cut2' = cut2 /\ quiet2' = quiet2
      /\ rcv' = rcv
  BY DEF Beat2!Talk
<1>2. net2[v]["data"] \in Seq(Part) /\ e \in Part /\ e.kind = "byte"
  BY <1>0, Beat2Side, PartIs, Ends2
<1>3. /\ net2' \in Nets2 /\ (\A d \in Beat2!Conns : net2'[c][d] = net2[c][d])
      /\ net2'[v]["hb"] = net2[v]["hb"] /\ net2'[v]["data"] = Append(net2[v]["data"], e)
  <2> DEFINE w == Beat2!Sent(c, {"data"}, "byte")
  <2>1. /\ w \in Nets2
        /\ \A d \in Beat2!Conns :
              /\ w[c][d] = net2[c][d]
              /\ w[Beat2!Peer(c)][d] = IF d \in {"data"} THEN Append(net2[Beat2!Peer(c)][d], e)
                                       ELSE net2[Beat2!Peer(c)][d]
    BY <1>0, <1>1, Ends2, Sent2
  <2> HIDE DEF e
  <2> QED
    BY <1>1, <2>1, Ends2
<1> HIDE DEF e
<1>4. \A x \in Beat2!Sides : Beat2!Up(x)' <=> Beat2!Up(x)
  BY <1>1 DEF Beat2!Up
<1>5. Beat2Types'
  <2>1. Beat2!TypeOK'
    BY <1>0, <1>1, <1>3, Ends2 DEF Beat2Types, Beat2!TypeOK, Nets2, Part
  <2> QED
    BY <2>1, <1>0, <1>1, <1>4 DEF Beat2Types
<1>6. Beat2Ends'
  <2>1. ASSUME NEW x \in Beat2!Sides, Beat2!Up(x), NEW y \in Beat2!Conns
        PROVE  IF Beat2!Up(Beat2!Peer(x)) THEN Open(net2'[x][y], rcv[x][y]) ELSE Shut(net2'[x][y], rcv[x][y]) \/ (cut2 /\ Open(net2'[x][y], rcv[x][y]))
    <3>1. IF Beat2!Up(Beat2!Peer(x)) THEN Open(net2[x][y], rcv[x][y]) ELSE Shut(net2[x][y], rcv[x][y]) \/ (cut2 /\ Open(net2[x][y], rcv[x][y]))
      BY <1>0, <2>1 DEF Beat2Ends
    <3>2. CASE x = v /\ y = "data"
      <4>1. Beat2!Up(Beat2!Peer(x))
        BY <3>2, <1>1, Ends2 DEF Beat2!Up
      <4>2. Open(Append(net2[v]["data"], e), rcv[v]["data"])
        BY <3>1, <3>2, <4>1, <1>2, EndsSent
      <4> QED
        BY <3>2, <4>1, <4>2, <1>3
    <3>3. CASE ~(x = v /\ y = "data")
      BY <3>1, <3>3, <1>3, Ends2
    <3> QED
      BY <3>2, <3>3
  <2>2. \A x \in Beat2!Sides : Beat2!Peer(x) \in Beat2!Sides
    BY Ends2
  <2> QED
    BY <2>1, <2>2, <1>0, <1>1, <1>3, <1>4, Ends2 DEF Beat2Ends
<1>7. Beat2Quiet' /\ Beat2Alive'
  BY <1>0, <1>1, <1>3, Ends2 DEF Beat2Quiet, Hears, Beat2Alive
<1>8. Beat2Client'
  BY <1>0, <1>1, <1>3, <1>4, Ends2 DEF Beat2Client
<1>9. Beat2Server'
  <2> DEFINE l == Left(tv2[v], missed2[v])
  <2> SUFFICES ASSUME Beat2!Up(v)
               PROVE  /\ \/ \E d \in Beat2!Conns : rcv[v][d] # <<>> \/ Due(net2'[v][d], l, Delay + 1)
                         \/ state2[c] = "select" /\ l > tv2[c] + Delay
                      /\ Beat2!Up(c) => Recent2(net2[c]["hb"], l) /\ Heard2(l)
    BY <1>1, <1>3, <1>4, Ends2 DEF Beat2Server, Coming2, Heard2
  <2>1. Coming2(l) /\ (Beat2!Up(c) => Recent2(net2[c]["hb"], l) /\ Heard2(l))
    BY <1>0, <1>1 DEF Beat2Server
  <2>2. l \in Nat /\ Delay + 1 \in Int
    <3>1. tv2[v] \in Nat /\ missed2[v] \in 0..3
      BY <1>0, Beat2Side, Ends2
    <3>2. Left(tv2[v], missed2[v]) \in Nat
      BY <3>1, LeftIs
    <3> QED
      BY <3>1, <3>2, BeatTimes
  <2> HIDE DEF l
  <2>3. Due(net2[v]["data"], l, Delay + 1) => Due(net2'[v]["data"], l, Delay + 1)
    BY <2>2, <1>2, <1>3, DueAppend
  <2> QED
    BY <2>1, <2>3, <1>3, Ends2 DEF Coming2
<1> QED
  BY <1>5, <1>6, <1>7, <1>8, <1>9 DEF Beat2Inv

LEMMA Beat2Cut ==
  ASSUME Beat2Inv, Beat2!Cut PROVE Beat2Inv'
<1>0. /\ Beat2Types /\ Beat2Ends /\ Beat2Quiet
  BY DEF Beat2Inv
<1>1. /\ ~cut2 /\ cut2' = TRUE
      /\ net2' = [s \in Beat2!Sides |-> [c \in Beat2!Conns |-> <<>>]]
      /\ tv2' = tv2 /\ missed2' = missed2 /\ rcv' = rcv /\ state2' = state2 /\ quiet2' = quiet2
  BY DEF Beat2!Cut
<1>3. \A s \in Beat2!Sides : (Beat2!Up(s)' <=> Beat2!Up(s)) /\ Beat2!Peer(s) \in Beat2!Sides
  BY <1>1, Ends2 DEF Beat2!Up
<1>4. net2' \in Nets2 /\ \A s \in Beat2!Sides, c \in Beat2!Conns : net2'[s][c] = <<>>
  BY <1>1 DEF Nets2
<1>5. Beat2Types'
  <2>1. Beat2!TypeOK'
    BY <1>0, <1>1, <1>4, Ends2 DEF Beat2Types, Beat2!TypeOK, Beat2!MaxQuiet, Nets2, Part
  <2> QED
    BY <2>1, <1>0, <1>1, <1>3 DEF Beat2Types
<1>6. Beat2Ends'
  <2>1. ASSUME NEW s \in Beat2!Sides, Beat2!Up(s), NEW c \in Beat2!Conns
        PROVE  IF Beat2!Up(Beat2!Peer(s)) THEN Open(net2'[s][c], rcv[s][c])
               ELSE Shut(net2'[s][c], rcv[s][c]) \/ Open(net2'[s][c], rcv[s][c])
    <3>1. IF Beat2!Up(Beat2!Peer(s)) THEN Open(net2[s][c], rcv[s][c]) ELSE Shut(net2[s][c], rcv[s][c])
      BY <1>0, <1>1, <2>1 DEF Beat2Ends
    <3>2. net2'[s][c] = <<>> /\ DOMAIN <<>> = {}
      BY <1>4
    <3>3. Open(net2[s][c], rcv[s][c]) => Open(<<>>, rcv[s][c])
      BY <3>2 DEF Open
    <3>4. Shut(net2[s][c], rcv[s][c]) => Shut(<<>>, rcv[s][c]) \/ Open(<<>>, rcv[s][c])
      <4>1. CASE net2[s][c] = <<>>
        BY <4>1
      <4>2. CASE net2[s][c] # <<>>
        BY <4>2, <3>2 DEF Shut, Open
      <4> QED
        BY <4>1, <4>2
    <3> QED
      BY <3>1, <3>2, <3>3, <3>4
  <2>2. Beat2!Up("client") => OnlyEnd(net2'["client"]["data"], rcv["client"]["data"])
    <3>1. Beat2!Up("client") => OnlyEnd(net2["client"]["data"], rcv["client"]["data"])
      BY <1>0 DEF Beat2Ends
    <3> QED
      BY <3>1, <1>4, Ends2 DEF OnlyEnd
  <2> QED
    BY <2>1, <2>2, <1>0, <1>1, <1>3, <1>4, Ends2 DEF Beat2Ends
<1>7. Beat2Quiet'
  <2>1. Hears' => Hears
    BY <1>1 DEF Hears
  <2>2. DOMAIN net2'["client"]["hb"] = {}
    BY <1>4, Ends2
  <2> QED
    BY <2>1, <2>2, <1>0, <1>1 DEF Beat2Quiet
<1>8. Beat2Client' /\ Beat2Server' /\ Beat2Alive'
  BY <1>1 DEF Beat2Client, Beat2Server, Beat2Alive
<1> QED
  BY <1>5, <1>6, <1>7, <1>8 DEF Beat2Inv

\* A program is killed while its peer runs: the end follows on both connections.
LEMMA Beat2Kill ==
  ASSUME Beat2Inv, NEW s \in Beat2!Sides, Beat2!Kill(s), ~cut2, Beat2!Up(Beat2!Peer(s)) PROVE Beat2Inv'
<1> DEFINE c == "client"
           v == "server"
           p == Beat2!Peer(s)
           e == [kind |-> "fin", age |-> 0]
<1>0. /\ Beat2Types /\ Beat2Ends /\ Beat2Quiet /\ Beat2Client /\ Beat2Server /\ Beat2Alive
  BY DEF Beat2Inv
<1>1. /\ Beat2!Up(s)
      /\ state2' = [state2 EXCEPT ![s] = "killed"] /\ net2' = Beat2!Sent(s, Beat2!Conns, "fin")
      /\ tv2' = tv2 /\ missed2' = missed2 /\ rcv' = rcv /\ cut2' = cut2 /\ quiet2' = quiet2
  BY DEF Beat2!Kill, Beat2!Exit
<1>2. state2 \in States2 /\ state2[v] # "recv"
  BY <1>0, <1>1, Types2 DEF Beat2Types
<1>3. ~cut2 /\ (\A x \in Beat2!Sides : Beat2!Up(x)) /\ p \in Beat2!Sides /\ p # s /\ Beat2!Peer(p) = s
  BY <1>1, Ends2
<1>4. e \in Part /\ e.kind = "fin" /\ e.age = 0 /\ \A d \in Beat2!Conns : net2[p][d] \in Seq(Part)
  BY <1>0, <1>3, Beat2Side, PartIs
<1>5. net2' \in Nets2 /\ \A d \in Beat2!Conns : net2'[p][d] = Append(net2[p][d], e)
  <2>1. \A d \in Beat2!Conns : Beat2!Sent(s, Beat2!Conns, "fin")[Beat2!Peer(s)][d] = Append(net2[Beat2!Peer(s)][d], e)
    BY <1>0, <1>3, Sent2
  <2>2. Beat2!Sent(s, Beat2!Conns, "fin") \in Nets2
    BY <1>0, Sent2
  <2> QED
    BY <2>1, <2>2, <1>1
<1> HIDE DEF e
<1>6. /\ state2'[s] = "killed" /\ state2'[p] = state2[p] /\ ~Beat2!Up(s)' /\ Beat2!Up(p)' /\ Beat2!Up(p)
      /\ \A x \in Beat2!Sides : Beat2!Up(x)' => x = p
  <2>1. state2'[s] = "killed" /\ \A x \in Beat2!Sides : x # s => x = p /\ state2'[x] = state2[x]
    BY <1>1, <1>2, <1>3, Ends2 DEF States2
  <2> QED
    BY <2>1, <1>3 DEF Beat2!Up
<1>7. Beat2Types'
  <2>1. Beat2!TypeOK'
    <3>1. state2' \in States2 /\ state2'[v] # "recv"
      BY <1>1, <1>2, Ends2 DEF States2
    <3> QED
      BY <3>1, <1>0, <1>1, <1>5, Ends2 DEF Beat2Types, Beat2!TypeOK, Nets2, States2, Part
  <2> QED
    BY <2>1, <1>0, <1>1, <1>6 DEF Beat2Types
<1>8. state2[c] # "recv"
  BY <1>0, <1>3, Ends2 DEF Beat2Ends
<1>9. Beat2Ends'
  <2>1. \A d \in Beat2!Conns : Shut(net2'[p][d], rcv[p][d])
    <3> TAKE d \in Beat2!Conns
    <3>1. Open(net2[p][d], rcv[p][d])
      BY <1>0, <1>3 DEF Beat2Ends
    <3> QED
      BY <3>1, <1>4, <1>5, EndsSent
  <2>2. p = c => OnlyEnd(net2'[c]["data"], rcv[c]["data"])
    <3> SUFFICES ASSUME p = c PROVE OnlyEnd(net2'[c]["data"], rcv[c]["data"])
      OBVIOUS
    <3>1. OnlyEnd(net2[c]["data"], rcv[c]["data"])
      BY <1>0, <1>3, Ends2 DEF Beat2Ends
    <3>2. /\ net2'[c]["data"] = Append(net2[c]["data"], e) /\ net2[c]["data"] \in Seq(Part)
      BY <1>4, <1>5, Ends2
    <3>3. \A k \in DOMAIN Append(net2[c]["data"], e) :
             \/ k \in DOMAIN net2[c]["data"] /\ Append(net2[c]["data"], e)[k] = net2[c]["data"][k]
             \/ Append(net2[c]["data"], e)[k] = e
      BY <3>2, <1>4, Appended
    <3> QED
      BY <3>1, <3>2, <3>3, <1>4 DEF OnlyEnd
  <2>3. state2'[c] # "recv"
    BY <1>6, <1>8, Ends2
  <2> QED
    BY <2>1, <2>2, <2>3, <1>1, <1>3, <1>6, Ends2 DEF Beat2Ends
<1>10. Beat2Quiet'
  <2>1. \A x \in Beat2!Sides : state2'[x] = "select" => state2[x] = "select"
    BY <1>6, Ends2
  <2>2. state2'[c] # "recv"
    BY <1>6, <1>8, Ends2
  <2> QED
    BY <2>1, <2>2, <1>0, <1>1 DEF Beat2Quiet, Hears
<1>11. Beat2Client'
  <2> DEFINE t == tv2[c]
             w == Wait(missed2[c])
  <2> SUFFICES ASSUME state2'[c] = "select", missed2[c] > 0
               PROVE  \/ Due(net2'[c]["hb"], Delay + t, w)
                      \/ rcv[c]["hb"] # <<>> /\ Delay + (Delay + t) >= w
    BY <1>1 DEF Beat2Client
  <2>1. p = c /\ state2[c] = "select"
    BY <1>3, <1>6, Ends2
  <2>2. t \in Nat /\ w \in Int /\ Delay + t \in Nat
    <3>2. t \in Nat /\ missed2[c] \in 0..3
      BY <1>0, <1>3, Beat2Side, Ends2
    <3> QED
      BY <3>2, Waits, BeatTimes
  <2>3. \/ Due(net2[v]["hb"], t, w) \/ Delay + t >= w
        \/ Due(net2[c]["hb"], Delay + t, w)
        \/ rcv[c]["hb"] # <<>> /\ Delay + (Delay + t) >= w
    BY <2>1, <1>0, <1>3 DEF Beat2Client
  <2> HIDE DEF t, w
  <2>4. net2[v]["hb"] \in Seq(Part) /\ net2[c]["hb"] \in Seq(Part) /\ net2'[c]["hb"] = Append(net2[c]["hb"], e)
    BY <2>1, <1>0, <1>4, <1>5, Beat2Side, Ends2
  <2>5. Due(net2[v]["hb"], t, w) => Delay + t >= w
    BY <2>2, <2>4, DueNow
  <2>6. /\ (Delay + t >= w => Due(net2'[c]["hb"], Delay + t, w))
        /\ (Due(net2[c]["hb"], Delay + t, w) => Due(net2'[c]["hb"], Delay + t, w))
    BY <2>2, <2>4, <1>4, DueAppend
  <2> QED
    BY <2>3, <2>5, <2>6
<1>12. Beat2Server'
  <2> DEFINE l == Left(tv2[v], missed2[v])
  <2> SUFFICES ASSUME Beat2!Up(v)'
               PROVE  /\ \E d \in Beat2!Conns : rcv[v][d] # <<>> \/ Due(net2'[v][d], l, Delay + 1)
                      /\ ~Beat2!Up(c)'
    BY <1>1, Ends2 DEF Beat2Server, Coming2
  <2>1. p = v /\ s = c
    BY <1>3, <1>6, Ends2
  <2>2. l \in Nat /\ tv2[c] \in Nat /\ Delay + 1 \in Int
    <3>1. tv2[v] \in Nat /\ missed2[v] \in 0..3 /\ tv2[c] \in Nat
      BY <1>0, <1>3, Beat2Side, Ends2
    <3>2. Left(tv2[v], missed2[v]) \in Nat
      BY <3>1, LeftIs
    <3> QED
      BY <3>1, <3>2, BeatTimes
  <2>3. Coming2(l)
    BY <1>0, <1>3, Ends2 DEF Beat2Server
  <2> HIDE DEF l
  <2>4. ASSUME NEW d \in Beat2!Conns
        PROVE  /\ (Due(net2[v][d], l, Delay + 1) => Due(net2'[v][d], l, Delay + 1))
               /\ (l >= Delay + 1 => Due(net2'[v][d], l, Delay + 1))
    BY <2>1, <2>2, <1>4, <1>5, DueAppend
  <2>5. l > tv2[c] + Delay => l >= Delay + 1
    BY <2>2, BeatTimes
  <2> QED
    BY <2>1, <2>3, <2>4, <2>5, <1>6, Ends2 DEF Coming2
<1>13. Beat2Alive'
  BY <1>0, <1>1, <1>2 DEF Beat2Alive, States2
<1> QED
  BY <1>7, <1>9, <1>10, <1>11, <1>12, <1>13 DEF Beat2Inv

\* A program is killed and its peer does not hear of it.
LEMMA Beat2KillQuietly ==
  ASSUME Beat2Inv, NEW s \in Beat2!Sides, Beat2!Kill(s), cut2 \/ ~Beat2!Up(Beat2!Peer(s)) PROVE Beat2Inv'
<1> DEFINE p == Beat2!Peer(s)
<1>0. /\ Beat2Types /\ Beat2Ends /\ Beat2Quiet /\ Beat2Alive
  BY DEF Beat2Inv
<1>1. /\ Beat2!Up(s)
      /\ state2' = [state2 EXCEPT ![s] = "killed"] /\ net2' = Beat2!Sent(s, Beat2!Conns, "fin")
      /\ tv2' = tv2 /\ missed2' = missed2 /\ rcv' = rcv /\ cut2' = cut2 /\ quiet2' = quiet2
  BY DEF Beat2!Kill, Beat2!Exit
<1>2. state2 \in States2 /\ state2["server"] # "recv" /\ net2' \in Nets2 /\ (cut2 => net2' = net2)
  BY <1>0, <1>1, Types2, Sent2 DEF Beat2Types
<1>3. state2'[s] = "killed" /\ \A x \in Beat2!Sides : x # s => x = p /\ Beat2!Peer(x) = s /\ state2'[x] = state2[x]
  BY <1>1, <1>2, Ends2 DEF States2
<1>4. Beat2!TypeOK'
  <2>1. state2' \in States2 /\ state2'["server"] # "recv"
    BY <1>1, <1>2, Ends2 DEF States2
  <2> QED
    BY <2>1, <1>0, <1>1, <1>2, Ends2 DEF Beat2Types, Beat2!TypeOK, Beat2!MaxQuiet, Nets2, States2, Part
<1>5. \A x \in Beat2!Sides : Beat2!Up(x)' => x = p /\ x # s /\ Beat2!Up(x)
  BY <1>3 DEF Beat2!Up
<1>6. \A x \in Beat2!Sides : state2'[x] = "dead" => state2[x] = "dead"
  BY <1>3
<1>7. CASE ~Beat2!Up(p)
  BY <1>7, <1>1, <1>2, <1>4, <1>5, <1>6, Beat2Over
<1>8. CASE Beat2!Up(p) /\ cut2
  <2>1. Beat2Types'
    BY <1>0, <1>1, <1>4, <1>5 DEF Beat2Types
  <2>2. state2'["client"] # "recv"
    <3>1. CASE s = "client"
      BY <3>1, <1>3
    <3>2. CASE s = "server"
      BY <3>2, <1>0, <1>1, <1>3, Ends2 DEF Beat2Ends
    <3> QED
      BY <3>1, <3>2, Ends2
  <2>3. Beat2Ends'
    <3>1. \A x \in Beat2!Sides : Beat2!Up(x)' => \A d \in Beat2!Conns : Open(net2[x][d], rcv[x][d])
      BY <1>0, <1>1, <1>3, <1>5 DEF Beat2Ends
    <3>2. Beat2!Up("client")' => OnlyEnd(net2["client"]["data"], rcv["client"]["data"])
      BY <1>0, <1>5, Ends2 DEF Beat2Ends
    <3> QED
      BY <3>1, <3>2, <2>2, <1>0, <1>1, <1>2, <1>8 DEF Beat2Ends
  <2>4. Beat2Quiet'
    <3>1. \A x \in Beat2!Sides : state2'[x] = "select" => state2[x] = "select"
      BY <1>3
    <3> QED
      BY <3>1, <2>2, <1>0, <1>1 DEF Beat2Quiet, Hears
  <2>5. Beat2Client' /\ Beat2Server' /\ Beat2Alive'
    BY <1>1, <1>8 DEF Beat2Client, Beat2Server, Beat2Alive
  <2> QED
    BY <2>1, <2>3, <2>4, <2>5 DEF Beat2Inv
<1> QED
  BY <1>7, <1>8

\* Time passes while nothing is to be done.
LEMMA Beat2Tick ==
  ASSUME Beat2Inv, Beat2!Tick PROVE Beat2Inv'
<1> DEFINE c == "client"
           v == "server"
<1>0. /\ Beat2Types /\ Beat2Ends /\ Beat2Quiet /\ Beat2Client /\ Beat2Server /\ Beat2Alive
  BY DEF Beat2Inv
<1>1. missed2' = missed2 /\ rcv' = rcv /\ state2' = state2 /\ cut2' = cut2
  BY DEF Beat2!Tick
<1>2. ASSUME NEW s \in Beat2!Sides
      PROVE  /\ state2[s] = "select" =>
                   /\ tv2[s] > 0 /\ tv2'[s] = tv2[s] - 1 /\ \A d \in Beat2!Conns : rcv[s][d] = <<>>
             /\ state2[s] = "recv" => rcv[s]["hb"] = <<>>
             /\ state2[s] # "select" => tv2'[s] = tv2[s]
             /\ Beat2!Up(s) => quiet2'[s] = Beat2!Older(quiet2[s])
             /\ ~Beat2!Up(s) => quiet2'[s] = quiet2[s] /\ \A d \in Beat2!Conns : net2'[s][d] = <<>>
  <2>1. Beat2!Up(s) => ~Beat2!Busy(s)
    BY DEF Beat2!Tick
  <2>2. tv2[s] \in Nat
    BY <1>0, Beat2Side
  <2>3. /\ tv2'[s] = IF state2[s] = "select" THEN tv2[s] - 1 ELSE tv2[s]
        /\ quiet2'[s] = IF Beat2!Up(s) THEN Beat2!Older(quiet2[s]) ELSE quiet2[s]
        /\ ~Beat2!Up(s) => \A d \in Beat2!Conns : net2'[s][d] = <<>>
    BY DEF Beat2!Tick
  <2>4. state2[s] = "select" => tv2[s] # 0 /\ \A d \in Beat2!Conns : rcv[s][d] = <<>>
    BY <2>1 DEF Beat2!Busy, Beat2!Up
  <2>5. state2[s] = "recv" => rcv[s]["hb"] = <<>>
    BY <2>1 DEF Beat2!Busy, Beat2!Up
  <2> QED
    BY <2>2, <2>3, <2>4, <2>5
<1>3. ASSUME NEW s \in Beat2!Sides, Beat2!Up(s), NEW d \in Beat2!Conns
      PROVE  Aged2(net2[s][d], net2'[s][d])
  <2> DEFINE n == net2[s][d]
  <2>1. n \in Seq(Part) /\ DOMAIN n = 1..Len(n) /\ Len(n) \in Nat
    BY <1>0, Beat2Side
  <2>2. /\ net2'[s][d] = [k \in DOMAIN n |-> [n[k] EXCEPT !.age = @ + 1]]
        /\ \A k \in DOMAIN n : n[k].age < Delay
    BY <1>3 DEF Beat2!Tick
  <2> HIDE DEF n
  <2>3. ASSUME NEW k \in 1..Len(n)
        PROVE  /\ [n[k] EXCEPT !.age = @ + 1] \in Part
               /\ [n[k] EXCEPT !.age = @ + 1].kind = n[k].kind
               /\ [n[k] EXCEPT !.age = @ + 1].age = n[k].age + 1
    <3>1. n[k] \in Part /\ n[k].age \in Nat /\ n[k].age < Delay
      BY <2>1, <2>2, PartIs
    <3>2. n[k].age + 1 \in 0..Delay
      BY <3>1, BeatTimes
    <3> QED
      BY <3>1, <3>2 DEF Part
  <2>4. net2'[s][d] \in Seq(Part) /\ Len(net2'[s][d]) = Len(n)
    BY <2>1, <2>2, <2>3
  <2>5. \A k \in 1..Len(n) : net2'[s][d][k] = [n[k] EXCEPT !.age = @ + 1]
    BY <2>1, <2>2
  <2>6. Aged2(n, net2'[s][d])
    BY <2>1, <2>3, <2>4, <2>5 DEF Aged2
  <2> QED
    BY <2>6 DEF n
<1>4. \A s \in Beat2!Sides : /\ tv2[s] \in Nat /\ tv2[s] <= T1 + T2 + Residue /\ quiet2[s] \in Nat
                             /\ quiet2[s] <= Beat2!MaxQuiet /\ Beat2!MaxQuiet \in Nat /\ Beat2!Idle(s) \in Nat
  BY <1>0, Beat2Side
<1>5. ASSUME NEW s \in Beat2!Sides
      PROVE  /\ tv2'[s] \in Nat /\ tv2'[s] <= tv2[s] /\ quiet2'[s] \in 0..Beat2!MaxQuiet
             /\ quiet2'[s] <= quiet2[s] + 1
             /\ \A d \in Beat2!Conns : net2'[s][d] \in Seq(Part)
  <2>1. tv2'[s] \in Nat /\ tv2'[s] <= tv2[s]
    BY <1>2, <1>4
  <2>2. quiet2'[s] \in 0..Beat2!MaxQuiet /\ quiet2'[s] <= quiet2[s] + 1
    BY <1>2, <1>4 DEF Beat2!Older
  <2>3. \A d \in Beat2!Conns : net2'[s][d] \in Seq(Part)
    <3>1. CASE Beat2!Up(s)
      BY <3>1, <1>3 DEF Aged2
    <3>2. CASE ~Beat2!Up(s)
      <4>1. <<>> \in Seq(Part)
        OBVIOUS
      <4>2. \A d \in Beat2!Conns : net2'[s][d] = <<>>
        BY <3>2, <1>2
      <4> QED
        BY <4>1, <4>2
    <3> QED
      BY <3>1, <3>2
  <2> QED
    BY <2>1, <2>2, <2>3
<1>6. \A s \in Beat2!Sides : Beat2!Up(s)' <=> Beat2!Up(s)
  BY <1>1 DEF Beat2!Up
<1>7. Beat2Types'
  <2>1. tv2' \in [Beat2!Sides -> 0..(T1 + T2 + Residue)]
    <3>1. \A s \in Beat2!Sides : tv2'[s] \in 0..(T1 + T2 + Residue)
      BY <1>4, <1>5, BeatTimes
    <3>2. tv2' = [s \in Beat2!Sides |-> tv2'[s]]
      BY DEF Beat2!Tick
    <3> QED
      BY <3>1, <3>2
  <2>2. quiet2' \in [Beat2!Sides -> 0..Beat2!MaxQuiet]
    <3>1. quiet2' = [s \in Beat2!Sides |-> quiet2'[s]]
      BY DEF Beat2!Tick
    <3> QED
      BY <3>1, <1>5
  <2>3. net2' \in Nets2
    <3>1. net2' = [s \in Beat2!Sides |-> [d \in Beat2!Conns |-> net2'[s][d]]]
      BY DEF Beat2!Tick
    <3>2. \A s \in Beat2!Sides : [d \in Beat2!Conns |-> net2'[s][d]] \in [Beat2!Conns -> Seq(Part)]
      BY <1>5
    <3> QED
      BY <3>1, <3>2 DEF Nets2
  <2>4. Beat2!TypeOK'
    BY <2>1, <2>2, <2>3, <1>0, <1>1, Ends2 DEF Beat2Types, Beat2!TypeOK, Beat2!MaxQuiet, Nets2, Part
  <2>5. ASSUME NEW s \in Beat2!Sides
        PROVE  /\ (Beat2!Up(s) => missed2[s] <= 3)
               /\ (missed2[s] > 0 => tv2'[s] <= T2)
               /\ (missed2[s] = 0 => tv2'[s] <= Beat2!Idle(s) + Residue)
    <3>1. /\ (Beat2!Up(s) => missed2[s] <= 3)
          /\ (missed2[s] > 0 => tv2[s] <= T2)
          /\ (missed2[s] = 0 => tv2[s] <= Beat2!Idle(s) + Residue)
      BY <1>0 DEF Beat2Types
    <3>2. tv2[s] \in Nat /\ tv2'[s] \in Nat /\ tv2'[s] <= tv2[s] /\ Beat2!Idle(s) \in Nat
      BY <1>4, <1>5
    <3> QED
      BY <3>1, <3>2, BeatTimes
  <2> QED
    BY <2>4, <2>5, <1>1, <1>6 DEF Beat2Types
<1>8. Beat2Ends'
  <2>1. cut2 => \A x \in Beat2!Sides, d \in Beat2!Conns : net2'[x][d] = <<>>
    <3> SUFFICES ASSUME cut2, NEW x \in Beat2!Sides, NEW d \in Beat2!Conns PROVE net2'[x][d] = <<>>
      OBVIOUS
    <3>1. net2[x][d] = <<>>
      BY <1>0 DEF Beat2Ends
    <3>2. CASE Beat2!Up(x)
      <4>1. Aged2(net2[x][d], net2'[x][d])
        BY <3>2, <1>3
      <4> QED
        BY <3>1, <4>1 DEF Aged2
    <3>3. CASE ~Beat2!Up(x)
      BY <3>3, <1>2
    <3> QED
      BY <3>2, <3>3
  <2>2. ASSUME NEW x \in Beat2!Sides, Beat2!Up(x), NEW d \in Beat2!Conns
        PROVE  IF Beat2!Up(Beat2!Peer(x)) THEN Open(net2'[x][d], rcv[x][d]) ELSE Shut(net2'[x][d], rcv[x][d]) \/ (cut2 /\ Open(net2'[x][d], rcv[x][d]))
    <3>1. IF Beat2!Up(Beat2!Peer(x)) THEN Open(net2[x][d], rcv[x][d]) ELSE Shut(net2[x][d], rcv[x][d]) \/ (cut2 /\ Open(net2[x][d], rcv[x][d]))
      BY <1>0, <2>2 DEF Beat2Ends
    <3>2. Aged2(net2[x][d], net2'[x][d])
      BY <2>2, <1>3
    <3> QED
      BY <3>1, <3>2, SameEnds
  <2>3. Beat2!Up(c) => OnlyEnd(net2'[c]["data"], rcv[c]["data"])
    <3> SUFFICES ASSUME Beat2!Up(c) PROVE OnlyEnd(net2'[c]["data"], rcv[c]["data"])
      OBVIOUS
    <3>1. OnlyEnd(net2[c]["data"], rcv[c]["data"]) /\ Aged2(net2[c]["data"], net2'[c]["data"])
      BY <1>0, <1>3, Ends2 DEF Beat2Ends
    <3>2. DOMAIN net2'[c]["data"] = DOMAIN net2[c]["data"] /\ DOMAIN net2[c]["data"] = 1..Len(net2[c]["data"])
      BY <3>1 DEF Aged2
    <3> QED
      BY <3>1, <3>2 DEF OnlyEnd, Aged2
  <2>4. \A x \in Beat2!Sides : Beat2!Peer(x) \in Beat2!Sides
    BY Ends2
  <2> QED
    BY <2>1, <2>2, <2>3, <2>4, <1>0, <1>1, <1>6, Ends2 DEF Beat2Ends
<1>9. Beat2Quiet'
  <2>1. ASSUME NEW x \in Beat2!Sides, state2[x] = "select"
        PROVE  quiet2'[x] + tv2'[x] <= Beat2!Idle(x) + Residue + Wait(missed2[x])
    <3>1. quiet2[x] + tv2[x] <= Beat2!Idle(x) + Residue + Wait(missed2[x])
      BY <1>0, <2>1 DEF Beat2Quiet, Hears
    <3>2. Beat2!Up(x)
      BY <2>1 DEF Beat2!Up
    <3>3. missed2[x] \in 0..3 /\ Beat2!Idle(x) \in Nat
      BY <3>2, <1>0, Beat2Side
    <3>4. Wait(missed2[x]) \in Nat
      BY <3>3, Waits
    <3>5. /\ tv2'[x] = tv2[x] - 1 /\ tv2[x] > 0 /\ tv2[x] \in Nat /\ quiet2[x] \in Nat
          /\ quiet2'[x] \in Nat /\ quiet2'[x] <= quiet2[x] + 1
      BY <2>1, <1>2, <1>4, <1>5
    <3> QED
      BY <3>1, <3>3, <3>4, <3>5, BeatTimes
  <2>2. ASSUME Hears
        PROVE  /\ quiet2'[c] <= Longest2(missed2[c]) + Delay
               /\ \A k \in DOMAIN net2'[c]["hb"] : net2'[c]["hb"][k].kind = "fin" =>
                     quiet2'[c] <= Longest2(missed2[c]) + net2'[c]["hb"][k].age
    <3> DEFINE n == net2[c]["hb"]
               u == net2'[c]["hb"]
               m == Longest2(missed2[c])
    <3>1. Beat2!Up(c) /\ rcv[c]["hb"] = <<>> /\ ~Beat2!Up(v) /\ ~cut2
      BY <2>2, <1>0, <1>2, Ends2 DEF Beat2!Up, Beat2Ends, Hears
    <3>2. Aged2(n, u) /\ Shut(n, rcv[c]["hb"])
      BY <3>1, <1>0, <1>3, Ends2 DEF Beat2Ends
    <3>3. \A k \in DOMAIN n : n[k].kind = "fin" => quiet2[c] <= m + n[k].age
      BY <2>2, <1>0 DEF Beat2Quiet, Hears
    <3>4. m \in Nat /\ quiet2[c] \in Nat /\ quiet2'[c] \in Nat /\ quiet2'[c] <= quiet2[c] + 1
      <4>1. m \in Nat
        BY BeatTimes DEF Longest2
      <4>2. c \in Beat2!Sides
        BY Ends2
      <4>3. quiet2[c] \in Nat /\ Beat2!MaxQuiet \in Nat
        BY <4>2, <1>4
      <4>4. quiet2'[c] \in 0..Beat2!MaxQuiet /\ quiet2'[c] <= quiet2[c] + 1
        BY <4>2, <1>5
      <4> QED
        BY <4>1, <4>3, <4>4
    <3> HIDE DEF n, u, m
    <3>5. DOMAIN n = DOMAIN u /\ DOMAIN n = 1..Len(n) /\ \A k \in DOMAIN n : n[k] \in Part /\ u[k] \in Part
      BY <3>2 DEF Aged2
    <3>6. ASSUME NEW k \in DOMAIN u, u[k].kind = "fin" PROVE quiet2'[c] <= m + u[k].age
      <4>1. n[k].kind = "fin" /\ u[k].age = n[k].age + 1 /\ n[k].age \in Nat
        BY <3>2, <3>5, <3>6, PartIs DEF Aged2
      <4>2. quiet2[c] <= m + n[k].age
        BY <4>1, <3>3, <3>5
      <4> QED
        BY <4>1, <4>2, <3>4
    <3>7. Len(n) \in DOMAIN n /\ n[Len(n)].kind = "fin"
      <4>1. n # <<>> /\ n \in Seq(Part)
        BY <3>1, <3>2 DEF Shut, Aged2
      <4> QED
        BY <4>1, <3>2 DEF Shut
    <3>8. u[Len(n)].kind = "fin" /\ Len(n) \in DOMAIN u /\ u[Len(n)].age \in Nat /\ u[Len(n)].age <= Delay
      BY <3>2, <3>5, <3>7, PartIs DEF Aged2
    <3>9. quiet2'[c] <= m + Delay
      <4>1. quiet2'[c] <= m + u[Len(n)].age
        BY <3>6, <3>8
      <4> QED
        BY <4>1, <3>4, <3>8, BeatTimes
    <3> QED
      BY <3>6, <3>9 DEF u, m
  <2> QED
    BY <2>1, <2>2, <1>1 DEF Beat2Quiet, Hears
<1>10. Beat2Client'
  <2> DEFINE t == tv2[c]
             w == Wait(missed2[c])
  <2> SUFFICES ASSUME ~cut2, state2[c] = "select", missed2[c] > 0
               PROVE  \/ Beat2!Up(v) /\ Due(net2'[v]["hb"], tv2'[c], w)
                      \/ Due(net2'[c]["hb"], Delay + tv2'[c], w)
    BY <1>1, <1>6, Ends2 DEF Beat2Client
  <2>1. Beat2!Up(c) /\ tv2'[c] = t - 1 /\ t \in Nat /\ rcv[c]["hb"] = <<>>
    BY <1>2, <1>4, Ends2 DEF Beat2!Up
  <2>2. w \in Int /\ Delay \in Nat
    <3>1. missed2[c] \in 0..3
      BY <2>1, <1>0, Beat2Side, Ends2
    <3> QED
      BY <3>1, Waits, BeatTimes
  <2>3. Beat2!Up(v) => rcv[v]["hb"] = <<>>
    <3>1. Beat2!Up(v) => state2[v] = "select"
      BY <1>0, Types2 DEF Beat2Types, Beat2!Up
    <3> QED
      BY <3>1, <1>2, Ends2
  <2>4. \/ Beat2!Up(v) /\ Due(net2[v]["hb"], t, w)
        \/ Due(net2[c]["hb"], Delay + t, w)
    BY <2>1, <2>3, <1>0 DEF Beat2Client
  <2> HIDE DEF t, w
  <2>5. Beat2!Up(v) /\ Due(net2[v]["hb"], t, w) => Due(net2'[v]["hb"], t - 1, w)
    <3>1. Beat2!Up(v) => Aged2(net2[v]["hb"], net2'[v]["hb"])
      BY <1>3, Ends2
    <3> QED
      BY <3>1, <2>1, <2>2, OlderParts
  <2>6. Due(net2[c]["hb"], Delay + t, w) => Due(net2'[c]["hb"], Delay + (t - 1), w)
    <3>1. Aged2(net2[c]["hb"], net2'[c]["hb"])
      BY <2>1, <1>3, Ends2
    <3>2. Delay + t \in Nat /\ (Delay + t) - 1 = Delay + (t - 1)
      BY <2>1, <2>2
    <3>3. Due(net2[c]["hb"], Delay + t, w) => Due(net2'[c]["hb"], (Delay + t) - 1, w)
      BY <3>1, <3>2, <2>2, OlderParts
    <3> QED
      BY <3>2, <3>3
  <2> QED
    BY <2>1, <2>4, <2>5, <2>6
<1>11. Beat2Server'
  <2> DEFINE l == Left(tv2[v], missed2[v])
             k == Left(tv2'[v], missed2[v])
  <2> SUFFICES ASSUME ~cut2, Beat2!Up(v)
               PROVE  /\ \/ \E d \in Beat2!Conns : Due(net2'[v][d], k, Delay + 1)
                         \/ state2[c] = "select" /\ k > tv2'[c] + Delay
                      /\ Beat2!Up(c) => Recent2(net2'[c]["hb"], k) /\ Heard2(k)
    BY <1>1, <1>6, Ends2 DEF Beat2Server, Coming2, Heard2
  <2>0. state2[v] = "select"
    BY <1>0, Types2 DEF Beat2Types, Beat2!Up
  <2>1. Coming2(l) /\ (Beat2!Up(c) => Recent2(net2[c]["hb"], l))
    BY <1>0 DEF Beat2Server
  <2>2. k = l - 1 /\ l \in Nat
    <3>1. tv2[v] \in Nat /\ missed2[v] \in 0..3 /\ tv2[v] > 0 /\ tv2'[v] = tv2[v] - 1
      BY <2>0, <1>0, <1>2, Beat2Side, Ends2
    <3>2. Left(tv2[v] - 1, missed2[v]) = Left(tv2[v], missed2[v]) - 1 /\ Left(tv2[v], missed2[v]) \in Nat
      BY <3>1, LeftIs
    <3> QED
      BY <3>1, <3>2
  <2> HIDE DEF l, k
  <2>3. \/ \E d \in Beat2!Conns : Due(net2[v][d], l, Delay + 1)
        \/ state2[c] = "select" /\ l > tv2[c] + Delay
    BY <2>0, <2>1, <1>2, Ends2 DEF Coming2
  <2>4. Delay + 1 \in Int
    BY BeatTimes
  <2>5. \A d \in Beat2!Conns : Due(net2[v][d], l, Delay + 1) => Due(net2'[v][d], k, Delay + 1)
    <3> TAKE d \in Beat2!Conns
    <3>1. Aged2(net2[v][d], net2'[v][d])
      BY <1>3, Ends2
    <3> QED
      BY <3>1, <2>2, <2>4, OlderParts
  <2>6. state2[c] = "select" /\ l > tv2[c] + Delay => k > tv2'[c] + Delay
    <3>1. state2[c] = "select" => tv2'[c] = tv2[c] - 1 /\ tv2[c] \in Nat
      BY <1>2, <1>4, Ends2
    <3> QED
      BY <3>1, <2>2, BeatTimes
  <2>7. Beat2!Up(c) => Recent2(net2'[c]["hb"], k) /\ Heard2(k)
    <3> SUFFICES ASSUME Beat2!Up(c) PROVE Recent2(net2'[c]["hb"], k) /\ Heard2(k)
      OBVIOUS
    <3>1. Aged2(net2[c]["hb"], net2'[c]["hb"])
      BY <1>3, Ends2
    <3>2. Recent2(net2'[c]["hb"], l - 1)
      BY <3>1, <2>1, <2>2, <2>4, OlderParts
    <3>3. rcv[c]["hb"] = <<>>
      BY <1>2, Ends2 DEF Beat2!Up
    <3>4. DOMAIN <<>> = {}
      OBVIOUS
    <3> QED
      BY <3>2, <3>3, <3>4, <2>2 DEF Heard2
  <2> QED
    BY <2>3, <2>5, <2>6, <2>7
<1>12. Beat2Alive'
  BY <1>0, <1>1 DEF Beat2Alive
<1> QED
  BY <1>7, <1>8, <1>9, <1>10, <1>11, <1>12 DEF Beat2Inv

\* A side reads an end: its peer ended before.
LEMMA Beat2Terminated ==
  ASSUME Beat2Inv, NEW s \in Beat2!Sides, Beat2!Up(s), Beat2!Terminated(s), UNCHANGED cut2,
         NEW d \in Beat2!Conns, ~Open(net2[s][d], rcv[s][d])
  PROVE  Beat2Inv'
<1> DEFINE p == Beat2!Peer(s)
<1>0. Beat2Types /\ Beat2Ends
  BY DEF Beat2Inv
<1>1. /\ state2' = [state2 EXCEPT ![s] = "terminated"] /\ net2' = Beat2!Sent(s, Beat2!Conns, "fin")
      /\ tv2' = tv2 /\ missed2' = missed2 /\ quiet2' = quiet2 /\ rcv' = rcv /\ cut2' = cut2
  BY DEF Beat2!Terminated, Beat2!Exit
<1>2. p \in Beat2!Sides /\ p # s /\ state2 \in States2 /\ state2["server"] # "recv"
  BY <1>0, Beat2Side, Types2 DEF Beat2Types
<1>3. ~Beat2!Up(p)
  BY <1>0, <1>2 DEF Beat2Ends
<1>4. net2' \in Nets2 /\ (cut2 => net2' = net2)
  BY <1>0, <1>1, Sent2
<1>5. state2'[s] = "terminated" /\ \A x \in Beat2!Sides : x # s => x = p /\ state2'[x] = state2[x]
  BY <1>1, <1>2, Ends2 DEF States2
<1>6. \A x \in Beat2!Sides : ~Beat2!Up(x)'
  BY <1>3, <1>5 DEF Beat2!Up
<1>7. Beat2!TypeOK'
  <2>1. state2' \in States2 /\ state2'["server"] # "recv"
    BY <1>1, <1>2, Ends2 DEF States2
  <2> QED
    BY <2>1, <1>0, <1>1, <1>4, Ends2 DEF Beat2Types, Beat2!TypeOK, Nets2, States2, Part
<1>8. \A x \in Beat2!Sides : state2'[x] = "dead" => state2[x] = "dead"
  BY <1>5
<1> QED
  BY <1>1, <1>4, <1>6, <1>7, <1>8, Beat2Over

\* What a side has after it has heard something.
LEMMA HeardAgain ==
  ASSUME Beat2Types, NEW s \in Beat2!Sides, Beat2!Heard(s)
  PROVE  /\ missed2' \in [Beat2!Sides -> 0..4] /\ tv2' \in [Beat2!Sides -> 0..(T1 + T2 + Residue)]
         /\ quiet2' \in [Beat2!Sides -> 0..Beat2!MaxQuiet] /\ state2' \in States2 /\ state2'["server"] # "recv"
         /\ missed2'[s] = 0 /\ tv2'[s] >= Beat2!Idle(s) /\ tv2'[s] <= Beat2!Idle(s) + Residue
         /\ quiet2'[s] = 0 /\ state2'[s] = "select"
         /\ \A x \in Beat2!Sides : x # s =>
               missed2'[x] = missed2[x] /\ tv2'[x] = tv2[x] /\ quiet2'[x] = quiet2[x] /\ state2'[x] = state2[x]
<1>1. PICK r \in 0..Residue : tv2' = [tv2 EXCEPT ![s] = Beat2!Idle(s) + r]
  BY DEF Beat2!Heard
<1>2. /\ missed2' = [missed2 EXCEPT ![s] = 0] /\ quiet2' = [quiet2 EXCEPT ![s] = 0]
      /\ state2' = [state2 EXCEPT ![s] = "select"]
  BY DEF Beat2!Heard
<1>3. /\ missed2 \in [Beat2!Sides -> 0..4] /\ tv2 \in [Beat2!Sides -> 0..(T1 + T2 + Residue)]
      /\ quiet2 \in [Beat2!Sides -> 0..Beat2!MaxQuiet] /\ state2 \in States2 /\ state2["server"] # "recv"
  BY Types2 DEF Beat2Types
<1>4. Beat2!Idle(s) \in Nat /\ Beat2!Idle(s) <= T1 + T2 /\ Beat2!MaxQuiet \in Nat
  BY Beat2Side
<1>5. r \in Nat /\ r <= Residue /\ Beat2!Idle(s) + r \in 0..(T1 + T2 + Residue)
  BY <1>4, BeatTimes
<1>6. tv2'[s] = Beat2!Idle(s) + r /\ tv2'[s] >= Beat2!Idle(s) /\ tv2'[s] <= Beat2!Idle(s) + Residue
  <2>1. tv2'[s] = Beat2!Idle(s) + r
    BY <1>1, <1>3
  <2> QED
    BY <2>1, <1>4, <1>5, BeatTimes
<1>7. /\ missed2' \in [Beat2!Sides -> 0..4] /\ missed2'[s] = 0
      /\ \A x \in Beat2!Sides : x # s => missed2'[x] = missed2[x]
  BY <1>2, <1>3
<1>8. /\ tv2' \in [Beat2!Sides -> 0..(T1 + T2 + Residue)]
      /\ \A x \in Beat2!Sides : x # s => tv2'[x] = tv2[x]
  BY <1>1, <1>3, <1>5
<1>9. /\ quiet2' \in [Beat2!Sides -> 0..Beat2!MaxQuiet] /\ quiet2'[s] = 0
      /\ \A x \in Beat2!Sides : x # s => quiet2'[x] = quiet2[x]
  BY <1>2, <1>3, <1>4
<1>10. /\ state2' \in States2 /\ state2'[s] = "select" /\ state2'["server"] # "recv"
       /\ \A x \in Beat2!Sides : x # s => state2'[x] = state2[x]
  BY <1>2, <1>3, Ends2 DEF States2
<1> QED
  BY <1>6, <1>7, <1>8, <1>9, <1>10

\* What is the same for both sides once something was received: types, and the time.
LEMMA Beat2Heard ==
  ASSUME Beat2Inv, NEW s \in Beat2!Sides, Beat2!Up(s), Beat2!Heard(s), UNCHANGED cut2,
         net2' \in Nets2, rcv' \in Rcvs2
  PROVE  /\ Beat2Types' /\ Beat2Quiet' /\ Beat2Alive'
         /\ \A x \in Beat2!Sides : Beat2!Up(x)' <=> Beat2!Up(x)
<1>0. /\ Beat2Types /\ Beat2Ends /\ Beat2Quiet /\ Beat2Client /\ Beat2Server /\ Beat2Alive
  BY DEF Beat2Inv
<1>1. /\ missed2' \in [Beat2!Sides -> 0..4] /\ tv2' \in [Beat2!Sides -> 0..(T1 + T2 + Residue)]
      /\ quiet2' \in [Beat2!Sides -> 0..Beat2!MaxQuiet] /\ state2' \in States2 /\ state2'["server"] # "recv"
      /\ missed2'[s] = 0 /\ tv2'[s] >= Beat2!Idle(s) /\ tv2'[s] <= Beat2!Idle(s) + Residue
      /\ quiet2'[s] = 0 /\ state2'[s] = "select"
      /\ \A x \in Beat2!Sides : x # s =>
            missed2'[x] = missed2[x] /\ tv2'[x] = tv2[x] /\ quiet2'[x] = quiet2[x] /\ state2'[x] = state2[x]
  BY <1>0, HeardAgain
<1>2. \A x \in Beat2!Sides : Beat2!Up(x)' <=> Beat2!Up(x)
  <2> TAKE x \in Beat2!Sides
  <2>1. CASE x = s
    BY <2>1, <1>1 DEF Beat2!Up
  <2>2. CASE x # s
    BY <2>2, <1>1 DEF Beat2!Up
  <2> QED
    BY <2>1, <2>2
<1>3. Beat2Types'
  <2>1. Beat2!TypeOK'
    BY <1>0, <1>1, Ends2 DEF Beat2Types, Beat2!TypeOK, Beat2!MaxQuiet, Nets2, Rcvs2, States2, Part
  <2>2. ASSUME NEW x \in Beat2!Sides
        PROVE  /\ (Beat2!Up(x) => missed2'[x] <= 3)
               /\ (missed2'[x] > 0 => tv2'[x] <= T2)
               /\ (missed2'[x] = 0 => tv2'[x] <= Beat2!Idle(x) + Residue)
    <3>1. CASE x = s
      BY <3>1, <1>1
    <3>2. CASE x # s
      BY <3>2, <1>0, <1>1 DEF Beat2Types
    <3> QED
      BY <3>1, <3>2
  <2> QED
    BY <2>1, <2>2, <1>2 DEF Beat2Types
<1>4. Beat2Quiet'
  <2>1. ASSUME NEW x \in Beat2!Sides, state2'[x] = "select"
        PROVE  quiet2'[x] + tv2'[x] <= Beat2!Idle(x) + Residue + Wait(missed2'[x])
    <3>1. CASE x = s
      <4>1. Wait(0) = 0 /\ Beat2!Idle(s) \in Nat /\ tv2'[s] \in Nat
        BY <1>0, <1>1, Waits, Beat2Side
      <4>2. 0 + tv2'[s] <= Beat2!Idle(s) + Residue + 0
        BY <4>1, <1>1, BeatTimes
      <4> QED
        BY <3>1, <4>1, <4>2, <1>1
    <3>2. CASE x # s
      BY <3>2, <2>1, <1>0, <1>1 DEF Beat2Quiet, Hears
    <3> QED
      BY <3>1, <3>2
  <2>2. CASE s = "client"
    BY <2>1, <2>2, <1>1 DEF Beat2Quiet, Hears
  <2>3. CASE s # "client"
    <3>1. state2'["client"] # "recv"
      BY <2>3, <1>0, <1>1, Ends2 DEF Beat2Ends
    <3> QED
      BY <2>1, <2>3, <3>1, <1>0 DEF Beat2Quiet, Hears
  <2> QED
    BY <2>2, <2>3
<1>5. Beat2Alive'
  BY <1>0, <1>1 DEF Beat2Alive
<1> QED
  BY <1>2, <1>3, <1>4, <1>5

\* The server has received something; it sends a heartbeat back.
LEMMA Beat2ServerRound ==
  ASSUME Beat2Inv, NEW s \in Beat2!Sides, Beat2!ServerRound(s) PROVE Beat2Inv'
<1> DEFINE c == "client"
           v == "server"
           e == [kind |-> "byte", age |-> 0]
           K == {"byte", "fin"}
<1>0. /\ Beat2Types /\ Beat2Ends /\ Beat2Quiet /\ Beat2Client /\ Beat2Server /\ Beat2Alive
  BY DEF Beat2Inv
<1>1. s = v /\ state2[v] = "select" /\ Beat2!Up(v) /\ cut2' = cut2 /\ v \in Beat2!Sides /\ c \in Beat2!Sides
  BY Ends2 DEF Beat2!ServerRound, Beat2!Up
<1>2. \A x \in Beat2!Sides, d \in Beat2!Conns : net2[x][d] \in Seq(Part) /\ rcv[x][d] \in Seq(K)
  BY <1>0, Beat2Side
<1>3. CASE \E d \in Beat2!Conns : Beat2!AtEof(rcv[v][d])
  <2>1. PICK d \in Beat2!Conns : Beat2!AtEof(rcv[v][d])
    BY <1>3
  <2>2. ~Open(net2[v][d], rcv[v][d])
    BY <2>1, <1>1, <1>2, EndsReceived
  <2>3. Beat2!Terminated(v)
    BY <1>1, <1>3 DEF Beat2!ServerRound
  <2> QED
    BY <2>2, <2>3, <1>1, Beat2Terminated
<1>4. CASE ~\E d \in Beat2!Conns : Beat2!AtEof(rcv[v][d])
  <2> DEFINE a == Beat2!OneOf(rcv[v]["hb"])
             b == Beat2!NoneOf(rcv[v]["data"])
  <2>1. /\ Beat2!Heard(v)
        /\ net2' = IF rcv[v]["hb"] = <<>> THEN net2 ELSE Beat2!Sent(v, {"hb"}, "byte")
        /\ rcv' = [rcv EXCEPT ![v]["hb"] = a, ![v]["data"] = b]
    <3>1. /\ Beat2!Heard(v)
          /\ net2' = IF rcv[v]["hb"] = <<>> THEN net2 ELSE Beat2!Sent(v, {"hb"}, "byte")
          /\ rcv' = [rcv EXCEPT ![v]["hb"] = Beat2!OneOf(@), ![v]["data"] = Beat2!NoneOf(@)]
      BY <1>1, <1>4 DEF Beat2!ServerRound
    <3> QED
      BY <3>1, Ends2
  <2>2. \A d \in Beat2!Conns : rcv[v][d] \in Seq(K)
    BY <1>1, <1>2
  <2>3. /\ a \in Seq(K) /\ b \in Seq(K)
        /\ \A q : (Open(q, rcv[v]["hb"]) => Open(q, a)) /\ (Shut(q, rcv[v]["hb"]) => Shut(q, a))
        /\ \A q : (Open(q, rcv[v]["data"]) => Open(q, b)) /\ (Shut(q, rcv[v]["data"]) => Shut(q, b))
    BY <2>2, <1>4, EndsReceived, Ends2
  <2> HIDE DEF a, b
  <2>4. /\ rcv' \in Rcvs2 /\ rcv'[v]["hb"] = a /\ rcv'[v]["data"] = b
        /\ \A d \in Beat2!Conns : rcv'[c][d] = rcv[c][d]
    <3>1. rcv \in Rcvs2
      BY <1>0, Types2 DEF Beat2Types
    <3> QED
      BY <3>1, <2>1, <2>3, Ends2 DEF Rcvs2
  <2>5. /\ net2' \in Nets2 /\ (cut2 => net2' = net2)
        /\ \A d \in Beat2!Conns : net2'[v][d] = net2[v][d]
        /\ net2'[c]["data"] = net2[c]["data"]
        /\ net2'[c]["hb"] = net2[c]["hb"] \/ net2'[c]["hb"] = Append(net2[c]["hb"], e)
        /\ ~cut2 /\ rcv[v]["hb"] # <<>> => net2'[c]["hb"] = Append(net2[c]["hb"], e)
    <3> DEFINE w == Beat2!Sent(v, {"hb"}, "byte")
    <3>1. /\ w \in Nets2 /\ (cut2 => w = net2)
          /\ ~cut2 => \A d \in Beat2!Conns :
                /\ w[v][d] = net2[v][d]
                /\ w[Beat2!Peer(v)][d] = IF d \in {"hb"} THEN Append(net2[Beat2!Peer(v)][d], e)
                                         ELSE net2[Beat2!Peer(v)][d]
      BY <1>0, <1>1, Sent2
    <3>2. net2' = IF rcv[v]["hb"] = <<>> THEN net2 ELSE w
      BY <2>1
    <3>3. net2 \in Nets2
      BY <1>0, Types2 DEF Beat2Types
    <3> HIDE DEF w, e
    <3>4. CASE rcv[v]["hb"] = <<>> \/ cut2
      BY <3>1, <3>2, <3>3, <3>4
    <3>5. CASE ~(rcv[v]["hb"] = <<>> \/ cut2)
      BY <3>1, <3>2, <3>5, Ends2
    <3> QED
      BY <3>4, <3>5
  <2>6. /\ missed2'[v] = 0 /\ tv2'[v] >= Beat2!Idle(v) /\ tv2'[v] \in Nat
        /\ missed2'[c] = missed2[c] /\ tv2'[c] = tv2[c] /\ state2'[c] = state2[c]
    <3>1. /\ missed2'[v] = 0 /\ tv2'[v] >= Beat2!Idle(v) /\ tv2' \in [Beat2!Sides -> 0..(T1 + T2 + Residue)]
          /\ \A x \in Beat2!Sides : x # v =>
               missed2'[x] = missed2[x] /\ tv2'[x] = tv2[x] /\ quiet2'[x] = quiet2[x] /\ state2'[x] = state2[x]
      BY <2>1, <1>0, <1>1, HeardAgain
    <3> QED
      BY <3>1, <1>1, Ends2
  <2>7. state2[c] # "recv"
    BY <1>0, <1>1 DEF Beat2Ends
  <2>8. /\ Beat2Types' /\ Beat2Quiet' /\ Beat2Alive'
        /\ \A x \in Beat2!Sides : Beat2!Up(x)' <=> Beat2!Up(x)
    BY <2>1, <2>4, <2>5, <1>1, Beat2Heard
  <2>9. Beat2Ends'
    <3>1. cut2 => \A x \in Beat2!Sides, d \in Beat2!Conns : net2'[x][d] = <<>>
      BY <1>0, <2>5 DEF Beat2Ends
    <3>2. ASSUME NEW x \in Beat2!Sides, Beat2!Up(x), NEW y \in Beat2!Conns
          PROVE  IF Beat2!Up(Beat2!Peer(x)) THEN Open(net2'[x][y], rcv'[x][y]) ELSE Shut(net2'[x][y], rcv'[x][y]) \/ (cut2 /\ Open(net2'[x][y], rcv'[x][y]))
      <4>1. IF Beat2!Up(Beat2!Peer(x)) THEN Open(net2[x][y], rcv[x][y]) ELSE Shut(net2[x][y], rcv[x][y]) \/ (cut2 /\ Open(net2[x][y], rcv[x][y]))
        BY <1>0, <3>2 DEF Beat2Ends
      <4>2. CASE x = v
        BY <4>1, <4>2, <2>3, <2>4, <2>5, Ends2
      <4>3. CASE x = c
        <5>1. Beat2!Up(Beat2!Peer(x)) /\ Open(net2[x][y], rcv[x][y]) /\ rcv'[x][y] = rcv[x][y]
          BY <4>1, <4>3, <1>1, <2>4, Ends2
        <5>2. e \in Part /\ e.kind # "fin" /\ net2[x][y] \in Seq(Part)
          BY <1>2, PartIs
        <5>3. Open(Append(net2[x][y], e), rcv[x][y])
          BY <5>1, <5>2, EndsSent
        <5>4. net2'[x][y] = net2[x][y] \/ net2'[x][y] = Append(net2[x][y], e)
          BY <4>3, <2>5, Ends2
        <5> HIDE DEF e
        <5> QED
          BY <5>1, <5>3, <5>4
      <4> QED
        BY <4>2, <4>3, Ends2
    <3>3. Beat2!Up(c) => OnlyEnd(net2'[c]["data"], rcv'[c]["data"])
      BY <1>0, <2>4, <2>5, Ends2 DEF Beat2Ends
    <3>4. \A x \in Beat2!Sides : Beat2!Peer(x) \in Beat2!Sides
      BY Ends2
    <3> QED
      BY <3>1, <3>2, <3>3, <3>4, <1>0, <1>1, <2>6, <2>7, <2>8 DEF Beat2Ends
  <2>10. Beat2Client'
    <3> DEFINE t == tv2[c]
               w == Wait(missed2[c])
    <3> SUFFICES ASSUME ~cut2, state2[c] = "select", missed2[c] > 0
                 PROVE  \/ Beat2!Up(v) /\ Due(net2'[v]["hb"], t, w)
                        \/ Due(net2'[c]["hb"], Delay + t, w)
                        \/ rcv'[c]["hb"] # <<>> /\ Delay + (Delay + t) >= w
      BY <1>1, <2>6, <2>8 DEF Beat2Client
    <3>1. t \in Nat /\ w \in Int /\ Delay + t \in Nat
      <4>1. Beat2!Up(c)
        BY DEF Beat2!Up
      <4>2. t \in Nat /\ missed2[c] \in 0..3
        BY <4>1, <1>0, <1>1, Beat2Side
      <4> QED
        BY <4>2, Waits, BeatTimes
    <3>2. \/ Beat2!Up(v) /\ Due(net2[v]["hb"], t, w)
          \/ Beat2!Up(v) /\ rcv[v]["hb"] # <<>> /\ Delay + t >= w
          \/ Due(net2[c]["hb"], Delay + t, w)
          \/ rcv[c]["hb"] # <<>> /\ Delay + (Delay + t) >= w
      BY <1>0 DEF Beat2Client
    <3>3. e \in Part /\ e.age = 0 /\ net2[c]["hb"] \in Seq(Part)
      BY <1>1, <1>2, PartIs, Ends2
    <3> HIDE DEF t, w, e
    <3>4. /\ (Due(net2[c]["hb"], Delay + t, w) => Due(Append(net2[c]["hb"], e), Delay + t, w))
          /\ (Delay + t >= w => Due(Append(net2[c]["hb"], e), Delay + t, w))
      BY <3>1, <3>3, DueAppend
    <3> QED
      BY <3>2, <3>4, <2>4, <2>5, Ends2
  <2>11. Beat2Server'
    <3> DEFINE l == Left(tv2'[v], missed2'[v])
    <3> SUFFICES ASSUME ~cut2
                 PROVE  /\ \/ \E d \in Beat2!Conns : rcv'[v][d] # <<>> \/ Due(net2'[v][d], l, Delay + 1)
                           \/ state2[c] = "select" /\ l > tv2[c] + Delay
                        /\ Recent2(net2'[c]["hb"], l) /\ l + Delay >= T1 + 4 * T2
      BY <1>1, <2>6, <2>8 DEF Beat2Server, Coming2, Heard2
    <3>1. l = tv2'[v] + 3 * T2
      <4>1. 0 \in 0..3 /\ tv2'[v] \in Nat
        BY <2>6
      <4>2. Left(tv2'[v], 0) = tv2'[v] + 3 * T2
        BY <4>1, LeftIs
      <4> QED
        BY <4>2, <2>6
    <3>2. tv2'[v] >= T1 + T2 /\ tv2[c] \in Nat /\ (tv2[c] <= T1 + Residue \/ tv2[c] <= T2)
      BY <2>6, <1>0, <1>1, Ends2, Beat2Side
    <3>3. l \in Nat /\ l >= T1 + 4 * T2
      BY <3>1, <3>2, <2>6, BeatTimes
    <3> HIDE DEF l
    <3>4. l + Delay >= T1 + 4 * T2 /\ l > tv2[c] + Delay /\ l >= Delay + 1 /\ Delay + 1 \in Int
      BY <3>2, <3>3, BeatTimes
    <3>5. Recent2(net2'[c]["hb"], l)
      <4>1. net2'[c]["hb"] \in Seq(Part)
        BY <2>5, <1>1, Ends2 DEF Nets2
      <4>2. \A k \in DOMAIN net2'[c]["hb"] : net2'[c]["hb"][k].age \in Nat
        BY <4>1, PartIs
      <4>3. \A k \in DOMAIN net2'[c]["hb"] : l + net2'[c]["hb"][k].age >= T1 + 4 * T2
        BY <4>2, <3>3, BeatTimes
      <4> QED
        BY <4>3 DEF Recent2
    <3>6. CASE Beat2!Up(c)
      <4>1. state2[c] = "select"
        BY <3>6, <2>7 DEF Beat2!Up
      <4> QED
        BY <4>1, <3>4, <3>5
    <3>7. CASE ~Beat2!Up(c)
      <4>1. Shut(net2[v]["hb"], rcv[v]["hb"])
        BY <3>7, <1>0, <1>1, Ends2 DEF Beat2Ends
      <4>2. Shut(net2[v]["hb"], a)
        BY <4>1, <2>3
      <4>3. net2'[v]["hb"] # <<>> \/ rcv'[v]["hb"] # <<>>
        BY <4>2, <2>4, <2>5, Ends2 DEF Shut
      <4>4. net2'[v]["hb"] \in Seq(Part)
        BY <2>5, <1>1, <1>2, Ends2
      <4>5. net2'[v]["hb"] # <<>> => Due(net2'[v]["hb"], l, Delay + 1)
        BY <4>4, <3>3, <3>4, DueNow
      <4> QED
        BY <4>3, <4>5, <3>4, <3>5, Ends2
    <3> QED
      BY <3>6, <3>7
  <2> QED
    BY <2>8, <2>9, <2>10, <2>11 DEF Beat2Inv
<1> QED
  BY <1>3, <1>4

\* The client has received a on its heartbeat connection, besides what is left.
LEMMA Beat2ClientHears ==
  ASSUME Beat2Inv, Beat2!Up("client"), Beat2!Heard("client"), UNCHANGED <<cut2, net2>>,
         NEW a \in Seq({"byte", "fin"}), rcv' = [rcv EXCEPT !["client"]["hb"] = a],
         Open(net2["client"]["hb"], rcv["client"]["hb"]) => Open(net2["client"]["hb"], a),
         Shut(net2["client"]["hb"], rcv["client"]["hb"]) => Shut(net2["client"]["hb"], a),
         Beat2!Up("server") => rcv["client"]["hb"] # <<>>
  PROVE  Beat2Inv'
<1> DEFINE c == "client"
           v == "server"
<1>0. /\ Beat2Types /\ Beat2Ends /\ Beat2Quiet /\ Beat2Client /\ Beat2Server /\ Beat2Alive
  BY DEF Beat2Inv
<1>1. c \in Beat2!Sides /\ v \in Beat2!Sides /\ net2 \in Nets2 /\ rcv \in Rcvs2
  BY <1>0, Types2, Ends2 DEF Beat2Types
<1>2. /\ rcv' \in Rcvs2 /\ rcv'[c]["hb"] = a /\ rcv'[c]["data"] = rcv[c]["data"]
      /\ \A d \in Beat2!Conns : rcv'[v][d] = rcv[v][d]
  BY <1>1, Ends2 DEF Rcvs2
<1>3. /\ Beat2Types' /\ Beat2Quiet' /\ Beat2Alive'
      /\ \A x \in Beat2!Sides : Beat2!Up(x)' <=> Beat2!Up(x)
  BY <1>1, <1>2, Beat2Heard
<1>4. /\ missed2'[c] = 0 /\ tv2'[c] <= T1 + Residue /\ tv2'[c] \in Nat /\ state2'[c] = "select"
      /\ missed2'[v] = missed2[v] /\ tv2'[v] = tv2[v]
  <2>1. /\ missed2'[c] = 0 /\ tv2'[c] <= Beat2!Idle(c) + Residue /\ state2'[c] = "select"
        /\ tv2' \in [Beat2!Sides -> 0..(T1 + T2 + Residue)]
        /\ \A x \in Beat2!Sides : x # c =>
             missed2'[x] = missed2[x] /\ tv2'[x] = tv2[x] /\ quiet2'[x] = quiet2[x] /\ state2'[x] = state2[x]
    BY <1>0, <1>1, HeardAgain
  <2> QED
    BY <2>1, <1>1, Ends2
<1>5. Beat2Ends'
  <2>1. ASSUME NEW x \in Beat2!Sides, Beat2!Up(x), NEW y \in Beat2!Conns
        PROVE  IF Beat2!Up(Beat2!Peer(x)) THEN Open(net2[x][y], rcv'[x][y]) ELSE Shut(net2[x][y], rcv'[x][y]) \/ (cut2 /\ Open(net2[x][y], rcv'[x][y]))
    <3>1. IF Beat2!Up(Beat2!Peer(x)) THEN Open(net2[x][y], rcv[x][y]) ELSE Shut(net2[x][y], rcv[x][y]) \/ (cut2 /\ Open(net2[x][y], rcv[x][y]))
      BY <1>0, <2>1 DEF Beat2Ends
    <3>2. CASE x = c /\ y = "hb"
      BY <3>1, <3>2, <1>2
    <3>3. CASE ~(x = c /\ y = "hb")
      BY <3>1, <3>3, <1>2, Ends2
    <3> QED
      BY <3>2, <3>3
  <2>2. OnlyEnd(net2[c]["data"], rcv'[c]["data"])
    BY <1>0, <1>2 DEF Beat2Ends
  <2>3. \A x \in Beat2!Sides : Beat2!Peer(x) \in Beat2!Sides
    BY Ends2
  <2> QED
    BY <2>1, <2>2, <2>3, <1>0, <1>1, <1>3, <1>4 DEF Beat2Ends
<1>6. Beat2Client'
  BY <1>4 DEF Beat2Client
<1>7. Beat2Server'
  <2> DEFINE l == Left(tv2[v], missed2[v])
  <2> SUFFICES ASSUME ~cut2, Beat2!Up(v)
               PROVE  l > tv2'[c] + Delay /\ Recent2(net2[c]["hb"], l) /\ l + Delay >= T1 + 4 * T2
    BY <1>1, <1>3, <1>4 DEF Beat2Server, Coming2, Heard2
  <2>1. Recent2(net2[c]["hb"], l) /\ Heard2(l)
    BY <1>0 DEF Beat2Server
  <2>2. l \in Nat
    <3>1. tv2[v] \in Nat /\ missed2[v] \in 0..3
      BY <1>0, <1>1, Beat2Side
    <3> QED
      BY <3>1, LeftIs
  <2> HIDE DEF l
  <2>3. Open(net2[c]["hb"], rcv[c]["hb"])
    BY <1>0, <1>1, Ends2 DEF Beat2Ends
  <2>4. 1 \in DOMAIN rcv[c]["hb"]
    <3>1. rcv[c]["hb"] \in Seq({"byte", "fin"})
      BY <1>0, <1>1, Beat2Side, Ends2
    <3> QED
      BY <3>1
  <2>5. l + Delay >= T1 + 4 * T2
    BY <2>1, <2>3, <2>4 DEF Open, Heard2
  <2>6. /\ T1 \in Nat /\ T2 \in Nat /\ Delay \in Nat /\ Residue \in Nat
        /\ Delay <= T2 /\ Residue <= T2 /\ T2 > 0
    BY BeatTimes
  <2>7. T1 + 4 * T2 - Delay > T1 + Residue + Delay
    BY <2>6
  <2>8. l > tv2'[c] + Delay
    BY <2>2, <2>5, <2>6, <2>7, <1>4, SMTT(30)
  <2> QED
    BY <2>1, <2>5, <2>8
<1> QED
  BY <1>3, <1>5, <1>6, <1>7 DEF Beat2Inv

\* A round of the client, and the end of a recv it waits in.
LEMMA Beat2ClientRound ==
  ASSUME Beat2Inv, NEW s \in Beat2!Sides, Beat2!ClientRound(s) PROVE Beat2Inv'
<1> DEFINE c == "client"
           v == "server"
           q == net2[c]["hb"]
           r == rcv[c]["hb"]
           h == Beat2!OneOf(r)
           K == {"byte", "fin"}
<1>0. /\ Beat2Types /\ Beat2Ends /\ Beat2Quiet /\ Beat2Client /\ Beat2Server /\ Beat2Alive
  BY DEF Beat2Inv
<1>1. /\ s = c /\ state2[c] = "select" /\ Beat2!Up(c) /\ cut2' = cut2
      /\ v \in Beat2!Sides /\ c \in Beat2!Sides /\ "hb" \in Beat2!Conns /\ "data" \in Beat2!Conns
      /\ (rcv[c]["hb"] # <<>> \/ rcv[c]["data"] # <<>>)
  BY Ends2 DEF Beat2!ClientRound, Beat2!Up
<1>2. r \in Seq(K) /\ q \in Seq(Part) /\ rcv[c]["data"] \in Seq(K)
  BY <1>0, <1>1, Beat2Side
<1>3. /\ h \in Seq(K) /\ (Open(q, r) => Open(q, h)) /\ (Shut(q, r) /\ ~Beat2!AtEof(r) => Shut(q, h))
      /\ (Beat2!AtEof(r) => ~Open(q, r))
  BY <1>2, EndsReceived
<1> HIDE DEF h
<1>4. /\ Beat2!NoneOf(h) \in Seq(K) /\ (Open(q, h) => Open(q, Beat2!NoneOf(h)))
      /\ (Shut(q, h) => Shut(q, Beat2!NoneOf(h))) /\ (Beat2!AtEof(h) => ~Open(q, h))
  BY <1>3, EndsReceived
<1>5. rcv[c]["data"] # <<>> => ~Beat2!Up(v)
  <2> SUFFICES ASSUME rcv[c]["data"] # <<>> PROVE ~Beat2!Up(v)
    OBVIOUS
  <2>1. 1 \in DOMAIN rcv[c]["data"]
    BY <1>2
  <2>2. OnlyEnd(net2[c]["data"], rcv[c]["data"])
    BY <1>0, <1>1 DEF Beat2Ends
  <2>3. ~Open(net2[c]["data"], rcv[c]["data"])
    BY <2>1, <2>2 DEF OnlyEnd, Open
  <2> QED
    BY <2>3, <1>0, <1>1, Ends2 DEF Beat2Ends
<1>6. CASE Beat2!AtEof(r) \/ (rcv[c]["data"] # <<>> /\ Beat2!AtEof(h))
  <2>1. ~Open(q, r)
    BY <1>3, <1>4, <1>6
  <2>2. Beat2!Terminated(c)
    BY <1>1, <1>6 DEF Beat2!ClientRound, h
  <2> QED
    BY <2>1, <2>2, <1>1, Beat2Terminated
<1>7. CASE ~(Beat2!AtEof(r) \/ (rcv[c]["data"] # <<>> /\ Beat2!AtEof(h))) /\ ~(rcv[c]["data"] # <<>> /\ h = <<>>)
  <2> DEFINE a == IF rcv[c]["data"] # <<>> THEN Beat2!NoneOf(h) ELSE h
  <2>1. Beat2!Heard(c) /\ rcv' = [rcv EXCEPT ![c]["hb"] = a] /\ net2' = net2
    BY <1>1, <1>7 DEF Beat2!ClientRound, h
  <2>2. a \in Seq(K) /\ (Open(q, r) => Open(q, a)) /\ (Shut(q, r) => Shut(q, a))
    BY <1>3, <1>4, <1>7
  <2> HIDE DEF a
  <2>3. Beat2!Up(v) => rcv[c]["hb"] # <<>>
    BY <1>1, <1>5
  <2> QED
    BY <2>1, <2>2, <2>3, <1>1, Beat2ClientHears
<1>8. CASE ~(Beat2!AtEof(r) \/ (rcv[c]["data"] # <<>> /\ Beat2!AtEof(h))) /\ rcv[c]["data"] # <<>> /\ h = <<>>
  <2>1. /\ state2' = [state2 EXCEPT ![c] = "recv"] /\ rcv' = [rcv EXCEPT ![c]["hb"] = h]
        /\ tv2' = tv2 /\ missed2' = missed2 /\ net2' = net2 /\ quiet2' = quiet2
    BY <1>1, <1>8 DEF Beat2!ClientRound, h
  <2>2. state2 \in States2 /\ state2[v] # "recv" /\ rcv \in Rcvs2
    BY <1>0, Types2 DEF Beat2Types
  <2>3. state2' \in States2 /\ state2'[v] = state2[v] /\ state2'[c] = "recv"
    BY <2>1, <2>2, Ends2 DEF States2
  <2>4. /\ rcv' \in Rcvs2 /\ rcv'[c]["hb"] = h /\ rcv'[c]["data"] = rcv[c]["data"]
        /\ \A d \in Beat2!Conns : rcv'[v][d] = rcv[v][d]
    BY <2>1, <2>2, <1>3, Ends2 DEF Rcvs2
  <2>5. ~Beat2!Up(v) /\ \A x \in Beat2!Sides : Beat2!Up(x)' <=> Beat2!Up(x)
    BY <2>3, <1>1, <1>5, <1>8, Ends2 DEF Beat2!Up
  <2>6. Beat2Types'
    <3>1. Beat2!TypeOK'
      BY <2>1, <2>2, <2>3, <2>4, <1>0, <1>1, Ends2 DEF Beat2Types, Beat2!TypeOK, Rcvs2, States2
    <3> QED
      BY <3>1, <2>1, <2>5, <1>0 DEF Beat2Types
  <2>7. Beat2Ends'
    <3>1. ASSUME NEW x \in Beat2!Sides, Beat2!Up(x), NEW y \in Beat2!Conns
          PROVE  IF Beat2!Up(Beat2!Peer(x)) THEN Open(net2[x][y], rcv'[x][y]) ELSE Shut(net2[x][y], rcv'[x][y]) \/ (cut2 /\ Open(net2[x][y], rcv'[x][y]))
      <4>1. IF Beat2!Up(Beat2!Peer(x)) THEN Open(net2[x][y], rcv[x][y]) ELSE Shut(net2[x][y], rcv[x][y]) \/ (cut2 /\ Open(net2[x][y], rcv[x][y]))
        BY <1>0, <3>1 DEF Beat2Ends
      <4>2. CASE x = c /\ y = "hb"
        BY <4>1, <4>2, <2>4, <1>3, <1>8
      <4>3. CASE ~(x = c /\ y = "hb")
        BY <4>1, <4>3, <2>4, Ends2
      <4> QED
        BY <4>2, <4>3
    <3>2. OnlyEnd(net2[c]["data"], rcv'[c]["data"])
      BY <1>0, <1>1, <2>4 DEF Beat2Ends
    <3>3. \A x \in Beat2!Sides : Beat2!Peer(x) \in Beat2!Sides
      BY Ends2
    <3> QED
      BY <3>1, <3>2, <3>3, <1>0, <1>1, <2>1, <2>5 DEF Beat2Ends
  <2>8. ASSUME ~cut2 PROVE quiet2[c] <= Longest2(missed2[c])
    <3>1. quiet2[c] + tv2[c] <= T1 + Residue + Wait(missed2[c])
      BY <1>0, <1>1, Ends2 DEF Beat2Quiet, Hears
    <3>2. missed2[c] \in 0..3 /\ tv2[c] \in Nat /\ quiet2[c] \in Nat
      BY <1>0, <1>1, Beat2Side
    <3>3. Wait(missed2[c]) \in Nat /\ Wait(missed2[c]) \in Int /\ Wait(0) = 0
      BY <3>2, Waits
    <3>4. CASE missed2[c] = 0
      BY <3>1, <3>2, <3>3, <3>4, BeatTimes DEF Longest2
    <3>5. CASE missed2[c] # 0
      <4>1. missed2[c] > 0
        BY <3>2, <3>5
      <4>2. Delay + tv2[c] \in Nat
        BY <3>2, BeatTimes
      <4>3. Delay + (Delay + tv2[c]) >= Wait(missed2[c])
        <5>1. \/ Due(q, Delay + tv2[c], Wait(missed2[c]))
              \/ Delay + (Delay + tv2[c]) >= Wait(missed2[c])
          BY <4>1, <2>5, <2>8, <1>0, <1>1 DEF Beat2Client
        <5> QED
          BY <5>1, <4>2, <3>3, <1>2, DueNow
      <4>4. quiet2[c] <= T1 + Residue + 2 * Delay
        BY <4>3, <3>1, <3>2, <3>3, BeatTimes
      <4> QED
        BY <4>4, <3>5 DEF Longest2
    <3> QED
      BY <3>4, <3>5
  <2>9. Beat2Quiet'
    <3>1. quiet2[c] \in Nat /\ Longest2(missed2[c]) \in Nat
      <4>1. quiet2[c] \in Nat
        BY <1>0, <1>1, Beat2Side
      <4> QED
        BY <4>1, BeatTimes DEF Longest2
    <3>2. \A k \in DOMAIN q : q[k].age \in Nat
      BY <1>2, PartIs
    <3>3. ~cut2 => \A k \in DOMAIN q : quiet2[c] <= Longest2(missed2[c]) + q[k].age
      BY <2>8, <3>1, <3>2
    <3>4. ~cut2 => quiet2[c] <= Longest2(missed2[c]) + Delay
      BY <2>8, <3>1, BeatTimes
    <3>5. \A x \in Beat2!Sides : state2'[x] = "select" => state2[x] = "select"
      BY <2>3, Ends2
    <3>6. Hears' => ~cut2
      BY <2>4, <1>1, <1>8 DEF Hears
    <3> QED
      BY <3>3, <3>4, <3>5, <3>6, <2>1, <1>0 DEF Beat2Quiet
  <2>10. Beat2Client' /\ Beat2Server' /\ Beat2Alive'
    <3>1. Beat2Client'
      BY <2>3 DEF Beat2Client
    <3>2. Beat2Server'
      BY <2>5, <1>1 DEF Beat2Server
    <3>3. Beat2Alive'
      BY <2>3, <1>0, <1>1, Ends2 DEF Beat2Alive
    <3> QED
      BY <3>1, <3>2, <3>3
  <2> QED
    BY <2>6, <2>7, <2>9, <2>10 DEF Beat2Inv
<1> QED
  BY <1>6, <1>7, <1>8

LEMMA Beat2RecvReturns ==
  ASSUME Beat2Inv, NEW s \in Beat2!Sides, Beat2!RecvReturns(s) PROVE Beat2Inv'
<1> DEFINE c == "client"
           q == net2[c]["hb"]
           r == rcv[c]["hb"]
           a == Beat2!NoneOf(r)
<1>0. Beat2Types
  BY DEF Beat2Inv
<1>1. /\ s = c /\ Beat2!Up(c) /\ cut2' = cut2 /\ r # <<>>
      /\ c \in Beat2!Sides /\ "hb" \in Beat2!Conns
  <2>1. state2[s] = "recv" /\ rcv[s]["hb"] # <<>> /\ cut2' = cut2
    BY DEF Beat2!RecvReturns
  <2>2. s = c
    BY <2>1, <1>0, Types2, Ends2 DEF Beat2Types
  <2> QED
    BY <2>1, <2>2, Ends2 DEF Beat2!Up
<1>2. r \in Seq({"byte", "fin"})
  BY <1>0, <1>1, Beat2Side
<1>3. /\ a \in Seq({"byte", "fin"}) /\ (Open(q, r) => Open(q, a)) /\ (Shut(q, r) => Shut(q, a))
      /\ (Beat2!AtEof(r) => ~Open(q, r))
  BY <1>2, EndsReceived
<1>4. CASE Beat2!AtEof(r)
  <2>1. Beat2!Terminated(c) /\ ~Open(q, r)
    BY <1>1, <1>3, <1>4 DEF Beat2!RecvReturns
  <2> QED
    BY <2>1, <1>1, Beat2Terminated
<1>5. CASE ~Beat2!AtEof(r)
  <2>1. Beat2!Heard(c) /\ rcv' = [rcv EXCEPT ![c]["hb"] = a] /\ net2' = net2
    BY <1>1, <1>5 DEF Beat2!RecvReturns
  <2> HIDE DEF a
  <2> QED
    BY <2>1, <1>1, <1>3, Beat2ClientHears
<1> QED
  BY <1>4, <1>5

LEMMA Beat2Next ==
  ASSUME Beat2Inv, Beat2!Next \/ UNCHANGED Beat2!vars PROVE Beat2Inv'
<1>1. ASSUME NEW s \in Beat2!Sides, Beat2!Program(s) PROVE Beat2Inv'
  BY <1>1, Beat2Dead, Beat2Timeout, Beat2ServerRound, Beat2ClientRound, Beat2RecvReturns DEF Beat2!Program
<1>2. ASSUME UNCHANGED Beat2!vars PROVE Beat2Inv'
  BY <1>2 DEF Beat2!vars, Beat2Inv, Beat2Types, Beat2!TypeOK, Beat2Ends, Beat2Quiet, Hears, Beat2Client, Beat2Server,
              Beat2Alive, Beat2!Up, Coming2, Heard2
<1> QED
  BY <1>1, <1>2, Beat2Arrive, Beat2Kill, Beat2KillQuietly, Beat2Talk, Beat2Cut, Beat2Tick DEF Beat2!Next

LEMMA Beat2Safe ==
  ASSUME Beat2Inv PROVE Beat2!TypeOK /\ Beat2!NoFalseAlarm /\ Beat2!NoticedInTime /\ Beat2!HeartbeatWhenIdle
<1> DEFINE c == "client"
<1>0. Beat2Types /\ Beat2Ends /\ Beat2Quiet /\ Beat2Alive
  BY DEF Beat2Inv
<1>1. Beat2!TypeOK /\ Beat2!NoFalseAlarm
  BY <1>0 DEF Beat2Types, Beat2Alive, Beat2!NoFalseAlarm
<1>2. ASSUME NEW s \in Beat2!Sides, Beat2!Up(s)
      PROVE  \/ /\ quiet2[s] <= Beat2!Idle(s) + Residue + 3 * T2
                /\ s = c /\ missed2[c] = 0 => quiet2[c] <= T1 + Residue + Delay
             \/ s = c /\ Beat2!Deaf
  <2>1. missed2[s] \in 0..3 /\ tv2[s] \in Nat /\ quiet2[s] \in Nat /\ Beat2!Idle(s) \in Nat
    BY <1>0, <1>2, Beat2Side
  <2>2. Wait(missed2[s]) \in Nat /\ Wait(missed2[s]) <= 3 * T2 /\ Wait(0) = 0
    BY <2>1, Waits
  <2>3. CASE state2[s] = "select"
    <3>1. quiet2[s] + tv2[s] <= Beat2!Idle(s) + Residue + Wait(missed2[s])
      BY <2>3, <1>0 DEF Beat2Quiet, Hears
    <3>2. quiet2[s] <= Beat2!Idle(s) + Residue + Wait(missed2[s])
      BY <2>1, <2>2, <3>1, BeatTimes
    <3>3. quiet2[s] <= Beat2!Idle(s) + Residue + 3 * T2
      BY <2>1, <2>2, <3>2, BeatTimes
    <3>4. s = c /\ missed2[c] = 0 => quiet2[c] <= T1 + Residue + Delay
      <4> SUFFICES ASSUME s = c, missed2[c] = 0 PROVE quiet2[c] <= T1 + Residue + Delay
        OBVIOUS
      <4>1. quiet2[c] <= T1 + Residue + 0 /\ quiet2[c] \in Nat
        BY <2>1, <2>2, <3>2, Ends2
      <4> QED
        BY <4>1, BeatTimes
    <3> QED
      BY <3>3, <3>4
  <2>4. CASE state2[s] = "recv"
    <3>1. s = c
      BY <2>4, <1>0, Types2, Ends2 DEF Beat2Types
    <3>2. CASE ~Hears
      BY <3>1, <3>2, <2>4, <1>0 DEF Beat2Ends, Beat2!Deaf, Hears
    <3>3. CASE Hears
      <4>1. quiet2[c] <= Longest2(missed2[c]) + Delay
        BY <3>3, <1>0 DEF Beat2Quiet
      <4>2. missed2[c] = 0 => quiet2[c] <= T1 + Residue + Delay
        BY <4>1, BeatTimes DEF Longest2
      <4>3. quiet2[c] <= T1 + Residue + 3 * T2
        <5>1. Longest2(missed2[c]) \in Nat /\ Longest2(missed2[c]) <= T1 + Residue + 2 * Delay
          BY BeatTimes DEF Longest2
        <5>2. quiet2[c] \in Nat
          BY <2>1, <3>1
        <5> QED
          BY <4>1, <5>1, <5>2, BeatTimes
      <4> QED
        BY <3>1, <4>2, <4>3, Ends2
    <3> QED
      BY <3>2, <3>3
  <2> QED
    BY <2>3, <2>4, <1>2 DEF Beat2!Up
<1>3. Beat2!NoticedInTime
  BY <1>2, Ends2 DEF Beat2!NoticedInTime
<1>4. Beat2!HeartbeatWhenIdle
  <2> SUFFICES ASSUME Beat2!Up(c), ~Beat2!Deaf, quiet2[c] > T1 + Residue + Delay PROVE missed2[c] > 0
    BY DEF Beat2!HeartbeatWhenIdle
  <2>1. missed2[c] \in 0..3 /\ quiet2[c] \in Nat
    BY <1>0, Beat2Side, Ends2
  <2>2. missed2[c] # 0
    <3> SUFFICES ASSUME missed2[c] = 0 PROVE FALSE
      OBVIOUS
    <3>1. quiet2[c] <= T1 + Residue + Delay
      BY <1>2, Ends2
    <3> QED
      BY <3>1, <2>1, BeatTimes
  <2> QED
    BY <2>1, <2>2
<1> QED
  BY <1>1, <1>3, <1>4

-------------------------------------------------------------------------------
LEMMA BeatsStep ==
  ASSUME BeatInv, Beat2Inv, [ProgramsNext]_allVars PROVE BeatInv' /\ Beat2Inv'
<1>1. Beat!Next \/ UNCHANGED Beat!vars
  BY DEF ProgramsNext, Daemons, Sigios, Beats, Beats2, allVars, beatVars, Beat!vars
<1>2. Beat2!Next \/ UNCHANGED Beat2!vars
  BY DEF ProgramsNext, Daemons, Sigios, Beats, Beats2, allVars, beat2Vars, Beat2!vars
<1> QED
  BY <1>1, <1>2, BeatNext, Beat2Next

LEMMA BeatsInvariant == ProgramsSpec => [](BeatInv /\ Beat2Inv)
<1>1. ProgramsInit => BeatInv /\ Beat2Inv
  BY BeatInit, Beat2Init DEF ProgramsInit
<1>2. BeatInv /\ Beat2Inv /\ [ProgramsNext]_allVars => (BeatInv /\ Beat2Inv)'
  BY BeatsStep
<1> QED
  BY <1>1, <1>2, PTL DEF ProgramsSpec

\* hb_client.c and hb_server.c of both demos: as long as bytes take no longer than
\* a side waits for an answer, neither side takes the connection for dead, however
\* messages are cut up, delayed and mixed with data; and the pieces of a message
\* are put together at their places.
THEOREM BeatsNoFalseAlarm == ProgramsSpec => []NoFalseAlarm
<1>1. BeatInv /\ Beat2Inv => NoFalseAlarm
  BY BeatSafe, Beat2Safe DEF NoFalseAlarm
<1> QED
  BY <1>1, BeatsInvariant, PTL

\* No side of either demo stays longer without a message than its idle time and
\* three waits allow, whichever programs are killed and whether or not the network
\* is cut, and the client of heartBeat2 asks once the idle time is over.  The one
\* exception is that client in the recv of hb_client.c:72 when the server ended and
\* the network was cut before the end of the connection came (Deaf).
THEOREM BeatsNoticedInTime == ProgramsSpec => []NoticedInTime
<1>1. BeatInv /\ Beat2Inv => NoticedInTime
  BY BeatSafe, Beat2Safe DEF NoticedInTime
<1> QED
  BY <1>1, BeatsInvariant, PTL
===============================================================================
