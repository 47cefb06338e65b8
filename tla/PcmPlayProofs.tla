--------------------------- MODULE PcmPlayProofs ---------------------------
(***************************************************************************)
(* For every file, buffer and frame size: a playback that ends has played  *)
(* the whole file, and nothing of the audio queue touches the local        *)
(* variables of play_f32le after it has returned.                          *)
(***************************************************************************)
EXTENDS PcmPlay, Integers, SequenceTheorems, TLAPS

-----------------------------------------------------------------------------
(* Remainders by any positive divisor, where the provers decide only those *)
(* by a number.                                                            *)

\* Quotient and remainder are unique.
LEMMA DivMod ==
  ASSUME NEW d \in Nat \ {0}, NEW a \in Nat, NEW q \in Nat, NEW s \in 0..d-1,
         a = q * d + s
  PROVE  a % d = s
<1>1. PICK t \in Nat, u \in 0..d-1 : a = t * d + u /\ a % d = u
  <2>1. a \div d \in Nat /\ a % d \in 0..d-1 /\ a = (a \div d) * d + (a % d)
    BY Z3
  <2> QED  BY <2>1
<1>2. (q - t) * d = u - s
  BY <1>1, Z3
<1>3. CASE q > t
  <2>1. (q - t - 1) * d >= 0  BY <1>3, <1>1, Z3
  <2>2. (q - t) * d >= d      BY <2>1, <1>1, Z3
  <2> QED  BY <2>2, <1>1, <1>2
<1>4. CASE q < t
  <2>1. (t - q - 1) * d >= 0  BY <1>4, <1>1, Z3
  <2>2. (t - q) * d >= d      BY <2>1, <1>1, Z3
  <2>3. (t - q) * d = s - u   BY <1>2, <1>1, Z3
  <2> QED  BY <2>2, <2>3, <1>1
<1>5. CASE q = t
  BY <1>5, <1>1, <1>2, Z3
<1> QED  BY <1>1, <1>3, <1>4, <1>5

\* A remainder is in range and no larger than its number; a number in range
\* is its own remainder.
LEMMA ModFacts ==
  ASSUME NEW a \in Nat, NEW d \in Nat, d > 0
  PROVE  /\ a % d \in 0..(d - 1)
         /\ a % d <= a
         /\ a < d => a % d = a
<1>1. a % d \in 0..(d - 1) /\ a = (a \div d) * d + (a % d) /\ a \div d \in Int
  BY Z3
<1>2. a \div d >= 0
  <2>1. SUFFICES ASSUME a \div d <= -1 PROVE FALSE
    BY <1>1, Z3
  <2>2. (-1 - (a \div d)) * d >= 0
    BY <1>1, <2>1, Z3
  <2> QED BY <1>1, <2>2, Z3
<1>3. (a \div d) * d >= 0
  BY <1>1, <1>2, Z3
<1>4. ASSUME a < d PROVE a % d = a
  <2>1. CASE a \div d = 0
    BY <1>1, <2>1, Z3
  <2>2. CASE a \div d >= 1
    <3>1. ((a \div d) - 1) * d >= 0
      BY <1>1, <2>2, Z3
    <3> QED BY <1>1, <1>4, <3>1, Z3
  <2> QED BY <1>1, <1>2, <2>1, <2>2, Z3
<1> QED BY <1>1, <1>3, <1>4, Z3

\* Taking away whole multiples leaves the remainder.
LEMMA ModSub ==
  ASSUME NEW a \in Nat, NEW b \in Nat, NEW d \in Nat \ {0}, b <= a, b % d = 0
  PROVE  (a - b) % d = a % d
<1>1. a = (a \div d) * d + (a % d) /\ a \div d \in Int /\ a % d \in 0..(d - 1)
  BY Z3
<1>2. b = (b \div d) * d /\ b \div d \in Int
  BY Z3
<1> DEFINE q == (a \div d) - (b \div d)
<1>3. a - b = q * d + (a % d) /\ q \in Int
  BY <1>1, <1>2, Z3
<1>4. q >= 0
  <2>1. SUFFICES ASSUME q <= -1 PROVE FALSE
    BY <1>3, Z3
  <2>2. (-1 - q) * d >= 0
    BY <1>3, <2>1, Z3
  <2> QED BY <1>1, <1>3, <2>2, Z3
<1> HIDE DEF q
<1>5. a - b \in Nat /\ q \in Nat /\ a % d \in 0..(d - 1)
  BY <1>1, <1>3, <1>4, SMT
<1> QED BY <1>3, <1>5, DivMod

\* What is left below a divisor is the remainder, and comes off whole.
LEMMA ModWhole ==
  ASSUME NEW a \in Nat, NEW d \in Nat \ {0}
  PROVE  a - (a % d) \in 0..a /\ (a - (a % d)) % d = 0
<1>1. a = (a \div d) * d + (a % d) /\ a \div d \in Int /\ a % d \in 0..(d - 1)
  BY Z3
<1>2. a % d <= a
  BY ModFacts, SMT
<1>3. a \div d >= 0
  <2>1. SUFFICES ASSUME a \div d <= -1 PROVE FALSE
    BY <1>1, Z3
  <2>2. (-1 - (a \div d)) * d >= 0
    BY <1>1, <2>1, Z3
  <2> QED BY <1>1, <2>2, Z3
<1>4. a - (a % d) = (a \div d) * d + 0
  BY <1>1, Z3
<1>5. a - (a % d) \in Nat /\ a - (a % d) <= a /\ a \div d \in Nat /\ 0 \in 0..(d - 1)
  BY <1>1, <1>2, <1>3, SMT
<1>6. (a - (a % d)) % d = 0
  BY <1>4, <1>5, DivMod
<1> QED BY <1>5, <1>6, SMT

-----------------------------------------------------------------------------
(* The invariant.                                                          *)

\* Callbacks run, and notices are due, only while main polls; the queue is
\* disposed of exactly when main has returned with one.
QueueInv ==
  /\ main = "new" => queue = "none"
  /\ main = "prime" => queue = "new"
  /\ main = "poll" => queue \in {"running", "stopping", "stopped"}
  /\ main = "returned" => queue \in {"none", "disposed"}
  /\ callback \/ changes > 0 => main = "poll"
  /\ callback => queue \in {"running", "stopping"}
  /\ queue # "stopped" => changes <= 1

\* The flag that ends the poll is set only for a queue that has stopped, and
\* so for one that has played out a file read to its end.
FlagInv ==
  /\ main # "returned" => rc = "ok"
  /\ stopped => main \in {"poll", "returned"}
  /\ stopped /\ main = "poll" => queue = "stopped"
  /\ queue \in {"stopping", "stopped"} => finished
  /\ queue = "stopped" => enqueued = <<>>
  /\ finished /\ ~readError => left = 0

\* All buffers are full but perhaps the last; what has been read of the file
\* is played or queued, but for the partial frame at its end.
Queued ==
  IF enqueued = <<>> THEN 0
  ELSE (Len(enqueued) - 1) * BufBytes + enqueued[Len(enqueued)]

Dropped == IF left = 0 THEN size % FrameBytes ELSE 0

ReadInv ==
  /\ \A i \in 1..(Len(enqueued) - 1) : enqueued[i] = BufBytes
  /\ left > 0 => /\ left % FrameBytes = size % FrameBytes
                 /\ enqueued # <<>> => enqueued[Len(enqueued)] = BufBytes
  /\ played + Queued = size - left - Dropped

IInv == TypeOK /\ QueueInv /\ FlagInv /\ ReadInv /\ PlaysWholeFile

LEMMA Sizes ==
  /\ FrameBytes \in Nat \ {0} /\ BufBytes \in Nat \ {0} /\ FileSizes \subseteq Nat
  /\ BufBytes % FrameBytes = 0
BY PcmPlayAssumption

-----------------------------------------------------------------------------
(* The queue as a sequence of sizes.                                       *)

LEMMA EnqueueKeeps ==
  ASSUME enqueued \in Seq(Nat), NEW n \in Nat, enqueued' = Append(enqueued, n),
         \A i \in 1..(Len(enqueued) - 1) : enqueued[i] = BufBytes,
         enqueued # <<>> => enqueued[Len(enqueued)] = BufBytes
  PROVE  /\ enqueued' \in Seq(Nat) /\ enqueued' # <<>> /\ Len(enqueued') = Len(enqueued) + 1
         /\ \A i \in 1..(Len(enqueued') - 1) : enqueued'[i] = BufBytes
         /\ enqueued'[Len(enqueued')] = n
         /\ Queued' = Queued + n
<1>1. /\ enqueued' \in Seq(Nat) /\ Len(enqueued') = Len(enqueued) + 1 /\ enqueued' # <<>>
      /\ \A i \in 1..Len(enqueued) : enqueued'[i] = enqueued[i]
      /\ enqueued'[Len(enqueued')] = n /\ Len(enqueued) \in Nat
  BY SMT
<1>2. \A i \in 1..(Len(enqueued') - 1) : enqueued'[i] = BufBytes
  <2> TAKE i \in 1..(Len(enqueued') - 1)
  <2>1. i \in 1..Len(enqueued)
    BY <1>1, SMT
  <2>2. CASE i = Len(enqueued)
    BY <1>1, <2>1, <2>2, SMT
  <2>3. CASE i # Len(enqueued)
    BY <1>1, <2>1, <2>3, SMT
  <2> QED BY <2>2, <2>3
<1>3. Queued' = Len(enqueued) * BufBytes + n
  BY <1>1, SMT DEF Queued
<1>4. CASE enqueued = <<>>
  BY <1>3, <1>4, Sizes, SMT DEF Queued
<1>5. CASE enqueued # <<>>
  <2>1. Queued = (Len(enqueued) - 1) * BufBytes + BufBytes
    BY <1>5 DEF Queued
  <2> QED BY <1>1, <1>2, <1>3, <2>1, Sizes, Z3
<1> QED BY <1>1, <1>2, <1>3, <1>4, <1>5

LEMMA DequeueKeeps ==
  ASSUME enqueued \in Seq(Nat), enqueued # <<>>, enqueued' = Tail(enqueued),
         \A i \in 1..(Len(enqueued) - 1) : enqueued[i] = BufBytes
  PROVE  /\ enqueued' \in Seq(Nat) /\ Head(enqueued) \in Nat
         /\ \A i \in 1..(Len(enqueued') - 1) : enqueued'[i] = BufBytes
         /\ enqueued' # <<>> => enqueued'[Len(enqueued')] = enqueued[Len(enqueued)]
         /\ Queued = Head(enqueued) + Queued'
<1>1. /\ enqueued' \in Seq(Nat) /\ Len(enqueued') = Len(enqueued) - 1 /\ Len(enqueued) \in Nat
      /\ Len(enqueued) >= 1 /\ Head(enqueued) = enqueued[1] /\ Head(enqueued) \in Nat
      /\ \A i \in 1..Len(enqueued') : enqueued'[i] = enqueued[i + 1]
  BY HeadTailProperties, SMT
<1>2. \A i \in 1..(Len(enqueued') - 1) : enqueued'[i] = BufBytes
  <2> TAKE i \in 1..(Len(enqueued') - 1)
  <2>1. i \in 1..Len(enqueued') /\ i + 1 \in 1..(Len(enqueued) - 1)
    BY <1>1, SMT
  <2> QED BY <1>1, <2>1
<1>3. CASE Len(enqueued) = 1
  <2>1. enqueued' = <<>>
    BY <1>1, <1>3, SMT
  <2>2. Queued = (1 - 1) * BufBytes + enqueued[1] /\ Queued' = 0
    BY <1>3, <2>1 DEF Queued
  <2> QED BY <1>1, <1>2, <2>1, <2>2, Sizes, SMT
<1>4. CASE Len(enqueued) > 1
  <2>1. enqueued' # <<>> /\ Len(enqueued') \in 1..Len(enqueued')
    <3>1. Len(enqueued') \in 1..Len(enqueued')
      BY <1>1, <1>4, SMT
    <3>2. ~(Len(<<>>) \in 1..Len(<<>>))
      BY SMT
    <3> QED BY <3>1, <3>2
  <2>2. enqueued'[Len(enqueued')] = enqueued[Len(enqueued)]
    BY <1>1, <2>1, SMT
  <2>3. Head(enqueued) = BufBytes
    <3>1. 1 \in 1..(Len(enqueued) - 1)
      BY <1>1, <1>4, SMT
    <3> QED BY <1>1, <3>1
  <2>4. /\ Queued = (Len(enqueued) - 1) * BufBytes + enqueued[Len(enqueued)]
        /\ Queued' = (Len(enqueued) - 1 - 1) * BufBytes + enqueued[Len(enqueued)]
    BY <1>1, <2>1, <2>2 DEF Queued
  <2>5. enqueued[Len(enqueued)] \in Nat
    BY <1>1, SMT
  <2>6. Queued = BufBytes + Queued'
    <3> DEFINE l == Len(enqueued) - 1
    <3>1. l \in Nat /\ l * BufBytes = BufBytes + (l - 1) * BufBytes
      BY <1>1, Sizes, Z3
    <3>2. (l - 1) * BufBytes \in Int /\ l * BufBytes \in Int
      BY <3>1, Sizes, Z3
    <3> QED BY <2>4, <2>5, <3>1, <3>2, Sizes, SMT
  <2> QED BY <1>1, <1>2, <2>2, <2>3, <2>6
<1> QED BY <1>1, <1>3, <1>4, SMT

-----------------------------------------------------------------------------
(* outputCallback.                                                         *)

LEMMA ReadKeeps ==
  ASSUME TypeOK, FlagInv, ReadInv, OutputCallback, UNCHANGED <<size, played>>
  PROVE  /\ left' \in 0..size /\ enqueued' \in Seq(Nat)
         /\ finished' \in BOOLEAN /\ readError' \in BOOLEAN
         /\ ReadInv'
         /\ finished' /\ ~readError' => left' = 0
         /\ finished => finished'
         /\ queue' = queue \/ (finished' /\ queue = "running" /\ queue' = "stopping")
<1>1. /\ left \in 0..size /\ left \in Nat /\ size \in Nat /\ played \in Nat /\ enqueued \in Seq(Nat)
      /\ Len(enqueued) \in Nat
  BY Sizes, SMT DEF TypeOK
<1>2. CASE finished /\ UNCHANGED <<left, readError, finished, queue, enqueued>>
  <2>1. finished' /\ finished' \in BOOLEAN /\ readError' \in BOOLEAN
    BY <1>2, Zenon DEF TypeOK
  <2>2. finished' /\ ~readError' => left' = 0
    BY <1>2, Zenon DEF FlagInv
  <2> QED BY <1>1, <1>2, <2>1, <2>2 DEF ReadInv, Queued, Dropped
<1>3. CASE ReadFails
  <2>1. readError' /\ finished' /\ finished' \in BOOLEAN /\ readError' \in BOOLEAN
    BY <1>3, Zenon DEF ReadFails, Finish
  <2>2. UNCHANGED <<left, enqueued>> /\ queue' = IF queue = "running" THEN "stopping" ELSE queue
    BY <1>3 DEF ReadFails, Finish, PlayOut
  <2> QED BY <1>1, <2>1, <2>2 DEF ReadInv, Queued, Dropped
<1>4. CASE ReadChunk
  <2> DEFINE n == IF left < BufBytes THEN left ELSE BufBytes
             whole == n - (n % FrameBytes)
  <2>1. /\ left' = left - n /\ UNCHANGED readError /\ ~finished
        /\ whole = 0 => finished' = TRUE /\ PlayOut /\ UNCHANGED enqueued
        /\ whole # 0 => enqueued' = Append(enqueued, whole) /\ UNCHANGED <<finished, queue>>
    BY <1>4, Zenon DEF ReadChunk, Finish
  <2>2. /\ n \in Nat /\ n <= left /\ whole \in 0..n /\ left' \in 0..size
    <3>1. n \in Nat /\ n <= left
      BY <1>1, Sizes, SMT
    <3> HIDE DEF n
    <3>2. whole \in 0..n
      BY <3>1, Sizes, ModWhole
    <3> QED BY <1>1, <2>1, <3>1, <3>2, SMT
  <2>3. left' > 0 => whole = BufBytes /\ n = BufBytes /\ left' % FrameBytes = left % FrameBytes
    <3> SUFFICES ASSUME left' > 0 PROVE whole = BufBytes /\ n = BufBytes /\ left' % FrameBytes = left % FrameBytes
      OBVIOUS
    <3>1. n = BufBytes /\ BufBytes <= left
      BY <1>1, <2>1, <2>2, Sizes, SMT
    <3>2. whole = BufBytes
      BY <3>1, Sizes, SMT
    <3>3. (left - BufBytes) % FrameBytes = left % FrameBytes
      BY <1>1, <3>1, Sizes, ModSub
    <3> QED BY <2>1, <3>1, <3>2, <3>3
  <2>4. left' = 0 => n = left /\ (left > 0 => n - whole = size % FrameBytes)
    <3> SUFFICES ASSUME left' = 0 PROVE n = left /\ (left > 0 => n - whole = size % FrameBytes)
      OBVIOUS
    <3>1. n = left
      BY <1>1, <2>1, <2>2, SMT
    <3>2. left > 0 => left % FrameBytes = size % FrameBytes
      BY <1>1 DEF ReadInv
    <3>3. left % FrameBytes \in Nat
      BY <1>1, Sizes, ModFacts, SMT
    <3>4. n - whole = left % FrameBytes
      BY <1>1, <3>1, <3>3, SMT
    <3> QED BY <3>1, <3>2, <3>4
  <2>5. size % FrameBytes \in Nat
    BY <1>1, Sizes, ModFacts, SMT
  <2>6. finished' \in BOOLEAN /\ readError' \in BOOLEAN /\ (finished => finished')
    <3>1. finished \in BOOLEAN /\ readError \in BOOLEAN
      BY Zenon DEF TypeOK
    <3>2. CASE whole = 0
      BY <2>1, <3>1, <3>2, Zenon
    <3>3. CASE whole # 0
      BY <2>1, <3>1, <3>3, Zenon
    <3> QED BY <3>2, <3>3
  <2>7. queue' = queue \/ (finished' /\ queue = "running" /\ queue' = "stopping")
    <3>1. CASE whole = 0
      BY <2>1, <3>1, Zenon DEF PlayOut
    <3>2. CASE whole # 0
      BY <2>1, <3>2, Zenon
    <3> QED BY <3>1, <3>2
  <2>8. left = 0 => whole = 0 /\ left' = 0
    <3>1. left = 0 => n = 0
      BY <1>1, <2>2, SMT
    <3> QED BY <1>1, <2>1, <2>2, <3>1, SMT
  <2>9. whole = 0 => left' = 0
    BY <1>1, <2>1, <2>2, <2>3, Sizes, SMT
  <2>10. finished' /\ ~readError' => left' = 0
    <3>1. CASE whole = 0
      BY <2>9, <3>1
    <3>2. CASE whole # 0
      BY <2>1, <3>2, Zenon
    <3> QED BY <3>1, <3>2
  <2> HIDE DEF n, whole
  <2>11. CASE whole = 0
    <3>1. UNCHANGED enqueued /\ left' = 0
      BY <2>1, <2>9, <2>11
    <3>2. Dropped' = size % FrameBytes /\ Queued' = Queued
      BY <3>1 DEF Dropped, Queued
    <3>3. Queued \in Int /\ played + Queued = size - left - Dropped
      BY <1>1, Sizes, SMT DEF ReadInv, Queued
    <3>4. left > 0 => left = size % FrameBytes /\ Dropped = 0
      BY <1>1, <2>2, <2>4, <2>11, <3>1, SMT DEF Dropped
    <3>5. left = 0 => Dropped = size % FrameBytes
      BY DEF Dropped
    <3>6. played' + Queued' = size' - left' - Dropped'
      BY <1>1, <2>5, <3>1, <3>2, <3>3, <3>4, <3>5, SMT
    <3>7. ReadInv'
      BY <3>1, <3>6, SMT DEF ReadInv
    <3> QED BY <1>1, <2>2, <2>6, <2>7, <2>10, <3>1, <3>7
  <2>12. CASE whole # 0
    <3>1. left > 0 /\ enqueued' = Append(enqueued, whole) /\ whole \in Nat
      BY <1>1, <2>1, <2>2, <2>8, <2>12, SMT
    <3>2. /\ enqueued' \in Seq(Nat) /\ enqueued' # <<>>
          /\ \A i \in 1..(Len(enqueued') - 1) : enqueued'[i] = BufBytes
          /\ enqueued'[Len(enqueued')] = whole
          /\ Queued' = Queued + whole
      BY <1>1, <3>1, EnqueueKeeps DEF ReadInv
    <3>3. Queued \in Int /\ played + Queued = size - left
      <4>1. Dropped = 0
        BY <3>1 DEF Dropped
      <4>2. enqueued # <<>> => enqueued[Len(enqueued)] \in Nat
        BY <1>1, SMT
      <4>3. Queued \in Int
        BY <1>1, <4>2, Sizes, SMT DEF Queued
      <4> QED BY <1>1, <4>1, <4>3, SMT DEF ReadInv
    <3>4. left' > 0 => /\ left' % FrameBytes = size % FrameBytes
                       /\ enqueued'[Len(enqueued')] = BufBytes
      BY <2>3, <3>1, <3>2 DEF ReadInv
    <3>5. played' + Queued' = size' - left' - Dropped'
      <4>1. CASE left' = 0
        <5>1. Dropped' = size % FrameBytes
          BY <4>1 DEF Dropped
        <5>2. n = left /\ n - whole = size % FrameBytes
          BY <2>4, <3>1, <4>1
        <5>3. played' = played /\ size' = size
          OBVIOUS
        <5> QED BY <1>1, <2>5, <3>1, <3>2, <3>3, <4>1, <5>1, <5>2, <5>3, SMT
      <4>2. CASE left' > 0
        <5>1. Dropped' = 0
          <6>1. left' # 0
            BY <2>2, <4>2, SMT
          <6> QED BY <6>1 DEF Dropped
        <5>2. whole = n /\ left' = left - n
          BY <2>1, <2>3, <4>2
        <5>3. played' = played /\ size' = size
          OBVIOUS
        <5> QED BY <1>1, <2>2, <3>1, <3>2, <3>3, <5>1, <5>2, <5>3, SMT
      <4> QED BY <2>2, <4>1, <4>2, SMT
    <3>6. ReadInv'
      BY <3>2, <3>4, <3>5 DEF ReadInv
    <3> QED BY <1>1, <2>2, <2>6, <2>7, <2>10, <3>2, <3>6
  <2> QED BY <2>11, <2>12
<1> QED BY <1>2, <1>3, <1>4 DEF OutputCallback

-----------------------------------------------------------------------------
(* The steps of main and of the queue's thread.                            *)

LEMMA InitIInv == Init => IInv
<1> SUFFICES ASSUME Init PROVE IInv
  OBVIOUS
<1>1. size \in Nat /\ left = size /\ played = 0 /\ enqueued = <<>> /\ 0 \in 0..NumBufs
  BY Sizes, SMT DEF Init, NumBufs
<1>2. /\ ~stopped /\ ~finished /\ ~callback /\ ~readError
      /\ stopped \in BOOLEAN /\ finished \in BOOLEAN /\ callback \in BOOLEAN /\ readError \in BOOLEAN
  BY Zenon DEF Init
<1>3. TypeOK
  BY <1>1, <1>2, SMT DEF Init, TypeOK
<1>4. ReadInv
  <2>1. size % FrameBytes \in Nat /\ (size = 0 => size % FrameBytes = 0)
    BY <1>1, Sizes, ModFacts, SMT
  <2>2. Queued = 0 /\ Len(enqueued) = 0
    BY <1>1, SMT DEF Queued
  <2>3. Dropped = 0
    BY <1>1, <2>1 DEF Dropped
  <2> QED BY <1>1, <2>2, <2>3, SMT DEF ReadInv
<1>5. QueueInv /\ FlagInv /\ PlaysWholeFile
  BY <1>1, <1>2, SMT DEF Init, QueueInv, FlagInv, PlaysWholeFile
<1> QED BY <1>3, <1>4, <1>5 DEF IInv

\* main without a callback leaves the file and the buffers alone.
LEMMA SameBuffers ==
  ASSUME ReadInv, UNCHANGED <<size, left, enqueued, played>>
  PROVE  ReadInv'
BY DEF ReadInv, Queued, Dropped

LEMMA MainKeeps ==
  ASSUME IInv, NewOutput \/ GiveUp \/ StartQueue
  PROVE  IInv'
<1>1. CASE NewOutput
  <2>1. ReadInv'
    BY <1>1, SameBuffers DEF NewOutput, IInv
  <2>2. TypeOK' /\ QueueInv' /\ FlagInv' /\ PlaysWholeFile'
    BY <1>1, SMT DEF NewOutput, Return, IInv, TypeOK, QueueInv, FlagInv, PlaysWholeFile
  <2> QED BY <2>1, <2>2 DEF IInv
<1>2. CASE GiveUp
  <2>1. ReadInv'
    BY <1>2, SameBuffers DEF GiveUp, IInv
  <2>2. TypeOK' /\ QueueInv' /\ FlagInv' /\ PlaysWholeFile'
    BY <1>2, SMT DEF GiveUp, Return, IInv, TypeOK, QueueInv, FlagInv, PlaysWholeFile
  <2> QED BY <2>1, <2>2 DEF IInv
<1>3. CASE StartQueue
  <2>1. ReadInv'
    BY <1>3, SameBuffers DEF StartQueue, IInv
  <2>2. TypeOK' /\ QueueInv' /\ FlagInv' /\ PlaysWholeFile'
    BY <1>3, SMT DEF StartQueue, IInv, TypeOK, QueueInv, FlagInv, PlaysWholeFile
  <2> QED BY <2>1, <2>2 DEF IInv
<1> QED BY <1>1, <1>2, <1>3

LEMMA PrimeKeeps == IInv /\ Prime => IInv'
<1> SUFFICES ASSUME IInv, Prime PROVE IInv'
  OBVIOUS
<1>1. /\ main = "prime" /\ primed < NumBufs /\ primed' = primed + 1 /\ OutputCallback
      /\ UNCHANGED <<main, rc, size, stopped, played, callback, changes>>
  BY DEF Prime
<1>2. /\ left' \in 0..size /\ enqueued' \in Seq(Nat)
      /\ finished' \in BOOLEAN /\ readError' \in BOOLEAN
      /\ ReadInv'
      /\ finished' /\ ~readError' => left' = 0
      /\ queue' = queue \/ (finished' /\ queue = "running" /\ queue' = "stopping")
  BY <1>1, ReadKeeps DEF IInv
<1>3. queue = "new" /\ queue' = "new"
  BY <1>1, <1>2 DEF IInv, QueueInv
<1>4. TypeOK'
  BY <1>1, <1>2, <1>3, SMT DEF IInv, TypeOK, NumBufs
<1>5. QueueInv' /\ PlaysWholeFile'
  BY <1>1, <1>3, SMT DEF IInv, QueueInv, PlaysWholeFile
<1>6. FlagInv'
  BY <1>1, <1>2, <1>3, Zenon DEF IInv, FlagInv
<1> QED BY <1>2, <1>4, <1>5, <1>6 DEF IInv

LEMMA PollKeeps == IInv /\ Poll => IInv'
<1> SUFFICES ASSUME IInv, Poll PROVE IInv'
  OBVIOUS
<1>1. /\ main = "poll" /\ stopped /\ ~callback /\ main' = "returned" /\ rc' = "ok" /\ queue' = "disposed"
      /\ changes' = 0
      /\ UNCHANGED <<primed, size, left, readError, finished, stopped, enqueued, played, callback>>
  BY Zenon DEF Poll, Return
<1>2. queue = "stopped" /\ enqueued = <<>> /\ (~readError => left = 0)
  BY <1>1, Zenon DEF IInv, FlagInv
<1>3. ReadInv'
  BY <1>1, SameBuffers DEF IInv
<1>4. ~readError => played = size - (size % FrameBytes)
  <2> SUFFICES ASSUME ~readError PROVE played = size - (size % FrameBytes)
    OBVIOUS
  <2>1. Queued = 0 /\ Dropped = size % FrameBytes /\ left = 0
    BY <1>2 DEF Queued, Dropped
  <2>2. size \in Nat /\ played \in Nat /\ size % FrameBytes \in Nat
    BY Sizes, ModFacts, SMT DEF IInv, TypeOK
  <2>3. played + 0 = size - 0 - (size % FrameBytes)
    BY <2>1 DEF IInv, ReadInv
  <2> QED BY <2>2, <2>3, SMT
<1>5. PlaysWholeFile'
  BY <1>1, <1>4 DEF PlaysWholeFile
<1>6. TypeOK' /\ QueueInv' /\ FlagInv'
  BY <1>1, <1>2, SMT DEF IInv, TypeOK, QueueInv, FlagInv
<1> QED BY <1>3, <1>5, <1>6 DEF IInv

LEMMA QueueKeeps ==
  ASSUME IInv, BufferPlayed \/ QueueStops \/ IsRunningChanged
  PROVE  IInv'
<1>1. CASE BufferPlayed
  <2>1. /\ queue \in {"running", "stopping"} /\ enqueued # <<>> /\ ~callback
        /\ played' = played + Head(enqueued) /\ enqueued' = Tail(enqueued) /\ callback'
        /\ callback' \in BOOLEAN
        /\ UNCHANGED <<main, primed, rc, stopped, size, left, readError, finished, queue, changes>>
    BY <1>1, Zenon DEF BufferPlayed, program
  <2>2. /\ enqueued' \in Seq(Nat) /\ Head(enqueued) \in Nat
        /\ \A i \in 1..(Len(enqueued') - 1) : enqueued'[i] = BufBytes
        /\ enqueued' # <<>> => enqueued'[Len(enqueued')] = enqueued[Len(enqueued)]
        /\ Queued = Head(enqueued) + Queued'
    BY <2>1, DequeueKeeps DEF IInv, TypeOK, ReadInv
  <2>3. Dropped' = Dropped
    BY <2>1 DEF Dropped
  <2>4. Queued' \in Int
    <3>1. enqueued' # <<>> => enqueued'[Len(enqueued')] \in Nat /\ Len(enqueued') \in Nat
      BY <2>2, SMT
    <3>2. CASE enqueued' = <<>>
      BY <3>2, SMT DEF Queued
    <3>3. CASE enqueued' # <<>>
      BY <3>1, <3>3, Sizes, SMT DEF Queued
    <3> QED BY <3>2, <3>3
  <2>5. played' + Queued' = size' - left' - Dropped'
    <3>1. played + Queued = size - left - Dropped /\ played \in Nat
      BY DEF IInv, ReadInv, TypeOK
    <3>2. played' + Queued' = played + Queued
      BY <2>1, <2>2, <2>4, <3>1, SMT
    <3> QED BY <2>1, <2>3, <3>1, <3>2
  <2>6. left' > 0 => /\ left' % FrameBytes = size' % FrameBytes
                     /\ enqueued' # <<>> => enqueued'[Len(enqueued')] = BufBytes
    BY <2>1, <2>2 DEF IInv, ReadInv
  <2>7. ReadInv'
    BY <2>2, <2>5, <2>6 DEF ReadInv
  <2>8. main = "poll" /\ main' = "poll"
    BY <2>1, SMT DEF IInv, TypeOK, QueueInv
  <2>9. TypeOK'
    BY <2>1, <2>2, SMT DEF IInv, TypeOK
  <2>10. QueueInv' /\ PlaysWholeFile'
    BY <2>1, <2>8, SMT DEF IInv, QueueInv, PlaysWholeFile
  <2>11. FlagInv'
    BY <2>1, Zenon DEF IInv, FlagInv
  <2> QED BY <2>7, <2>9, <2>10, <2>11 DEF IInv
<1>2. CASE QueueStops
  <2>1. ReadInv'
    BY <1>2, SameBuffers DEF QueueStops, program, IInv
  <2>2. TypeOK' /\ QueueInv' /\ FlagInv' /\ PlaysWholeFile'
    BY <1>2, SMT DEF QueueStops, program, IInv, TypeOK, QueueInv, FlagInv, PlaysWholeFile
  <2> QED BY <2>1, <2>2 DEF IInv
<1>3. CASE IsRunningChanged
  <2>1. ReadInv'
    BY <1>3, SameBuffers DEF IsRunningChanged, IInv
  <2>2. /\ changes > 0 /\ changes' = changes - 1 /\ stopped' \in BOOLEAN
        /\ stopped' => stopped \/ queue \notin {"running", "stopping"}
        /\ stopped => stopped'
        /\ UNCHANGED <<main, primed, rc, size, left, readError, finished, queue, enqueued, played, callback>>
    BY <1>3, Zenon DEF IsRunningChanged, IInv, TypeOK
  <2>3. main = "poll"
    BY <2>2, Zenon DEF IInv, QueueInv
  <2>4. TypeOK' /\ QueueInv' /\ FlagInv' /\ PlaysWholeFile'
    BY <2>2, <2>3, SMT DEF IInv, TypeOK, QueueInv, FlagInv, PlaysWholeFile
  <2> QED BY <2>1, <2>4 DEF IInv
<1> QED BY <1>1, <1>2, <1>3

LEMMA CallbackKeeps == IInv /\ Callback => IInv'
<1> SUFFICES ASSUME IInv, Callback PROVE IInv'
  OBVIOUS
<1>1. /\ callback /\ OutputCallback /\ ~callback' /\ callback' \in BOOLEAN
      /\ UNCHANGED <<main, primed, rc, stopped, size, played, changes>>
  BY Zenon DEF Callback, program
<1>2. /\ left' \in 0..size /\ enqueued' \in Seq(Nat)
      /\ finished' \in BOOLEAN /\ readError' \in BOOLEAN
      /\ ReadInv'
      /\ finished' /\ ~readError' => left' = 0
      /\ finished => finished'
      /\ queue' = queue \/ (finished' /\ queue = "running" /\ queue' = "stopping")
  BY <1>1, ReadKeeps DEF IInv
<1>3. main = "poll" /\ queue \in {"running", "stopping"} /\ queue' \in {"running", "stopping"}
  BY <1>1, <1>2, Zenon DEF IInv, QueueInv
<1>4. TypeOK'
  BY <1>1, <1>2, <1>3, SMT DEF IInv, TypeOK
<1>5. QueueInv' /\ PlaysWholeFile'
  BY <1>1, <1>3, SMT DEF IInv, QueueInv, PlaysWholeFile
<1>6. queue' = "stopping" => finished'
  BY <1>2, Zenon DEF IInv, FlagInv
<1>7. FlagInv'
  BY <1>1, <1>2, <1>3, <1>6, SMT DEF IInv, FlagInv
<1> QED BY <1>2, <1>4, <1>5, <1>7 DEF IInv

LEMMA NextIInv == IInv /\ [Next]_vars => IInv'
<1> SUFFICES ASSUME IInv, [Next]_vars PROVE IInv'
  OBVIOUS
<1>1. CASE UNCHANGED vars
  BY <1>1 DEF vars, IInv, TypeOK, QueueInv, FlagInv, ReadInv, Queued, Dropped, PlaysWholeFile
<1>2. CASE Next
  BY <1>2, MainKeeps, PrimeKeeps, PollKeeps, QueueKeeps, CallbackKeeps DEF Next, MainStep, QueueStep
<1> QED BY <1>1, <1>2

-----------------------------------------------------------------------------

\* The flag that ends the poll means that the queue has played out a file
\* read to its end.
THEOREM PlaybackIsSound == Spec => []IInv
BY InitIInv, NextIInv, PTL DEF Spec

\* A playback that ends without an error has played the whole file.
THEOREM PlaysWholeFileHolds == Spec => []PlaysWholeFile
<1>1. IInv => PlaysWholeFile
  BY DEF IInv
<1> QED BY <1>1, PlaybackIsSound, PTL

\* Nothing of the queue runs when play_f32le has returned.
THEOREM StateOutlivesCallbacksHolds == Spec => []StateOutlivesCallbacks
<1>1. IInv => StateOutlivesCallbacks
  BY SMT DEF IInv, TypeOK, QueueInv, StateOutlivesCallbacks
<1> QED BY <1>1, PlaybackIsSound, PTL
=============================================================================
