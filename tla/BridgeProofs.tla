---------------------------- MODULE BridgeProofs ----------------------------
(***************************************************************************)
(* Proofs about module Bridge, for every ring size, position range (any    *)
(* multiple of the ring size), callback length, read size and pipe.        *)
(***************************************************************************)
EXTENDS Bridge, TLAPS

-----------------------------------------------------------------------------
(* Arithmetic of positions and slots.                                      *)

\* Quotient and remainder are unique.
LEMMA DivMod ==
  ASSUME NEW d \in Nat \ {0}, NEW a \in Nat, NEW q \in Nat, NEW s \in 0..d-1,
         a = q * d + s
  PROVE  a % d = s
<1>1. PICK t \in Nat, u \in 0..d-1 : a = t * d + u /\ a % d = u
  <2>1. a \div d \in Nat /\ a % d \in 0..d-1 /\ a = (a \div d) * d + (a % d)
    BY Z3
  <2> QED  BY <2>1
<1>2. (q - t) * d = u - s
  BY <1>1, Z3
<1>3. CASE q > t
  <2>1. (q - t - 1) * d >= 0  BY <1>3, <1>1, Z3
  <2>2. (q - t) * d >= d      BY <2>1, <1>1, Z3
  <2> QED  BY <2>2, <1>1, <1>2
<1>4. CASE q < t
  <2>1. (t - q - 1) * d >= 0  BY <1>4, <1>1, Z3
  <2>2. (t - q) * d >= d      BY <2>1, <1>1, Z3
  <2>3. (t - q) * d = s - u   BY <1>2, <1>1, Z3
  <2> QED  BY <2>2, <2>3, <1>1
<1>5. CASE q = t
  BY <1>5, <1>1, <1>2, Z3
<1> QED  BY <1>1, <1>3, <1>4, <1>5

\* Multiplication by a positive number is strictly monotonic.
LEMMA MulLess ==
  ASSUME NEW d \in Nat \ {0}, NEW m \in Int, NEW l \in Int, m * d < l * d
  PROVE  m < l
<1> SUFFICES ASSUME m >= l PROVE FALSE
  BY Z3
<1>1. (m - l) * d >= 0  BY Z3
<1> QED  BY <1>1, Z3

\* Quotient and remainder of a natural number.
LEMMA DivRem ==
  ASSUME NEW d \in Nat \ {0}, NEW a \in Nat
  PROVE  \E t \in Nat : \E u \in 0..d-1 : a = t * d + u /\ a % d = u
<1>1. a \div d \in Nat /\ a % d \in 0..d-1 /\ a = (a \div d) * d + (a % d)
  BY Z3
<1> QED  BY <1>1

\* A position advanced by at most one lap: its slot is the one the second
\* memcpy of the code computes, also where the 32-bit sum wraps.
LEMMA AddRem ==
  ASSUME NEW p \in Pos, NEW n \in 0..RingSize
  PROVE  /\ Add(p, n) \in Pos
         /\ Add(p, n) % RingSize = IF (p % RingSize) + n < RingSize
                                   THEN (p % RingSize) + n
                                   ELSE (p % RingSize) + n - RingSize
<1> RingSize \in Nat \ {0} /\ PosRange \in Nat
  BY BridgeAssumption
<1>0. PICK laps \in 2..PosRange : PosRange = laps * RingSize
  BY BridgeAssumption
<1>1. PICK t \in Nat, u \in 0..RingSize-1 : p = t * RingSize + u /\ p % RingSize = u
  BY DivRem DEF Pos
<1>2. RingSize <= PosRange
  <2>1. (laps - 1) * RingSize >= 0  BY <1>0, Z3
  <2> QED  BY <2>1, <1>0, Z3
<1>3. Add(p, n) \in Pos /\ Add(p, n) \in Nat
  BY <1>2 DEF Add, Pos
<1>4. CASE p + n < PosRange
  <2>1. Add(p, n) = t * RingSize + (u + n)  BY <1>4, <1>1, Z3 DEF Add, Pos
  <2>2. CASE u + n < RingSize
    <3>1. (u + n) \in 0..RingSize-1  BY <2>2
    <3>2. Add(p, n) % RingSize = u + n
      BY <2>1, <3>1, <1>3, <1>1, DivMod, Zenon
    <3> QED  BY <3>2, <1>1, <1>3, <2>2
  <2>3. CASE u + n >= RingSize
    <3>1. u + n - RingSize \in 0..RingSize-1  BY <2>3
    <3>2. Add(p, n) = (t + 1) * RingSize + (u + n - RingSize)  BY <2>1, Z3
    <3>3. PICK q \in Nat, s \in 0..RingSize-1 :
            q = t + 1 /\ s = u + n - RingSize /\ Add(p, n) = q * RingSize + s
      BY <3>1, <3>2
    <3>4. Add(p, n) % RingSize = s
      BY <3>3, <1>3, DivMod, Zenon
    <3> QED  BY <3>3, <3>4, <1>1, <1>3, <2>3
  <2> QED  BY <2>2, <2>3
<1>5. CASE p + n >= PosRange
  <2>1. Add(p, n) = t * RingSize + (u + n) - laps * RingSize
    BY <1>5, <1>1, <1>0, Z3 DEF Add, Pos
  <2>2. t * RingSize < laps * RingSize
    BY <1>0, <1>1, Z3 DEF Pos
  <2>3. t < laps
    BY <2>2, MulLess
  <2>4. t * RingSize + RingSize <= laps * RingSize
    <3>1. (laps - t - 1) * RingSize >= 0  BY <2>3, Z3
    <3> QED  BY <3>1, Z3
  <2>5. u + n >= RingSize
    BY <2>1, <2>4, <1>0, <1>1, <1>5, Z3 DEF Pos
  <2>6. laps * RingSize < (t + 2) * RingSize
    BY <1>5, <1>1, <1>0, Z3 DEF Pos
  <2>7. laps < t + 2
    BY <2>6, MulLess
  <2>8. Add(p, n) = (t + 1 - laps) * RingSize + (u + n - RingSize)
    BY <2>1, Z3
  <2>9. t + 1 - laps \in Nat /\ u + n - RingSize \in 0..RingSize-1
    BY <2>7, <2>5
  <2>10. PICK q \in Nat, s \in 0..RingSize-1 :
           q = t + 1 - laps /\ s = u + n - RingSize /\ Add(p, n) = q * RingSize + s
    BY <2>8, <2>9
  <2>11. Add(p, n) % RingSize = s
    BY <2>10, <1>3, DivMod, Zenon
  <2> QED  BY <2>10, <2>11, <2>5, <1>1, <1>3
<1> QED  BY <1>3, <1>4, <1>5 DEF Pos

\* What the assumption says of the sizes, without the number of laps.
LEMMA Sizes ==
  /\ RingSize \in Nat \ {0} /\ PosRange \in Nat /\ 2 * RingSize <= PosRange
  /\ MaxCount \in Nat /\ 1 <= MaxCount /\ MaxCount <= RingSize
  /\ MaxRead \in Nat /\ 1 <= MaxRead /\ MaxRead <= RingSize
<1>1. PICK laps \in 2..PosRange : PosRange = laps * RingSize
  BY BridgeAssumption
<1>2. (laps - 2) * RingSize >= 0
  BY <1>1, BridgeAssumption, Z3
<1>3. 2 * RingSize <= PosRange
  BY <1>1, <1>2, BridgeAssumption, Z3
<1> QED  BY <1>3, BridgeAssumption

LEMMA SlotRange ==
  ASSUME NEW p \in Pos, NEW k \in 0..RingSize-1
  PROVE  Slot(p, k) \in Slots
<1>1. p \in Nat /\ RingSize \in Nat \ {0}
  BY Sizes DEF Pos
<1>2. p % RingSize \in 0..RingSize-1
  BY <1>1, DivRem
<1> QED  BY <1>1, <1>2 DEF Slot, Slots

\* Within a lap, different samples have different slots.
LEMMA SlotInjective ==
  ASSUME NEW p \in Pos, NEW k \in 0..RingSize-1, NEW l \in 0..RingSize-1,
         Slot(p, k) = Slot(p, l)
  PROVE  k = l
<1>1. p \in Nat /\ RingSize \in Nat \ {0}
  BY Sizes DEF Pos
<1>2. p % RingSize \in 0..RingSize-1
  BY <1>1, DivRem
<1> QED  BY <1>1, <1>2 DEF Slot

\* The k-th slot after an advance by n is the (n + k)-th one before it.
LEMMA SlotShift ==
  ASSUME NEW p \in Pos, NEW n \in 0..RingSize, NEW k \in Nat, n + k < RingSize
  PROVE  Slot(Add(p, n), k) = Slot(p, n + k)
<1>1. p \in Nat /\ RingSize \in Nat \ {0}
  BY Sizes DEF Pos
<1>2. p % RingSize \in 0..RingSize-1
  BY <1>1, DivRem
<1>3. Add(p, n) % RingSize = IF (p % RingSize) + n < RingSize
                             THEN (p % RingSize) + n
                             ELSE (p % RingSize) + n - RingSize
  BY AddRem
<1> QED  BY <1>1, <1>2, <1>3 DEF Slot

\* Differences of positions undo sums, as long as less than a full range
\* of positions lies between them.
LEMMA SubAdd ==
  ASSUME NEW p \in Pos, NEW q \in Pos
  PROVE  /\ Sub(q, p) \in Pos
         /\ q = Add(p, Sub(q, p))
         /\ \A n \in 0..RingSize :
              /\ Add(q, n) \in Pos
              /\ Sub(q, p) + n < PosRange => Sub(Add(q, n), p) = Sub(q, p) + n
              /\ n <= Sub(q, p) => Sub(q, Add(p, n)) = Sub(q, p) - n
  BY Sizes DEF Sub, Add, Pos

-----------------------------------------------------------------------------
(* The invariant IInv.                                                     *)

\* Bounds and positions that IInv gives every step.
LEMMA IInvFacts ==
  ASSUME IInv
  PROVE  /\ Held \in 0..RingSize /\ written = head + Held
         /\ Avail(write_pos, read_pos) = RingSize - Held
         /\ write_pos = Add(read_pos, Held)
         /\ Dropping <=> wpc \in {"load", "drop"} /\ w_count > RingSize - Held
<1>1. Held \in 0..RingSize /\ Sub(write_pos, read_pos) = Held /\ written = head + Held
  BY Sizes DEF IInv, TypeOK, OccupancyBounded, Held, Sub, Pos
<1>2. write_pos = Add(read_pos, Held)
  BY <1>1, SubAdd DEF IInv, TypeOK
<1>3. Avail(write_pos, read_pos) = RingSize - Held
  BY <1>1, Sizes DEF Avail, Sub
<1> QED  BY <1>1, <1>2, <1>3 DEF Dropping

LEMMA InitIInv == Init => IInv
<1> SUFFICES ASSUME Init PROVE IInv
  OBVIOUS
<1>1. TypeOK
  BY Sizes, BridgeAssumption DEF Init, TypeOK, Pos, Slots
<1>2. OccupancyBounded /\ RingInv /\ CountInv
  BY Sizes DEF Init, OccupancyBounded, RingInv, CountInv, Held, Sub
<1>3. WriterInv /\ ReaderInv
  BY DEF Init, WriterInv, ReaderInv, Reading
<1> QED  BY <1>1, <1>2, <1>3 DEF IInv

LEMMA CallbackEnterInv ==
  ASSUME ~DropRaces, IInv, NEW count \in 1..MaxCount, CallbackEnter(count)
  PROVE  IInv'
<1> USE DEF CallbackEnter, shared, reader, history
<1>1. TypeOK'
  BY Sizes DEF IInv, TypeOK
<1>2. OccupancyBounded' /\ RingInv' /\ CountInv'
  BY Sizes DEF IInv, OccupancyBounded, RingInv, CountInv, Held
<1>3. WriterInv'
  BY DEF WriterInv
<1>4. ReaderInv'
  <2>1. Reading' => ~Dropping'
    BY IInvFacts, Sizes DEF CallbackMayRun, Reading, Dropping
  <2> QED  BY <2>1 DEF IInv, ReaderInv, Held
<1> QED  BY <1>1, <1>2, <1>3, <1>4 DEF IInv

LEMMA CallbackLoadInv ==
  ASSUME ~DropRaces, IInv, CallbackLoad
  PROVE  IInv'
<1> USE DEF CallbackLoad, shared, reader, history
<1>1. TypeOK'
  BY Sizes DEF IInv, TypeOK
<1>2. OccupancyBounded' /\ RingInv' /\ CountInv'
  BY DEF IInv, OccupancyBounded, RingInv, CountInv, Held
<1>3. WriterInv'
  <2>1. Held' = Held /\ Held \in 0..RingSize /\ w_count \in 0..MaxCount
    BY IInvFacts DEF Held, IInv, TypeOK
  <2> QED  BY <2>1, IInvFacts, Sizes DEF WriterInv
<1>4. ReaderInv'
  <2>1. Dropping' => Dropping
    BY DEF Dropping
  <2> QED  BY <2>1 DEF IInv, ReaderInv, Held, Reading
<1> QED  BY <1>1, <1>2, <1>3, <1>4 DEF IInv

LEMMA CallbackDropInv ==
  ASSUME ~DropRaces, IInv, CallbackDrop
  PROVE  IInv'
<1> DEFINE excess == w_count - (RingSize - Held)
<1> USE DEF CallbackDrop, reader
<1>1. /\ w_count \in 0..MaxCount /\ Held \in 0..RingSize /\ written = head + Held
      /\ excess \in 1..RingSize /\ excess <= Held
      /\ read_pos \in Pos /\ write_pos \in Pos /\ head \in Nat
  BY IInvFacts, Sizes DEF IInv, TypeOK, WriterInv
<1>2. read_pos' = Add(read_pos, excess) /\ head' = head + excess
  BY IInvFacts DEF IInv, WriterInv
<1>3. Held' = Held - excess /\ Held' + w_count = RingSize
  BY <1>1, <1>2, Sizes DEF Held
<1>4. read_pos' \in Pos /\ Sub(write_pos, read_pos') = Held'
  BY <1>1, <1>2, <1>3, SubAdd, IInvFacts DEF IInv, OccupancyBounded, Held
<1>5. TypeOK'
  BY <1>1, <1>2, <1>4, Sizes DEF IInv, TypeOK
<1>6. OccupancyBounded'
  BY <1>1, <1>3, <1>4 DEF OccupancyBounded, Held
<1>7. RingInv'
  <2> SUFFICES ASSUME NEW k \in 0..Held'-1
               PROVE  ring[Slot(read_pos', k)] = head' + k + 1
    BY DEF RingInv
  <2>1. k \in Nat /\ excess + k \in 0..Held-1 /\ excess + k < RingSize
    BY <1>1, <1>3
  <2>2. Slot(read_pos', k) = Slot(read_pos, excess + k)
    BY <1>1, <1>2, <2>1, SlotShift
  <2>3. ring[Slot(read_pos, excess + k)] = head + (excess + k) + 1
    BY <2>1 DEF IInv, RingInv
  <2> QED  BY <1>1, <1>2, <2>1, <2>2, <2>3
<1>8. CountInv' /\ WriterInv'
  BY <1>1, <1>3, Sizes DEF IInv, CountInv, WriterInv, TypeOK
<1>9. ReaderInv'
  <2>1. ~Reading
    BY IInvFacts DEF IInv, ReaderInv, WriterInv
  <2> QED  BY <2>1 DEF IInv, ReaderInv, Reading
<1> QED  BY <1>5, <1>6, <1>7, <1>8, <1>9 DEF IInv

LEMMA CallbackCopyInv ==
  ASSUME ~DropRaces, IInv, CallbackCopy
  PROVE  IInv'
<1> DEFINE slot == Slot(write_pos, w_copied)
<1> USE DEF CallbackCopy, reader, history
<1>1. /\ w = write_pos /\ write_pos \in Pos /\ read_pos \in Pos
      /\ w_count \in 0..MaxCount /\ w_copied \in 0..RingSize-1
      /\ Held \in 0..RingSize /\ Held + w_count <= RingSize
      /\ written \in Nat /\ head \in Nat /\ w_copied < w_count
  BY IInvFacts, Sizes DEF IInv, TypeOK, WriterInv
<1>2. slot \in Slots /\ ring \in [Slots -> Nat]
  BY <1>1, SlotRange DEF IInv, TypeOK
<1>3. ring' = [ring EXCEPT ![slot] = written + w_copied + 1]
  BY <1>1
<1>4. TypeOK'
  BY <1>1, <1>2, <1>3, Sizes DEF IInv, TypeOK
<1>5. OccupancyBounded' /\ CountInv' /\ Held' = Held
  BY DEF IInv, OccupancyBounded, CountInv, Held
<1>6. RingInv'
  <2> SUFFICES ASSUME NEW k \in 0..Held-1
               PROVE  ring'[Slot(read_pos, k)] = head + k + 1
    BY <1>5 DEF RingInv
  <2>1. slot = Slot(read_pos, Held + w_copied)
    <3>1. w_copied \in Nat /\ Held + w_copied < RingSize
      BY <1>1, Sizes
    <3>2. write_pos = Add(read_pos, Held)
      BY IInvFacts
    <3> QED  BY <1>1, <3>1, <3>2, SlotShift
  <2>2. k \in 0..RingSize-1 /\ Held + w_copied \in 0..RingSize-1 /\ k # Held + w_copied
    BY <1>1, Sizes
  <2>3. Slot(read_pos, k) # slot /\ Slot(read_pos, k) \in Slots
    BY <1>1, <2>1, <2>2, SlotInjective, SlotRange
  <2> QED  BY <1>2, <1>3, <2>3 DEF IInv, RingInv
<1>7. WriterInv'
  <2> SUFFICES ASSUME NEW k \in 0..w_copied
               PROVE  ring'[Slot(write_pos, k)] = written + k + 1
    BY <1>1, <1>5 DEF IInv, WriterInv
  <2>1. k \in 0..RingSize-1
    BY <1>1, Sizes
  <2>2. CASE k = w_copied
    BY <2>2, <1>2, <1>3
  <2>3. CASE k # w_copied
    <3>1. Slot(write_pos, k) # slot /\ Slot(write_pos, k) \in Slots
      BY <1>1, <2>1, <2>3, SlotInjective, SlotRange
    <3>2. ring[Slot(write_pos, k)] = written + k + 1
      BY <1>1, <2>3 DEF IInv, WriterInv
    <3> QED  BY <3>1, <3>2, <1>2, <1>3
  <2> QED  BY <2>2, <2>3
<1>8. ReaderInv'
  BY <1>5 DEF IInv, ReaderInv, Reading, Dropping
<1> QED  BY <1>4, <1>5, <1>6, <1>7, <1>8 DEF IInv

LEMMA CallbackPublishInv ==
  ASSUME ~DropRaces, IInv, CallbackPublish
  PROVE  IInv'
<1> USE DEF CallbackPublish, reader
<1>1. /\ w = write_pos /\ write_pos \in Pos /\ read_pos \in Pos
      /\ w_count \in 0..RingSize /\ w_copied = w_count
      /\ Held \in 0..RingSize /\ Held + w_count <= RingSize
      /\ written \in Nat /\ head \in Nat
      /\ Sub(write_pos, read_pos) = Held
  BY IInvFacts, Sizes DEF IInv, TypeOK, WriterInv, OccupancyBounded, Held
<1>2. Held' = Held + w_count
  BY <1>1 DEF Held
<1>3. write_pos' \in Pos /\ Sub(write_pos', read_pos) = Held'
  BY <1>1, <1>2, SubAdd, Sizes
<1>4. TypeOK'
  BY <1>1, <1>3, Sizes DEF IInv, TypeOK
<1>5. OccupancyBounded' /\ CountInv'
  BY <1>1, <1>2, <1>3 DEF IInv, OccupancyBounded, CountInv, Held
<1>6. RingInv'
  <2> SUFFICES ASSUME NEW k \in 0..Held'-1
               PROVE  ring[Slot(read_pos, k)] = head + k + 1
    BY DEF RingInv
  <2>1. CASE k < Held
    BY <2>1, <1>1, <1>2 DEF IInv, RingInv
  <2>2. CASE k >= Held
    <3> DEFINE j == k - Held
    <3>1. j \in 0..w_count-1 /\ j \in Nat /\ Held + j < RingSize /\ k = Held + j
      BY <2>2, <1>1, <1>2, Sizes
    <3>2. Slot(write_pos, j) = Slot(read_pos, k)
      BY <3>1, <1>1, IInvFacts, SlotShift
    <3>3. ring[Slot(write_pos, j)] = written + j + 1
      BY <3>1, <1>1 DEF IInv, WriterInv
    <3>4. written + j = head + k
      BY <3>1, <1>1, IInvFacts
    <3> QED  BY <3>2, <3>3, <3>4
  <2> QED  BY <2>1, <2>2, <1>1, <1>2
<1>7. WriterInv'
  BY DEF WriterInv
<1>8. ReaderInv'
  BY <1>1, <1>2, Sizes DEF IInv, ReaderInv, Reading, Dropping, TypeOK, Sub, Pos
<1> QED  BY <1>4, <1>5, <1>6, <1>7, <1>8 DEF IInv

\* The steps that touch neither the ring nor the positions.
LEMMA NotifyInv ==
  ASSUME ~DropRaces, IInv, CallbackNotify \/ CloseSet \/ CloseNotify
  PROVE  IInv'
<1> USE DEF CallbackNotify, CloseSet, CloseNotify, shared, writer, reader, history
<1>1. TypeOK'
  <2>1. pipe' \in 0..PipeCap
    BY BridgeAssumption DEF IInv, TypeOK, WakeReader, Least
  <2> QED  BY <2>1 DEF IInv, TypeOK
<1>2. OccupancyBounded' /\ RingInv' /\ CountInv'
  BY DEF IInv, OccupancyBounded, RingInv, CountInv, Held
<1>3. WriterInv' /\ ReaderInv'
  BY DEF IInv, WriterInv, ReaderInv, Held, Reading, Dropping
<1> QED  BY <1>1, <1>2, <1>3 DEF IInv

LEMMA ReadLoadInv ==
  ASSUME ~DropRaces, IInv,
         \/ \E max \in 1..MaxRead : ReadEnter(max)
         \/ ReadLoadWrite \/ ReadLoadRead \/ ReadCheckClosed
         \/ ReadWake \/ ReadInterrupted
  PROVE  IInv'
<1> USE DEF ReadEnter, ReadLoadWrite, ReadLoadRead, ReadCheckClosed, ReadWake,
            ReadInterrupted, shared, writer, history
<1>1. TypeOK'
  <2>1. pipe' \in 0..PipeCap
    BY BridgeAssumption DEF IInv, TypeOK, Least
  <2>2. r_n' \in 0..MaxRead /\ r_max' \in 1..MaxRead
    <3>1. Sub(r_w, read_pos) \in Nat
      BY SubAdd, Sizes DEF IInv, TypeOK, Pos
    <3>2. Least(Sub(r_w, read_pos), r_max) \in 0..MaxRead
      BY <3>1, Sizes DEF IInv, TypeOK, Least
    <3> QED  BY <3>2 DEF IInv, TypeOK
  <2>3. r_w' \in Pos /\ r' \in Pos /\ dst' \in Seq(Nat)
    <3>1. r_w \in Pos /\ r \in Pos /\ write_pos \in Pos /\ read_pos \in Pos /\ dst \in Seq(Nat)
      BY DEF IInv, TypeOK
    <3>2. << >> \in Seq(Nat)
      OBVIOUS
    <3> QED  BY <3>1, <3>2
  <2> QED  BY <2>1, <2>2, <2>3 DEF IInv, TypeOK
<1>2. OccupancyBounded' /\ RingInv' /\ CountInv' /\ Held' = Held
  BY DEF IInv, OccupancyBounded, RingInv, CountInv, Held
<1>3. WriterInv'
  BY <1>2 DEF IInv, WriterInv
<1>4. Reading' => ~Dropping'
  BY DEF IInv, ReaderInv, ReaderMayLoad, Reading, Dropping
<1>5. rpc' = "load_r" => Sub(r_w', read_pos') <= Held'
  BY <1>2, IInvFacts, Sizes DEF IInv, OccupancyBounded, Held
<1>6. rpc' # "copy" => dst' = << >>
  BY DEF IInv, ReaderInv
<1>7. rpc' = "copy" =>
        /\ r' = read_pos' /\ 0 < r_n' /\ r_n' <= Held' /\ dst' = << >>
  <2> SUFFICES ASSUME rpc' = "copy"
               PROVE  r' = read_pos' /\ 0 < r_n' /\ r_n' <= Held' /\ dst' = << >>
    OBVIOUS
  <2>1. ReadLoadRead
    OBVIOUS
  <2>2. Sub(r_w, read_pos) \in 1..Held
    <3>1. Sub(r_w, read_pos) \in Nat /\ Held \in Nat
      <4>1. r_w \in Pos /\ read_pos \in Pos
        BY DEF IInv, TypeOK
      <4>2. Sub(r_w, read_pos) \in Nat
        BY <4>1, Sizes DEF Sub, Pos
      <4> QED  BY <4>2, IInvFacts
    <3>2. Sub(r_w, read_pos) <= Held
      BY <2>1 DEF IInv, ReaderInv
    <3> QED  BY <2>1, <3>1, <3>2
  <2>3. r_max \in 1..MaxRead /\ Held \in Nat
    BY IInvFacts DEF IInv, TypeOK
  <2> QED  BY <2>1, <2>2, <2>3, <1>2, Sizes DEF IInv, ReaderInv, Least
<1>8. ReaderInv'
  <2>1. dst' = << >> => Len(dst') = 0 /\ 1..Len(dst') = {}
    OBVIOUS
  <2>2. rpc' = "copy" => Len(dst') <= r_n' /\ \A i \in 1..Len(dst') : dst'[i] = head' + i
    BY <2>1, <1>1, <1>7, Sizes DEF TypeOK
  <2> QED  BY <2>2, <1>4, <1>5, <1>6, <1>7 DEF ReaderInv
<1> QED  BY <1>1, <1>2, <1>3, <1>8 DEF IInv

\* What bridge_read finds in the slot it copies next.
LEMMA ReadCopyValue ==
  ASSUME IInv, ReadCopy
  PROVE  ring[Slot(r, Len(dst))] = head + Len(dst) + 1 /\ Len(dst) + 1 <= r_n
<1>1. /\ r = read_pos /\ Len(dst) \in Nat /\ r_n \in Nat /\ Len(dst) < r_n
      /\ r_n <= Held /\ Held \in Nat
  BY IInvFacts DEF IInv, ReaderInv, TypeOK, ReadCopy
<1>2. Len(dst) \in 0..Held-1
  BY <1>1
<1> QED  BY <1>1, <1>2 DEF IInv, RingInv

LEMMA ReadCopyInv ==
  ASSUME ~DropRaces, IInv, ReadCopy
  PROVE  IInv'
<1> DEFINE v == ring[Slot(r, Len(dst))]
<1> USE DEF ReadCopy, shared, writer, history
<1>1. v = head + Len(dst) + 1 /\ Len(dst) + 1 <= r_n
  BY ReadCopyValue
<1>2. dst \in Seq(Nat) /\ head \in Nat /\ Len(dst) \in Nat /\ v \in Nat
  BY <1>1 DEF IInv, TypeOK
<1>3. dst' = Append(dst, v)
  OBVIOUS
<1> HIDE DEF v
<1>4. dst' \in Seq(Nat) /\ Len(dst') = Len(dst) + 1
  BY <1>2, <1>3
<1>5. TypeOK'
  BY <1>4 DEF IInv, TypeOK
<1>6. OccupancyBounded' /\ RingInv' /\ CountInv' /\ Held' = Held
  BY DEF IInv, OccupancyBounded, RingInv, CountInv, Held
<1>7. WriterInv'
  BY <1>6 DEF IInv, WriterInv
<1>8. \A i \in 1..Len(dst') : dst'[i] = head + i
  <2> SUFFICES ASSUME NEW i \in 1..Len(dst') PROVE dst'[i] = head + i
    OBVIOUS
  <2>1. CASE i = Len(dst) + 1
    BY <2>1, <1>1, <1>2, <1>3
  <2>2. CASE i # Len(dst) + 1
    <3>1. i \in 1..Len(dst)
      BY <2>2, <1>2, <1>4
    <3>2. dst[i] = head + i
      BY <3>1 DEF IInv, ReaderInv
    <3>3. dst'[i] = dst[i]
      BY <3>1, <1>2, <1>3
    <3> QED  BY <3>2, <3>3
  <2> QED  BY <2>1, <2>2
<1>9. ReaderInv'
  BY <1>1, <1>4, <1>6, <1>8 DEF IInv, ReaderInv, Reading, Dropping
<1> QED  BY <1>5, <1>6, <1>7, <1>9 DEF IInv

LEMMA ReadReturnInv ==
  ASSUME ~DropRaces, IInv, ReadReturn
  PROVE  IInv'
<1> USE DEF ReadReturn, writer
<1>1. /\ r = read_pos /\ read_pos \in Pos /\ write_pos \in Pos
      /\ Held \in 0..RingSize /\ r_n \in 1..Held
      /\ head \in Nat /\ written = head + Held /\ Sub(write_pos, read_pos) = Held
  <2>1. r_n \in Nat /\ 0 < r_n /\ r_n <= Held
    BY DEF IInv, TypeOK, ReaderInv
  <2> QED  BY <2>1, IInvFacts DEF IInv, ReaderInv, TypeOK, OccupancyBounded, Held
<1>2. Held' = Held - r_n
  BY <1>1 DEF Held
<1>3. r_n \in 0..RingSize
  BY <1>1, Sizes
<1>4. read_pos' \in Pos /\ Sub(write_pos, read_pos') = Held'
  BY <1>1, <1>2, <1>3, SubAdd
<1>5. TypeOK'
  <2>1. out' \in Seq(Nat) /\ dst' \in Seq(Nat) /\ head' \in Nat
    BY <1>1 DEF IInv, TypeOK
  <2> QED  BY <2>1, <1>4 DEF IInv, TypeOK
<1>6. OccupancyBounded' /\ CountInv'
  BY <1>1, <1>2, <1>4, Sizes DEF IInv, OccupancyBounded, CountInv, Held
<1>7. RingInv'
  <2> SUFFICES ASSUME NEW k \in 0..Held'-1
               PROVE  ring[Slot(read_pos', k)] = head' + k + 1
    BY DEF RingInv
  <2>1. k \in Nat /\ r_n + k \in 0..Held-1 /\ r_n + k < RingSize
    BY <1>1, <1>2, Sizes
  <2>2. Slot(read_pos', k) = Slot(read_pos, r_n + k)
    BY <1>1, <1>3, <2>1, SlotShift
  <2>3. ring[Slot(read_pos, r_n + k)] = head + (r_n + k) + 1
    BY <2>1 DEF IInv, RingInv
  <2> QED  BY <1>1, <2>1, <2>2, <2>3
<1>8. WriterInv'
  <2>1. wpc # "drop"
    BY IInvFacts DEF IInv, ReaderInv, WriterInv, Reading
  <2>2. w_count \in Nat
    BY DEF IInv, TypeOK
  <2> QED  BY <1>1, <1>2, <2>1, <2>2, Sizes DEF IInv, WriterInv
<1>9. ReaderInv'
  BY DEF ReaderInv, Reading
<1> QED  BY <1>5, <1>6, <1>7, <1>8, <1>9 DEF IInv

\* IInv is inductive when drops and reads do not overlap.
LEMMA NextIInv ==
  ASSUME ~DropRaces, IInv, [Next]_vars
  PROVE  IInv'
<1>1. CASE \E count \in 1..MaxCount : CallbackEnter(count)
  BY <1>1, CallbackEnterInv
<1>2. CASE CallbackStep
  BY <1>2, CallbackLoadInv, CallbackDropInv, CallbackCopyInv, CallbackPublishInv,
     NotifyInv DEF CallbackStep
<1>3. CASE \E max \in 1..MaxRead : ReadEnter(max)
  BY <1>3, ReadLoadInv
<1>4. CASE ReadStep \/ ReadInterrupted
  BY <1>4, ReadLoadInv, ReadCopyInv, ReadReturnInv DEF ReadStep
<1>5. CASE CloseSet \/ CloseNotify
  BY <1>5, NotifyInv
<1>6. CASE UNCHANGED vars
  <2> USE <1>6 DEF vars, shared, writer, reader, history
  <2>1. TypeOK' /\ OccupancyBounded' /\ RingInv' /\ CountInv'
    BY DEF IInv, TypeOK, OccupancyBounded, RingInv, CountInv, Held
  <2>2. WriterInv' /\ ReaderInv'
    BY DEF IInv, WriterInv, ReaderInv, Held, Reading, Dropping
  <2> QED  BY <2>1, <2>2 DEF IInv
<1> QED  BY <1>1, <1>2, <1>3, <1>4, <1>5, <1>6 DEF Next

\* The inductive invariant of the ring holds in every behaviour.
THEOREM RingIsSound ==
  ASSUME ~DropRaces
  PROVE  Spec => []IInv
<1>1. Init => IInv
  BY InitIInv
<1>2. IInv /\ [Next]_vars => IInv'
  BY NextIInv
<1> QED  BY <1>1, <1>2, PTL DEF Spec

\* bridge_read copies exactly the oldest unread samples.
THEOREM ExactDeliveryHolds ==
  ASSUME ~DropRaces
  PROVE  Spec => []ExactDelivery
<1>1. IInv => ExactDelivery
  BY DEF IInv, ReaderInv, ExactDelivery
<1> QED  BY <1>1, RingIsSound, PTL

\* The positions tell the true occupancy, and it never exceeds the ring.
THEOREM OccupancyHolds ==
  ASSUME ~DropRaces
  PROVE  Spec => []OccupancyBounded
<1>1. IInv => OccupancyBounded
  BY DEF IInv
<1> QED  BY <1>1, RingIsSound, PTL

-----------------------------------------------------------------------------
(* What holds whether or not drops and reads overlap.                      *)

\* A callback that drops has counted more samples than free slots.
DropInv == wpc = "drop" => w_count > Avail(w, w_r)

LEMMA TypeInductive ==
  ASSUME TypeOK, DropInv, [Next]_vars
  PROVE  TypeOK' /\ DropInv'
<1> USE DEF shared, writer, reader, history, DropInv
<1>0. \A p, q \in Pos : Sub(p, q) \in Pos /\ Avail(p, q) \in Pos
  BY Sizes DEF Sub, Avail, Pos
<1>1. CASE \E count \in 1..MaxCount : CallbackEnter(count)
  BY <1>1, Sizes DEF CallbackEnter, TypeOK
<1>2. CASE CallbackLoad
  BY <1>2, Sizes DEF CallbackLoad, TypeOK
<1>3. CASE CallbackDrop
  <2> DEFINE excess == w_count - Avail(w, w_r)
  <2>1. excess \in 0..RingSize
    <3>1. Avail(w, w_r) \in Nat
      BY <1>0 DEF TypeOK, Pos
    <3>2. w_count \in Nat /\ w_count <= RingSize /\ w_count > Avail(w, w_r)
      BY <1>3, Sizes DEF TypeOK, CallbackDrop
    <3> QED  BY <3>1, <3>2, Sizes
  <2>2. read_pos' \in Pos /\ head' \in Nat
    BY <1>3, <2>1, SubAdd, AddRem DEF CallbackDrop, TypeOK
  <2> QED  BY <1>3, <2>2 DEF CallbackDrop, TypeOK
<1>4. CASE CallbackCopy
  <2>1. /\ w \in Pos /\ w_copied \in 0..RingSize-1 /\ w_copied' \in 0..MaxCount
        /\ written + w_copied + 1 \in Nat
    BY <1>4, Sizes DEF CallbackCopy, TypeOK
  <2>2. ring' \in [Slots -> Nat]
    BY <1>4, <2>1, SlotRange DEF CallbackCopy, TypeOK
  <2> QED  BY <1>4, <2>1, <2>2 DEF CallbackCopy, TypeOK
<1>5. CASE CallbackPublish
  <2>1. w_count \in 0..RingSize /\ w \in Pos
    BY Sizes DEF TypeOK
  <2>2. write_pos' \in Pos /\ written' \in Nat
    BY <1>5, <2>1, AddRem DEF CallbackPublish, TypeOK
  <2> QED  BY <1>5, <2>2 DEF CallbackPublish, TypeOK
<1>6. CASE CallbackNotify \/ CloseSet \/ CloseNotify
  <2> USE DEF CallbackNotify, CloseSet, CloseNotify
  <2>1. pipe' \in 0..PipeCap
    BY <1>6, BridgeAssumption DEF WakeReader, Least, TypeOK
  <2> QED  BY <1>6, <2>1 DEF TypeOK
<1>7. CASE \E max \in 1..MaxRead : ReadEnter(max)
  BY <1>7 DEF ReadEnter, TypeOK
<1>8. CASE ReadLoadWrite \/ ReadCheckClosed \/ ReadInterrupted
  BY <1>8 DEF ReadLoadWrite, ReadCheckClosed, ReadInterrupted, TypeOK
<1>9. CASE ReadLoadRead
  <2>1. Sub(r_w, read_pos) \in Nat /\ r_max \in 1..MaxRead
    BY <1>0 DEF TypeOK, Pos
  <2>2. r_n' \in 0..MaxRead
    BY <1>9, <2>1, Sizes DEF ReadLoadRead, Least
  <2> QED  BY <1>9, <2>2 DEF ReadLoadRead, TypeOK
<1>10. CASE ReadCopy
  <2>1. Len(dst) \in 0..RingSize-1 /\ r \in Pos
    BY <1>10, Sizes DEF ReadCopy, TypeOK
  <2>2. ring[Slot(r, Len(dst))] \in Nat
    BY <2>1, SlotRange DEF TypeOK
  <2> QED  BY <1>10, <2>2 DEF ReadCopy, TypeOK
<1>11. CASE ReadReturn
  <2>1. r_n \in 0..RingSize /\ r \in Pos /\ head \in Nat
    BY Sizes DEF TypeOK
  <2>2. read_pos' \in Pos /\ head' \in Nat /\ << >> \in Seq(Nat)
    BY <1>11, <2>1, AddRem DEF ReadReturn
  <2> QED  BY <1>11, <2>2 DEF ReadReturn, TypeOK
<1>12. CASE ReadWake
  <2>1. pipe' \in 0..PipeCap
    BY <1>12, BridgeAssumption DEF ReadWake, Least, TypeOK
  <2> QED  BY <1>12, <2>1 DEF ReadWake, TypeOK
<1>13. CASE UNCHANGED vars
  BY <1>13 DEF vars, TypeOK
<1> QED
  BY <1>1, <1>2, <1>3, <1>4, <1>5, <1>6, <1>7, <1>8, <1>9, <1>10, <1>11, <1>12,
     <1>13 DEF Next, CallbackStep, ReadStep

\* Every variable keeps its type; in particular every index stays inside the
\* ring and every position inside its 32 bits, overlapping drops or not.
THEOREM TypesHold == Spec => []TypeOK
<1>1. Init => TypeOK /\ DropInv
  <2>1. Init => TypeOK
    BY InitIInv DEF IInv
  <2> QED  BY <2>1 DEF Init, DropInv
<1>2. TypeOK /\ DropInv /\ [Next]_vars => (TypeOK /\ DropInv)'
  BY TypeInductive
<1> QED  BY <1>1, <1>2, PTL DEF Spec

LEMMA WakeInductive ==
  ASSUME TypeOK, WakeInv, [Next]_vars
  PROVE  WakeInv'
<1> USE DEF WakeInv, shared, writer, reader, history
<1>1. CASE \E count \in 1..MaxCount : CallbackEnter(count)
  BY <1>1 DEF CallbackEnter
<1>2. CASE CallbackLoad \/ CallbackDrop \/ CallbackCopy \/ CallbackPublish
  BY <1>2 DEF CallbackLoad, CallbackDrop, CallbackCopy, CallbackPublish
<1>3. CASE CallbackNotify \/ CloseNotify
  <2>1. pipe' > 0
    BY <1>3, BridgeAssumption DEF CallbackNotify, CloseNotify, WakeReader, Least, TypeOK
  <2> QED  BY <1>3, <2>1 DEF CallbackNotify, CloseNotify
<1>4. CASE CloseSet
  BY <1>4 DEF CloseSet
<1>5. CASE \/ \E max \in 1..MaxRead : ReadEnter(max)
           \/ ReadLoadWrite \/ ReadCheckClosed \/ ReadWake \/ ReadInterrupted
  BY <1>5 DEF ReadEnter, ReadLoadWrite, ReadCheckClosed, ReadWake, ReadInterrupted, TypeOK
<1>6. CASE ReadLoadRead
  <2>1. rpc' = "check_closed" => r_w = read_pos
    BY <1>6, Sizes DEF ReadLoadRead, Sub, TypeOK, Pos
  <2> QED  BY <1>6, <2>1 DEF ReadLoadRead
<1>7. CASE ReadCopy \/ ReadReturn
  BY <1>7 DEF ReadCopy, ReadReturn
<1>8. CASE UNCHANGED vars
  BY <1>8 DEF vars
<1> QED
  BY <1>1, <1>2, <1>3, <1>4, <1>5, <1>6, <1>7, <1>8 DEF Next, CallbackStep, ReadStep

\* The bytes in the pipe and the states of callback and reader account for
\* every wake-up.
THEOREM WakeInvHolds == Spec => []WakeInv
<1>1. Init => WakeInv
  BY DEF Init, WakeInv
<1>2. TypeOK /\ WakeInv /\ [Next]_vars => WakeInv'
  BY WakeInductive
<1> QED  BY <1>1, <1>2, TypesHold, PTL DEF Spec

\* No reader sleeps on data or on a close, overlapping drops or not.
THEOREM NoLostWakeupHolds == Spec => []NoLostWakeup
<1>1. TypeOK /\ WakeInv => NoLostWakeup
  BY DEF TypeOK, WakeInv, NoLostWakeup
<1> QED  BY <1>1, WakeInvHolds, TypesHold, PTL

-----------------------------------------------------------------------------
(* The ring implements the stream.                                         *)

LEMMA InitRefines == Init => Stream!SInit
  BY DEF Init, Stream!SInit

\* A callback makes room: Reserve, with or without a drop.
LEMMA ReserveRefines ==
  ASSUME ~DropRaces, IInv, CallbackLoad \/ CallbackDrop
  PROVE  [Stream!SNext]_(Stream!svars)
<1> USE DEF CallbackLoad, CallbackDrop, shared, reader, history
<1>1. /\ Held \in 0..RingSize /\ written = head + Held /\ head \in Nat
      /\ Avail(write_pos, read_pos) = RingSize - Held
  BY IInvFacts DEF IInv, TypeOK
<1>2. w_count \in 1..RingSize
  BY Sizes DEF IInv, TypeOK, CountInv
<1>3. CASE CallbackLoad /\ wpc' = "drop"
  BY <1>3 DEF Stream!svars
<1>4. CASE CallbackLoad /\ wpc' = "copy"
  <2>1. Stream!Reserve(w_count)
    BY <1>1, <1>2, <1>4, Sizes DEF Stream!Reserve
  <2> QED  BY <2>1, <1>2 DEF Stream!SNext
<1>5. CASE CallbackDrop
  <2>1. head' = written + w_count - RingSize /\ w_count > RingSize - Held
    BY <1>1, <1>2, <1>5, Sizes DEF IInv, WriterInv
  <2>2. Stream!Reserve(w_count)
    BY <1>1, <1>2, <1>5, <2>1, Sizes DEF Stream!Reserve
  <2> QED  BY <2>2, <1>2 DEF Stream!SNext
<1> QED  BY <1>3, <1>4, <1>5

\* A batch leaves: Take.
LEMMA TakeRefines ==
  ASSUME ~DropRaces, IInv, ReadReturn
  PROVE  [Stream!SNext]_(Stream!svars)
<1>1. /\ r_n \in 1..RingSize /\ head + r_n <= written
      /\ dst \in Seq(Nat) /\ Len(dst) = r_n /\ \A i \in 1..Len(dst) : dst[i] = head + i
  <2>1. /\ Held \in 0..RingSize /\ written = head + Held /\ head \in Nat
        /\ r_n \in Nat /\ 0 < r_n /\ r_n <= Held
    BY IInvFacts DEF IInv, ReaderInv, TypeOK, ReadReturn
  <2> QED  BY <2>1, Sizes DEF IInv, ReaderInv, TypeOK, ReadReturn
<1>2. dst = [i \in 1..r_n |-> head + i]
  BY <1>1
<1>3. Stream!Take(r_n)
  BY <1>1, <1>2 DEF Stream!Take, ReadReturn, writer
<1> QED  BY <1>1, <1>3 DEF Stream!SNext

LEMMA StepRefines ==
  ASSUME ~DropRaces, IInv, [Next]_vars
  PROVE  [Stream!SNext]_(Stream!svars)
<1> USE DEF shared, reader, writer, history
<1>1. CASE CallbackPublish
  <2>1. w_count > 0 /\ w_count \in Nat
    BY <1>1 DEF IInv, TypeOK, CountInv, CallbackPublish
  <2>2. Stream!Commit
    BY <1>1, <2>1 DEF CallbackPublish, Stream!Commit
  <2> QED  BY <2>2 DEF Stream!SNext
<1>2. CASE CloseSet
  <2>1. Stream!Close
    BY <1>2 DEF CloseSet, Stream!Close
  <2> QED  BY <2>1 DEF Stream!SNext
<1>3. CASE CallbackLoad \/ CallbackDrop
  BY <1>3, ReserveRefines
<1>4. CASE ReadReturn
  BY <1>4, TakeRefines
<1>5. CASE \/ \E count \in 1..MaxCount : CallbackEnter(count)
           \/ CallbackCopy \/ CallbackNotify
  BY <1>5 DEF CallbackEnter, CallbackCopy, CallbackNotify, Stream!svars
<1>6. CASE \/ \E max \in 1..MaxRead : ReadEnter(max)
           \/ ReadLoadWrite \/ ReadLoadRead \/ ReadCopy \/ ReadCheckClosed
           \/ ReadWake \/ ReadInterrupted
  BY <1>6 DEF ReadEnter, ReadLoadWrite, ReadLoadRead, ReadCopy, ReadCheckClosed,
     ReadWake, ReadInterrupted, Stream!svars
<1>7. CASE CloseNotify \/ UNCHANGED vars
  BY <1>7 DEF CloseNotify, vars, Stream!svars
<1> QED
  BY <1>1, <1>2, <1>3, <1>4, <1>5, <1>6, <1>7 DEF Next, CallbackStep, ReadStep

\* The ring buffer is a drop-oldest bounded stream.
THEOREM RingImplementsStream ==
  ASSUME ~DropRaces
  PROVE  Spec => ImplementsStream
<1>1. IInv /\ [Next]_vars => [Stream!SNext]_(Stream!svars)
  BY StepRefines
<1> QED  BY InitRefines, <1>1, RingIsSound, PTL DEF Spec, ImplementsStream, Stream!SSpec
=============================================================================
