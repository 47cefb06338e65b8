------------------------------- MODULE Bridge -------------------------------
(***************************************************************************)
(* The ring buffer between the audio thread and the Go reader              *)
(* (go/bridge.c), one step per access to shared memory: the loads and      *)
(* stores of write_pos, read_pos and closed, every sample of a memcpy, and *)
(* every system call on the self-pipe.                                     *)
(*                                                                         *)
(* Three actors: the audio thread in bridge_callback, one reader in        *)
(* bridge_read, and the thread that calls bridge_close.  A sample is       *)
(* represented by its number: the n-th sample the device delivers is n,    *)
(* and 0 is the zeroed memory of calloc.                                   *)
(***************************************************************************)
EXTENDS Integers, Sequences

CONSTANTS
  RingSize,    \* RING_SIZE, in samples
  PosRange,    \* number of values of a uint32_t position (2^32 in the code)
  MaxCount,    \* longest callback, in samples
  MaxRead,     \* largest max_floats of a read
  PipeCap,     \* bytes the self-pipe holds before write() gives EAGAIN
  DrainSize,   \* bytes one read() of the self-pipe takes (sizeof buf)
  DropRaces,   \* may a callback that has to drop overlap a bridge_read?
  MaxSamples   \* bound: samples the device delivers in a behaviour

ASSUME BridgeAssumption ==
  /\ RingSize \in Nat \ {0}
  /\ PosRange \in Nat /\ \E laps \in 2..PosRange : PosRange = laps * RingSize
  /\ MaxCount \in 1..RingSize      \* the copy wraps at most once
  /\ MaxRead \in 1..RingSize
  /\ PipeCap \in Nat \ {0}
  /\ DrainSize \in Nat \ {0}
  /\ DropRaces \in BOOLEAN
  /\ MaxSamples \in Nat

VARIABLES
  \* struct bridge_state
  ring, write_pos, read_pos, closed, pipe,
  \* bridge_callback
  wpc, w_count, w, w_r, w_copied,
  \* bridge_read
  rpc, r_max, r_w, r, r_n, dst,
  \* bridge_close
  cpc,
  \* history: samples published, samples returned or dropped, and the
  \* samples the last bridge_read returned
  written, head, out

shared == <<ring, write_pos, read_pos, closed, pipe>>
writer == <<wpc, w_count, w, w_r, w_copied>>
reader == <<rpc, r_max, r_w, r, r_n, dst>>
history == <<written, head, out>>
vars == <<shared, writer, reader, cpc, history>>

-----------------------------------------------------------------------------
(* uint32_t arithmetic, and the slot the k-th sample of a copy that starts *)
(* at position p touches: two memcpys, the second from slot 0.             *)

Pos == 0 .. PosRange - 1
Slots == 0 .. RingSize - 1

\* Mutant: the sum keeps growing instead of wrapping.
AddWithoutWrap(p, n) == p + n

Add(p, n) == IF p + n < PosRange THEN p + n ELSE p + n - PosRange
Sub(p, q) == IF p >= q THEN p - q ELSE p - q + PosRange

Slot(p, k) ==
  LET pos == p % RingSize
  IN  IF pos + k < RingSize THEN pos + k ELSE pos + k - RingSize

Least(a, b) == IF a < b THEN a ELSE b

\* Free slots as the two positions tell them.
Avail(p, q) == Sub(RingSize, Sub(p, q))

WakeReader == pipe' = Least(pipe + 1, PipeCap)

-----------------------------------------------------------------------------
Init ==
  /\ ring = [s \in Slots |-> 0]
  /\ write_pos = 0 /\ read_pos = 0 /\ closed = FALSE /\ pipe = 0
  /\ wpc = "idle" /\ w_count = 0 /\ w = 0 /\ w_r = 0 /\ w_copied = 0
  /\ rpc = "idle" /\ r_max = 1 /\ r_w = 0 /\ r = 0 /\ r_n = 0 /\ dst = << >>
  /\ cpc = "open"
  /\ written = 0 /\ head = 0 /\ out = << >>

(***************************************************************************)
(* With DropRaces = FALSE the environment keeps two things apart: a read   *)
(* that is between its first load and its store of read_pos, and a         *)
(* callback that has to drop samples and has not yet stored read_pos.      *)
(***************************************************************************)
Reading == rpc \in {"load_w", "load_r", "copy"}
Dropping == wpc \in {"load", "drop"} /\ w_count > Avail(write_pos, read_pos)

ReaderMayLoad == DropRaces \/ ~Dropping
CallbackMayRun(count) == DropRaces \/ ~Reading \/ count <= Avail(write_pos, read_pos)

-----------------------------------------------------------------------------
(* bridge_callback, on the audio thread.                                   *)

\* The device delivers count samples.  After bridge_close the callback
\* returns at once and changes nothing.
CallbackEnter(count) ==
  /\ wpc = "idle" /\ ~closed
  /\ written + count <= MaxSamples
  /\ CallbackMayRun(count)
  /\ wpc' = "load" /\ w_count' = count
  /\ UNCHANGED <<shared, w, w_r, w_copied, reader, cpc, history>>

\* Mutant: a full ring is never made room in.
CallbackLoadNeverDrops ==
  /\ wpc = "load"
  /\ w' = write_pos /\ w_r' = read_pos /\ w_copied' = 0
  /\ wpc' = "copy"
  /\ UNCHANGED <<shared, w_count, reader, cpc, history>>

\* Both positions are loaded; only this thread stores write_pos.
CallbackLoad ==
  /\ wpc = "load"
  /\ w' = write_pos /\ w_r' = read_pos /\ w_copied' = 0
  /\ wpc' = IF w_count > Avail(write_pos, read_pos) THEN "drop" ELSE "copy"
  /\ UNCHANGED <<shared, w_count, reader, cpc, history>>

\* Mutant: one sample too few is dropped.
CallbackDropOneShort ==
  /\ wpc = "drop"
  /\ LET excess == w_count - Avail(w, w_r) - 1
     IN  read_pos' = Add(w_r, excess) /\ head' = head + excess
  /\ wpc' = "copy"
  /\ UNCHANGED <<ring, write_pos, closed, pipe, w_count, w, w_r, w_copied,
                 reader, cpc, written, out>>

\* Mutant: everything unread is dropped.
CallbackDropAll ==
  /\ wpc = "drop"
  /\ read_pos' = w /\ head' = written
  /\ wpc' = "copy"
  /\ UNCHANGED <<ring, write_pos, closed, pipe, w_count, w, w_r, w_copied,
                 reader, cpc, written, out>>

\* Drop the oldest samples: read_pos is stored by the audio thread too.
CallbackDrop ==
  /\ wpc = "drop"
  /\ LET excess == w_count - Avail(w, w_r)
     IN  read_pos' = Add(w_r, excess) /\ head' = head + excess
  /\ wpc' = "copy"
  /\ UNCHANGED <<ring, write_pos, closed, pipe, w_count, w, w_r, w_copied,
                 reader, cpc, written, out>>

\* Mutant: the second memcpy starts at samples, not at samples + first.
CallbackCopyRestarts ==
  /\ wpc = "copy" /\ w_copied < w_count
  /\ LET first == RingSize - (w % RingSize)
     IN  ring' = [ring EXCEPT ![Slot(w, w_copied)] =
                    written + 1 + (IF w_copied < first THEN w_copied ELSE w_copied - first)]
  /\ w_copied' = w_copied + 1
  /\ UNCHANGED <<write_pos, read_pos, closed, pipe, wpc, w_count, w, w_r,
                 reader, cpc, history>>

CallbackCopy ==
  /\ wpc = "copy" /\ w_copied < w_count
  /\ ring' = [ring EXCEPT ![Slot(w, w_copied)] = written + w_copied + 1]
  /\ w_copied' = w_copied + 1
  /\ UNCHANGED <<write_pos, read_pos, closed, pipe, wpc, w_count, w, w_r,
                 reader, cpc, history>>

\* Mutant: the reader is woken only if the ring was empty when the callback
\* loaded the positions.
CallbackPublishWakesIfEmpty ==
  /\ wpc = "copy" /\ w_copied = w_count
  /\ write_pos' = Add(w, w_count)
  /\ written' = written + w_count
  /\ wpc' = IF w = w_r THEN "notify" ELSE "idle"
  /\ UNCHANGED <<ring, read_pos, closed, pipe, w_count, w, w_r, w_copied,
                 reader, cpc, head, out>>

CallbackPublish ==
  /\ wpc = "copy" /\ w_copied = w_count
  /\ write_pos' = Add(w, w_count)
  /\ written' = written + w_count
  /\ wpc' = "notify"
  /\ UNCHANGED <<ring, read_pos, closed, pipe, w_count, w, w_r, w_copied,
                 reader, cpc, head, out>>

\* Mutant: no byte is written.
CallbackNotifySilent ==
  /\ wpc = "notify"
  /\ wpc' = "idle"
  /\ UNCHANGED <<shared, w_count, w, w_r, w_copied, reader, cpc, history>>

CallbackNotify ==
  /\ wpc = "notify"
  /\ WakeReader
  /\ wpc' = "idle"
  /\ UNCHANGED <<ring, write_pos, read_pos, closed, w_count, w, w_r, w_copied,
                 reader, cpc, history>>

-----------------------------------------------------------------------------
(* bridge_read, on the reader's thread.                                    *)

ReadEnter(max) ==
  /\ rpc = "idle" /\ ReaderMayLoad
  /\ rpc' = "load_w" /\ r_max' = max /\ dst' = << >>
  /\ UNCHANGED <<shared, writer, r_w, r, r_n, cpc, history>>

ReadLoadWrite ==
  /\ rpc = "load_w"
  /\ r_w' = write_pos
  /\ rpc' = "load_r"
  /\ UNCHANGED <<shared, writer, r_max, r, r_n, dst, cpc, history>>

ReadLoadRead ==
  /\ rpc = "load_r"
  /\ r' = read_pos
  /\ r_n' = Least(Sub(r_w, read_pos), r_max)
  /\ rpc' = IF Sub(r_w, read_pos) > 0 THEN "copy" ELSE "check_closed"
  /\ UNCHANGED <<shared, writer, r_max, r_w, dst, cpc, history>>

ReadCopy ==
  /\ rpc = "copy" /\ Len(dst) < r_n
  /\ dst' = Append(dst, ring[Slot(r, Len(dst))])
  /\ UNCHANGED <<shared, writer, rpc, r_max, r_w, r, r_n, cpc, history>>

ReadReturn ==
  /\ rpc = "copy" /\ Len(dst) = r_n
  /\ read_pos' = Add(r, r_n)
  /\ rpc' = "idle"
  /\ head' = head + r_n /\ out' = dst /\ dst' = << >>
  /\ UNCHANGED <<ring, write_pos, closed, pipe, writer, r_max, r_w, r, r_n,
                 cpc, written>>

\* The ring looked empty: 0 (end of stream) if closed, else block.  Readers
\* stop at 0, so "eof" is final.
ReadCheckClosed ==
  /\ rpc = "check_closed"
  /\ rpc' = IF closed THEN "eof" ELSE "block"
  /\ UNCHANGED <<shared, writer, r_max, r_w, r, r_n, dst, cpc, history>>

\* read() on the self-pipe blocks until there is a byte.
ReadWake ==
  /\ rpc = "block" /\ pipe > 0 /\ ReaderMayLoad
  /\ pipe' = pipe - Least(pipe, DrainSize)
  /\ rpc' = "load_w"
  /\ UNCHANGED <<ring, write_pos, read_pos, closed, writer, r_max, r_w, r, r_n,
                 dst, cpc, history>>

\* read() returned EINTR: the loop starts again.
ReadInterrupted ==
  /\ rpc = "block" /\ ReaderMayLoad
  /\ rpc' = "load_w"
  /\ UNCHANGED <<shared, writer, r_max, r_w, r, r_n, dst, cpc, history>>

-----------------------------------------------------------------------------
(* bridge_close, from any thread.                                          *)

CloseSet ==
  /\ cpc = "open"
  /\ closed' = TRUE
  /\ cpc' = "notify"
  /\ UNCHANGED <<ring, write_pos, read_pos, pipe, writer, reader, history>>

\* Mutant: bridge_close leaves a blocked reader alone.
CloseNotifySilent ==
  /\ cpc = "notify"
  /\ cpc' = "done"
  /\ UNCHANGED <<shared, writer, reader, history>>

CloseNotify ==
  /\ cpc = "notify"
  /\ WakeReader
  /\ cpc' = "done"
  /\ UNCHANGED <<ring, write_pos, read_pos, closed, writer, reader, history>>

-----------------------------------------------------------------------------
CallbackStep ==
  CallbackLoad \/ CallbackDrop \/ CallbackCopy \/ CallbackPublish \/ CallbackNotify

ReadStep ==
  \/ ReadLoadWrite \/ ReadLoadRead \/ ReadCopy \/ ReadReturn
  \/ ReadCheckClosed \/ ReadWake

Next ==
  \/ \E count \in 1..MaxCount : CallbackEnter(count)
  \/ CallbackStep
  \/ \E max \in 1..MaxRead : ReadEnter(max)
  \/ ReadStep
  \/ ReadInterrupted
  \/ CloseSet
  \/ CloseNotify

Spec == Init /\ [][Next]_vars

(***************************************************************************)
(* A thread inside a call goes on; a reader calls bridge_read again after  *)
(* every batch (the read loops of the README and of cmd/capture_both).     *)
(* Nothing obliges the device to deliver, a signal to arrive or the user   *)
(* to close.                                                               *)
(***************************************************************************)
FairSpec ==
  /\ Spec
  /\ WF_vars(CallbackStep)
  /\ WF_vars(ReadStep)
  /\ WF_vars(\E max \in 1..MaxRead : ReadEnter(max))
  /\ WF_vars(CloseNotify)

-----------------------------------------------------------------------------
(* Properties.                                                             *)

TypeOK ==
  /\ ring \in [Slots -> Nat]
  /\ write_pos \in Pos /\ read_pos \in Pos
  /\ closed \in BOOLEAN /\ pipe \in 0..PipeCap
  /\ wpc \in {"idle", "load", "drop", "copy", "notify"}
  /\ w_count \in 0..MaxCount /\ w \in Pos /\ w_r \in Pos /\ w_copied \in 0..MaxCount
  /\ rpc \in {"idle", "load_w", "load_r", "copy", "check_closed", "block", "eof"}
  /\ r_max \in 1..MaxRead /\ r_w \in Pos /\ r \in Pos /\ r_n \in 0..MaxRead
  /\ dst \in Seq(Nat) /\ out \in Seq(Nat)
  /\ cpc \in {"open", "notify", "done"}
  /\ written \in Nat /\ head \in Nat

\* The samples a reader gets, within a batch and from one batch to the next,
\* come in the order the device delivered them and none comes twice: what
\* test_concurrent_write_read expects of bridge_callback and bridge_read
\* running at once.
DeliveredInOrder ==
  LET got == out \o dst
  IN  \A i, j \in 1..Len(got) : i < j => got[i] < got[j]

\* The batch bridge_read is copying is exactly the oldest unread samples, with
\* no gap, repetition or torn sample.
ExactDelivery ==
  rpc = "copy" => \A i \in 1..Len(dst) : dst[i] = head + i

\* The wrapped 32-bit positions tell the true number of unread samples, and
\* the ring never holds more than it has room for, so that the subtraction
\* RING_SIZE - (w - r) of bridge_callback cannot underflow.
OccupancyBounded ==
  /\ Sub(write_pos, read_pos) = written - head
  /\ written - head <= RingSize

\* No lost wake-up: when the pipe is empty and no bridge_callback or
\* bridge_close that will still write its byte is under way, a reader about to
\* block has nothing to read and nothing to learn.  A full pipe may swallow a
\* byte.
NoLostWakeup ==
  rpc = "block" /\ pipe = 0 =>
    /\ wpc = "idle" => write_pos = read_pos
    /\ closed => cpc = "notify"

\* Every published sample is eventually returned or dropped, unless the
\* reader was told the end of the stream.
EverySampleLeaves ==
  \A n \in 1..MaxSamples : written >= n ~> (head >= n \/ rpc = "eof")

\* bridge_close unblocks the reader: it gets 0 once the ring looks empty.
CloseUnblocks == closed ~> rpc = "eof"

(***************************************************************************)
(* The ring implements the stream of module SampleStream: room is made     *)
(* when bridge_callback starts to copy, the chunk enters the stream with   *)
(* the store of write_pos, a batch leaves it with the store of read_pos.   *)
(***************************************************************************)
Stream == INSTANCE SampleStream WITH
  Capacity <- RingSize,
  reserved <- IF wpc = "copy" THEN w_count ELSE 0,
  batch <- out

\* Every behaviour of the ring is one of the stream: a batch is the oldest
\* unread samples, and a drop takes the oldest samples and no more of them
\* than the new chunk needs.
ImplementsStream == Stream!SSpec

(***************************************************************************)
(* The inductive invariant behind the properties above.  It relates the    *)
(* contents of the ring to the history: the slots from read_pos on hold    *)
(* the unread samples in order, the slots from write_pos on the part of    *)
(* the chunk that is already copied.                                       *)
(***************************************************************************)
Held == written - head

RingInv == \A k \in 0..Held - 1 : ring[Slot(read_pos, k)] = head + k + 1

CountInv == wpc # "idle" => w_count > 0

WriterInv ==
  /\ wpc \in {"drop", "copy"} => w = write_pos
  /\ wpc = "drop" => w_r = read_pos /\ w_count > RingSize - Held /\ w_copied = 0
  /\ wpc = "copy" =>
       /\ Held + w_count <= RingSize
       /\ w_copied <= w_count
       /\ \A k \in 0..w_copied - 1 : ring[Slot(write_pos, k)] = written + k + 1

ReaderInv ==
  /\ Reading => ~Dropping
  /\ rpc # "copy" => dst = << >>
  /\ rpc = "load_r" => Sub(r_w, read_pos) <= Held
  /\ rpc = "copy" =>
       /\ r = read_pos /\ 0 < r_n /\ r_n <= Held
       /\ Len(dst) <= r_n
       /\ \A i \in 1..Len(dst) : dst[i] = head + i

IInv ==
  TypeOK /\ OccupancyBounded /\ RingInv /\ CountInv /\ WriterInv /\ ReaderInv

\* What NoLostWakeup rests on: from the load of write_pos on, whatever the
\* reader has not seen has a byte in the pipe or one coming.
WakeInv ==
  /\ closed <=> cpc # "open"
  /\ rpc = "load_r" /\ pipe = 0 /\ wpc = "idle" => r_w = write_pos
  /\ rpc \in {"check_closed", "block"} /\ pipe = 0 /\ wpc = "idle" =>
       write_pos = read_pos
  /\ rpc = "block" /\ pipe = 0 => cpc # "done"

=============================================================================
