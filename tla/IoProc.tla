------------------------------- MODULE IoProc -------------------------------
(***************************************************************************)
(* What an IO proc hands to the callback of its tap for one buffer of the  *)
(* device (src/audiotap_mic.c, src/audiotap_system.m).  A buffer has a     *)
(* number of channels, a size in bytes and its interleaved samples, as     *)
(* many whole ones as the bytes hold.  Samples are even numbers, so that   *)
(* the mean of two is exact.                                               *)
(***************************************************************************)
EXTENDS Naturals, Sequences

SizeofFloat == 4

\* A buffer without data is passed over.
Skipped(buf) == buf.bytes = 0

\* Bytes behind the last whole frame are left.
FrameCount(buf) == buf.bytes \div (buf.channels * SizeofFloat)

\* The call of the callback: its samples, frame_count and channels.
CallbackCall(samples, frames, channels) ==
  [samples |-> samples, frames |-> frames, channels |-> channels]

\* Mutant: the channels one after the other.
UpmixPlanar(samples, frames) ==
  [k \in 1..(2 * frames) |-> samples[IF k <= frames THEN k ELSE k - frames]]

Upmix(samples, frames) ==
  [k \in 1..(2 * frames) |-> samples[(k + 1) \div 2]]

Mean(a, b) == (a + b) \div 2

Downmix(samples, frames) ==
  [f \in 1..frames |-> Mean(samples[2 * f - 1], samples[2 * f])]

SystemCall(buf) ==
  CallbackCall(SubSeq(buf.data, 1, FrameCount(buf) * buf.channels), FrameCount(buf), buf.channels)

MicCall(channels, buf) ==
  LET n == FrameCount(buf) IN
    IF buf.channels = 1 /\ channels = 2
    THEN CallbackCall(Upmix(buf.data, n), n, 2)
    ELSE IF buf.channels = 2 /\ channels = 1
         THEN CallbackCall(Downmix(buf.data, n), n, 1)
         ELSE SystemCall(buf)
=============================================================================
