-------------------------- MODULE RecordingProofs --------------------------
(***************************************************************************)
(* Proofs about module Recording, for every device (any cycles of buffers  *)
(* of one or two channels), any number of cycles and any range of a size   *)
(* field: the files outlive the callbacks, and the header of a WAV file    *)
(* describes what follows it.                                              *)
(***************************************************************************)
EXTENDS Recording, Integers, SequenceTheorems, TLAPS

Buffers == [channels : {1, 2}, bytes : Nat, data : Seq(Nat)]

-----------------------------------------------------------------------------
(* What an IO proc hands to a callback, and the callback writes.           *)

LEMMA WrittenProperties ==
  ASSUME NEW samples, NEW frames \in Nat, NEW channels \in {1, 2},
         \A i \in 1..(frames * channels) : samples[i] \in Nat
  PROVE  LET call == CallbackCall(samples, frames, channels) IN
           /\ Written(call) \in Seq(Nat)
           /\ Len(Written(call)) = frames * channels
           /\ \A i \in 1..(frames * channels) : Written(call)[i] = samples[i]
<1> DEFINE n == frames * channels
<1>1. n \in Nat
  BY SMT
<1>2. \A i \in 1..n : samples[i] \in Nat
  OBVIOUS
<1> HIDE DEF n
<1>3. /\ SubSeq(samples, 1, n) \in Seq(Nat) /\ Len(SubSeq(samples, 1, n)) = n
      /\ \A i \in 1..n : SubSeq(samples, 1, n)[i] = samples[i]
  BY <1>1, <1>2, SubSeqProperties, SMT
<1> QED BY <1>3 DEF Written, CallbackCall, n

\* A buffer holds the samples of its frames.
LEMMA FrameCountProperties ==
  ASSUME NEW buf \in Buffers, Len(buf.data) = buf.bytes \div SizeofFloat
  PROVE  /\ FrameCount(buf) \in Nat
         /\ FrameCount(buf) * buf.channels <= Len(buf.data)
         /\ Len(buf.data) \in Nat /\ \A i \in 1..Len(buf.data) : buf.data[i] \in Nat
<1>1. buf.channels \in {1, 2} /\ buf.bytes \in Nat /\ buf.data \in Seq(Nat)
  BY DEF Buffers
<1>2. CASE buf.channels = 1
  BY <1>1, <1>2, SMT DEF FrameCount, SizeofFloat
<1>3. CASE buf.channels = 2
  BY <1>1, <1>3, SMT DEF FrameCount, SizeofFloat
<1> QED BY <1>1, <1>2, <1>3

LEMMA SystemCallProperties ==
  ASSUME NEW buf \in Buffers, Len(buf.data) = buf.bytes \div SizeofFloat
  PROVE  /\ Written(SystemCall(buf)) \in Seq(Nat)
         /\ Len(Written(SystemCall(buf))) = FrameCount(buf) * buf.channels
         /\ \A i \in 1..(FrameCount(buf) * buf.channels) : Written(SystemCall(buf))[i] = buf.data[i]
<1> DEFINE count == FrameCount(buf) * buf.channels
           samples == SubSeq(buf.data, 1, count)
<1>1. buf.channels \in {1, 2} /\ buf.data \in Seq(Nat)
  BY DEF Buffers
<1>2. /\ FrameCount(buf) \in Nat /\ count <= Len(buf.data)
      /\ Len(buf.data) \in Nat /\ \A i \in 1..Len(buf.data) : buf.data[i] \in Nat
  BY FrameCountProperties
<1>3. count \in Nat
  BY <1>1, <1>2, SMT
<1>4. \A i \in 1..count : samples[i] \in Nat /\ samples[i] = buf.data[i]
  <2>1. \A i \in 1..count : buf.data[i] \in Nat
    BY <1>2, <1>3, SMT
  <2> HIDE DEF count
  <2> QED BY <1>3, <2>1, SubSeqProperties, SMT
<1> QED BY <1>1, <1>2, <1>4, WrittenProperties DEF SystemCall

\* Whatever the channels of the device, a microphone's callback gets the
\* channels of the tap.
LEMMA MicCallProperties ==
  ASSUME NEW buf \in Buffers, Len(buf.data) = buf.bytes \div SizeofFloat, NEW channels \in {1, 2}
  PROVE  /\ Written(MicCall(channels, buf)) \in Seq(Nat)
         /\ Len(Written(MicCall(channels, buf))) = FrameCount(buf) * channels
<1> DEFINE n == FrameCount(buf)
<1>1. buf.channels \in {1, 2}
  BY DEF Buffers
<1>2. /\ n \in Nat /\ n * buf.channels <= Len(buf.data)
      /\ Len(buf.data) \in Nat /\ \A i \in 1..Len(buf.data) : buf.data[i] \in Nat
  BY FrameCountProperties
<1>3. CASE buf.channels = 1 /\ channels = 2
  <2>1. \A k \in 1..(n * 2) : Upmix(buf.data, n)[k] \in Nat
    <3> TAKE k \in 1..(n * 2)
    <3>1. (k + 1) \div 2 \in 1..Len(buf.data)
      BY <1>2, <1>3, SMT
    <3>2. k \in 1..(2 * n)
      BY <1>2, SMT
    <3> QED BY <1>2, <3>1, <3>2 DEF Upmix
  <2> QED BY <1>2, <1>3, <2>1, WrittenProperties DEF MicCall
<1>4. CASE buf.channels = 2 /\ channels = 1
  <2>1. \A f \in 1..(n * 1) : Downmix(buf.data, n)[f] \in Nat
    <3> TAKE f \in 1..(n * 1)
    <3>1. 2 * f - 1 \in 1..Len(buf.data) /\ 2 * f \in 1..Len(buf.data) /\ f \in 1..n
      BY <1>2, <1>4, SMT
    <3>2. Mean(buf.data[2 * f - 1], buf.data[2 * f]) \in Nat
      BY <1>2, <3>1, SMT DEF Mean
    <3> QED BY <3>1, <3>2 DEF Downmix
  <2> QED BY <1>2, <1>4, <2>1, WrittenProperties DEF MicCall
<1>5. CASE buf.channels = channels
  BY <1>5, SystemCallProperties DEF MicCall
<1> QED BY <1>1, <1>3, <1>4, <1>5

\* The f-th frame of a buffer lies in it.
LEMMA FrameOfProperties ==
  ASSUME NEW buf \in Buffers, Len(buf.data) = buf.bytes \div SizeofFloat, NEW f \in 1..FrameCount(buf)
  PROVE  /\ Len(FrameOf(buf, f)) = buf.channels
         /\ \A k \in 1..buf.channels : FrameOf(buf, f)[k] = buf.data[(f - 1) * buf.channels + k]
<1>1. /\ buf.channels \in {1, 2} /\ FrameCount(buf) \in Nat
      /\ FrameCount(buf) * buf.channels <= Len(buf.data)
      /\ Len(buf.data) \in Nat /\ \A i \in 1..Len(buf.data) : buf.data[i] \in Nat
  BY FrameCountProperties DEF Buffers
<1> DEFINE m == (f - 1) * buf.channels + 1
           n == f * buf.channels
<1>2. m \in 1..Len(buf.data) /\ n \in 1..Len(buf.data) /\ n = m + buf.channels - 1
  <2>1. CASE buf.channels = 1
    BY <1>1, <2>1, SMT
  <2>2. CASE buf.channels = 2
    BY <1>1, <2>2, SMT
  <2> QED BY <1>1, <2>1, <2>2
<1>3. (f - 1) * buf.channels = m - 1 /\ FrameOf(buf, f) = SubSeq(buf.data, m, n)
  <2>1. (f - 1) * buf.channels \in Int
    BY <1>1, SMT
  <2> QED BY <2>1, SMT DEF FrameOf
<1> HIDE DEF m, n
<1>4. \A i \in m..n : buf.data[i] \in Nat
  BY <1>1, <1>2, SMT
<1>5. /\ Len(SubSeq(buf.data, m, n)) = IF m <= n THEN n - m + 1 ELSE 0
      /\ \A i \in 1..(n - m + 1) : SubSeq(buf.data, m, n)[i] = buf.data[m + i - 1]
  BY <1>2, <1>4, SubSeqProperties, SMT
<1>6. n - m + 1 = buf.channels /\ m <= n
  BY <1>1, <1>2, SMT
<1>7. \A k \in 1..buf.channels : m + k - 1 = (m - 1) + k
  BY <1>1, <1>2, SMT
<1> QED BY <1>3, <1>5, <1>6, <1>7

\* A callback writes the frames of the buffer, each in the channels of the tap.
LEMMA CallConverts ==
  ASSUME NEW buf \in Buffers, Len(buf.data) = buf.bytes \div SizeofFloat,
         NEW x \in Sources, config[x] \in {1, 2}, x = "system" => buf.channels = config[x],
         NEW f \in 1..FrameCount(buf), NEW k \in 1..config[x]
  PROVE  Written(CallFor(x, buf))[(f - 1) * config[x] + k] = Converted(FrameOf(buf, f), config[x])[k]
<1> DEFINE n == FrameCount(buf)
           c == config[x]
<1>1. /\ buf.channels \in {1, 2} /\ n \in Nat /\ n * buf.channels <= Len(buf.data)
      /\ Len(buf.data) \in Nat /\ \A i \in 1..Len(buf.data) : buf.data[i] \in Nat
  BY FrameCountProperties DEF Buffers
<1>2. /\ Len(FrameOf(buf, f)) = buf.channels
      /\ \A j \in 1..buf.channels : FrameOf(buf, f)[j] = buf.data[(f - 1) * buf.channels + j]
  BY FrameOfProperties
<1>3. CASE buf.channels = c
  <2>1. CallFor(x, buf) = SystemCall(buf)
    BY <1>3 DEF CallFor, MicCall
  <2>2. (f - 1) * c + k \in 1..(n * buf.channels)
    <3>1. CASE c = 1
      BY <1>1, <1>3, <3>1, SMT
    <3>2. CASE c = 2
      BY <1>1, <1>3, <3>2, SMT
    <3> QED BY <3>1, <3>2
  <2>3. Written(SystemCall(buf))[(f - 1) * c + k] = buf.data[(f - 1) * c + k]
    BY <2>2, SystemCallProperties
  <2>4. Converted(FrameOf(buf, f), c) = FrameOf(buf, f)
    BY <1>1, <1>2, <1>3, SMT DEF Converted
  <2> QED BY <1>2, <1>3, <2>1, <2>3, <2>4
<1>4. CASE buf.channels = 1 /\ c = 2
  <2>1. CallFor(x, buf) = CallbackCall(Upmix(buf.data, n), n, 2)
    BY <1>4 DEF CallFor, MicCall
  <2>2. \A i \in 1..(n * 2) : Upmix(buf.data, n)[i] \in Nat /\ Upmix(buf.data, n)[i] = buf.data[(i + 1) \div 2]
    <3> TAKE i \in 1..(n * 2)
    <3>1. (i + 1) \div 2 \in 1..Len(buf.data) /\ i \in 1..(2 * n)
      BY <1>1, <1>4, SMT
    <3> QED BY <1>1, <3>1 DEF Upmix
  <2>3. \A i \in 1..(n * 2) : Written(CallFor(x, buf))[i] = buf.data[(i + 1) \div 2]
    BY <1>1, <2>1, <2>2, WrittenProperties
  <2>4. (f - 1) * 2 + k \in 1..(n * 2) /\ ((f - 1) * 2 + k + 1) \div 2 = f /\ k \in {1, 2}
    BY <1>1, <1>4, SMT
  <2>5. Converted(FrameOf(buf, f), c)[k] = FrameOf(buf, f)[1]
    <3>1. Len(FrameOf(buf, f)) = 1 /\ Len(FrameOf(buf, f)) # c
      BY <1>2, <1>4
    <3>2. Converted(FrameOf(buf, f), c) = <<FrameOf(buf, f)[1], FrameOf(buf, f)[1]>>
      <4> HIDE DEF c
      <4> QED BY <1>4, <3>1 DEF Converted
    <3> QED BY <2>4, <3>2
  <2>6. FrameOf(buf, f)[1] = buf.data[f]
    <3>1. (f - 1) * 1 + 1 = f /\ 1 \in 1..1
      BY <1>1, SMT
    <3> QED BY <1>2, <1>4, <3>1
  <2>7. Written(CallFor(x, buf))[(f - 1) * 2 + k] = buf.data[f]
    BY <2>3, <2>4
  <2> QED BY <1>4, <2>5, <2>6, <2>7
<1>5. CASE buf.channels = 2 /\ c = 1
  <2>1. CallFor(x, buf) = CallbackCall(Downmix(buf.data, n), n, 1)
    BY <1>5 DEF CallFor, MicCall
  <2>2. \A i \in 1..(n * 1) : /\ Downmix(buf.data, n)[i] \in Nat
                              /\ Downmix(buf.data, n)[i] = Mean(buf.data[2 * i - 1], buf.data[2 * i])
    <3> TAKE i \in 1..(n * 1)
    <3>1. 2 * i - 1 \in 1..Len(buf.data) /\ 2 * i \in 1..Len(buf.data) /\ i \in 1..n
      BY <1>1, <1>5, SMT
    <3>2. Mean(buf.data[2 * i - 1], buf.data[2 * i]) \in Nat
      BY <1>1, <3>1, SMT DEF Mean
    <3> QED BY <3>1, <3>2 DEF Downmix
  <2>3. \A i \in 1..(n * 1) : Written(CallFor(x, buf))[i] = Mean(buf.data[2 * i - 1], buf.data[2 * i])
    <3> DEFINE samples == Downmix(buf.data, n)
    <3>1. \A i \in 1..(n * 1) : samples[i] \in Nat /\ samples[i] = Mean(buf.data[2 * i - 1], buf.data[2 * i])
      BY <2>2
    <3>2. CallFor(x, buf) = CallbackCall(samples, n, 1) /\ n \in Nat
      BY <1>1, <2>1
    <3> HIDE DEF samples, n
    <3>3. \A i \in 1..(n * 1) : Written(CallbackCall(samples, n, 1))[i] = samples[i]
      BY <3>1, <3>2, WrittenProperties
    <3> QED BY <3>1, <3>2, <3>3
  <2>4. f \in 1..(n * 1) /\ (f - 1) * 1 + k = f /\ k = 1
    BY <1>1, <1>5, SMT
  <2>5. Converted(FrameOf(buf, f), c)[k] = Mean(FrameOf(buf, f)[1], FrameOf(buf, f)[2])
    BY <1>2, <1>5, <2>4, SMT DEF Converted
  <2>6. FrameOf(buf, f)[1] = buf.data[2 * f - 1] /\ FrameOf(buf, f)[2] = buf.data[2 * f]
    <3>1. (f - 1) * 2 + 1 = 2 * f - 1 /\ (f - 1) * 2 + 2 = 2 * f /\ 1 \in 1..2 /\ 2 \in 1..2
      BY <1>1, SMT
    <3> QED BY <1>2, <1>5, <3>1
  <2> QED BY <1>5, <2>3, <2>4, <2>5, <2>6
<1> QED BY <1>1, <1>3, <1>4, <1>5, SMT

\* Whole frames behind whole frames are whole frames.
LEMMA WholeFrames ==
  ASSUME NEW c \in {1, 2}, NEW a \in Nat, NEW n \in Nat, a % c = 0
  PROVE  (a + n * c) % c = 0
<1>1. CASE c = 1
  BY <1>1, SMT
<1>2. CASE c = 2
  BY <1>2, SMT
<1> QED BY <1>1, <1>2

-----------------------------------------------------------------------------
(* The files outlive the callbacks.                                        *)

LEMMA SizeRange == U32 \in Nat /\ U32 > HeaderRest
BY RecordingAssumption

\* A size field of range d holds a number that fits as it is, and a smaller one
\* instead of one that does not.
LEMMA SizeField ==
  ASSUME NEW a \in Nat, NEW d \in Nat, d > 0
  PROVE  /\ a % d \in 0..(d - 1)
         /\ a % d <= a
         /\ a < d => a % d = a
<1>1. a % d \in 0..(d - 1) /\ a = (a \div d) * d + (a % d) /\ a \div d \in Int
  BY Z3
<1>2. a \div d >= 0
  <2>1. SUFFICES ASSUME a \div d <= -1 PROVE FALSE
    BY <1>1, Z3
  <2>2. (-1 - (a \div d)) * d >= 0
    BY <1>1, <2>1, Z3
  <2> QED BY <1>1, <2>2, Z3
<1>3. (a \div d) * d >= 0
  BY <1>1, <1>2, Z3
<1>4. ASSUME a < d PROVE a % d = a
  <2>1. CASE a \div d = 0
    BY <1>1, <2>1, Z3
  <2>2. CASE a \div d >= 1
    <3>1. ((a \div d) - 1) * d >= 0
      BY <1>1, <2>2, Z3
    <3> QED BY <1>1, <1>4, <3>1, Z3
  <2> QED BY <1>1, <1>2, <2>1, <2>2, Z3
<1> QED BY <1>1, <1>3, <1>4, Z3

LEMMA InitIInv == Init => IInv
<1> SUFFICES ASSUME Init PROVE IInv
  OBVIOUS
<1>1. 0 \in 0..(U32 - 1)
  BY SizeRange, SMT DEF HeaderRest
<1>2. /\ complete \in BOOLEAN /\ config \in Configs /\ open \in [Sources -> BOOLEAN]
      /\ wav \in {"idle", "header", "copy", "done"}
  BY Zenon DEF Init
<1>3. /\ cycle \in [Sources -> Seq([channels : {1, 2}, bytes : Nat, data : Seq(Nat)])]
      /\ content \in [Sources -> Seq(Nat)]
  BY SMT DEF Init
<1>4. TypeOK
  BY <1>1, <1>2, <1>3, SMT DEF Init, TypeOK, Sources
<1> QED BY <1>4, SMT DEF Init, IInv, TypeOK, Sources

\* main changes a tap and its own place, and closes the files at the end.
LEMMA MainKeeps ==
  ASSUME IInv, MainStep
  PROVE  IInv'
<1> USE DEF Step, Rest, converter, Sources
<1>1. ASSUME NEW x \in Sources, NEW from, NEW to,
             <<x, from, to>> \in {<<"system", "create_system", "create_mic">>,
                                  <<"microphone", "create_mic", "check">>},
             Create(x, from, to)
      PROVE  IInv'
  BY <1>1, SMT DEF Create, IInv, TypeOK
<1>2. CASE CheckSources
  <2>1. CASE \A x \in Sources : tap[x] = "none"
    <3>1. /\ main' = "exit" /\ open' \in [Sources -> BOOLEAN]
          /\ UNCHANGED <<tap, config, cycle, cycles, content, wav, input, dataSize, riffSize, copied,
                         complete, seen>>
      BY <1>2, <2>1, Zenon DEF CheckSources, CloseFiles
    <3>2. TypeOK'
      BY <3>1 DEF IInv, TypeOK
    <3> QED BY <2>1, <3>1, <3>2, SMT DEF IInv
  <2>2. CASE ~\A x \in Sources : tap[x] = "none"
    BY <1>2, <2>2, SMT DEF CheckSources, IInv, TypeOK
  <2> QED BY <2>1, <2>2
<1>3. ASSUME NEW x \in Sources, NEW from, NEW to,
             <<x, from, to>> \in {<<"system", "start_system", "start_mic">>,
                                  <<"microphone", "start_mic", "wait">>},
             Start(x, from, to)
      PROVE  IInv'
  BY <1>3, SMT DEF Start, IInv, TypeOK
<1>4. CASE Stop
  BY <1>4, SMT DEF Stop, IInv, TypeOK
<1>5. ASSUME NEW x \in Sources, NEW from, NEW to,
             <<x, from, to>> \in {<<"system", "destroy_system", "destroy_mic">>,
                                  <<"microphone", "destroy_mic", "close">>},
             Destroy(x, from, to)
      PROVE  IInv'
  BY <1>5, SMT DEF Destroy, IInv, TypeOK
<1>6. CASE Finish
  BY <1>6, SMT DEF Finish, CloseFiles, IInv, TypeOK
<1> QED BY <1>1, <1>2, <1>3, <1>4, <1>5, <1>6 DEF MainStep

\* A cycle begins while the tap runs, with buffers of the device's channels.
LEMMA BeginKeeps ==
  ASSUME IInv, NEW x \in Sources, NEW list \in Cycles, BeginCycle(x, list)
  PROVE  IInv'
<1>1. /\ list \in Seq(Buffers)
      /\ \A i \in DOMAIN list : Len(list[i].data) = list[i].bytes \div SizeofFloat
  BY RecordingAssumption DEF Buffers
<1>2. x = "system" => \A i \in DOMAIN list : list[i].channels = config["system"]
  BY SMT DEF BeginCycle, DeviceChannels
<1>3. /\ tap[x] = "running"
      /\ cycle' = [cycle EXCEPT ![x] = list] /\ cycles' = [cycles EXCEPT ![x] = @ + 1]
      /\ UNCHANGED <<main, tap, config, open, content, wav, input, seen, dataSize, riffSize, copied, complete>>
  BY DEF BeginCycle, converter
<1>4. cycle' \in [Sources -> Seq(Buffers)] /\ cycles' \in [Sources -> Nat]
  BY <1>1, <1>3, SMT DEF IInv, TypeOK, Buffers
<1>5. TypeOK'
  BY <1>3, <1>4 DEF IInv, TypeOK, Buffers
<1>6. /\ \A y \in Sources : cycle'[y] # <<>> => tap'[y] = "running"
      /\ \A i \in DOMAIN cycle'["system"] : cycle'["system"][i].channels = config'["system"]
      /\ \A y \in Sources : \A i \in DOMAIN cycle'[y] :
           Len(cycle'[y][i].data) = cycle'[y][i].bytes \div SizeofFloat
  BY <1>1, <1>2, <1>3, SMT DEF IInv, TypeOK, Sources
<1> QED BY <1>3, <1>5, <1>6 DEF IInv

\* The callback of a tap adds whole frames to its file.
LEMMA HandleFacts ==
  ASSUME IInv, NEW x \in Sources, HandleBuffer(x)
  PROVE  /\ content' \in [Sources -> Seq(Nat)]
         /\ \A y \in Sources \ {x} : content'[y] = content[y]
         /\ \E n \in Nat : Len(content'[x]) = Len(content[x]) + n * config[x]
         /\ open[x]
<1>1. /\ cycle[x] \in Seq(Buffers) /\ cycle[x] # <<>> /\ config[x] \in {1, 2}
      /\ content \in [Sources -> Seq(Nat)]
  BY RecordingAssumption, SMT DEF HandleBuffer, IInv, TypeOK, Buffers
<1> DEFINE buf == Head(cycle[x])
<1>2. /\ buf \in Buffers /\ Len(buf.data) = buf.bytes \div SizeofFloat
      /\ x = "system" => buf.channels = config[x]
  <2>1. buf = cycle[x][1] /\ 1 \in DOMAIN cycle[x] /\ buf \in Buffers
    BY <1>1, HeadTailProperties, SMT
  <2> QED BY <2>1 DEF IInv
<1>3. FrameCount(buf) \in Nat
  BY <1>2, FrameCountProperties
<1>4. /\ Written(CallFor(x, buf)) \in Seq(Nat)
      /\ Len(Written(CallFor(x, buf))) = FrameCount(buf) * config[x]
  BY <1>1, <1>2, SystemCallProperties, MicCallProperties DEF CallFor
<1>5. open[x]
  BY <1>1, SMT DEF IInv, TypeOK, Sources
<1>6. CASE Skipped(buf)
  <2>1. content' = content
    BY <1>6 DEF HandleBuffer
  <2>2. Len(content'[x]) = Len(content[x]) + 0 * config[x]
    BY <1>1, <2>1, SMT
  <2> QED BY <1>1, <1>5, <2>1, <2>2
<1>7. CASE ~Skipped(buf)
  <2>1. content' = [content EXCEPT ![x] = content[x] \o Written(CallFor(x, buf))]
    BY <1>7 DEF HandleBuffer
  <2>2. /\ content[x] \o Written(CallFor(x, buf)) \in Seq(Nat)
        /\ Len(content[x] \o Written(CallFor(x, buf))) = Len(content[x]) + Len(Written(CallFor(x, buf)))
    <3> HIDE DEF buf
    <3>1. content[x] \in Seq(Nat)
      BY <1>1
    <3> QED BY <3>1, <1>4, ConcatProperties, Zenon
  <2> QED BY <1>1, <1>3, <1>4, <1>5, <2>1, <2>2
<1> QED BY <1>6, <1>7

LEMMA HandleKeeps ==
  ASSUME IInv, NEW x \in Sources, HandleBuffer(x)
  PROVE  IInv'
<1>1. /\ cycle[x] \in Seq(Buffers) /\ cycle[x] # <<>>
      /\ cycle' = [cycle EXCEPT ![x] = Tail(cycle[x])] /\ cycle \in [Sources -> Seq(Buffers)]
      /\ UNCHANGED <<main, tap, config, cycles, open, wav, input, seen, dataSize, riffSize, copied, complete>>
  BY DEF HandleBuffer, IInv, TypeOK, Buffers, converter
<1>2. /\ Tail(cycle[x]) \in Seq(Buffers)
      /\ \A i \in DOMAIN Tail(cycle[x]) : i + 1 \in DOMAIN cycle[x] /\ Tail(cycle[x])[i] = cycle[x][i + 1]
  BY <1>1, HeadTailProperties, SMT
<1>3. content' \in [Sources -> Seq(Nat)]
  BY HandleFacts
<1>4. TypeOK'
  <2>1. cycle' \in [Sources -> Seq(Buffers)]
    BY <1>1, <1>2, SMT
  <2> QED BY <1>1, <1>3, <2>1 DEF IInv, TypeOK, Buffers
<1>5. /\ \A i \in DOMAIN cycle'["system"] : cycle'["system"][i].channels = config'["system"]
      /\ \A y \in Sources : \A i \in DOMAIN cycle'[y] :
           Len(cycle'[y][i].data) = cycle'[y][i].bytes \div SizeofFloat
  BY <1>1, <1>2, SMT DEF IInv, Sources
<1>6. \A y \in Sources : cycle'[y] # <<>> => tap'[y] = "running"
  BY <1>1, SMT DEF IInv, Sources
<1> QED BY <1>1, <1>4, <1>5, <1>6, SMT DEF IInv

LEMMA ConverterKeeps ==
  ASSUME IInv, (\E x \in Sources : Stat(x)) \/ WriteHeader \/ Copy
  PROVE  IInv'
<1>1. ASSUME NEW x \in Sources, Stat(x) PROVE IInv'
  <2>1. PICK n \in Visible(x, 0) : seen' = n /\ dataSize' = (SizeofFloat * n) % U32
    BY <1>1 DEF Stat
  <2>2. n \in Nat
    BY <2>1, SMT DEF Visible, IInv, TypeOK
  <2>3. dataSize' \in 0..(U32 - 1)
    <3>1. SizeofFloat * n \in Nat /\ U32 \in Nat /\ U32 > 0
      BY <2>2, SizeRange, SMT DEF SizeofFloat, HeaderRest
    <3> QED BY <2>1, <3>1, SizeField
  <2>4. wav' = "header" /\ input' = x /\ complete' \in BOOLEAN
    BY <1>1, Zenon DEF Stat
  <2>5. UNCHANGED <<main, tap, config, cycle, cycles, open, content, riffSize, copied>>
    BY <1>1 DEF Stat, recorder
  <2> QED BY <2>1, <2>2, <2>3, <2>4, <2>5, SMT DEF IInv, TypeOK
<1>2. CASE WriteHeader
  <2>1. (HeaderRest + dataSize) % U32 \in 0..(U32 - 1)
    <3>1. HeaderRest + dataSize \in Nat /\ U32 \in Nat /\ U32 > 0
      BY SizeRange, SMT DEF IInv, TypeOK, HeaderRest
    <3> QED BY <3>1, SizeField
  <2> QED BY <1>2, <2>1, SMT DEF WriteHeader, recorder, IInv, TypeOK
<1>3. CASE Copy
  <2>1. PICK n \in Visible(input, seen) :
          /\ seen' = n /\ copied' = SizeofFloat * n
          /\ wav' = IF copied = SizeofFloat * n THEN "done" ELSE "copy"
    BY <1>3 DEF Copy
  <2>2. n \in Nat
    BY <2>1, SMT DEF Visible, IInv, TypeOK
  <2> QED BY <1>3, <2>1, <2>2, SMT DEF Copy, recorder, IInv, TypeOK, SizeofFloat
<1> QED BY <1>1, <1>2, <1>3

LEMMA NextIInv == IInv /\ [Next]_vars => IInv'
<1> SUFFICES ASSUME IInv, [Next]_vars PROVE IInv'
  OBVIOUS
<1>1. CASE UNCHANGED vars
  BY <1>1 DEF vars, recorder, converter, IInv, TypeOK
<1> QED BY <1>1, MainKeeps, BeginKeeps, HandleKeeps, ConverterKeeps DEF Next

\* A tap runs only until main destroys it, and the files are open as long.
THEOREM RecorderIsSound == Spec => []IInv
<1> QED BY InitIInv, NextIInv, PTL DEF Spec

\* No callback writes to a file that main has closed.
THEOREM FilesOutliveCallbacksHolds == Spec => []FilesOutliveCallbacks
<1>1. IInv => FilesOutliveCallbacks
  BY SMT DEF IInv, TypeOK, Sources, FilesOutliveCallbacks
<1> QED BY <1>1, RecorderIsSound, PTL

-----------------------------------------------------------------------------
(* The header describes what follows it.                                   *)

\* What every step of the recorder leaves of the content.
Grows ==
  /\ UNCHANGED converter /\ config' = config
  /\ content' \in [Sources -> Seq(Nat)]
  /\ \A x \in Sources :
       /\ \E n \in Nat : Len(content'[x]) = Len(content[x]) + n * config[x]
       /\ ~open[x] => ~open'[x] /\ content'[x] = content[x]

LEMMA RecorderGrows ==
  ASSUME IInv, MainStep \/ \E x \in Sources : HandleBuffer(x) \/ \E list \in Cycles : BeginCycle(x, list)
  PROVE  Grows
<1>1. /\ content \in [Sources -> Seq(Nat)] /\ open \in [Sources -> BOOLEAN]
      /\ \A x \in Sources : config[x] \in {1, 2}
  BY RecordingAssumption, SMT DEF IInv, TypeOK
<1>2. ASSUME NEW x \in Sources, HandleBuffer(x) PROVE Grows
  <2>1. UNCHANGED <<config, open, converter>>
    BY <1>2 DEF HandleBuffer
  <2>2. /\ content' \in [Sources -> Seq(Nat)] /\ \A y \in Sources \ {x} : content'[y] = content[y]
        /\ \E n \in Nat : Len(content'[x]) = Len(content[x]) + n * config[x]
        /\ open[x]
    BY <1>2, HandleFacts
  <2>3. \A y \in Sources : \E n \in Nat : Len(content'[y]) = Len(content[y]) + n * config[y]
    <3> TAKE y \in Sources
    <3>1. CASE y = x
      BY <3>1, <2>2
    <3>2. CASE y # x
      <4>1. Len(content'[y]) = Len(content[y]) + 0 * config[y]
        <5>1. Len(content[y]) \in Nat /\ content'[y] = content[y] /\ config[y] \in {1, 2}
          BY <1>1, <2>2, <3>2
        <5>2. 0 * config[y] = 0
          BY <5>1, SMT
        <5> QED BY <5>1, <5>2, SMT
      <4> QED BY <4>1
    <3> QED BY <3>1, <3>2
  <2> QED BY <2>1, <2>2, <2>3 DEF Grows
<1>3. ASSUME UNCHANGED <<config, content, converter>>, \A x \in Sources : ~open[x] => ~open'[x]
      PROVE  Grows
  <2>1. \A x \in Sources : Len(content'[x]) = Len(content[x]) + 0 * config[x]
    BY <1>1, <1>3, SMT
  <2> QED BY <1>1, <1>3, <2>1 DEF Grows
<1>4. ASSUME NEW x \in Sources, NEW list \in Cycles, BeginCycle(x, list) PROVE Grows
  BY <1>3, <1>4 DEF BeginCycle
<1>5. CASE MainStep
  <2>1. UNCHANGED <<config, content, converter>>
    BY <1>5 DEF MainStep, Create, CheckSources, Start, Stop, Destroy, Finish, Rest
  <2>2. open' = open \/ open' = [x \in Sources |-> FALSE]
    BY <1>5, Zenon DEF MainStep, Create, CheckSources, Start, Stop, Destroy, Finish, CloseFiles
  <2>3. \A x \in Sources : ~open[x] => ~open'[x]
    BY <2>2
  <2> QED BY <1>3, <2>1, <2>3
<1> QED BY <1>2, <1>4, <1>5

LEMMA InitWavInv == Init => WavInv
<1> SUFFICES ASSUME Init PROVE WavInv
  OBVIOUS
<1>1. wav = "idle" /\ \A x \in Sources : config[x] \in {1, 2} /\ content[x] = <<>>
  BY RecordingAssumption, SMT DEF Init
<1>2. 0 % 1 = 0 /\ 0 % 2 = 0 /\ Len(<<>>) = 0
  BY SMT
<1>3. \A x \in Sources : Len(content[x]) % config[x] = 0
  BY <1>1, <1>2
<1> QED BY <1>1, <1>3, Zenon DEF WavInv

LEMMA RecorderKeepsWav ==
  ASSUME IInv, WavInv, Grows
  PROVE  WavInv'
<1>1. /\ content \in [Sources -> Seq(Nat)] /\ input \in Sources
      /\ \A x \in Sources : config[x] \in {1, 2}
  BY RecordingAssumption, SMT DEF IInv, TypeOK
<1>2. ASSUME NEW x \in Sources
      PROVE  Len(content'[x]) % config'[x] = 0 /\ Len(content'[x]) >= Len(content[x])
  <2>1. PICK n \in Nat : Len(content'[x]) = Len(content[x]) + n * config[x]
    BY <1>2 DEF Grows
  <2>2. Len(content[x]) \in Nat /\ n * config[x] \in Nat
    <3>1. n * 1 \in Nat /\ n * 2 \in Nat
      BY SMT
    <3>2. Len(content[x]) \in Nat
      BY <1>1, SMT
    <3> QED BY <1>1, <3>1, <3>2
  <2>3. (Len(content[x]) + n * config[x]) % config[x] = 0
    BY <1>1, <2>2, WholeFrames DEF WavInv
  <2> QED BY <2>1, <2>2, <2>3, SMT DEF Grows
<1>3. UNCHANGED <<wav, input, seen, dataSize, riffSize, copied, complete>> /\ config' = config
  BY DEF Grows, converter
<1>4. wav # "idle" => seen <= Len(content'[input])
  BY <1>1, <1>2, SMT DEF WavInv, IInv, TypeOK, Grows
<1>5. wav # "idle" /\ complete => ~open'[input] /\ seen = Len(content'[input])
  BY <1>1, Zenon DEF WavInv, Grows
<1> QED BY <1>2, <1>3, <1>4, <1>5, Zenon DEF WavInv

LEMMA ConverterKeepsWav ==
  ASSUME IInv, WavInv, (\E x \in Sources : Stat(x)) \/ WriteHeader \/ Copy
  PROVE  WavInv'
<1>1. /\ content \in [Sources -> Seq(Nat)] /\ input \in Sources /\ seen \in Nat /\ dataSize \in Nat
      /\ U32 \in Nat /\ U32 > 0
  BY SizeRange, SMT DEF IInv, TypeOK, HeaderRest
<1>2. ASSUME NEW x \in Sources, Stat(x) PROVE WavInv'
  <2>1. PICK n \in Visible(x, 0) : seen' = n /\ dataSize' = (SizeofFloat * n) % U32
    BY <1>2 DEF Stat
  <2>2. /\ n \in Nat /\ n <= Len(content[x])
        /\ ~open[x] => n = Len(content[x])
    BY <1>1, <2>1, SMT DEF Visible
  <2>3. dataSize' <= SizeofFloat * n
    <3>1. SizeofFloat * n \in Nat
      BY <2>2, SMT DEF SizeofFloat
    <3> QED BY <1>1, <2>1, <3>1, SizeField
  <2>4. wav' = "header" /\ input' = x /\ (complete' <=> ~open[x])
    BY <1>2, Zenon DEF Stat
  <2>5. UNCHANGED <<config, open, content>>
    BY <1>2 DEF Stat, recorder
  <2> QED BY <2>1, <2>2, <2>3, <2>4, <2>5, SMT DEF WavInv
<1>3. CASE WriteHeader
  <2>1. /\ wav = "header" /\ wav' = "copy" /\ riffSize' = (HeaderRest + dataSize) % U32
        /\ UNCHANGED <<config, open, content, input, seen, dataSize, copied, complete>>
    BY <1>3, Zenon DEF WriteHeader, recorder
  <2> QED BY <2>1, SMT DEF WavInv
<1>4. CASE Copy
  <2>1. PICK n \in Visible(input, seen) :
          /\ seen' = n /\ copied' = SizeofFloat * n
          /\ wav' = IF copied = SizeofFloat * n THEN "done" ELSE "copy"
    BY <1>4 DEF Copy
  <2>2. /\ wav = "copy" /\ wav' \in {"copy", "done"}
        /\ UNCHANGED <<config, open, content, input, dataSize, riffSize, complete>>
    BY <1>4, <2>1, Zenon DEF Copy, recorder
  <2>3. /\ n \in Nat /\ seen <= n /\ n <= Len(content[input])
        /\ ~open[input] => n = Len(content[input])
    BY <1>1, <2>1, <2>2, SMT DEF Visible, WavInv
  <2>4. dataSize' <= SizeofFloat * seen'
    BY <1>1, <2>1, <2>2, <2>3, SMT DEF WavInv, SizeofFloat
  <2>5. complete' => /\ ~open'[input'] /\ seen' = Len(content'[input'])
                     /\ dataSize' = (SizeofFloat * seen') % U32
    <3>1. complete => ~open[input] /\ seen = Len(content[input]) /\ dataSize = (SizeofFloat * seen) % U32
      BY <2>2, Zenon DEF WavInv
    <3> QED BY <2>1, <2>2, <2>3, <3>1
  <2>6. riffSize' = (HeaderRest + dataSize') % U32
    BY <2>2, SMT DEF WavInv
  <2>7. \A x \in Sources : Len(content'[x]) % config'[x] = 0
    BY <2>2 DEF WavInv
  <2>8. seen' <= Len(content'[input'])
    BY <2>1, <2>2, <2>3
  <2> QED BY <2>1, <2>4, <2>5, <2>6, <2>7, <2>8, Zenon DEF WavInv
<1> QED BY <1>2, <1>3, <1>4

LEMMA NextWavInv == IInv /\ WavInv /\ [Next]_vars => WavInv'
<1> SUFFICES ASSUME IInv, WavInv, [Next]_vars PROVE WavInv'
  OBVIOUS
<1>1. CASE UNCHANGED vars
  BY <1>1 DEF vars, recorder, converter, WavInv
<1>2. CASE Next
  BY <1>2, RecorderGrows, RecorderKeepsWav, ConverterKeepsWav DEF Next
<1> QED BY <1>1, <1>2

\* The sizes in the header, what follows it and what the file holds.
LEMMA WavInvImplies == IInv /\ WavInv => WavDescribesFile
<1> SUFFICES ASSUME IInv, WavInv, wav = "done" PROVE WavDescribesFile
  BY DEF WavDescribesFile
<1>1. /\ seen \in Nat /\ copied = SizeofFloat * seen /\ dataSize <= SizeofFloat * seen
      /\ riffSize = (HeaderRest + dataSize) % U32 /\ input \in Sources /\ dataSize \in Nat
  BY SMT DEF IInv, TypeOK, WavInv
<1>2. ASSUME complete, HeaderRest + copied < U32
      PROVE  /\ dataSize = copied /\ riffSize = HeaderRest + copied
             /\ dataSize % (SizeofFloat * config[input]) = 0
  <2>1. /\ seen = Len(content[input]) /\ dataSize = (SizeofFloat * seen) % U32
        /\ Len(content[input]) % config[input] = 0
    BY <1>1, <1>2, Zenon DEF WavInv
  <2>2. /\ copied \in Nat /\ HeaderRest + copied \in Nat /\ copied < U32
        /\ U32 \in Nat /\ U32 > 0
    BY <1>1, <1>2, SizeRange, SMT DEF SizeofFloat, HeaderRest
  <2>3. dataSize = copied
    BY <1>1, <2>1, <2>2, SizeField
  <2>4. riffSize = HeaderRest + copied
    BY <1>1, <1>2, <2>2, <2>3, SizeField
  <2>5. config[input] \in {1, 2}
    BY <1>1, RecordingAssumption, SMT DEF IInv, TypeOK
  <2>6. CASE config[input] = 1
    <3>1. (SizeofFloat * seen) % 4 = 0 /\ SizeofFloat * 1 = 4
      BY <1>1, SMT DEF SizeofFloat
    <3> QED BY <1>1, <2>3, <2>4, <2>6, <3>1
  <2>7. CASE config[input] = 2
    <3>1. seen % 2 = 0
      BY <2>1, <2>7
    <3>2. (SizeofFloat * seen) % 8 = 0
      BY <1>1, <3>1, SMT DEF SizeofFloat
    <3> QED BY <1>1, <2>3, <2>4, <2>7, <3>2, SMT DEF SizeofFloat
  <2> QED BY <2>3, <2>4, <2>5, <2>6, <2>7
<1> QED BY <1>1, <1>2, SMT DEF WavDescribesFile

\* The header of a WAV file claims no more data than follow it, and describes
\* a complete file of less than 2^32 bytes exactly.
THEOREM WavDescribesFileHolds == Spec => []WavDescribesFile
<1>1. Spec => [](IInv /\ WavInv)
  <2>1. Init => IInv /\ WavInv
    BY InitIInv, InitWavInv
  <2>2. (IInv /\ WavInv) /\ [Next]_vars => (IInv /\ WavInv)'
    BY NextIInv, NextWavInv
  <2> QED BY <2>1, <2>2, PTL DEF Spec
<1> QED BY <1>1, WavInvImplies, PTL
-----------------------------------------------------------------------------
(* A file holds the recording.                                             *)

Handled == Seq([buffer : Buffers, at : Nat])

\* FileHoldsRecording of one file, and no buffer's samples end behind it.
Holds(list, file, c) ==
  /\ Len(file) = EndOf(list, Len(list), c)
  /\ \A i \in DOMAIN list :
       /\ list[i].at = EndOf(list, i - 1, c)
       /\ list[i].at + FrameCount(list[i].buffer) * c <= Len(file)
       /\ \A f \in 1..FrameCount(list[i].buffer), k \in 1..c :
            file[list[i].at + (f - 1) * c + k] = Converted(FrameOf(list[i].buffer, f), c)[k]

HeldInv ==
  /\ handled \in [Sources -> Handled]
  /\ \A x \in Sources : Holds(handled[x], content[x], config[x])

\* Frame f of n, of c samples each, lies within the n * c samples.
LEMMA FrameLies ==
  ASSUME NEW c \in {1, 2}, NEW n \in Nat, NEW f \in 1..n, NEW k \in 1..c
  PROVE  (f - 1) * c + k \in 1..(n * c)
<1>1. CASE c = 1
  BY <1>1, SMT
<1>2. CASE c = 2
  BY <1>2, SMT
<1> QED BY <1>1, <1>2

LEMMA FrameCountNat ==
  ASSUME NEW buf \in Buffers, NEW c \in {1, 2}
  PROVE  FrameCount(buf) \in Nat /\ FrameCount(buf) * c \in Nat
<1>1. buf.channels \in {1, 2} /\ buf.bytes \in Nat
  BY DEF Buffers
<1>2. FrameCount(buf) \in Nat
  <2>1. CASE buf.channels = 1
    BY <1>1, <2>1, SMT DEF FrameCount, SizeofFloat
  <2>2. CASE buf.channels = 2
    BY <1>1, <2>2, SMT DEF FrameCount, SizeofFloat
  <2> QED BY <1>1, <2>1, <2>2
<1>3. FrameCount(buf) * 1 \in Nat /\ FrameCount(buf) * 2 \in Nat
  BY <1>2, SMT
<1> QED BY <1>2, <1>3

\* Another buffer's samples behind a file that holds a recording.
LEMMA AppendHolds ==
  ASSUME NEW list \in Handled, NEW file \in Seq(Nat), NEW c \in {1, 2}, NEW buf \in Buffers,
         NEW w \in Seq(Nat), Len(w) = FrameCount(buf) * c,
         \A f \in 1..FrameCount(buf), k \in 1..c : w[(f - 1) * c + k] = Converted(FrameOf(buf, f), c)[k],
         Holds(list, file, c)
  PROVE  Holds(Append(list, [buffer |-> buf, at |-> Len(file)]), file \o w, c)
<1> DEFINE e == [buffer |-> buf, at |-> Len(file)]
           longer == Append(list, e)
           grown == file \o w
           n == FrameCount(buf)
           last == Len(list)
<1>1. n \in Nat /\ n * c \in Nat
  BY FrameCountNat
<1>2. /\ Len(file) \in Nat /\ Len(grown) = Len(file) + n * c
      /\ \A j \in 1..Len(file) : grown[j] = file[j]
      /\ \A j \in 1..(n * c) : grown[Len(file) + j] = w[j]
  <2>1. Len(file) \in Nat /\ Len(w) \in Nat /\ Len(grown) = Len(file) + Len(w)
    BY ConcatProperties, LenProperties
  <2>2. \A j \in 1..(Len(file) + Len(w)) :
          grown[j] = IF j <= Len(file) THEN file[j] ELSE w[j - Len(file)]
    BY ConcatProperties
  <2>3. \A j \in 1..Len(file) : grown[j] = file[j]
    BY <2>1, <2>2, SMT
  <2>4. ASSUME NEW j \in 1..Len(w) PROVE grown[Len(file) + j] = w[j]
    <3>1. /\ Len(file) + j \in 1..(Len(file) + Len(w)) /\ ~(Len(file) + j <= Len(file))
          /\ (Len(file) + j) - Len(file) = j
      BY <2>1, SMT
    <3> QED BY <2>2, <3>1
  <2> QED BY <2>1, <2>3, <2>4
<1>3. /\ last \in Nat /\ Len(longer) = last + 1 /\ DOMAIN longer = 1..(last + 1) /\ DOMAIN list = 1..last
      /\ longer[last + 1] = e /\ \A i \in 1..last : longer[i] = list[i]
  <2>1. e \in [buffer : Buffers, at : Nat]
    BY <1>2
  <2> HIDE DEF e
  <2> QED BY <2>1, AppendProperties, SMT DEF Handled
<1>4. e.buffer = buf /\ e.at = Len(file)
  OBVIOUS
<1> HIDE DEF e, longer, grown, n, last
<1>5. ASSUME NEW i \in 0..last PROVE EndOf(longer, i, c) = EndOf(list, i, c)
  <2>1. CASE i = 0
    BY <2>1 DEF EndOf
  <2>2. CASE i # 0
    <3>1. i \in 1..last
      BY <1>3, <2>2, SMT
    <3> QED BY <1>3, <3>1 DEF EndOf
  <2> QED BY <2>1, <2>2
<1>6. Len(file) = EndOf(list, last, c)
  BY DEF Holds, last
<1>7. Len(grown) = EndOf(longer, Len(longer), c)
  <2>1. last + 1 # 0
    BY <1>3, SMT
  <2> QED BY <1>2, <1>3, <1>4, <2>1 DEF EndOf, n
<1>8. ASSUME NEW i \in 1..last
      PROVE  /\ longer[i].at = EndOf(longer, i - 1, c)
             /\ longer[i].at + FrameCount(longer[i].buffer) * c <= Len(grown)
             /\ \A f \in 1..FrameCount(longer[i].buffer), k \in 1..c :
                  grown[longer[i].at + (f - 1) * c + k] = Converted(FrameOf(longer[i].buffer, f), c)[k]
  <2> DEFINE at == list[i].at
             b == list[i].buffer
             m == FrameCount(b)
  <2>1. longer[i] = list[i] /\ i \in DOMAIN list
    BY <1>3
  <2>2. i - 1 \in 0..last
    BY <1>3, SMT
  <2>3. /\ at = EndOf(list, i - 1, c) /\ at + m * c <= Len(file)
        /\ \A f \in 1..m, k \in 1..c : file[at + (f - 1) * c + k] = Converted(FrameOf(b, f), c)[k]
    BY <2>1 DEF Holds
  <2>4. list[i] \in [buffer : Buffers, at : Nat]
    <3>1. list \in Seq([buffer : Buffers, at : Nat]) /\ i \in 1..Len(list)
      BY <1>3, <2>1 DEF Handled, last
    <3> QED BY <3>1, ElementOfSeq
  <2>5. at \in Nat /\ b \in Buffers
    BY <2>4
  <2>6. m \in Nat /\ m * c \in Nat
    BY <2>5, FrameCountNat
  <2> HIDE DEF at, b, m
  <2>7. at + m * c <= Len(grown)
    <3> DEFINE p == m * c
               q == n * c
    <3>1. p \in Nat /\ q \in Nat /\ at + p <= Len(file) /\ Len(grown) = Len(file) + q
      BY <1>1, <1>2, <2>3, <2>6
    <3> HIDE DEF p, q
    <3>2. at + p <= Len(grown)
      BY <1>2, <2>5, <3>1, SMT
    <3> QED BY <3>2 DEF p
  <2>8. ASSUME NEW f \in 1..m, NEW k \in 1..c
        PROVE  grown[at + (f - 1) * c + k] = Converted(FrameOf(b, f), c)[k]
    <3> DEFINE p == m * c
               r == (f - 1) * c + k
    <3>1. r \in 1..p
      BY <2>6, FrameLies
    <3>2. (f - 1) * c \in Int
      <4>1. (f - 1) * 1 \in Int /\ (f - 1) * 2 \in Int
        BY <2>6, SMT
      <4> QED BY <4>1
    <3>3. at + (f - 1) * c + k = at + r
      BY <2>5, <3>2, SMT
    <3>4. p \in Nat /\ at + p <= Len(file)
      BY <2>3, <2>6
    <3>5. file[at + r] = Converted(FrameOf(b, f), c)[k]
      BY <2>3, <3>3
    <3> HIDE DEF p, r
    <3>6. at + r \in 1..Len(file)
      BY <1>2, <2>5, <3>1, <3>4, SMT
    <3> QED BY <1>2, <3>3, <3>5, <3>6
  <2> QED BY <1>5, <2>1, <2>2, <2>3, <2>7, <2>8 DEF at, b, m
<1>9. /\ longer[last + 1].at = EndOf(longer, last, c)
      /\ longer[last + 1].at + FrameCount(longer[last + 1].buffer) * c <= Len(grown)
      /\ \A f \in 1..FrameCount(longer[last + 1].buffer), k \in 1..c :
           grown[longer[last + 1].at + (f - 1) * c + k]
             = Converted(FrameOf(longer[last + 1].buffer, f), c)[k]
  <2>1. EndOf(longer, last, c) = Len(file)
    <3>1. last \in 0..last
      BY <1>3, SMT
    <3> QED BY <1>5, <1>6, <3>1
  <2>2. Len(file) + n * c <= Len(grown)
    <3>1. Len(grown) \in Nat
      BY <1>1, <1>2
    <3> QED BY <1>2, <3>1, SMT
  <2>3. ASSUME NEW f \in 1..n, NEW k \in 1..c
        PROVE  grown[Len(file) + (f - 1) * c + k] = Converted(FrameOf(buf, f), c)[k]
    <3>1. (f - 1) * c + k \in 1..(n * c)
      BY <1>1, FrameLies
    <3>2. Len(file) + (f - 1) * c + k = Len(file) + ((f - 1) * c + k)
      <4>1. (f - 1) * 1 \in Int /\ (f - 1) * 2 \in Int
        BY <1>1, SMT
      <4>2. (f - 1) * c \in Int
        BY <4>1
      <4> QED BY <1>2, <4>2, SMT
    <3>3. w[(f - 1) * c + k] = Converted(FrameOf(buf, f), c)[k]
      BY DEF n
    <3> QED BY <1>2, <3>1, <3>2, <3>3
  <2> QED BY <1>3, <1>4, <2>1, <2>2, <2>3 DEF n
<1>10. ASSUME NEW i \in DOMAIN longer
       PROVE  /\ longer[i].at = EndOf(longer, i - 1, c)
              /\ longer[i].at + FrameCount(longer[i].buffer) * c <= Len(grown)
              /\ \A f \in 1..FrameCount(longer[i].buffer), k \in 1..c :
                   grown[longer[i].at + (f - 1) * c + k] = Converted(FrameOf(longer[i].buffer, f), c)[k]
  <2>1. CASE i \in 1..last
    BY <1>8, <2>1
  <2>2. CASE i = last + 1
    <3>1. (last + 1) - 1 = last
      BY <1>3, SMT
    <3> QED BY <1>9, <2>2, <3>1
  <2>3. i \in 1..last \/ i = last + 1
    BY <1>3, SMT
  <2> QED BY <2>1, <2>2, <2>3
<1>11. Holds(longer, grown, c)
  BY <1>7, <1>10, Zenon DEF Holds
<1> QED BY <1>11 DEF longer, grown, e

LEMMA InitHeld == Init => HeldInv
<1> SUFFICES ASSUME Init PROVE HeldInv
  OBVIOUS
<1>1. handled = [x \in Sources |-> <<>>] /\ content = [x \in Sources |-> <<>>]
  BY DEF Init
<1>2. <<>> \in Handled /\ Len(<<>>) = 0 /\ DOMAIN <<>> = {}
  BY SMT DEF Handled
<1>3. \A x \in Sources : Holds(handled[x], content[x], config[x])
  BY <1>1, <1>2 DEF Holds, EndOf
<1> QED BY <1>1, <1>2, <1>3 DEF HeldInv

\* The buffer that is handled next is one of the device's.
LEMMA NextBuffer ==
  ASSUME IInv, NEW x \in Sources, cycle[x] # <<>>
  PROVE  /\ Head(cycle[x]) \in Buffers /\ config[x] \in {1, 2}
         /\ Len(Head(cycle[x]).data) = Head(cycle[x]).bytes \div SizeofFloat
         /\ x = "system" => Head(cycle[x]).channels = config[x]
<1>1. cycle[x] \in Seq(Buffers) /\ cycle[x] # <<>> /\ config[x] \in {1, 2}
  BY RecordingAssumption, SMT DEF IInv, TypeOK, Buffers
<1>2. 1 \in DOMAIN cycle[x] /\ Head(cycle[x]) = cycle[x][1] /\ Head(cycle[x]) \in Buffers
  BY <1>1, HeadTailProperties, SMT
<1> QED BY <1>1, <1>2, SMT DEF IInv

LEMMA HandleHeld ==
  ASSUME IInv, HeldInv, NEW x \in Sources, HandleBuffer(x)
  PROVE  HeldInv'
<1> DEFINE buf == Head(cycle[x])
           c == config[x]
           e == [buffer |-> buf, at |-> Len(content[x])]
<1>1. /\ buf \in Buffers /\ c \in {1, 2} /\ Len(buf.data) = buf.bytes \div SizeofFloat
      /\ x = "system" => buf.channels = c
  BY NextBuffer DEF HandleBuffer
<1>2. /\ handled' = [handled EXCEPT ![x] = Append(handled[x], e)] /\ config' = config
      /\ handled \in [Sources -> Handled] /\ content \in [Sources -> Seq(Nat)]
      /\ \A y \in Sources : Holds(handled[y], content[y], config[y])
  BY DEF HandleBuffer, HeldInv, IInv, TypeOK
<1>3. handled' \in [Sources -> Handled]
  <2>1. content[x] \in Seq(Nat)
    BY <1>2
  <2>2. Len(content[x]) \in Nat
    BY <2>1, SMT
  <2>3. e \in [buffer : Buffers, at : Nat]
    BY <1>1, <2>2
  <2>4. handled[x] \in Handled
    BY <1>2
  <2> HIDE DEF e
  <2>5. Append(handled[x], e) \in Handled
    BY <2>3, <2>4, AppendProperties DEF Handled
  <2> QED BY <1>2, <2>5
<1>4. ASSUME NEW y \in Sources, y # x PROVE Holds(handled'[y], content'[y], config'[y])
  <2>1. content'[y] = content[y]
    BY <1>4, HandleFacts
  <2>2. handled'[y] = handled[y]
    BY <1>2, <1>4
  <2> QED BY <1>2, <2>1, <2>2
<1>5. handled'[x] = Append(handled[x], e)
  BY <1>2
<1>6. \E w \in Seq(Nat) :
        /\ content'[x] = content[x] \o w /\ Len(w) = FrameCount(buf) * c
        /\ \A f \in 1..FrameCount(buf), k \in 1..c : w[(f - 1) * c + k] = Converted(FrameOf(buf, f), c)[k]
  <2>1. CASE Skipped(buf)
    <3>1. content' = content
      BY <2>1 DEF HandleBuffer
    <3>2. FrameCount(buf) = 0
      <4>1. buf.channels \in {1, 2} /\ buf.bytes = 0
        BY <1>1, <2>1 DEF Buffers, Skipped
      <4>2. 0 \div (1 * 4) = 0 /\ 0 \div (2 * 4) = 0
        BY SMT
      <4> QED BY <4>1, <4>2 DEF FrameCount, SizeofFloat
    <3>3. content[x] \in Seq(Nat) /\ 0 * 1 = 0 /\ 0 * 2 = 0 /\ 1..0 = {}
      BY <1>2, SMT
    <3>4. content[x] \o <<>> = content[x] /\ <<>> \in Seq(Nat) /\ Len(<<>>) = 0
      BY <3>3, ConcatEmptySeq, SMT
    <3>5. Len(<<>>) = FrameCount(buf) * c
      BY <1>1, <3>2, <3>3, <3>4
    <3> QED BY <3>1, <3>2, <3>3, <3>4, <3>5
  <2>2. CASE ~Skipped(buf)
    <3> DEFINE w == Written(CallFor(x, buf))
    <3>1. content'[x] = content[x] \o w
      BY <1>2, <2>2 DEF HandleBuffer
    <3>2. w \in Seq(Nat) /\ Len(w) = FrameCount(buf) * c
      <4>1. CASE x = "system"
        BY <1>1, <4>1, SystemCallProperties DEF CallFor
      <4>2. CASE x # "system"
        BY <1>1, <4>2, MicCallProperties DEF CallFor
      <4> QED BY <4>1, <4>2
    <3>3. \A f \in 1..FrameCount(buf), k \in 1..c : w[(f - 1) * c + k] = Converted(FrameOf(buf, f), c)[k]
      BY <1>1, CallConverts
    <3> QED BY <3>1, <3>2, <3>3
  <2> QED BY <2>1, <2>2
<1>7. Holds(handled'[x], content'[x], config'[x])
  <2>1. PICK w \in Seq(Nat) :
        /\ content'[x] = content[x] \o w /\ Len(w) = FrameCount(buf) * c
        /\ \A f \in 1..FrameCount(buf), k \in 1..c : w[(f - 1) * c + k] = Converted(FrameOf(buf, f), c)[k]
    BY <1>6
  <2>2. /\ handled[x] \in Handled /\ content[x] \in Seq(Nat) /\ Holds(handled[x], content[x], c)
    BY <1>2
  <2>3. c \in {1, 2} /\ buf \in Buffers
    BY <1>1
  <2> HIDE DEF buf, c
  <2>4. Holds(Append(handled[x], [buffer |-> buf, at |-> Len(content[x])]), content[x] \o w, c)
    BY <2>1, <2>2, <2>3, AppendHolds
  <2> QED BY <1>2, <1>5, <2>1, <2>4 DEF c
<1> QED BY <1>3, <1>4, <1>7 DEF HeldInv

LEMMA NextHeld == IInv /\ HeldInv /\ [Next]_vars => HeldInv'
<1> SUFFICES ASSUME IInv, HeldInv, [Next]_vars PROVE HeldInv'
  OBVIOUS
<1>1. ASSUME UNCHANGED <<config, handled, content>> PROVE HeldInv'
  BY <1>1 DEF HeldInv
<1>2. CASE UNCHANGED vars
  BY <1>1, <1>2 DEF vars, recorder
<1>3. CASE MainStep
  BY <1>1, <1>3 DEF MainStep, Create, CheckSources, Start, Stop, Destroy, Finish, Rest
<1>4. ASSUME NEW x \in Sources, HandleBuffer(x) PROVE HeldInv'
  BY <1>4, HandleHeld
<1>5. ASSUME NEW x \in Sources, NEW list \in Cycles, BeginCycle(x, list) PROVE HeldInv'
  BY <1>1, <1>5 DEF BeginCycle
<1>6. CASE (\E x \in Sources : Stat(x)) \/ WriteHeader \/ Copy
  BY <1>1, <1>6 DEF Stat, WriteHeader, Copy, recorder
<1> QED BY <1>2, <1>3, <1>4, <1>5, <1>6 DEF Next

\* A file holds the frames of the device in order, each in the channels the tap
\* was created with.
THEOREM FileHoldsRecordingHolds == Spec => []FileHoldsRecording
<1>1. Spec => [](IInv /\ HeldInv)
  <2>1. Init => IInv /\ HeldInv
    BY InitIInv, InitHeld
  <2>2. (IInv /\ HeldInv) /\ [Next]_vars => (IInv /\ HeldInv)'
    BY NextIInv, NextHeld
  <2> QED BY <2>1, <2>2, PTL DEF Spec
<1>2. HeldInv => FileHoldsRecording
  BY Zenon DEF HeldInv, Holds, FileHoldsRecording
<1> QED BY <1>1, <1>2, PTL
=============================================================================
