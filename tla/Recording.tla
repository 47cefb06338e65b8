----------------------------- MODULE Recording -----------------------------
(***************************************************************************)
(* From the device to a WAV file.  The recorder of examples/capture_both.c *)
(* creates and starts two taps, whose callbacks write to a file each on    *)
(* the audio thread; IoProc gives the samples of each call.  At any time   *)
(* pcm2wav (go/cmd/pcm2wav/main.go) may convert one of the files.          *)
(***************************************************************************)
EXTENDS IoProc

CONSTANTS
  Configs,      \* possible channels of the taps, [Sources -> {1, 2}]
  Cycles,       \* what the device of a source may hand to the IO proc in one
                \* cycle: sequences of buffers
  MaxCycles,    \* bound on the cycles of a source
  U32           \* the range of uint32, 2^32

Sources == {"system", "microphone"}
HeaderRest == 36   \* bytes of the RIFF header behind its size field

\* A system tap is a mixdown to the channels of its configuration; a
\* microphone has one or two channels, and others after a device change.
DeviceChannels(x, config) == IF x = "system" THEN {config[x]} ELSE {1, 2}

ASSUME RecordingAssumption ==
  /\ Configs \subseteq [Sources -> {1, 2}]
  /\ \A list \in Cycles : Len(list) > 0 /\ \A i \in DOMAIN list :
       /\ list[i].channels \in {1, 2} /\ list[i].bytes \in Nat
       /\ Len(list[i].data) = list[i].bytes \div SizeofFloat
  /\ Cycles \subseteq Seq([channels : {1, 2}, bytes : Nat, data : Seq(Nat)])
  /\ MaxCycles \in [Sources -> Nat]
  /\ U32 \in Nat /\ U32 > HeaderRest

VARIABLES
  main,       \* where main is
  tap,        \* of a source: "none", "created", "running", "destroyed"
  config,     \* of a source: its channels
  cycle,      \* of a source: the buffers the IO proc has still to handle
  cycles,     \* of a source: IO cycles begun
  handled,    \* history: the buffers it has handled, and where in the file the
              \* samples of each begin
  open,       \* of a source: is its file open?
  content,    \* of a file: the samples written to it
  wav,        \* where pcm2wav is
  input,      \* the file it converts
  seen,       \* how many of its samples pcm2wav has seen in the file
  dataSize, riffSize, copied,   \* in the header; bytes that follow it
  complete    \* history: was the file complete when pcm2wav looked?

recorder == <<main, tap, config, cycle, cycles, handled, open, content>>
converter == <<wav, input, seen, dataSize, riffSize, copied, complete>>
vars == <<recorder, converter>>

Init ==
  /\ main = "create_system" /\ config \in Configs
  /\ tap = [x \in Sources |-> "none"] /\ cycle = [x \in Sources |-> <<>>]
  /\ cycles = [x \in Sources |-> 0] /\ handled = [x \in Sources |-> <<>>]
  /\ open = [x \in Sources |-> TRUE] /\ content = [x \in Sources |-> <<>>]
  /\ wav = "idle" /\ input = "system" /\ seen = 0 /\ dataSize = 0 /\ riffSize = 0 /\ copied = 0
  /\ complete = FALSE

-----------------------------------------------------------------------------
(* The audio thread of a source: one IO cycle, buffer by buffer, each      *)
(* written to the file by the callback (fwrite).                           *)

BeginCycle(x, list) ==
  /\ tap[x] = "running" /\ cycle[x] = <<>> /\ cycles[x] < MaxCycles[x]
  /\ \A i \in DOMAIN list : list[i].channels \in DeviceChannels(x, config)
  /\ cycle' = [cycle EXCEPT ![x] = list] /\ cycles' = [cycles EXCEPT ![x] = @ + 1]
  /\ UNCHANGED <<main, tap, config, handled, open, content, converter>>

CallFor(x, buf) == IF x = "system" THEN SystemCall(buf) ELSE MicCall(config[x], buf)

\* fwrite of frame_count * channels samples, on a disk that takes them all.
Written(call) == SubSeq(call.samples, 1, call.frames * call.channels)

HandleBuffer(x) ==
  /\ cycle[x] # <<>>
  /\ LET buf == Head(cycle[x]) IN
       /\ content' = IF Skipped(buf) THEN content
                     ELSE [content EXCEPT ![x] = @ \o Written(CallFor(x, buf))]
       /\ handled' = [handled EXCEPT ![x] = Append(@, [buffer |-> buf, at |-> Len(content[x])])]
  /\ cycle' = [cycle EXCEPT ![x] = Tail(@)]
  /\ UNCHANGED <<main, tap, config, cycles, open, converter>>

-----------------------------------------------------------------------------
(* main.                                                                   *)

Step(from, to) == main = from /\ main' = to
Rest == UNCHANGED <<config, cycle, cycles, handled, content, converter>>

Create(x, from, to) ==
  /\ Step(from, to)
  /\ tap' \in {tap, [tap EXCEPT ![x] = "created"]}
  /\ UNCHANGED open /\ Rest

\* fclose of both files.
CloseFiles == open' = [x \in Sources |-> FALSE]

CheckSources ==
  /\ main = "check"
  /\ IF \A x \in Sources : tap[x] = "none"
     THEN main' = "exit" /\ CloseFiles
     ELSE main' = "start_system" /\ UNCHANGED open
  /\ UNCHANGED tap /\ Rest

\* A start that fails is reported, no more.
Start(x, from, to) ==
  /\ Step(from, to)
  /\ \/ UNCHANGED tap
     \/ tap[x] = "created" /\ tap' = [tap EXCEPT ![x] = "running"]
  /\ UNCHANGED open /\ Rest

\* The duration, or a signal.
Stop == Step("wait", "destroy_system") /\ UNCHANGED <<tap, open>> /\ Rest

\* Mutant: the tap is destroyed while its callback runs.
DestroyNoWait(x, from, to) ==
  /\ Step(from, to)
  /\ tap' = IF tap[x] = "none" THEN tap ELSE [tap EXCEPT ![x] = "destroyed"]
  /\ UNCHANGED open /\ Rest

\* audiotap_destroy stops the device, which waits for a running IO proc.
Destroy(x, from, to) ==
  /\ Step(from, to)
  /\ IF tap[x] = "none" THEN UNCHANGED tap
     ELSE cycle[x] = <<>> /\ tap' = [tap EXCEPT ![x] = "destroyed"]
  /\ UNCHANGED open /\ Rest

Finish == Step("close", "exit") /\ CloseFiles /\ UNCHANGED tap /\ Rest

-----------------------------------------------------------------------------
(* pcm2wav.                                                                *)

\* Samples that other programs find in a file: stdio may hold some back until
\* the file is closed.
Visible(x, atLeast) ==
  IF open[x] THEN atLeast..Len(content[x]) ELSE {Len(content[x])}

Stat(x) ==
  /\ wav = "idle"
  /\ wav' = "header" /\ input' = x
  /\ \E n \in Visible(x, 0) : seen' = n /\ dataSize' = (SizeofFloat * n) % U32
  /\ complete' = ~open[x]
  /\ UNCHANGED <<recorder, riffSize, copied>>

\* Mutant: the size field counts the header's first eight bytes too.
WriteHeaderWhole ==
  /\ wav = "header"
  /\ wav' = "copy"
  /\ riffSize' = (HeaderRest + 8 + dataSize) % U32
  /\ UNCHANGED <<recorder, input, seen, dataSize, copied, complete>>

WriteHeader ==
  /\ wav = "header"
  /\ wav' = "copy"
  /\ riffSize' = (HeaderRest + dataSize) % U32
  /\ UNCHANGED <<recorder, input, seen, dataSize, copied, complete>>

\* io.Copy reads to the end of the file, also what was added meanwhile.
Copy ==
  /\ wav = "copy"
  /\ \E n \in Visible(input, seen) :
       /\ seen' = n /\ copied' = SizeofFloat * n
       /\ wav' = IF copied = SizeofFloat * n THEN "done" ELSE "copy"
  /\ UNCHANGED <<recorder, input, dataSize, riffSize, complete>>

MainStep ==
  \/ Create("system", "create_system", "create_mic") \/ Create("microphone", "create_mic", "check")
  \/ CheckSources
  \/ Start("system", "start_system", "start_mic") \/ Start("microphone", "start_mic", "wait")
  \/ Stop
  \/ Destroy("system", "destroy_system", "destroy_mic") \/ Destroy("microphone", "destroy_mic", "close")
  \/ Finish

Next ==
  \/ MainStep
  \/ \E x \in Sources : HandleBuffer(x) \/ Stat(x) \/ \E list \in Cycles : BeginCycle(x, list)
  \/ WriteHeader \/ Copy

Spec == Init /\ [][Next]_vars
-----------------------------------------------------------------------------
(* Properties.                                                             *)

TypeOK ==
  /\ main \in {"create_system", "create_mic", "check", "start_system", "start_mic", "wait",
              "destroy_system", "destroy_mic", "close", "exit"}
  /\ tap \in [Sources -> {"none", "created", "running", "destroyed"}] /\ config \in Configs
  /\ cycle \in [Sources -> Seq([channels : {1, 2}, bytes : Nat, data : Seq(Nat)])]
  /\ cycles \in [Sources -> Nat] /\ open \in [Sources -> BOOLEAN]
  /\ wav \in {"idle", "header", "copy", "done"} /\ input \in Sources
  /\ content \in [Sources -> Seq(Nat)]
  /\ dataSize \in 0..(U32 - 1) /\ riffSize \in 0..(U32 - 1) /\ copied \in Nat
  /\ complete \in BOOLEAN /\ seen \in Nat

\* No callback writes to a file that main has closed: a tap that was started
\* is destroyed, and its callback over, before the files are closed.
FilesOutliveCallbacks == \A x \in Sources : cycle[x] # <<>> => open[x]

\* The inductive invariant behind it: taps run only until main destroys them.
IInv ==
  /\ TypeOK
  /\ \A x \in Sources : cycle[x] # <<>> => tap[x] = "running"
  /\ \A i \in DOMAIN cycle["system"] : cycle["system"][i].channels = config["system"]
  /\ \A x \in Sources : \A i \in DOMAIN cycle[x] :
       Len(cycle[x][i].data) = cycle[x][i].bytes \div SizeofFloat
  /\ main \in {"create_system", "create_mic", "check"} =>
       \A x \in Sources : tap[x] \in {"none", "created"}
  /\ main \in {"destroy_mic", "close", "exit"} => tap["system"] # "running"
  /\ main \in {"close", "exit"} => tap["microphone"] # "running"
  /\ \A x \in Sources : ~open[x] => main = "exit"

\* What behind WavDescribesFile is inductive: a file holds whole frames, and
\* what pcm2wav has seen of a complete file is all of it.
WavInv ==
  /\ \A x \in Sources : Len(content[x]) % config[x] = 0
  /\ wav # "idle" =>
       /\ seen <= Len(content[input]) /\ dataSize <= SizeofFloat * seen
       /\ complete =>
            /\ ~open[input] /\ seen = Len(content[input])
            /\ dataSize = (SizeofFloat * seen) % U32
  /\ wav \in {"copy", "done"} => riffSize = (HeaderRest + dataSize) % U32
  /\ wav = "done" => copied = SizeofFloat * seen

\* A file holds the whole frames of the device, in order, each converted to
\* the channels the tap was created with, whatever the channels of the device
\* are from one buffer to the next.
FrameOf(buf, f) == SubSeq(buf.data, (f - 1) * buf.channels + 1, f * buf.channels)

Converted(frame, channels) ==
  CASE Len(frame) = channels -> frame
    [] Len(frame) = 1 /\ channels = 2 -> <<frame[1], frame[1]>>
    [] Len(frame) = 2 /\ channels = 1 -> <<Mean(frame[1], frame[2])>>

\* Where the samples of the buffers up to the i-th end in a file.
EndOf(list, i, channels) ==
  IF i = 0 THEN 0 ELSE list[i].at + FrameCount(list[i].buffer) * channels

FileHoldsRecording ==
  \A x \in Sources :
    /\ Len(content[x]) = EndOf(handled[x], Len(handled[x]), config[x])
    /\ \A i \in DOMAIN handled[x] :
         LET buf == handled[x][i].buffer  at == handled[x][i].at  IN
         /\ at = EndOf(handled[x], i - 1, config[x])
         /\ \A f \in 1..FrameCount(buf), k \in 1..config[x] :
              content[x][at + (f - 1) * config[x] + k] = Converted(FrameOf(buf, f), config[x])[k]

\* The header of a WAV file never claims more data than follow it, also when
\* the recording went on meanwhile; for a complete file below the limit of a
\* 32-bit size it describes the file exactly, in whole frames.
WavDescribesFile ==
  wav = "done" =>
    /\ dataSize <= copied
    /\ complete /\ HeaderRest + copied < U32 =>
         /\ dataSize = copied /\ riffSize = HeaderRest + copied
         /\ dataSize % (SizeofFloat * config[input]) = 0
=============================================================================
