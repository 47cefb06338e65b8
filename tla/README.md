# Verification of audiotap

TLA+ models of audiotap (the C library in `src/`, its Go binding in `go/`, the
recorder `go/cmd/capture_both`; the C recorder in `examples/`, `pcm2wav` and
`pcmplay`; the Python binding in `python/`), TLC configurations that check them on small
instances, and proofs that TLAPS checks for every value of the constants.

## The system

| Component | State it keeps | Operations | What makes it hard | What makes it correct |
|---|---|---|---|---|
| Ring bridge, `go/bridge.c` | `ring`, `write_pos`, `read_pos`, `closed`, a self-pipe | `bridge_callback` (audio thread), `bridge_read` (reader), `bridge_close`, create, destroy | two threads without a lock, both store `read_pos`; 32-bit counters that wrap; wake-ups through a pipe that can be full | a batch is the oldest unread samples, in order and whole; occupancy never exceeds the ring; no lost wake-up; close ends the reader |
| Tap lifecycle, `src/audiotap_common.c` | `running`, `io_proc_id`, the pointer `audiotap_active_system_tap` | start, stop, destroy | `running` is looked at before any lock | between calls `running` and Core Audio agree |
| Microphone tap, `src/audiotap_mic.c` | `input_device_id`, `mic_mutex`, listener block and queue | create, start, stop, destroy, `handle_device_change` | the listener runs on a queue of its own and restarts the tap under the caller's feet; the microphone cannot be started while an aggregate device runs, so it pauses and resumes the system tap | one thread at a time in Core Audio; the tap follows the default device; it captures exactly when asked to |
| System tap, `src/audiotap_system.m` | process tap, aggregate device | create (three steps, each undone by the next failure), start, stop, destroy | failures in the middle; a global pointer without a lock | nothing left behind; the pointer is the running tap |
| Permission, `src/audiotap_permission.m` | none of its own | status, request (blocks on the dialog) | the answer may never come | a start without permission fails and leaves nothing |
| Go `Tap`, `go/audiotap.go` | `closed`, `once`, two C pointers, a finalizer | NewSystemTap, NewMicTap, Start, Stop, IsRunning, Read, Close | goroutines inside C while another closes; the finalizer; the callback | released once, in the right order; a later Close waits for the first; nothing freed is used (which the code keeps only for programs whose calls do not overlap) |
| Recorder, `go/cmd/capture_both` | two taps, `active`, the channel `done` | main, two read loops | taps that are missing or do not start, loops that end early | files outlive the loops; main ends |
| IO procs, `mic_io_proc` and `system_io_proc` | none of their own | one buffer of the device becomes one call of the callback | the device's channels are not the tap's and change with the device; partial frames, empty buffers | the callback gets the device's frames in the tap's channels |
| C recorder, `examples/capture_both.c` | two taps, two files | create, start, wait, destroy, close; callbacks that write | callbacks on audio threads; taps that are missing or do not start | files outlive the callbacks and hold what the devices delivered |
| `pcm2wav` | the size it saw, what it copied | look at the size, write the header, copy | the input may still grow; 32-bit sizes | the header describes what follows |
| `pcmplay` | an audio queue with three buffers, `finished`, the flag `stopped` | prime, start, poll, dispose; refill; notice of the stop; draw | the queue's thread and main share flags and main's local variables; the end of the file in any buffer | the whole file is played; nothing outlives `play_f32le`; it ends |
| Python binding | `_handle`, `_c_callback` | construct, start, stop, running, destroy, `__del__`; the trampoline | the interpreter lock is released in C and needed by callbacks; the collector | no freed tap and no collected trampoline is used; every call returns |
| Python example, build, CI | | | | not modelled: a straight-line program over the API, no run-time state |

The parts meet as follows. The device's audio thread calls the IO proc of a
tap, which calls the tap's callback; in Go that is `bridge_callback`, and a
goroutine takes the samples out with `bridge_read`. Callers create, start, stop
and destroy taps; Core Audio queues a listener block when the default input
device changes; starting a microphone stops and starts the active system tap.

## Modules

* `SampleStream` is the abstract specification of the ring: a bounded stream
  of numbered samples in which room is made for a chunk by dropping the oldest
  samples, and only as many as needed, the chunk then enters, and batches leave
  at the old end.
* `Bridge` is `go/bridge.c` with one action per load, store, copied sample and
  system call (`CallbackLoad`, `CallbackDrop`, `CallbackCopy`,
  `CallbackPublish`, `CallbackNotify`; `ReadLoadWrite`, `ReadLoadRead`,
  `ReadCopy`, `ReadReturn`, `ReadCheckClosed`, `ReadWake`, `ReadInterrupted`;
  `CloseSet`, `CloseNotify`). The locals of a function are variables of the
  model with the code's names. A sample is represented by its number, so that
  order, repetition and tearing can be told. Positions are taken modulo
  `PosRange`, for 2^32. `bridge_callback` loads both positions in one step:
  only the audio thread stores `write_pos`, so that the two loads together see
  what the second would. The last definitions relate it to `SampleStream`
  (`INSTANCE ... WITH`, `ImplementsStream`) and give the two inductive
  invariants, `IInv` and `WakeInv`.
* `BridgeProofs` holds the proofs about `Bridge`.
* `Capture` is the abstract specification of the C library, what the programs
  over it rely on: a tap exists from the end of its creation to its
  destruction; its callback is called only while it exists and is wanted, that
  is from its start until its stop or destruction returns; when a stop or a
  failed start returns the tap is silent. Where audio pauses in between is left
  open. `GoTap`, `PyTap`, `CaptureBoth` and `Recording` reduce a tap to parts
  of this.
* `AudioTap` is the C library. Threads are the caller and, for each microphone
  tap, its listener queue; `pc[th]` is where a thread is, `frame[th]` its
  locals (the called function, the tap, the system tap it works on,
  `was_running`, the new device, the status). A step ends at every Core Audio
  call, at the mutex, and at each access to a field that no mutex protects.
  Core Audio is external and modelled by what the library assumes of it: a
  table `procs` of registered IO procs with the device, the client data and
  whether it was started; the objects of a system tap; listeners and their
  queued blocks; the default device; `AudioDeviceStart` of a microphone, which
  blocks while an aggregate device runs (`src/audiotap_internal.h:37-40`).
  Every Core Audio call and allocation that can fail may fail. History:
  `want` is the set of taps whose start succeeded and that were not stopped.
  `ImplementsCapture` relates it to `Capture`: a tap may be heard when one of
  its registered IO procs is started (`Sounding`), the call is the caller's
  frame.
* `MCAudioTap` gives it one system tap, one microphone tap and two devices.
* `AudioTapProofs` holds the proofs about `AudioTap` that need nothing of the
  environment, `AudioTapCalmProofs` those that do.
* `GoTap` is `go/audiotap.go`: goroutines and the collector's goroutine, `pc`
  before and inside C, the two C objects, `closed`, `once`, the finalizer. The
  look at `closed` (`CheckClosed`) and the entry into C (`EnterC`) are two
  steps, a Start looks at `running` (`StartLooks`) and registers an IO proc
  (`StartReturns`) in two, without a second look, so that two of them leave an
  IO proc the tap does not know (`orphan`). The ring is abstracted to whether
  it holds samples and whether the self-pipe holds bytes: `bridge_close` writes
  one byte and a reader takes up to 64, so that of two goroutines blocked in
  Read one can stay blocked. Nothing keeps Close from freeing what another
  goroutine uses; such a call (`UseFreed`) returns or never does, and a Start
  may have registered an IO proc for a tap that is gone. The history variable
  `overlap`, which no action reads, records whether a Start, Stop or IsRunning
  has overlapped another of these, a Close or the finalizer: the two
  properties that the code keeps only without such an overlap name it. The C side is reduced:
  no restart by the listener and no second tap (these are in `AudioTap`), and
  the bodies of Start, Stop and `audiotap_destroy` are taken to return.
* `GoTapProofs` holds the proofs about `GoTap`.
* `CaptureBoth` is the recorder, over taps reduced to what `GoTap` shows: Read
  looks at `closed`, then blocks until there are samples or the tap is closed;
  `Close` wakes the reader and `Free` frees the ring, whether the reader has
  left it or not. A read of the freed ring (`ReadFreed`) returns samples or an
  end, or never returns. Its proofs are few and at its end.
* `IoProc` holds the two IO procs as operators on one buffer (channels, bytes,
  samples): which buffers are passed over, how many frames a buffer has, and
  the call of the callback with its upmix or downmix.
* `Recording` composes them with `examples/capture_both.c` (main, and the audio
  thread of each source, one action per buffer) and with `pcm2wav`, which may
  convert a file at any time: `Stat`, `WriteHeader`, and `Copy` until it finds
  nothing more. What other programs see of an open file is any part of it that
  only grows, for stdio. The history `handled` keeps the buffers and where in
  the file the samples of each begin, so that `FileHoldsRecording` can compare
  the file frame by frame (`FrameOf`, `Converted`) with what the IO procs'
  loops over samples have made of the buffers.
* `MCRecording` gives it the buffers.
* `RecordingProofs` holds the proofs about `Recording`.
* `PcmPlay` is `play_f32le` of `go/cmd/pcmplay` with its two callbacks. The
  audio queue is external and modelled by what the code relies on (see below).
* `PcmPlayProofs` holds the proofs about `PcmPlay`.
* `PyTap` is a tap of the Python binding: threads, the collector, the audio
  thread and the interpreter lock, over an `audiotap_t` reduced to what
  `AudioTap` shows: it is alive until destroyed, and stop and destroy return
  when no callback of its IO proc runs. As in `GoTap`, two `start()` that
  overlap leave an IO proc it does not know (`orphan`); `overlap` records
  whether two have.
* `PyTapProofs` holds the proofs about `PyTap`.

Operators named after a plausible slip (`CallbackDropOneShort`,
`LockWithoutMutex`, ...) and marked "Mutant" are variants of the definition
below them. They are used only to show that a property notices: with the
variant in place of the definition TLC finds that property violated.

## Assumptions about the environment

Four constants separate what the code guarantees from what it leaves to its
environment. Each has a passing run with the friendly value; for all but the
last the unfriendly value is in a run that ends in a counterexample. Two
history variables (`overlap` in `GoTap` and `PyTap`) do the same inside three
properties: they say what holds until the calls of the program overlap in a way
the code is not made for, while the model lets them overlap.

* `DropRaces` (`Bridge`): may a callback that has to drop samples overlap a
  read that is between its first load and its store? FALSE describes a reader
  that keeps up, or that is not inside `bridge_read` when the ring overflows.
  `bridge_racing` and `bridge_order` use TRUE.
* `CallAnytime` and `OverlapCalls` (`AudioTap`): may a call begin while a
  device change is being handled, and in which calls may the default device
  change? In `tap_calm` it may change in microphone start and stop, behind the
  unlocked look at `running`. For the proofs this is the hypothesis `Calm` of
  `AudioTapCalmProofs`, which leaves the number of taps open and says in
  addition that a system tap goes with at most one microphone tap: two
  microphone taps have a mutex each, and the pause and resume of the system tap
  by the listener of one and by a start of the other can overlap. In an
  instance with one system tap, two microphone taps and two devices TLC finds
  `NeverUnderAggregate` violated that way. Two of the theorems add
  `OneSystemTap`: the one pointer forgets the first of two running system taps,
  and TLC finds `RestConsistent` violated with two system taps and
  `NeverUnderAggregate` with a microphone tap besides.
* `overlap` (`GoTap`): `CallsFindTap` and `CallbackHasBridge` hold until a
  Start, Stop or IsRunning overlaps another of these, a Close or the finalizer.
  Reads and Closes may overlap with anything. Without the condition TLC finds
  both violated: a Stop that has passed its check of `closed` uses a tap that
  Close has freed, and two Starts leave an IO proc that calls back after Close.
  Everything else about `GoTap` needs no such condition, and `ReadCloseSafe` is
  violated without any such overlap.
* `overlap` (`PyTap`): `CallbackHasTrampoline` holds until two `start()`
  overlap. Without the condition TLC finds it violated: the second IO proc is
  registered over the first, which calls the trampoline after the tap is
  destroyed and collected.
* `DestroyAlone` (`PyTap`): is `destroy()` called only when no other thread is
  in a method of the tap? Nothing in the binding sees to it. With FALSE TLC
  finds `NoUseAfterFree` violated in a few steps: a thread in `stop()` has read
  the handle and released the lock when another destroys the tap. `__del__`
  needs no assumption, a thread in a method refers to the object.

What the code relies on of the systems below it is modelled as follows. Core
Audio: `AudioDeviceStop` returns when no IO proc of the device runs any more.
The audio queue: buffers are played in the order they were enqueued;
`AudioQueueStop(queue, false)` lets a running queue play out and then stop;
listeners are called for the start and for the stop; `AudioQueueDispose(queue,
true)` waits for the queue's thread. Of a queue that has not been started there
is nothing to stop. The interpreter: Python code runs under the lock, a thread
can be made to give way between any two steps, and ctypes releases the lock
around a call through a `CDLL` and takes it for a callback. Devices have one or
two channels (`RecordingAssumption`); a system tap's are those it was created
with, since it is a mixdown.

Memory is sequentially consistent in all models. The acquire and release
orderings of `bridge.c` are those of the operations that hand samples over;
what a weaker memory could do in addition is not modelled. A callback carries
at least one sample and at most the size of the ring (`MaxCount <= RingSize`).

## Runs

| Run | Question | Bounds |
|---|---|---|
| `bridge_separate` | does the ring deliver exactly, implement the stream, and wake the reader? | ring of 3, positions modulo 6, chunks up to 3, reads up to 2, 7 samples: the ring fills, drops, wraps its slots twice and its positions once; the pipe holds one byte, so that it is full |
| `bridge_racing` | does close end a read also when drops and reads overlap? | ring of 2, positions modulo 4, 5 samples, pipe of 2 bytes |
| `bridge_order` | are samples still in order then? No | as above, chunks of 1 |
| `tap_calm` | do the taps do what was asked, after any sequence of calls, and implement `Capture`? | one tap of each type, two devices and the loss of both, one failure, two device changes, three IO procs at once; the sequence of calls is not bounded |
| `tap_lost_stop` | stop during a listener restart | one microphone tap, one change |
| `tap_hang` | start of a system tap during a listener restart | one tap of each type, one change |
| `go_close` | are resources released once and in order, and does Close always return, whatever overlaps? | two goroutines, the finalizer, one Tap; the sequence of calls is not bounded |
| `go_read_close` | may Close free what Read uses? Yes | the same |
| `capture_both` | does the recorder end, unless a read of a freed ring never does, with its files open until then? | exact: the program has no further state |
| `recording` | do the files hold what the devices delivered, converted, and do WAV headers describe them? | tap channels 1 and 2; cycles of one or two buffers of 1 and 2 channels, empty, whole, and with bytes and samples behind the last frame; one cycle of the system tap and two of the microphone; size fields modulo 64, which recordings reach |
| `pcm_play` | is the file played to its end, and is everything over when `play_f32le` returns? | frames of 3 bytes, buffers of 2 frames, 11 file sizes from 0 to 40 bytes: ends in each of the primed buffers, at a buffer's end, within a frame, and two buffers later |
| `py_tap` | is no freed tap used, no collected trampoline until two `start()` overlap, and does every call return? | two threads, one tap; the sequence of calls is not bounded |

What the properties say is written above each definition. `RestConsistent`,
`RunsAsAsked`, `FollowsDefault` speak of the moments when no call and no
listener block is under way (`FollowsDefault` of those without a failed Core
Audio call before: a listener that cannot be registered is ignored by the code); `NoOrphanIoProc`, `NeverUnderAggregate`,
`NoUseAfterFree`, `MicSerialized` of every moment. `MicSerialized` says who
holds a microphone tap's mutex: the one thread between `lock` and `unlock`, at
the labels of `audiotap_system_start` and `audiotap_system_stop` too when it
pauses and resumes the system tap. It does not follow that starts and stops are
serialized: their looks at `running` are outside (`tap_lost_stop`).
`Terminates` of `capture_both` excepts a read loop that stays inside
`bridge_read` on a freed ring for ever: main closes taps whose loops are in
Read, which is the program of `go_read_close`.

Bounds are named constants: `MaxSamples`, `MaxProcs`, `MaxFaults`,
`MaxChanges`. Every race found needs one device change and at most two taps; a
second failure adds nothing a first one does not because a failed call leaves
the state of a tap that was never started (which is `RestConsistent`).

### What the counterexamples show

1. `bridge_order`: the store of `read_pos` in `bridge_read` (line 105) uses a
   value loaded before the copy. A drop in between is undone, and samples are
   returned a second time; or the audio thread overwrites slots that are being
   copied. The repository's test expects increasing values under contention
   (`go/tests/test_bridge.c:532`).
2. `tap_lost_stop`: `audiotap_stop` returns at once when the listener has set
   `running` to 0 for a restart, and the microphone then runs on. The README
   says that starts and stops are serialized by the mutex.
3. `tap_hang`: the pause of the system tap is decided before
   `AudioDeviceStart`, without a lock that a concurrent start would take.
4. `go_read_close`: `Close` frees the bridge under a running `Read`, which the
   comment on `Tap` calls safe.

Overlapping starts (`src/audiotap_common.c:11`) are among the hazards: without
the condition on `overlap`, `CallbackHasBridge` and `CallbackHasTrampoline` are
violated in the instances of `go_close` and `py_tap`. Two more weaknesses of
the C library show when the
constants of `AudioTap_lost_stop.cfg` are given other values of `MCAudioTap`.
With `Calls <- DestroyCalls`, `OverlapCalls <- DestroyMic` and `NoUseAfterFree`
as the invariant, `audiotap_destroy` frees the tap while `handle_device_change`
works on it. With `OverlapCalls <- CreateMicCall`, `CallAnytime = FALSE` and
`FollowsDefault` as the invariant, a change between the read of the default
device and the registration of the listener is never noticed.

## Fairness

`Bridge`: weak fairness of the step a thread inside a call takes next, of the
byte `bridge_close` writes, and of the reader's next call: the read loops call
`bridge_read` again after each batch. The device need not deliver, nobody need
close, no signal need arrive. `AudioTap`: weak fairness of every thread inside
the library and of the listener queues (serial dispatch queues run their
blocks); the user need not answer the permission dialog, which is why
`CallsReturn` ends in "ready or dialog". `GoTap`: Close goes on and a callback
returns; strong fairness of Close because the end of a callback enables the
stop of a device only until the next callback begins. A Tap nothing refers to
is collected. Nothing is assumed of the other calls: a Read may block for ever,
so may a call on a freed object, and Close returns nevertheless. `CaptureBoth`: main, the timer and the loops go on; samples need not
arrive, and a read of a freed ring need not return. `PcmPlay`: main goes on, and the queue plays what it has. `PyTap`:
strong fairness of every thread for the interpreter lock and for its next step
(the interpreter makes the holder give way, and does so between any two steps,
so that weak fairness of a step under the lock would not be enough); a callback
that has the lock returns. The program need not call anything. `Recording` has
no liveness property: how long it runs is the user's choice.

## Proofs

`BridgeProofs`, for every `RingSize`, `PosRange` (a multiple of it, at least
twice as large), `MaxCount`, `MaxRead`, `PipeCap`, `DrainSize`, `MaxSamples`:

* `TypesHold`: `Spec => []TypeOK`, drops during reads included.
* `RingIsSound`: if `DropRaces` is FALSE, `Spec => []IInv`. `OccupancyBounded`
  and `ExactDelivery` are not inductive alone: that a batch is right depends on
  the contents of the slots, and those on what the audio thread has copied and
  on whether it still may drop. `IInv` says which slot holds which sample
  (`RingInv`), what the writer's locals mean at each of its labels
  (`WriterInv`), what the reader's mean (`ReaderInv`), and that a read and a
  pending drop exclude each other, which is where the assumption enters.
  `ExactDeliveryHolds` and `OccupancyHolds` follow.
* `NoLostWakeupHolds`: for both values of `DropRaces`, by `WakeInv`: from its
  load of `write_pos` on, whatever the reader has not seen has a byte in the
  pipe or one coming.
* `RingImplementsStream`: if `DropRaces` is FALSE every step of the ring is a
  step of `SampleStream` or a stutter. `CallbackLoad` or `CallbackDrop`
  reserves, `CallbackPublish` commits, `ReadReturn` takes, `CloseSet` closes.
* The lemmas are about the arithmetic: division with remainder, sums modulo
  `PosRange`, and the slots a copy touches, which are pairwise distinct for a
  copy no longer than the ring (`SlotInjective`) and shift with the position
  (`SlotShift`).

`AudioTapProofs`, for every set of taps and devices, every set of calls, both
values of `CallAnytime`, any number of faults and changes: `AudioTapTypes` and
`MicIsSerialized`. The invariant adds to the types that a thread in code for a
microphone tap works on one (`CallInv`), and that from `lock` to `unlock`, the
pause and resume of a system tap included, the thread holds the mutex of its
tap (`LockInv`). `MicSerialized` states the second part and that the thread is
therefore alone.

`AudioTapCalmProofs`, for every set of taps and devices and any number of
faults and changes, under `Calm`: `CalmHolds` is `Spec => []CalmInv`, and from
it follow `NoOrphanIoProcHolds`, `NothingLeftBehindHolds`,
`FollowsDefaultHolds`, `RunsAsAskedHolds`, `NoUseAfterFreeHolds` and, with
`OneSystemTap`, `RestConsistentHolds` and `NeverUnderAggregateHolds`. None of
these is inductive: four of them speak only of moments at rest, and what holds
then depends on every step of the call or restart before. `CalmInv` has layers,
each of which needs those before it.

* `CallShape` says which function on which tap a thread at a label is in, that
  the listener of a microphone tap and a call overlap only where the
  environment lets them, and that a mutex is held by a thread on its way to
  release it.
* `Registry` relates `running`, `io_proc_id`, the table of IO procs and the
  global pointer at each label (`MicPhase`, `SysPhase`), and says that a tap
  nobody works on is at peace (`MicRest`, `SysRest`). A caller that has passed
  the look at `running` and waits for the mutex is the delicate case: that the
  tap does not run when it gets the mutex is `WaitInv`, and it is there that
  `Calm` enters.
* `Lifetimes` says that what runs, is registered, listens or is active has been
  created and not destroyed (`TapLife`), and so has what a thread works on
  (`ThreadLife`).
* `FollowInv` says that a live microphone tap hears of changes, and is on the
  default device, or on its way there, or has a block queued that will look.
* `Wishes` relates `want` to the taps that run or will when the restart or the
  pause that is under way is over (`Up`), and the result a call is about to
  return to both.

TLC checked `CalmInv` before it was proved, on instances of one and two system
taps and of one and two microphone taps. In `NextRegistry` and its lemmas there
is a case per action, and under it one per part of the layer.

`CapturePromised`, also under `Calm`: `Spec => ImplementsCapture`. `Call` begins
a call of `Capture`, the caller's `Return` ends it, `CreateAlloc` and
`CreateMic` create when they succeed, `Free` frees, and every other step is one
of `Sound`, which asks that every tap that may be heard afterwards exists and
is wanted. That is a fact about states (`SoundingWanted`): a tap whose IO proc
is started runs, or will again, or the caller is inside its code with the mutex
held (`OnUp`), and then `Lifetimes` and `Wishes` apply. The ends of calls need
what a creation and a destruction have come to in addition (`DoneInv`).

`GoTapProofs`, for every set of goroutines and without a hypothesis:
`TapIsSound` is `Spec => []IInv`. None of the properties is inductive. `NoLeak`
and `CloseReleases` rest on the body of Close being run by one goroutine, once,
and freeing nothing before it has set `closed` (`CloserInv`), and on what exists
when (`LifeInv`): they hold whatever overlaps. `CallsFindTap` and
`CallbackHasBridge` rest on `OverlapInv` in addition: as long as `overlap` is
FALSE, a goroutine in Start, Stop or IsRunning is alone with the tap, so that
the `closed` it has seen FALSE still is, the `running` it has seen FALSE still
is, and no IO proc is orphaned. `NoLeakHolds`, `CloseReleasesHolds`,
`CallsFindTapHolds` and `CallbackHasBridgeHolds` follow. `go_read_close` is the
counterexample to what the two do not say, of Read.

`CaptureBoth`: `LoopsAreCounted` and `FilesOutliveLoopsHolds`. Every loop
that main started is counted, every loop that ended has sent one value, so that
when main has received as many values as it has counted all have ended.

`RecordingProofs`, for every set of configurations and cycles, any number of
cycles, and every range of a size field: `FilesOutliveCallbacksHolds` by `IInv`
(a source has buffers to handle only while its tap runs, and main closes files
only when no tap does), `FileHoldsRecordingHolds` by `HeldInv`, and
`WavDescribesFileHolds` by `WavInv`. `HeldInv` adds that no buffer's samples
reach behind the end of the file, so that what is appended leaves them alone;
that the appended samples are the frames of the buffer in the tap's channels is
`CallConverts`. That a header
is right for a complete file depends on the file holding whole frames, which
depends on what the IO procs hand over: `MicCallProperties` and
`SystemCallProperties` say that a callback gets exactly `FrameCount` frames of
the tap's channels, in bounds of the buffer, whatever the device's channels.

`PcmPlayProofs`, for every set of file sizes, and all buffer and frame sizes
where a buffer holds whole frames: `PlaybackIsSound`, and from it
`PlaysWholeFileHolds` and `StateOutlivesCallbacksHolds`. The invariant says how
the phases of main and of the queue correspond (`QueueInv`), that the polled
flag implies a stopped queue and that a file read to its end (`FlagInv`), and
that all queued buffers but the last are full and played and queued bytes
together are what was read (`ReadInv`).

`PyTapProofs`, for every set of threads, if `DestroyAlone` is TRUE:
`PyTapIsSound`, and from it `NoUseAfterFreeHolds` and
`CallbackHasTrampolineHolds`, the last until two `start()` overlap
(`StartInv`). The handle alone does not tell whether the tap is
alive, as the constructor sets it after the tap exists and destroy clears it
after the tap is gone; the invariant is that a thread in one of these gaps is
alone in the tap (`AloneInv`), and what holds in the gaps (`LifeInv`).

The proofs assume `BridgeAssumption`, `AudioTapAssumption`, `GoTapAssumption`,
`RecordingAssumption`, `PcmPlayAssumption` and `PyTapAssumption`, which TLC
evaluates in the runs. Model-checked only: liveness under fairness
(`EverySampleLeaves`, `CloseUnblocks`, `CloseReturns`, `ForgottenIsReleased`,
 `ChangesHandled`, `Terminates`, `PlaybackEnds`, and
`CallsReturn` of `AudioTap` and of `PyTap`), which is out of the prover's
reach. Every safety invariant of a passing run is stated by a theorem.

## Not modelled

The resolution of process ids to audio objects, which keeps no state: it is one
failure of the creation of a system tap (that the list of process objects can
change between the query of its size and of its contents is listed as a
hazard). The contents of configurations, sample rates, mute;
`audiotap_error_string`; NULL arguments and errors of `read()` other than
`EINTR` in the bridge; the test-only mock of the permission. Buffers of no or
more than two channels. The waveform, cursor and ticker of `pcmplay`, which
draw on a terminal and decide nothing. A short or failed `fwrite`, which the
callbacks of the C recorder ignore (`examples/capture_both.c:20,28`):
`FileHoldsRecording` is about a disk that takes what is written. In `pcm2wav` the options and failures
that end the program. In the Python binding the search for the library, the
permission functions, user callbacks that raise, and the end of the
interpreter. The Python example (the order of calls of the C recorder), build
and CI.

## Plan

Done, in this order: the ring (the part with the most interleavings and the
least locking) with its abstract specification and proofs; the C library; the
Go Tap; the Go recorder; then the IO procs with the C recorder and `pcm2wav`,
`pcmplay`, and the Python binding, with their proofs; then the proofs of the C
library in its calm environment and its refinement of `Capture`. Next:

1. `GoTap`, `PyTap` and `Recording` over `Capture` itself: their taps should be
   shown to allow what `Capture` allows, where each now states its own part.
2. Two system taps, and two microphone taps with a system tap, as runs of
   `AudioTap` that show what the hypotheses of its theorems exclude.
3. `NothingLeftBehind` and `NoOrphanIoProc` with any number of microphone taps
   besides a system tap: the hypothesis is needed for pause and resume, and
   probably not for these two.
4. The window of the waveform in `pcmplay` as a function against a reference.
