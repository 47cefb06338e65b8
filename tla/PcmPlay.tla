------------------------------ MODULE PcmPlay ------------------------------
(***************************************************************************)
(* play_f32le of go/cmd/pcmplay/main.go: the main thread primes three      *)
(* buffers, starts an audio queue and polls a flag; the queue's thread     *)
(* refills each buffer it has played and tells when it stops.  The audio   *)
(* queue is external and modelled by what the code relies on: buffers are  *)
(* played in order; AudioQueueStop(queue, false) lets a running queue play *)
(* out and has nothing to stop in one that has not been started;           *)
(* AudioQueueDispose(queue, true) waits for the queue's thread.            *)
(***************************************************************************)
EXTENDS Naturals, Sequences

CONSTANTS
  FileSizes,    \* the sizes in bytes of the files to play
  BufBytes,     \* capacity of a buffer
  FrameBytes    \* bytes of a frame

NumBufs == 3

ASSUME PcmPlayAssumption ==
  /\ FileSizes \subseteq Nat
  /\ FrameBytes \in Nat \ {0} /\ BufBytes \in Nat \ {0}
  /\ BufBytes % FrameBytes = 0

VARIABLES
  main,      \* where play_f32le is
  primed,    \* buffers primed
  rc,        \* "ok" or "error"
  size,      \* of the file
  left,      \* bytes of the file not yet read
  readError, \* history: has a read failed?
  finished,  \* PlayerState.finished
  stopped,   \* the flag main polls
  queue,     \* "none", "new", "running", "stopping", "stopped", "disposed"
  enqueued,  \* sizes of the buffers waiting to be played
  played,    \* history: bytes played
  callback,  \* is the queue's thread in outputCallback?
  changes    \* calls of isRunningChanged that are due

vars == <<main, primed, rc, size, left, readError, finished, stopped, queue, enqueued, played,
          callback, changes>>
program == <<main, primed, rc, stopped, size>>

Init ==
  /\ main = "new" /\ primed = 0 /\ rc = "ok"
  /\ size \in FileSizes /\ left = size /\ readError = FALSE
  /\ finished = FALSE /\ stopped = FALSE
  /\ queue = "none" /\ enqueued = <<>> /\ played = 0 /\ callback = FALSE /\ changes = 0

-----------------------------------------------------------------------------
(* outputCallback, called by main for the first buffers and by the queue.  *)

\* AudioQueueStop(queue, false).
PlayOut == queue' = IF queue = "running" THEN "stopping" ELSE queue

Finish == finished' = TRUE /\ PlayOut /\ UNCHANGED enqueued

\* read() of a regular file gives a full buffer or what is left.
ReadFails ==
  /\ ~finished
  /\ readError' = TRUE /\ Finish /\ UNCHANGED left

\* Mutant: only whole buffers are played.
ReadChunkOfBuffer ==
  /\ ~finished
  /\ LET n == IF left < BufBytes THEN left ELSE BufBytes
         whole == n - (n % BufBytes) IN
       /\ left' = left - n
       /\ IF whole = 0 THEN Finish
          ELSE enqueued' = Append(enqueued, whole) /\ UNCHANGED <<finished, queue>>
  /\ UNCHANGED readError

\* Mutant: the end of the file does not stop the queue.
ReadChunkNoStop ==
  /\ ~finished
  /\ LET n == IF left < BufBytes THEN left ELSE BufBytes
         whole == n - (n % FrameBytes) IN
       /\ left' = left - n
       /\ IF whole = 0 THEN finished' = TRUE /\ UNCHANGED <<enqueued, queue>>
          ELSE enqueued' = Append(enqueued, whole) /\ UNCHANGED <<finished, queue>>
  /\ UNCHANGED readError

\* A partial frame at the end is dropped.
ReadChunk ==
  /\ ~finished
  /\ LET n == IF left < BufBytes THEN left ELSE BufBytes
         whole == n - (n % FrameBytes) IN
       /\ left' = left - n
       /\ IF whole = 0 THEN Finish
          ELSE enqueued' = Append(enqueued, whole) /\ UNCHANGED <<finished, queue>>
  /\ UNCHANGED readError

OutputCallback ==
  \/ ReadFails
  \/ ReadChunk
  \/ finished /\ UNCHANGED <<left, readError, finished, queue, enqueued>>

-----------------------------------------------------------------------------
(* play_f32le.                                                             *)

Return(status) == main' = "returned" /\ rc' = status

NewOutput ==
  /\ main = "new"
  /\ \/ main' = "prime" /\ queue' = "new" /\ UNCHANGED rc
     \/ Return("error") /\ UNCHANGED queue
  /\ UNCHANGED <<primed, size, left, readError, finished, stopped, enqueued, played, callback, changes>>

Prime ==
  /\ main = "prime" /\ primed < NumBufs
  /\ OutputCallback /\ primed' = primed + 1
  /\ UNCHANGED <<main, rc, size, stopped, played, callback, changes>>

\* AudioQueueAllocateBuffer or AudioQueueStart fails.
GiveUp ==
  /\ main = "prime"
  /\ Return("error") /\ queue' = "disposed"
  /\ UNCHANGED <<primed, size, left, readError, finished, stopped, enqueued, played, callback, changes>>

StartQueue ==
  /\ main = "prime" /\ primed = NumBufs
  /\ main' = "poll" /\ queue' = "running" /\ changes' = changes + 1
  /\ UNCHANGED <<primed, rc, size, left, readError, finished, stopped, enqueued, played, callback>>

\* Mutant: the queue is disposed of without waiting for its thread.
PollNoWait ==
  /\ main = "poll" /\ stopped
  /\ Return("ok") /\ queue' = "disposed"
  /\ UNCHANGED <<primed, size, left, readError, finished, stopped, enqueued, played, callback, changes>>

\* The poll ends; AudioQueueDispose(queue, true) waits for callbacks that run
\* and discards those that are due.
Poll ==
  /\ main = "poll" /\ stopped /\ ~callback
  /\ Return("ok") /\ queue' = "disposed" /\ changes' = 0
  /\ UNCHANGED <<primed, size, left, readError, finished, stopped, enqueued, played, callback>>

-----------------------------------------------------------------------------
(* The queue.                                                              *)

BufferPlayed ==
  /\ queue \in {"running", "stopping"} /\ enqueued # <<>> /\ ~callback
  /\ played' = played + Head(enqueued) /\ enqueued' = Tail(enqueued)
  /\ callback' = TRUE
  /\ UNCHANGED <<program, left, readError, finished, queue, changes>>

Callback ==
  /\ callback
  /\ OutputCallback /\ callback' = FALSE
  /\ UNCHANGED <<program, played, changes>>

QueueStops ==
  /\ queue = "stopping" /\ enqueued = <<>> /\ ~callback
  /\ queue' = "stopped" /\ changes' = changes + 1
  /\ UNCHANGED <<program, left, readError, finished, enqueued, played, callback>>

IsRunningChanged ==
  /\ changes > 0
  /\ changes' = changes - 1
  /\ stopped' = (stopped \/ queue \notin {"running", "stopping"})
  /\ UNCHANGED <<main, primed, rc, size, left, readError, finished, queue, enqueued, played, callback>>

MainStep == NewOutput \/ Prime \/ GiveUp \/ StartQueue \/ Poll
QueueStep == BufferPlayed \/ Callback \/ QueueStops \/ IsRunningChanged

Next == MainStep \/ QueueStep

Spec == Init /\ [][Next]_vars

\* main goes on, and the queue plays.
FairSpec == Spec /\ WF_vars(MainStep) /\ WF_vars(QueueStep)

-----------------------------------------------------------------------------
(* Properties.                                                             *)

TypeOK ==
  /\ main \in {"new", "prime", "poll", "returned"} /\ primed \in 0..NumBufs
  /\ rc \in {"ok", "error"} /\ size \in FileSizes /\ left \in 0..size
  /\ readError \in BOOLEAN /\ finished \in BOOLEAN /\ stopped \in BOOLEAN /\ callback \in BOOLEAN
  /\ queue \in {"none", "new", "running", "stopping", "stopped", "disposed"}
  /\ enqueued \in Seq(Nat) /\ played \in Nat /\ changes \in 0..2

\* A playback that ends without an error has played the whole frames of the
\* file, although the flag that ends it is set by another thread.
PlaysWholeFile ==
  main = "returned" /\ rc = "ok" /\ ~readError => played = size - (size % FrameBytes)

\* Nothing of the queue runs when play_f32le has returned: state and stopped
\* are its local variables.
StateOutlivesCallbacks ==
  main = "returned" => queue \in {"none", "disposed"} /\ ~callback /\ changes = 0

\* Playback ends, of a file that the first three buffers did not exhaust.
PlaybackEnds == main = "poll" /\ ~finished ~> main = "returned"
=============================================================================
