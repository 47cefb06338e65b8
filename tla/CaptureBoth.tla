---------------------------- MODULE CaptureBoth ----------------------------
(***************************************************************************)
(* go/cmd/capture_both/main.go: main creates and starts two taps, runs one *)
(* read loop per tap, waits for a signal or the duration, closes the taps  *)
(* and waits for the loops through the channel `done'.  A tap is what      *)
(* module GoTap shows of it: Read looks at Tap.closed, then blocks in      *)
(* bridge_read until there are samples, also ones left from before Close,  *)
(* or the tap is closed; and Close goes on to free the ring, whether Read  *)
(* has left it or not.                                                     *)
(***************************************************************************)
EXTENDS Naturals, TLAPS

Sources == {"system", "microphone"}
DoneCap == 2   \* make(chan struct{}, 2)

VARIABLES
  main,    \* where main is
  tap,     \* of a source: "none" (nil), "open", "closed" (Tap.closed is set
           \* and the reader woken), "freed" (Close has returned)
  started, \* the taps whose Start returned nil
  loop,    \* of a source: "off", "read", "blocked", "write", "return",
           \* "ended"
  active,  \* main's counter of read loops
  done,    \* values in the channel
  joined   \* values main has received

vars == <<main, tap, started, loop, active, done, joined>>

Init ==
  /\ main = "create_system"
  /\ tap = [x \in Sources |-> "none"] /\ started = {}
  /\ loop = [x \in Sources |-> "off"] /\ active = 0
  /\ done = 0 /\ joined = 0

-----------------------------------------------------------------------------
\* A tap that cannot be created is reported and left nil; without any tap
\* the program ends (log.Fatal).
Create(x, here, next) ==
  /\ main = here
  /\ tap' \in {tap, [tap EXCEPT ![x] = "open"]}
  /\ main' = next
  /\ UNCHANGED <<started, loop, active, done, joined>>

CreateSystem == Create("system", "create_system", "create_mic")
CreateMic == Create("microphone", "create_mic", "check")

CheckTaps ==
  /\ main = "check"
  /\ main' = IF \A x \in Sources : tap[x] = "none" THEN "fatal" ELSE "start"
  /\ UNCHANGED <<tap, started, loop, active, done, joined>>

\* A Start that fails is reported; the tap stays, and so does its read loop.
StartTaps ==
  /\ main = "start"
  /\ started' \in SUBSET {x \in Sources : tap[x] # "none"}
  /\ main' = "spawn_system"
  /\ UNCHANGED <<tap, loop, active, done, joined>>

\* Mutant: only taps that were started are counted.
SpawnUncounted(x, here, next) ==
  /\ main = here
  /\ IF tap[x] = "none" THEN UNCHANGED <<loop, active>>
     ELSE loop' = [loop EXCEPT ![x] = "read"] /\ active' = IF x \in started THEN active + 1 ELSE active
  /\ main' = next
  /\ UNCHANGED <<tap, started, done, joined>>

Spawn(x, here, next) ==
  /\ main = here
  /\ IF tap[x] = "none" THEN UNCHANGED <<loop, active>>
     ELSE loop' = [loop EXCEPT ![x] = "read"] /\ active' = active + 1
  /\ main' = next
  /\ UNCHANGED <<tap, started, done, joined>>

\* A signal, or the end of the duration.
Wait ==
  /\ main = "wait"
  /\ main' = "close_system"
  /\ UNCHANGED <<tap, started, loop, active, done, joined>>

\* Mutant: a tap that is not capturing is not closed.
CloseIfStarted(x, here, next) ==
  /\ main = here
  /\ tap' = IF tap[x] = "open" /\ x \in started THEN [tap EXCEPT ![x] = "closed"] ELSE tap
  /\ main' = next
  /\ UNCHANGED <<started, loop, active, done, joined>>

\* Tap.Close up to bridge_close,
Close(x, here, next) ==
  /\ main = here
  /\ tap' = IF tap[x] = "open" THEN [tap EXCEPT ![x] = "closed"] ELSE tap
  /\ main' = next
  /\ UNCHANGED <<started, loop, active, done, joined>>

\* and up to bridge_destroy: nothing waits for the loop to leave bridge_read.
Free(x, here, next) ==
  /\ main = here
  /\ tap' = IF tap[x] = "closed" THEN [tap EXCEPT ![x] = "freed"] ELSE tap
  /\ main' = next
  /\ UNCHANGED <<started, loop, active, done, joined>>

\* for i := 0; i < active; i++ { <-done }, then the deferred file closes.
Join ==
  /\ main = "join" /\ joined < active /\ done > 0
  /\ done' = done - 1 /\ joined' = joined + 1
  /\ UNCHANGED <<main, tap, started, loop, active>>

Exit ==
  /\ main = "join" /\ joined = active
  /\ main' = "exit"
  /\ UNCHANGED <<tap, started, loop, active, done, joined>>

-----------------------------------------------------------------------------
(* readLoop.                                                               *)

Loop(x, from, to) ==
  loop[x] = from /\ loop' = [loop EXCEPT ![x] = to]

InFreed(x) == loop[x] = "blocked" /\ tap[x] = "freed"

ReadCheck(x) ==
  /\ Loop(x, "read", IF tap[x] \in {"closed", "freed"} THEN "return" ELSE "blocked")
  /\ UNCHANGED <<main, tap, started, active, done, joined>>

ReadSamples(x) ==
  /\ x \in started /\ tap[x] # "freed" /\ Loop(x, "blocked", "write")
  /\ UNCHANGED <<main, tap, started, active, done, joined>>

ReadEOF(x) ==
  /\ tap[x] = "closed" /\ Loop(x, "blocked", "return")
  /\ UNCHANGED <<main, tap, started, active, done, joined>>

\* On a freed ring bridge_read finds samples, or an end, or goes on for ever.
ReadFreed(x) ==
  /\ InFreed(x)
  /\ Loop(x, "blocked", "write") \/ Loop(x, "blocked", "return")
  /\ UNCHANGED <<main, tap, started, active, done, joined>>

\* writeFloat32s; an error ends the loop.
WriteSamples(x) ==
  /\ Loop(x, "write", "read") \/ Loop(x, "write", "return")
  /\ UNCHANGED <<main, tap, started, active, done, joined>>

\* The deferred send blocks on a full channel.
SendDone(x) ==
  /\ done < DoneCap /\ Loop(x, "return", "ended")
  /\ done' = done + 1
  /\ UNCHANGED <<main, tap, started, active, joined>>

ReadLoop(x) == ReadCheck(x) \/ ReadEOF(x) \/ WriteSamples(x) \/ SendDone(x)

MainStep ==
  \/ CreateSystem \/ CreateMic \/ CheckTaps \/ StartTaps
  \/ Spawn("system", "spawn_system", "spawn_mic") \/ Spawn("microphone", "spawn_mic", "wait")
  \/ Close("system", "close_system", "free_system") \/ Free("system", "free_system", "close_mic")
  \/ Close("microphone", "close_mic", "free_mic") \/ Free("microphone", "free_mic", "join")
  \/ Join \/ Exit

Next == MainStep \/ Wait \/ \E x \in Sources : ReadSamples(x) \/ ReadFreed(x) \/ ReadLoop(x)

Spec == Init /\ [][Next]_vars

\* The duration ends; goroutines and main go on.  Samples need not arrive, and
\* a read of a freed ring need not return.
FairSpec ==
  /\ Spec
  /\ WF_vars(MainStep) /\ WF_vars(Wait)
  /\ \A x \in Sources : WF_vars(ReadLoop(x))

-----------------------------------------------------------------------------
(* Properties.                                                             *)

TypeOK ==
  /\ main \in {"create_system", "create_mic", "check", "fatal", "start", "spawn_system",
              "spawn_mic", "wait", "close_system", "free_system", "close_mic", "free_mic",
              "join", "exit"}
  /\ tap \in [Sources -> {"none", "open", "closed", "freed"}] /\ started \subseteq Sources
  /\ loop \in [Sources -> {"off", "read", "blocked", "write", "return", "ended"}]
  /\ active \in 0..2 /\ done \in 0..DoneCap /\ joined \in 0..2

(***************************************************************************)
(* The inductive invariant: main has counted every loop it has started,    *)
(* and every loop that has ended has sent one value, which is in the       *)
(* channel or received.                                                    *)
(***************************************************************************)
One(condition) == IF condition THEN 1 ELSE 0

IInv ==
  /\ TypeOK
  /\ active = One(loop["system"] # "off") + One(loop["microphone"] # "off")
  /\ done + joined = One(loop["system"] = "ended") + One(loop["microphone"] = "ended")
  /\ main \in {"create_system", "create_mic", "check", "fatal", "start", "spawn_system"} =>
       loop["system"] = "off"
  /\ main \in {"create_system", "create_mic", "check", "fatal", "start", "spawn_system",
               "spawn_mic"} => loop["microphone"] = "off"
  /\ main = "exit" => joined = active

\* main closes the output files only when no read loop can write any more.
FilesOutliveLoops ==
  main = "exit" => \A x \in Sources : loop[x] \in {"off", "ended"}

\* The recording ends, whichever taps exist, started, or stopped on a write
\* error before, unless a read loop that Close has found inside bridge_read
\* stays there, in a ring that is freed, for ever.
Terminates ==
  <>(main \in {"exit", "fatal"}) \/ \E x \in Sources : <>[]InFreed(x)

-----------------------------------------------------------------------------
(* The output files outlive the read loops.  The module has no constants;  *)
(* the proof shows the argument, which TLC's search does not: the count of *)
(* loops and the values in the channel agree.                              *)

USE DEF Sources, DoneCap

LEMMA InitIInv == Init => IInv
BY SMT DEF Init, IInv, TypeOK, One

\* main creates and starts the taps, and closes them, with the loops alone.
LEMMA MainKeeps ==
  ASSUME IInv, MainStep \/ Wait
  PROVE  IInv'
<1>1. CASE CreateSystem
  BY <1>1, SMT DEF CreateSystem, Create, IInv, TypeOK, One
<1>2. CASE CreateMic
  BY <1>2, SMT DEF CreateMic, Create, IInv, TypeOK, One
<1>3. CASE CheckTaps
  BY <1>3, SMT DEF CheckTaps, IInv, TypeOK, One
<1>4. CASE StartTaps
  BY <1>4, SMT DEF StartTaps, IInv, TypeOK, One
<1>5. CASE Spawn("system", "spawn_system", "spawn_mic")
  BY <1>5, SMT DEF Spawn, IInv, TypeOK, One
<1>6. CASE Spawn("microphone", "spawn_mic", "wait")
  BY <1>6, SMT DEF Spawn, IInv, TypeOK, One
<1>7. CASE Close("system", "close_system", "free_system")
  BY <1>7, SMT DEF Close, IInv, TypeOK, One
<1>8. CASE Close("microphone", "close_mic", "free_mic")
  BY <1>8, SMT DEF Close, IInv, TypeOK, One
<1>9. CASE Join
  BY <1>9, SMT DEF Join, IInv, TypeOK, One
<1>10. CASE Exit
  BY <1>10, SMT DEF Exit, IInv, TypeOK, One
<1>11. CASE Wait
  BY <1>11, SMT DEF Wait, IInv, TypeOK, One
<1>12. CASE Free("system", "free_system", "close_mic")
  BY <1>12, SMT DEF Free, IInv, TypeOK, One
<1>13. CASE Free("microphone", "free_mic", "join")
  BY <1>13, SMT DEF Free, IInv, TypeOK, One
<1> QED
  BY <1>1, <1>2, <1>3, <1>4, <1>5, <1>6, <1>7, <1>8, <1>9, <1>10, <1>11, <1>12, <1>13 DEF MainStep

LEMMA LoopKeeps ==
  ASSUME IInv, NEW x \in Sources, ReadSamples(x) \/ ReadFreed(x) \/ ReadLoop(x)
  PROVE  IInv'
<1>1. CASE ReadSamples(x)
  BY <1>1, SMT DEF ReadSamples, Loop, IInv, TypeOK, One
<1>2. CASE ReadCheck(x)
  BY <1>2, SMT DEF ReadCheck, Loop, IInv, TypeOK, One
<1>3. CASE ReadEOF(x)
  BY <1>3, SMT DEF ReadEOF, Loop, IInv, TypeOK, One
<1>4. CASE WriteSamples(x)
  BY <1>4, SMT DEF WriteSamples, Loop, IInv, TypeOK, One
<1>5. CASE SendDone(x)
  BY <1>5, SMT DEF SendDone, Loop, IInv, TypeOK, One
<1>6. CASE ReadFreed(x)
  BY <1>6, SMT DEF ReadFreed, InFreed, Loop, IInv, TypeOK, One
<1> QED BY <1>1, <1>2, <1>3, <1>4, <1>5, <1>6 DEF ReadLoop

\* Every loop main has started is counted, and its end is in the channel or
\* received.
THEOREM LoopsAreCounted == Spec => []IInv
<1>1. IInv /\ [Next]_vars => IInv'
  <2> SUFFICES ASSUME IInv, [Next]_vars PROVE IInv'
    OBVIOUS
  <2>1. CASE UNCHANGED vars
    BY <2>1, SMT DEF vars, IInv, TypeOK, One
  <2> QED BY <2>1, MainKeeps, LoopKeeps DEF Next
<1> QED BY <1>1, InitIInv, PTL DEF Spec

\* main closes the output files only when no read loop can write any more.
THEOREM FilesOutliveLoopsHolds == Spec => []FilesOutliveLoops
<1>1. IInv => FilesOutliveLoops
  BY SMT DEF IInv, TypeOK, One, FilesOutliveLoops
<1> QED BY <1>1, LoopsAreCounted, PTL
=============================================================================
