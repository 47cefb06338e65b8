------------------------------- MODULE GoTap -------------------------------
(***************************************************************************)
(* The Go binding's Tap (go/audiotap.go): goroutines that call Read,       *)
(* Start, Stop and Close, the garbage collector that runs Close as the     *)
(* finalizer, and the audio thread in bridge_callback.  Nothing in the     *)
(* binding waits for a goroutine that is inside C, so Close can free what  *)
(* another call uses; what such a call does then is undefined, and the     *)
(* model lets it return, hang or leave an IO proc behind.                  *)
(* The C side is what the binding uses of it: two allocations, a device    *)
(* that calls back (no restarts by the listener, no second tap: module     *)
(* AudioTap), and bridge_read with its pipe (module Bridge).               *)
(***************************************************************************)
EXTENDS Naturals, FiniteSets

CONSTANTS
  Goroutines,
  GC            \* the finalizer's goroutine

ASSUME GoTapAssumption == GC \notin Goroutines

Routines == Goroutines \cup {GC}
Ops == {"read", "start", "stop"}   \* IsRunning uses the tap like Stop does

VARIABLES
  bridge, ctap,   \* C objects: "none" yet, "live", or "gone" (freed, or the
                  \* constructor failed)
  b_closed,       \* bridge_state.closed
  data,           \* are there samples in the ring?
  pipe,           \* are there bytes in the self-pipe?
  running,        \* audiotap_t.running: its IO proc calls back
  orphan,         \* is there an IO proc that the tap does not know any more?
  callback,       \* the audio thread in bridge_callback: "none", or what it
                  \* does after its look at closed
  closed,         \* Tap.closed
  once,           \* Tap.once: "new", "running", "done"
  finalizer,      \* "none", "set", "cleared"
  held,           \* does some variable of the program still refer to the Tap?
  pc, op,
  overlap         \* history, read by properties only: did a Start, Stop or
                  \* IsRunning overlap another of these, Close or the finalizer?

ring == <<bridge, b_closed, data, pipe>>
device == <<ctap, running, orphan, callback>>
cside == <<ring, device>>
goside == <<closed, once, finalizer, held>>
vars == <<cside, goside, pc, op, overlap>>

Goto(g, label) == pc' = [pc EXCEPT ![g] = label]

\* A goroutine inside a C function, and what the function uses.
InBridge(g) == pc[g] = "blocked" \/ (pc[g] = "c" /\ op[g] = "read")
InTap(g) == pc[g] = "start" \/ (pc[g] = "c" /\ op[g] # "read")

\* A goroutine in Start, Stop or IsRunning, and one in Close.
Body == {"set_closed", "close_bridge", "free_tap", "free_bridge"}
Control(g) == pc[g] = "start" \/ (pc[g] \in {"check", "enter", "c"} /\ op[g] # "read")
Closing(g) == pc[g] \in {"once"} \cup Body

Init ==
  /\ bridge = "none" /\ ctap = "none" /\ b_closed = FALSE /\ data = FALSE /\ pipe = FALSE
  /\ running = FALSE /\ orphan = FALSE /\ callback = "none"
  /\ closed = FALSE /\ once = "new" /\ finalizer = "none" /\ held = FALSE
  /\ pc = [g \in Routines |-> "out"] /\ op = [g \in Routines |-> "none"]
  /\ overlap = FALSE

-----------------------------------------------------------------------------
(* NewSystemTap, NewMicTap: a bridge, then a tap; the bridge is freed when *)
(* there is no tap.                                                        *)

CreateBridge ==
  /\ bridge = "none"
  /\ bridge' = "live"
  /\ UNCHANGED <<b_closed, data, pipe, device, goside, pc, op, overlap>>

\* Mutant: no finalizer is set.
CreateTapNoFinalizer ==
  /\ bridge = "live" /\ ctap = "none" /\ finalizer = "none"
  /\ ctap' = "live" /\ held' = TRUE
  /\ UNCHANGED <<ring, running, orphan, callback, closed, once, finalizer, pc, op, overlap>>

CreateTap ==
  /\ bridge = "live" /\ ctap = "none" /\ finalizer = "none"
  /\ ctap' = "live" /\ finalizer' = "set" /\ held' = TRUE
  /\ UNCHANGED <<ring, running, orphan, callback, closed, once, pc, op, overlap>>

\* Mutant: the bridge is kept when the tap cannot be created.
CreateTapFailsKeepsBridge ==
  /\ bridge = "live" /\ ctap = "none" /\ finalizer = "none"
  /\ ctap' = "gone"
  /\ UNCHANGED <<ring, running, orphan, callback, goside, pc, op, overlap>>

CreateTapFails ==
  /\ bridge = "live" /\ ctap = "none" /\ finalizer = "none"
  /\ ctap' = "gone" /\ bridge' = "gone"
  /\ UNCHANGED <<b_closed, data, pipe, running, orphan, callback, goside, pc, op, overlap>>

-----------------------------------------------------------------------------
(* Read, Start, Stop and IsRunning look at Tap.closed, then enter C.       *)

Call(g, f) ==
  /\ pc[g] = "out" /\ held
  /\ Goto(g, "check") /\ op' = [op EXCEPT ![g] = f]
  /\ overlap' = IF f # "read" /\ \E other \in Routines : Control(other) \/ Closing(other)
                THEN TRUE ELSE overlap
  /\ UNCHANGED <<cside, goside>>

\* Mutant: the call does not look at Tap.closed.
CheckNever(g) ==
  /\ pc[g] = "check"
  /\ Goto(g, "enter")
  /\ UNCHANGED <<cside, goside, op, overlap>>

CheckClosed(g) ==
  /\ pc[g] = "check"
  /\ Goto(g, IF closed THEN "out" ELSE "enter")
  /\ UNCHANGED <<cside, goside, op, overlap>>

EnterC(g) ==
  /\ pc[g] = "enter"
  /\ Goto(g, "c")
  /\ UNCHANGED <<cside, goside, op, overlap>>

\* bridge_read returns samples, or 0 when it finds the ring empty and closed,
\* or waits for the pipe.
ReadLooks(g) ==
  /\ pc[g] = "c" /\ op[g] = "read" /\ bridge = "live"
  /\ data' \in {FALSE, data}
  /\ Goto(g, IF data \/ b_closed THEN "out" ELSE "blocked")
  /\ UNCHANGED <<bridge, b_closed, pipe, device, goside, op, overlap>>

\* read() wakes one reader, and takes up to 64 bytes away from the others.
ReadWakes(g) ==
  /\ pc[g] = "blocked" /\ bridge = "live" /\ pipe
  /\ pipe' \in BOOLEAN
  /\ Goto(g, "c")
  /\ UNCHANGED <<bridge, b_closed, data, device, goside, op, overlap>>

\* audiotap_start looks at `running' without a lock,
StartLooks(g) ==
  /\ pc[g] = "c" /\ op[g] = "start" /\ ctap = "live"
  /\ Goto(g, IF running THEN "out" ELSE "start")
  /\ UNCHANGED <<cside, goside, op, overlap>>

\* and nobody looks again: an IO proc is registered over one that another
\* Start has registered since, whether the device then starts or not.
StartReturns(g) ==
  /\ pc[g] = "start" /\ ctap = "live"
  /\ \/ running' = TRUE /\ orphan' = (orphan \/ running)
     \/ UNCHANGED running /\ orphan' \in {orphan, orphan \/ running}
  /\ Goto(g, "out")
  /\ UNCHANGED <<ring, ctap, callback, goside, op, overlap>>

\* The device is stopped once the last callback of its IO proc has returned.
StopReturns(g) ==
  /\ pc[g] = "c" /\ op[g] = "stop" /\ ctap = "live"
  /\ callback # "none" => orphan
  /\ running' = FALSE
  /\ Goto(g, "out")
  /\ UNCHANGED <<ring, ctap, orphan, callback, goside, op, overlap>>

\* A call on a freed object: it returns, having done nothing or, in Start,
\* having registered an IO proc for a tap that is gone.
UseFreed(g) ==
  /\ (InBridge(g) /\ bridge = "gone") \/ (InTap(g) /\ ctap = "gone")
  /\ orphan' \in IF InTap(g) /\ op[g] = "start" THEN {orphan, TRUE} ELSE {orphan}
  /\ Goto(g, "out")
  /\ UNCHANGED <<ring, ctap, running, callback, goside, op, overlap>>

CallbackEnters ==
  /\ running \/ orphan
  /\ callback = "none" /\ callback' \in {"publish", "ignore"}
  /\ bridge = "live" => (callback' = "ignore" <=> b_closed)
  /\ UNCHANGED <<ring, ctap, running, orphan, goside, pc, op, overlap>>

CallbackReturns ==
  /\ callback # "none"
  /\ callback' = "none"
  /\ IF callback = "publish" THEN data' = TRUE /\ pipe' = TRUE ELSE UNCHANGED <<data, pipe>>
  /\ UNCHANGED <<bridge, b_closed, ctap, running, orphan, goside, pc, op, overlap>>

-----------------------------------------------------------------------------
(* Close, once; later callers wait until the first has finished.           *)

CallClose(g) ==
  /\ pc[g] = "out" /\ held
  /\ Goto(g, "once") /\ op' = [op EXCEPT ![g] = "close"]
  /\ overlap' = IF \E other \in Routines : Control(other) THEN TRUE ELSE overlap
  /\ UNCHANGED <<cside, goside>>

\* The collector runs the finalizer when nothing refers to the Tap but calls
\* that are already inside C.
Forget ==
  /\ held /\ \A g \in Goroutines : pc[g] \in {"out", "c", "start", "blocked"}
  /\ held' = FALSE
  /\ UNCHANGED <<cside, closed, once, finalizer, pc, op, overlap>>

Finalize ==
  /\ ~held /\ finalizer = "set" /\ pc[GC] = "out"
  /\ Goto(GC, "once") /\ op' = [op EXCEPT ![GC] = "close"]
  /\ overlap' = IF \E other \in Routines : Control(other) THEN TRUE ELSE overlap
  /\ finalizer' = "cleared"
  /\ UNCHANGED <<cside, closed, once, held>>

\* Mutant: a second caller does not wait, as with an atomic flag.
OnceEnterNoWait(g) ==
  /\ pc[g] = "once"
  /\ IF once = "new" THEN once' = "running" /\ Goto(g, "set_closed")
                     ELSE UNCHANGED once /\ Goto(g, "out")
  /\ UNCHANGED <<cside, closed, finalizer, held, op, overlap>>

\* Mutant: Tap.closed takes the place of Tap.once.
OnceEnterByFlag(g) ==
  /\ pc[g] = "once"
  /\ once' = "running" /\ Goto(g, IF closed THEN "out" ELSE "set_closed")
  /\ UNCHANGED <<cside, closed, finalizer, held, op, overlap>>

OnceEnter(g) ==
  /\ pc[g] = "once"
  /\ \/ once = "new" /\ once' = "running" /\ Goto(g, "set_closed")
     \/ once = "done" /\ UNCHANGED once /\ Goto(g, "out")
  /\ UNCHANGED <<cside, closed, finalizer, held, op, overlap>>

SetClosed(g) ==
  /\ pc[g] = "set_closed"
  /\ closed' = TRUE /\ finalizer' = "cleared"
  /\ Goto(g, "close_bridge")
  /\ UNCHANGED <<cside, once, held, op, overlap>>

\* bridge_close: one byte, whoever is blocked.
CloseBridge(g) ==
  /\ pc[g] = "close_bridge"
  /\ b_closed' = TRUE /\ pipe' = TRUE
  /\ Goto(g, "free_tap")
  /\ UNCHANGED <<bridge, data, device, goside, op, overlap>>

\* Mutant: audiotap_destroy does not wait for the callback.
FreeTapAtOnce(g) ==
  /\ pc[g] = "free_tap"
  /\ ctap' = "gone" /\ running' = FALSE
  /\ Goto(g, "free_bridge")
  /\ UNCHANGED <<ring, orphan, callback, goside, op, overlap>>

\* audiotap_destroy stops the device first: the IO proc the tap knows.
FreeTap(g) ==
  /\ pc[g] = "free_tap"
  /\ callback # "none" => orphan
  /\ ctap' = "gone" /\ running' = FALSE
  /\ Goto(g, "free_bridge")
  /\ UNCHANGED <<ring, orphan, callback, goside, op, overlap>>

\* Mutant: a lock in the place of Tap.once, which the last step keeps.
FreeBridgeKeepsLock(g) ==
  /\ pc[g] = "free_bridge"
  /\ bridge' = "gone"
  /\ Goto(g, "out")
  /\ UNCHANGED <<b_closed, data, pipe, device, goside, op, overlap>>

\* The pipe is closed with the bridge.
FreeBridge(g) ==
  /\ pc[g] = "free_bridge"
  /\ bridge' = "gone" /\ once' = "done"
  /\ Goto(g, "out")
  /\ UNCHANGED <<b_closed, data, pipe, device, closed, finalizer, held, op, overlap>>

CloseStep(g) == OnceEnter(g) \/ SetClosed(g) \/ CloseBridge(g) \/ FreeTap(g) \/ FreeBridge(g)
CallStep(g) ==
  \/ CheckClosed(g) \/ EnterC(g) \/ UseFreed(g)
  \/ ReadLooks(g) \/ ReadWakes(g) \/ StartLooks(g) \/ StartReturns(g) \/ StopReturns(g)

Next ==
  \/ CreateBridge \/ CreateTap \/ CreateTapFails
  \/ \E g \in Goroutines : CallClose(g) \/ \E f \in Ops : Call(g, f)
  \/ \E g \in Routines : CallStep(g) \/ CloseStep(g)
  \/ CallbackEnters \/ CallbackReturns
  \/ Forget \/ Finalize

Spec == Init /\ [][Next]_vars

\* Close goes on and callbacks return, also between two callbacks of a device
\* that keeps calling back; a Tap that is forgotten is collected.  Nothing is
\* assumed of the other calls: a Read may block for ever, and so may a call
\* on a freed object.
FairSpec ==
  /\ Spec
  /\ \A g \in Routines : SF_vars(CloseStep(g))
  /\ WF_vars(CallbackReturns) /\ WF_vars(Finalize)

-----------------------------------------------------------------------------
(* Properties.                                                             *)

TypeOK ==
  /\ bridge \in {"none", "live", "gone"} /\ ctap \in {"none", "live", "gone"}
  /\ b_closed \in BOOLEAN /\ data \in BOOLEAN /\ pipe \in BOOLEAN
  /\ running \in BOOLEAN /\ orphan \in BOOLEAN /\ callback \in {"none", "publish", "ignore"}
  /\ closed \in BOOLEAN /\ once \in {"new", "running", "done"}
  /\ finalizer \in {"none", "set", "cleared"} /\ held \in BOOLEAN
  /\ pc \in [Routines -> {"out", "check", "enter", "c", "blocked", "start", "once"} \cup Body]
  /\ op \in [Routines -> Ops \cup {"none", "close"}]
  /\ overlap \in BOOLEAN

\* No goroutine is inside bridge_read on a ring that Close has freed: it is
\* safe to call Read from one goroutine and Close from another.
ReadCloseSafe == \A g \in Routines : InBridge(g) => bridge = "live"

\* As long as the program lets no Start, Stop or IsRunning overlap another
\* one, Close or the finalizer, none of them works on a freed tap, however
\* many Reads and Closes overlap: those after a Close are turned away.
CallsFindTap == ~overlap => \A g \in Routines : InTap(g) => ctap = "live"

\* As long as that holds, the audio thread never writes to a freed ring:
\* Close destroys the tap, which stops the callback, before the bridge.
CallbackHasBridge == ~overlap => (callback # "none" => bridge = "live")

\* A constructor that fails leaves no C object behind, and after Close both
\* are gone, whatever overlaps.
NoLeak ==
  /\ ctap = "gone" /\ once = "new" => bridge = "gone"
  /\ once = "done" => bridge = "gone" /\ ctap = "gone"

\* Whoever called Close, first or later, finds the resources released.
CloseReleases ==
  [][\A g \in Routines : pc[g] = "once" /\ pc'[g] = "out" => bridge' = "gone"]_vars

\* Every Close returns, the finalizer's and later ones included, whatever the
\* other goroutines are doing; it does not wait for a blocked Read.
CloseReturns ==
  \A g \in Routines : pc[g] = "once" ~> pc[g] = "out"

\* A Tap that is forgotten without Close is released by the finalizer.
ForgottenIsReleased == ctap = "live" /\ ~held ~> bridge = "gone"
(***************************************************************************)
(* The inductive invariant behind the safety properties.  The body of      *)
(* Close runs once, in one goroutine; until it has set Tap.closed the tap  *)
(* that was constructed is alive, and the bridge outlives the tap.  Only   *)
(* OverlapInv asks something of the program: as long as no Start, Stop or  *)
(* IsRunning has overlapped, no IO proc is orphaned, and a call that has   *)
(* got past its check of Tap.closed is alone with the tap.                 *)
(***************************************************************************)
CloserInv ==
  /\ closed => once # "new"
  /\ \A g \in Routines : pc[g] \in Body =>
       /\ once = "running"
       /\ pc[g] # "set_closed" => closed
       /\ pc[g] = "free_bridge" => ctap = "gone"
       /\ \A other \in Routines : pc[other] \in Body => other = g

LifeInv ==
  /\ finalizer = "none" => ~held /\ ~closed /\ \A g \in Routines : pc[g] = "out"
  /\ finalizer # "none" /\ ~closed => ctap = "live"
  /\ ctap = "none" => finalizer = "none"
  /\ ctap = "live" => bridge = "live"
  /\ running => ctap = "live"
  /\ callback # "none" => running \/ orphan

WaitInv == \A g \in Routines : pc[g] = "blocked" => op[g] = "read"

OverlapInv ==
  ~overlap =>
    /\ ~orphan
    /\ \A g \in Routines : Control(g) =>
         /\ \A other \in Routines : other # g => ~Control(other) /\ ~Closing(other)
         /\ pc[g] # "check" => ~closed
         /\ pc[g] = "start" => ~running

IInv == TypeOK /\ CloserInv /\ LifeInv /\ WaitInv /\ OverlapInv /\ NoLeak
=============================================================================
