------------------------------- MODULE PyTap -------------------------------
(***************************************************************************)
(* A tap of the Python binding (python/src/audiotap/__init__.py): threads  *)
(* that call its methods, the collector that runs __del__, and the audio   *)
(* thread in the ctypes trampoline.  Python code runs under the            *)
(* interpreter lock, which ctypes releases around a call into the library  *)
(* (_bindings.py loads it as a CDLL) and takes for a callback.             *)
(***************************************************************************)
EXTENDS Naturals

CONSTANTS
  Threads,       \* of Python
  Audio,         \* the audio thread
  NoThread,
  DestroyAlone   \* is destroy() called only when no other thread is in a
                 \* method of the tap?  Nothing in the code sees to it.

ASSUME PyTapAssumption ==
  /\ Audio \notin Threads /\ NoThread \notin Threads \cup {Audio}
  /\ DestroyAlone \in BOOLEAN

Methods == {"start", "stop", "running", "destroy"}

VARIABLES
  gil,         \* the thread that holds the interpreter lock
  made,        \* has the constructor been called?
  held,        \* do variables of the program refer to the tap?
  handle,      \* self._handle: "none", "set"
  trampoline,  \* self._c_callback: "none", "live", "gone"
  ctap,        \* the audiotap_t: "none", "live", "gone"
  running,     \* audiotap_t.running: its IO proc calls back
  orphan,      \* is there an IO proc that the tap does not know any more?
  audio,       \* is the audio thread in a callback?
  pc, op,      \* of a Python thread; "del" is __del__
  arg,         \* the handle it has passed to C
  overlap      \* history, read by properties only: did two start() overlap?

object == <<made, held, handle, trampoline>>
cside == <<ctap, running, orphan, audio>>
vars == <<gil, object, cside, pc, op, arg, overlap>>

Init ==
  /\ gil = NoThread /\ made = FALSE /\ held = FALSE
  /\ handle = "none" /\ trampoline = "none"
  /\ ctap = "none" /\ running = FALSE /\ orphan = FALSE /\ audio = FALSE
  /\ pc = [t \in Threads |-> "out"] /\ op = [t \in Threads |-> "none"]
  /\ arg = [t \in Threads |-> "none"] /\ overlap = FALSE

Goto(t, label) == pc' = [pc EXCEPT ![t] = label]
InPython(t) == pc[t] \in {"assign", "check", "call", "back"}
AllOut == \A t \in Threads : pc[t] = "out"
Starting(t) == pc[t] # "out" /\ op[t] = "start"

-----------------------------------------------------------------------------
(* The interpreter lock.                                                   *)

Acquire(t) ==
  /\ gil = NoThread /\ (IF t = Audio THEN audio ELSE InPython(t))
  /\ gil' = t
  /\ UNCHANGED <<object, cside, pc, op, arg, overlap>>

\* The interpreter makes a thread give way between two steps.
GiveWay(t) ==
  /\ gil = t
  /\ gil' = NoThread
  /\ UNCHANGED <<object, cside, pc, op, arg, overlap>>

-----------------------------------------------------------------------------
(* SystemTap(), MicTap(): the trampoline, then the tap.                    *)

New(t) ==
  /\ ~made
  /\ made' = TRUE /\ trampoline' = "live"
  /\ Goto(t, "create") /\ op' = [op EXCEPT ![t] = "new"]
  /\ UNCHANGED <<gil, held, handle, cside, arg, overlap>>

CreateReturns(t) ==
  /\ pc[t] = "create"
  /\ ctap' \in {"live", "none"}
  /\ Goto(t, "assign")
  /\ UNCHANGED <<gil, object, running, orphan, audio, op, arg, overlap>>

\* Mutant: the trampoline is a local variable of the constructor.
AssignLocalTrampoline(t) ==
  /\ pc[t] = "assign" /\ gil = t
  /\ handle' = IF ctap = "live" THEN "set" ELSE "none"
  /\ held' = (ctap = "live") /\ trampoline' = "gone"
  /\ Goto(t, "out") /\ gil' = NoThread
  /\ UNCHANGED <<made, cside, op, arg, overlap>>

\* Without a tap the constructor raises, and nobody gets the object.
Assign(t) ==
  /\ pc[t] = "assign" /\ gil = t
  /\ handle' = IF ctap = "live" THEN "set" ELSE "none"
  /\ held' = (ctap = "live")
  /\ Goto(t, "out") /\ gil' = NoThread
  /\ UNCHANGED <<made, trampoline, cside, op, arg, overlap>>

-----------------------------------------------------------------------------
(* The methods.                                                            *)

MayCall(f) ==
  DestroyAlone =>
    /\ f = "destroy" => AllOut
    /\ \A t \in Threads : pc[t] # "out" => op[t] # "destroy"

Call(t, f) ==
  /\ pc[t] = "out" /\ held /\ MayCall(f)
  /\ Goto(t, "check") /\ op' = [op EXCEPT ![t] = f]
  /\ overlap' = IF f = "start" /\ \E other \in Threads : Starting(other) THEN TRUE ELSE overlap
  /\ UNCHANGED <<gil, object, cside, arg>>

\* The program drops its references, and the collector runs __del__ when no
\* thread is in a method.
Forget ==
  /\ held
  /\ held' = FALSE
  /\ UNCHANGED <<gil, made, handle, trampoline, cside, pc, op, arg, overlap>>

Collect(t) ==
  /\ made /\ ~held /\ trampoline = "live" /\ AllOut
  /\ Goto(t, "check") /\ op' = [op EXCEPT ![t] = "del"]
  /\ UNCHANGED <<gil, object, cside, arg, overlap>>

\* After __del__ the object is freed, and its trampoline with it.
Leave(t) ==
  /\ Goto(t, "out") /\ gil' = NoThread
  /\ trampoline' = IF op[t] = "del" THEN "gone" ELSE trampoline

Check(t) ==
  /\ pc[t] = "check" /\ gil = t
  /\ IF handle = "none" THEN Leave(t)
     ELSE Goto(t, "call") /\ UNCHANGED <<gil, trampoline>>
  /\ UNCHANGED <<made, held, handle, cside, op, arg, overlap>>

\* Mutant: the library is loaded as a PyDLL, which keeps the lock.
EnterWithLock(t) ==
  /\ pc[t] = "call" /\ gil = t
  /\ arg' = [arg EXCEPT ![t] = handle] /\ Goto(t, "c")
  /\ UNCHANGED <<gil, object, cside, op, overlap>>

\* self._handle is read again for the call.
Enter(t) ==
  /\ pc[t] = "call" /\ gil = t
  /\ arg' = [arg EXCEPT ![t] = handle] /\ Goto(t, "c")
  /\ gil' = NoThread
  /\ UNCHANGED <<object, cside, op, overlap>>

\* The library ignores NULL.
InC(t, f) == pc[t] = "c" /\ op[t] \in f
WithTap(t) == arg[t] = "set"

\* audiotap_start looks at `running' without a lock,
StartLooks(t) ==
  /\ InC(t, {"start"})
  /\ Goto(t, IF WithTap(t) /\ ~running THEN "register" ELSE "back")
  /\ UNCHANGED <<gil, object, cside, op, arg, overlap>>

\* and nobody looks again: an IO proc is registered over one that another
\* start() has registered since, whether the device then starts or not.
StartReturns(t) ==
  /\ pc[t] = "register"
  /\ \/ running' = TRUE /\ orphan' = (orphan \/ running)
     \/ UNCHANGED running /\ orphan' \in {orphan, orphan \/ running}
  /\ Goto(t, "back")
  /\ UNCHANGED <<gil, object, ctap, audio, op, arg, overlap>>

RunningReturns(t) ==
  /\ InC(t, {"running"})
  /\ Goto(t, "back")
  /\ UNCHANGED <<gil, object, cside, op, arg, overlap>>

\* The device stops when the last callback of its IO proc is over.
StopReturns(t) ==
  /\ InC(t, {"stop"})
  /\ IF WithTap(t) THEN (audio => orphan) /\ running' = FALSE ELSE UNCHANGED running
  /\ Goto(t, "back")
  /\ UNCHANGED <<gil, object, ctap, orphan, audio, op, arg, overlap>>

DestroyReturns(t) ==
  /\ InC(t, {"destroy", "del"})
  /\ IF WithTap(t) THEN (audio => orphan) /\ running' = FALSE /\ ctap' = "gone"
     ELSE UNCHANGED <<running, ctap>>
  /\ Goto(t, "back")
  /\ UNCHANGED <<gil, object, orphan, audio, op, arg, overlap>>

\* Mutant: destroy() keeps the handle.
BackKeepsHandle(t) ==
  /\ pc[t] = "back" /\ gil = t
  /\ Leave(t)
  /\ UNCHANGED <<made, held, handle, cside, op, arg, overlap>>

Back(t) ==
  /\ pc[t] = "back" /\ gil = t
  /\ handle' = IF op[t] \in {"destroy", "del"} THEN "none" ELSE handle
  /\ Leave(t)
  /\ UNCHANGED <<made, held, cside, op, arg, overlap>>

-----------------------------------------------------------------------------
(* The audio thread: the trampoline runs under the interpreter lock.       *)

AudioEnters ==
  /\ running \/ orphan
  /\ ~audio /\ audio' = TRUE
  /\ UNCHANGED <<gil, object, ctap, running, orphan, pc, op, arg, overlap>>

AudioReturns ==
  /\ audio /\ gil = Audio
  /\ audio' = FALSE /\ gil' = NoThread
  /\ UNCHANGED <<object, ctap, running, orphan, pc, op, arg, overlap>>

ThreadStep(t) ==
  \/ CreateReturns(t) \/ Assign(t) \/ Check(t) \/ Enter(t) \/ Back(t)
  \/ StartLooks(t) \/ StartReturns(t) \/ RunningReturns(t) \/ StopReturns(t) \/ DestroyReturns(t)

Next ==
  \/ \E t \in Threads :
       New(t) \/ Collect(t) \/ ThreadStep(t) \/ \E f \in Methods : Call(t, f)
  \/ \E t \in Threads \cup {Audio} : Acquire(t) \/ GiveWay(t)
  \/ Forget \/ AudioEnters \/ AudioReturns

Spec == Init /\ [][Next]_vars

\* The interpreter lets every thread that waits for the lock have it, and then
\* make a step; calls in C go on.
FairSpec ==
  /\ Spec
  /\ \A t \in Threads : SF_vars(ThreadStep(t)) /\ SF_vars(Acquire(t))
  /\ SF_vars(Acquire(Audio)) /\ SF_vars(AudioReturns)

-----------------------------------------------------------------------------
(* Properties.                                                             *)

TypeOK ==
  /\ gil \in Threads \cup {Audio, NoThread}
  /\ made \in BOOLEAN /\ held \in BOOLEAN
  /\ running \in BOOLEAN /\ orphan \in BOOLEAN /\ audio \in BOOLEAN /\ overlap \in BOOLEAN
  /\ handle \in {"none", "set"} /\ trampoline \in {"none", "live", "gone"}
  /\ ctap \in {"none", "live", "gone"}
  /\ pc \in [Threads -> {"out", "create", "assign", "check", "call", "c", "register", "back"}]
  /\ op \in [Threads -> Methods \cup {"none", "new", "del"}]
  /\ arg \in [Threads -> {"none", "set"}]

\* No call into the library works on a tap that destroy() or the collector has
\* freed; a second destroy() does nothing.
NoUseAfterFree ==
  \A t \in Threads : pc[t] \in {"c", "register"} /\ WithTap(t) => ctap = "live"

\* As long as no two start() overlap, the audio thread never calls a
\* trampoline that was collected.
CallbackHasTrampoline == ~overlap => (audio => trampoline = "live")

\* Every method returns, overlapping start() included: destroy() and stop()
\* wait for a callback that waits for the interpreter lock.
CallsReturn == \A t \in Threads : pc[t] # "out" ~> pc[t] = "out"

-----------------------------------------------------------------------------
(***************************************************************************)
(* The inductive invariant, with DestroyAlone: a thread that constructs or *)
(* destroys is alone in the tap, and the handle is set exactly as long as  *)
(* the tap is alive, but for the steps of these two.  As long as no two    *)
(* start() have overlapped, a thread that registers an IO proc finds none, *)
(* and none is orphaned.                                                   *)
(***************************************************************************)
Destroying(t) == pc[t] # "out" /\ op[t] \in {"destroy", "del"}
Constructing(t) == pc[t] \in {"create", "assign"}

AloneInv ==
  /\ \A t, other \in Threads :
       (Destroying(t) \/ Constructing(t)) /\ pc[other] # "out" => other = t
  /\ \A t \in Threads : pc[t] # "out" => (Constructing(t) <=> op[t] = "new")

LifeInv ==
  /\ ~made => AllOut /\ ctap = "none" /\ handle = "none" /\ trampoline = "none" /\ ~held
  /\ made /\ ctap = "live" => trampoline = "live"
  /\ audio => running \/ orphan
  /\ running => ctap = "live" /\ \A t \in Threads : ~Constructing(t)
  /\ \A t \in Threads :
       /\ Constructing(t) => made /\ trampoline = "live" /\ handle = "none" /\ ~held
       /\ pc[t] = "create" => ctap = "none"
       /\ pc[t] = "call" => handle = "set"
       /\ pc[t] \in {"c", "register"} => arg[t] = "set" /\ ctap = "live"
       /\ pc[t] = "register" => op[t] = "start"
       /\ pc[t] = "back" /\ Destroying(t) => ctap = "gone"
       /\ pc[t] # "out" /\ op[t] = "del" => ~held
  /\ ctap = "live" => handle = "set" \/ \E t \in Threads : pc[t] = "assign"
  /\ handle = "set" => ctap = "live" \/ \E t \in Threads : pc[t] = "back" /\ Destroying(t)

StartInv ==
  ~overlap =>
    /\ ~orphan
    /\ \A t \in Threads : Starting(t) =>
         /\ \A other \in Threads : Starting(other) => other = t
         /\ pc[t] = "register" => ~running

IInv == TypeOK /\ AloneInv /\ LifeInv /\ StartInv
=============================================================================
