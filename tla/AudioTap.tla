------------------------------ MODULE AudioTap ------------------------------
(***************************************************************************)
(* The C library (src/): creating, starting, stopping and destroying       *)
(* system taps and microphone taps, and the listener that moves a          *)
(* microphone tap to the new default input device.                         *)
(*                                                                         *)
(* Threads: one caller of the API, and for each microphone tap the serial  *)
(* dispatch queue that runs handle_device_change.  A step ends where       *)
(* another thread can see a difference: at every Core Audio call, at the   *)
(* mutex, and at every access to the fields `running', `io_proc_id' and to *)
(* audiotap_active_system_tap that no mutex protects.                      *)
(*                                                                         *)
(* Core Audio is modelled by what the library assumes of it: a table of    *)
(* registered IO procs, the aggregate devices and process taps, the        *)
(* property listeners, and AudioDeviceStart of a physical device, which    *)
(* blocks while an aggregate device runs (audiotap_internal.h:35-38).      *)
(***************************************************************************)
EXTENDS Integers, FiniteSets

CONSTANTS
  SysTaps, MicTaps,   \* audiotap_t objects of the two types
  Devices,            \* input devices
  Caller,             \* the thread that calls the API
  None,               \* NULL, kAudioObjectUnknown, no thread
  Calls,              \* the calls the caller makes: pairs <<function, tap>>
  OverlapCalls,       \* those of them in which the default device may change
  CallAnytime,        \* may a call begin, and look at `running', while a change
                      \* is being handled?
  MaxProcs,           \* bound: IO procs registered at once
  MaxFaults,          \* bound: calls of Core Audio and calloc that fail
  MaxChanges          \* bound: changes of the default device

Taps == SysTaps \cup MicTaps
Threads == {Caller} \cup MicTaps
Functions == {"create", "start", "stop", "destroy", "permission"}

ASSUME AudioTapAssumption ==
  /\ SysTaps \cap MicTaps = {} /\ Caller \notin Taps
  /\ None \notin Taps \cup Devices \cup {Caller} \cup 1..MaxProcs /\ Devices \cap Taps = {}
  /\ OverlapCalls \subseteq Calls
  /\ Calls \subseteq Functions \X (Taps \cup {None})
  /\ CallAnytime \in BOOLEAN
  /\ MaxProcs \in Nat \ {0} /\ MaxFaults \in Nat /\ MaxChanges \in Nat

VARIABLES
  \* the library
  tap,        \* struct audiotap_t: life, running, io_proc_id, input_device_id
  active,     \* audiotap_active_system_tap
  lock,       \* holder of a microphone tap's mic_mutex
  \* Core Audio
  procs,      \* registered IO procs: device, tap (the client data), started?
  objects,    \* of a system tap: its process tap and aggregate device
  listening,  \* microphone taps whose listener block is registered
  pending,    \* blocks waiting in a tap's listener queue
  default_dev, permission,
  \* the threads
  pc, frame,
  \* history and bounds
  want,       \* the taps the caller has started and not stopped since
  faults, changes

shared == <<tap, active, lock>>
env == <<listening, pending, default_dev, permission>>
hal == <<procs, objects, env>>
bounds == <<faults, changes>>
vars == <<shared, hal, pc, frame, want, bounds>>

-----------------------------------------------------------------------------
IoProcs == 1..MaxProcs
NoProc == [dev |-> None, tap |-> None, on |-> FALSE]

\* The locals of a thread: the function called, its tap, the system tap that
\* audiotap_system_start/stop work on, was_running, the new device, success.
Frame(fun, t, sys) ==
  [op |-> fun, tap |-> t, sys |-> sys, was |-> FALSE, dev |-> None, ok |-> TRUE]
NoFrame == Frame("none", None, None)

Self(th) == frame[th].tap
Sys(th) == frame[th].sys

Goto(th, label) == pc' = [pc EXCEPT ![th] = label]

Jump(th, from, to) ==
  pc[th] = from /\ Goto(th, to) /\ UNCHANGED <<shared, hal, frame, want, bounds>>

NoFault == UNCHANGED faults
Fault == faults < MaxFaults /\ faults' = faults + 1

\* A failure is the result of the function called, unless the failing call is
\* the resume of the system tap, whose result mic_start_locked ignores.
Failed(th) == frame' = [frame EXCEPT ![th].ok = FALSE]
SysFailed(th) == IF Self(th) \in MicTaps THEN UNCHANGED frame ELSE Failed(th)

\* Core Audio, as functions on the table of IO procs.
AggregateRuns == \E p \in IoProcs : procs[p].on /\ procs[p].tap \in SysTaps
Started(p) == IF p \in IoProcs /\ procs[p] # NoProc THEN [procs EXCEPT ![p].on = TRUE] ELSE procs
Stopped(p) == IF p \in IoProcs THEN [procs EXCEPT ![p].on = FALSE] ELSE procs
Unregistered(p) == IF p \in IoProcs THEN [procs EXCEPT ![p] = NoProc] ELSE procs

\* AudioDeviceCreateIOProcID: a fresh id, stored in the tap.
Register(t, dev) ==
  LET free == {p \in IoProcs : procs[p] = NoProc}
      id   == CHOOSE p \in free : TRUE
  IN  /\ free # {}
      /\ procs' = [procs EXCEPT ![id] = [dev |-> dev, tap |-> t, on |-> FALSE]]
      /\ tap' = [tap EXCEPT ![t].io = id]

Quiet == \A m \in MicTaps : pending[m] = 0 /\ pc[m] = "ready"
AtRest == Quiet /\ pc[Caller] = "ready"

Init ==
  /\ tap = [t \in Taps |-> [life |-> "none", running |-> FALSE, io |-> None, dev |-> None]]
  /\ active = None
  /\ lock = [m \in MicTaps |-> None]
  /\ procs = [p \in IoProcs |-> NoProc]
  /\ objects = [t \in SysTaps |-> {}]
  /\ listening = {}
  /\ pending = [m \in MicTaps |-> 0]
  /\ default_dev \in Devices
  /\ permission \in {"unknown", "granted", "denied"}
  /\ pc = [th \in Threads |-> "ready"]
  /\ frame = [th \in Threads |-> NoFrame]
  /\ want = {}
  /\ faults = 0 /\ changes = 0

-----------------------------------------------------------------------------
(* The environment: the caller's calls, the user, the devices.             *)

Call(fun, t) ==
  /\ pc[Caller] = "ready" /\ (CallAnytime \/ Quiet)
  /\ IF fun = "permission" THEN t = None
     ELSE t \in Taps /\ tap[t].life = (IF fun = "create" THEN "none" ELSE "live")
  /\ Goto(Caller, CASE fun = "create" -> IF t \in SysTaps THEN "c_tap" ELSE "c_device"
                    [] OTHER -> fun)
  /\ frame' = [frame EXCEPT ![Caller] =
                 Frame(fun, t, IF t \in SysTaps THEN t ELSE None)]
  /\ want' = IF fun \in {"stop", "destroy"} THEN want \ {t} ELSE want
  /\ UNCHANGED <<shared, hal, bounds>>

Return(th) ==
  /\ pc[th] = "return"
  /\ Goto(th, "ready")
  /\ frame' = [frame EXCEPT ![th] = NoFrame]
  /\ want' = IF frame[th].op = "start" /\ frame[th].ok THEN want \cup {Self(th)} ELSE want
  /\ UNCHANGED <<shared, hal, bounds>>

\* The default input device changes, or the last one goes away: a block is
\* queued for every registered listener.
DeviceChange(dev) ==
  /\ changes < MaxChanges /\ dev # default_dev
  /\ \/ pc[Caller] = "ready"
     \/ /\ <<frame[Caller].op, Self(Caller)>> \in OverlapCalls
        /\ CallAnytime \/ pc[Caller] \notin {"start", "stop", "destroy"}
  /\ default_dev' = dev
  /\ pending' = [m \in MicTaps |-> IF m \in listening THEN pending[m] + 1 ELSE pending[m]]
  /\ changes' = changes + 1
  /\ UNCHANGED <<shared, procs, objects, listening, permission, pc, frame, want, faults>>

\* The serial queue of tap m runs the next block: handle_device_change.
HandlerBegin(m) ==
  /\ pc[m] = "ready" /\ pending[m] > 0
  /\ pending' = [pending EXCEPT ![m] = @ - 1]
  /\ Goto(m, "lock")
  /\ frame' = [frame EXCEPT ![m] = Frame("handler", m, None)]
  /\ UNCHANGED <<shared, procs, objects, listening, default_dev, permission, want, bounds>>

\* audiotap_request_mic_permission: a known status is the answer; else the
\* dialog is shown and the call waits on the semaphore.
RequestPermission(th) ==
  Jump(th, "permission", IF permission = "unknown" THEN "dialog" ELSE "return")

UserAnswers(answer) ==
  /\ pc[Caller] = "dialog"
  /\ permission' = answer
  /\ Goto(Caller, "return")
  /\ UNCHANGED <<shared, procs, objects, listening, pending, default_dev, frame, want, bounds>>

-----------------------------------------------------------------------------
(* audiotap_create_system, with the rollback of each failure.              *)

CreateTap(th) ==
  /\ pc[th] = "c_tap"
  /\ \/ /\ NoFault /\ Goto(th, "c_aggregate") /\ UNCHANGED frame
        /\ objects' = [objects EXCEPT ![Self(th)] = @ \cup {"tap"}]
     \/ Fault /\ Failed(th) /\ Goto(th, "return") /\ UNCHANGED objects
  /\ UNCHANGED <<shared, procs, env, want, changes>>

\* Mutant: the process tap is kept when the aggregate device fails.
CreateAggregateNoRollback(th) ==
  /\ pc[th] = "c_aggregate"
  /\ \/ /\ NoFault /\ Goto(th, "c_alloc") /\ UNCHANGED frame
        /\ objects' = [objects EXCEPT ![Self(th)] = @ \cup {"aggregate"}]
     \/ Fault /\ Failed(th) /\ Goto(th, "return") /\ UNCHANGED objects
  /\ UNCHANGED <<shared, procs, env, want, changes>>

CreateAggregate(th) ==
  /\ pc[th] = "c_aggregate"
  /\ \/ /\ NoFault /\ Goto(th, "c_alloc") /\ UNCHANGED frame
        /\ objects' = [objects EXCEPT ![Self(th)] = @ \cup {"aggregate"}]
     \/ Fault /\ Failed(th) /\ Goto(th, "d_tap") /\ UNCHANGED objects
  /\ UNCHANGED <<shared, procs, env, want, changes>>

CreateAlloc(th) ==
  /\ pc[th] = "c_alloc"
  /\ \/ /\ NoFault /\ Goto(th, "return") /\ UNCHANGED frame
        /\ tap' = [tap EXCEPT ![Self(th)].life = "live"]
     \/ Fault /\ Failed(th) /\ Goto(th, "d_aggregate") /\ UNCHANGED tap
  /\ UNCHANGED <<active, lock, hal, want, changes>>

(* audiotap_create_mic: the default device is read, and the listener       *)
(* registered, in two steps.                                               *)

CreateMic(th) ==
  /\ pc[th] = "c_device"
  /\ \/ /\ default_dev # None /\ NoFault /\ Goto(th, "c_listen") /\ UNCHANGED frame
        /\ tap' = [tap EXCEPT ![Self(th)].life = "live", ![Self(th)].dev = default_dev]
     \/ default_dev = None /\ NoFault /\ Failed(th) /\ Goto(th, "return") /\ UNCHANGED tap
     \/ Fault /\ Failed(th) /\ Goto(th, "return") /\ UNCHANGED tap
  /\ UNCHANGED <<active, lock, hal, want, changes>>

\* The result of AudioObjectAddPropertyListenerBlock is not looked at.
Listen(th) ==
  /\ pc[th] = "c_listen"
  /\ \/ listening' = listening \cup {Self(th)} /\ NoFault
     \/ Fault /\ UNCHANGED listening
  /\ Goto(th, "return")
  /\ UNCHANGED <<shared, procs, objects, pending, default_dev, permission, frame, want, changes>>

-----------------------------------------------------------------------------
(* audiotap_start, audiotap_stop and audiotap_destroy look at `running'    *)
(* before they take any lock.                                              *)

Start(th) ==
  Jump(th, "start", IF tap[Self(th)].running THEN "return"
                    ELSE IF Self(th) \in SysTaps THEN "s_create" ELSE "lock")

DestroyBegin(th) == IF Self(th) \in SysTaps THEN "d_aggregate" ELSE "d_unlisten"
AfterStop(th) == IF frame[th].op = "destroy" THEN DestroyBegin(th) ELSE "return"

Stop(th) ==
  Jump(th, "stop", IF ~tap[Self(th)].running THEN AfterStop(th)
                   ELSE IF Self(th) \in SysTaps THEN "x_halt" ELSE "lock")

Destroy(th) ==
  Jump(th, "destroy", IF tap[Self(th)].running THEN "stop" ELSE DestroyBegin(th))

\* audiotap_system_destroy, and the rollback of audiotap_create_system.
DestroyAggregate(th) ==
  /\ pc[th] = "d_aggregate"
  /\ objects' = [objects EXCEPT ![Self(th)] = @ \ {"aggregate"}]
  /\ Goto(th, "d_tap")
  /\ UNCHANGED <<shared, procs, env, frame, want, bounds>>

DestroyTap(th) ==
  /\ pc[th] = "d_tap"
  /\ objects' = [objects EXCEPT ![Self(th)] = @ \ {"tap"}]
  /\ Goto(th, IF frame[th].op = "create" THEN "return" ELSE "d_free")
  /\ UNCHANGED <<shared, procs, env, frame, want, bounds>>

\* Mutant: the listener stays registered.
UnlistenForgotten(th) ==
  /\ pc[th] = "d_unlisten"
  /\ Goto(th, "d_free")
  /\ UNCHANGED <<shared, hal, frame, want, bounds>>

\* audiotap_mic_destroy: no new block is queued, but those that are queued
\* still run, and one that runs is not waited for.
Unlisten(th) ==
  /\ pc[th] = "d_unlisten"
  /\ listening' = listening \ {Self(th)}
  /\ Goto(th, "d_free")
  /\ UNCHANGED <<shared, procs, objects, pending, default_dev, permission, frame, want, bounds>>

Free(th) ==
  /\ pc[th] = "d_free"
  /\ tap' = [tap EXCEPT ![Self(th)].life = "freed"]
  /\ Goto(th, "return")
  /\ UNCHANGED <<active, lock, hal, frame, want, bounds>>

-----------------------------------------------------------------------------
(* audiotap_system_start and audiotap_system_stop, called by the API or by *)
(* mic_start_locked to pause and resume the system tap.                    *)

AfterSysStart(th) == IF Self(th) \in MicTaps THEN "m_result" ELSE "return"
AfterSysStop(th) == IF Self(th) \in MicTaps THEN "m_start" ELSE AfterStop(th)

SysCreateProc(th) ==
  /\ pc[th] = "s_create"
  /\ \/ Register(Sys(th), Sys(th)) /\ NoFault /\ Goto(th, "s_start") /\ UNCHANGED frame
     \/ Fault /\ SysFailed(th) /\ Goto(th, AfterSysStart(th)) /\ UNCHANGED tap /\ UNCHANGED procs
  /\ UNCHANGED <<active, lock, objects, env, want, changes>>

SysDeviceStart(th) ==
  /\ pc[th] = "s_start"
  /\ \/ /\ procs' = Started(tap[Sys(th)].io)
        /\ NoFault /\ Goto(th, "s_running") /\ UNCHANGED tap /\ UNCHANGED frame
     \/ /\ procs' = Unregistered(tap[Sys(th)].io)
        /\ tap' = [tap EXCEPT ![Sys(th)].io = None]
        /\ Fault /\ SysFailed(th) /\ Goto(th, AfterSysStart(th))
  /\ UNCHANGED <<active, lock, objects, env, want, changes>>

SysSetRunning(th) ==
  /\ pc[th] = "s_running"
  /\ tap' = [tap EXCEPT ![Sys(th)].running = TRUE]
  /\ Goto(th, "s_active")
  /\ UNCHANGED <<active, lock, hal, frame, want, bounds>>

\* Mutant: the tap being started, not the system tap, becomes active.
SysSetActiveToCaller(th) ==
  /\ pc[th] = "s_active"
  /\ active' = Self(th)
  /\ Goto(th, AfterSysStart(th))
  /\ UNCHANGED <<tap, lock, hal, frame, want, bounds>>

SysSetActive(th) ==
  /\ pc[th] = "s_active"
  /\ active' = Sys(th)
  /\ Goto(th, AfterSysStart(th))
  /\ UNCHANGED <<tap, lock, hal, frame, want, bounds>>

SysDeviceStop(th) ==
  /\ pc[th] = "x_halt"
  /\ procs' = Stopped(tap[Sys(th)].io)
  /\ Goto(th, IF tap[Sys(th)].io = None THEN "x_clear" ELSE "x_free")
  /\ UNCHANGED <<shared, objects, env, frame, want, bounds>>

SysDestroyProc(th) ==
  /\ pc[th] = "x_free"
  /\ procs' = Unregistered(tap[Sys(th)].io)
  /\ tap' = [tap EXCEPT ![Sys(th)].io = None]
  /\ Goto(th, "x_clear")
  /\ UNCHANGED <<active, lock, objects, env, frame, want, bounds>>

SysClearRunning(th) ==
  /\ pc[th] = "x_clear"
  /\ tap' = [tap EXCEPT ![Sys(th)].running = FALSE]
  /\ Goto(th, "x_active")
  /\ UNCHANGED <<active, lock, hal, frame, want, bounds>>

\* Mutant: the global pointer is not cleared.
SysKeepActive(th) ==
  /\ pc[th] = "x_active"
  /\ active' = active
  /\ Goto(th, AfterSysStop(th))
  /\ UNCHANGED <<tap, lock, hal, frame, want, bounds>>

SysClearActive(th) ==
  /\ pc[th] = "x_active"
  /\ active' = IF active = Sys(th) THEN None ELSE active
  /\ Goto(th, AfterSysStop(th))
  /\ UNCHANGED <<tap, lock, hal, frame, want, bounds>>

-----------------------------------------------------------------------------
(* audiotap_mic_start, audiotap_mic_stop and handle_device_change, under   *)
(* the tap's mutex.                                                        *)

\* Mutant: the mutex is not waited for.
LockWithoutMutex(th) ==
  /\ pc[th] = "lock"
  /\ lock' = [lock EXCEPT ![Self(th)] = th]
  /\ Goto(th, CASE frame[th].op = "start" -> "m_create"
                [] frame[th].op = "handler" -> "h_device"
                [] OTHER -> "m_halt")
  /\ UNCHANGED <<tap, active, hal, frame, want, bounds>>

Lock(th) ==
  /\ pc[th] = "lock" /\ lock[Self(th)] = None
  /\ lock' = [lock EXCEPT ![Self(th)] = th]
  /\ Goto(th, CASE frame[th].op = "start" -> "m_create"
                [] frame[th].op = "handler" -> "h_device"
                [] OTHER -> "m_halt")
  /\ UNCHANGED <<tap, active, hal, frame, want, bounds>>

Unlock(th) ==
  /\ pc[th] = "unlock"
  /\ lock' = [lock EXCEPT ![Self(th)] = None]
  /\ Goto(th, AfterStop(th))
  /\ UNCHANGED <<tap, active, hal, frame, want, bounds>>

\* Mutant: the early return forgets the mutex.
HandlerDeviceKeepsLock(th) ==
  /\ pc[th] = "h_device"
  /\ IF default_dev \in {None, tap[Self(th)].dev}
     THEN Goto(th, "return") /\ UNCHANGED frame
     ELSE /\ frame' = [frame EXCEPT ![th].dev = default_dev, ![th].was = tap[Self(th)].running]
          /\ Goto(th, IF tap[Self(th)].running THEN "m_halt" ELSE "h_switch")
  /\ UNCHANGED <<shared, hal, want, bounds>>

\* handle_device_change: nothing to do on the same device, or without one
\* (a default device that cannot be read is none).
HandlerDevice(th) ==
  /\ pc[th] = "h_device"
  /\ \/ /\ default_dev \in {None, tap[Self(th)].dev}
        /\ NoFault /\ Goto(th, "unlock") /\ UNCHANGED frame
     \/ Fault /\ Goto(th, "unlock") /\ UNCHANGED frame
     \/ /\ default_dev \notin {None, tap[Self(th)].dev} /\ NoFault
        /\ frame' = [frame EXCEPT ![th].dev = default_dev, ![th].was = tap[Self(th)].running]
        /\ Goto(th, IF tap[Self(th)].running THEN "m_halt" ELSE "h_switch")
  /\ UNCHANGED <<shared, hal, want, changes>>

\* Mutant: a tap that does not run keeps its old device.
HandlerSwitchIfRunning(th) ==
  /\ pc[th] = "h_switch"
  /\ tap' = [tap EXCEPT ![Self(th)].dev = IF frame[th].was THEN frame[th].dev ELSE @]
  /\ Goto(th, IF frame[th].was THEN "m_create" ELSE "unlock")
  /\ UNCHANGED <<active, lock, hal, frame, want, bounds>>

\* Mutant: the tap is started on its new device though it did not run.
HandlerSwitchStarts(th) ==
  /\ pc[th] = "h_switch"
  /\ tap' = [tap EXCEPT ![Self(th)].dev = frame[th].dev]
  /\ Goto(th, "m_create")
  /\ UNCHANGED <<active, lock, hal, frame, want, bounds>>

HandlerSwitch(th) ==
  /\ pc[th] = "h_switch"
  /\ tap' = [tap EXCEPT ![Self(th)].dev = frame[th].dev]
  /\ Goto(th, IF frame[th].was THEN "m_create" ELSE "unlock")
  /\ UNCHANGED <<active, lock, hal, frame, want, bounds>>

AfterMicStop(th) == IF frame[th].op = "handler" THEN "h_switch" ELSE "unlock"

\* mic_stop_locked.
MicDeviceStop(th) ==
  /\ pc[th] = "m_halt"
  /\ procs' = Stopped(tap[Self(th)].io)
  /\ Goto(th, "m_free")
  /\ UNCHANGED <<shared, objects, env, frame, want, bounds>>

MicDestroyProc(th) ==
  /\ pc[th] = "m_free"
  /\ procs' = Unregistered(tap[Self(th)].io)
  /\ tap' = [tap EXCEPT ![Self(th)].io = None, ![Self(th)].running = FALSE]
  /\ Goto(th, AfterMicStop(th))
  /\ UNCHANGED <<active, lock, objects, env, frame, want, bounds>>

\* mic_start_locked.
MicCreateProc(th) ==
  /\ pc[th] = "m_create"
  /\ \/ Register(Self(th), tap[Self(th)].dev) /\ NoFault /\ Goto(th, "m_permission") /\ UNCHANGED frame
     \/ Fault /\ Failed(th) /\ Goto(th, "unlock") /\ UNCHANGED tap /\ UNCHANGED procs
  /\ UNCHANGED <<active, lock, objects, env, want, changes>>

MicPermission(th) ==
  /\ pc[th] = "m_permission"
  /\ IF permission = "granted"
     THEN Goto(th, "m_pause") /\ UNCHANGED tap /\ UNCHANGED procs /\ UNCHANGED frame
     ELSE /\ procs' = Unregistered(tap[Self(th)].io)
          /\ tap' = [tap EXCEPT ![Self(th)].io = None]
          /\ Failed(th) /\ Goto(th, "unlock")
  /\ UNCHANGED <<active, lock, objects, env, want, bounds>>

\* Mutant: the system tap is not paused.
MicFindSysNoPause(th) ==
  /\ pc[th] = "m_pause"
  /\ frame' = [frame EXCEPT ![th].sys = active]
  /\ Goto(th, "m_start")
  /\ UNCHANGED <<shared, hal, want, bounds>>

\* The active system tap is looked up, then asked whether it runs.
MicFindSys(th) ==
  /\ pc[th] = "m_pause"
  /\ frame' = [frame EXCEPT ![th].sys = active]
  /\ Goto(th, IF active = None THEN "m_start" ELSE "m_check")
  /\ UNCHANGED <<shared, hal, want, bounds>>

MicPauseSys(th) ==
  Jump(th, "m_check", IF tap[Sys(th)].running THEN "x_halt" ELSE "m_start")

\* Mutant: the system tap is not resumed.
MicDeviceStartNoResume(th) ==
  /\ pc[th] = "m_start" /\ ~AggregateRuns
  /\ \/ procs' = Started(tap[Self(th)].io) /\ NoFault /\ UNCHANGED frame
     \/ Fault /\ Failed(th) /\ UNCHANGED procs
  /\ Goto(th, "m_result")
  /\ UNCHANGED <<shared, objects, env, want, changes>>

\* AudioDeviceStart of a physical device, and the resume of the system tap.
MicDeviceStart(th) ==
  /\ pc[th] = "m_start" /\ ~AggregateRuns
  /\ \/ procs' = Started(tap[Self(th)].io) /\ NoFault /\ UNCHANGED frame
     \/ Fault /\ Failed(th) /\ UNCHANGED procs
  /\ Goto(th, IF Sys(th) = None THEN "m_result" ELSE "s_create")
  /\ UNCHANGED <<shared, objects, env, want, changes>>

\* Mutant: the IO proc is forgotten, not destroyed, when the device does not start.
MicResultKeepsProc(th) ==
  /\ pc[th] = "m_result"
  /\ IF frame[th].ok
     THEN tap' = [tap EXCEPT ![Self(th)].running = TRUE] /\ UNCHANGED procs
     ELSE /\ UNCHANGED procs
          /\ tap' = [tap EXCEPT ![Self(th)].io = None]
  /\ Goto(th, "unlock")
  /\ UNCHANGED <<active, lock, objects, env, frame, want, bounds>>

MicResult(th) ==
  /\ pc[th] = "m_result"
  /\ IF frame[th].ok
     THEN tap' = [tap EXCEPT ![Self(th)].running = TRUE] /\ UNCHANGED procs
     ELSE /\ procs' = Unregistered(tap[Self(th)].io)
          /\ tap' = [tap EXCEPT ![Self(th)].io = None]
  /\ Goto(th, "unlock")
  /\ UNCHANGED <<active, lock, objects, env, frame, want, bounds>>

-----------------------------------------------------------------------------
CreateStep(th) ==
  CreateTap(th) \/ CreateAggregate(th) \/ CreateAlloc(th) \/ CreateMic(th) \/ Listen(th)

DestroyStep(th) ==
  Destroy(th) \/ DestroyAggregate(th) \/ DestroyTap(th) \/ Unlisten(th) \/ Free(th)

SysStep(th) ==
  \/ SysCreateProc(th) \/ SysDeviceStart(th) \/ SysSetRunning(th) \/ SysSetActive(th)
  \/ SysDeviceStop(th) \/ SysDestroyProc(th) \/ SysClearRunning(th) \/ SysClearActive(th)

MicStep(th) ==
  \/ Lock(th) \/ Unlock(th) \/ HandlerDevice(th) \/ HandlerSwitch(th)
  \/ MicDeviceStop(th) \/ MicDestroyProc(th) \/ MicCreateProc(th) \/ MicPermission(th)
  \/ MicFindSys(th) \/ MicPauseSys(th) \/ MicDeviceStart(th) \/ MicResult(th)

Step(th) ==
  \/ CreateStep(th) \/ DestroyStep(th) \/ SysStep(th) \/ MicStep(th)
  \/ Start(th) \/ Stop(th) \/ RequestPermission(th) \/ Return(th)

Next ==
  \/ \E c \in Calls : Call(c[1], c[2])
  \/ \E dev \in Devices \cup {None} : DeviceChange(dev)
  \/ \E answer \in {"granted", "denied"} : UserAnswers(answer)
  \/ \E m \in MicTaps : HandlerBegin(m)
  \/ \E th \in Threads : Step(th)

Spec == Init /\ [][Next]_vars

\* A thread inside the library goes on, and a queue runs its blocks.  The
\* caller need not call, the user need not answer, devices need not change.
FairSpec ==
  /\ Spec
  /\ \A th \in Threads : WF_vars(Step(th))
  /\ \A m \in MicTaps : WF_vars(HandlerBegin(m))

-----------------------------------------------------------------------------
(* Properties.                                                             *)

Labels ==
  {"ready", "return", "permission", "dialog", "start", "stop", "destroy",
   "c_tap", "c_aggregate", "c_alloc", "c_device", "c_listen",
   "d_aggregate", "d_tap", "d_unlisten", "d_free",
   "s_create", "s_start", "s_running", "s_active",
   "x_halt", "x_free", "x_clear", "x_active",
   "lock", "unlock", "h_device", "h_switch", "m_halt", "m_free", "m_create",
   "m_permission", "m_pause", "m_check", "m_start", "m_result"}

TapRecord == [life : {"none", "live", "freed"}, running : BOOLEAN,
              io : IoProcs \cup {None}, dev : Devices \cup {None}]
ProcRecord == [dev : Devices \cup SysTaps \cup {None}, tap : Taps \cup {None}, on : BOOLEAN]
FrameRecord == [op : Functions \cup {"none", "handler"}, tap : Taps \cup {None},
                sys : SysTaps \cup {None}, was : BOOLEAN, dev : Devices \cup {None}, ok : BOOLEAN]

TypeOK ==
  /\ tap \in [Taps -> TapRecord]
  /\ active \in SysTaps \cup {None}
  /\ lock \in [MicTaps -> Threads \cup {None}]
  /\ procs \in [IoProcs -> ProcRecord]
  /\ objects \in [SysTaps -> SUBSET {"tap", "aggregate"}]
  /\ listening \subseteq MicTaps /\ pending \in [MicTaps -> Nat]
  /\ default_dev \in Devices \cup {None}
  /\ permission \in {"unknown", "granted", "denied"}
  /\ pc \in [Threads -> Labels]
  /\ frame \in [Threads -> FrameRecord]
  /\ want \subseteq Taps
  /\ faults \in Nat /\ changes \in Nat

\* The device whose audio tap t captures.
Source(t) == IF t \in SysTaps THEN t ELSE tap[t].dev

\* No IO proc is forgotten: Core Audio holds at most the one the tap knows,
\* so that stop and destroy reach every callback that can still be called.
NoOrphanIoProc ==
  \A p \in IoProcs : procs[p] # NoProc => tap[procs[p].tap].io = p

\* Between calls `running' tells the truth: a tap that says it runs has its
\* IO proc registered on the right device and started, one that says it does
\* not has none, and the global pointer is the running system tap or NULL.
RestConsistent ==
  AtRest =>
    /\ \A t \in Taps :
         IF tap[t].running
         THEN /\ tap[t].life = "live"
              /\ procs[tap[t].io] = [dev |-> Source(t), tap |-> t, on |-> TRUE]
         ELSE tap[t].io = None
    /\ active # None => tap[active].running
    /\ \A t \in SysTaps : tap[t].running => active # None

\* Whatever failed on the way, a tap that could not be created or that was
\* destroyed leaves nothing behind: no process tap, aggregate device, IO proc
\* or listener, and no pointer to it.
NothingLeftBehind ==
  pc[Caller] = "ready" =>
    \A t \in Taps : tap[t].life # "live" =>
      /\ t \in SysTaps => objects[t] = {}
      /\ \A p \in IoProcs : procs[p].tap # t
      /\ t \notin listening /\ active # t

\* AudioDeviceStart of a microphone is not called while an aggregate device
\* runs, where it would block: the system tap was paused first.
NeverUnderAggregate ==
  \A th \in Threads : pc[th] = "m_start" => ~AggregateRuns

\* Between calls a microphone tap is on the default input device, as long as
\* nothing failed.
FollowsDefault ==
  AtRest /\ faults = 0 => \A m \in MicTaps :
    tap[m].life = "live" /\ default_dev # None => tap[m].dev = default_dev

\* Between calls nothing captures that the caller did not start, or has
\* stopped; and as long as nothing failed everything it started captures,
\* device changes and pauses included.
RunsAsAsked ==
  AtRest => \A t \in Taps :
    /\ tap[t].running => t \in want
    /\ t \in want /\ faults = 0 => tap[t].running

\* The fields of a tap that a thread's next step reads or writes.
UsesSelf ==
  {"start", "stop", "destroy", "d_aggregate", "d_tap", "d_unlisten", "d_free",
   "lock", "unlock", "h_device", "h_switch", "m_halt", "m_free", "m_create",
   "m_permission", "m_start", "m_result"}
UsesSys == {"s_create", "s_start", "s_running", "x_halt", "x_free", "x_clear", "m_check"}
Uses(th) ==
  {t \in {Self(th)} : pc[th] \in UsesSelf /\ frame[th].op # "create"}
  \cup {t \in {Sys(th)} : pc[th] \in UsesSys}

\* No thread works on a tap that was freed.
NoUseAfterFree == \A th \in Threads : \A t \in Uses(th) : tap[t].life = "live"

\* A thread that starts, stops or restarts a microphone tap holds the tap's
\* mutex until it is done, the pause and resume of the system tap included,
\* so there is one at a time.
Serialized == {"unlock", "h_device", "h_switch", "m_halt", "m_free", "m_create",
  "m_permission", "m_pause", "m_check", "m_start", "m_result"}
LockedLabels ==
  Serialized \cup {"s_create", "s_start", "s_running", "s_active",
                   "x_halt", "x_free", "x_clear", "x_active"}
InMic(th, m) == Self(th) = m /\ pc[th] \in LockedLabels
MicSerialized ==
  \A m \in MicTaps : \A th \in Threads : InMic(th, m) =>
    lock[m] = th /\ \A other \in Threads : InMic(other, m) => other = th

\* A call returns, unless it waits for the user's answer.
CallsReturn == pc[Caller] # "ready" ~> pc[Caller] \in {"ready", "dialog"}

\* Every change of the default device is handled.
ChangesHandled == \A m \in MicTaps : pending[m] > 0 ~> pending[m] = 0 /\ pc[m] = "ready"

\* The taps that Core Audio may call back.
Sounding == {t \in Taps : \E p \in IoProcs : procs[p].tap = t /\ procs[p].on}

Promise == INSTANCE Capture WITH
  life <- [t \in Taps |-> tap[t].life],
  asked <- want,
  audio <- Sounding,
  call <- <<frame[Caller].op, Self(Caller)>>

\* The library keeps the promise of module Capture: audio only from taps that
\* exist and that the caller has asked for, and silence after a stop, however
\* restarts and pauses fall.
ImplementsCapture == Promise!CSpec
=============================================================================
