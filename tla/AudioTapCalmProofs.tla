------------------------- MODULE AudioTapCalmProofs -------------------------
(***************************************************************************)
(* What holds of the C library when calls and device changes do not race:  *)
(* the proofs of the safety invariants of AudioTap that need this.         *)
(*                                                                         *)
(* The inductive invariant comes in layers, each proved with the help of   *)
(* those below it: where the threads are (CallShape), what is registered   *)
(* with Core Audio (Registry), which objects exist (Lifetimes), which      *)
(* device a microphone tap is on (FollowInv), and what the caller asked    *)
(* for (Wishes).  With what a creation and a destruction have come to      *)
(* (DoneInv) they give the refinement of module Capture.                   *)
(***************************************************************************)
EXTENDS AudioTapProofs

\* The environment of the run tap_calm, for any number of taps: a call begins
\* when no change is being handled; the default device changes between calls
\* or in the start and stop of a microphone tap, after its look at `running'.
\* With two microphone taps their listeners pause and resume the system tap
\* without a common lock: a system tap goes with at most one of them.
Calm ==
  /\ CallAnytime = FALSE
  /\ OverlapCalls \subseteq {"start", "stop"} \X MicTaps
  /\ SysTaps = {} \/ \A a, b \in MicTaps : a = b

\* audiotap_active_system_tap remembers one system tap.
OneSystemTap == \A a, b \in SysTaps : a = b

-----------------------------------------------------------------------------
(* Where the threads are.                                                  *)

SysStarts == {"s_create", "s_start", "s_running", "s_active"}
SysStops == {"x_halt", "x_free", "x_clear", "x_active"}
SysCode == SysStarts \cup SysStops
MicStarts == {"m_create", "m_permission", "m_pause", "m_check", "m_start", "m_result"}

\* The calls that have not failed so far.
SoFarOk ==
  {"permission", "dialog", "start", "stop", "destroy", "lock", "h_device", "h_switch",
   "m_halt", "m_free", "m_create", "m_permission", "m_pause", "m_check", "m_start"} \cup SysStops

\* Which function, on which tap, a thread at a label is in.
OpFits(label, f) ==
  /\ label = "ready" => f = NoFrame
  /\ label \in {"permission", "dialog"} => f.op = "permission"
  /\ label \in {"c_tap", "c_aggregate", "c_alloc", "c_device", "c_listen"} => f.op = "create"
  /\ label = "start" => f.op = "start"
  /\ label = "stop" => f.op \in {"stop", "destroy"}
  /\ label \in {"destroy", "d_unlisten", "d_free"} => f.op = "destroy"
  /\ label \in {"d_aggregate", "d_tap"} => f.op \in {"create", "destroy"}
  /\ label \in {"lock", "unlock"} => f.op \in {"start", "stop", "destroy", "handler"}
  /\ label \in {"h_device", "h_switch"} => f.op = "handler"
  /\ label \in {"m_halt", "m_free"} => f.op \in {"stop", "destroy", "handler"}
  /\ label \in MicStarts => f.op \in {"start", "handler"}
  /\ label \in SysStarts => f.op \in {"start", "handler"}
  /\ label \in SysStops =>
       f.op \in (IF f.tap \in SysTaps THEN {"stop", "destroy"} ELSE {"start", "handler"})

TapFits(label, f) ==
  /\ label \in {"c_tap", "c_aggregate", "c_alloc", "d_aggregate", "d_tap"} => f.tap \in SysTaps
  /\ label \in {"c_device", "c_listen", "d_unlisten"} => f.tap \in MicTaps
  /\ label \in SysCode \cup {"d_free"} => f.tap \in Taps
  /\ label \in SysCode \cup {"m_check"} => f.sys \in SysTaps
  /\ f.tap \in SysTaps => f.sys = f.tap
  /\ f.op = "handler" => f.tap \in MicTaps
  /\ f.op \in {"create", "start", "stop", "destroy"} => f.tap \in Taps

ResultFits(label, f) ==
  /\ label \in SoFarOk => f.ok
  /\ label \in SysStarts /\ f.tap \in SysTaps => f.ok
  /\ f.op = "handler" /\ label \in {"m_halt", "m_free", "h_switch"} => f.dev # None
  /\ f.op = "handler" /\ label \in {"m_halt", "m_free"} => f.was

Fits(label, f) == OpFits(label, f) /\ TapFits(label, f) /\ ResultFits(label, f)

\* The listener queue of a tap works on this tap, the caller is not a listener.
ThreadFits(th) ==
  /\ Fits(pc[th], frame[th])
  /\ th \in MicTaps /\ pc[th] # "ready" => frame[th].op = "handler" /\ Self(th) = th
  /\ th = Caller => frame[th].op # "handler"

\* While a change is being handled the caller is in the middle of the start or
\* stop of a microphone tap, or in no call.
OverlapInv ==
  ~Quiet /\ pc[Caller] # "ready" =>
    /\ frame[Caller].op \in {"start", "stop"} /\ Self(Caller) \in MicTaps
    /\ pc[Caller] \notin {"start", "stop"}

\* A mutex that is held is held by a thread that will release it.
HeldInv == \A m \in MicTaps : lock[m] # None => Self(lock[m]) = m /\ pc[lock[m]] \in LockedLabels

CallShape == (\A th \in Threads : ThreadFits(th)) /\ OverlapInv /\ HeldInv

-----------------------------------------------------------------------------
(* What is registered with Core Audio.                                     *)

Off(t) == tap[t].io = None
Idle(t) == tap[t].io # None /\ ~procs[tap[t].io].on
On(t) == tap[t].io # None /\ procs[tap[t].io].on
Rest(t) == IF tap[t].running THEN On(t) ELSE Off(t)

\* The table of IO procs and the fields io_proc_id agree.
LinkInv ==
  /\ \A p \in IoProcs : procs[p] # NoProc => procs[p].tap \in Taps /\ tap[procs[p].tap].io = p
  /\ \A t \in Taps : tap[t].io # None =>
       procs[tap[t].io].tap = t /\ procs[tap[t].io].dev = Source(t)

\* The listener of m is in the restart of a tap that ran.
RestartLabels == LockedLabels \ {"h_device", "h_switch", "unlock"}
Restarting(m) == pc[m] \in RestartLabels \/ (pc[m] = "h_switch" /\ frame[m].was)

\* The caller waits for the mutex to start a tap that does not run, and will not
\* run when the mutex is free.
CallerWaits(m) == pc[Caller] = "lock" /\ frame[Caller].op = "start" /\ Self(Caller) = m
WaitInv == \A m \in MicTaps : CallerWaits(m) => ~tap[m].running /\ ~Restarting(m)

\* The microphone tap of a thread that holds its mutex.
MicPhase(th) ==
  LET t == Self(th) IN
  /\ pc[th] \in {"unlock", "h_device", "m_halt"} => Rest(t)
  /\ pc[th] = "m_free" => ~On(t)
  /\ pc[th] \in {"h_switch", "m_create"} => ~tap[t].running /\ Off(t)
  /\ pc[th] \in {"m_permission", "m_pause", "m_check", "m_start"} => ~tap[t].running /\ Idle(t)
  /\ pc[th] \in SysStops /\ t \in MicTaps => ~tap[t].running /\ Idle(t)
  /\ (pc[th] \in SysStarts /\ t \in MicTaps) \/ pc[th] = "m_result" =>
       ~tap[t].running /\ (IF frame[th].ok THEN On(t) ELSE Idle(t))

\* The system tap of a thread that starts, stops, pauses or resumes it.
SysPhase(th) ==
  LET t == Sys(th) IN
  /\ pc[th] = "s_create" => ~tap[t].running /\ Off(t) /\ active # t
  /\ pc[th] = "s_start" => ~tap[t].running /\ Idle(t) /\ active # t
  /\ pc[th] = "s_running" => ~tap[t].running /\ On(t) /\ active # t
  /\ pc[th] \in {"s_active", "x_halt"} => tap[t].running /\ On(t)
  /\ pc[th] = "x_free" => tap[t].running /\ Idle(t)
  /\ pc[th] = "x_clear" => tap[t].running /\ Off(t)
  /\ pc[th] = "x_active" => ~tap[t].running /\ Off(t)
  /\ pc[th] = "m_check" => active = t
  /\ pc[th] = "m_start" =>
       IF t = None THEN active = None ELSE ~tap[t].running /\ Off(t) /\ active # t

\* A tap nobody works on.
MicRest == \A m \in MicTaps : lock[m] = None => Rest(m)
Untouched(t) == \A th \in Threads : pc[th] \in SysCode => Sys(th) # t
AtPeace(t) ==
  /\ Rest(t)
  /\ active = t => tap[t].running
  /\ OneSystemTap /\ tap[t].running => active = t
SysRest == \A t \in SysTaps : Untouched(t) => AtPeace(t)

Registry ==
  /\ LinkInv /\ MicRest /\ SysRest /\ WaitInv
  /\ \A th \in Threads : MicPhase(th) /\ SysPhase(th)

-----------------------------------------------------------------------------
(* Which objects exist.                                                    *)

Live(t) == tap[t].life = "live"

\* The caller is in the creation of system tap t, or in its rollback.
Building(t) ==
  Self(Caller) = t /\ pc[Caller] \in {"c_aggregate", "c_alloc", "d_aggregate", "d_tap"}

\* A tap that runs, is registered, listens or is active has been created and
\* not destroyed.
TapLife ==
  /\ \A t \in Taps : tap[t].running \/ tap[t].io # None => Live(t)
  /\ \A m \in MicTaps : (m \in listening => Live(m)) /\ (pending[m] > 0 => m \in listening)
  /\ active # None => Live(active)
  /\ \A t \in SysTaps : Live(t) \/ objects[t] = {} \/ Building(t)

\* The taps a thread works on.
ThreadLife(th) ==
  LET t == Self(th)  op == frame[th].op  IN
  /\ op \in {"start", "stop", "handler"} => Live(t)
  /\ op = "destroy" /\ pc[th] # "return" => Live(t)
  /\ op \in {"start", "handler"} /\ Sys(th) # None => Live(Sys(th))
  /\ op = "create" /\ pc[th] \notin {"c_listen", "return"} => tap[t].life = "none"
  /\ pc[th] = "c_listen" => Live(t)
  /\ pc[th] = "c_tap" => objects[t] = {}
  /\ pc[th] \in {"c_aggregate", "d_tap"} => "aggregate" \notin objects[t]
  /\ pc[th] = "d_free" => t \notin listening /\ (t \in SysTaps => objects[t] = {})
  /\ op = "destroy" /\ pc[th] \in {"d_aggregate", "d_tap", "d_unlisten", "d_free", "unlock"} =>
       ~tap[t].running

Lifetimes == TapLife /\ \A th \in Threads : ThreadLife(th)

-----------------------------------------------------------------------------
(* Which device a microphone tap is on, as long as nothing failed.         *)

\* Its listener is registered, but for the ends of its life.
Hears(m) == m \in listening \/ (Self(Caller) = m /\ pc[Caller] \in {"c_listen", "d_free"})

\* It is on the default device, or is being moved to it, or its listener has
\* still to look.
WillFollow(m) ==
  \/ pending[m] > 0
  \/ pc[m] \in {"lock", "h_device"}
  \/ (IF pc[m] \in {"m_halt", "m_free", "h_switch"} THEN frame[m].dev ELSE tap[m].dev) = default_dev

FollowInv ==
  faults = 0 => \A m \in MicTaps :
    Live(m) => Hears(m) /\ (default_dev # None => WillFollow(m))

-----------------------------------------------------------------------------
(* What the caller asked for.                                              *)

\* A system tap that is paused for the start of a microphone.
PauseLabels == {"x_active", "m_start", "s_create", "s_start", "s_running"}
PausedBy(th, t) == Self(th) \in MicTaps /\ Sys(th) = t /\ pc[th] \in PauseLabels
Paused(t) == \E th \in Threads : PausedBy(th, t)

\* A tap that runs, or will when the restart or the pause is over.
Up(t) == tap[t].running \/ (t \in MicTaps /\ Restarting(t)) \/ (t \in SysTaps /\ Paused(t))

\* Only a microphone that may be used runs.
GrantedLabels == {"m_pause", "m_check", "m_start", "m_result"} \cup SysCode
GrantInv ==
  /\ pc[Caller] = "dialog" => permission = "unknown"
  /\ \A m \in MicTaps : Up(m) => permission = "granted"
  /\ \A th \in Threads : Self(th) \in MicTaps /\ pc[th] \in GrantedLabels => permission = "granted"

CallerAsks(t) == Self(Caller) = t /\ frame[Caller].op \in {"start", "stop", "destroy"}
WantInv ==
  /\ \A t \in Taps : /\ Up(t) => t \in want \/ CallerAsks(t)
                     /\ faults = 0 /\ t \in want => Up(t)
  /\ frame[Caller].op \in {"stop", "destroy"} => Self(Caller) \notin want

\* What the call of the caller has come to.
ResultInv ==
  \A t \in Taps : Self(Caller) = t =>
    LET op == frame[Caller].op  ok == frame[Caller].ok  IN
    /\ op = "start" /\ pc[Caller] = "unlock" => (tap[t].running <=> ok)
    /\ op = "start" /\ pc[Caller] = "return" /\ ok /\ faults = 0 => Up(t)
    /\ op = "start" /\ pc[Caller] = "return" /\ ~ok => ~Up(t)
    /\ op = "stop" /\ pc[Caller] = "unlock" => ~tap[t].running
    /\ op \in {"stop", "destroy"} /\ pc[Caller] = "return" => ~Up(t)

OkInv ==
  \A th \in Threads : faults = 0 /\ pc[th] \in SysStarts \cup {"m_result"} => frame[th].ok

Wishes == GrantInv /\ WantInv /\ ResultInv /\ OkInv

CalmInv == ATInv /\ CallShape /\ Registry /\ Lifetimes /\ FollowInv /\ Wishes

-----------------------------------------------------------------------------
(* CallShape.  A step inside a call: the label and the frame it leads to   *)
(* fit each other, and a thread with a mutex keeps it.                     *)

MoveFits(th, label) ==
  /\ pc[th] # "ready" /\ label # "ready"
  /\ OpFits(label, frame'[th]) /\ TapFits(label, frame'[th]) /\ ResultFits(label, frame'[th])
  /\ label \in {"start", "stop"} => frame[th].op = "destroy"
  /\ Self(th) \in MicTaps /\ pc[th] \in LockedLabels => label \in LockedLabels

\* Of the frames only the result of th may have changed.
FramesKeep(th) ==
  /\ \A other \in Threads \ {th} : frame'[other] = frame[other]
  /\ frame'[th].op = frame[th].op /\ frame'[th].tap = frame[th].tap /\ frame'[th].sys = frame[th].sys
  /\ frame'[th].was = frame[th].was /\ frame'[th].dev = frame[th].dev

LEMMA UnchangedKeeps == ASSUME UNCHANGED frame, NEW th PROVE FramesKeep(th)
BY SMT DEF FramesKeep

LEMMA FailedKeeps ==
  ASSUME TypeOK, NEW th \in Threads, Failed(th)
  PROVE  FramesKeep(th) /\ ~frame'[th].ok
<1>1. frame[th] \in FrameRecord
  BY Zenon DEF TypeOK
<1>2. frame'[th] = [frame[th] EXCEPT !.ok = FALSE] /\ \A other \in Threads \ {th} : frame'[other] = frame[other]
  BY Zenon DEF TypeOK, Failed
<1> QED BY <1>1, <1>2, SMT DEF FramesKeep, FrameRecord

LEMMA SysFailedKeeps ==
  ASSUME TypeOK, NEW th \in Threads, SysFailed(th)
  PROVE  FramesKeep(th) /\ (Self(th) \in MicTaps => frame' = frame)
BY FailedKeeps, UnchangedKeeps, Zenon DEF SysFailed, TypeOK

LEMMA KeepsCalls == ASSUME NEW th \in Threads, FramesKeep(th) PROVE SameCalls
BY SMT DEF FramesKeep, SameCalls, Self

LEMMA FrameTyped ==
  ASSUME ATInv, NEW th \in Threads
  PROVE  /\ frame[th].op \in Functions \cup {"none", "handler"} /\ frame[th].tap \in Taps \cup {None}
         /\ frame[th].sys \in SysTaps \cup {None} /\ frame[th].dev \in Devices \cup {None}
         /\ frame[th].was \in BOOLEAN /\ frame[th].ok \in BOOLEAN
<1>1. frame[th] \in FrameRecord
  BY Zenon DEF ATInv, TypeOK
<1> QED BY <1>1, SMT DEF FrameRecord

LEMMA MoveShape ==
  ASSUME ATInv, CallShape, NEW th \in Threads, NEW label, Goto(th, label),
         UNCHANGED <<lock, pending>>, SameCalls,
         \A other \in Threads \ {th} : frame'[other] = frame[other], MoveFits(th, label)
  PROVE  CallShape'
<1>1. pc'[th] = label /\ \A other \in Threads \ {th} : pc'[other] = pc[other]
  BY SMT DEF Goto, ATInv, TypeOK
<1>2. \A other \in Threads : ThreadFits(other)'
  <2>1. ThreadFits(th)'
    BY <1>1, SMT DEF CallShape, ThreadFits, SameCalls, Self, MoveFits, Fits
  <2>2. ASSUME NEW other \in Threads \ {th} PROVE ThreadFits(other)'
    BY <1>1, <2>2, Zenon DEF CallShape, ThreadFits, Self
  <2> QED BY <2>1, <2>2, Zenon
<1>3. OverlapInv'
  <2>1. Quiet' = Quiet
    BY <1>1, SMT DEF Quiet, Threads, MoveFits
  <2>2. pc'[Caller] # "ready" <=> pc[Caller] # "ready"
    BY <1>1, SMT DEF Threads, MoveFits
  <2>3. frame[Caller].op = frame'[Caller].op /\ Self(Caller)' = Self(Caller)
    BY SMT DEF SameCalls, Threads
  <2> QED BY <1>1, <2>1, <2>2, <2>3, SMT DEF CallShape, OverlapInv, Threads, MoveFits
<1>4. HeldInv'
  BY <1>1, SMT DEF CallShape, HeldInv, SameCalls, ATInv, TypeOK, Threads, MoveFits
<1> QED BY <1>2, <1>3, <1>4 DEF CallShape

LEMMA CreateTapShape ==
  ASSUME ATInv, CallShape, NEW th \in Threads, CreateTap(th)
  PROVE  CallShape'
<1>1. FramesKeep(th) /\ UNCHANGED <<lock, pending>>
  BY FailedKeeps, UnchangedKeeps, SMT DEF CreateTap, Jump, shared, hal, env, ATInv, TypeOK
<1>2. OpFits(pc[th], frame[th]) /\ TapFits(pc[th], frame[th]) /\ ResultFits(pc[th], frame[th])
  BY Zenon DEF CallShape, ThreadFits, Fits
<1>3. frame'[th].ok = frame[th].ok \/ ~frame'[th].ok
  BY FailedKeeps, SMT DEF CreateTap, ATInv
<1>4. PICK label : Goto(th, label) /\ MoveFits(th, label)
  BY <1>1, <1>2, <1>3, FrameTyped, AudioTapAssumption, SMT DEF CreateTap, CallInv, ATInv, MoveFits,
     FramesKeep, OpFits, TapFits, ResultFits, MicLabels, MicStarts, SysCode, SysStarts, SysStops, SoFarOk, Self, Taps, LockedLabels, Serialized
<1> QED BY <1>1, <1>4, KeepsCalls, MoveShape, Zenon DEF FramesKeep

LEMMA CreateAggregateShape ==
  ASSUME ATInv, CallShape, NEW th \in Threads, CreateAggregate(th)
  PROVE  CallShape'
<1>1. FramesKeep(th) /\ UNCHANGED <<lock, pending>>
  BY FailedKeeps, UnchangedKeeps, SMT DEF CreateAggregate, Jump, shared, hal, env, ATInv, TypeOK
<1>2. OpFits(pc[th], frame[th]) /\ TapFits(pc[th], frame[th]) /\ ResultFits(pc[th], frame[th])
  BY Zenon DEF CallShape, ThreadFits, Fits
<1>3. frame'[th].ok = frame[th].ok \/ ~frame'[th].ok
  BY FailedKeeps, SMT DEF CreateAggregate, ATInv
<1>4. PICK label : Goto(th, label) /\ MoveFits(th, label)
  BY <1>1, <1>2, <1>3, FrameTyped, AudioTapAssumption, SMT DEF CreateAggregate, CallInv, ATInv, MoveFits,
     FramesKeep, OpFits, TapFits, ResultFits, MicLabels, MicStarts, SysCode, SysStarts, SysStops, SoFarOk, Self, Taps, LockedLabels, Serialized
<1> QED BY <1>1, <1>4, KeepsCalls, MoveShape, Zenon DEF FramesKeep

LEMMA CreateAllocShape ==
  ASSUME ATInv, CallShape, NEW th \in Threads, CreateAlloc(th)
  PROVE  CallShape'
<1>1. FramesKeep(th) /\ UNCHANGED <<lock, pending>>
  BY FailedKeeps, UnchangedKeeps, SMT DEF CreateAlloc, Jump, shared, hal, env, ATInv, TypeOK
<1>2. OpFits(pc[th], frame[th]) /\ TapFits(pc[th], frame[th]) /\ ResultFits(pc[th], frame[th])
  BY Zenon DEF CallShape, ThreadFits, Fits
<1>3. frame'[th].ok = frame[th].ok \/ ~frame'[th].ok
  BY FailedKeeps, SMT DEF CreateAlloc, ATInv
<1>4. PICK label : Goto(th, label) /\ MoveFits(th, label)
  BY <1>1, <1>2, <1>3, FrameTyped, AudioTapAssumption, SMT DEF CreateAlloc, CallInv, ATInv, MoveFits,
     FramesKeep, OpFits, TapFits, ResultFits, MicLabels, MicStarts, SysCode, SysStarts, SysStops, SoFarOk, Self, Taps, LockedLabels, Serialized
<1> QED BY <1>1, <1>4, KeepsCalls, MoveShape, Zenon DEF FramesKeep

LEMMA CreateMicShape ==
  ASSUME ATInv, CallShape, NEW th \in Threads, CreateMic(th)
  PROVE  CallShape'
<1>1. FramesKeep(th) /\ UNCHANGED <<lock, pending>>
  BY FailedKeeps, UnchangedKeeps, SMT DEF CreateMic, Jump, shared, hal, env, ATInv, TypeOK
<1>2. OpFits(pc[th], frame[th]) /\ TapFits(pc[th], frame[th]) /\ ResultFits(pc[th], frame[th])
  BY Zenon DEF CallShape, ThreadFits, Fits
<1>3. frame'[th].ok = frame[th].ok \/ ~frame'[th].ok
  BY FailedKeeps, SMT DEF CreateMic, ATInv
<1>4. PICK label : Goto(th, label) /\ MoveFits(th, label)
  BY <1>1, <1>2, <1>3, FrameTyped, AudioTapAssumption, SMT DEF CreateMic, CallInv, ATInv, MoveFits,
     FramesKeep, OpFits, TapFits, ResultFits, MicLabels, MicStarts, SysCode, SysStarts, SysStops, SoFarOk, Self, Taps, LockedLabels, Serialized
<1> QED BY <1>1, <1>4, KeepsCalls, MoveShape, Zenon DEF FramesKeep

LEMMA ListenShape ==
  ASSUME ATInv, CallShape, NEW th \in Threads, Listen(th)
  PROVE  CallShape'
<1>1. FramesKeep(th) /\ UNCHANGED <<lock, pending>>
  BY UnchangedKeeps, SMT DEF Listen, Jump, shared, hal, env, ATInv, TypeOK
<1>2. OpFits(pc[th], frame[th]) /\ TapFits(pc[th], frame[th]) /\ ResultFits(pc[th], frame[th])
  BY Zenon DEF CallShape, ThreadFits, Fits
<1>3. frame'[th] = frame[th]
  BY SMT DEF Listen, Jump
<1>4. PICK label : Goto(th, label) /\ MoveFits(th, label)
  BY <1>1, <1>2, <1>3, FrameTyped, AudioTapAssumption, SMT DEF Listen, CallInv, ATInv, MoveFits,
     FramesKeep, OpFits, TapFits, ResultFits, MicLabels, MicStarts, SysCode, SysStarts, SysStops, SoFarOk, Self, Taps, LockedLabels, Serialized
<1> QED BY <1>1, <1>4, KeepsCalls, MoveShape, Zenon DEF FramesKeep

LEMMA StartShape ==
  ASSUME ATInv, CallShape, NEW th \in Threads, Start(th)
  PROVE  CallShape'
<1>1. FramesKeep(th) /\ UNCHANGED <<lock, pending>>
  BY UnchangedKeeps, SMT DEF Start, Jump, shared, hal, env, ATInv, TypeOK
<1>2. OpFits(pc[th], frame[th]) /\ TapFits(pc[th], frame[th]) /\ ResultFits(pc[th], frame[th])
  BY Zenon DEF CallShape, ThreadFits, Fits
<1>3. frame'[th] = frame[th]
  BY SMT DEF Start, Jump
<1>4. PICK label : Goto(th, label) /\ MoveFits(th, label)
  BY <1>1, <1>2, <1>3, FrameTyped, AudioTapAssumption, SMT DEF Start, Jump, CallInv, ATInv, MoveFits,
     FramesKeep, OpFits, TapFits, ResultFits, MicLabels, MicStarts, SysCode, SysStarts, SysStops, SoFarOk, Self, Taps, LockedLabels, Serialized
<1> QED BY <1>1, <1>4, KeepsCalls, MoveShape, Zenon DEF FramesKeep

LEMMA StopShape ==
  ASSUME ATInv, CallShape, NEW th \in Threads, Stop(th)
  PROVE  CallShape'
<1>1. FramesKeep(th) /\ UNCHANGED <<lock, pending>>
  BY UnchangedKeeps, SMT DEF Stop, Jump, shared, hal, env, ATInv, TypeOK
<1>2. OpFits(pc[th], frame[th]) /\ TapFits(pc[th], frame[th]) /\ ResultFits(pc[th], frame[th])
  BY Zenon DEF CallShape, ThreadFits, Fits
<1>3. frame'[th] = frame[th]
  BY SMT DEF Stop, Jump
<1>4. PICK label : Goto(th, label) /\ MoveFits(th, label)
  BY <1>1, <1>2, <1>3, FrameTyped, AudioTapAssumption, SMT DEF Stop, Jump, AfterStop, DestroyBegin, CallInv, ATInv, MoveFits,
     FramesKeep, OpFits, TapFits, ResultFits, MicLabels, MicStarts, SysCode, SysStarts, SysStops, SoFarOk, Self, Taps, LockedLabels, Serialized
<1> QED BY <1>1, <1>4, KeepsCalls, MoveShape, Zenon DEF FramesKeep

LEMMA DestroyShape ==
  ASSUME ATInv, CallShape, NEW th \in Threads, Destroy(th)
  PROVE  CallShape'
<1>1. FramesKeep(th) /\ UNCHANGED <<lock, pending>>
  BY UnchangedKeeps, SMT DEF Destroy, Jump, shared, hal, env, ATInv, TypeOK
<1>2. OpFits(pc[th], frame[th]) /\ TapFits(pc[th], frame[th]) /\ ResultFits(pc[th], frame[th])
  BY Zenon DEF CallShape, ThreadFits, Fits
<1>3. frame'[th] = frame[th]
  BY SMT DEF Destroy, Jump
<1>4. PICK label : Goto(th, label) /\ MoveFits(th, label)
  BY <1>1, <1>2, <1>3, FrameTyped, AudioTapAssumption, SMT DEF Destroy, Jump, DestroyBegin, CallInv, ATInv, MoveFits,
     FramesKeep, OpFits, TapFits, ResultFits, MicLabels, MicStarts, SysCode, SysStarts, SysStops, SoFarOk, Self, Taps, LockedLabels, Serialized
<1> QED BY <1>1, <1>4, KeepsCalls, MoveShape, Zenon DEF FramesKeep

LEMMA RequestPermissionShape ==
  ASSUME ATInv, CallShape, NEW th \in Threads, RequestPermission(th)
  PROVE  CallShape'
<1>1. FramesKeep(th) /\ UNCHANGED <<lock, pending>>
  BY UnchangedKeeps, SMT DEF RequestPermission, Jump, shared, hal, env, ATInv, TypeOK
<1>2. OpFits(pc[th], frame[th]) /\ TapFits(pc[th], frame[th]) /\ ResultFits(pc[th], frame[th])
  BY Zenon DEF CallShape, ThreadFits, Fits
<1>3. frame'[th] = frame[th]
  BY SMT DEF RequestPermission, Jump
<1>4. PICK label : Goto(th, label) /\ MoveFits(th, label)
  BY <1>1, <1>2, <1>3, FrameTyped, AudioTapAssumption, SMT DEF RequestPermission, Jump, CallInv, ATInv, MoveFits,
     FramesKeep, OpFits, TapFits, ResultFits, MicLabels, MicStarts, SysCode, SysStarts, SysStops, SoFarOk, Self, Taps, LockedLabels, Serialized
<1> QED BY <1>1, <1>4, KeepsCalls, MoveShape, Zenon DEF FramesKeep

LEMMA DestroyAggregateShape ==
  ASSUME ATInv, CallShape, NEW th \in Threads, DestroyAggregate(th)
  PROVE  CallShape'
<1>1. FramesKeep(th) /\ UNCHANGED <<lock, pending>>
  BY UnchangedKeeps, SMT DEF DestroyAggregate, Jump, shared, hal, env, ATInv, TypeOK
<1>2. OpFits(pc[th], frame[th]) /\ TapFits(pc[th], frame[th]) /\ ResultFits(pc[th], frame[th])
  BY Zenon DEF CallShape, ThreadFits, Fits
<1>3. frame'[th] = frame[th]
  BY SMT DEF DestroyAggregate, Jump
<1>4. PICK label : Goto(th, label) /\ MoveFits(th, label)
  BY <1>1, <1>2, <1>3, FrameTyped, AudioTapAssumption, SMT DEF DestroyAggregate, CallInv, ATInv, MoveFits,
     FramesKeep, OpFits, TapFits, ResultFits, MicLabels, MicStarts, SysCode, SysStarts, SysStops, SoFarOk, Self, Taps, LockedLabels, Serialized
<1> QED BY <1>1, <1>4, KeepsCalls, MoveShape, Zenon DEF FramesKeep

LEMMA DestroyTapShape ==
  ASSUME ATInv, CallShape, NEW th \in Threads, DestroyTap(th)
  PROVE  CallShape'
<1>1. FramesKeep(th) /\ UNCHANGED <<lock, pending>>
  BY UnchangedKeeps, SMT DEF DestroyTap, Jump, shared, hal, env, ATInv, TypeOK
<1>2. OpFits(pc[th], frame[th]) /\ TapFits(pc[th], frame[th]) /\ ResultFits(pc[th], frame[th])
  BY Zenon DEF CallShape, ThreadFits, Fits
<1>3. frame'[th] = frame[th]
  BY SMT DEF DestroyTap, Jump
<1>4. PICK label : Goto(th, label) /\ MoveFits(th, label)
  BY <1>1, <1>2, <1>3, FrameTyped, AudioTapAssumption, SMT DEF DestroyTap, CallInv, ATInv, MoveFits,
     FramesKeep, OpFits, TapFits, ResultFits, MicLabels, MicStarts, SysCode, SysStarts, SysStops, SoFarOk, Self, Taps, LockedLabels, Serialized
<1> QED BY <1>1, <1>4, KeepsCalls, MoveShape, Zenon DEF FramesKeep

LEMMA FreeShape ==
  ASSUME ATInv, CallShape, NEW th \in Threads, Free(th)
  PROVE  CallShape'
<1>1. FramesKeep(th) /\ UNCHANGED <<lock, pending>>
  BY UnchangedKeeps, SMT DEF Free, Jump, shared, hal, env, ATInv, TypeOK
<1>2. OpFits(pc[th], frame[th]) /\ TapFits(pc[th], frame[th]) /\ ResultFits(pc[th], frame[th])
  BY Zenon DEF CallShape, ThreadFits, Fits
<1>3. frame'[th] = frame[th]
  BY SMT DEF Free, Jump
<1>4. PICK label : Goto(th, label) /\ MoveFits(th, label)
  BY <1>1, <1>2, <1>3, FrameTyped, AudioTapAssumption, SMT DEF Free, CallInv, ATInv, MoveFits,
     FramesKeep, OpFits, TapFits, ResultFits, MicLabels, MicStarts, SysCode, SysStarts, SysStops, SoFarOk, Self, Taps, LockedLabels, Serialized
<1> QED BY <1>1, <1>4, KeepsCalls, MoveShape, Zenon DEF FramesKeep

LEMMA SysCreateProcShape ==
  ASSUME ATInv, CallShape, NEW th \in Threads, SysCreateProc(th)
  PROVE  CallShape'
<1>1. FramesKeep(th) /\ UNCHANGED <<lock, pending>>
  BY SysFailedKeeps, UnchangedKeeps, SMT DEF SysCreateProc, Jump, shared, hal, env, ATInv, TypeOK
<1>2. OpFits(pc[th], frame[th]) /\ TapFits(pc[th], frame[th]) /\ ResultFits(pc[th], frame[th])
  BY Zenon DEF CallShape, ThreadFits, Fits
<1>3. frame'[th].ok = frame[th].ok \/ ~frame'[th].ok
  BY SysFailedKeeps, FailedKeeps, SMT DEF SysCreateProc, SysFailed, ATInv
<1>4. PICK label : Goto(th, label) /\ MoveFits(th, label)
  BY <1>1, <1>2, <1>3, FrameTyped, AudioTapAssumption, SMT DEF SysCreateProc, AfterSysStart, CallInv, ATInv, MoveFits,
     FramesKeep, OpFits, TapFits, ResultFits, MicLabels, MicStarts, SysCode, SysStarts, SysStops, SoFarOk, Self, Taps, LockedLabels, Serialized
<1> QED BY <1>1, <1>4, KeepsCalls, MoveShape, Zenon DEF FramesKeep

LEMMA SysDeviceStartShape ==
  ASSUME ATInv, CallShape, NEW th \in Threads, SysDeviceStart(th)
  PROVE  CallShape'
<1>1. FramesKeep(th) /\ UNCHANGED <<lock, pending>>
  BY SysFailedKeeps, UnchangedKeeps, SMT DEF SysDeviceStart, Jump, shared, hal, env, ATInv, TypeOK
<1>2. OpFits(pc[th], frame[th]) /\ TapFits(pc[th], frame[th]) /\ ResultFits(pc[th], frame[th])
  BY Zenon DEF CallShape, ThreadFits, Fits
<1>3. frame'[th].ok = frame[th].ok \/ ~frame'[th].ok
  BY SysFailedKeeps, FailedKeeps, SMT DEF SysDeviceStart, SysFailed, ATInv
<1>4. PICK label : Goto(th, label) /\ MoveFits(th, label)
  BY <1>1, <1>2, <1>3, FrameTyped, AudioTapAssumption, SMT DEF SysDeviceStart, AfterSysStart, CallInv, ATInv, MoveFits,
     FramesKeep, OpFits, TapFits, ResultFits, MicLabels, MicStarts, SysCode, SysStarts, SysStops, SoFarOk, Self, Taps, LockedLabels, Serialized
<1> QED BY <1>1, <1>4, KeepsCalls, MoveShape, Zenon DEF FramesKeep

LEMMA SysSetRunningShape ==
  ASSUME ATInv, CallShape, NEW th \in Threads, SysSetRunning(th)
  PROVE  CallShape'
<1>1. FramesKeep(th) /\ UNCHANGED <<lock, pending>>
  BY UnchangedKeeps, SMT DEF SysSetRunning, Jump, shared, hal, env, ATInv, TypeOK
<1>2. OpFits(pc[th], frame[th]) /\ TapFits(pc[th], frame[th]) /\ ResultFits(pc[th], frame[th])
  BY Zenon DEF CallShape, ThreadFits, Fits
<1>3. frame'[th] = frame[th]
  BY SMT DEF SysSetRunning, Jump
<1>4. PICK label : Goto(th, label) /\ MoveFits(th, label)
  BY <1>1, <1>2, <1>3, FrameTyped, AudioTapAssumption, SMT DEF SysSetRunning, CallInv, ATInv, MoveFits,
     FramesKeep, OpFits, TapFits, ResultFits, MicLabels, MicStarts, SysCode, SysStarts, SysStops, SoFarOk, Self, Taps, LockedLabels, Serialized
<1> QED BY <1>1, <1>4, KeepsCalls, MoveShape, Zenon DEF FramesKeep

LEMMA SysSetActiveShape ==
  ASSUME ATInv, CallShape, NEW th \in Threads, SysSetActive(th)
  PROVE  CallShape'
<1>1. FramesKeep(th) /\ UNCHANGED <<lock, pending>>
  BY UnchangedKeeps, SMT DEF SysSetActive, Jump, shared, hal, env, ATInv, TypeOK
<1>2. OpFits(pc[th], frame[th]) /\ TapFits(pc[th], frame[th]) /\ ResultFits(pc[th], frame[th])
  BY Zenon DEF CallShape, ThreadFits, Fits
<1>3. frame'[th] = frame[th]
  BY SMT DEF SysSetActive, Jump
<1>4. PICK label : Goto(th, label) /\ MoveFits(th, label)
  BY <1>1, <1>2, <1>3, FrameTyped, AudioTapAssumption, SMT DEF SysSetActive, AfterSysStart, CallInv, ATInv, MoveFits,
     FramesKeep, OpFits, TapFits, ResultFits, MicLabels, MicStarts, SysCode, SysStarts, SysStops, SoFarOk, Self, Taps, LockedLabels, Serialized
<1> QED BY <1>1, <1>4, KeepsCalls, MoveShape, Zenon DEF FramesKeep

LEMMA SysDeviceStopShape ==
  ASSUME ATInv, CallShape, NEW th \in Threads, SysDeviceStop(th)
  PROVE  CallShape'
<1>1. FramesKeep(th) /\ UNCHANGED <<lock, pending>>
  BY UnchangedKeeps, SMT DEF SysDeviceStop, Jump, shared, hal, env, ATInv, TypeOK
<1>2. OpFits(pc[th], frame[th]) /\ TapFits(pc[th], frame[th]) /\ ResultFits(pc[th], frame[th])
  BY Zenon DEF CallShape, ThreadFits, Fits
<1>3. frame'[th] = frame[th]
  BY SMT DEF SysDeviceStop, Jump
<1>4. PICK label : Goto(th, label) /\ MoveFits(th, label)
  BY <1>1, <1>2, <1>3, FrameTyped, AudioTapAssumption, SMT DEF SysDeviceStop, CallInv, ATInv, MoveFits,
     FramesKeep, OpFits, TapFits, ResultFits, MicLabels, MicStarts, SysCode, SysStarts, SysStops, SoFarOk, Self, Taps, LockedLabels, Serialized
<1> QED BY <1>1, <1>4, KeepsCalls, MoveShape, Zenon DEF FramesKeep

LEMMA SysDestroyProcShape ==
  ASSUME ATInv, CallShape, NEW th \in Threads, SysDestroyProc(th)
  PROVE  CallShape'
<1>1. FramesKeep(th) /\ UNCHANGED <<lock, pending>>
  BY UnchangedKeeps, SMT DEF SysDestroyProc, Jump, shared, hal, env, ATInv, TypeOK
<1>2. OpFits(pc[th], frame[th]) /\ TapFits(pc[th], frame[th]) /\ ResultFits(pc[th], frame[th])
  BY Zenon DEF CallShape, ThreadFits, Fits
<1>3. frame'[th] = frame[th]
  BY SMT DEF SysDestroyProc, Jump
<1>4. PICK label : Goto(th, label) /\ MoveFits(th, label)
  BY <1>1, <1>2, <1>3, FrameTyped, AudioTapAssumption, SMT DEF SysDestroyProc, CallInv, ATInv, MoveFits,
     FramesKeep, OpFits, TapFits, ResultFits, MicLabels, MicStarts, SysCode, SysStarts, SysStops, SoFarOk, Self, Taps, LockedLabels, Serialized
<1> QED BY <1>1, <1>4, KeepsCalls, MoveShape, Zenon DEF FramesKeep

LEMMA SysClearRunningShape ==
  ASSUME ATInv, CallShape, NEW th \in Threads, SysClearRunning(th)
  PROVE  CallShape'
<1>1. FramesKeep(th) /\ UNCHANGED <<lock, pending>>
  BY UnchangedKeeps, SMT DEF SysClearRunning, Jump, shared, hal, env, ATInv, TypeOK
<1>2. OpFits(pc[th], frame[th]) /\ TapFits(pc[th], frame[th]) /\ ResultFits(pc[th], frame[th])
  BY Zenon DEF CallShape, ThreadFits, Fits
<1>3. frame'[th] = frame[th]
  BY SMT DEF SysClearRunning, Jump
<1>4. PICK label : Goto(th, label) /\ MoveFits(th, label)
  BY <1>1, <1>2, <1>3, FrameTyped, AudioTapAssumption, SMT DEF SysClearRunning, CallInv, ATInv, MoveFits,
     FramesKeep, OpFits, TapFits, ResultFits, MicLabels, MicStarts, SysCode, SysStarts, SysStops, SoFarOk, Self, Taps, LockedLabels, Serialized
<1> QED BY <1>1, <1>4, KeepsCalls, MoveShape, Zenon DEF FramesKeep

LEMMA SysClearActiveShape ==
  ASSUME ATInv, CallShape, NEW th \in Threads, SysClearActive(th)
  PROVE  CallShape'
<1>1. FramesKeep(th) /\ UNCHANGED <<lock, pending>>
  BY UnchangedKeeps, SMT DEF SysClearActive, Jump, shared, hal, env, ATInv, TypeOK
<1>2. OpFits(pc[th], frame[th]) /\ TapFits(pc[th], frame[th]) /\ ResultFits(pc[th], frame[th])
  BY Zenon DEF CallShape, ThreadFits, Fits
<1>3. frame'[th] = frame[th]
  BY SMT DEF SysClearActive, Jump
<1>4. PICK label : Goto(th, label) /\ MoveFits(th, label)
  BY <1>1, <1>2, <1>3, FrameTyped, AudioTapAssumption, SMT DEF SysClearActive, AfterSysStop, AfterStop, DestroyBegin, CallInv, ATInv, MoveFits,
     FramesKeep, OpFits, TapFits, ResultFits, MicLabels, MicStarts, SysCode, SysStarts, SysStops, SoFarOk, Self, Taps, LockedLabels, Serialized
<1> QED BY <1>1, <1>4, KeepsCalls, MoveShape, Zenon DEF FramesKeep

LEMMA HandlerSwitchShape ==
  ASSUME ATInv, CallShape, NEW th \in Threads, HandlerSwitch(th)
  PROVE  CallShape'
<1>1. FramesKeep(th) /\ UNCHANGED <<lock, pending>>
  BY UnchangedKeeps, SMT DEF HandlerSwitch, Jump, shared, hal, env, ATInv, TypeOK
<1>2. OpFits(pc[th], frame[th]) /\ TapFits(pc[th], frame[th]) /\ ResultFits(pc[th], frame[th])
  BY Zenon DEF CallShape, ThreadFits, Fits
<1>3. frame'[th] = frame[th]
  BY SMT DEF HandlerSwitch, Jump
<1>4. PICK label : Goto(th, label) /\ MoveFits(th, label)
  BY <1>1, <1>2, <1>3, FrameTyped, AudioTapAssumption, SMT DEF HandlerSwitch, CallInv, ATInv, MoveFits,
     FramesKeep, OpFits, TapFits, ResultFits, MicLabels, MicStarts, SysCode, SysStarts, SysStops, SoFarOk, Self, Taps, LockedLabels, Serialized
<1> QED BY <1>1, <1>4, KeepsCalls, MoveShape, Zenon DEF FramesKeep

LEMMA MicDeviceStopShape ==
  ASSUME ATInv, CallShape, NEW th \in Threads, MicDeviceStop(th)
  PROVE  CallShape'
<1>1. FramesKeep(th) /\ UNCHANGED <<lock, pending>>
  BY UnchangedKeeps, SMT DEF MicDeviceStop, Jump, shared, hal, env, ATInv, TypeOK
<1>2. OpFits(pc[th], frame[th]) /\ TapFits(pc[th], frame[th]) /\ ResultFits(pc[th], frame[th])
  BY Zenon DEF CallShape, ThreadFits, Fits
<1>3. frame'[th] = frame[th]
  BY SMT DEF MicDeviceStop, Jump
<1>4. PICK label : Goto(th, label) /\ MoveFits(th, label)
  BY <1>1, <1>2, <1>3, FrameTyped, AudioTapAssumption, SMT DEF MicDeviceStop, CallInv, ATInv, MoveFits,
     FramesKeep, OpFits, TapFits, ResultFits, MicLabels, MicStarts, SysCode, SysStarts, SysStops, SoFarOk, Self, Taps, LockedLabels, Serialized
<1> QED BY <1>1, <1>4, KeepsCalls, MoveShape, Zenon DEF FramesKeep

LEMMA MicDestroyProcShape ==
  ASSUME ATInv, CallShape, NEW th \in Threads, MicDestroyProc(th)
  PROVE  CallShape'
<1>1. FramesKeep(th) /\ UNCHANGED <<lock, pending>>
  BY UnchangedKeeps, SMT DEF MicDestroyProc, Jump, shared, hal, env, ATInv, TypeOK
<1>2. OpFits(pc[th], frame[th]) /\ TapFits(pc[th], frame[th]) /\ ResultFits(pc[th], frame[th])
  BY Zenon DEF CallShape, ThreadFits, Fits
<1>3. frame'[th] = frame[th]
  BY SMT DEF MicDestroyProc, Jump
<1>4. PICK label : Goto(th, label) /\ MoveFits(th, label)
  BY <1>1, <1>2, <1>3, FrameTyped, AudioTapAssumption, SMT DEF MicDestroyProc, AfterMicStop, CallInv, ATInv, MoveFits,
     FramesKeep, OpFits, TapFits, ResultFits, MicLabels, MicStarts, SysCode, SysStarts, SysStops, SoFarOk, Self, Taps, LockedLabels, Serialized
<1> QED BY <1>1, <1>4, KeepsCalls, MoveShape, Zenon DEF FramesKeep

LEMMA MicCreateProcShape ==
  ASSUME ATInv, CallShape, NEW th \in Threads, MicCreateProc(th)
  PROVE  CallShape'
<1>1. FramesKeep(th) /\ UNCHANGED <<lock, pending>>
  BY FailedKeeps, UnchangedKeeps, SMT DEF MicCreateProc, Jump, shared, hal, env, ATInv, TypeOK
<1>2. OpFits(pc[th], frame[th]) /\ TapFits(pc[th], frame[th]) /\ ResultFits(pc[th], frame[th])
  BY Zenon DEF CallShape, ThreadFits, Fits
<1>3. frame'[th].ok = frame[th].ok \/ ~frame'[th].ok
  BY FailedKeeps, SMT DEF MicCreateProc, ATInv
<1>4. PICK label : Goto(th, label) /\ MoveFits(th, label)
  BY <1>1, <1>2, <1>3, FrameTyped, AudioTapAssumption, SMT DEF MicCreateProc, CallInv, ATInv, MoveFits,
     FramesKeep, OpFits, TapFits, ResultFits, MicLabels, MicStarts, SysCode, SysStarts, SysStops, SoFarOk, Self, Taps, LockedLabels, Serialized
<1> QED BY <1>1, <1>4, KeepsCalls, MoveShape, Zenon DEF FramesKeep

LEMMA MicPermissionShape ==
  ASSUME ATInv, CallShape, NEW th \in Threads, MicPermission(th)
  PROVE  CallShape'
<1>1. FramesKeep(th) /\ UNCHANGED <<lock, pending>>
  BY FailedKeeps, UnchangedKeeps, SMT DEF MicPermission, Jump, shared, hal, env, ATInv, TypeOK
<1>2. OpFits(pc[th], frame[th]) /\ TapFits(pc[th], frame[th]) /\ ResultFits(pc[th], frame[th])
  BY Zenon DEF CallShape, ThreadFits, Fits
<1>3. frame'[th].ok = frame[th].ok \/ ~frame'[th].ok
  BY FailedKeeps, SMT DEF MicPermission, ATInv
<1>4. PICK label : Goto(th, label) /\ MoveFits(th, label)
  BY <1>1, <1>2, <1>3, FrameTyped, AudioTapAssumption, SMT DEF MicPermission, CallInv, ATInv, MoveFits,
     FramesKeep, OpFits, TapFits, ResultFits, MicLabels, MicStarts, SysCode, SysStarts, SysStops, SoFarOk, Self, Taps, LockedLabels, Serialized
<1> QED BY <1>1, <1>4, KeepsCalls, MoveShape, Zenon DEF FramesKeep

LEMMA MicPauseSysShape ==
  ASSUME ATInv, CallShape, NEW th \in Threads, MicPauseSys(th)
  PROVE  CallShape'
<1>1. FramesKeep(th) /\ UNCHANGED <<lock, pending>>
  BY UnchangedKeeps, SMT DEF MicPauseSys, Jump, shared, hal, env, ATInv, TypeOK
<1>2. OpFits(pc[th], frame[th]) /\ TapFits(pc[th], frame[th]) /\ ResultFits(pc[th], frame[th])
  BY Zenon DEF CallShape, ThreadFits, Fits
<1>3. frame'[th] = frame[th]
  BY SMT DEF MicPauseSys, Jump
<1>4. PICK label : Goto(th, label) /\ MoveFits(th, label)
  BY <1>1, <1>2, <1>3, FrameTyped, AudioTapAssumption, SMT DEF MicPauseSys, Jump, Sys, CallInv, ATInv, MoveFits,
     FramesKeep, OpFits, TapFits, ResultFits, MicLabels, MicStarts, SysCode, SysStarts, SysStops, SoFarOk, Self, Taps, LockedLabels, Serialized
<1> QED BY <1>1, <1>4, KeepsCalls, MoveShape, Zenon DEF FramesKeep

LEMMA MicDeviceStartShape ==
  ASSUME ATInv, CallShape, NEW th \in Threads, MicDeviceStart(th)
  PROVE  CallShape'
<1>1. FramesKeep(th) /\ UNCHANGED <<lock, pending>>
  BY FailedKeeps, UnchangedKeeps, SMT DEF MicDeviceStart, Jump, shared, hal, env, ATInv, TypeOK
<1>2. OpFits(pc[th], frame[th]) /\ TapFits(pc[th], frame[th]) /\ ResultFits(pc[th], frame[th])
  BY Zenon DEF CallShape, ThreadFits, Fits
<1>3. frame'[th].ok = frame[th].ok \/ ~frame'[th].ok
  BY FailedKeeps, SMT DEF MicDeviceStart, ATInv
<1>4. PICK label : Goto(th, label) /\ MoveFits(th, label)
  BY <1>1, <1>2, <1>3, FrameTyped, AudioTapAssumption, SMT DEF MicDeviceStart, Sys, CallInv, ATInv, MoveFits,
     FramesKeep, OpFits, TapFits, ResultFits, MicLabels, MicStarts, SysCode, SysStarts, SysStops, SoFarOk, Self, Taps, LockedLabels, Serialized
<1> QED BY <1>1, <1>4, KeepsCalls, MoveShape, Zenon DEF FramesKeep

LEMMA MicResultShape ==
  ASSUME ATInv, CallShape, NEW th \in Threads, MicResult(th)
  PROVE  CallShape'
<1>1. FramesKeep(th) /\ UNCHANGED <<lock, pending>>
  BY UnchangedKeeps, SMT DEF MicResult, Jump, shared, hal, env, ATInv, TypeOK
<1>2. OpFits(pc[th], frame[th]) /\ TapFits(pc[th], frame[th]) /\ ResultFits(pc[th], frame[th])
  BY Zenon DEF CallShape, ThreadFits, Fits
<1>3. frame'[th] = frame[th]
  BY SMT DEF MicResult, Jump
<1>4. PICK label : Goto(th, label) /\ MoveFits(th, label)
  BY <1>1, <1>2, <1>3, FrameTyped, AudioTapAssumption, SMT DEF MicResult, CallInv, ATInv, MoveFits,
     FramesKeep, OpFits, TapFits, ResultFits, MicLabels, MicStarts, SysCode, SysStarts, SysStops, SoFarOk, Self, Taps, LockedLabels, Serialized
<1> QED BY <1>1, <1>4, KeepsCalls, MoveShape, Zenon DEF FramesKeep


LEMMA HandlerDeviceShape ==
  ASSUME ATInv, CallShape, NEW th \in Threads, HandlerDevice(th)
  PROVE  CallShape'
<1>1. UNCHANGED <<lock, pending>>
  BY SMT DEF HandlerDevice, shared, hal, env
<1>2. OpFits(pc[th], frame[th]) /\ TapFits(pc[th], frame[th]) /\ ResultFits(pc[th], frame[th])
  BY Zenon DEF CallShape, ThreadFits, Fits
<1>3. CASE UNCHANGED frame /\ Goto(th, "unlock")
  <2>1. FramesKeep(th) /\ frame'[th] = frame[th]
    BY <1>3, UnchangedKeeps
  <2>2. MoveFits(th, "unlock")
    BY <1>2, <2>1, SMT DEF HandlerDevice, MoveFits, FramesKeep, OpFits, TapFits, ResultFits,
       MicStarts, SysCode, SysStarts, SysStops, SoFarOk, Self, Taps, LockedLabels, Serialized
  <2> QED BY <1>1, <1>3, <2>1, <2>2, KeepsCalls, MoveShape, Zenon DEF FramesKeep
<1>4. CASE /\ default_dev \notin {None, tap[Self(th)].dev}
           /\ frame' = [frame EXCEPT ![th].dev = default_dev, ![th].was = tap[Self(th)].running]
           /\ Goto(th, IF tap[Self(th)].running THEN "m_halt" ELSE "h_switch")
  <2>1. frame'[th] = [frame[th] EXCEPT !.dev = default_dev, !.was = tap[Self(th)].running]
        /\ \A other \in Threads \ {th} : frame'[other] = frame[other]
    BY <1>4, Zenon DEF ATInv, TypeOK
  <2>2. frame[th] \in FrameRecord
    BY Zenon DEF ATInv, TypeOK
  <2>3. /\ frame'[th].op = frame[th].op /\ frame'[th].tap = frame[th].tap
        /\ frame'[th].sys = frame[th].sys /\ frame'[th].ok = frame[th].ok
        /\ frame'[th].dev = default_dev /\ frame'[th].was = tap[Self(th)].running
    BY <2>1, <2>2, SMT DEF FrameRecord
  <2>4. SameCalls
    <3>1. \A other \in Threads : frame'[other].op = frame[other].op /\ frame'[other].tap = frame[other].tap
      BY <2>1, <2>3, Zenon
    <3> QED BY <3>1, Zenon DEF SameCalls, Self
  <2>5. MoveFits(th, IF tap[Self(th)].running THEN "m_halt" ELSE "h_switch")
    BY <1>2, <1>4, <2>3, SMT DEF HandlerDevice, MoveFits, OpFits, TapFits, ResultFits,
       MicStarts, SysCode, SysStarts, SysStops, SoFarOk, Self, Taps, LockedLabels, Serialized
  <2> QED BY <1>1, <1>4, <2>1, <2>4, <2>5, MoveShape
<1> QED BY <1>3, <1>4, Zenon DEF HandlerDevice

\* The frame of th when it has looked up the active system tap.
LEMMA FoundSys ==
  ASSUME ATInv, NEW th \in Threads, MicFindSys(th)
  PROVE  /\ \A other \in Threads \ {th} : frame'[other] = frame[other]
         /\ frame'[th].op = frame[th].op /\ frame'[th].tap = frame[th].tap
         /\ frame'[th].ok = frame[th].ok /\ frame'[th].sys = active
<1>1. frame'[th] = [frame[th] EXCEPT !.sys = active]
      /\ \A other \in Threads \ {th} : frame'[other] = frame[other]
  BY Zenon DEF MicFindSys, ATInv, TypeOK
<1>2. frame[th] \in FrameRecord
  BY Zenon DEF ATInv, TypeOK
<1> QED BY <1>1, <1>2, SMT DEF FrameRecord

LEMMA MicFindSysShape ==
  ASSUME ATInv, CallShape, NEW th \in Threads, MicFindSys(th)
  PROVE  CallShape'
<1>1. UNCHANGED <<lock, pending>>
  BY SMT DEF MicFindSys, shared, hal, env
<1>2. OpFits(pc[th], frame[th]) /\ TapFits(pc[th], frame[th]) /\ ResultFits(pc[th], frame[th])
  BY Zenon DEF CallShape, ThreadFits, Fits
<1>3. SameCalls
  BY FoundSys, SMT DEF SameCalls, Self
<1>4. MoveFits(th, IF active = None THEN "m_start" ELSE "m_check")
  BY <1>2, FoundSys, AudioTapAssumption, SMT DEF MicFindSys, MoveFits, OpFits, TapFits, ResultFits, ATInv, TypeOK,
     CallInv, MicLabels, MicStarts, SysCode, SysStarts, SysStops, SoFarOk, Self, Taps, LockedLabels, Serialized
<1> QED BY <1>1, <1>3, <1>4, FoundSys, MoveShape, Zenon DEF MicFindSys

LEMMA LockShape ==
  ASSUME ATInv, CallShape, NEW th \in Threads, Lock(th)
  PROVE  CallShape'
<1>1. OpFits(pc[th], frame[th]) /\ TapFits(pc[th], frame[th]) /\ ResultFits(pc[th], frame[th])
  BY Zenon DEF CallShape, ThreadFits, Fits
<1>2. UNCHANGED <<frame, pending>> /\ pc[th] = "lock" /\ lock' = [lock EXCEPT ![Self(th)] = th]
  BY SMT DEF Lock, hal, env
<1>3. PICK label \in {"m_create", "h_device", "m_halt"} : pc' = [pc EXCEPT ![th] = label] /\ Fits(label, frame[th])
  <2>1. frame[th].op \in {"start", "stop", "destroy", "handler"} /\ frame[th].ok
    BY <1>1, <1>2, SMT DEF OpFits, ResultFits, SoFarOk
  <2>2. frame[th].tap \in SysTaps => frame[th].sys = frame[th].tap
    BY <1>1, SMT DEF TapFits
  <2>3. /\ frame[th].op = "handler" => frame[th].tap \in MicTaps
        /\ frame[th].op \in {"create", "start", "stop", "destroy"} => frame[th].tap \in Taps
    BY <1>1, SMT DEF TapFits
  <2>4. \A label \in {"m_create", "h_device", "m_halt"} :
          label = (CASE frame[th].op = "start" -> "m_create" [] frame[th].op = "handler" -> "h_device"
                     [] OTHER -> "m_halt") => Fits(label, frame[th])
    BY <2>1, <2>2, <2>3, SMT DEF Fits, OpFits, TapFits, ResultFits,
       MicStarts, SysCode, SysStarts, SysStops, SoFarOk
  <2>5. (CASE frame[th].op = "start" -> "m_create" [] frame[th].op = "handler" -> "h_device"
           [] OTHER -> "m_halt") \in {"m_create", "h_device", "m_halt"}
    BY <2>1, SMT
  <2> QED BY <2>4, <2>5, Zenon DEF Lock, Goto
<1>4. pc'[th] = label /\ \A other \in Threads \ {th} : pc'[other] = pc[other]
  BY <1>3, SMT DEF ATInv, TypeOK
<1>5. \A other \in Threads : ThreadFits(other)'
  BY <1>2, <1>3, <1>4, SMT DEF CallShape, ThreadFits, Self
<1>6. OverlapInv'
  <2>1. Quiet' = Quiet
    BY <1>2, <1>4, SMT DEF Quiet, Threads
  <2> QED BY <1>2, <1>4, <2>1, SMT DEF CallShape, OverlapInv, Threads, Self
<1>7. HeldInv'
  BY <1>2, <1>4, SMT DEF CallShape, HeldInv, Self, ATInv, TypeOK, Threads, LockedLabels, Serialized
<1> QED BY <1>5, <1>6, <1>7 DEF CallShape

LEMMA UnlockShape ==
  ASSUME ATInv, CallShape, NEW th \in Threads, Unlock(th)
  PROVE  CallShape'
<1>1. OpFits(pc[th], frame[th]) /\ TapFits(pc[th], frame[th]) /\ ResultFits(pc[th], frame[th])
  BY Zenon DEF CallShape, ThreadFits, Fits
<1>2. UNCHANGED <<frame, pending>> /\ pc[th] = "unlock" /\ lock' = [lock EXCEPT ![Self(th)] = None]
  BY SMT DEF Unlock, hal, env
<1>3. Self(th) \in MicTaps
  BY <1>2, SMT DEF ATInv, CallInv, MicLabels, Serialized
<1>4. PICK label \in {"return", "d_unlisten"} : pc' = [pc EXCEPT ![th] = label] /\ Fits(label, frame[th])
  <2>1. Self(th) \notin SysTaps
    BY <1>3, AudioTapAssumption, SMT
  <2>2. frame[th].op = "destroy" => Fits("d_unlisten", frame[th])
    BY <1>1, <1>2, <1>3, SMT DEF Fits, OpFits, TapFits, ResultFits, Self, Taps,
       MicStarts, SysCode, SysStarts, SysStops, SoFarOk
  <2>3. Fits("return", frame[th])
    BY <1>1, <1>2, <1>3, SMT DEF Fits, OpFits, TapFits, ResultFits, Self, Taps,
       MicStarts, SysCode, SysStarts, SysStops, SoFarOk
  <2>4. Goto(th, IF frame[th].op = "destroy" THEN "d_unlisten" ELSE "return")
    BY <2>1, Zenon DEF Unlock, AfterStop, DestroyBegin
  <2>5. CASE frame[th].op = "destroy"
    BY <2>2, <2>4, <2>5, Zenon DEF Goto
  <2>6. CASE frame[th].op # "destroy"
    BY <2>3, <2>4, <2>6, Zenon DEF Goto
  <2> QED BY <2>5, <2>6
<1>5. pc'[th] = label /\ \A other \in Threads \ {th} : pc'[other] = pc[other]
  BY <1>4, SMT DEF ATInv, TypeOK
<1>6. \A other \in Threads : ThreadFits(other)'
  BY <1>2, <1>4, <1>5, SMT DEF CallShape, ThreadFits, Self
<1>7. OverlapInv'
  <2>1. Quiet' = Quiet
    BY <1>2, <1>5, SMT DEF Quiet, Threads
  <2> QED BY <1>2, <1>5, <2>1, SMT DEF CallShape, OverlapInv, Threads, Self
<1>8. HeldInv'
  <2>1. lock[Self(th)] = th
    BY <1>2, <1>3, SMT DEF ATInv, LockInv, LockedLabels, Serialized
  <2>2. \A m \in MicTaps : lock'[m] # None => lock'[m] = lock[m] /\ lock[m] # th
    BY <1>2, <1>3, <2>1, SMT DEF CallShape, HeldInv, ATInv, TypeOK
  <2> QED BY <1>2, <1>5, <2>2, SMT DEF CallShape, HeldInv, Self, ATInv, TypeOK
<1> QED BY <1>6, <1>7, <1>8 DEF CallShape

\* The other threads when th takes a frame of its own.
LEMMA EnterShape ==
  ASSUME ATInv, CallShape, NEW th \in Threads, NEW label, NEW f, lock' = lock,
         Goto(th, label), frame' = [frame EXCEPT ![th] = f], Fits(label, f),
         pc[th] \notin LockedLabels,
         th \in MicTaps /\ label # "ready" => f.op = "handler" /\ f.tap = th,
         th = Caller => f.op # "handler"
  PROVE  (\A other \in Threads : ThreadFits(other)') /\ HeldInv'
<1>1. /\ pc'[th] = label /\ frame'[th] = f
      /\ \A other \in Threads \ {th} : pc'[other] = pc[other] /\ frame'[other] = frame[other]
  BY SMT DEF Goto, ATInv, TypeOK
<1>2. ThreadFits(th)'
  BY <1>1, Zenon DEF ThreadFits, Self
<1>3. ASSUME NEW other \in Threads \ {th} PROVE ThreadFits(other)'
  BY <1>1, <1>3, Zenon DEF CallShape, ThreadFits, Self
<1>4. HeldInv'
  BY <1>1, SMT DEF CallShape, HeldInv, Self, ATInv, TypeOK
<1> QED BY <1>2, <1>3, <1>4, Zenon

LEMMA CallShapeKept ==
  ASSUME Calm, ATInv, CallShape, NEW fun, NEW t, <<fun, t>> \in Calls, Call(fun, t)
  PROVE  CallShape'
<1> DEFINE f == Frame(fun, t, IF t \in SysTaps THEN t ELSE None)
<1>1. fun \in Functions
  BY AudioTapAssumption, SMT
<1>2. f.op = fun /\ f.tap = t /\ f.sys = (IF t \in SysTaps THEN t ELSE None) /\ f.ok
  BY SMT DEF Frame
<1>3. Caller \in Threads /\ frame' = [frame EXCEPT ![Caller] = f] /\ UNCHANGED <<lock, pending>>
  BY SMT DEF Call, Threads, shared, hal, env
<1>4. pc[Caller] = "ready" /\ Quiet /\ (fun # "permission" => t \in Taps)
  BY SMT DEF Call, Calm
<1> HIDE DEF f
<1>5. PICK label : Goto(Caller, label) /\ label # "ready" /\ OpFits(label, f) /\ TapFits(label, f) /\ ResultFits(label, f)
  BY <1>1, <1>2, <1>4, AudioTapAssumption, SMT DEF Call, Functions, Taps, OpFits, TapFits, ResultFits,
     MicStarts, SysCode, SysStarts, SysStops, SoFarOk
<1>6. (\A th \in Threads : ThreadFits(th)') /\ HeldInv'
  <2>1. pc[Caller] \notin LockedLabels
    BY <1>4, SMT DEF LockedLabels, Serialized
  <2>2. fun # "handler" /\ Caller \notin MicTaps
    BY <1>1, AudioTapAssumption, SMT DEF Functions, Taps
  <2>3. Fits(label, f)
    BY <1>5 DEF Fits
  <2> QED BY <1>2, <1>3, <1>5, <2>1, <2>2, <2>3, EnterShape
<1>7. Quiet'
  BY <1>3, <1>4, <1>5, AudioTapAssumption, SMT DEF Quiet, Goto, ATInv, TypeOK, Threads, Taps
<1> QED BY <1>6, <1>7 DEF CallShape, OverlapInv

LEMMA HandlerBeginShape ==
  ASSUME ATInv, CallShape, NEW m \in MicTaps, HandlerBegin(m)
  PROVE  CallShape'
<1> DEFINE f == Frame("handler", m, None)
<1>1. f.op = "handler" /\ f.tap = m /\ f.sys = None /\ f.ok
  BY SMT DEF Frame
<1>2. m \in Threads /\ frame' = [frame EXCEPT ![m] = f] /\ lock' = lock /\ Goto(m, "lock")
      /\ pc[m] = "ready" /\ pending[m] > 0
  BY SMT DEF HandlerBegin, Threads, shared
<1> HIDE DEF f
<1>3. (\A th \in Threads : ThreadFits(th)') /\ HeldInv'
  <2>1. pc[m] \notin LockedLabels /\ m # Caller
    BY <1>2, AudioTapAssumption, SMT DEF LockedLabels, Serialized, Taps
  <2>2. Fits("lock", f)
    BY <1>1, AudioTapAssumption, SMT DEF Fits, OpFits, TapFits, ResultFits,
       MicStarts, SysCode, SysStarts, SysStops, SoFarOk, Taps
  <2> QED BY <1>1, <1>2, <2>1, <2>2, EnterShape
<1>4. OverlapInv'
  <2>1. ~Quiet
    BY <1>2, SMT DEF Quiet
  <2>2. pc'[Caller] = pc[Caller] /\ frame'[Caller] = frame[Caller]
    BY <1>2, AudioTapAssumption, SMT DEF Goto, ATInv, TypeOK, Threads, Taps
  <2> QED BY <2>1, <2>2, SMT DEF CallShape, OverlapInv, Self
<1> QED BY <1>3, <1>4 DEF CallShape

LEMMA ReturnShape ==
  ASSUME ATInv, CallShape, NEW th \in Threads, Return(th)
  PROVE  CallShape'
<1>1. NoFrame.op = "none" /\ NoFrame.tap = None /\ NoFrame.sys = None /\ NoFrame.ok
  BY SMT DEF NoFrame, Frame
<1>2. frame' = [frame EXCEPT ![th] = NoFrame] /\ UNCHANGED <<lock, pending>> /\ Goto(th, "ready")
      /\ pc[th] = "return"
  BY SMT DEF Return, shared, hal, env
<1>3. (\A other \in Threads : ThreadFits(other)') /\ HeldInv'
  <2>1. pc[th] \notin LockedLabels
    BY <1>2, SMT DEF LockedLabels, Serialized
  <2>2. Fits("ready", NoFrame)
    BY <1>1, AudioTapAssumption, SMT DEF Fits, OpFits, TapFits, ResultFits,
       MicStarts, SysCode, SysStarts, SysStops, SoFarOk, Taps
  <2> QED BY <1>1, <1>2, <2>1, <2>2, EnterShape
<1>4. OverlapInv'
  <2>1. Quiet => Quiet'
    BY <1>2, SMT DEF Quiet, Goto, ATInv, TypeOK
  <2>2. pc'[Caller] # "ready" => pc'[Caller] = pc[Caller] /\ frame'[Caller] = frame[Caller]
    BY <1>2, SMT DEF Goto, ATInv, TypeOK, Threads
  <2> QED BY <2>1, <2>2, SMT DEF CallShape, OverlapInv, Self
<1> QED BY <1>3, <1>4 DEF CallShape

LEMMA UnlistenShape ==
  ASSUME ATInv, CallShape, NEW th \in Threads, Unlisten(th)
  PROVE  CallShape'
<1>1. UNCHANGED <<lock, frame, pending>> /\ Goto(th, "d_free") /\ pc[th] = "d_unlisten"
  BY SMT DEF Unlisten, shared
<1>2. OpFits(pc[th], frame[th]) /\ TapFits(pc[th], frame[th]) /\ ResultFits(pc[th], frame[th])
  BY Zenon DEF CallShape, ThreadFits, Fits
<1>3. Fits("d_free", frame[th])
  BY <1>1, <1>2, SMT DEF Fits, OpFits, TapFits, ResultFits, MicStarts, SysCode, SysStarts, SysStops, SoFarOk, Taps
<1>4. pc'[th] = "d_free" /\ \A other \in Threads \ {th} : pc'[other] = pc[other]
  BY <1>1, SMT DEF Goto, ATInv, TypeOK
<1>5. \A other \in Threads : ThreadFits(other)'
  BY <1>1, <1>3, <1>4, SMT DEF CallShape, ThreadFits, Self
<1>6. OverlapInv'
  <2>1. ~Quiet' => ~Quiet
    BY <1>1, <1>4, SMT DEF Quiet, Threads, ATInv, TypeOK
  <2> QED BY <1>1, <1>4, <2>1, SMT DEF CallShape, OverlapInv, Threads, Self
<1>7. HeldInv'
  BY <1>1, <1>4, SMT DEF CallShape, HeldInv, Self, ATInv, TypeOK, Threads, LockedLabels, Serialized
<1> QED BY <1>5, <1>6, <1>7 DEF CallShape

LEMMA UserAnswersShape ==
  ASSUME ATInv, CallShape, NEW answer, UserAnswers(answer)
  PROVE  CallShape'
<1>1. Caller \in Threads /\ FramesKeep(Caller) /\ UNCHANGED <<lock, pending, frame>> /\ Goto(Caller, "return")
  BY UnchangedKeeps, SMT DEF UserAnswers, shared, Threads
<1>2. OpFits(pc[Caller], frame[Caller]) /\ TapFits(pc[Caller], frame[Caller]) /\ ResultFits(pc[Caller], frame[Caller])
  BY <1>1, Zenon DEF CallShape, ThreadFits, Fits
<1>3. MoveFits(Caller, "return")
  BY <1>1, <1>2, SMT DEF UserAnswers, MoveFits, OpFits, TapFits, ResultFits,
     MicStarts, SysCode, SysStarts, SysStops, SoFarOk, LockedLabels, Serialized, Taps
<1> QED BY <1>1, <1>3, KeepsCalls, MoveShape, Zenon DEF FramesKeep

LEMMA DeviceChangeShape ==
  ASSUME Calm, ATInv, CallShape, NEW dev, DeviceChange(dev)
  PROVE  CallShape'
<1>1. UNCHANGED <<lock, pc, frame>>
  BY SMT DEF DeviceChange, shared
<1>2. OverlapInv'
  <2>1. CASE pc[Caller] = "ready"
    BY <1>1, <2>1, SMT DEF OverlapInv
  <2>2. CASE /\ <<frame[Caller].op, Self(Caller)>> \in {"start", "stop"} \X MicTaps
             /\ pc[Caller] \notin {"start", "stop", "destroy"}
    BY <1>1, <2>2, SMT DEF OverlapInv, Self
  <2> QED BY <2>1, <2>2, Zenon DEF DeviceChange, Calm
<1>3. (\A th \in Threads : ThreadFits(th)') /\ HeldInv'
  BY <1>1, Zenon DEF CallShape, ThreadFits, HeldInv, Self
<1> QED BY <1>2, <1>3 DEF CallShape

LEMMA InitShape == ASSUME Init PROVE CallShape
<1>1. \A th \in Threads : frame[th] = NoFrame /\ pc[th] = "ready"
  BY Zenon DEF Init
<1>2. NoFrame.op = "none" /\ NoFrame.tap = None /\ NoFrame.sys = None /\ NoFrame.ok
  BY SMT DEF NoFrame, Frame
<1>3. Fits("ready", NoFrame)
  BY <1>2, AudioTapAssumption, SMT DEF Fits, OpFits, TapFits, ResultFits,
     MicStarts, SysCode, SysStarts, SysStops, SoFarOk, Taps
<1>4. \A th \in Threads : ThreadFits(th)
  BY <1>1, <1>2, <1>3, SMT DEF ThreadFits
<1>5. OverlapInv /\ HeldInv
  BY <1>1, SMT DEF Init, OverlapInv, HeldInv, Threads
<1> QED BY <1>4, <1>5 DEF CallShape

LEMMA NextShape ==
  ASSUME Calm, ATInv, CallShape, [Next]_vars
  PROVE  CallShape'
<1>1. CASE \E c \in Calls : Call(c[1], c[2])
  <2>1. PICK c \in Calls : Call(c[1], c[2])
    BY <1>1
  <2>2. <<c[1], c[2]>> \in Calls
    BY AudioTapAssumption, SMT
  <2> QED BY <2>1, <2>2, CallShapeKept
<1>2. CASE \E dev \in Devices \cup {None} : DeviceChange(dev)
  BY <1>2, DeviceChangeShape
<1>3. CASE \E answer \in {"granted", "denied"} : UserAnswers(answer)
  BY <1>3, UserAnswersShape
<1>4. CASE \E m \in MicTaps : HandlerBegin(m)
  BY <1>4, HandlerBeginShape
<1>5. CASE \E th \in Threads : Step(th)
  <2>1. PICK th \in Threads : Step(th)
    BY <1>5
  <2>2. CASE CreateStep(th)
    BY <2>2, CreateTapShape, CreateAggregateShape, CreateAllocShape, CreateMicShape, ListenShape
       DEF CreateStep
  <2>3. CASE DestroyStep(th)
    BY <2>3, DestroyShape, DestroyAggregateShape, DestroyTapShape, UnlistenShape, FreeShape
       DEF DestroyStep
  <2>4. CASE SysStep(th)
    BY <2>4, SysCreateProcShape, SysDeviceStartShape, SysSetRunningShape, SysSetActiveShape,
       SysDeviceStopShape, SysDestroyProcShape, SysClearRunningShape, SysClearActiveShape
       DEF SysStep
  <2>5. CASE MicStep(th)
    BY <2>5, LockShape, UnlockShape, HandlerDeviceShape, HandlerSwitchShape, MicDeviceStopShape,
       MicDestroyProcShape, MicCreateProcShape, MicPermissionShape, MicFindSysShape,
       MicPauseSysShape, MicDeviceStartShape, MicResultShape
       DEF MicStep
  <2> QED BY <2>1, <2>2, <2>3, <2>4, <2>5, StartShape, StopShape, RequestPermissionShape,
             ReturnShape DEF Step
<1>6. CASE UNCHANGED vars
  BY <1>6, SMT DEF CallShape, ThreadFits, OverlapInv, HeldInv, Quiet, Self, vars, shared, hal, env
<1> QED BY <1>1, <1>2, <1>3, <1>4, <1>5, <1>6 DEF Next

-----------------------------------------------------------------------------
(* Registry.  Two threads in code that runs with a mutex held, or that     *)
(* starts or stops a system tap, work on two microphone taps, and then     *)
(* there is no system tap.                                                 *)

LEMMA LockedTap ==
  ASSUME ATInv, CallShape, NEW th \in Threads, pc[th] \in LockedLabels
  PROVE  Self(th) \in Taps
<1>1. TapFits(pc[th], frame[th])
  BY Zenon DEF CallShape, ThreadFits, Fits
<1> QED BY <1>1, SMT DEF ATInv, CallInv, TapFits, LockedLabels, MicLabels, SysCode, SysStarts, SysStops, Self, Taps

LEMMA OnlyCaller ==
  ASSUME ATInv, CallShape, NEW th \in Threads, Self(th) \in SysTaps
  PROVE  /\ th = Caller /\ pc[Caller] # "ready"
         /\ \A m \in MicTaps : pc[m] = "ready" /\ pending[m] = 0
<1>1. ThreadFits(th)
  BY Zenon DEF CallShape
<1>2. pc[th] # "ready"
  BY <1>1, AudioTapAssumption, SMT DEF ThreadFits, Fits, OpFits, NoFrame, Frame, Self, Taps
<1>3. th \notin MicTaps
  BY <1>1, <1>2, AudioTapAssumption, SMT DEF ThreadFits, Fits, TapFits, Self, Taps
<1>4. th = Caller
  BY <1>3, SMT DEF Threads
<1>5. Quiet
  BY <1>2, <1>4, AudioTapAssumption, SMT DEF CallShape, OverlapInv, Taps
<1> QED BY <1>2, <1>4, <1>5, SMT DEF Quiet

LEMMA Exclusive ==
  ASSUME Calm, ATInv, CallShape, NEW th \in Threads, NEW other \in Threads \ {th},
         pc[th] \in LockedLabels, pc[other] \in LockedLabels
  PROVE  /\ Self(th) \in MicTaps /\ Self(other) \in MicTaps /\ Self(th) # Self(other)
         /\ SysTaps = {}
<1>1. Self(th) \in Taps /\ Self(other) \in Taps
  BY LockedTap
<1>2. "ready" \notin LockedLabels
  BY SMT DEF LockedLabels, Serialized
<1>3. Self(th) \notin SysTaps /\ Self(other) \notin SysTaps
  BY <1>2, OnlyCaller, SMT DEF Threads
<1>4. Self(th) \in MicTaps /\ Self(other) \in MicTaps
  BY <1>1, <1>3, SMT DEF Taps
<1>5. Self(th) # Self(other)
  BY <1>4, SMT DEF ATInv, LockInv
<1> QED BY <1>4, <1>5, SMT DEF Calm

-----------------------------------------------------------------------------
(* What an update of one tap leaves alone, and the links between the taps  *)
(* and the table of IO procs.                                              *)

Touches(t) ==
  \A o \in Taps \ {t} : tap'[o] = tap[o] /\ (tap[o].io # None => procs'[tap[o].io] = procs[tap[o].io])

LEMMA TouchesKeeps ==
  ASSUME NEW t, Touches(t), NEW o \in Taps \ {t}
  PROVE  /\ Off(o)' = Off(o) /\ Idle(o)' = Idle(o) /\ On(o)' = On(o)
         /\ Rest(o)' = Rest(o) /\ tap'[o] = tap[o]
BY SMT DEF Touches, Off, Idle, On, Rest

LEMMA IoUpdated ==
  ASSUME TypeOK, NEW t \in Taps, NEW v, tap' = [tap EXCEPT ![t].io = v]
  PROVE  /\ tap'[t].io = v /\ tap'[t].running = tap[t].running
         /\ tap'[t].life = tap[t].life /\ tap'[t].dev = tap[t].dev
         /\ \A o \in Taps \ {t} : tap'[o] = tap[o]
<1>1. tap[t] \in TapRecord /\ tap'[t] = [tap[t] EXCEPT !.io = v] /\ \A o \in Taps \ {t} : tap'[o] = tap[o]
  BY Zenon DEF TypeOK
<1> QED BY <1>1, SMT DEF TapRecord

LEMMA RunningUpdated ==
  ASSUME TypeOK, NEW t \in Taps, NEW v, tap' = [tap EXCEPT ![t].running = v]
  PROVE  /\ tap'[t].io = tap[t].io /\ tap'[t].running = v
         /\ tap'[t].life = tap[t].life /\ tap'[t].dev = tap[t].dev
         /\ \A o \in Taps \ {t} : tap'[o] = tap[o]
<1>1. tap[t] \in TapRecord /\ tap'[t] = [tap[t] EXCEPT !.running = v] /\ \A o \in Taps \ {t} : tap'[o] = tap[o]
  BY Zenon DEF TypeOK
<1> QED BY <1>1, SMT DEF TapRecord

LEMMA StoppedUpdated ==
  ASSUME TypeOK, NEW t \in Taps, tap' = [tap EXCEPT ![t].io = None, ![t].running = FALSE]
  PROVE  /\ tap'[t].io = None /\ tap'[t].running = FALSE
         /\ tap'[t].life = tap[t].life /\ tap'[t].dev = tap[t].dev
         /\ \A o \in Taps \ {t} : tap'[o] = tap[o]
<1>1. tap[t] \in TapRecord /\ tap'[t] = [[tap[t] EXCEPT !.io = None] EXCEPT !.running = FALSE]
      /\ \A o \in Taps \ {t} : tap'[o] = tap[o]
  BY Zenon DEF TypeOK
<1>2. PICK r : r = [tap[t] EXCEPT !.io = None]
  OBVIOUS
<1>3. r \in TapRecord /\ r.io = None /\ r.running = tap[t].running
      /\ r.life = tap[t].life /\ r.dev = tap[t].dev
  BY <1>1, <1>2, SMT DEF TapRecord
<1>4. tap'[t] = [r EXCEPT !.running = FALSE]
  BY <1>1, <1>2
<1>5. /\ tap'[t].io = r.io /\ tap'[t].life = r.life
      /\ tap'[t].dev = r.dev /\ tap'[t].running = FALSE
  BY <1>3, <1>4, SMT DEF TapRecord
<1> QED BY <1>1, <1>3, <1>5

LEMMA DevUpdated ==
  ASSUME TypeOK, NEW t \in Taps, NEW v, tap' = [tap EXCEPT ![t].dev = v]
  PROVE  /\ tap'[t].io = tap[t].io /\ tap'[t].running = tap[t].running
         /\ tap'[t].life = tap[t].life /\ tap'[t].dev = v
         /\ \A o \in Taps \ {t} : tap'[o] = tap[o]
<1>1. tap[t] \in TapRecord /\ tap'[t] = [tap[t] EXCEPT !.dev = v] /\ \A o \in Taps \ {t} : tap'[o] = tap[o]
  BY Zenon DEF TypeOK
<1> QED BY <1>1, SMT DEF TapRecord

LEMMA LifeUpdated ==
  ASSUME TypeOK, NEW t \in Taps, NEW v, tap' = [tap EXCEPT ![t].life = v]
  PROVE  /\ tap'[t].io = tap[t].io /\ tap'[t].running = tap[t].running
         /\ tap'[t].life = v /\ tap'[t].dev = tap[t].dev
         /\ \A o \in Taps \ {t} : tap'[o] = tap[o]
<1>1. tap[t] \in TapRecord /\ tap'[t] = [tap[t] EXCEPT !.life = v] /\ \A o \in Taps \ {t} : tap'[o] = tap[o]
  BY Zenon DEF TypeOK
<1> QED BY <1>1, SMT DEF TapRecord

LEMMA CreatedUpdated ==
  ASSUME TypeOK, NEW t \in Taps, NEW v, tap' = [tap EXCEPT ![t].life = "live", ![t].dev = v]
  PROVE  /\ tap'[t].io = tap[t].io /\ tap'[t].running = tap[t].running
         /\ tap'[t].life = "live" /\ tap'[t].dev = v
         /\ \A o \in Taps \ {t} : tap'[o] = tap[o]
<1>1. tap[t] \in TapRecord /\ tap'[t] = [[tap[t] EXCEPT !.life = "live"] EXCEPT !.dev = v]
      /\ \A o \in Taps \ {t} : tap'[o] = tap[o]
  BY Zenon DEF TypeOK
<1>2. PICK r : r = [tap[t] EXCEPT !.life = "live"]
  OBVIOUS
<1>3. r \in TapRecord /\ r.io = tap[t].io /\ r.running = tap[t].running
      /\ r.life = "live" /\ r.dev = tap[t].dev
  BY <1>1, <1>2, SMT DEF TapRecord
<1>4. tap'[t] = [r EXCEPT !.dev = v]
  BY <1>1, <1>2
<1>5. /\ tap'[t].io = r.io /\ tap'[t].life = r.life
      /\ tap'[t].running = r.running /\ tap'[t].dev = v
  BY <1>3, <1>4, SMT DEF TapRecord
<1> QED BY <1>1, <1>3, <1>5

LEMMA ProcFacts ==
  /\ None \notin IoProcs /\ None \notin Taps
  /\ NoProc.tap = None /\ NoProc.on = FALSE
BY AudioTapAssumption, SMT DEF IoProcs, NoProc

LEMMA RegisterLinks ==
  ASSUME TypeOK, LinkInv, NEW t \in Taps, Off(t), NEW dev, dev = Source(t), Register(t, dev)
  PROVE  /\ LinkInv' /\ Touches(t) /\ Idle(t)'
         /\ tap'[t].running = tap[t].running /\ tap'[t].life = tap[t].life /\ tap'[t].dev = tap[t].dev
<1> DEFINE r == [dev |-> dev, tap |-> t, on |-> FALSE]
<1>1. PICK id \in IoProcs :
        /\ procs[id] = NoProc
        /\ procs' = [procs EXCEPT ![id] = r]
        /\ tap' = [tap EXCEPT ![t].io = id]
  BY Zenon DEF Register
<1>2. r.dev = dev /\ r.tap = t /\ r.on = FALSE
  OBVIOUS
<1> HIDE DEF r
<1>3. procs'[id] = r /\ \A p \in IoProcs \ {id} : procs'[p] = procs[p]
  BY <1>1, SMT DEF TypeOK
<1>4. /\ tap'[t].io = id /\ tap'[t].running = tap[t].running
      /\ tap'[t].life = tap[t].life /\ tap'[t].dev = tap[t].dev
      /\ \A o \in Taps \ {t} : tap'[o] = tap[o]
  BY <1>1, IoUpdated
<1>5. \A o \in Taps : tap[o].io # id
  BY <1>1, ProcFacts, SMT DEF LinkInv
<1>6. \A o \in Taps : tap[o].io # None => tap[o].io \in IoProcs
  <2>1. \A o \in Taps : tap[o] \in TapRecord
    BY Zenon DEF TypeOK
  <2> QED BY <2>1, SMT DEF TapRecord
<1>7. Touches(t)
  BY <1>3, <1>4, <1>5, <1>6, SMT DEF Touches
<1>8. Idle(t)'
  BY <1>1, <1>2, <1>3, <1>4, ProcFacts, SMT DEF Idle
<1>9. Source(t)' = dev /\ \A o \in Taps \ {t} : Source(o)' = Source(o)
  BY <1>4, SMT DEF Source
<1>10. \A p \in IoProcs : procs'[p] # NoProc => procs'[p].tap \in Taps /\ tap'[procs'[p].tap].io = p
  BY <1>1, <1>2, <1>3, <1>4, ProcFacts, SMT DEF LinkInv, Off
<1>11. \A o \in Taps : tap'[o].io # None => procs'[tap'[o].io].tap = o /\ procs'[tap'[o].io].dev = Source(o)'
  BY <1>1, <1>2, <1>3, <1>4, <1>5, <1>6, <1>9, SMT DEF LinkInv
<1> QED BY <1>4, <1>7, <1>8, <1>10, <1>11 DEF LinkInv

LEMMA SwitchLinks ==
  ASSUME TypeOK, LinkInv, NEW t \in Taps, NEW b \in BOOLEAN, tap' = tap,
         procs' = (IF b THEN Started(tap[t].io) ELSE Stopped(tap[t].io))
  PROVE  /\ LinkInv' /\ Touches(t)
         /\ IF tap[t].io = None THEN Off(t)' ELSE IF b THEN On(t)' ELSE Idle(t)'
<1>1. \A o \in Taps : tap[o].io # None => tap[o].io \in IoProcs
  <2>1. \A o \in Taps : tap[o] \in TapRecord
    BY Zenon DEF TypeOK
  <2> QED BY <2>1, SMT DEF TapRecord
<1>2. CASE tap[t].io = None
  <2>1. procs' = procs
    BY <1>2, ProcFacts, SMT DEF Started, Stopped
  <2> QED BY <1>2, <2>1, SMT DEF LinkInv, Touches, Off, Source
<1>3. CASE tap[t].io # None
  <2> DEFINE id == tap[t].io
  <2>1. id \in IoProcs /\ procs[id].tap = t /\ procs[id] # NoProc
    BY <1>1, <1>3, ProcFacts, SMT DEF LinkInv
  <2>2. procs' = [procs EXCEPT ![id].on = b]
    BY <2>1, Zenon DEF Started, Stopped
  <2>3. procs[id] \in ProcRecord /\ procs'[id] = [procs[id] EXCEPT !.on = b]
        /\ \A p \in IoProcs \ {id} : procs'[p] = procs[p]
    BY <2>1, <2>2, Zenon DEF TypeOK
  <2>4. procs'[id].tap = t /\ procs'[id].on = b /\ procs'[id].dev = procs[id].dev
    BY <2>1, <2>3, SMT DEF ProcRecord
  <2>5. \A o \in Taps \ {t} : tap[o].io # id
    BY <1>3, <2>1, SMT DEF LinkInv
  <2>6. Touches(t)
    BY <1>1, <2>3, <2>5, SMT DEF Touches
  <2>7. LinkInv'
    <3>1. \A p \in IoProcs : procs'[p] # NoProc => procs'[p].tap \in Taps /\ tap'[procs'[p].tap].io = p
      BY <2>1, <2>3, <2>4, SMT DEF LinkInv
    <3>2. \A o \in Taps : tap'[o].io # None => procs'[tap'[o].io].tap = o /\ procs'[tap'[o].io].dev = Source(o)'
      BY <1>1, <2>1, <2>3, <2>4, <2>5, SMT DEF LinkInv, Source
    <3> QED BY <3>1, <3>2 DEF LinkInv
  <2> QED BY <1>3, <2>4, <2>6, <2>7, SMT DEF On, Idle
<1> QED BY <1>2, <1>3

LEMMA UnregisterLinks ==
  ASSUME TypeOK, LinkInv, NEW t \in Taps, procs' = Unregistered(tap[t].io),
         tap'[t].io = None, tap'[t].dev = tap[t].dev, \A o \in Taps \ {t} : tap'[o] = tap[o]
  PROVE  LinkInv' /\ Touches(t) /\ Off(t)'
<1>1. \A o \in Taps : tap[o].io # None => tap[o].io \in IoProcs
  <2>1. \A o \in Taps : tap[o] \in TapRecord
    BY Zenon DEF TypeOK
  <2> QED BY <2>1, SMT DEF TapRecord
<1>2. \A o \in Taps \ {t} : Source(o)' = Source(o)
  BY SMT DEF Source
<1>3. CASE tap[t].io = None
  <2>1. procs' = procs
    BY <1>3, ProcFacts, SMT DEF Unregistered
  <2> QED BY <1>2, <1>3, <2>1, SMT DEF LinkInv, Touches, Off
<1>4. CASE tap[t].io # None
  <2> DEFINE id == tap[t].io
  <2>1. id \in IoProcs /\ procs[id].tap = t
    BY <1>1, <1>4, SMT DEF LinkInv
  <2>2. procs'[id] = NoProc /\ \A p \in IoProcs \ {id} : procs'[p] = procs[p]
    BY <2>1, SMT DEF Unregistered, TypeOK
  <2>3. \A o \in Taps \ {t} : tap[o].io # id
    BY <1>4, <2>1, SMT DEF LinkInv
  <2>4. Touches(t) /\ Off(t)'
    BY <1>1, <2>2, <2>3, SMT DEF Touches, Off
  <2>5. \A p \in IoProcs : procs'[p] # NoProc => procs'[p].tap \in Taps /\ tap'[procs'[p].tap].io = p
    BY <2>1, <2>2, SMT DEF LinkInv
  <2>6. \A o \in Taps : tap'[o].io # None => procs'[tap'[o].io].tap = o /\ procs'[tap'[o].io].dev = Source(o)'
    BY <1>1, <1>2, <2>1, <2>2, <2>3, SMT DEF LinkInv
  <2> QED BY <2>4, <2>5, <2>6 DEF LinkInv
<1> QED BY <1>3, <1>4

\* The fields of t that no IO proc depends on, and the device of a tap without one.
LEMMA UpdateLinks ==
  ASSUME TypeOK, LinkInv, NEW t \in Taps, procs' = procs, tap'[t].io = tap[t].io,
         Off(t) \/ tap'[t].dev = tap[t].dev, \A o \in Taps \ {t} : tap'[o] = tap[o]
  PROVE  /\ LinkInv' /\ Touches(t)
         /\ Off(t)' = Off(t) /\ Idle(t)' = Idle(t) /\ On(t)' = On(t)
<1>1. \A o \in Taps : tap'[o].io = tap[o].io /\ (Off(o) \/ Source(o)' = Source(o))
  BY SMT DEF Source
<1> QED BY <1>1, SMT DEF LinkInv, Touches, Off, Idle, On

-----------------------------------------------------------------------------
(* Registry: the threads and taps that a step leaves alone.                *)

LEMMA WentTo ==
  ASSUME TypeOK, NEW th \in Threads, NEW label, Goto(th, label)
  PROVE  pc'[th] = label /\ \A other \in Threads \ {th} : pc'[other] = pc[other]
BY SMT DEF Goto, TypeOK

\* Only thread th moves.
Moves(th) ==
  \A other \in Threads \ {th} : pc'[other] = pc[other] /\ frame'[other] = frame[other]

LEMMA LockedStep ==
  ASSUME Calm, CalmInv, NEW th \in Threads, pc[th] \in LockedLabels, NEW t \in Taps,
         (t = Self(th) /\ t \in MicTaps) \/ (t = Sys(th) /\ t \in SysTaps /\ pc[th] \in SysCode),
         Touches(t), LinkInv', lock' = lock, Moves(th), Self(th)' = Self(th),
         active' = active \/ (t \in SysTaps /\ \A o \in SysTaps \ {t} : active' # o),
         MicPhase(th)', SysPhase(th)', pc'[th] # "lock",
         \A s \in SysTaps : pc[th] \in SysCode /\ s = Sys(th) =>
           (pc'[th] \in SysCode /\ Sys(th)' = s) \/ AtPeace(s)',
         th \in MicTaps /\ ~Restarting(th) /\ ~tap[th].running =>
           ~Restarting(th)' /\ ~tap'[th].running
  PROVE  Registry'
<1>1. MicTaps \cap SysTaps = {} /\ MicTaps \subseteq Taps /\ SysTaps \subseteq Taps /\ None \notin Taps
      /\ Caller \notin MicTaps
  BY AudioTapAssumption, SMT DEF Taps
<1>2. \A o \in Threads \ {th} : MicPhase(o)' /\ SysPhase(o)'
  <2> SUFFICES ASSUME NEW o \in Threads \ {th} PROVE MicPhase(o)' /\ SysPhase(o)'
    OBVIOUS
  <2>1. pc'[o] = pc[o] /\ frame'[o] = frame[o]
    BY DEF Moves
  <2>2. CASE pc[o] \notin LockedLabels
    BY <2>1, <2>2, SMT DEF MicPhase, SysPhase, LockedLabels, Serialized, SysStarts, SysStops
  <2>3. CASE pc[o] \in LockedLabels
    <3>1. /\ Self(th) \in MicTaps /\ Self(o) \in MicTaps /\ Self(th) # Self(o)
          /\ SysTaps = {}
      BY <2>3, Exclusive DEF CalmInv
    <3>2. PICK u \in Taps \ {t} : u = Self(o)
      BY <1>1, <3>1, SMT
    <3>3. tap'[u] = tap[u] /\ (tap[u].io # None => procs'[tap[u].io] = procs[tap[u].io])
      BY DEF Touches
    <3>4. MicPhase(o)
      BY Zenon DEF CalmInv, Registry
    <3>5. MicPhase(o)'
      BY <2>1, <3>2, <3>3, <3>4, SMT DEF MicPhase, Self, Off, Idle, On, Rest
    <3>6. active' = active /\ Sys(o) = None /\ Sys(o)' = None
      BY <2>1, <3>1, FrameTyped, SMT DEF Sys, CalmInv
    <3>7. pc[o] \notin SysCode /\ pc[o] # "m_check"
      <4>1. TapFits(pc[o], frame[o])
        BY Zenon DEF CalmInv, CallShape, ThreadFits, Fits
      <4> QED BY <3>1, <4>1, SMT DEF TapFits
    <3>8. SysPhase(o)
      BY Zenon DEF CalmInv, Registry
    <3>9. SysPhase(o)'
      BY <2>1, <3>6, <3>7, <3>8, SMT DEF SysPhase, SysCode, SysStarts, SysStops
    <3> QED BY <3>5, <3>9
  <2> QED BY <2>2, <2>3
<1>3. MicRest'
  <2> SUFFICES ASSUME NEW m \in MicTaps, lock[m] = None PROVE Rest(m)'
    BY DEF MicRest
  <2>1. m # Self(th)
    BY AudioTapAssumption, SMT DEF CalmInv, ATInv, LockInv, Threads, Taps
  <2>2. m \in Taps \ {t}
    BY <1>1, <2>1, SMT
  <2>3. Rest(m)' = Rest(m)
    BY <2>2, TouchesKeeps
  <2> QED BY <2>3 DEF CalmInv, Registry, MicRest
<1>4. SysRest'
  <2> SUFFICES ASSUME NEW s \in SysTaps, Untouched(s)' PROVE AtPeace(s)'
    BY DEF SysRest
  <2>1. CASE pc[th] \in SysCode /\ Sys(th) = s
    BY <2>1, SMT DEF Untouched
  <2>2. CASE ~(pc[th] \in SysCode /\ Sys(th) = s)
    <3>1. Untouched(s)
      BY <2>2, SMT DEF Untouched, Moves, Sys
    <3>2. AtPeace(s)
      BY <3>1, Zenon DEF CalmInv, Registry, SysRest
    <3>3. s \in Taps \ {t}
      BY <1>1, <2>2, SMT
    <3>4. Rest(s)' = Rest(s) /\ tap'[s] = tap[s]
      BY <3>3, TouchesKeeps
    <3> QED BY <3>2, <3>3, <3>4, SMT DEF AtPeace, OneSystemTap
  <2> QED BY <2>1, <2>2
<1>5. WaitInv'
  <2> SUFFICES ASSUME NEW m \in MicTaps, CallerWaits(m)'
               PROVE  (~tap[m].running /\ ~Restarting(m))'
    BY DEF WaitInv
  <2>1. th # Caller /\ Caller \in Threads /\ th \in MicTaps
    BY SMT DEF Threads, CallerWaits
  <2>2. CallerWaits(m)
    BY <2>1, SMT DEF Moves, Self, CallerWaits
  <2>3. ~tap[m].running /\ ~Restarting(m)
    BY <2>2, SMT DEF CalmInv, Registry, WaitInv
  <2>4. CASE m = th
    BY <2>1, <2>3, <2>4, Zenon
  <2>5. CASE m # th
    <3>1. Self(th) = th
      BY <2>1, SMT DEF CalmInv, CallShape, ThreadFits, LockedLabels, Serialized
    <3>2. m \in Taps \ {t} /\ m \in Threads \ {th}
      BY <1>1, <2>5, <3>1, SMT DEF Threads
    <3>3. tap'[m] = tap[m]
      BY <3>2, TouchesKeeps
    <3>4. pc'[m] = pc[m] /\ frame'[m] = frame[m]
      BY <3>2, Zenon DEF Moves
    <3> QED BY <2>3, <3>3, <3>4, SMT DEF Restarting
  <2> QED BY <2>4, <2>5
<1> QED BY <1>2, <1>3, <1>4, <1>5 DEF Registry

\* A step before or after the code with a mutex held.
LEMMA OutsideStep ==
  ASSUME CalmInv, NEW th \in Threads, Moves(th), UNCHANGED <<active, lock, procs>>,
         pc[th] \notin LockedLabels, pc'[th] \notin LockedLabels,
         \A t \in Taps : /\ tap'[t].running = tap[t].running /\ tap'[t].io = tap[t].io
                         /\ Off(t) \/ tap'[t].dev = tap[t].dev,
         \A m \in MicTaps : CallerWaits(m)' => CallerWaits(m) \/ (~tap[m].running /\ ~Restarting(m))
  PROVE  Registry'
<1>1. \A t \in Taps : /\ Off(t)' = Off(t) /\ Idle(t)' = Idle(t) /\ On(t)' = On(t) /\ Rest(t)' = Rest(t)
                      /\ Off(t) \/ Source(t)' = Source(t)
  BY SMT DEF Off, Idle, On, Rest, Source
<1>2. LinkInv'
  BY <1>1, SMT DEF CalmInv, Registry, LinkInv, Off
<1>3. MicTaps \subseteq Taps /\ SysTaps \subseteq Taps /\ MicTaps \subseteq Threads
      /\ Caller \in Threads /\ Caller \notin MicTaps
  BY AudioTapAssumption, SMT DEF Taps, Threads
<1>4. MicRest'
  BY <1>1, <1>3, SMT DEF CalmInv, Registry, MicRest
<1>5. SysRest'
  <2> SUFFICES ASSUME NEW s \in SysTaps, Untouched(s)' PROVE AtPeace(s)'
    BY DEF SysRest
  <2>1. pc[th] \notin SysCode
    BY SMT DEF LockedLabels, SysCode, SysStarts, SysStops
  <2>2. Untouched(s)
    BY <2>1, SMT DEF Untouched, Moves, Sys
  <2>3. AtPeace(s)
    BY <2>2, Zenon DEF CalmInv, Registry, SysRest
  <2> QED BY <1>1, <1>3, <2>3, SMT DEF AtPeace, OneSystemTap
<1>6. WaitInv'
  <2> SUFFICES ASSUME NEW m \in MicTaps, CallerWaits(m)'
               PROVE  (~tap[m].running /\ ~Restarting(m))'
    BY DEF WaitInv
  <2>1. ~tap[m].running /\ ~Restarting(m)
    BY SMT DEF CalmInv, Registry, WaitInv
  <2>2. CASE m = th
    BY <1>3, <2>1, <2>2, SMT DEF Restarting, RestartLabels, LockedLabels, Serialized
  <2>3. CASE m # th
    BY <1>3, <2>1, <2>3, SMT DEF Restarting, Moves
  <2> QED BY <2>2, <2>3
<1>7. \A o \in Threads : MicPhase(o)' /\ SysPhase(o)'
  <2> SUFFICES ASSUME NEW o \in Threads PROVE MicPhase(o)' /\ SysPhase(o)'
    OBVIOUS
  <2>1. CASE pc'[o] \notin LockedLabels
    BY <2>1, SMT DEF MicPhase, SysPhase, LockedLabels, Serialized, SysStarts, SysStops
  <2>2. CASE pc'[o] \in LockedLabels
    <3>1. o # th /\ pc'[o] = pc[o] /\ frame'[o] = frame[o]
      BY <2>2, SMT DEF Moves
    <3>2. Self(o) \in Taps
      BY <2>2, <3>1, LockedTap DEF CalmInv
    <3>3. MicPhase(o) /\ SysPhase(o)
      BY Zenon DEF CalmInv, Registry
    <3>4. MicPhase(o)'
      BY <1>1, <3>1, <3>2, <3>3, SMT DEF MicPhase, Self
    <3>5. pc[o] \in SysCode \cup {"m_check", "m_start"} => Sys(o) = None \/ Sys(o) \in Taps
      BY <1>3, FrameTyped, SMT DEF CalmInv, Sys
    <3>6. TapFits(pc[o], frame[o])
      BY Zenon DEF CalmInv, CallShape, ThreadFits, Fits
    <3>7. SysPhase(o)'
      BY <1>1, <1>3, <3>1, <3>3, <3>5, <3>6, SMT DEF SysPhase, Sys, TapFits, SysCode, SysStarts, SysStops
    <3> QED BY <3>4, <3>7
  <2> QED BY <2>1, <2>2
<1> QED BY <1>2, <1>4, <1>5, <1>6, <1>7 DEF Registry

-----------------------------------------------------------------------------
(* Registry: the steps that start and stop a system tap.                   *)

\* What is known of a thread at its work.
LEMMA AtWork ==
  ASSUME CalmInv, NEW th \in Threads, pc[th] \in LockedLabels
  PROVE  /\ MicPhase(th) /\ SysPhase(th)
         /\ pc[th] \in SysCode \cup {"m_check"} => Sys(th) \in SysTaps
         /\ pc[th] \in Serialized => Self(th) \in MicTaps
         /\ Self(th) \in Taps
         /\ MicTaps \cap SysTaps = {} /\ MicTaps \subseteq Taps /\ SysTaps \subseteq Taps
         /\ None \notin Taps
<1>1. TapFits(pc[th], frame[th])
  BY Zenon DEF CalmInv, CallShape, ThreadFits, Fits
<1>2. pc[th] \in SysCode \cup {"m_check"} => Sys(th) \in SysTaps
  BY <1>1, SMT DEF TapFits, Sys
<1>3. pc[th] \in Serialized => Self(th) \in MicTaps
  BY SMT DEF CalmInv, ATInv, CallInv, MicLabels
<1>4. Self(th) \in Taps
  BY LockedTap DEF CalmInv
<1>5. MicTaps \cap SysTaps = {} /\ MicTaps \subseteq Taps /\ SysTaps \subseteq Taps /\ None \notin Taps
  BY AudioTapAssumption, SMT DEF Taps
<1> QED BY <1>2, <1>3, <1>4, <1>5, Zenon DEF CalmInv, Registry

\* The step to label of a thread that starts or stops system tap t.
SysGoes(th, t, label) ==
  /\ Goto(th, label)
  /\ IF Self(th) \in MicTaps
     THEN /\ frame' = frame
          /\ label \in (IF pc[th] \in SysStarts THEN SysStarts \cup {"m_result"}
                        ELSE SysStops \cup {"m_start"})
     ELSE FramesKeep(th) /\ label # "lock" /\ (label \in SysCode \/ label \notin LockedLabels)
  /\ label \in SysCode \/ AtPeace(t)'

LEMMA SysStepKeeps ==
  ASSUME Calm, CalmInv, NEW th \in Threads, pc[th] \in SysCode, NEW t \in SysTaps, t = Sys(th),
         NEW label, SysGoes(th, t, label), Touches(t), LinkInv', lock' = lock, SysPhase(th)',
         active' = active \/ \A o \in SysTaps \ {t} : active' # o
  PROVE  Registry'
<1>1. pc[th] \in LockedLabels /\ t \in Taps
  BY SMT DEF SysCode, SysStarts, SysStops, LockedLabels, Taps
<1>2. pc'[th] = label /\ \A other \in Threads \ {th} : pc'[other] = pc[other]
  BY WentTo, Zenon DEF SysGoes, CalmInv, ATInv
<1>3. /\ Moves(th) /\ Self(th)' = Self(th) /\ Sys(th)' = t /\ pc'[th] # "lock"
      /\ Self(th) \in MicTaps => frame' = frame
  BY <1>2, SMT DEF SysGoes, FramesKeep, Moves, Self, Sys, SysStarts, SysStops
<1>4. MicPhase(th)'
  <2>1. CASE Self(th) \in MicTaps
    <3>1. PICK u \in Taps \ {t} : u = Self(th) /\ u \in MicTaps
      BY <1>1, <2>1, AtWork, SMT
    <3>2. tap'[u] = tap[u] /\ (tap[u].io # None => procs'[tap[u].io] = procs[tap[u].io])
      BY <3>1 DEF Touches
    <3>3. MicPhase(th)
      BY <1>1, AtWork
    <3>4. CASE pc[th] \in SysStarts
      <4>1. ~tap[u].running /\ (IF frame[th].ok THEN On(u) ELSE Idle(u))
        BY <3>1, <3>3, <3>4, SMT DEF MicPhase
      <4>2. (~tap[u].running /\ (IF frame[th].ok THEN On(u) ELSE Idle(u)))'
        BY <1>3, <2>1, <3>2, <4>1, SMT DEF On, Idle
      <4>3. label \in SysStarts \cup {"m_result"}
        BY <2>1, <3>4, SMT DEF SysGoes
      <4> QED BY <1>2, <1>3, <3>1, <4>2, <4>3, SMT DEF MicPhase, SysStarts, SysStops
    <3>5. CASE pc[th] \in SysStops
      <4>1. ~tap[u].running /\ Idle(u)
        BY <3>1, <3>3, <3>5, SMT DEF MicPhase
      <4>2. (~tap[u].running /\ Idle(u))'
        BY <3>2, <4>1, SMT DEF Idle
      <4>3. label \in SysStops \cup {"m_start"}
        BY <2>1, <3>5, SMT DEF SysGoes, SysStarts, SysStops
      <4> QED BY <1>2, <1>3, <3>1, <4>2, <4>3, SMT DEF MicPhase, SysStarts, SysStops
    <3> QED BY <3>4, <3>5, Zenon DEF SysCode
  <2>2. CASE Self(th) \notin MicTaps
    BY <1>2, <1>3, <2>2, SMT DEF SysGoes, MicPhase, SysCode, SysStarts, SysStops, LockedLabels, Serialized
  <2> QED BY <2>1, <2>2
<1>5. \A s \in SysTaps : pc[th] \in SysCode /\ s = Sys(th) =>
        (pc'[th] \in SysCode /\ Sys(th)' = s) \/ AtPeace(s)'
  BY <1>2, <1>3, Zenon DEF SysGoes
<1>6. Restarting(th)
  BY SMT DEF Restarting, RestartLabels, SysCode, SysStarts, SysStops, LockedLabels
<1> QED BY <1>1, <1>3, <1>4, <1>5, <1>6, LockedStep

LEMMA SysCreateProcRegistry ==
  ASSUME Calm, CalmInv, NEW th \in Threads, SysCreateProc(th)
  PROVE  Registry'
<1>1. pc[th] = "s_create" /\ pc[th] \in SysCode /\ pc[th] \in LockedLabels
  BY SMT DEF SysCreateProc, SysCode, SysStarts, LockedLabels
<1>2. PICK t \in SysTaps : t = Sys(th) /\ t \in Taps
  BY <1>1, AtWork, SMT
<1>3. ~tap[t].running /\ Off(t) /\ active # t
  BY <1>1, <1>2, AtWork, SMT DEF SysPhase
<1>4. UNCHANGED <<active, lock>> /\ TypeOK /\ LinkInv
  BY Zenon DEF SysCreateProc, CalmInv, ATInv, Registry
<1>5. CASE Register(t, t) /\ Goto(th, "s_start") /\ UNCHANGED frame
  <2>1. LinkInv' /\ Touches(t) /\ Idle(t)' /\ tap'[t].running = tap[t].running
    <3>1. t = Source(t)
      BY SMT DEF Source
    <3> QED BY <1>2, <1>3, <1>4, <1>5, <3>1, RegisterLinks
  <2>2. SysPhase(th)'
    BY <1>2, <1>3, <1>4, <1>5, <2>1, WentTo, SMT DEF SysPhase, Sys, SysStarts, SysStops
  <2>3. SysGoes(th, t, "s_start")
    BY <1>1, <1>5, UnchangedKeeps, SMT DEF SysGoes, SysCode, SysStarts
  <2> QED BY <1>1, <1>2, <1>4, <2>1, <2>2, <2>3, SysStepKeeps
<1>6. CASE SysFailed(th) /\ Goto(th, AfterSysStart(th)) /\ UNCHANGED tap /\ UNCHANGED procs
  <2>1. LinkInv' /\ Touches(t) /\ AtPeace(t)'
    BY <1>3, <1>4, <1>6, SMT DEF LinkInv, Touches, Source, AtPeace, Rest, Off, On
  <2>2. AfterSysStart(th) \in {"m_result", "return"} /\ (Self(th) \in MicTaps => AfterSysStart(th) = "m_result")
        /\ (Self(th) \notin MicTaps => AfterSysStart(th) = "return")
    BY Zenon DEF AfterSysStart
  <2>3. SysPhase(th)'
    BY <1>4, <1>6, <2>2, WentTo, SMT DEF SysPhase, SysStarts, SysStops
  <2>4. SysGoes(th, t, AfterSysStart(th))
    BY <1>1, <1>4, <1>6, <2>1, <2>2, SysFailedKeeps, SMT DEF SysGoes, SysCode, SysStarts, SysStops, LockedLabels, Serialized
  <2> QED BY <1>1, <1>2, <1>4, <2>1, <2>3, <2>4, SysStepKeeps
<1> QED BY <1>2, <1>5, <1>6, Zenon DEF SysCreateProc

LEMMA SysDeviceStartRegistry ==
  ASSUME Calm, CalmInv, NEW th \in Threads, SysDeviceStart(th)
  PROVE  Registry'
<1>1. pc[th] = "s_start" /\ pc[th] \in SysCode /\ pc[th] \in LockedLabels
  BY SMT DEF SysDeviceStart, SysCode, SysStarts, LockedLabels
<1>2. PICK t \in SysTaps : t = Sys(th) /\ t \in Taps
  BY <1>1, AtWork, SMT
<1>3. ~tap[t].running /\ Idle(t) /\ active # t
  BY <1>1, <1>2, AtWork, SMT DEF SysPhase
<1>4. UNCHANGED <<active, lock>> /\ TypeOK /\ LinkInv
  BY Zenon DEF SysDeviceStart, CalmInv, ATInv, Registry
<1>5. CASE procs' = Started(tap[t].io) /\ Goto(th, "s_running") /\ UNCHANGED tap /\ UNCHANGED frame
  <2>1. LinkInv' /\ Touches(t) /\ On(t)'
    <3>1. procs' = (IF TRUE THEN Started(tap[t].io) ELSE Stopped(tap[t].io)) /\ tap' = tap
      BY <1>5
    <3>2. tap[t].io # None
      BY <1>3 DEF Idle
    <3> QED BY <1>2, <1>4, <3>1, <3>2, SwitchLinks
  <2>2. SysPhase(th)'
    BY <1>2, <1>3, <1>4, <1>5, <2>1, WentTo, SMT DEF SysPhase, Sys, SysStarts, SysStops
  <2>3. SysGoes(th, t, "s_running")
    BY <1>1, <1>5, UnchangedKeeps, SMT DEF SysGoes, SysCode, SysStarts
  <2> QED BY <1>1, <1>2, <1>4, <2>1, <2>2, <2>3, SysStepKeeps
<1>6. CASE /\ procs' = Unregistered(tap[t].io) /\ tap' = [tap EXCEPT ![t].io = None]
           /\ SysFailed(th) /\ Goto(th, AfterSysStart(th))
  <2>1. /\ tap'[t].io = None /\ tap'[t].running = tap[t].running /\ tap'[t].dev = tap[t].dev
        /\ \A o \in Taps \ {t} : tap'[o] = tap[o]
    BY <1>2, <1>4, <1>6, IoUpdated
  <2>2. LinkInv' /\ Touches(t) /\ Off(t)'
    BY <1>2, <1>4, <1>6, <2>1, UnregisterLinks
  <2>3. AtPeace(t)'
    BY <1>3, <1>4, <2>1, <2>2, SMT DEF AtPeace, Rest
  <2>4. AfterSysStart(th) \in {"m_result", "return"} /\ (Self(th) \in MicTaps => AfterSysStart(th) = "m_result")
        /\ (Self(th) \notin MicTaps => AfterSysStart(th) = "return")
    BY Zenon DEF AfterSysStart
  <2>5. SysPhase(th)'
    BY <1>4, <1>6, <2>4, WentTo, SMT DEF SysPhase, SysStarts, SysStops
  <2>6. SysGoes(th, t, AfterSysStart(th))
    BY <1>1, <1>4, <1>6, <2>3, <2>4, SysFailedKeeps, SMT DEF SysGoes, SysCode, SysStarts, SysStops, LockedLabels, Serialized
  <2> QED BY <1>1, <1>2, <1>4, <2>2, <2>5, <2>6, SysStepKeeps
<1> QED BY <1>2, <1>5, <1>6, Zenon DEF SysDeviceStart

LEMMA SysSetRunningRegistry ==
  ASSUME Calm, CalmInv, NEW th \in Threads, SysSetRunning(th)
  PROVE  Registry'
<1>1. pc[th] = "s_running" /\ pc[th] \in SysCode /\ pc[th] \in LockedLabels
  BY SMT DEF SysSetRunning, SysCode, SysStarts, LockedLabels
<1>2. PICK t \in SysTaps : t = Sys(th) /\ t \in Taps
  BY <1>1, AtWork, SMT
<1>3. On(t)
  BY <1>1, <1>2, AtWork, SMT DEF SysPhase
<1>4. UNCHANGED <<active, lock, procs, frame>> /\ TypeOK /\ LinkInv /\ Goto(th, "s_active")
      /\ tap' = [tap EXCEPT ![t].running = TRUE]
  BY <1>2, Zenon DEF SysSetRunning, CalmInv, ATInv, Registry, hal
<1>5. /\ tap'[t].io = tap[t].io /\ tap'[t].running = TRUE /\ tap'[t].dev = tap[t].dev
      /\ \A o \in Taps \ {t} : tap'[o] = tap[o]
  BY <1>2, <1>4, RunningUpdated
<1>6. LinkInv' /\ Touches(t) /\ On(t)'
  BY <1>2, <1>3, <1>4, <1>5, UpdateLinks
<1>7. SysPhase(th)'
  BY <1>2, <1>4, <1>5, <1>6, WentTo, SMT DEF SysPhase, Sys, SysStarts, SysStops
<1>8. SysGoes(th, t, "s_active")
  BY <1>1, <1>4, UnchangedKeeps, SMT DEF SysGoes, SysCode, SysStarts
<1> QED BY <1>1, <1>2, <1>4, <1>6, <1>7, <1>8, SysStepKeeps

LEMMA SysSetActiveRegistry ==
  ASSUME Calm, CalmInv, NEW th \in Threads, SysSetActive(th)
  PROVE  Registry'
<1>1. pc[th] = "s_active" /\ pc[th] \in SysCode /\ pc[th] \in LockedLabels
  BY SMT DEF SysSetActive, SysCode, SysStarts, LockedLabels
<1>2. PICK t \in SysTaps : t = Sys(th) /\ t \in Taps
  BY <1>1, AtWork, SMT
<1>3. tap[t].running /\ On(t)
  BY <1>1, <1>2, AtWork, SMT DEF SysPhase
<1>4. UNCHANGED <<tap, lock, procs, frame>> /\ TypeOK /\ LinkInv /\ Goto(th, AfterSysStart(th)) /\ active' = t
  BY <1>2, Zenon DEF SysSetActive, CalmInv, ATInv, Registry, hal
<1>5. LinkInv' /\ Touches(t) /\ AtPeace(t)'
  BY <1>3, <1>4, SMT DEF LinkInv, Touches, Source, AtPeace, Rest, On
<1>6. AfterSysStart(th) \in {"m_result", "return"} /\ (Self(th) \in MicTaps => AfterSysStart(th) = "m_result")
      /\ (Self(th) \notin MicTaps => AfterSysStart(th) = "return")
  BY Zenon DEF AfterSysStart
<1>7. SysPhase(th)'
  BY <1>4, <1>6, WentTo, SMT DEF SysPhase, SysStarts, SysStops
<1>8. SysGoes(th, t, AfterSysStart(th))
  BY <1>1, <1>4, <1>5, <1>6, UnchangedKeeps, SMT DEF SysGoes, SysCode, SysStarts, SysStops, LockedLabels, Serialized
<1> QED BY <1>1, <1>2, <1>4, <1>5, <1>7, <1>8, SysStepKeeps

LEMMA SysDeviceStopRegistry ==
  ASSUME Calm, CalmInv, NEW th \in Threads, SysDeviceStop(th)
  PROVE  Registry'
<1>1. pc[th] = "x_halt" /\ pc[th] \in SysCode /\ pc[th] \in LockedLabels
  BY SMT DEF SysDeviceStop, SysCode, SysStops, LockedLabels
<1>2. PICK t \in SysTaps : t = Sys(th) /\ t \in Taps
  BY <1>1, AtWork, SMT
<1>3. tap[t].running /\ tap[t].io # None
  BY <1>1, <1>2, AtWork, SMT DEF SysPhase, On
<1>4. UNCHANGED <<tap, active, lock, frame>> /\ TypeOK /\ LinkInv /\ Goto(th, "x_free")
      /\ procs' = Stopped(tap[t].io)
  BY <1>2, <1>3, Zenon DEF SysDeviceStop, CalmInv, ATInv, Registry, shared
<1>5. LinkInv' /\ Touches(t) /\ Idle(t)'
  <2>1. procs' = (IF FALSE THEN Started(tap[t].io) ELSE Stopped(tap[t].io)) /\ tap' = tap
    BY <1>4
  <2> QED BY <1>2, <1>3, <1>4, <2>1, SwitchLinks
<1>6. SysPhase(th)'
  BY <1>2, <1>3, <1>4, <1>5, WentTo, SMT DEF SysPhase, Sys, SysStarts, SysStops
<1>7. SysGoes(th, t, "x_free")
  BY <1>1, <1>4, UnchangedKeeps, SMT DEF SysGoes, SysCode, SysStarts, SysStops
<1> QED BY <1>1, <1>2, <1>4, <1>5, <1>6, <1>7, SysStepKeeps

LEMMA SysDestroyProcRegistry ==
  ASSUME Calm, CalmInv, NEW th \in Threads, SysDestroyProc(th)
  PROVE  Registry'
<1>1. pc[th] = "x_free" /\ pc[th] \in SysCode /\ pc[th] \in LockedLabels
  BY SMT DEF SysDestroyProc, SysCode, SysStops, LockedLabels
<1>2. PICK t \in SysTaps : t = Sys(th) /\ t \in Taps
  BY <1>1, AtWork, SMT
<1>3. tap[t].running
  BY <1>1, <1>2, AtWork, SMT DEF SysPhase
<1>4. UNCHANGED <<active, lock, frame>> /\ TypeOK /\ LinkInv /\ Goto(th, "x_clear")
      /\ procs' = Unregistered(tap[t].io) /\ tap' = [tap EXCEPT ![t].io = None]
  BY <1>2, Zenon DEF SysDestroyProc, CalmInv, ATInv, Registry
<1>5. /\ tap'[t].io = None /\ tap'[t].running = tap[t].running /\ tap'[t].dev = tap[t].dev
      /\ \A o \in Taps \ {t} : tap'[o] = tap[o]
  BY <1>2, <1>4, IoUpdated
<1>6. LinkInv' /\ Touches(t) /\ Off(t)'
  BY <1>2, <1>4, <1>5, UnregisterLinks
<1>7. SysPhase(th)'
  BY <1>2, <1>3, <1>4, <1>5, <1>6, WentTo, SMT DEF SysPhase, Sys, SysStarts, SysStops
<1>8. SysGoes(th, t, "x_clear")
  BY <1>1, <1>4, UnchangedKeeps, SMT DEF SysGoes, SysCode, SysStarts, SysStops
<1> QED BY <1>1, <1>2, <1>4, <1>6, <1>7, <1>8, SysStepKeeps

LEMMA SysClearRunningRegistry ==
  ASSUME Calm, CalmInv, NEW th \in Threads, SysClearRunning(th)
  PROVE  Registry'
<1>1. pc[th] = "x_clear" /\ pc[th] \in SysCode /\ pc[th] \in LockedLabels
  BY SMT DEF SysClearRunning, SysCode, SysStops, LockedLabels
<1>2. PICK t \in SysTaps : t = Sys(th) /\ t \in Taps
  BY <1>1, AtWork, SMT
<1>3. Off(t)
  BY <1>1, <1>2, AtWork, SMT DEF SysPhase
<1>4. UNCHANGED <<active, lock, procs, frame>> /\ TypeOK /\ LinkInv /\ Goto(th, "x_active")
      /\ tap' = [tap EXCEPT ![t].running = FALSE]
  BY <1>2, Zenon DEF SysClearRunning, CalmInv, ATInv, Registry, hal
<1>5. /\ tap'[t].io = tap[t].io /\ tap'[t].running = FALSE /\ tap'[t].dev = tap[t].dev
      /\ \A o \in Taps \ {t} : tap'[o] = tap[o]
  BY <1>2, <1>4, RunningUpdated
<1>6. LinkInv' /\ Touches(t) /\ Off(t)'
  BY <1>2, <1>3, <1>4, <1>5, UpdateLinks
<1>7. SysPhase(th)'
  BY <1>2, <1>4, <1>5, <1>6, WentTo, SMT DEF SysPhase, Sys, SysStarts, SysStops
<1>8. SysGoes(th, t, "x_active")
  BY <1>1, <1>4, UnchangedKeeps, SMT DEF SysGoes, SysCode, SysStarts, SysStops
<1> QED BY <1>1, <1>2, <1>4, <1>6, <1>7, <1>8, SysStepKeeps

LEMMA SysClearActiveRegistry ==
  ASSUME Calm, CalmInv, NEW th \in Threads, SysClearActive(th)
  PROVE  Registry'
<1>1. pc[th] = "x_active" /\ pc[th] \in SysCode /\ pc[th] \in LockedLabels
  BY SMT DEF SysClearActive, SysCode, SysStops, LockedLabels
<1>2. PICK t \in SysTaps : t = Sys(th) /\ t \in Taps /\ t # None
  BY <1>1, AtWork, SMT
<1>3. ~tap[t].running /\ Off(t)
  BY <1>1, <1>2, AtWork, SMT DEF SysPhase
<1>4. UNCHANGED <<tap, lock, procs, frame>> /\ TypeOK /\ LinkInv /\ Goto(th, AfterSysStop(th))
      /\ active' = (IF active = t THEN None ELSE active)
  BY <1>2, Zenon DEF SysClearActive, CalmInv, ATInv, Registry, hal
<1>5. LinkInv' /\ Touches(t) /\ AtPeace(t)' /\ active' # t
  BY <1>2, <1>3, <1>4, SMT DEF LinkInv, Touches, Source, AtPeace, Rest, Off, On
<1>6. AfterSysStop(th) \in {"m_start", "return", "d_aggregate", "d_unlisten"}
      /\ (Self(th) \in MicTaps => AfterSysStop(th) = "m_start")
      /\ (Self(th) \notin MicTaps => AfterSysStop(th) # "m_start")
  BY Zenon DEF AfterSysStop, AfterStop, DestroyBegin
<1>7. SysPhase(th)'
  BY <1>2, <1>3, <1>4, <1>5, <1>6, WentTo, SMT DEF SysPhase, Sys, SysStarts, SysStops, Off
<1>8. SysGoes(th, t, AfterSysStop(th))
  BY <1>1, <1>4, <1>5, <1>6, UnchangedKeeps, SMT DEF SysGoes, SysCode, SysStarts, SysStops, LockedLabels, Serialized
<1>9. active' = active \/ \A o \in SysTaps \ {t} : active' # o
  BY <1>4, ProcFacts, SMT DEF Taps
<1> QED BY <1>1, <1>2, <1>4, <1>5, <1>7, <1>8, <1>9, SysStepKeeps

-----------------------------------------------------------------------------
(* Registry: the steps with the mutex of a microphone tap.                 *)

LEMMA MicStepKeeps ==
  ASSUME Calm, CalmInv, NEW th \in Threads, pc[th] \in Serialized, NEW t \in MicTaps, t = Self(th),
         NEW label \in LockedLabels, Goto(th, label), Moves(th), Self(th)' = Self(th),
         Touches(t), LinkInv', UNCHANGED <<active, lock>>, MicPhase(th)', SysPhase(th)',
         pc[th] \in RestartLabels \/ (~tap[t].running /\ ~Restarting(th) =>
                                        ~Restarting(th)' /\ ~tap'[t].running)
  PROVE  Registry'
<1>1. pc[th] \in LockedLabels /\ pc[th] \notin SysCode
  BY SMT DEF SysCode, SysStarts, SysStops, LockedLabels, Serialized
<1>2. t \in Taps
  BY SMT DEF Taps
<1>3. pc'[th] = label /\ pc'[th] # "lock"
  BY WentTo, SMT DEF CalmInv, ATInv, LockedLabels, Serialized
<1>4. th \in MicTaps => th = t
  BY SMT DEF CalmInv, CallShape, ThreadFits, Serialized
<1>5. th \in MicTaps /\ ~Restarting(th) /\ ~tap[th].running =>
        ~Restarting(th)' /\ ~tap'[th].running
  BY <1>4, Zenon DEF Restarting
<1> QED BY <1>1, <1>2, <1>3, <1>5, LockedStep

LEMMA KeepsMoves ==
  ASSUME TypeOK, NEW th \in Threads, NEW label, Goto(th, label), FramesKeep(th)
  PROVE  Moves(th) /\ Self(th)' = Self(th) /\ Sys(th)' = Sys(th)
BY WentTo, SMT DEF Moves, FramesKeep, Self, Sys

LEMMA MicCreateProcRegistry ==
  ASSUME Calm, CalmInv, NEW th \in Threads, MicCreateProc(th)
  PROVE  Registry'
<1>1. pc[th] = "m_create" /\ pc[th] \in Serialized /\ pc[th] \in LockedLabels /\ pc[th] \in RestartLabels
  BY SMT DEF MicCreateProc, LockedLabels, Serialized, RestartLabels
<1>2. PICK t \in MicTaps : t = Self(th) /\ t \in Taps /\ t \notin SysTaps
  BY <1>1, AtWork, SMT
<1>3. ~tap[t].running /\ Off(t)
  BY <1>1, <1>2, AtWork, SMT DEF MicPhase
<1>4. UNCHANGED <<active, lock>> /\ TypeOK /\ LinkInv
  BY Zenon DEF MicCreateProc, CalmInv, ATInv, Registry
<1>5. {"m_permission", "unlock"} \subseteq LockedLabels
  BY SMT DEF LockedLabels, Serialized
<1>6. CASE Register(t, tap[t].dev) /\ Goto(th, "m_permission") /\ UNCHANGED frame
  <2>1. LinkInv' /\ Touches(t) /\ Idle(t)' /\ tap'[t].running = tap[t].running
    <3>1. tap[t].dev = Source(t)
      BY <1>2, SMT DEF Source
    <3> QED BY <1>2, <1>3, <1>4, <1>6, <3>1, RegisterLinks
  <2>2. Moves(th) /\ Self(th)' = Self(th) /\ pc'[th] = "m_permission"
    BY <1>4, <1>6, UnchangedKeeps, KeepsMoves, WentTo
  <2>3. MicPhase(th)' /\ SysPhase(th)'
    BY <1>2, <1>3, <2>1, <2>2, SMT DEF MicPhase, SysPhase, SysStarts, SysStops
  <2> QED BY <1>1, <1>2, <1>4, <1>5, <1>6, <2>1, <2>2, <2>3, MicStepKeeps
<1>7. CASE Failed(th) /\ Goto(th, "unlock") /\ UNCHANGED tap /\ UNCHANGED procs
  <2>1. LinkInv' /\ Touches(t) /\ Rest(t)'
    BY <1>3, <1>4, <1>7, SMT DEF LinkInv, Touches, Source, Rest, Off
  <2>2. Moves(th) /\ Self(th)' = Self(th) /\ pc'[th] = "unlock"
    BY <1>4, <1>7, FailedKeeps, KeepsMoves, WentTo
  <2>3. MicPhase(th)' /\ SysPhase(th)'
    BY <1>2, <2>1, <2>2, SMT DEF MicPhase, SysPhase, SysStarts, SysStops
  <2> QED BY <1>1, <1>2, <1>4, <1>5, <1>7, <2>1, <2>2, <2>3, MicStepKeeps
<1> QED BY <1>2, <1>6, <1>7, Zenon DEF MicCreateProc

LEMMA MicPermissionRegistry ==
  ASSUME Calm, CalmInv, NEW th \in Threads, MicPermission(th)
  PROVE  Registry'
<1>1. pc[th] = "m_permission" /\ pc[th] \in Serialized /\ pc[th] \in LockedLabels /\ pc[th] \in RestartLabels
  BY SMT DEF MicPermission, LockedLabels, Serialized, RestartLabels
<1>2. PICK t \in MicTaps : t = Self(th) /\ t \in Taps
  BY <1>1, AtWork, SMT
<1>3. ~tap[t].running /\ Idle(t)
  BY <1>1, <1>2, AtWork, SMT DEF MicPhase
<1>4. UNCHANGED <<active, lock>> /\ TypeOK /\ LinkInv
  BY Zenon DEF MicPermission, CalmInv, ATInv, Registry
<1>5. {"m_pause", "unlock"} \subseteq LockedLabels
  BY SMT DEF LockedLabels, Serialized
<1>6. CASE Goto(th, "m_pause") /\ UNCHANGED tap /\ UNCHANGED procs /\ UNCHANGED frame
  <2>1. LinkInv' /\ Touches(t) /\ (~tap[t].running /\ Idle(t))'
    BY <1>3, <1>4, <1>6, SMT DEF LinkInv, Touches, Source, Idle
  <2>2. Moves(th) /\ Self(th)' = Self(th) /\ pc'[th] = "m_pause"
    BY <1>4, <1>6, UnchangedKeeps, KeepsMoves, WentTo
  <2>3. MicPhase(th)' /\ SysPhase(th)'
    BY <1>2, <2>1, <2>2, SMT DEF MicPhase, SysPhase, SysStarts, SysStops
  <2> QED BY <1>1, <1>2, <1>4, <1>5, <1>6, <2>1, <2>2, <2>3, MicStepKeeps
<1>7. CASE /\ procs' = Unregistered(tap[t].io) /\ tap' = [tap EXCEPT ![t].io = None]
           /\ Failed(th) /\ Goto(th, "unlock")
  <2>1. /\ tap'[t].io = None /\ tap'[t].running = tap[t].running /\ tap'[t].dev = tap[t].dev
        /\ \A o \in Taps \ {t} : tap'[o] = tap[o]
    BY <1>2, <1>4, <1>7, IoUpdated
  <2>2. LinkInv' /\ Touches(t) /\ Off(t)'
    BY <1>2, <1>4, <1>7, <2>1, UnregisterLinks
  <2>3. Rest(t)'
    BY <1>3, <2>1, <2>2, SMT DEF Rest
  <2>4. Moves(th) /\ Self(th)' = Self(th) /\ pc'[th] = "unlock"
    BY <1>4, <1>7, FailedKeeps, KeepsMoves, WentTo
  <2>5. MicPhase(th)' /\ SysPhase(th)'
    BY <1>2, <2>3, <2>4, SMT DEF MicPhase, SysPhase, SysStarts, SysStops
  <2> QED BY <1>1, <1>2, <1>4, <1>5, <1>7, <2>2, <2>4, <2>5, MicStepKeeps
<1> QED BY <1>2, <1>6, <1>7, Zenon DEF MicPermission

LEMMA MicFindSysRegistry ==
  ASSUME Calm, CalmInv, NEW th \in Threads, MicFindSys(th)
  PROVE  Registry'
<1>1. pc[th] = "m_pause" /\ pc[th] \in Serialized /\ pc[th] \in LockedLabels /\ pc[th] \in RestartLabels
  BY SMT DEF MicFindSys, LockedLabels, Serialized, RestartLabels
<1>2. PICK t \in MicTaps : t = Self(th) /\ t \in Taps
  BY <1>1, AtWork, SMT
<1>3. ~tap[t].running /\ Idle(t)
  BY <1>1, <1>2, AtWork, SMT DEF MicPhase
<1>4. UNCHANGED <<tap, procs, active, lock>> /\ TypeOK /\ LinkInv
  BY Zenon DEF MicFindSys, CalmInv, ATInv, Registry, shared, hal
<1>5. LinkInv' /\ Touches(t) /\ (~tap[t].running /\ Idle(t))'
  BY <1>3, <1>4, SMT DEF LinkInv, Touches, Source, Idle
<1>6. PICK label : label = (IF active = None THEN "m_start" ELSE "m_check")
  OBVIOUS
<1>7. Goto(th, label) /\ label \in {"m_start", "m_check"} /\ (label = "m_start" => active = None)
  BY <1>6, Zenon DEF MicFindSys
<1>8. pc'[th] = label /\ Moves(th) /\ Self(th)' = Self(th) /\ Sys(th)' = active
  BY <1>4, <1>7, WentTo, FoundSys, SMT DEF Moves, Self, Sys, CalmInv
<1>9. MicPhase(th)' /\ SysPhase(th)'
  BY <1>2, <1>4, <1>5, <1>7, <1>8, SMT DEF MicPhase, SysPhase, SysStarts, SysStops
<1>10. label \in LockedLabels
  BY <1>7, SMT DEF LockedLabels, Serialized
<1> QED BY <1>1, <1>2, <1>4, <1>5, <1>7, <1>8, <1>9, <1>10, MicStepKeeps

\* The system tap that a microphone tap finds active runs, and nobody else is
\* at work on it.
LEMMA ActiveRuns ==
  ASSUME Calm, CalmInv, NEW th \in Threads, pc[th] = "m_check"
  PROVE  Sys(th) \in SysTaps /\ active = Sys(th) /\ tap[Sys(th)].running /\ On(Sys(th))
<1>1. pc[th] \in LockedLabels /\ pc[th] \notin SysCode
  BY SMT DEF LockedLabels, Serialized, SysCode, SysStarts, SysStops
<1>2. PICK s \in SysTaps : s = Sys(th)
  BY <1>1, AtWork, SMT
<1>3. active = s
  BY <1>1, <1>2, AtWork, SMT DEF SysPhase
<1>4. SysCode \subseteq LockedLabels
  BY SMT DEF LockedLabels, SysCode, SysStarts, SysStops
<1>5. \A o \in Threads : pc[o] \notin SysCode
  BY <1>1, <1>2, <1>4, Exclusive, SMT DEF CalmInv
<1>6. AtPeace(s)
  BY <1>5, Zenon DEF CalmInv, Registry, SysRest, Untouched
<1> QED BY <1>2, <1>3, <1>6, SMT DEF AtPeace, Rest

LEMMA MicPauseSysRegistry ==
  ASSUME Calm, CalmInv, NEW th \in Threads, MicPauseSys(th)
  PROVE  Registry'
<1>1. pc[th] = "m_check" /\ pc[th] \in Serialized /\ pc[th] \in LockedLabels /\ pc[th] \in RestartLabels
  BY SMT DEF MicPauseSys, Jump, LockedLabels, Serialized, RestartLabels
<1>2. PICK t \in MicTaps : t = Self(th) /\ t \in Taps
  BY <1>1, AtWork, SMT
<1>3. ~tap[t].running /\ Idle(t)
  BY <1>1, <1>2, AtWork, SMT DEF MicPhase
<1>4. PICK s \in SysTaps : s = Sys(th) /\ tap[s].running /\ On(s)
  BY <1>1, ActiveRuns
<1>5. UNCHANGED <<tap, procs, active, lock, frame>> /\ TypeOK /\ LinkInv /\ Goto(th, "x_halt")
  BY <1>4, Zenon DEF MicPauseSys, Jump, CalmInv, ATInv, Registry, shared, hal
<1>6. LinkInv' /\ Touches(t) /\ (~tap[t].running /\ Idle(t))' /\ (tap[s].running /\ On(s))'
  BY <1>3, <1>4, <1>5, SMT DEF LinkInv, Touches, Source, Idle, On
<1>7. pc'[th] = "x_halt" /\ Moves(th) /\ Self(th)' = Self(th) /\ Sys(th)' = Sys(th)
  BY <1>5, WentTo, UnchangedKeeps, KeepsMoves
<1>8. MicPhase(th)' /\ SysPhase(th)'
  BY <1>2, <1>4, <1>6, <1>7, SMT DEF MicPhase, SysPhase, SysStarts, SysStops
<1>9. "x_halt" \in LockedLabels
  BY SMT DEF LockedLabels
<1> QED BY <1>1, <1>2, <1>5, <1>6, <1>7, <1>8, <1>9, MicStepKeeps

LEMMA MicDeviceStartRegistry ==
  ASSUME Calm, CalmInv, NEW th \in Threads, MicDeviceStart(th)
  PROVE  Registry'
<1>1. pc[th] = "m_start" /\ pc[th] \in Serialized /\ pc[th] \in LockedLabels /\ pc[th] \in RestartLabels
  BY SMT DEF MicDeviceStart, LockedLabels, Serialized, RestartLabels
<1>2. PICK t \in MicTaps : t = Self(th) /\ t \in Taps /\ t \notin SysTaps
  BY <1>1, AtWork, SMT
<1>3. ~tap[t].running /\ Idle(t) /\ tap[t].io # None
  BY <1>1, <1>2, AtWork, SMT DEF MicPhase, Idle
<1>4. UNCHANGED <<tap, active, lock>> /\ TypeOK /\ LinkInv
  BY Zenon DEF MicDeviceStart, CalmInv, ATInv, Registry, shared
<1>5. frame[th].ok
  BY <1>1, SMT DEF CalmInv, CallShape, ThreadFits, Fits, ResultFits, SoFarOk
<1>6. PICK label : label = (IF Sys(th) = None THEN "m_result" ELSE "s_create")
  OBVIOUS
<1>7. Goto(th, label) /\ label \in {"m_result", "s_create"} /\ (label = "s_create" => Sys(th) # None)
  BY <1>6, Zenon DEF MicDeviceStart
<1>8. FramesKeep(th) /\ LinkInv' /\ Touches(t) /\ (IF frame[th].ok THEN On(t) ELSE Idle(t))'
  <2>1. CASE procs' = Started(tap[t].io) /\ UNCHANGED frame
    <3>1. procs' = (IF TRUE THEN Started(tap[t].io) ELSE Stopped(tap[t].io)) /\ tap' = tap
      BY <1>4, <2>1
    <3>2. LinkInv' /\ Touches(t) /\ On(t)'
      BY <1>2, <1>3, <1>4, <3>1, SwitchLinks
    <3> QED BY <1>5, <2>1, <3>2, UnchangedKeeps
  <2>2. CASE Failed(th) /\ UNCHANGED procs
    <3>1. LinkInv' /\ Touches(t) /\ Idle(t)'
      BY <1>3, <1>4, <2>2, SMT DEF LinkInv, Touches, Source, Idle
    <3> QED BY <1>4, <2>2, <3>1, FailedKeeps
  <2> QED BY <1>2, <2>1, <2>2, Zenon DEF MicDeviceStart
<1>9. pc'[th] = label /\ Moves(th) /\ Self(th)' = Self(th) /\ Sys(th)' = Sys(th)
  BY <1>4, <1>7, <1>8, WentTo, KeepsMoves
<1>10. MicPhase(th)'
  BY <1>2, <1>3, <1>4, <1>7, <1>8, <1>9, SMT DEF MicPhase, SysStarts, SysStops
<1>11. SysPhase(th)'
  <2>1. CASE Sys(th) = None
    BY <1>6, <1>9, <2>1, SMT DEF SysPhase
  <2>2. CASE Sys(th) # None
    <3>1. PICK s \in SysTaps : s = Sys(th) /\ s \in Taps \ {t}
      BY <1>2, <2>2, FrameTyped, SMT DEF CalmInv, Sys, Taps
    <3>2. ~tap[s].running /\ Off(s) /\ active # s
      BY <1>1, <2>2, <3>1, AtWork, SMT DEF SysPhase
    <3> QED BY <1>4, <1>7, <1>9, <3>1, <3>2, SMT DEF SysPhase, Off
  <2> QED BY <2>1, <2>2
<1>12. label \in LockedLabels
  BY <1>7, SMT DEF LockedLabels, Serialized
<1> QED BY <1>1, <1>2, <1>4, <1>7, <1>8, <1>9, <1>10, <1>11, <1>12, MicStepKeeps

LEMMA MicResultRegistry ==
  ASSUME Calm, CalmInv, NEW th \in Threads, MicResult(th)
  PROVE  Registry'
<1>1. pc[th] = "m_result" /\ pc[th] \in Serialized /\ pc[th] \in LockedLabels /\ pc[th] \in RestartLabels
  BY SMT DEF MicResult, LockedLabels, Serialized, RestartLabels
<1>2. PICK t \in MicTaps : t = Self(th) /\ t \in Taps
  BY <1>1, AtWork, SMT
<1>3. ~tap[t].running /\ (IF frame[th].ok THEN On(t) ELSE Idle(t))
  BY <1>1, <1>2, AtWork, SMT DEF MicPhase
<1>4. UNCHANGED <<active, lock, frame>> /\ TypeOK /\ LinkInv /\ Goto(th, "unlock")
  BY Zenon DEF MicResult, CalmInv, ATInv, Registry
<1>5. LinkInv' /\ Touches(t) /\ Rest(t)'
  <2>1. CASE frame[th].ok
    <3>1. tap' = [tap EXCEPT ![t].running = TRUE] /\ procs' = procs
      BY <1>2, <2>1, Zenon DEF MicResult
    <3>2. /\ tap'[t].io = tap[t].io /\ tap'[t].running = TRUE /\ tap'[t].dev = tap[t].dev
          /\ \A o \in Taps \ {t} : tap'[o] = tap[o]
      BY <1>2, <1>4, <3>1, RunningUpdated
    <3>3. LinkInv' /\ Touches(t) /\ On(t)'
      BY <1>2, <1>3, <1>4, <2>1, <3>1, <3>2, UpdateLinks
    <3> QED BY <3>2, <3>3, SMT DEF Rest
  <2>2. CASE ~frame[th].ok
    <3>1. procs' = Unregistered(tap[t].io) /\ tap' = [tap EXCEPT ![t].io = None]
      BY <1>2, <2>2, Zenon DEF MicResult
    <3>2. /\ tap'[t].io = None /\ tap'[t].running = tap[t].running /\ tap'[t].dev = tap[t].dev
          /\ \A o \in Taps \ {t} : tap'[o] = tap[o]
      BY <1>2, <1>4, <3>1, IoUpdated
    <3>3. LinkInv' /\ Touches(t) /\ Off(t)'
      BY <1>2, <1>4, <3>1, <3>2, UnregisterLinks
    <3> QED BY <1>3, <3>2, <3>3, SMT DEF Rest
  <2> QED BY <2>1, <2>2
<1>6. Moves(th) /\ Self(th)' = Self(th) /\ pc'[th] = "unlock"
  BY <1>4, UnchangedKeeps, KeepsMoves, WentTo
<1>7. MicPhase(th)' /\ SysPhase(th)'
  BY <1>2, <1>5, <1>6, SMT DEF MicPhase, SysPhase, SysStarts, SysStops
<1>8. "unlock" \in LockedLabels
  BY SMT DEF LockedLabels, Serialized
<1> QED BY <1>1, <1>2, <1>4, <1>5, <1>6, <1>7, <1>8, MicStepKeeps

LEMMA MicDeviceStopRegistry ==
  ASSUME Calm, CalmInv, NEW th \in Threads, MicDeviceStop(th)
  PROVE  Registry'
<1>1. pc[th] = "m_halt" /\ pc[th] \in Serialized /\ pc[th] \in LockedLabels /\ pc[th] \in RestartLabels
  BY SMT DEF MicDeviceStop, LockedLabels, Serialized, RestartLabels
<1>2. PICK t \in MicTaps : t = Self(th) /\ t \in Taps
  BY <1>1, AtWork, SMT
<1>3. UNCHANGED <<tap, active, lock, frame>> /\ TypeOK /\ LinkInv /\ Goto(th, "m_free")
      /\ procs' = Stopped(tap[t].io)
  BY <1>2, Zenon DEF MicDeviceStop, CalmInv, ATInv, Registry, shared
<1>4. LinkInv' /\ Touches(t) /\ (~On(t))'
  <2>1. procs' = (IF FALSE THEN Started(tap[t].io) ELSE Stopped(tap[t].io)) /\ tap' = tap
    BY <1>3
  <2>2. LinkInv' /\ Touches(t) /\ (IF tap[t].io = None THEN Off(t)' ELSE Idle(t)')
    BY <1>2, <1>3, <2>1, SwitchLinks
  <2> QED BY <2>2, SMT DEF On, Off, Idle
<1>5. Moves(th) /\ Self(th)' = Self(th) /\ pc'[th] = "m_free"
  BY <1>3, UnchangedKeeps, KeepsMoves, WentTo
<1>6. MicPhase(th)' /\ SysPhase(th)'
  BY <1>2, <1>4, <1>5, SMT DEF MicPhase, SysPhase, SysStarts, SysStops
<1>7. "m_free" \in LockedLabels
  BY SMT DEF LockedLabels, Serialized
<1> QED BY <1>1, <1>2, <1>3, <1>4, <1>5, <1>6, <1>7, MicStepKeeps

LEMMA MicDestroyProcRegistry ==
  ASSUME Calm, CalmInv, NEW th \in Threads, MicDestroyProc(th)
  PROVE  Registry'
<1>1. pc[th] = "m_free" /\ pc[th] \in Serialized /\ pc[th] \in LockedLabels /\ pc[th] \in RestartLabels
  BY SMT DEF MicDestroyProc, LockedLabels, Serialized, RestartLabels
<1>2. PICK t \in MicTaps : t = Self(th) /\ t \in Taps
  BY <1>1, AtWork, SMT
<1>3. UNCHANGED <<active, lock, frame>> /\ TypeOK /\ LinkInv /\ Goto(th, AfterMicStop(th))
      /\ procs' = Unregistered(tap[t].io) /\ tap' = [tap EXCEPT ![t].io = None, ![t].running = FALSE]
  BY <1>2, Zenon DEF MicDestroyProc, CalmInv, ATInv, Registry
<1>4. /\ tap'[t].io = None /\ tap'[t].running = FALSE /\ tap'[t].dev = tap[t].dev
      /\ \A o \in Taps \ {t} : tap'[o] = tap[o]
  BY <1>2, <1>3, StoppedUpdated
<1>5. LinkInv' /\ Touches(t) /\ Off(t)'
  BY <1>2, <1>3, <1>4, UnregisterLinks
<1>6. AfterMicStop(th) \in {"h_switch", "unlock"}
  BY Zenon DEF AfterMicStop
<1>7. Moves(th) /\ Self(th)' = Self(th) /\ pc'[th] \in {"h_switch", "unlock"}
  BY <1>3, <1>6, UnchangedKeeps, KeepsMoves, WentTo
<1>8. MicPhase(th)' /\ SysPhase(th)'
  BY <1>2, <1>4, <1>5, <1>7, SMT DEF MicPhase, SysPhase, SysStarts, SysStops, Rest
<1>9. AfterMicStop(th) \in LockedLabels
  BY <1>6, SMT DEF LockedLabels, Serialized
<1> QED BY <1>1, <1>2, <1>3, <1>5, <1>7, <1>8, <1>9, MicStepKeeps

LEMMA HandlerDeviceRegistry ==
  ASSUME Calm, CalmInv, NEW th \in Threads, HandlerDevice(th)
  PROVE  Registry'
<1>1. pc[th] = "h_device" /\ pc[th] \in Serialized /\ pc[th] \in LockedLabels
  BY SMT DEF HandlerDevice, LockedLabels, Serialized
<1>2. PICK t \in MicTaps : t = Self(th) /\ t \in Taps
  BY <1>1, AtWork, SMT
<1>3. Rest(t)
  BY <1>1, <1>2, AtWork, SMT DEF MicPhase
<1>4. UNCHANGED <<tap, procs, active, lock>> /\ TypeOK /\ LinkInv
  BY Zenon DEF HandlerDevice, CalmInv, ATInv, Registry, shared, hal
<1>5. LinkInv' /\ Touches(t) /\ Rest(t)'
  BY <1>3, <1>4, SMT DEF LinkInv, Touches, Source, Rest, On, Off
<1>6. CASE Goto(th, "unlock") /\ UNCHANGED frame
  <2>1. Moves(th) /\ Self(th)' = Self(th) /\ pc'[th] = "unlock"
    BY <1>4, <1>6, UnchangedKeeps, KeepsMoves, WentTo
  <2>2. MicPhase(th)' /\ SysPhase(th)'
    BY <1>2, <1>5, <2>1, SMT DEF MicPhase, SysPhase, SysStarts, SysStops
  <2>3. "unlock" \in LockedLabels /\ ~Restarting(th)'
    BY <2>1, SMT DEF LockedLabels, Serialized, Restarting, RestartLabels
  <2> QED BY <1>1, <1>2, <1>4, <1>5, <1>6, <2>1, <2>2, <2>3, MicStepKeeps
<1>7. CASE /\ frame' = [frame EXCEPT ![th].dev = default_dev, ![th].was = tap[Self(th)].running]
           /\ Goto(th, IF tap[t].running THEN "m_halt" ELSE "h_switch")
  <2>1. PICK label : label = (IF tap[t].running THEN "m_halt" ELSE "h_switch")
    OBVIOUS
  <2>2. /\ Goto(th, label) /\ label \in {"m_halt", "h_switch"} /\ (label = "m_halt" <=> tap[t].running)
    BY <1>7, <2>1, Zenon
  <2>3. frame'[th] = [frame[th] EXCEPT !.dev = default_dev, !.was = tap[t].running]
        /\ \A other \in Threads \ {th} : frame'[other] = frame[other]
    BY <1>2, <1>4, <1>7, Zenon DEF TypeOK
  <2>4. frame[th] \in FrameRecord
    BY <1>4, Zenon DEF TypeOK
  <2>5. frame'[th].tap = frame[th].tap /\ frame'[th].was = tap[t].running
    BY <2>3, <2>4, SMT DEF FrameRecord
  <2>6. Moves(th) /\ Self(th)' = Self(th) /\ pc'[th] = label
    BY <1>4, <2>2, <2>3, <2>5, WentTo, SMT DEF Moves, Self
  <2>7. MicPhase(th)' /\ SysPhase(th)'
    BY <1>2, <1>4, <1>5, <2>2, <2>6, SMT DEF MicPhase, SysPhase, SysStarts, SysStops, Rest
  <2>8. label \in LockedLabels /\ (~tap[t].running => ~Restarting(th)' /\ ~tap'[t].running)
    BY <1>4, <2>2, <2>5, <2>6, SMT DEF LockedLabels, Serialized, Restarting, RestartLabels
  <2> QED BY <1>1, <1>2, <1>4, <1>5, <2>2, <2>6, <2>7, <2>8, MicStepKeeps
<1> QED BY <1>2, <1>6, <1>7, Zenon DEF HandlerDevice

LEMMA HandlerSwitchRegistry ==
  ASSUME Calm, CalmInv, NEW th \in Threads, HandlerSwitch(th)
  PROVE  Registry'
<1>1. pc[th] = "h_switch" /\ pc[th] \in Serialized /\ pc[th] \in LockedLabels
  BY SMT DEF HandlerSwitch, LockedLabels, Serialized
<1>2. PICK t \in MicTaps : t = Self(th) /\ t \in Taps
  BY <1>1, AtWork, SMT
<1>3. ~tap[t].running /\ Off(t)
  BY <1>1, <1>2, AtWork, SMT DEF MicPhase
<1>4. UNCHANGED <<procs, active, lock, frame>> /\ TypeOK /\ LinkInv
      /\ tap' = [tap EXCEPT ![t].dev = frame[th].dev]
  BY <1>2, Zenon DEF HandlerSwitch, CalmInv, ATInv, Registry, hal
<1>5. /\ tap'[t].io = tap[t].io /\ tap'[t].running = tap[t].running
      /\ \A o \in Taps \ {t} : tap'[o] = tap[o]
  BY <1>2, <1>4, DevUpdated
<1>6. LinkInv' /\ Touches(t) /\ Off(t)'
  BY <1>2, <1>3, <1>4, <1>5, UpdateLinks
<1>7. PICK label : label = (IF frame[th].was THEN "m_create" ELSE "unlock")
  OBVIOUS
<1>8. Goto(th, label) /\ label \in {"m_create", "unlock"} /\ (label = "m_create" => frame[th].was)
  BY <1>7, Zenon DEF HandlerSwitch
<1>9. Moves(th) /\ Self(th)' = Self(th) /\ pc'[th] = label
  BY <1>4, <1>8, UnchangedKeeps, KeepsMoves, WentTo
<1>10. MicPhase(th)' /\ SysPhase(th)'
  BY <1>2, <1>3, <1>5, <1>6, <1>8, <1>9, SMT DEF MicPhase, SysPhase, SysStarts, SysStops, Rest
<1>11. label \in LockedLabels
  BY <1>8, SMT DEF LockedLabels, Serialized
<1>12. ~tap[t].running /\ ~Restarting(th) => ~Restarting(th)' /\ ~tap'[t].running
  BY <1>1, <1>5, <1>8, <1>9, SMT DEF Restarting, RestartLabels, LockedLabels, Serialized
<1> QED BY <1>1, <1>2, <1>4, <1>6, <1>8, <1>9, <1>10, <1>11, <1>12, MicStepKeeps

-----------------------------------------------------------------------------
(* Registry: taking and releasing the mutex.                               *)

LEMMA LockRegistry ==
  ASSUME Calm, CalmInv, NEW th \in Threads, Lock(th)
  PROVE  Registry'
<1>1. PICK t \in MicTaps : t = Self(th) /\ t \in Taps
  BY SMT DEF Lock, CalmInv, ATInv, CallInv, MicLabels, Taps
<1>2. /\ pc[th] = "lock" /\ lock[t] = None /\ lock' = [lock EXCEPT ![t] = th]
      /\ UNCHANGED <<tap, active, procs, frame>> /\ TypeOK
  BY <1>1, Zenon DEF Lock, hal, CalmInv, ATInv
<1>3. th # None /\ Caller \notin MicTaps /\ Caller \in Threads /\ MicTaps \subseteq Threads
      /\ th \in MicTaps \cup {Caller}
  BY AudioTapAssumption, SMT DEF Threads, Taps
<1>4. ThreadFits(th)
  BY DEF CalmInv, CallShape
<1>5. frame[th].op \in {"start", "stop", "destroy", "handler"}
  BY <1>2, <1>4, SMT DEF ThreadFits, Fits, OpFits
<1>6. PICK label \in {"m_create", "h_device", "m_halt"} :
        Goto(th, label) /\ (label = "m_create" <=> frame[th].op = "start")
                        /\ (label = "h_device" <=> frame[th].op = "handler")
  BY <1>5, SMT DEF Lock
<1>7. pc'[th] = label /\ \A o \in Threads \ {th} : pc'[o] = pc[o]
  BY <1>2, <1>6, WentTo
<1>8. Rest(t)
  BY <1>2, Zenon DEF CalmInv, Registry, MicRest
<1>9. label = "m_create" => ~tap[t].running /\ Off(t)
  <2> SUFFICES ASSUME label = "m_create" PROVE ~tap[t].running /\ Off(t)
    OBVIOUS
  <2>1. th = Caller
    BY <1>2, <1>3, <1>4, <1>6, SMT DEF ThreadFits
  <2>2. CallerWaits(t)
    BY <1>1, <1>2, <1>6, <2>1, Zenon DEF CallerWaits
  <2>3. ~tap[t].running
    BY <2>2, Zenon DEF CalmInv, Registry, WaitInv
  <2> QED BY <1>8, <2>3, Zenon DEF Rest
<1>10. MicPhase(th)' /\ SysPhase(th)'
  BY <1>1, <1>2, <1>7, <1>8, <1>9, SMT DEF MicPhase, SysPhase, SysStarts, SysStops, Self, Rest, On, Off
<1>11. ASSUME NEW o \in Threads \ {th} PROVE MicPhase(o)' /\ SysPhase(o)'
  <2>1. MicPhase(o) /\ SysPhase(o)
    BY DEF CalmInv, Registry
  <2>2. pc'[o] = pc[o]
    BY <1>7
  <2> QED BY <1>2, <2>1, <2>2, SMT DEF MicPhase, SysPhase, Self, Sys, Rest, On, Off, Idle
<1>12. MicRest'
  <2> SUFFICES ASSUME NEW m \in MicTaps, lock'[m] = None PROVE Rest(m)'
    BY DEF MicRest
  <2>1. lock[m] = None
    BY <1>2, <1>3, SMT DEF TypeOK
  <2>2. Rest(m)
    BY <2>1, Zenon DEF CalmInv, Registry, MicRest
  <2> QED BY <1>2, <2>2, SMT DEF Rest, On, Off
<1>13. SysRest'
  <2> SUFFICES ASSUME NEW s \in SysTaps, Untouched(s)' PROVE AtPeace(s)'
    BY DEF SysRest
  <2>1. Untouched(s)
    BY <1>2, <1>7, SMT DEF Untouched, Sys, SysCode, SysStarts, SysStops
  <2>2. AtPeace(s)
    BY <2>1, Zenon DEF CalmInv, Registry, SysRest
  <2> QED BY <1>2, <2>2, SMT DEF AtPeace, Rest, On, Off
<1>14. WaitInv'
  <2> SUFFICES ASSUME NEW m \in MicTaps, CallerWaits(m)' PROVE (~tap[m].running /\ ~Restarting(m))'
    BY DEF WaitInv
  <2>1. th # Caller
    BY <1>7, SMT DEF CallerWaits
  <2>2. CallerWaits(m)
    BY <1>2, <1>3, <1>7, <2>1, SMT DEF CallerWaits, Self
  <2>3. ~tap[m].running /\ ~Restarting(m)
    BY <2>2 DEF CalmInv, Registry, WaitInv
  <2>4. label = "h_device"
    BY <1>2, <1>3, <1>4, <1>6, <2>1, SMT DEF ThreadFits
  <2>5. pc'[m] = pc[m] \/ pc'[m] = "h_device"
    BY <1>3, <1>7, <2>4, SMT
  <2> QED BY <1>2, <2>3, <2>5, SMT DEF Restarting, RestartLabels
<1>15. LinkInv'
  BY <1>2, SMT DEF CalmInv, Registry, LinkInv, Source
<1> QED BY <1>10, <1>11, <1>12, <1>13, <1>14, <1>15 DEF Registry

LEMMA UnlockRegistry ==
  ASSUME Calm, CalmInv, NEW th \in Threads, Unlock(th)
  PROVE  Registry'
<1>1. pc[th] = "unlock" /\ pc[th] \in LockedLabels
  BY SMT DEF Unlock, LockedLabels, Serialized
<1>2. PICK t \in MicTaps : t = Self(th) /\ t \in Taps /\ t \notin SysTaps
  BY <1>1, AtWork, SMT DEF Serialized
<1>3. lock' = [lock EXCEPT ![t] = None] /\ UNCHANGED <<tap, active, procs, frame>> /\ TypeOK
  BY <1>2, Zenon DEF Unlock, hal, CalmInv, ATInv
<1>4. PICK label \in {"return", "d_unlisten"} : Goto(th, label)
  BY <1>2, Zenon DEF Unlock, AfterStop, DestroyBegin
<1>5. pc'[th] = label /\ \A o \in Threads \ {th} : pc'[o] = pc[o]
  BY <1>3, <1>4, WentTo
<1>6. Rest(t)
  BY <1>1, <1>2, AtWork, SMT DEF MicPhase
<1>7. MicPhase(th)' /\ SysPhase(th)'
  BY <1>5, SMT DEF MicPhase, SysPhase, SysStarts, SysStops
<1>8. ASSUME NEW o \in Threads \ {th} PROVE MicPhase(o)' /\ SysPhase(o)'
  <2>1. MicPhase(o) /\ SysPhase(o)
    BY DEF CalmInv, Registry
  <2>2. pc'[o] = pc[o]
    BY <1>5
  <2> QED BY <1>3, <2>1, <2>2, SMT DEF MicPhase, SysPhase, Self, Sys, Rest, On, Off, Idle
<1>9. MicRest'
  <2> SUFFICES ASSUME NEW m \in MicTaps, lock'[m] = None PROVE Rest(m)'
    BY DEF MicRest
  <2>1. Rest(m)
    BY <1>3, <1>6, SMT DEF TypeOK, CalmInv, Registry, MicRest
  <2> QED BY <1>3, <2>1, SMT DEF Rest, On, Off
<1>10. SysRest'
  <2> SUFFICES ASSUME NEW s \in SysTaps, Untouched(s)' PROVE AtPeace(s)'
    BY DEF SysRest
  <2>1. Untouched(s)
    BY <1>1, <1>3, <1>5, SMT DEF Untouched, Sys, SysCode, SysStarts, SysStops
  <2>2. AtPeace(s)
    BY <2>1, Zenon DEF CalmInv, Registry, SysRest
  <2> QED BY <1>3, <2>2, SMT DEF AtPeace, Rest, On, Off
<1>11. WaitInv'
  <2> SUFFICES ASSUME NEW m \in MicTaps, CallerWaits(m)' PROVE (~tap[m].running /\ ~Restarting(m))'
    BY DEF WaitInv
  <2>1. Caller \in Threads /\ m \in Threads
    BY SMT DEF Threads
  <2>2. CallerWaits(m)
    BY <1>3, <1>5, <2>1, SMT DEF CallerWaits, Self
  <2>3. ~tap[m].running /\ ~Restarting(m)
    BY <2>2 DEF CalmInv, Registry, WaitInv
  <2>4. pc'[m] = pc[m] \/ pc'[m] \in {"return", "d_unlisten"}
    BY <1>5, <2>1, SMT
  <2> QED BY <1>3, <2>3, <2>4, SMT DEF Restarting, RestartLabels, LockedLabels, Serialized
<1>12. LinkInv'
  BY <1>3, SMT DEF CalmInv, Registry, LinkInv, Source
<1> QED BY <1>7, <1>8, <1>9, <1>10, <1>11, <1>12 DEF Registry

-----------------------------------------------------------------------------
(* Registry: the steps outside the code with a mutex held.                 *)

\* The start or stop of a system tap: nobody else is in the library.
LEMMA SysEnter ==
  ASSUME CalmInv, NEW th \in Threads, pc[th] \notin SysCode, Self(th) \in SysTaps,
         UNCHANGED <<tap, procs, active, lock, frame>>, NEW label, Goto(th, label),
         \/ label = "s_create" /\ ~tap[Self(th)].running
         \/ label = "x_halt" /\ tap[Self(th)].running
  PROVE  Registry'
<1>1. PICK t \in SysTaps : t = Self(th)
  OBVIOUS
<1>2. Sys(th) = t
  BY <1>1, SMT DEF CalmInv, CallShape, ThreadFits, Fits, TapFits, Self, Sys
<1>3. /\ MicTaps \cap SysTaps = {} /\ th = Caller /\ \A m \in MicTaps : pc[m] = "ready"
      /\ Caller \notin MicTaps
  BY OnlyCaller, AudioTapAssumption, SMT DEF CalmInv, Taps
<1>4. pc'[th] = label /\ \A o \in Threads \ {th} : pc'[o] = pc[o] /\ pc[o] = "ready"
  BY <1>3, WentTo, SMT DEF CalmInv, ATInv, Threads
<1>5. \A s \in SysTaps : AtPeace(s)
  <2>1. \A o \in Threads : pc[o] \notin SysCode
    BY <1>4, SMT DEF SysCode, SysStarts, SysStops
  <2> QED BY <2>1, Zenon DEF CalmInv, Registry, SysRest, Untouched
<1>6. MicPhase(th)' /\ SysPhase(th)'
  <2>1. AtPeace(t)
    BY <1>5
  <2>2. ~(Self(th) \in MicTaps) /\ Self(th)' = t /\ Sys(th)' = t /\ t \notin MicTaps
    BY <1>1, <1>2, <1>3, SMT DEF Self, Sys
  <2>3. MicPhase(th)'
    BY <1>4, <2>2, SMT DEF MicPhase, SysStarts, SysStops
  <2>4. CASE label = "s_create" /\ ~tap[t].running
    <3>1. (~tap[t].running /\ Off(t) /\ active # t)'
      BY <2>1, <2>4, SMT DEF AtPeace, Rest, Off
    <3> QED BY <1>4, <2>2, <2>3, <2>4, <3>1, SMT DEF SysPhase, Sys, Off, SysStarts, SysStops
  <2>5. CASE label = "x_halt" /\ tap[t].running
    <3>1. (tap[t].running /\ On(t))'
      BY <2>1, <2>5, SMT DEF AtPeace, Rest, On
    <3> QED BY <1>4, <2>2, <2>3, <2>5, <3>1, SMT DEF SysPhase, Sys, On, SysStarts, SysStops
  <2> QED BY <1>1, <2>3, <2>4, <2>5
<1>7. ASSUME NEW o \in Threads \ {th} PROVE MicPhase(o)' /\ SysPhase(o)'
  BY <1>4, SMT DEF MicPhase, SysPhase, SysStarts, SysStops
<1>8. LinkInv' /\ MicRest'
  BY SMT DEF CalmInv, Registry, LinkInv, Source, MicRest, Rest, On, Off
<1>9. SysRest'
  BY <1>5, SMT DEF SysRest, AtPeace, Rest, On, Off
<1>10. WaitInv'
  BY <1>3, <1>4, SMT DEF WaitInv, CallerWaits
<1> QED BY <1>6, <1>7, <1>8, <1>9, <1>10 DEF Registry

\* A step outside that touches no field of a tap that matters here.
LEMMA PlainStep ==
  ASSUME CalmInv, NEW th \in Threads, NEW label, Goto(th, label), UNCHANGED <<active, lock, procs>>,
         \A o \in Threads \ {th} : frame'[o] = frame[o],
         pc[th] \notin LockedLabels, label \notin LockedLabels, label # "lock" \/ th # Caller,
         \A t \in Taps : /\ tap'[t].running = tap[t].running /\ tap'[t].io = tap[t].io
                         /\ Off(t) \/ tap'[t].dev = tap[t].dev
  PROVE  Registry'
<1>1. pc'[th] = label /\ Moves(th)
  BY WentTo, Zenon DEF Moves, CalmInv, ATInv
<1>2. \A m \in MicTaps : CallerWaits(m)' => CallerWaits(m)
  BY <1>1, SMT DEF CallerWaits, Moves, Self, Threads
<1> QED BY <1>1, <1>2, OutsideStep

LEMMA StartRegistry ==
  ASSUME Calm, CalmInv, NEW th \in Threads, Start(th)
  PROVE  Registry'
<1>1. pc[th] = "start" /\ UNCHANGED <<tap, procs, active, lock, frame>> /\ pc[th] \notin LockedLabels
      /\ pc[th] \notin SysCode
  BY SMT DEF Start, Jump, shared, hal, LockedLabels, Serialized, SysCode, SysStarts, SysStops
<1>2. PICK t \in Taps : t = Self(th)
  BY <1>1, SMT DEF CalmInv, ATInv, CallInv
<1>3. CASE tap[t].running
  <2>1. Goto(th, "return")
    BY <1>2, <1>3, Zenon DEF Start, Jump
  <2>2. "return" \notin LockedLabels
    BY SMT DEF LockedLabels, Serialized
  <2> QED BY <1>1, <2>1, <2>2, PlainStep
<1>4. CASE ~tap[t].running /\ t \in SysTaps
  <2>1. Goto(th, "s_create")
    BY <1>2, <1>4, Zenon DEF Start, Jump
  <2> QED BY <1>1, <1>2, <1>4, <2>1, SysEnter
<1>5. CASE ~tap[t].running /\ t \notin SysTaps
  <2>1. Goto(th, "lock")
    BY <1>2, <1>5, Zenon DEF Start, Jump
  <2>2. t \in MicTaps /\ Caller \notin MicTaps /\ "lock" \notin LockedLabels /\ Caller \in Threads
    BY <1>5, AudioTapAssumption, SMT DEF Taps, LockedLabels, Serialized, Threads
  <2>3. pc'[th] = "lock" /\ Moves(th)
    BY <1>1, <2>1, WentTo, Zenon DEF Moves, CalmInv, ATInv
  <2>4. th = Caller
    BY <1>1, SMT DEF CalmInv, CallShape, ThreadFits, Fits, OpFits, Threads
  <2>5. pc[t] = "ready"
    BY <1>1, <2>2, <2>4, SMT DEF CalmInv, CallShape, OverlapInv, Quiet
  <2>6. ~Restarting(t)
    BY <2>5, SMT DEF Restarting, RestartLabels, LockedLabels, Serialized
  <2>7. \A m \in MicTaps : CallerWaits(m)' => CallerWaits(m) \/ (~tap[m].running /\ ~Restarting(m))
    BY <1>1, <1>2, <1>5, <2>4, <2>6, SMT DEF CallerWaits, Self
  <2> QED BY <1>1, <2>2, <2>3, <2>7, OutsideStep
<1> QED BY <1>3, <1>4, <1>5

LEMMA StopRegistry ==
  ASSUME Calm, CalmInv, NEW th \in Threads, Stop(th)
  PROVE  Registry'
<1>1. pc[th] = "stop" /\ UNCHANGED <<tap, procs, active, lock, frame>> /\ pc[th] \notin LockedLabels
      /\ pc[th] \notin SysCode
  BY SMT DEF Stop, Jump, shared, hal, LockedLabels, Serialized, SysCode, SysStarts, SysStops
<1>2. PICK t \in Taps : t = Self(th)
  BY <1>1, SMT DEF CalmInv, ATInv, CallInv
<1>3. CASE ~tap[t].running
  <2>1. PICK label \in {"return", "d_aggregate", "d_unlisten"} : Goto(th, label)
    BY <1>2, <1>3, Zenon DEF Stop, Jump, AfterStop, DestroyBegin
  <2>2. label \notin LockedLabels /\ label # "lock"
    BY SMT DEF LockedLabels, Serialized
  <2> QED BY <1>1, <2>1, <2>2, PlainStep
<1>4. CASE tap[t].running /\ t \in SysTaps
  <2>1. Goto(th, "x_halt")
    BY <1>2, <1>4, Zenon DEF Stop, Jump
  <2> QED BY <1>1, <1>2, <1>4, <2>1, SysEnter
<1>5. CASE tap[t].running /\ t \notin SysTaps
  <2>1. Goto(th, "lock")
    BY <1>2, <1>5, Zenon DEF Stop, Jump
  <2>2. pc'[th] = "lock" /\ Moves(th) /\ "lock" \notin LockedLabels
    BY <1>1, <2>1, WentTo, SMT DEF Moves, CalmInv, ATInv, LockedLabels, Serialized
  <2>3. frame[th].op \in {"stop", "destroy"}
    BY <1>1, SMT DEF CalmInv, CallShape, ThreadFits, Fits, OpFits
  <2>4. \A m \in MicTaps : CallerWaits(m)' => CallerWaits(m)
    BY <1>1, <2>2, <2>3, SMT DEF CallerWaits, Self, Moves, Threads
  <2> QED BY <1>1, <2>2, <2>4, OutsideStep
<1> QED BY <1>3, <1>4, <1>5

\* The labels that a step outside the code with a mutex starts from and leads to.
OutsideLabels == Labels \ (LockedLabels \cup {"lock"})

\* The steps that change no field of a tap.
LEMMA IdleStep ==
  ASSUME CalmInv, NEW th \in Threads, NEW label \in OutsideLabels, Goto(th, label),
         pc[th] \in OutsideLabels, UNCHANGED <<tap, active, lock, procs>>,
         \A o \in Threads \ {th} : frame'[o] = frame[o]
  PROVE  Registry'
BY PlainStep, Zenon DEF OutsideLabels

\* The steps that leave even those variables alone.
LEMMA RegistryFrame ==
  ASSUME Registry, UNCHANGED <<tap, active, lock, procs, pc, frame>>
  PROVE  Registry'
<1>1. LinkInv' /\ MicRest'
  BY SMT DEF Registry, LinkInv, Source, MicRest, Rest, On, Off
<1>2. SysRest'
  BY SMT DEF Registry, SysRest, Untouched, Sys, AtPeace, Rest, On, Off
<1>3. WaitInv'
  BY SMT DEF Registry, WaitInv, CallerWaits, Self, Restarting
<1>4. ASSUME NEW th \in Threads PROVE MicPhase(th)' /\ SysPhase(th)'
  <2>1. MicPhase(th) /\ SysPhase(th)
    BY DEF Registry
  <2> QED BY <2>1, SMT DEF MicPhase, SysPhase, Self, Sys, Rest, On, Off, Idle
<1> QED BY <1>1, <1>2, <1>3, <1>4 DEF Registry

LEMMA CreateStepRegistry ==
  ASSUME CalmInv, NEW th \in Threads, CreateStep(th)
  PROVE  Registry'
<1>1. TypeOK /\ {"c_tap", "c_aggregate", "c_alloc", "c_device", "c_listen", "return", "d_tap", "d_aggregate"}
                   \subseteq OutsideLabels
  BY SMT DEF OutsideLabels, Labels, LockedLabels, Serialized, CalmInv, ATInv
<1>2. ThreadFits(th) /\ ThreadLife(th) /\ TapLife
  BY DEF CalmInv, CallShape, Lifetimes
<1>3. CASE CreateTap(th) \/ CreateAggregate(th) \/ Listen(th)
  <2>1. /\ pc[th] \in {"c_tap", "c_aggregate", "c_listen"} /\ UNCHANGED <<tap, active, lock, procs>>
        /\ \E label \in {"return", "c_aggregate", "c_alloc", "d_tap"} : Goto(th, label)
        /\ Failed(th) \/ UNCHANGED frame
    BY <1>3, SMT DEF CreateTap, CreateAggregate, Listen, shared
  <2>2. \A o \in Threads \ {th} : frame'[o] = frame[o]
    BY <1>1, <2>1, FailedKeeps, UnchangedKeeps DEF FramesKeep
  <2> QED BY <1>1, <2>1, <2>2, IdleStep, Zenon
<1>4. CASE CreateAlloc(th) \/ CreateMic(th)
  <2>1. /\ pc[th] \in {"c_alloc", "c_device"} /\ UNCHANGED <<active, lock, procs>>
        /\ \E label \in {"return", "d_aggregate", "c_listen"} : Goto(th, label)
        /\ Failed(th) \/ UNCHANGED frame
    BY <1>4, SMT DEF CreateAlloc, CreateMic, hal
  <2>2. \A o \in Threads \ {th} : frame'[o] = frame[o]
    BY <1>1, <2>1, FailedKeeps, UnchangedKeeps DEF FramesKeep
  <2>3. PICK t \in Taps : t = Self(th)
    BY <1>2, <2>1, SMT DEF ThreadFits, Fits, TapFits, Self, Taps
  <2>4. frame[th].op = "create"
    BY <1>2, <2>1, SMT DEF ThreadFits, Fits, OpFits
  <2>5. Off(t)
    BY <1>2, <2>1, <2>3, <2>4, SMT DEF ThreadLife, TapLife, Live, Off
  <2>6. \/ tap' = tap
        \/ tap' = [tap EXCEPT ![t].life = "live"]
        \/ tap' = [tap EXCEPT ![t].life = "live", ![t].dev = default_dev]
    BY <1>4, <2>3, Zenon DEF CreateAlloc, CreateMic
  <2>7. \A o \in Taps : /\ tap'[o].running = tap[o].running /\ tap'[o].io = tap[o].io
                        /\ Off(o) \/ tap'[o].dev = tap[o].dev
    <3>1. CASE tap' = tap
      BY <3>1
    <3>2. CASE tap' = [tap EXCEPT ![t].life = "live"]
      <4>1. /\ tap'[t].io = tap[t].io /\ tap'[t].running = tap[t].running
            /\ \A o \in Taps \ {t} : tap'[o] = tap[o]
        BY <1>1, <3>2, LifeUpdated
      <4> QED BY <2>5, <4>1, SMT
    <3>3. CASE tap' = [tap EXCEPT ![t].life = "live", ![t].dev = default_dev]
      <4>1. /\ tap'[t].io = tap[t].io /\ tap'[t].running = tap[t].running
            /\ \A o \in Taps \ {t} : tap'[o] = tap[o]
        BY <1>1, <3>3, CreatedUpdated
      <4> QED BY <2>5, <4>1, SMT
    <3> QED BY <2>6, <3>1, <3>2, <3>3
  <2>8. pc[th] \in OutsideLabels /\ \E label \in OutsideLabels : Goto(th, label)
    BY <1>1, <2>1, SMT
  <2> QED BY <2>1, <2>2, <2>7, <2>8, PlainStep, Zenon DEF OutsideLabels
<1> QED BY <1>3, <1>4 DEF CreateStep

LEMMA DestroyStepRegistry ==
  ASSUME CalmInv, NEW th \in Threads, DestroyStep(th)
  PROVE  Registry'
<1>1. TypeOK /\ {"destroy", "stop", "d_aggregate", "d_tap", "d_unlisten", "d_free", "return"} \subseteq OutsideLabels
  BY SMT DEF OutsideLabels, Labels, LockedLabels, Serialized, CalmInv, ATInv
<1>2. /\ pc[th] \in {"destroy", "d_aggregate", "d_tap", "d_unlisten", "d_free"}
      /\ UNCHANGED <<active, lock, procs, frame>>
      /\ \E label \in {"stop", "d_aggregate", "d_tap", "d_unlisten", "d_free", "return"} : Goto(th, label)
  BY Zenon DEF DestroyStep, Destroy, DestroyBegin, DestroyAggregate, DestroyTap, Unlisten, Free, Jump, shared, hal
<1>3. CASE UNCHANGED tap
  BY <1>1, <1>2, <1>3, IdleStep, Zenon
<1>4. CASE pc[th] = "d_free" /\ tap' = [tap EXCEPT ![Self(th)].life = "freed"]
  <2>1. PICK t \in Taps : t = Self(th)
    BY <1>4, SMT DEF CalmInv, CallShape, ThreadFits, Fits, TapFits, Self
  <2>2. /\ tap'[t].io = tap[t].io /\ tap'[t].running = tap[t].running /\ tap'[t].dev = tap[t].dev
        /\ \A o \in Taps \ {t} : tap'[o] = tap[o]
    BY <1>1, <1>4, <2>1, LifeUpdated
  <2>3. \A o \in Taps : /\ tap'[o].running = tap[o].running /\ tap'[o].io = tap[o].io
                        /\ Off(o) \/ tap'[o].dev = tap[o].dev
    BY <2>2, SMT
  <2>4. pc[th] \in OutsideLabels /\ \E label \in OutsideLabels : Goto(th, label)
    BY <1>1, <1>2, SMT
  <2> QED BY <1>2, <2>3, <2>4, PlainStep, Zenon DEF OutsideLabels
<1> QED BY <1>3, <1>4, Zenon DEF DestroyStep, Destroy, DestroyAggregate, DestroyTap, Unlisten, Free, Jump, shared

LEMMA NextRegistry ==
  ASSUME Calm, CalmInv, [Next]_vars
  PROVE  Registry'
<1>1. CASE \E c \in Calls : Call(c[1], c[2])
  <2>1. PICK c \in Calls : Call(c[1], c[2])
    BY <1>1
  <2>2. c[1] \in Functions
    BY AudioTapAssumption, SMT
  <2>3. /\ pc[Caller] = "ready" /\ UNCHANGED <<tap, active, lock, procs>> /\ Caller \in Threads
        /\ \E label \in {"c_tap", "c_device", "start", "stop", "destroy", "permission"} : Goto(Caller, label)
    BY <2>1, <2>2, SMT DEF Call, shared, hal, Threads, Functions
  <2>4. {"ready", "c_tap", "c_device", "start", "stop", "destroy", "permission"} \subseteq OutsideLabels
    BY SMT DEF OutsideLabels, Labels, LockedLabels, Serialized
  <2>5. \A o \in Threads \ {Caller} : frame'[o] = frame[o]
    BY <2>1, Zenon DEF Call, CalmInv, ATInv, TypeOK
  <2> QED BY <2>3, <2>4, <2>5, IdleStep, Zenon
<1>2. CASE \E dev \in Devices \cup {None} : DeviceChange(dev)
  BY <1>2, RegistryFrame, SMT DEF DeviceChange, shared, CalmInv
<1>3. CASE \E answer \in {"granted", "denied"} : UserAnswers(answer)
  <2>1. pc[Caller] = "dialog" /\ UNCHANGED <<tap, active, lock, procs, frame>> /\ Caller \in Threads
        /\ Goto(Caller, "return")
    BY <1>3, SMT DEF UserAnswers, shared, Threads
  <2>2. {"dialog", "return"} \subseteq OutsideLabels
    BY SMT DEF OutsideLabels, Labels, LockedLabels, Serialized
  <2> QED BY <2>1, <2>2, IdleStep, Zenon
<1>4. CASE \E m \in MicTaps : HandlerBegin(m)
  <2>1. PICK m \in MicTaps : HandlerBegin(m)
    BY <1>4
  <2>2. pc[m] = "ready" /\ UNCHANGED <<tap, active, lock, procs>> /\ m \in Threads /\ m # Caller
        /\ Goto(m, "lock") /\ "ready" \notin LockedLabels /\ "lock" \notin LockedLabels
    BY <2>1, AudioTapAssumption, SMT DEF HandlerBegin, shared, Threads, Taps, LockedLabels, Serialized
  <2>3. \A o \in Threads \ {m} : frame'[o] = frame[o]
    BY <2>1, <2>2, Zenon DEF HandlerBegin, CalmInv, ATInv, TypeOK
  <2> QED BY <2>2, <2>3, PlainStep, Zenon
<1>5. CASE \E th \in Threads : Step(th)
  <2>1. PICK th \in Threads : Step(th)
    BY <1>5
  <2>2. CASE SysStep(th)
    BY <2>2, SysCreateProcRegistry, SysDeviceStartRegistry, SysSetRunningRegistry, SysSetActiveRegistry,
       SysDeviceStopRegistry, SysDestroyProcRegistry, SysClearRunningRegistry, SysClearActiveRegistry
       DEF SysStep
  <2>3. CASE MicStep(th)
    BY <2>3, LockRegistry, UnlockRegistry, HandlerDeviceRegistry, HandlerSwitchRegistry,
       MicDeviceStopRegistry, MicDestroyProcRegistry, MicCreateProcRegistry, MicPermissionRegistry,
       MicFindSysRegistry, MicPauseSysRegistry, MicDeviceStartRegistry, MicResultRegistry
       DEF MicStep
  <2>4. CASE RequestPermission(th)
    <3>1. pc[th] = "permission" /\ UNCHANGED <<tap, active, lock, procs, frame>>
          /\ \E label \in {"dialog", "return"} : Goto(th, label)
      BY <2>4, Zenon DEF RequestPermission, Jump, shared, hal
    <3>2. {"permission", "dialog", "return"} \subseteq OutsideLabels
      BY SMT DEF OutsideLabels, Labels, LockedLabels, Serialized
    <3> QED BY <3>1, <3>2, IdleStep, Zenon
  <2>5. CASE Return(th)
    <3>1. pc[th] = "return" /\ UNCHANGED <<tap, active, lock, procs>> /\ Goto(th, "ready")
      BY <2>5, SMT DEF Return, shared, hal
    <3>2. {"ready", "return"} \subseteq OutsideLabels
      BY SMT DEF OutsideLabels, Labels, LockedLabels, Serialized
    <3>3. \A o \in Threads \ {th} : frame'[o] = frame[o]
      BY <2>5, Zenon DEF Return, CalmInv, ATInv, TypeOK
    <3> QED BY <3>1, <3>2, <3>3, IdleStep, Zenon
  <2> QED BY <2>1, <2>2, <2>3, <2>4, <2>5, StartRegistry, StopRegistry, CreateStepRegistry,
             DestroyStepRegistry DEF Step
<1>6. CASE UNCHANGED vars
  BY <1>6, RegistryFrame, SMT DEF vars, shared, hal, CalmInv
<1> QED BY <1>1, <1>2, <1>3, <1>4, <1>5, <1>6 DEF Next

-----------------------------------------------------------------------------
(* Lifetimes.  A call that creates or destroys a tap has the library for   *)
(* itself; the other steps work on taps that are live.                     *)

LEMMA Alone ==
  ASSUME CalmInv, NEW th \in Threads, frame[th].op \in {"create", "destroy"}
  PROVE  /\ th = Caller /\ pc[Caller] # "ready"
         /\ \A m \in MicTaps : pc[m] = "ready" /\ pending[m] = 0 /\ frame[m] = NoFrame
<1>1. ThreadFits(th)
  BY DEF CalmInv, CallShape
<1>2. pc[th] # "ready"
  BY <1>1, SMT DEF ThreadFits, Fits, OpFits, NoFrame, Frame
<1>3. th = Caller
  BY <1>1, <1>2, SMT DEF ThreadFits, Threads
<1>4. Quiet
  BY <1>2, <1>3, SMT DEF CalmInv, CallShape, OverlapInv
<1>5. \A m \in MicTaps : pc[m] = "ready" /\ pending[m] = 0
  BY <1>4 DEF Quiet
<1>6. \A m \in MicTaps : frame[m] = NoFrame
  BY <1>5, SMT DEF CalmInv, CallShape, ThreadFits, Fits, OpFits, Threads
<1> QED BY <1>2, <1>3, <1>5, <1>6

LEMMA ReadyLife ==
  ASSUME NEW o, pc'[o] = "ready", frame'[o] = NoFrame
  PROVE  ThreadLife(o)'
<1>1. NoFrame.op = "none"
  BY SMT DEF NoFrame, Frame
<1> QED BY <1>1, SMT DEF ThreadLife

\* Only tap t changes, and it neither comes into being nor goes.
Retouched(t) ==
  /\ \A o \in Taps : tap'[o].life = tap[o].life
  /\ \A o \in Taps \ {t} : tap'[o] = tap[o]

LEMMA RetouchedBy ==
  ASSUME TypeOK, NEW t \in Taps, NEW v,
         \/ tap' = tap
         \/ tap' = [tap EXCEPT ![t].io = v]
         \/ tap' = [tap EXCEPT ![t].running = v]
         \/ tap' = [tap EXCEPT ![t].dev = v]
         \/ tap' = [tap EXCEPT ![t].io = None, ![t].running = FALSE]
  PROVE  Retouched(t)
<1>1. CASE tap' = tap
  BY <1>1 DEF Retouched
<1>2. CASE tap' = [tap EXCEPT ![t].io = v]
  <2>1. tap'[t].life = tap[t].life /\ \A o \in Taps \ {t} : tap'[o] = tap[o]
    BY <1>2, IoUpdated
  <2> QED BY <2>1, SMT DEF Retouched
<1>3. CASE tap' = [tap EXCEPT ![t].running = v]
  <2>1. tap'[t].life = tap[t].life /\ \A o \in Taps \ {t} : tap'[o] = tap[o]
    BY <1>3, RunningUpdated
  <2> QED BY <2>1, SMT DEF Retouched
<1>4. CASE tap' = [tap EXCEPT ![t].dev = v]
  <2>1. tap'[t].life = tap[t].life /\ \A o \in Taps \ {t} : tap'[o] = tap[o]
    BY <1>4, DevUpdated
  <2> QED BY <2>1, SMT DEF Retouched
<1>5. CASE tap' = [tap EXCEPT ![t].io = None, ![t].running = FALSE]
  <2>1. tap'[t].life = tap[t].life /\ \A o \in Taps \ {t} : tap'[o] = tap[o]
    BY <1>5, StoppedUpdated
  <2> QED BY <2>1, SMT DEF Retouched
<1> QED BY <1>1, <1>2, <1>3, <1>4, <1>5

\* Where a call is between its creation of a tap and its end.
Middle == LockedLabels \cup {"lock", "start", "stop", "destroy", "permission", "dialog"}

\* A thread at work works on live taps.
LEMMA WorksOnLive ==
  ASSUME CalmInv, NEW th \in Threads, pc[th] \in LockedLabels \cup {"lock", "start", "stop", "destroy"}
  PROVE  /\ Live(Self(th)) /\ frame[th].op \in {"start", "stop", "destroy", "handler"}
         /\ pc[th] \in SysCode \cup {"m_check"} => Live(Sys(th))
<1>1. OpFits(pc[th], frame[th]) /\ TapFits(pc[th], frame[th]) /\ ThreadLife(th)
  BY DEF CalmInv, CallShape, ThreadFits, Fits, Lifetimes
<1>2. frame[th].op \in {"start", "stop", "destroy", "handler"}
  BY <1>1, SMT DEF OpFits, LockedLabels, Serialized, MicStarts, SysStarts, SysStops
<1>3. pc[th] # "return" /\ None \notin SysTaps
  BY AudioTapAssumption, SMT DEF LockedLabels, Serialized, Taps
<1>4. Live(Self(th))
  BY <1>1, <1>2, <1>3, SMT DEF ThreadLife
<1>5. ASSUME pc[th] \in SysCode \cup {"m_check"} PROVE Live(Sys(th))
  <2>1. Sys(th) \in SysTaps
    BY <1>1, <1>5, SMT DEF TapFits, Sys
  <2>2. CASE frame[th].op \in {"start", "handler"}
    BY <1>1, <1>3, <2>1, <2>2, SMT DEF ThreadLife
  <2>3. CASE frame[th].op \in {"stop", "destroy"}
    <3>1. Self(th) \in SysTaps
      BY <1>1, <1>5, <2>3, SMT DEF OpFits, SysCode, SysStarts, SysStops, MicStarts, Self
    <3> QED BY <1>1, <1>4, <3>1, SMT DEF TapFits, Self, Sys
  <2> QED BY <1>2, <2>2, <2>3
<1> QED BY <1>2, <1>4, <1>5

\* A step in the middle of a call.
LEMMA MiddleLife ==
  ASSUME CalmInv, CallShape', NEW th \in Threads, pc[th] \in Middle, Moves(th),
         frame'[th].op = frame[th].op, Self(th)' = Self(th),
         pc'[th] \notin {"d_tap", "d_free"}, UNCHANGED <<objects, listening, pending>>,
         tap' = tap \/ \E t \in Taps : Retouched(t) /\ Live(t),
         active' \in {active, None} \/ \E s \in SysTaps : active' = s /\ Live(s),
         Sys(th)' = Sys(th) \/ Sys(th)' = active,
         \A t \in Taps : frame[th].op = "destroy" /\ t = Self(th)
                         /\ pc'[th] \in {"d_aggregate", "d_unlisten", "unlock"} => ~tap'[t].running
  PROVE  Lifetimes'
<1>1. /\ Caller \in Threads /\ Caller \notin MicTaps /\ None \notin Taps
      /\ MicTaps \subseteq Taps /\ SysTaps \subseteq Taps
  BY AudioTapAssumption, SMT DEF Threads, Taps
<1>2. \A t \in Taps : Live(t)' = Live(t) /\ (Live(t) \/ tap'[t] = tap[t])
  BY SMT DEF Retouched, Live
<1>3. OpFits(pc[th], frame[th]) /\ ThreadLife(th) /\ TapLife
  BY DEF CalmInv, CallShape, ThreadFits, Fits, Lifetimes
<1>4. frame[th].op \in {"start", "stop", "destroy", "handler", "permission"}
  BY <1>3, SMT DEF OpFits, Middle, LockedLabels, Serialized, MicStarts, SysStarts, SysStops
<1>5. pc[th] \notin {"ready", "return", "c_tap", "c_aggregate", "c_alloc", "d_aggregate", "d_tap"}
  BY SMT DEF Middle, LockedLabels, Serialized
<1>6. TapLife'
  <2>1. \A t \in Taps : (tap[t].running \/ tap[t].io # None => Live(t))'
    BY <1>2, <1>3, SMT DEF TapLife
  <2>2. \A m \in MicTaps : ((m \in listening => Live(m)) /\ (pending[m] > 0 => m \in listening))'
    BY <1>1, <1>2, <1>3, SMT DEF TapLife
  <2>3. (active # None => Live(active))'
    <3>1. active \in SysTaps \cup {None}
      BY DEF CalmInv, ATInv, TypeOK
    <3>2. active' = None \/ \E s \in SysTaps : active' = s /\ Live(s)
      BY <1>3, <3>1, SMT DEF TapLife
    <3>3. \A s \in SysTaps : Live(s) => tap'[s].life = "live"
      BY <1>1, <1>2, SMT DEF Live
    <3> QED BY <3>2, <3>3, SMT DEF Live
  <2>4. ASSUME NEW t \in SysTaps PROVE (Live(t) \/ objects[t] = {} \/ Building(t))'
    <3>1. Live(t) \/ objects[t] = {} \/ Building(t)
      BY <1>3, Zenon DEF TapLife
    <3>2. Live(t)' = Live(t)
      BY <1>1, <1>2
    <3>3. Building(t) => Building(t)'
      BY <1>1, <1>5, SMT DEF Moves, Self, Building
    <3> QED BY <3>1, <3>2, <3>3, SMT
  <2> QED BY <2>1, <2>2, <2>3, <2>4 DEF TapLife
<1>7. ThreadLife(th)'
  <2>1. OpFits(pc'[th], frame'[th])
    BY Zenon DEF CallShape, ThreadFits, Fits
  <2>2. PICK u : u = Self(th)
    OBVIOUS
  <2>3. frame[th].op \in {"start", "stop", "destroy", "handler"} => Live(u) /\ u \in Taps
    <3>1. frame[th].op # "permission" => pc[th] \notin {"permission", "dialog"}
      BY <1>3, SMT DEF OpFits
    <3>2. CASE pc[th] \in LockedLabels
      BY <2>2, <3>2, WorksOnLive, LockedTap DEF CalmInv
    <3>3. CASE pc[th] \in {"lock", "start", "stop", "destroy"}
      BY <1>1, <2>2, <3>3, WorksOnLive, SMT DEF CalmInv, ATInv, CallInv, MicLabels
    <3> QED BY <1>4, <3>1, <3>2, <3>3, SMT DEF Middle
  <2>4. PICK s : s = (IF Sys(th)' = Sys(th) THEN Sys(th) ELSE active)
    OBVIOUS
  <2>5. Sys(th)' = s /\ s \in SysTaps \cup {None}
    BY <2>4, FrameTyped, SMT DEF CalmInv, ATInv, TypeOK, Sys
  <2>6. frame[th].op \in {"start", "handler"} /\ s # None => Live(s)
    <3>1. frame[th].op \in {"start", "handler"} /\ Sys(th) # None => Live(Sys(th))
      BY <1>3, Zenon DEF ThreadLife
    <3> QED BY <1>3, <2>4, <3>1, Zenon DEF TapLife
  <2>7. /\ frame'[th].op \in {"start", "stop", "destroy", "handler"} => Live(u)'
        /\ frame'[th].op \in {"start", "handler"} /\ s # None => Live(s)'
    BY <1>1, <1>2, <2>3, <2>5, <2>6, SMT
  <2>8. frame'[th].op = "destroy" /\ pc'[th] \in {"d_aggregate", "d_unlisten", "unlock"} => ~tap'[u].running
    BY <2>2, <2>3, Zenon
  <2>9. pc'[th] \notin {"c_tap", "c_aggregate", "c_alloc", "c_device", "c_listen"} /\ frame'[th].op # "create"
    BY <1>4, <2>1, SMT DEF OpFits
  <2>10. Self(th)' = u
    BY <2>2
  <2> QED BY <2>5, <2>7, <2>8, <2>9, <2>10, SMT DEF ThreadLife, Live
<1>8. ASSUME NEW o \in Threads \ {th} PROVE ThreadLife(o)'
  <2>1. pc'[o] = pc[o] /\ frame'[o] = frame[o]
    BY DEF Moves
  <2>2. OpFits(pc[o], frame[o]) /\ TapFits(pc[o], frame[o]) /\ ThreadLife(o)
    BY DEF CalmInv, CallShape, ThreadFits, Fits, Lifetimes
  <2>3. frame[o].op \notin {"create", "destroy"}
    BY <1>1, <1>5, Alone, SMT DEF Threads
  <2>4. pc[o] \notin {"c_tap", "c_aggregate", "c_alloc", "c_device", "c_listen", "d_tap", "d_free"}
    BY <2>2, <2>3, SMT DEF OpFits
  <2>5. PICK u : u = Self(o)
    OBVIOUS
  <2>6. PICK s \in SysTaps \cup {None} : s = Sys(o)
    BY FrameTyped, SMT DEF CalmInv, Sys
  <2>7. Self(o)' = u /\ Sys(o)' = s
    BY <2>1, <2>5, <2>6 DEF Self, Sys
  <2>8. frame[o].op \in {"start", "stop", "handler"} => Live(u)'
    <3>1. frame[o].op \in {"start", "stop", "handler"} => Live(u) 
      BY <2>2, <2>5, SMT DEF ThreadLife
    <3>2. frame[o].op \in {"start", "stop", "handler"} => u \in Taps
      BY <1>1, <2>2, <2>5, SMT DEF TapFits, Self
    <3> QED BY <1>2, <3>1, <3>2, SMT
  <2>9. frame[o].op \in {"start", "handler"} /\ s # None => Live(s)'
    <3>1. frame[o].op \in {"start", "handler"} /\ s # None => Live(s)
      BY <2>2, <2>6, Zenon DEF ThreadLife
    <3> QED BY <1>1, <1>2, <2>6, <3>1, SMT
  <2> QED BY <2>1, <2>3, <2>4, <2>7, <2>8, <2>9, SMT DEF ThreadLife, Live
<1> QED BY <1>6, <1>7, <1>8 DEF Lifetimes

LEMMA SysStepLife ==
  ASSUME CalmInv, CallShape', NEW th \in Threads, SysStep(th)
  PROVE  Lifetimes'
<1>1. TypeOK
  BY DEF CalmInv, ATInv
<1>2. /\ pc[th] \in SysCode /\ UNCHANGED <<objects, listening, pending>>
      /\ SysFailed(th) \/ UNCHANGED frame
      /\ active' \in {active, None, Sys(th)}
  BY SMT DEF SysStep, SysCreateProc, SysDeviceStart, SysSetRunning, SysSetActive, SysDeviceStop,
     SysDestroyProc, SysClearRunning, SysClearActive, env, hal, shared, SysCode, SysStarts, SysStops
<1>3. pc[th] \in Middle /\ pc[th] \in LockedLabels /\ SysCode \subseteq LockedLabels
  BY <1>2, SMT DEF Middle, LockedLabels, SysCode, SysStarts, SysStops
<1>4. FramesKeep(th)
  BY <1>1, <1>2, SysFailedKeeps, UnchangedKeeps
<1>5. PICK s \in SysTaps : s = Sys(th) /\ Live(s) /\ s \in Taps
  BY <1>2, <1>3, AtWork, WorksOnLive, SMT
<1>6. \/ tap' = tap
      \/ \E v : tap' = [tap EXCEPT ![s].io = v] \/ tap' = [tap EXCEPT ![s].running = v]
  BY <1>5, Zenon DEF SysStep, SysCreateProc, SysDeviceStart, SysSetRunning, SysSetActive, SysDeviceStop,
     SysDestroyProc, SysClearRunning, SysClearActive, shared, Register
<1>7. Retouched(s)
  BY <1>1, <1>5, <1>6, RetouchedBy, Zenon
<1>8. PICK label : /\ Goto(th, label) /\ label \notin {"d_tap", "d_free", "unlock"}
                   /\ label \in {"d_aggregate", "d_unlisten"} => pc[th] = "x_active" /\ tap' = tap
  <2>1. CASE SysClearActive(th)
    <3>1. pc[th] = "x_active" /\ tap' = tap /\ Goto(th, AfterSysStop(th))
      BY <2>1 DEF SysClearActive
    <3>2. AfterSysStop(th) \in {"m_start", "return", "d_aggregate", "d_unlisten"}
      BY Zenon DEF AfterSysStop, AfterStop, DestroyBegin
    <3> QED BY <3>1, <3>2, SMT
  <2>2. CASE ~SysClearActive(th)
    <3>1. \E label \in {"s_start", "s_running", "s_active", "m_result", "return", "x_clear", "x_free", "x_active"} :
             Goto(th, label)
      BY <2>2, Zenon DEF SysStep, SysCreateProc, SysDeviceStart, SysSetRunning, SysSetActive, SysDeviceStop,
         SysDestroyProc, SysClearRunning, AfterSysStart
    <3> QED BY <3>1, SMT
  <2> QED BY <2>1, <2>2
<1>9. pc'[th] = label /\ Moves(th) /\ Self(th)' = Self(th) /\ Sys(th)' = Sys(th)
      /\ frame'[th].op = frame[th].op
  BY <1>1, <1>4, <1>8, WentTo, KeepsMoves, Zenon DEF FramesKeep
<1>10. \A t \in Taps : frame[th].op = "destroy" /\ t = Self(th)
                       /\ pc'[th] \in {"d_aggregate", "d_unlisten", "unlock"} => ~tap'[t].running
  <2> SUFFICES ASSUME frame[th].op = "destroy", pc'[th] \in {"d_aggregate", "d_unlisten", "unlock"}
               PROVE  ~tap'[Self(th)].running
    OBVIOUS
  <2>1. pc[th] = "x_active" /\ tap' = tap
    BY <1>8, <1>9, SMT
  <2>2. OpFits(pc[th], frame[th]) /\ TapFits(pc[th], frame[th])
    BY Zenon DEF CalmInv, CallShape, ThreadFits, Fits
  <2>3. Self(th) = Sys(th)
    BY <2>1, <2>2, SMT DEF OpFits, TapFits, SysStops, Self, Sys
  <2>4. ~tap[Sys(th)].running
    BY <1>3, <2>1, AtWork, SMT DEF SysPhase
  <2> QED BY <2>1, <2>3, <2>4
<1>11. active' \in {active, None} \/ \E o \in SysTaps : active' = o /\ Live(o)
  BY <1>2, <1>5
<1>12. \E t \in Taps : Retouched(t) /\ Live(t)
  BY <1>5, <1>7
<1>13. pc'[th] \notin {"d_tap", "d_free"}
  BY <1>8, <1>9
<1> QED BY <1>2, <1>3, <1>9, <1>10, <1>11, <1>12, <1>13, MiddleLife

LEMMA MicStepLife ==
  ASSUME CalmInv, CallShape', NEW th \in Threads, MicStep(th)
  PROVE  Lifetimes'
<1>1. TypeOK
  BY DEF CalmInv, ATInv
<1>2. /\ pc[th] \in Serialized \cup {"lock"} /\ UNCHANGED <<objects, listening, pending, active>>
  BY SMT DEF MicStep, Lock, Unlock, HandlerDevice, HandlerSwitch, MicDeviceStop, MicDestroyProc,
     MicCreateProc, MicPermission, MicFindSys, MicPauseSys, MicDeviceStart, MicResult, Jump,
     env, hal, shared, Serialized
<1>3. pc[th] \in Middle /\ pc[th] \in LockedLabels \cup {"lock", "start", "stop", "destroy"}
  BY <1>2, SMT DEF Middle, LockedLabels
<1>4. PICK t \in Taps : t = Self(th) /\ Live(t)
  <2>1. Self(th) \in Taps
    BY <1>2, SMT DEF CalmInv, ATInv, CallInv, MicLabels, Taps
  <2> QED BY <1>3, <2>1, WorksOnLive
<1>5. \/ tap' = tap
      \/ \E v : \/ tap' = [tap EXCEPT ![t].io = v] \/ tap' = [tap EXCEPT ![t].running = v]
                \/ tap' = [tap EXCEPT ![t].dev = v]
      \/ tap' = [tap EXCEPT ![t].io = None, ![t].running = FALSE]
  BY <1>4, Zenon DEF MicStep, Lock, Unlock, HandlerDevice, HandlerSwitch, MicDeviceStop, MicDestroyProc,
     MicCreateProc, MicPermission, MicFindSys, MicPauseSys, MicDeviceStart, MicResult, Jump, shared, Register
<1>6. Retouched(t)
  BY <1>1, <1>4, <1>5, RetouchedBy, Zenon
<1>7. /\ \A other \in Threads \ {th} : frame'[other] = frame[other]
      /\ frame'[th].op = frame[th].op /\ frame'[th].tap = frame[th].tap
      /\ frame'[th].sys = frame[th].sys \/ frame'[th].sys = active
  <2>1. CASE UNCHANGED frame \/ Failed(th)
    BY <1>1, <2>1, FailedKeeps, UnchangedKeeps, Zenon DEF FramesKeep
  <2>2. CASE MicFindSys(th)
    BY <2>2, FoundSys DEF CalmInv
  <2>3. CASE frame' = [frame EXCEPT ![th].dev = default_dev, ![th].was = tap[Self(th)].running]
    <3>1. frame'[th] = [frame[th] EXCEPT !.dev = default_dev, !.was = tap[Self(th)].running]
          /\ \A other \in Threads \ {th} : frame'[other] = frame[other]
      BY <1>1, <2>3, Zenon DEF TypeOK
    <3>2. frame[th] \in FrameRecord
      BY <1>1, Zenon DEF TypeOK
    <3> QED BY <3>1, <3>2, SMT DEF FrameRecord
  <2> QED BY <2>1, <2>2, <2>3, Zenon DEF MicStep, Lock, Unlock, HandlerDevice, HandlerSwitch, MicDeviceStop,
      MicDestroyProc, MicCreateProc, MicPermission, MicPauseSys, MicDeviceStart, MicResult, Jump
<1>8. PICK label : /\ Goto(th, label)
                   /\ label \notin {"d_tap", "d_free", "d_aggregate"}
                   /\ \/ label \in LockedLabels \ {"unlock"}
                      \/ ~tap'[t].running
                      \/ pc[th] = "unlock" /\ tap' = tap
                      \/ frame[th].op \in {"start", "handler"}
  <2>1. OpFits(pc[th], frame[th])
    BY Zenon DEF CalmInv, CallShape, ThreadFits, Fits
  <2>2. CASE pc[th] \in {"h_device", "h_switch"} \cup MicStarts
    <3>1. frame[th].op \in {"start", "handler"}
      BY <2>1, <2>2, SMT DEF OpFits
    <3>2. \E label \in {"unlock", "m_halt", "h_switch", "m_create", "m_permission", "m_pause", "m_start", "m_check",
                        "x_halt", "m_result", "s_create"} : Goto(th, label)
      <4>1. pc[th] \notin {"lock", "unlock", "m_halt", "m_free"}
        BY <2>2, SMT DEF MicStarts
      <4> QED BY <4>1, Zenon DEF MicStep, Lock, Unlock, HandlerDevice, HandlerSwitch, MicDeviceStop, MicDestroyProc,
         MicCreateProc, MicPermission, MicFindSys, MicPauseSys, MicDeviceStart, MicResult, Jump
    <3> QED BY <3>1, <3>2, SMT
  <2>3. CASE pc[th] = "lock"
    <3>1. Lock(th)
      BY <2>3, SMT DEF MicStep, Unlock, HandlerDevice, HandlerSwitch, MicDeviceStop, MicDestroyProc,
         MicCreateProc, MicPermission, MicFindSys, MicPauseSys, MicDeviceStart, MicResult, Jump
    <3>2. \E label \in {"m_create", "h_device", "m_halt"} : Goto(th, label)
      BY <3>1, Zenon DEF Lock
    <3> QED BY <3>2, SMT DEF LockedLabels, Serialized
  <2>4. CASE pc[th] = "unlock"
    <3>1. Unlock(th)
      BY <2>4, SMT DEF MicStep, Lock, HandlerDevice, HandlerSwitch, MicDeviceStop, MicDestroyProc,
         MicCreateProc, MicPermission, MicFindSys, MicPauseSys, MicDeviceStart, MicResult, Jump
    <3>2. Self(th) \notin SysTaps
      BY <1>2, <2>4, AudioTapAssumption, SMT DEF CalmInv, ATInv, CallInv, MicLabels, Serialized
    <3>3. tap' = tap /\ \E label \in {"return", "d_unlisten"} : Goto(th, label)
      BY <3>1, <3>2, Zenon DEF Unlock, AfterStop, DestroyBegin
    <3> QED BY <2>4, <3>3, SMT
  <2>5. CASE pc[th] = "m_halt"
    <3>1. MicDeviceStop(th)
      BY <2>5, SMT DEF MicStep, Lock, Unlock, HandlerDevice, HandlerSwitch, MicDestroyProc,
         MicCreateProc, MicPermission, MicFindSys, MicPauseSys, MicDeviceStart, MicResult, Jump
    <3> QED BY <3>1, SMT DEF MicDeviceStop, LockedLabels, Serialized
  <2>6. CASE pc[th] = "m_free"
    <3>1. MicDestroyProc(th)
      BY <2>6, SMT DEF MicStep, Lock, Unlock, HandlerDevice, HandlerSwitch, MicDeviceStop,
         MicCreateProc, MicPermission, MicFindSys, MicPauseSys, MicDeviceStart, MicResult, Jump
    <3>2. tap' = [tap EXCEPT ![t].io = None, ![t].running = FALSE]
          /\ \E label \in {"h_switch", "unlock"} : Goto(th, label)
      BY <1>4, <3>1, Zenon DEF MicDestroyProc, AfterMicStop
    <3>3. ~tap'[t].running
      BY <1>1, <3>2, StoppedUpdated
    <3> QED BY <3>2, <3>3, SMT
  <2> QED BY <1>2, <2>2, <2>3, <2>4, <2>5, <2>6, SMT DEF Serialized, MicStarts
<1>9. pc'[th] = label /\ Moves(th)
  BY <1>1, <1>7, <1>8, WentTo, Zenon DEF Moves
<1>10. Self(th)' = Self(th) /\ (Sys(th)' = Sys(th) \/ Sys(th)' = active)
  BY <1>7, Zenon DEF Self, Sys
<1>11. \A o \in Taps : frame[th].op = "destroy" /\ o = Self(th)
                       /\ pc'[th] \in {"d_aggregate", "d_unlisten", "unlock"} => ~tap'[o].running
  <2> SUFFICES ASSUME frame[th].op = "destroy", pc'[th] \in {"d_aggregate", "d_unlisten", "unlock"}
               PROVE  ~tap'[t].running
    BY <1>4
  <2>1. "d_unlisten" \notin LockedLabels
    BY SMT DEF LockedLabels, Serialized
  <2>2. ~tap'[t].running \/ (pc[th] = "unlock" /\ tap' = tap)
    BY <1>8, <1>9, <2>1, SMT
  <2>3. pc[th] = "unlock" => ~tap[t].running
    BY <1>4, SMT DEF CalmInv, Lifetimes, ThreadLife
  <2> QED BY <2>2, <2>3
<1>12. pc'[th] \notin {"d_tap", "d_free"}
  BY <1>8, <1>9, SMT
<1>13. active' \in {active, None} /\ UNCHANGED <<objects, listening, pending>>
  BY <1>2
<1>14. \E o \in Taps : Retouched(o) /\ Live(o)
  BY <1>4, <1>6
<1> QED BY <1>3, <1>7, <1>9, <1>10, <1>11, <1>12, <1>13, <1>14, MiddleLife

\* The looks at `running', and the wait for the user.
LEMMA LookLife ==
  ASSUME CalmInv, CallShape', NEW th \in Threads, NEW label, Goto(th, label),
         pc[th] \in {"start", "stop", "destroy", "permission", "dialog"},
         UNCHANGED <<tap, active, objects, listening, pending, frame>>,
         label \notin {"d_tap", "d_free"},
         frame[th].op = "destroy" /\ label \in {"d_aggregate", "d_unlisten", "unlock"} => ~tap[Self(th)].running
  PROVE  Lifetimes'
<1>1. pc'[th] = label /\ Moves(th) /\ Self(th)' = Self(th) /\ Sys(th)' = Sys(th)
  BY UnchangedKeeps, WentTo, KeepsMoves, SMT DEF CalmInv, ATInv
<1>2. pc[th] \in Middle
  BY SMT DEF Middle
<1> QED BY <1>1, <1>2, MiddleLife

LEMMA CallLife ==
  ASSUME Calm, CalmInv, CallShape', NEW fun, NEW t, <<fun, t>> \in Calls, Call(fun, t)
  PROVE  Lifetimes'
<1> DEFINE f == Frame(fun, t, IF t \in SysTaps THEN t ELSE None)
<1>1. f.op = fun /\ f.tap = t /\ f.sys = (IF t \in SysTaps THEN t ELSE None)
  BY SMT DEF Frame
<1>2. frame' = [frame EXCEPT ![Caller] = f]
  BY DEF Call
<1> HIDE DEF f
<1>3. /\ pc[Caller] = "ready" /\ UNCHANGED <<tap, active, objects, listening, pending>> /\ Caller \in Threads
      /\ None \notin Taps /\ Caller \notin MicTaps /\ fun \in Functions
  BY AudioTapAssumption, SMT DEF Call, Threads, shared, hal, env, Taps
<1>4. PICK label \in {"c_tap", "c_device", "start", "stop", "destroy", "permission"} :
        Goto(Caller, label) /\ (label = "c_tap" => t \in SysTaps /\ fun = "create")
  BY <1>3, SMT DEF Call, Functions
<1>5. /\ pc'[Caller] = label /\ frame'[Caller] = f
      /\ \A o \in Threads \ {Caller} : pc'[o] = pc[o] /\ frame'[o] = frame[o]
  BY <1>2, <1>3, <1>4, SMT DEF CalmInv, ATInv, TypeOK, Goto
<1>6. TapLife /\ \A s \in SysTaps : Live(s) \/ objects[s] = {}
  BY <1>3, SMT DEF CalmInv, Lifetimes, TapLife, Building
<1>7. fun # "permission" => t \in Taps /\ tap[t].life = (IF fun = "create" THEN "none" ELSE "live")
  BY DEF Call
<1>8. TapLife'
  BY <1>3, <1>6, SMT DEF TapLife, Live
<1>9. ThreadLife(Caller)'
  <2>1. CASE fun = "create"
    <3>1. label = "c_tap" => objects[t] = {}
      BY <1>4, <1>6, <1>7, <2>1, SMT DEF Live
    <3> QED BY <1>1, <1>3, <1>4, <1>5, <1>7, <2>1, <3>1, SMT DEF ThreadLife, Live, Self, Sys
  <2>2. CASE fun # "create"
    <3>1. pc'[Caller] \in {"start", "stop", "destroy", "permission", "c_device"}
      BY <1>4, <1>5, <2>2, SMT
    <3>2. fun \in {"start", "stop", "destroy"} => Live(t)
      BY <1>7, SMT DEF Live
    <3>3. f.sys # None => f.sys = t
      BY <1>1, SMT
    <3> QED BY <1>1, <1>3, <1>5, <2>2, <3>1, <3>2, <3>3, SMT DEF ThreadLife, Live, Self, Sys, Functions
  <2> QED BY <2>1, <2>2
<1>10. ASSUME NEW o \in Threads \ {Caller} PROVE ThreadLife(o)'
  <2>1. ThreadLife(o)
    BY DEF CalmInv, Lifetimes
  <2> QED BY <1>3, <1>5, <2>1, SMT DEF ThreadLife, Live, Self, Sys
<1> QED BY <1>8, <1>9, <1>10 DEF Lifetimes

LEMMA HandlerBeginLife ==
  ASSUME CalmInv, NEW m \in MicTaps, HandlerBegin(m)
  PROVE  Lifetimes'
<1> DEFINE f == Frame("handler", m, None)
<1>1. f.op = "handler" /\ f.tap = m /\ f.sys = None
  BY SMT DEF Frame
<1>2. frame' = [frame EXCEPT ![m] = f]
  BY DEF HandlerBegin
<1> HIDE DEF f
<1>3. /\ pc[m] = "ready" /\ UNCHANGED <<tap, active, objects, listening>> /\ m \in Threads /\ m # Caller
      /\ pending[m] > 0 /\ pending' = [pending EXCEPT ![m] = @ - 1] /\ Goto(m, "lock")
  BY AudioTapAssumption, SMT DEF HandlerBegin, Threads, shared, Taps
<1>4. /\ pc'[m] = "lock" /\ frame'[m] = f /\ Caller \in Threads
      /\ \A o \in Threads \ {m} : pc'[o] = pc[o] /\ frame'[o] = frame[o]
  BY <1>2, <1>3, SMT DEF CalmInv, ATInv, TypeOK, Goto, Threads
<1>5. TapLife
  BY DEF CalmInv, Lifetimes
<1>6. Live(m)
  BY <1>3, <1>5 DEF TapLife
<1>7. TapLife'
  <2>1. \A o \in MicTaps : pending'[o] > 0 => pending[o] > 0
    BY <1>3, SMT DEF CalmInv, ATInv, TypeOK
  <2>2. \A t \in SysTaps : Building(t)' <=> Building(t)
    BY <1>3, <1>4, SMT DEF Building, Self
  <2> QED BY <1>3, <1>5, <2>1, <2>2, SMT DEF TapLife, Live
<1>8. ThreadLife(m)'
  BY <1>1, <1>3, <1>4, <1>6, SMT DEF ThreadLife, Live, Self, Sys
<1>9. ASSUME NEW o \in Threads \ {m} PROVE ThreadLife(o)'
  <2>1. ThreadLife(o)
    BY DEF CalmInv, Lifetimes
  <2> QED BY <1>3, <1>4, <2>1, SMT DEF ThreadLife, Live, Self, Sys
<1> QED BY <1>7, <1>8, <1>9 DEF Lifetimes

LEMMA DeviceChangeLife ==
  ASSUME CalmInv, NEW dev, DeviceChange(dev)
  PROVE  Lifetimes'
<1>1. /\ UNCHANGED <<tap, active, objects, listening, pc, frame>>
      /\ pending' = [m \in MicTaps |-> IF m \in listening THEN pending[m] + 1 ELSE pending[m]]
  BY SMT DEF DeviceChange, shared
<1>2. TapLife'
  BY <1>1, SMT DEF CalmInv, Lifetimes, TapLife, Live, Building, Self
<1>3. ASSUME NEW th \in Threads PROVE ThreadLife(th)'
  <2>1. ThreadLife(th)
    BY DEF CalmInv, Lifetimes
  <2> QED BY <1>1, <2>1, SMT DEF ThreadLife, Live, Self, Sys
<1> QED BY <1>2, <1>3 DEF Lifetimes

LEMMA ReturnLife ==
  ASSUME CalmInv, NEW th \in Threads, Return(th)
  PROVE  Lifetimes'
<1>1. /\ UNCHANGED <<tap, active, objects, listening, pending>> /\ pc[th] = "return" /\ Goto(th, "ready")
      /\ frame' = [frame EXCEPT ![th] = NoFrame]
  BY SMT DEF Return, shared, hal, env
<1>2. /\ pc'[th] = "ready" /\ frame'[th] = NoFrame /\ Caller \in Threads
      /\ \A o \in Threads \ {th} : pc'[o] = pc[o] /\ frame'[o] = frame[o]
  BY <1>1, SMT DEF CalmInv, ATInv, TypeOK, Goto, Threads
<1>3. TapLife'
  <2>1. \A t \in SysTaps : Building(t) => Building(t)'
    BY <1>1, <1>2, SMT DEF Building, Self
  <2> QED BY <1>1, <2>1, SMT DEF CalmInv, Lifetimes, TapLife, Live
<1>4. ThreadLife(th)'
  BY <1>2, ReadyLife
<1>5. ASSUME NEW o \in Threads \ {th} PROVE ThreadLife(o)'
  <2>1. ThreadLife(o)
    BY DEF CalmInv, Lifetimes
  <2> QED BY <1>1, <1>2, <2>1, SMT DEF ThreadLife, Live, Self, Sys
<1> QED BY <1>3, <1>4, <1>5 DEF Lifetimes

\* A step of a call that creates or destroys a tap.
LEMMA AloneLife ==
  ASSUME CalmInv, NEW th \in Threads, frame[th].op \in {"create", "destroy"}, Moves(th),
         TapLife', ThreadLife(th)'
  PROVE  Lifetimes'
<1>1. ASSUME NEW o \in Threads \ {th} PROVE ThreadLife(o)'
  <2>1. o \in MicTaps
    BY Alone, SMT DEF Threads
  <2> QED BY <2>1, Alone, ReadyLife, Zenon DEF Moves
<1> QED BY <1>1 DEF Lifetimes

\* What is known of a call that creates or destroys a tap.
LEMMA LifeWork ==
  ASSUME CalmInv, NEW th \in Threads,
         pc[th] \in {"c_tap", "c_aggregate", "c_alloc", "c_device", "c_listen",
                     "d_aggregate", "d_tap", "d_unlisten", "d_free"}
  PROVE  /\ frame[th].op \in {"create", "destroy"} /\ th = Caller
         /\ pc[th] \in {"c_tap", "c_aggregate", "c_alloc", "c_device", "c_listen"} => frame[th].op = "create"
         /\ pc[th] \in {"d_unlisten", "d_free"} => frame[th].op = "destroy"
         /\ pc[th] \in {"c_tap", "c_aggregate", "c_alloc", "d_aggregate", "d_tap"} => Self(th) \in SysTaps
         /\ pc[th] \in {"c_device", "c_listen", "d_unlisten"} => Self(th) \in MicTaps
         /\ Self(th) \in Taps /\ TapLife /\ ThreadLife(th) /\ TypeOK
         /\ MicTaps \subseteq Taps /\ SysTaps \subseteq Taps /\ None \notin Taps /\ MicTaps \cap SysTaps = {}
<1>1. OpFits(pc[th], frame[th]) /\ TapFits(pc[th], frame[th]) /\ ThreadLife(th) /\ TapLife /\ TypeOK
  BY DEF CalmInv, CallShape, ThreadFits, Fits, Lifetimes, ATInv
<1>2. frame[th].op \in {"create", "destroy"}
  BY <1>1, SMT DEF OpFits
<1> QED BY <1>1, <1>2, Alone, AudioTapAssumption, SMT DEF OpFits, TapFits, Self, Taps

LEMMA CreateTapLife ==
  ASSUME CalmInv, NEW th \in Threads, CreateTap(th)
  PROVE  Lifetimes'
<1>1. pc[th] = "c_tap" /\ UNCHANGED <<tap, active, listening, pending>>
  BY SMT DEF CreateTap, shared, env
<1>2. PICK t \in SysTaps : t = Self(th) /\ t \in Taps
  BY <1>1, LifeWork, SMT
<1>3. frame[th].op = "create" /\ th = Caller /\ TapLife /\ TypeOK /\ tap[t].life = "none" /\ objects[t] = {}
  BY <1>1, <1>2, LifeWork, SMT DEF ThreadLife
<1>4. FramesKeep(th) /\ \E label : Goto(th, label)
  BY <1>3, FailedKeeps, UnchangedKeeps, Zenon DEF CreateTap
<1>5. Moves(th) /\ Self(th)' = t /\ frame'[th].op = "create"
  BY <1>2, <1>3, <1>4, KeepsMoves, Zenon DEF FramesKeep
<1>6. \/ pc'[th] = "c_aggregate" /\ objects' = [objects EXCEPT ![t] = @ \cup {"tap"}]
      \/ pc'[th] = "return" /\ objects' = objects
  BY <1>2, <1>3, WentTo, Zenon DEF CreateTap
<1>7. TapLife'
  <2>1. ASSUME NEW s \in SysTaps PROVE (Live(s) \/ objects[s] = {} \/ Building(s))'
    <3>1. CASE s = t
      BY <1>3, <1>5, <1>6, <3>1, SMT DEF Building, Self
    <3>2. CASE s # t
      <4>1. ~Building(s)
        BY <1>1, <1>3, SMT DEF Building
      <4> QED BY <1>1, <1>3, <1>6, <3>2, <4>1, SMT DEF TapLife, Live, TypeOK
    <3> QED BY <3>1, <3>2
  <2> QED BY <1>1, <1>3, <2>1, SMT DEF TapLife, Live
<1>8. ThreadLife(th)'
  <2>1. "aggregate" \notin objects'[t]
    BY <1>3, <1>6, SMT DEF TypeOK
  <2> QED BY <1>1, <1>3, <1>5, <1>6, <2>1, SMT DEF ThreadLife
<1> QED BY <1>3, <1>5, <1>7, <1>8, AloneLife

LEMMA CreateAggregateLife ==
  ASSUME CalmInv, NEW th \in Threads, CreateAggregate(th)
  PROVE  Lifetimes'
<1>1. pc[th] = "c_aggregate" /\ UNCHANGED <<tap, active, listening, pending>>
  BY SMT DEF CreateAggregate, shared, env
<1>2. PICK t \in SysTaps : t = Self(th) /\ t \in Taps
  BY <1>1, LifeWork, SMT
<1>3. frame[th].op = "create" /\ th = Caller /\ TapLife /\ TypeOK /\ tap[t].life = "none"
      /\ "aggregate" \notin objects[t]
  BY <1>1, <1>2, LifeWork, SMT DEF ThreadLife
<1>4. FramesKeep(th) /\ \E label : Goto(th, label)
  BY <1>3, FailedKeeps, UnchangedKeeps, Zenon DEF CreateAggregate
<1>5. Moves(th) /\ Self(th)' = t /\ frame'[th].op = "create"
  BY <1>2, <1>3, <1>4, KeepsMoves, Zenon DEF FramesKeep
<1>6. \/ pc'[th] = "c_alloc" /\ objects' = [objects EXCEPT ![t] = @ \cup {"aggregate"}]
      \/ pc'[th] = "d_tap" /\ objects' = objects
  BY <1>2, <1>3, WentTo, Zenon DEF CreateAggregate
<1>7. TapLife'
  <2>1. ASSUME NEW s \in SysTaps PROVE (Live(s) \/ objects[s] = {} \/ Building(s))'
    <3>1. CASE s = t
      BY <1>3, <1>5, <1>6, <3>1, SMT DEF Building, Self
    <3>2. CASE s # t
      <4>1. ~Building(s)
        BY <1>2, <1>3, <3>2, SMT DEF Building
      <4> QED BY <1>1, <1>3, <1>6, <3>2, <4>1, SMT DEF TapLife, Live, TypeOK
    <3> QED BY <3>1, <3>2
  <2> QED BY <1>1, <1>3, <2>1, SMT DEF TapLife, Live
<1>8. ThreadLife(th)'
  BY <1>1, <1>3, <1>5, <1>6, SMT DEF ThreadLife
<1> QED BY <1>3, <1>5, <1>7, <1>8, AloneLife

LEMMA CreateAllocLife ==
  ASSUME CalmInv, NEW th \in Threads, CreateAlloc(th)
  PROVE  Lifetimes'
<1>1. pc[th] = "c_alloc" /\ UNCHANGED <<active, listening, pending, objects>>
  BY SMT DEF CreateAlloc, hal, env
<1>2. PICK t \in SysTaps : t = Self(th) /\ t \in Taps
  BY <1>1, LifeWork, SMT
<1>3. frame[th].op = "create" /\ th = Caller /\ TapLife /\ TypeOK /\ tap[t].life = "none"
      /\ SysTaps \subseteq Taps /\ MicTaps \subseteq Taps
  BY <1>1, <1>2, LifeWork, SMT DEF ThreadLife
<1>4. FramesKeep(th) /\ \E label : Goto(th, label)
  BY <1>3, FailedKeeps, UnchangedKeeps, Zenon DEF CreateAlloc
<1>5. Moves(th) /\ Self(th)' = t /\ frame'[th].op = "create"
  BY <1>2, <1>3, <1>4, KeepsMoves, Zenon DEF FramesKeep
<1>6. \/ pc'[th] = "return" /\ tap' = [tap EXCEPT ![t].life = "live"]
      \/ pc'[th] = "d_aggregate" /\ tap' = tap
  BY <1>2, <1>3, WentTo, Zenon DEF CreateAlloc
<1>7. /\ \A o \in Taps \ {t} : tap'[o] = tap[o]
      /\ tap'[t].running = tap[t].running /\ tap'[t].io = tap[t].io
      /\ pc'[th] = "d_aggregate" \/ Live(t)'
  <2>1. CASE pc'[th] = "d_aggregate" /\ tap' = tap
    BY <2>1
  <2>2. CASE tap' = [tap EXCEPT ![t].life = "live"]
    <3>1. /\ tap'[t].life = "live" /\ tap'[t].running = tap[t].running /\ tap'[t].io = tap[t].io
          /\ \A o \in Taps \ {t} : tap'[o] = tap[o]
      BY <1>2, <1>3, <2>2, LifeUpdated
    <3> QED BY <3>1, Zenon DEF Live
  <2> QED BY <1>6, <2>1, <2>2
<1>8. \A o \in Taps : Live(o) => Live(o)'
  BY <1>3, <1>7, SMT DEF Live
<1>9. TapLife'
  <2>1. ASSUME NEW s \in SysTaps PROVE (Live(s) \/ objects[s] = {} \/ Building(s))'
    <3>1. CASE s = t
      BY <1>3, <1>5, <1>6, <1>7, <3>1, SMT DEF Building, Self
    <3>2. CASE s # t
      <4>1. ~Building(s)
        BY <1>2, <1>3, <3>2, SMT DEF Building
      <4> QED BY <1>1, <1>3, <1>8, <3>2, <4>1, SMT DEF TapLife
    <3> QED BY <3>1, <3>2
  <2>2. active \in SysTaps \cup {None}
    BY <1>3 DEF TypeOK
  <2>3. \A o \in Taps : (tap[o].running \/ tap[o].io # None => Live(o))'
    BY <1>3, <1>7, <1>8, SMT DEF TapLife
  <2>4. \A m \in MicTaps : ((m \in listening => Live(m)) /\ (pending[m] > 0 => m \in listening))'
    BY <1>1, <1>3, <1>8, SMT DEF TapLife
  <2>5. (active # None => Live(active))'
    BY <1>1, <1>3, <1>8, <2>2, SMT DEF TapLife, Live
  <2> QED BY <2>1, <2>3, <2>4, <2>5 DEF TapLife
<1>10. ThreadLife(th)'
  BY <1>1, <1>3, <1>5, <1>6, SMT DEF ThreadLife
<1> QED BY <1>3, <1>5, <1>9, <1>10, AloneLife

LEMMA CreateMicLife ==
  ASSUME CalmInv, NEW th \in Threads, CreateMic(th)
  PROVE  Lifetimes'
<1>1. pc[th] = "c_device" /\ UNCHANGED <<active, listening, pending, objects>>
  BY SMT DEF CreateMic, hal, env
<1>2. PICK t \in MicTaps : t = Self(th) /\ t \in Taps /\ t \notin SysTaps
  BY <1>1, LifeWork, SMT
<1>3. frame[th].op = "create" /\ th = Caller /\ TapLife /\ TypeOK /\ tap[t].life = "none"
      /\ SysTaps \subseteq Taps /\ MicTaps \subseteq Taps
  BY <1>1, <1>2, LifeWork, SMT DEF ThreadLife
<1>4. FramesKeep(th) /\ \E label : Goto(th, label)
  BY <1>3, FailedKeeps, UnchangedKeeps, Zenon DEF CreateMic
<1>5. Moves(th) /\ Self(th)' = t /\ frame'[th].op = "create"
  BY <1>2, <1>3, <1>4, KeepsMoves, Zenon DEF FramesKeep
<1>6. \/ pc'[th] = "c_listen" /\ tap' = [tap EXCEPT ![t].life = "live", ![t].dev = default_dev]
      \/ pc'[th] = "return" /\ tap' = tap
  BY <1>2, <1>3, WentTo, Zenon DEF CreateMic
<1>7. /\ \A o \in Taps \ {t} : tap'[o] = tap[o]
      /\ tap'[t].running = tap[t].running /\ tap'[t].io = tap[t].io
      /\ (pc'[th] = "return" /\ tap' = tap) \/ Live(t)'
  <2>1. CASE pc'[th] = "return" /\ tap' = tap
    BY <2>1
  <2>2. CASE tap' = [tap EXCEPT ![t].life = "live", ![t].dev = default_dev]
    <3>1. /\ tap'[t].life = "live" /\ tap'[t].running = tap[t].running /\ tap'[t].io = tap[t].io
          /\ \A o \in Taps \ {t} : tap'[o] = tap[o]
      BY <1>2, <1>3, <2>2, CreatedUpdated
    <3> QED BY <3>1, Zenon DEF Live
  <2> QED BY <1>6, <2>1, <2>2
<1>8. \A o \in Taps : Live(o) => Live(o)'
  BY <1>3, <1>7, SMT DEF Live
<1>9. TapLife'
  <2>1. ASSUME NEW s \in SysTaps PROVE (Live(s) \/ objects[s] = {} \/ Building(s))'
    <3>1. ~Building(s)
      BY <1>1, <1>3, SMT DEF Building
    <3> QED BY <1>1, <1>3, <1>8, <3>1, SMT DEF TapLife
  <2>2. active \in SysTaps \cup {None}
    BY <1>3 DEF TypeOK
  <2>3. \A o \in Taps : (tap[o].running \/ tap[o].io # None => Live(o))'
    BY <1>3, <1>7, <1>8, SMT DEF TapLife
  <2>4. \A m \in MicTaps : ((m \in listening => Live(m)) /\ (pending[m] > 0 => m \in listening))'
    BY <1>1, <1>3, <1>8, SMT DEF TapLife
  <2>5. (active # None => Live(active))'
    BY <1>1, <1>3, <1>8, <2>2, SMT DEF TapLife, Live
  <2> QED BY <2>1, <2>3, <2>4, <2>5 DEF TapLife
<1>10. ThreadLife(th)'
  <2>1. pc'[th] \in {"return", "c_listen"} /\ (pc'[th] = "c_listen" => tap'[t].life = "live")
    BY <1>6, <1>7, SMT DEF Live
  <2> QED BY <1>5, <2>1, SMT DEF ThreadLife, Live
<1> QED BY <1>3, <1>5, <1>9, <1>10, AloneLife

LEMMA ListenLife ==
  ASSUME CalmInv, NEW th \in Threads, Listen(th)
  PROVE  Lifetimes'
<1>1. /\ pc[th] = "c_listen" /\ UNCHANGED <<tap, active, pending, objects, frame>> /\ Goto(th, "return")
      /\ listening' = listening \cup {Self(th)} \/ listening' = listening
  BY SMT DEF Listen, shared
<1>2. PICK t \in MicTaps : t = Self(th) /\ t \in Taps /\ t \notin SysTaps
  BY <1>1, LifeWork, SMT
<1>3. frame[th].op = "create" /\ th = Caller /\ TapLife /\ TypeOK /\ Live(t)
  BY <1>1, <1>2, LifeWork, SMT DEF ThreadLife
<1>4. Moves(th) /\ Self(th)' = t /\ frame'[th].op = "create" /\ pc'[th] = "return"
  BY <1>1, <1>2, <1>3, UnchangedKeeps, KeepsMoves, WentTo, Zenon
<1>5. TapLife'
  <2>1. \A s \in SysTaps : ~Building(s)
    BY <1>1, <1>3, SMT DEF Building
  <2> QED BY <1>1, <1>2, <1>3, <2>1, SMT DEF TapLife, Live
<1>6. ThreadLife(th)'
  BY <1>4, SMT DEF ThreadLife
<1> QED BY <1>3, <1>4, <1>5, <1>6, AloneLife

LEMMA DestroyAggregateLife ==
  ASSUME CalmInv, NEW th \in Threads, DestroyAggregate(th)
  PROVE  Lifetimes'
<1>1. pc[th] = "d_aggregate" /\ UNCHANGED <<tap, active, listening, pending, frame>> /\ Goto(th, "d_tap")
  BY SMT DEF DestroyAggregate, shared, env
<1>2. PICK t \in SysTaps : t = Self(th) /\ t \in Taps
  BY <1>1, LifeWork, SMT
<1>3. /\ frame[th].op \in {"create", "destroy"} /\ th = Caller /\ TapLife /\ TypeOK
      /\ frame[th].op = "create" => tap[t].life = "none"
      /\ frame[th].op = "destroy" => Live(t) /\ ~tap[t].running
  BY <1>1, <1>2, LifeWork, SMT DEF ThreadLife
<1>4. Moves(th) /\ Self(th)' = t /\ frame'[th].op = frame[th].op /\ pc'[th] = "d_tap"
  BY <1>1, <1>2, <1>3, UnchangedKeeps, KeepsMoves, WentTo, Zenon
<1>5. objects' = [objects EXCEPT ![t] = @ \ {"aggregate"}]
  BY <1>2 DEF DestroyAggregate
<1>6. TapLife'
  <2>1. ASSUME NEW s \in SysTaps PROVE (Live(s) \/ objects[s] = {} \/ Building(s))'
    <3>1. CASE s = t
      BY <1>3, <1>4, <3>1, SMT DEF Building
    <3>2. CASE s # t
      <4>1. ~Building(s)
        BY <1>2, <1>3, <3>2, SMT DEF Building
      <4> QED BY <1>1, <1>3, <1>5, <3>2, <4>1, SMT DEF TapLife, Live, TypeOK
    <3> QED BY <3>1, <3>2
  <2> QED BY <1>1, <1>3, <2>1, SMT DEF TapLife, Live
<1>7. ThreadLife(th)'
  <2>1. "aggregate" \notin objects'[t]
    BY <1>3, <1>5, SMT DEF TypeOK
  <2> QED BY <1>1, <1>3, <1>4, <2>1, SMT DEF ThreadLife, Live
<1> QED BY <1>3, <1>4, <1>6, <1>7, AloneLife

LEMMA DestroyTapLife ==
  ASSUME CalmInv, NEW th \in Threads, DestroyTap(th)
  PROVE  Lifetimes'
<1>1. pc[th] = "d_tap" /\ UNCHANGED <<tap, active, listening, pending, frame>>
  BY SMT DEF DestroyTap, shared, env
<1>2. PICK t \in SysTaps : t = Self(th) /\ t \in Taps /\ t \notin MicTaps
  BY <1>1, LifeWork, SMT
<1>3. /\ frame[th].op \in {"create", "destroy"} /\ th = Caller /\ TapLife /\ TypeOK
      /\ "aggregate" \notin objects[t]
      /\ frame[th].op = "create" => tap[t].life = "none"
      /\ frame[th].op = "destroy" => Live(t) /\ ~tap[t].running
  BY <1>1, <1>2, LifeWork, SMT DEF ThreadLife
<1>4. \/ Goto(th, "return") /\ frame[th].op = "create"
      \/ Goto(th, "d_free") /\ frame[th].op = "destroy"
  BY <1>3, Zenon DEF DestroyTap
<1>5. Moves(th) /\ Self(th)' = t /\ frame'[th].op = frame[th].op
      /\ pc'[th] = (IF frame[th].op = "create" THEN "return" ELSE "d_free")
  BY <1>1, <1>2, <1>3, <1>4, UnchangedKeeps, KeepsMoves, WentTo, Zenon
<1>6. objects' = [objects EXCEPT ![t] = @ \ {"tap"}]
  BY <1>2 DEF DestroyTap
<1>7. objects'[t] = {}
  <2>1. objects[t] \subseteq {"tap", "aggregate"} /\ objects'[t] = objects[t] \ {"tap"}
    BY <1>3, <1>6, SMT DEF TypeOK
  <2> QED BY <1>3, <2>1, SMT
<1>8. TapLife'
  <2>1. ASSUME NEW s \in SysTaps PROVE (Live(s) \/ objects[s] = {} \/ Building(s))'
    <3>1. CASE s = t
      BY <1>7, <3>1
    <3>2. CASE s # t
      <4>1. ~Building(s)
        BY <1>2, <1>3, <3>2, SMT DEF Building
      <4> QED BY <1>1, <1>3, <1>6, <3>2, <4>1, SMT DEF TapLife, Live, TypeOK
    <3> QED BY <3>1, <3>2
  <2> QED BY <1>1, <1>3, <2>1, SMT DEF TapLife, Live
<1>9. ThreadLife(th)'
  <2>1. t \notin listening'
    BY <1>1, <1>2, <1>3, SMT DEF TypeOK
  <2> QED BY <1>1, <1>3, <1>5, <1>7, <2>1, SMT DEF ThreadLife, Live
<1> QED BY <1>3, <1>5, <1>8, <1>9, AloneLife

LEMMA UnlistenLife ==
  ASSUME CalmInv, NEW th \in Threads, Unlisten(th)
  PROVE  Lifetimes'
<1>1. pc[th] = "d_unlisten" /\ UNCHANGED <<tap, active, objects, frame>> /\ Goto(th, "d_free")
  BY SMT DEF Unlisten, shared
<1>2. PICK t \in MicTaps : t = Self(th) /\ t \in Taps /\ t \notin SysTaps
  BY <1>1, LifeWork, SMT
<1>3. /\ frame[th].op = "destroy" /\ th = Caller /\ TapLife /\ TypeOK /\ Live(t) /\ ~tap[t].running
  BY <1>1, <1>2, LifeWork, SMT DEF ThreadLife
<1>4. Moves(th) /\ Self(th)' = t /\ frame'[th].op = "destroy" /\ pc'[th] = "d_free"
  BY <1>1, <1>2, <1>3, UnchangedKeeps, KeepsMoves, WentTo, Zenon
<1>5. listening' = listening \ {t} /\ UNCHANGED pending /\ pending[t] = 0
  BY <1>2, <1>3, Alone DEF Unlisten
<1>6. TapLife'
  <2>1. \A s \in SysTaps : ~Building(s)
    BY <1>1, <1>3, SMT DEF Building
  <2>2. \A m \in MicTaps : pending'[m] > 0 => m # t /\ pending[m] > 0
    BY <1>3, <1>5, SMT DEF TypeOK
  <2> QED BY <1>1, <1>3, <1>5, <2>1, <2>2, SMT DEF TapLife, Live
<1>7. ThreadLife(th)'
  BY <1>1, <1>2, <1>3, <1>4, <1>5, SMT DEF ThreadLife, Live
<1> QED BY <1>3, <1>4, <1>6, <1>7, AloneLife

\* A tap that is freed is at rest.
LEMMA FreedRests ==
  ASSUME CalmInv, NEW th \in Threads, pc[th] = "d_free"
  PROVE  ~tap[Self(th)].running /\ Off(Self(th)) /\ active # Self(th)
<1>1. PICK t \in Taps : t = Self(th)
  BY LifeWork, SMT
<1>2. /\ frame[th].op = "destroy" /\ th = Caller /\ ~tap[t].running /\ None \notin Taps
      /\ \A m \in MicTaps : pc[m] = "ready"
  BY <1>1, LifeWork, Alone, SMT DEF ThreadLife
<1>3. \A o \in Threads : pc[o] \notin LockedLabels
  BY <1>2, SMT DEF Threads, LockedLabels, Serialized
<1>4. CASE t \in MicTaps
  <2>1. lock[t] = None
    BY <1>3, <1>4, SMT DEF CalmInv, CallShape, HeldInv, ATInv, TypeOK
  <2>2. Rest(t)
    BY <1>4, <2>1 DEF CalmInv, Registry, MicRest
  <2>3. active # t
    BY <1>4, AudioTapAssumption, SMT DEF CalmInv, ATInv, TypeOK, Taps
  <2> QED BY <1>1, <1>2, <2>2, <2>3, SMT DEF Rest
<1>5. CASE t \in SysTaps
  <2>1. Untouched(t)
    BY <1>3, SMT DEF Untouched, SysCode, SysStarts, SysStops, LockedLabels
  <2>2. AtPeace(t)
    BY <1>5, <2>1 DEF CalmInv, Registry, SysRest
  <2> QED BY <1>1, <1>2, <2>2, SMT DEF AtPeace, Rest
<1> QED BY <1>4, <1>5 DEF Taps

LEMMA FreeLife ==
  ASSUME CalmInv, NEW th \in Threads, Free(th)
  PROVE  Lifetimes'
<1>1. pc[th] = "d_free" /\ UNCHANGED <<active, listening, pending, objects, frame>> /\ Goto(th, "return")
  BY SMT DEF Free, hal, env
<1>2. PICK t \in Taps : t = Self(th)
  BY <1>1, LifeWork, SMT
<1>3. /\ frame[th].op = "destroy" /\ th = Caller /\ TapLife /\ TypeOK
      /\ t \notin listening /\ (t \in SysTaps => objects[t] = {})
      /\ SysTaps \subseteq Taps /\ MicTaps \subseteq Taps
  BY <1>1, <1>2, LifeWork, SMT DEF ThreadLife
<1>4. ~tap[t].running /\ tap[t].io = None /\ active # t
  BY <1>1, <1>2, FreedRests DEF Off
<1>5. Moves(th) /\ Self(th)' = t /\ frame'[th].op = "destroy" /\ pc'[th] = "return"
  BY <1>1, <1>2, <1>3, UnchangedKeeps, KeepsMoves, WentTo, Zenon
<1>6. tap' = [tap EXCEPT ![t].life = "freed"]
  BY <1>2 DEF Free
<1>7. /\ tap'[t].running = tap[t].running /\ tap'[t].io = tap[t].io
      /\ \A o \in Taps \ {t} : tap'[o] = tap[o]
  BY <1>3, <1>6, LifeUpdated
<1>8. TapLife'
  <2>1. \A s \in SysTaps : ~Building(s)
    BY <1>1, <1>3, SMT DEF Building
  <2>2. active \in SysTaps \cup {None}
    BY <1>3 DEF TypeOK
  <2>3. \A o \in Taps : (tap[o].running \/ tap[o].io # None => Live(o))'
    BY <1>3, <1>4, <1>7, SMT DEF TapLife, Live
  <2>4. \A m \in MicTaps : ((m \in listening => Live(m)) /\ (pending[m] > 0 => m \in listening))'
    BY <1>1, <1>3, <1>7, SMT DEF TapLife, Live
  <2>5. (active # None => Live(active))'
    BY <1>1, <1>3, <1>4, <1>7, <2>2, SMT DEF TapLife, Live
  <2>6. \A s \in SysTaps : (Live(s) \/ objects[s] = {} \/ Building(s))'
    BY <1>1, <1>3, <1>7, <2>1, SMT DEF TapLife, Live
  <2> QED BY <2>3, <2>4, <2>5, <2>6 DEF TapLife
<1>9. ThreadLife(th)'
  BY <1>5, SMT DEF ThreadLife
<1> QED BY <1>3, <1>5, <1>8, <1>9, AloneLife

LEMMA NextLifetimes ==
  ASSUME Calm, CalmInv, [Next]_vars, CallShape'
  PROVE  Lifetimes'
<1>1. CASE \E c \in Calls : Call(c[1], c[2])
  <2>1. PICK c \in Calls : Call(c[1], c[2])
    BY <1>1
  <2>2. <<c[1], c[2]>> \in Calls
    BY AudioTapAssumption, SMT
  <2> QED BY <2>1, <2>2, CallLife
<1>2. CASE \E dev \in Devices \cup {None} : DeviceChange(dev)
  BY <1>2, DeviceChangeLife
<1>3. CASE \E answer \in {"granted", "denied"} : UserAnswers(answer)
  <2>1. /\ pc[Caller] = "dialog" /\ Goto(Caller, "return") /\ Caller \in Threads
        /\ UNCHANGED <<tap, active, objects, listening, pending, frame>>
    BY <1>3, SMT DEF UserAnswers, shared, Threads
  <2> QED BY <2>1, LookLife, SMT
<1>4. CASE \E m \in MicTaps : HandlerBegin(m)
  BY <1>4, HandlerBeginLife
<1>5. CASE \E th \in Threads : Step(th)
  <2>1. PICK th \in Threads : Step(th)
    BY <1>5
  <2>2. CASE CreateStep(th)
    BY <2>2, CreateTapLife, CreateAggregateLife, CreateAllocLife, CreateMicLife, ListenLife DEF CreateStep
  <2>3. CASE Destroy(th) \/ Start(th) \/ Stop(th) \/ RequestPermission(th)
    <3>1. /\ pc[th] \in {"start", "stop", "destroy", "permission"}
          /\ UNCHANGED <<tap, active, objects, listening, pending, frame>>
      BY <2>3, SMT DEF Destroy, Start, Stop, RequestPermission, Jump, shared, hal, env
    <3>2. frame[th].op = "destroy" => pc[th] \notin {"start", "permission"}
      BY SMT DEF CalmInv, CallShape, ThreadFits, Fits, OpFits
    <3>3. \E label : /\ Goto(th, label) /\ label \notin {"d_tap", "d_free"}
                     /\ label \in {"d_aggregate", "d_unlisten", "unlock"} => ~tap[Self(th)].running
      <4>1. CASE RequestPermission(th) \/ Start(th)
        <5>1. \E label \in {"dialog", "return", "s_create", "lock"} : Goto(th, label)
          BY <4>1, Zenon DEF RequestPermission, Start, Jump
        <5> QED BY <5>1, SMT
      <4>2. CASE (Destroy(th) \/ Stop(th)) /\ tap[Self(th)].running
        <5>1. \E label \in {"stop", "x_halt", "lock"} : Goto(th, label)
          BY <4>2, Zenon DEF Destroy, Stop, Jump
        <5> QED BY <5>1, SMT
      <4>3. CASE (Destroy(th) \/ Stop(th)) /\ ~tap[Self(th)].running
        <5>1. \E label \in {"d_aggregate", "d_unlisten", "return"} : Goto(th, label)
          BY <4>3, Zenon DEF Destroy, Stop, Jump, AfterStop, DestroyBegin
        <5> QED BY <4>3, <5>1, SMT
      <4> QED BY <2>3, <4>1, <4>2, <4>3
    <3> QED BY <3>1, <3>2, <3>3, LookLife, Zenon
  <2>4. CASE DestroyStep(th)
    BY <2>3, <2>4, DestroyAggregateLife, DestroyTapLife, UnlistenLife, FreeLife DEF DestroyStep
  <2> QED BY <2>1, <2>2, <2>3, <2>4, SysStepLife, MicStepLife, ReturnLife DEF Step
<1>6. CASE UNCHANGED vars
  <2>1. UNCHANGED <<tap, active, objects, listening, pending, pc, frame>>
    BY <1>6, SMT DEF vars, shared, hal, env
  <2>2. TapLife'
    BY <2>1, SMT DEF CalmInv, Lifetimes, TapLife, Live, Building, Self
  <2>3. ASSUME NEW th \in Threads PROVE ThreadLife(th)'
    <3>1. ThreadLife(th)
      BY DEF CalmInv, Lifetimes
    <3> QED BY <2>1, <3>1, SMT DEF ThreadLife, Live, Self, Sys
  <2> QED BY <2>2, <2>3 DEF Lifetimes
<1> QED BY <1>1, <1>2, <1>3, <1>4, <1>5, <1>6 DEF Next

-----------------------------------------------------------------------------
(* FollowInv.  Only the listener of a tap moves it to another device.      *)

LEMMA FaultsStay ==
  ASSUME TypeOK, [Next]_vars, faults' = 0
  PROVE  faults = 0
<1>1. faults \in Nat
  BY DEF TypeOK
<1>2. CASE UNCHANGED faults
  BY <1>2
<1>3. CASE Fault
  BY <1>1, <1>3, SMT DEF Fault
<1>4. CASE \/ \E c \in Calls : Call(c[1], c[2])
           \/ \E dev \in Devices \cup {None} : DeviceChange(dev)
           \/ \E answer \in {"granted", "denied"} : UserAnswers(answer)
           \/ \E m \in MicTaps : HandlerBegin(m)
           \/ UNCHANGED vars
  BY <1>2, <1>4, Zenon DEF Call, DeviceChange, UserAnswers, HandlerBegin, vars, bounds
<1>5. CASE \E th \in Threads : Step(th)
  <2>1. PICK th \in Threads : Step(th)
    BY <1>5
  <2>2. CASE CreateStep(th) \/ DestroyStep(th)
    BY <1>2, <1>3, <2>2, Zenon DEF CreateStep, DestroyStep, CreateTap, CreateAggregate, CreateAlloc, CreateMic,
       Listen, Destroy, DestroyAggregate, DestroyTap, Unlisten, Free, Jump, NoFault, bounds
  <2>3. CASE SysStep(th)
    BY <1>2, <1>3, <2>3, Zenon DEF SysStep, SysCreateProc, SysDeviceStart, SysSetRunning, SysSetActive,
       SysDeviceStop, SysDestroyProc, SysClearRunning, SysClearActive, NoFault, bounds
  <2>4. CASE MicStep(th)
    BY <1>2, <1>3, <2>4, Zenon DEF MicStep, Lock, Unlock, HandlerDevice, HandlerSwitch, MicDeviceStop,
       MicDestroyProc, MicCreateProc, MicPermission, MicFindSys, MicPauseSys, MicDeviceStart, MicResult, Jump,
       NoFault, bounds
  <2>5. CASE Start(th) \/ Stop(th) \/ RequestPermission(th) \/ Return(th)
    BY <1>2, <2>5, Zenon DEF Start, Stop, RequestPermission, Return, Jump, bounds
  <2> QED BY <2>1, <2>2, <2>3, <2>4, <2>5 DEF Step
<1> QED BY <1>4, <1>5 DEF Next

\* The labels at which the listener has still to move its tap.
Following == {"lock", "h_device", "m_halt", "m_free", "h_switch"}

LEMMA FollowKept ==
  ASSUME CalmInv, NEW th \in Threads, Moves(th), UNCHANGED <<listening, pending, default_dev>>,
         faults' = 0 => faults = 0,
         \A m \in MicTaps : Live(m)' => Live(m),
         \A m \in MicTaps : m # th => tap'[m].dev = tap[m].dev,
         pc[th] \notin {"c_listen", "d_free"},
         th \in MicTaps /\ faults' = 0 /\ default_dev # None /\ WillFollow(th) => WillFollow(th)'
  PROVE  FollowInv'
<1> SUFFICES ASSUME faults' = 0, NEW m \in MicTaps, Live(m)'
             PROVE  (Hears(m) /\ (default_dev # None => WillFollow(m)))'
  BY DEF FollowInv
<1>1. Hears(m) /\ (default_dev # None => WillFollow(m))
  BY SMT DEF CalmInv, FollowInv
<1>2. Hears(m)'
  BY <1>1, SMT DEF Hears, Moves, Self, Threads
<1>3. CASE m = th
  BY <1>1, <1>2, <1>3
<1>4. CASE m # th
  <2>1. pc'[m] = pc[m] /\ frame'[m] = frame[m] /\ tap'[m].dev = tap[m].dev
    BY <1>4, SMT DEF Moves, Threads
  <2>2. WillFollow(m)' = WillFollow(m)
    BY <2>1, SMT DEF WillFollow
  <2> QED BY <1>1, <1>2, <2>2, SMT
<1> QED BY <1>3, <1>4

\* A step that has nothing to do with devices.
LEMMA FollowPlain ==
  ASSUME CalmInv, NEW th \in Threads, Moves(th), UNCHANGED <<listening, pending, default_dev>>,
         faults' = 0 => faults = 0,
         \A m \in MicTaps : (Live(m)' => Live(m)) /\ tap'[m].dev = tap[m].dev,
         pc[th] \notin Following \cup {"c_listen", "d_free"},
         th \in MicTaps => pc'[th] \notin Following
  PROVE  FollowInv'
<1>1. th \in MicTaps /\ WillFollow(th) => WillFollow(th)'
  BY SMT DEF WillFollow, Following
<1> QED BY <1>1, FollowKept, SMT

LEMMA SysStepTaps ==
  ASSUME CalmInv, NEW th \in Threads, SysStep(th)
  PROVE  /\ pc[th] \in SysCode /\ pc[th] \in LockedLabels
         /\ \A m \in MicTaps : tap'[m] = tap[m]
<1>1. pc[th] \in SysCode
  BY SMT DEF SysStep, SysCreateProc, SysDeviceStart, SysSetRunning, SysSetActive, SysDeviceStop, SysDestroyProc,
     SysClearRunning, SysClearActive, SysCode, SysStarts, SysStops
<1>2. pc[th] \in LockedLabels
  BY <1>1, SMT DEF SysCode, SysStarts, SysStops, LockedLabels
<1>3. PICK t \in SysTaps : t = Sys(th) /\ t \in Taps /\ t \notin MicTaps
  BY <1>1, <1>2, AtWork, SMT
<1>4. MicTaps \subseteq Taps /\ TypeOK
  BY <1>2, AtWork DEF CalmInv, ATInv
<1>5. \/ tap' = tap
      \/ \E v : tap' = [tap EXCEPT ![t].io = v] \/ tap' = [tap EXCEPT ![t].running = v]
  BY <1>3, Zenon DEF SysStep, SysCreateProc, SysDeviceStart, SysSetRunning, SysSetActive, SysDeviceStop,
     SysDestroyProc, SysClearRunning, SysClearActive, shared, Register
<1>6. Retouched(t)
  BY <1>3, <1>4, <1>5, RetouchedBy, Zenon
<1> QED BY <1>1, <1>2, <1>3, <1>4, <1>6, SMT DEF Retouched

LEMMA SysStepFollows ==
  ASSUME CalmInv, NEW th \in Threads, SysStep(th), Moves(th), faults' = 0 => faults = 0
  PROVE  FollowInv'
<1>1. pc[th] \in SysCode /\ pc[th] \in LockedLabels /\ \A m \in MicTaps : tap'[m] = tap[m]
  BY SysStepTaps
<1>2. UNCHANGED <<listening, pending, default_dev>>
  BY SMT DEF SysStep, SysCreateProc, SysDeviceStart, SysSetRunning, SysSetActive, SysDeviceStop, SysDestroyProc,
     SysClearRunning, SysClearActive, hal, env
<1>3. pc[th] \notin Following \cup {"c_listen", "d_free"}
  BY <1>1, SMT DEF SysCode, SysStarts, SysStops, Following
<1>4. th \in MicTaps => pc'[th] \notin Following
  <2>1. th \in MicTaps => Self(th) = th
    BY <1>1, SMT DEF CalmInv, CallShape, ThreadFits, LockedLabels, Serialized
  <2>2. th \in MicTaps => \E label \in SysCode \cup {"m_start", "m_result"} : Goto(th, label)
    BY <2>1, Zenon DEF SysStep, SysCreateProc, SysDeviceStart, SysSetRunning, SysSetActive, SysDeviceStop,
       SysDestroyProc, SysClearRunning, SysClearActive, AfterSysStart, AfterSysStop, SysCode, SysStarts, SysStops
  <2>3. TypeOK
    BY DEF CalmInv, ATInv
  <2> QED BY <2>2, <2>3, WentTo, SMT DEF SysCode, SysStarts, SysStops, Following
<1> QED BY <1>1, <1>2, <1>3, <1>4, FollowPlain, SMT DEF Live

LEMMA StepMoves ==
  ASSUME CalmInv, NEW th \in Threads, CreateStep(th) \/ DestroyStep(th) \/ SysStep(th) \/ MicStep(th)
  PROVE  Moves(th)
<1>1. TypeOK /\ ATInv
  BY DEF CalmInv, ATInv
<1>2. \/ UNCHANGED frame \/ Failed(th) \/ SysFailed(th) \/ MicFindSys(th)
      \/ frame' = [frame EXCEPT ![th].dev = default_dev, ![th].was = tap[Self(th)].running]
  BY Zenon DEF CreateStep, DestroyStep, SysStep, MicStep, CreateTap, CreateAggregate, CreateAlloc, CreateMic, Listen,
     Destroy, DestroyAggregate, DestroyTap, Unlisten, Free, SysCreateProc, SysDeviceStart, SysSetRunning,
     SysSetActive, SysDeviceStop, SysDestroyProc, SysClearRunning, SysClearActive, Lock, Unlock, HandlerDevice,
     HandlerSwitch, MicDeviceStop, MicDestroyProc, MicCreateProc, MicPermission, MicPauseSys,
     MicDeviceStart, MicResult, Jump
<1>3. \A other \in Threads \ {th} : frame'[other] = frame[other]
  <2>1. CASE UNCHANGED frame \/ Failed(th) \/ SysFailed(th)
    BY <1>1, <2>1, UnchangedKeeps, FailedKeeps, SysFailedKeeps, Zenon DEF FramesKeep
  <2>2. CASE MicFindSys(th)
    BY <1>1, <2>2, FoundSys
  <2>3. CASE frame' = [frame EXCEPT ![th].dev = default_dev, ![th].was = tap[Self(th)].running]
    BY <1>1, <2>3, Zenon DEF TypeOK
  <2> QED BY <1>2, <2>1, <2>2, <2>3
<1>4. \E label : Goto(th, label)
  BY Zenon DEF CreateStep, DestroyStep, SysStep, MicStep, CreateTap, CreateAggregate, CreateAlloc, CreateMic, Listen,
     Destroy, DestroyAggregate, DestroyTap, Unlisten, Free, SysCreateProc, SysDeviceStart, SysSetRunning,
     SysSetActive, SysDeviceStop, SysDestroyProc, SysClearRunning, SysClearActive, Lock, Unlock, HandlerDevice,
     HandlerSwitch, MicDeviceStop, MicDestroyProc, MicCreateProc, MicPermission, MicFindSys, MicPauseSys,
     MicDeviceStart, MicResult, Jump
<1> QED BY <1>1, <1>3, <1>4, WentTo, SMT DEF Moves

\* A step of a listener keeps what it will do: it reaches the default device.
LEMMA MicStepFollows ==
  ASSUME CalmInv, NEW th \in Threads, MicStep(th), Moves(th), faults' = 0 => faults = 0
  PROVE  FollowInv'
<1>1. pc[th] \in Serialized \cup {"lock"} /\ UNCHANGED <<listening, pending, default_dev>>
  BY SMT DEF MicStep, Lock, Unlock, HandlerDevice, HandlerSwitch, MicDeviceStop, MicDestroyProc, MicCreateProc,
     MicPermission, MicFindSys, MicPauseSys, MicDeviceStart, MicResult, Jump, Serialized, hal, env
<1>2. TypeOK /\ MicTaps \subseteq Taps
  BY SMT DEF CalmInv, ATInv, Taps
<1>3. PICK t \in MicTaps : t = Self(th) /\ t \in Taps
  BY <1>1, <1>2, SMT DEF CalmInv, ATInv, CallInv, MicLabels
<1>4. th \in MicTaps => t = th /\ frame[th].op = "handler"
  BY <1>1, <1>3, SMT DEF CalmInv, CallShape, ThreadFits, Serialized
<1>5. pc[th] \notin {"c_listen", "d_free"}
  BY <1>1, SMT DEF Serialized
<1>6. CASE HandlerDevice(th)
  <2>1. tap' = tap /\ pc[th] = "h_device" /\ frame[th].op = "handler" /\ th \in MicTaps
    <3>1. OpFits(pc[th], frame[th]) /\ (th = Caller => frame[th].op # "handler")
      BY DEF CalmInv, CallShape, ThreadFits, Fits
    <3> QED BY <1>6, <3>1, SMT DEF HandlerDevice, OpFits, shared, Threads
  <2>2. ASSUME faults' = 0, default_dev # None PROVE WillFollow(th)'
    <3>1. faults \in Nat /\ ~Fault
      BY <1>2, <2>2, SMT DEF TypeOK, Fault
    <3>2. CASE default_dev = tap[th].dev /\ Goto(th, "unlock")
      <4>1. pc'[th] = "unlock"
        BY <1>2, <3>2, WentTo
      <4> QED BY <1>1, <2>1, <3>2, <4>1, SMT DEF WillFollow
    <3>3. CASE /\ frame' = [frame EXCEPT ![th].dev = default_dev, ![th].was = tap[Self(th)].running]
               /\ \E label \in {"m_halt", "h_switch"} : Goto(th, label)
      <4>1. frame'[th].dev = default_dev
        <5>1. frame'[th] = [frame[th] EXCEPT !.dev = default_dev, !.was = tap[Self(th)].running]
          BY <1>2, <3>3, Zenon DEF TypeOK
        <5>2. frame[th] \in FrameRecord
          BY <1>2, Zenon DEF TypeOK
        <5> QED BY <5>1, <5>2, SMT DEF FrameRecord
      <4>2. pc'[th] \in {"m_halt", "h_switch"}
        BY <1>2, <3>3, WentTo, SMT
      <4> QED BY <1>1, <4>1, <4>2, SMT DEF WillFollow
    <3> QED BY <1>3, <1>4, <1>6, <2>1, <2>2, <3>1, <3>2, <3>3, Zenon DEF HandlerDevice
  <2> QED BY <1>1, <1>5, <2>1, <2>2, FollowKept, SMT DEF Live
<1>7. CASE HandlerSwitch(th)
  <2>1. /\ pc[th] = "h_switch" /\ frame' = frame /\ tap' = [tap EXCEPT ![t].dev = frame[th].dev]
        /\ \E label \in {"m_create", "unlock"} : Goto(th, label)
    BY <1>3, <1>7, Zenon DEF HandlerSwitch
  <2>2. th \in MicTaps /\ t = th
    <3>1. OpFits(pc[th], frame[th]) /\ (th = Caller => frame[th].op # "handler")
      BY DEF CalmInv, CallShape, ThreadFits, Fits
    <3> QED BY <1>4, <2>1, <3>1, SMT DEF OpFits, Threads
  <2>3. /\ tap'[t].dev = frame[th].dev /\ tap'[t].life = tap[t].life
        /\ \A o \in Taps \ {t} : tap'[o] = tap[o]
    BY <1>2, <1>3, <2>1, DevUpdated
  <2>4. pc'[th] \in {"m_create", "unlock"}
    BY <1>2, <2>1, WentTo, SMT
  <2>5. WillFollow(th) => WillFollow(th)'
    BY <1>1, <2>1, <2>2, <2>3, <2>4, SMT DEF WillFollow
  <2>6. \A m \in MicTaps : Live(m)' => Live(m)
    BY <1>2, <2>3, SMT DEF Live
  <2>7. \A m \in MicTaps : m # th => tap'[m].dev = tap[m].dev
    BY <1>2, <2>2, <2>3, SMT
  <2> QED BY <1>1, <1>5, <2>5, <2>6, <2>7, FollowKept, SMT
<1>8. CASE ~HandlerDevice(th) /\ ~HandlerSwitch(th)
  <2>1. \/ tap' = tap
        \/ \E v : tap' = [tap EXCEPT ![t].io = v] \/ tap' = [tap EXCEPT ![t].running = v]
        \/ tap' = [tap EXCEPT ![t].io = None, ![t].running = FALSE]
    BY <1>3, <1>8, Zenon DEF MicStep, Lock, Unlock, MicDeviceStop, MicDestroyProc,
       MicCreateProc, MicPermission, MicFindSys, MicPauseSys, MicDeviceStart, MicResult, Jump, shared, Register
  <2>2. \A o \in Taps : tap'[o].life = tap[o].life /\ tap'[o].dev = tap[o].dev
    <3>1. CASE tap' = tap
      BY <3>1
    <3>2. CASE \E v : tap' = [tap EXCEPT ![t].io = v]
      <4>1. PICK v : tap' = [tap EXCEPT ![t].io = v]
        BY <3>2
      <4>2. /\ tap'[t].life = tap[t].life /\ tap'[t].dev = tap[t].dev
            /\ \A o \in Taps \ {t} : tap'[o] = tap[o]
        BY <1>2, <1>3, <4>1, IoUpdated
      <4> QED BY <4>2, SMT
    <3>3. CASE \E v : tap' = [tap EXCEPT ![t].running = v]
      <4>1. PICK v : tap' = [tap EXCEPT ![t].running = v]
        BY <3>3
      <4>2. /\ tap'[t].life = tap[t].life /\ tap'[t].dev = tap[t].dev
            /\ \A o \in Taps \ {t} : tap'[o] = tap[o]
        BY <1>2, <1>3, <4>1, RunningUpdated
      <4> QED BY <4>2, SMT
    <3>4. CASE tap' = [tap EXCEPT ![t].io = None, ![t].running = FALSE]
      <4>1. /\ tap'[t].life = tap[t].life /\ tap'[t].dev = tap[t].dev
            /\ \A o \in Taps \ {t} : tap'[o] = tap[o]
        BY <1>2, <1>3, <3>4, StoppedUpdated
      <4> QED BY <4>1, SMT
    <3> QED BY <2>1, <3>1, <3>2, <3>3, <3>4
  <2>3. \A m \in MicTaps : (Live(m)' => Live(m)) /\ tap'[m].dev = tap[m].dev
    BY <1>2, <2>2, SMT DEF Live
  <2>4. CASE pc[th] \in {"lock", "m_halt", "m_free"}
    <3>1. CASE th \in MicTaps
      <4>1. \/ pc[th] = "lock" /\ Goto(th, "h_device")
            \/ pc[th] = "m_halt" /\ Goto(th, "m_free") /\ frame' = frame
            \/ pc[th] = "m_free" /\ Goto(th, "h_switch") /\ frame' = frame
        <5>1. Lock(th) \/ MicDeviceStop(th) \/ MicDestroyProc(th)
          BY <1>8, <2>4, SMT DEF MicStep, Unlock, MicCreateProc, MicPermission, MicFindSys, MicPauseSys,
             MicDeviceStart, MicResult, Jump
        <5>2. Lock(th) => pc[th] = "lock" /\ Goto(th, "h_device")
          BY <1>4, <3>1, Zenon DEF Lock
        <5> QED BY <1>4, <3>1, <5>1, <5>2, Zenon DEF MicDeviceStop, MicDestroyProc, AfterMicStop
      <4>2. WillFollow(th) => WillFollow(th)'
        <5>1. tap'[th].dev = tap[th].dev
          BY <2>3, <3>1
        <5>2. CASE pc'[th] = "h_device"
          BY <5>2, SMT DEF WillFollow
        <5>3. CASE pc[th] \in {"m_halt", "m_free"} /\ pc'[th] \in {"m_free", "h_switch"} /\ frame' = frame
          BY <1>1, <5>3, SMT DEF WillFollow
        <5> QED BY <1>2, <4>1, <5>2, <5>3, WentTo, SMT
      <4> QED BY <1>1, <1>5, <2>3, <4>2, FollowKept, SMT
    <3>2. CASE th \notin MicTaps
      BY <1>1, <1>5, <2>3, <3>2, FollowKept, SMT
    <3> QED BY <3>1, <3>2
  <2>5. CASE pc[th] \notin {"lock", "m_halt", "m_free"}
    <3>1. pc[th] \notin Following
      <4>1. pc[th] \notin {"h_device", "h_switch"}
        BY <1>8, <2>5, SMT DEF MicStep, Lock, Unlock, MicDeviceStop, MicDestroyProc, MicCreateProc, MicPermission,
           MicFindSys, MicPauseSys, MicDeviceStart, MicResult, Jump
      <4> QED BY <2>5, <4>1, SMT DEF Following
    <3>2. ~Lock(th) /\ ~MicDeviceStop(th) /\ ~MicDestroyProc(th)
      BY <2>5, SMT DEF Lock, MicDeviceStop, MicDestroyProc
    <3>3. th \in MicTaps => AfterStop(th) = "return"
      BY <1>4, SMT DEF AfterStop
    <3>4. th \in MicTaps => \E label \in {"return", "unlock", "m_permission", "m_pause", "m_start", "m_check",
                        "x_halt", "m_result", "s_create"} : Goto(th, label)
      BY <1>8, <3>2, <3>3, Zenon DEF MicStep, Unlock,
         MicCreateProc, MicPermission, MicFindSys, MicPauseSys, MicDeviceStart, MicResult, Jump
    <3>5. th \in MicTaps => pc'[th] \notin Following
      BY <1>2, <3>4, WentTo, SMT DEF Following
    <3> QED BY <1>1, <1>5, <2>3, <3>1, <3>5, FollowPlain, SMT
  <2> QED BY <2>4, <2>5
<1> QED BY <1>6, <1>7, <1>8

\* The listener is registered after the default device was read: what changes
\* in between is seen by nobody, and nothing changes in between.
LEMMA CreateStepFollows ==
  ASSUME CalmInv, NEW th \in Threads, CreateStep(th), Moves(th), faults' = 0 => faults = 0
  PROVE  FollowInv'
<1>1. /\ pc[th] \in {"c_tap", "c_aggregate", "c_alloc", "c_device", "c_listen"}
      /\ UNCHANGED <<pending, default_dev>> /\ Self(th)' = Self(th)
  <2>1. /\ pc[th] \in {"c_tap", "c_aggregate", "c_alloc", "c_device", "c_listen"}
        /\ UNCHANGED <<pending, default_dev>>
    BY SMT DEF CreateStep, CreateTap, CreateAggregate, CreateAlloc, CreateMic, Listen, hal, env
  <2>2. Failed(th) \/ UNCHANGED frame
    BY Zenon DEF CreateStep, CreateTap, CreateAggregate, CreateAlloc, CreateMic, Listen
  <2>3. FramesKeep(th)
    BY <2>2, FailedKeeps, UnchangedKeeps, Zenon DEF CalmInv, ATInv
  <2> QED BY <2>1, <2>3 DEF FramesKeep, Self
<1>2. PICK t \in Taps : t = Self(th)
  BY <1>1, LifeWork, SMT
<1>3. /\ th = Caller /\ TypeOK /\ MicTaps \subseteq Taps /\ Caller \notin MicTaps
      /\ pc[th] \in {"c_tap", "c_aggregate", "c_alloc"} => t \notin MicTaps
      /\ pc[th] \in {"c_device", "c_listen"} => t \in MicTaps
      /\ \A m \in MicTaps : pc[m] = "ready"
  <2>1. frame[th].op \in {"create", "destroy"}
    BY <1>1, LifeWork
  <2> QED BY <1>1, <1>2, <2>1, LifeWork, Alone, AudioTapAssumption, SMT
<1>4. CASE CreateTap(th) \/ CreateAggregate(th) \/ CreateAlloc(th)
  <2>1. pc[th] \notin {"c_device", "c_listen", "d_free"} \cup Following
    BY <1>4, SMT DEF CreateTap, CreateAggregate, CreateAlloc, Following
  <2>2. listening' = listening
    BY <1>4, SMT DEF CreateTap, CreateAggregate, CreateAlloc, hal, env
  <2>3. tap' = tap \/ tap' = [tap EXCEPT ![t].life = "live"]
    BY <1>2, <1>4, Zenon DEF CreateTap, CreateAggregate, CreateAlloc, shared
  <2>4. \A o \in Taps \ {t} : tap'[o] = tap[o]
    BY <1>3, <2>3, LifeUpdated, Zenon
  <2>5. \A m \in MicTaps : tap'[m] = tap[m]
    BY <1>1, <1>3, <2>1, <2>4, SMT
  <2> QED BY <1>1, <1>3, <2>1, <2>2, <2>5, FollowPlain, SMT DEF Live
<1>5. CASE CreateMic(th)
  <2>1. pc[th] = "c_device" /\ listening' = listening /\ t \in MicTaps
    BY <1>3, <1>5, SMT DEF CreateMic, hal, env
  <2>2. CASE tap' = tap
    BY <1>1, <1>3, <2>1, <2>2, FollowPlain, SMT DEF Live, Following
  <2>3. CASE /\ Goto(th, "c_listen") /\ frame' = frame
             /\ tap' = [tap EXCEPT ![t].life = "live", ![t].dev = default_dev]
    <3>1. pc'[th] = "c_listen"
      BY <1>3, <2>3, WentTo
    <3>2. tap'[t].dev = default_dev /\ \A o \in Taps \ {t} : tap'[o] = tap[o]
      BY <1>3, <2>3, CreatedUpdated
    <3> SUFFICES ASSUME faults' = 0, NEW m \in MicTaps, Live(m)'
                 PROVE  (Hears(m) /\ (default_dev # None => WillFollow(m)))'
      BY DEF FollowInv
    <3>3. pc'[m] = "ready"
      BY <1>3, SMT DEF Moves, Threads
    <3>4. CASE m = t
      BY <1>1, <1>2, <1>3, <3>1, <3>2, <3>3, <3>4, SMT DEF Hears, WillFollow
    <3>5. CASE m # t
      <4>1. tap'[m] = tap[m]
        BY <1>3, <3>2, <3>5
      <4>2. Live(m) /\ m # Self(th)
        BY <1>2, <3>5, <4>1 DEF Live
      <4>3. Hears(m) /\ (default_dev # None => WillFollow(m))
        BY <4>2, SMT DEF CalmInv, FollowInv
      <4> QED BY <1>1, <1>3, <2>1, <3>3, <4>1, <4>2, <4>3, SMT DEF Hears, WillFollow
    <3> QED BY <3>4, <3>5
  <2> QED BY <1>2, <1>5, <2>2, <2>3, Zenon DEF CreateMic
<1>6. CASE Listen(th)
  <2>1. /\ tap' = tap /\ frame' = frame /\ t \in MicTaps
        /\ listening' = listening \cup {t} \/ Fault
    BY <1>2, <1>3, <1>6, SMT DEF Listen, shared
  <2> SUFFICES ASSUME faults' = 0, NEW m \in MicTaps, Live(m)'
               PROVE  (Hears(m) /\ (default_dev # None => WillFollow(m)))'
    BY DEF FollowInv
  <2>2. listening' = listening \cup {t}
    BY <1>3, <2>1, SMT DEF Fault, TypeOK
  <2>3. Hears(m) /\ (default_dev # None => WillFollow(m))
    BY <2>1, SMT DEF CalmInv, FollowInv, Live
  <2>4. m \in listening'
    BY <1>2, <1>3, <2>2, <2>3, SMT DEF Hears
  <2>5. pc'[m] = pc[m] /\ frame'[m] = frame[m]
    BY <1>3, SMT DEF Moves, Threads
  <2> QED BY <1>1, <2>1, <2>3, <2>4, <2>5, SMT DEF Hears, WillFollow
<1> QED BY <1>4, <1>5, <1>6 DEF CreateStep

LEMMA DestroyStepFollows ==
  ASSUME CalmInv, NEW th \in Threads, DestroyStep(th), Moves(th), faults' = 0 => faults = 0
  PROVE  FollowInv'
<1>1. default_dev' = default_dev /\ frame' = frame /\ Self(th)' = Self(th) /\ TypeOK
      /\ Caller \notin MicTaps /\ MicTaps \subseteq Taps
  BY AudioTapAssumption, SMT DEF DestroyStep, Destroy, DestroyAggregate, DestroyTap, Unlisten, Free, Jump, hal, env,
     Self, CalmInv, ATInv, Taps
<1>2. CASE Destroy(th) \/ DestroyAggregate(th) \/ DestroyTap(th)
  <2>1. /\ UNCHANGED <<tap, listening, pending>>
        /\ pc[th] \in {"destroy", "d_aggregate", "d_tap"}
    BY <1>2, SMT DEF Destroy, DestroyAggregate, DestroyTap, Jump, shared, hal, env
  <2>2. frame[th].op \in {"create", "destroy"}
    BY <2>1, SMT DEF CalmInv, CallShape, ThreadFits, Fits, OpFits
  <2>3. th = Caller
    BY <2>2, Alone
  <2> QED BY <1>1, <2>1, <2>3, FollowPlain, SMT DEF Live, Following
<1>3. CASE Unlisten(th) \/ Free(th)
  <2>1. pc[th] \in {"d_unlisten", "d_free"}
    BY <1>3, SMT DEF Unlisten, Free
  <2>2. PICK t \in Taps : t = Self(th)
    BY <2>1, LifeWork, SMT
  <2>3. th = Caller /\ \A m \in MicTaps : pc[m] = "ready" /\ pending[m] = 0
    <3>1. frame[th].op \in {"create", "destroy"}
      BY <2>1, LifeWork
    <3> QED BY <3>1, Alone
  <2> SUFFICES ASSUME faults' = 0, NEW m \in MicTaps, Live(m)'
               PROVE  (Hears(m) /\ (default_dev # None => WillFollow(m)))'
    BY DEF FollowInv
  <2>4. pc'[m] = pc[m] /\ frame'[m] = frame[m]
    BY <1>1, <2>3, SMT DEF Moves, Threads
  <2>5. CASE Unlisten(th)
    <3>1. /\ tap' = tap /\ listening' = listening \ {t} /\ pending' = pending
          /\ Goto(th, "d_free")
      BY <2>2, <2>5, SMT DEF Unlisten, shared
    <3>2. Hears(m) /\ (default_dev # None => WillFollow(m))
      BY <3>1, SMT DEF CalmInv, FollowInv, Live
    <3>3. pending'[m] = 0 /\ pc'[th] = "d_free" /\ pc[th] = "d_unlisten"
      BY <1>1, <2>3, <2>5, <3>1, WentTo, SMT DEF TypeOK, Unlisten
    <3> QED BY <1>1, <2>2, <2>3, <2>4, <3>1, <3>2, <3>3, SMT DEF Hears, WillFollow
  <2>6. CASE Free(th)
    <3>1. tap' = [tap EXCEPT ![t].life = "freed"] /\ listening' = listening /\ pending' = pending
      BY <2>2, <2>6, SMT DEF Free, hal, env
    <3>2. tap'[t].life = "freed" /\ \A o \in Taps \ {t} : tap'[o] = tap[o]
      BY <1>1, <3>1, LifeUpdated
    <3>3. m # t /\ tap'[m] = tap[m]
      BY <1>1, <3>2, SMT DEF Live
    <3>4. Hears(m) /\ (default_dev # None => WillFollow(m))
      BY <3>3, SMT DEF CalmInv, FollowInv, Live
    <3> QED BY <1>1, <2>2, <2>3, <2>4, <3>1, <3>3, <3>4, SMT DEF Hears, WillFollow
  <2> QED BY <1>3, <2>5, <2>6
<1> QED BY <1>2, <1>3 DEF DestroyStep

\* A change of the default device finds the listener of every live microphone
\* tap registered.
LEMMA DeviceChangeFollows ==
  ASSUME Calm, CalmInv, NEW dev, DeviceChange(dev)
  PROVE  FollowInv'
<1>1. /\ UNCHANGED <<tap, pc, frame, listening, faults>>
      /\ pending' = [m \in MicTaps |-> IF m \in listening THEN pending[m] + 1 ELSE pending[m]]
      /\ pc[Caller] = "ready" \/ <<frame[Caller].op, Self(Caller)>> \in OverlapCalls
  BY SMT DEF DeviceChange, shared
<1>2. pc[Caller] \notin {"c_listen", "d_free"}
  <2>1. <<frame[Caller].op, Self(Caller)>> \in OverlapCalls => frame[Caller].op \in {"start", "stop"}
    BY SMT DEF Calm
  <2> QED BY <1>1, <2>1, SMT DEF CalmInv, CallShape, ThreadFits, Fits, OpFits, Threads
<1> SUFFICES ASSUME faults = 0, NEW m \in MicTaps, Live(m)
             PROVE  (Hears(m) /\ WillFollow(m))'
  BY <1>1, SMT DEF FollowInv, Live
<1>3. m \in listening
  BY <1>2, SMT DEF CalmInv, FollowInv, Hears
<1>4. pending'[m] > 0
  BY <1>1, <1>3, SMT DEF CalmInv, ATInv, TypeOK
<1> QED BY <1>1, <1>3, <1>4, SMT DEF Hears, WillFollow

LEMMA NextFollow ==
  ASSUME Calm, CalmInv, [Next]_vars
  PROVE  FollowInv'
<1>1. TypeOK /\ (faults' = 0 => faults = 0) /\ Caller \in Threads /\ Caller \notin MicTaps
  BY FaultsStay, AudioTapAssumption, SMT DEF CalmInv, ATInv, Threads, Taps
<1>2. ASSUME NEW fun, NEW t, Call(fun, t) PROVE FollowInv'
  <2>1. /\ pc[Caller] = "ready" /\ UNCHANGED <<tap, listening, pending, default_dev>>
        /\ \A o \in Threads \ {Caller} : pc'[o] = pc[o] /\ frame'[o] = frame[o]
    <3>1. frame' = [frame EXCEPT ![Caller] = Frame(fun, t, IF t \in SysTaps THEN t ELSE None)]
          /\ \E label : pc' = [pc EXCEPT ![Caller] = label]
      BY <1>2, Zenon DEF Call, Goto
    <3> QED BY <1>1, <1>2, <3>1, SMT DEF Call, shared, hal, env, TypeOK
  <2> QED BY <1>1, <2>1, FollowPlain, SMT DEF Moves, Live, Following
<1>3. ASSUME NEW answer, UserAnswers(answer) PROVE FollowInv'
  <2>1. /\ pc[Caller] = "dialog" /\ UNCHANGED <<tap, listening, pending, default_dev, frame>>
        /\ \A o \in Threads \ {Caller} : pc'[o] = pc[o]
    BY <1>1, <1>3, SMT DEF UserAnswers, shared, Goto, TypeOK
  <2> QED BY <1>1, <2>1, FollowPlain, SMT DEF Moves, Live, Following
<1>4. ASSUME NEW m \in MicTaps, HandlerBegin(m) PROVE FollowInv'
  <2>1. /\ UNCHANGED <<tap, listening, default_dev>> /\ Goto(m, "lock") /\ m \in Threads /\ m # Caller
        /\ frame' = [frame EXCEPT ![m] = Frame("handler", m, None)]
        /\ pending' = [pending EXCEPT ![m] = @ - 1]
    BY <1>1, <1>4, SMT DEF HandlerBegin, shared, Threads
  <2>2. /\ \A o \in Threads \ {m} : pc'[o] = pc[o] /\ frame'[o] = frame[o]
        /\ pc'[m] = "lock" /\ \A o \in MicTaps \ {m} : pending'[o] = pending[o]
    BY <1>1, <2>1, SMT DEF Goto, TypeOK
  <2> SUFFICES ASSUME faults' = 0, NEW o \in MicTaps, Live(o)'
               PROVE  (Hears(o) /\ (default_dev # None => WillFollow(o)))'
    BY DEF FollowInv
  <2>3. Hears(o) /\ (default_dev # None => WillFollow(o))
    BY <1>1, <2>1, SMT DEF CalmInv, FollowInv, Live
  <2>4. Hears(o)'
    BY <1>1, <2>1, <2>2, <2>3, SMT DEF Hears, Self
  <2>5. default_dev # None => WillFollow(o)'
    <3>1. CASE o = m
      BY <2>2, <3>1 DEF WillFollow
    <3>2. CASE o # m
      <4>1. pc'[o] = pc[o] /\ frame'[o] = frame[o] /\ pending'[o] = pending[o]
        BY <2>2, <3>2, SMT DEF Threads
      <4> QED BY <2>1, <2>3, <4>1, SMT DEF WillFollow
    <3> QED BY <3>1, <3>2
  <2> QED BY <2>1, <2>4, <2>5
<1>5. ASSUME NEW th \in Threads, Step(th) PROVE FollowInv'
  <2>1. CASE Return(th)
    <3>1. /\ pc[th] = "return" /\ UNCHANGED <<tap, listening, pending, default_dev>> /\ Goto(th, "ready")
          /\ frame' = [frame EXCEPT ![th] = NoFrame]
      BY <2>1, SMT DEF Return, shared, hal, env
    <3>2. Moves(th) /\ pc'[th] = "ready"
      BY <1>1, <3>1, WentTo, SMT DEF Moves, TypeOK
    <3> QED BY <1>1, <3>1, <3>2, FollowPlain, SMT DEF Live, Following
  <2>2. CASE Start(th) \/ Stop(th) \/ RequestPermission(th)
    <3>1. /\ pc[th] \in {"start", "stop", "permission"} /\ UNCHANGED <<tap, listening, pending, default_dev, frame>>
          /\ \E label : Goto(th, label)
      BY <2>2, Zenon DEF Start, Stop, RequestPermission, Jump, shared, hal, env
    <3>2. Moves(th)
      BY <1>1, <3>1, WentTo, SMT DEF Moves
    <3>3. th \notin MicTaps
      BY <3>1, SMT DEF CalmInv, CallShape, ThreadFits, Fits, OpFits
    <3> QED BY <1>1, <3>1, <3>2, <3>3, FollowPlain, SMT DEF Live, Following
  <2>3. CASE CreateStep(th) \/ DestroyStep(th) \/ SysStep(th) \/ MicStep(th)
    <3>1. Moves(th)
      BY <2>3, StepMoves
    <3> QED BY <1>1, <2>3, <3>1, CreateStepFollows, DestroyStepFollows, SysStepFollows, MicStepFollows
  <2> QED BY <1>5, <2>1, <2>2, <2>3 DEF Step
<1>6. CASE UNCHANGED vars
  <2>1. UNCHANGED <<tap, listening, pending, default_dev, pc, frame, faults>>
    BY <1>6, SMT DEF vars, shared, hal, env, bounds
  <2> QED BY <2>1, SMT DEF CalmInv, FollowInv, Live, Hears, WillFollow, Self
<1> QED BY <1>2, <1>3, <1>4, <1>5, <1>6, DeviceChangeFollows, Zenon DEF Next

-----------------------------------------------------------------------------
(* Wishes.  A step makes a tap run only in a call that asks for it, and    *)
(* ends its run only in a call that asks for this, or after a failure.     *)

\* What a step of th changes of a tap: whether it runs, whether its listener
\* restarts it, whether th pauses it.
LEMMA UpMoved ==
  ASSUME NEW th \in Threads, Moves(th), NEW t \in Taps, tap'[t].running = tap[t].running,
         t = th /\ t \in MicTaps => (Restarting(t)' <=> Restarting(t)),
         t \in SysTaps => (PausedBy(th, t)' <=> PausedBy(th, t))
  PROVE  Up(t)' <=> Up(t)
<1>1. t \in MicTaps => (Restarting(t)' <=> Restarting(t))
  <2>1. CASE t \in MicTaps /\ t # th
    <3>1. pc'[t] = pc[t] /\ frame'[t] = frame[t]
      BY <2>1, SMT DEF Moves, Threads
    <3> QED BY <3>1, SMT DEF Restarting
  <2> QED BY <2>1
<1>2. t \in SysTaps => (Paused(t)' <=> Paused(t))
  <2>1. ASSUME NEW o \in Threads, o # th PROVE PausedBy(o, t)' <=> PausedBy(o, t)
    BY <2>1, SMT DEF Moves, PausedBy, Self, Sys
  <2>2. t \in SysTaps => \A o \in Threads : PausedBy(o, t)' <=> PausedBy(o, t)
    BY <2>1
  <2> QED BY <2>2 DEF Paused
<1> QED BY <1>1, <1>2, SMT DEF Up

LEMMA UpSame ==
  ASSUME NEW th \in Threads, Moves(th), \A t \in Taps : tap'[t].running = tap[t].running,
         th \in MicTaps => pc[th] \notin RestartLabels \cup {"h_switch"}
                           /\ pc'[th] \notin RestartLabels \cup {"h_switch"},
         Self(th) \in MicTaps => pc[th] \notin PauseLabels,
         Self(th)' \in MicTaps => pc'[th] \notin PauseLabels
  PROVE  \A t \in Taps : Up(t)' <=> Up(t)
<1> SUFFICES ASSUME NEW t \in Taps PROVE Up(t)' <=> Up(t)
  OBVIOUS
<1>1. t = th /\ t \in MicTaps => (Restarting(t)' <=> Restarting(t))
  BY SMT DEF Restarting
<1>2. PausedBy(th, t)' <=> PausedBy(th, t)
  BY SMT DEF PausedBy
<1> QED BY <1>1, <1>2, UpMoved

\* A step of thread th makes a tap run only when it has just been started, by
\* the caller, and with it
RunsOnlyAsked(th) ==
  \A t \in Taps : Up(t)' =>
    Up(t) \/ (th = Caller /\ Self(th) = t /\ pc[th] \in {"m_result", "s_running"})

\* ends its run only if something failed or the caller stops it.
EndsOnlyAsked(th) ==
  faults' = 0 => \A t \in Taps : Up(t) =>
    Up(t)' \/ (th = Caller /\ Self(th) = t /\ frame[th].op \in {"stop", "destroy"})

LEMMA UpSysStep ==
  ASSUME Calm, CalmInv, NEW th \in Threads, SysStep(th), Moves(th), FramesKeep(th), Registry'
  PROVE  RunsOnlyAsked(th) /\ EndsOnlyAsked(th)
<1>1. pc[th] \in SysCode
  BY SysStepTaps
<1>2. pc[th] \in LockedLabels
  BY SysStepTaps
<1>3. PICK s \in SysTaps : s = Sys(th) /\ s \in Taps /\ s \notin MicTaps
  BY <1>1, <1>2, AtWork, SMT
<1>4. MicTaps \subseteq Taps /\ SysTaps \subseteq Taps /\ MicTaps \cap SysTaps = {} /\ TypeOK /\ SysPhase(th)
      /\ Self(th) \in Taps
  BY <1>2, AtWork DEF CalmInv, ATInv
<1>5. Self(th)' = Self(th) /\ Sys(th)' = s /\ frame'[th].op = frame[th].op
  BY <1>3 DEF FramesKeep, Self, Sys
<1>6. \/ tap' = tap
      \/ \E v : tap' = [tap EXCEPT ![s].io = v]
      \/ pc[th] = "s_running" /\ tap' = [tap EXCEPT ![s].running = TRUE]
      \/ pc[th] = "x_clear" /\ tap' = [tap EXCEPT ![s].running = FALSE]
  BY <1>3, Zenon DEF SysStep, SysCreateProc, SysDeviceStart, SysSetRunning, SysSetActive, SysDeviceStop,
     SysDestroyProc, SysClearRunning, SysClearActive, shared, Register
<1>7. /\ \A o \in Taps \ {s} : tap'[o] = tap[o]
      /\ \/ tap'[s].running = tap[s].running
         \/ pc[th] = "s_running" \/ pc[th] = "x_clear"
      /\ pc[th] = "s_running" => tap'[s].running = TRUE \/ tap'[s].running = tap[s].running
      /\ pc[th] = "x_clear" => tap'[s].running = FALSE \/ tap'[s].running = tap[s].running
  <2>1. CASE tap' = tap
    BY <2>1
  <2>2. CASE \E v : tap' = [tap EXCEPT ![s].io = v]
    <3>1. PICK v : tap' = [tap EXCEPT ![s].io = v]
      BY <2>2
    <3>2. tap'[s].running = tap[s].running /\ \A o \in Taps \ {s} : tap'[o] = tap[o]
      BY <1>3, <1>4, <3>1, IoUpdated
    <3> QED BY <3>2
  <2>3. CASE pc[th] = "s_running" /\ tap' = [tap EXCEPT ![s].running = TRUE]
    <3>1. tap'[s].running = TRUE /\ \A o \in Taps \ {s} : tap'[o] = tap[o]
      BY <1>3, <1>4, <2>3, RunningUpdated
    <3>2. pc[th] # "x_clear"
      BY <2>3
    <3> QED BY <2>3, <3>1, <3>2, Zenon
  <2>4. CASE pc[th] = "x_clear" /\ tap' = [tap EXCEPT ![s].running = FALSE]
    <3>1. tap'[s].running = FALSE /\ \A o \in Taps \ {s} : tap'[o] = tap[o]
      BY <1>3, <1>4, <2>4, RunningUpdated
    <3>2. pc[th] # "s_running"
      BY <2>4
    <3> QED BY <2>4, <3>1, <3>2, Zenon
  <2> QED BY <1>6, <2>1, <2>2, <2>3, <2>4
<1>8. ASSUME NEW t \in Taps, t # s PROVE Up(t)' <=> Up(t)
  <2>1. tap'[t].running = tap[t].running
    BY <1>7, <1>8
  <2>2. PausedBy(th, t)' <=> PausedBy(th, t)
    BY <1>3, <1>5, <1>8 DEF PausedBy
  <2>3. t = th /\ t \in MicTaps => (Restarting(t)' <=> Restarting(t))
    <3>1. CASE th \in MicTaps
      <4>1. Self(th) = th /\ Self(th) \notin SysTaps
        BY <1>2, <1>4, <3>1, SMT DEF CalmInv, CallShape, ThreadFits, LockedLabels, Serialized
      <4>2. \E label \in SysCode \cup {"m_start", "m_result"} : Goto(th, label)
        BY <3>1, <4>1, Zenon DEF SysStep, SysCreateProc, SysDeviceStart, SysSetRunning, SysSetActive, SysDeviceStop,
           SysDestroyProc, SysClearRunning, SysClearActive, AfterSysStart, AfterSysStop, SysCode, SysStarts, SysStops
      <4>3. pc'[th] \in SysCode \cup {"m_start", "m_result"}
        BY <1>4, <4>2, WentTo, SMT
      <4> QED BY <1>1, <4>3, SMT DEF Restarting, RestartLabels, LockedLabels, Serialized, SysCode, SysStarts, SysStops
    <3> QED BY <3>1
  <2> QED BY <2>1, <2>2, <2>3, UpMoved
<1>9. CASE Self(th) \in MicTaps
  <2>1. Up(s)
    <3>1. tap[s].running \/ pc[th] \in PauseLabels
      BY <1>1, <1>3, <1>4, SMT DEF SysPhase, SysCode, SysStarts, SysStops, PauseLabels
    <3> QED BY <1>3, <1>9, <3>1 DEF Up, Paused, PausedBy
  <2>2. faults' = 0 => Up(s)'
    <3>1. SysPhase(th)'
      BY DEF Registry
    <3>2. \/ \E label \in SysCode \cup {"m_start"} : Goto(th, label)
          \/ pc[th] = "s_active" /\ tap' = tap
          \/ Fault
      BY <1>9, Zenon DEF SysStep, SysCreateProc, SysDeviceStart, SysSetRunning, SysSetActive, SysDeviceStop,
           SysDestroyProc, SysClearRunning, SysClearActive, AfterSysStart, AfterSysStop, SysCode, SysStarts, SysStops
    <3>3. CASE \E label \in SysCode \cup {"m_start"} : Goto(th, label)
      <4>1. pc'[th] \in SysCode \cup {"m_start"}
        BY <1>4, <3>3, WentTo, SMT
      <4>2. tap'[s].running \/ pc'[th] \in PauseLabels
        BY <1>5, <3>1, <4>1, SMT DEF SysPhase, SysCode, SysStarts, SysStops, PauseLabels
      <4> QED BY <1>3, <1>5, <1>9, <4>2 DEF Up, Paused, PausedBy
    <3>4. CASE pc[th] = "s_active" /\ tap' = tap
      <4>1. tap[s].running
        BY <1>3, <1>4, <3>4, SMT DEF SysPhase
      <4> QED BY <3>4, <4>1 DEF Up
    <3>5. CASE Fault
      BY <1>4, <3>5, SMT DEF Fault, TypeOK
    <3> QED BY <3>2, <3>3, <3>4, <3>5
  <2> QED BY <1>8, <2>1, <2>2 DEF RunsOnlyAsked, EndsOnlyAsked
<1>10. CASE Self(th) \in SysTaps
  <2>1. th = Caller /\ Self(th) = s
    <3>1. TapFits(pc[th], frame[th])
      BY DEF CalmInv, CallShape, ThreadFits, Fits
    <3> QED BY <1>3, <1>10, <3>1, OnlyCaller, SMT DEF CalmInv, TapFits, Self, Sys
  <2>2. ~PausedBy(th, s) /\ ~PausedBy(th, s)' /\ th \notin MicTaps
    BY <1>4, <1>5, <1>10, <2>1, AudioTapAssumption, SMT DEF PausedBy, Taps
  <2>3. CASE tap'[s].running = tap[s].running
    <3>1. Up(s)' <=> Up(s)
      BY <1>3, <2>2, <2>3, UpMoved
    <3> QED BY <1>8, <3>1, SMT DEF RunsOnlyAsked, EndsOnlyAsked
  <2>4. CASE pc[th] = "s_running"
    <3>1. tap'[s].running = tap[s].running \/ Up(s)'
      BY <1>7, <2>4, SMT DEF Up
    <3> QED BY <1>8, <2>1, <2>3, <2>4, <3>1, SMT DEF RunsOnlyAsked, EndsOnlyAsked
  <2>5. CASE pc[th] = "x_clear" /\ tap'[s].running = FALSE
    <3>1. frame[th].op \in {"stop", "destroy"}
      BY <1>10, <2>5, SMT DEF CalmInv, CallShape, ThreadFits, Fits, OpFits, SysStops, Self
    <3>2. ~Up(s)'
      <4>1. ASSUME NEW o \in Threads PROVE ~PausedBy(o, s)'
        <5>1. CASE o = th
          BY <2>2, <5>1
        <5>2. CASE o # th
          <6>1. o \in MicTaps /\ pc'[o] = "ready"
            <7>1. o \in MicTaps /\ pc[o] = "ready"
              BY <1>10, <2>1, <5>2, OnlyCaller, SMT DEF CalmInv, Threads
            <7> QED BY <5>2, <7>1 DEF Moves
          <6> QED BY <6>1, SMT DEF PausedBy, PauseLabels
        <5> QED BY <5>1, <5>2
      <4> QED BY <1>3, <2>5, <4>1, SMT DEF Up, Paused
    <3> QED BY <1>8, <2>1, <3>1, <3>2, SMT DEF RunsOnlyAsked, EndsOnlyAsked
  <2> QED BY <1>7, <2>3, <2>4, <2>5
<1> QED BY <1>4, <1>9, <1>10 DEF Taps

\* What a step of microphone code changes of its tap.
LEMMA MicStepTap ==
  ASSUME CalmInv, NEW th \in Threads, MicStep(th)
  PROVE  /\ Self(th) \in MicTaps /\ pc[th] \in Serialized \cup {"lock"}
         /\ \A o \in Taps \ {Self(th)} : tap'[o] = tap[o]
         /\ \/ tap'[Self(th)].running = tap[Self(th)].running
            \/ pc[th] = "m_result" /\ frame[th].ok /\ tap'[Self(th)].running
            \/ pc[th] = "m_free" /\ ~tap'[Self(th)].running
<1>1. pc[th] \in Serialized \cup {"lock"}
  BY SMT DEF MicStep, Lock, Unlock, HandlerDevice, HandlerSwitch, MicDeviceStop, MicDestroyProc, MicCreateProc,
     MicPermission, MicFindSys, MicPauseSys, MicDeviceStart, MicResult, Jump, Serialized
<1>2. TypeOK /\ MicTaps \subseteq Taps
  BY SMT DEF CalmInv, ATInv, Taps
<1>3. PICK t \in MicTaps : t = Self(th) /\ t \in Taps
  BY <1>1, <1>2, SMT DEF CalmInv, ATInv, CallInv, MicLabels
<1>4. \/ tap' = tap
      \/ \E v : tap' = [tap EXCEPT ![t].io = v] \/ tap' = [tap EXCEPT ![t].dev = v]
      \/ pc[th] = "m_result" /\ frame[th].ok /\ tap' = [tap EXCEPT ![t].running = TRUE]
      \/ pc[th] = "m_free" /\ tap' = [tap EXCEPT ![t].io = None, ![t].running = FALSE]
  BY <1>3, Zenon DEF MicStep, Lock, Unlock, HandlerDevice, HandlerSwitch, MicDeviceStop, MicDestroyProc,
     MicCreateProc, MicPermission, MicFindSys, MicPauseSys, MicDeviceStart, MicResult, Jump, shared, Register
<1>5. CASE tap' = tap
  BY <1>1, <1>3, <1>5
<1>6. CASE \E v : tap' = [tap EXCEPT ![t].io = v]
  <2>1. PICK v : tap' = [tap EXCEPT ![t].io = v]
    BY <1>6
  <2>2. tap'[t].running = tap[t].running /\ \A o \in Taps \ {t} : tap'[o] = tap[o]
    BY <1>2, <1>3, <2>1, IoUpdated
  <2> QED BY <1>1, <1>3, <2>2
<1>7. CASE \E v : tap' = [tap EXCEPT ![t].dev = v]
  <2>1. PICK v : tap' = [tap EXCEPT ![t].dev = v]
    BY <1>7
  <2>2. tap'[t].running = tap[t].running /\ \A o \in Taps \ {t} : tap'[o] = tap[o]
    BY <1>2, <1>3, <2>1, DevUpdated
  <2> QED BY <1>1, <1>3, <2>2
<1>8. CASE pc[th] = "m_result" /\ frame[th].ok /\ tap' = [tap EXCEPT ![t].running = TRUE]
  <2>1. tap'[t].running = TRUE /\ \A o \in Taps \ {t} : tap'[o] = tap[o]
    BY <1>2, <1>3, <1>8, RunningUpdated
  <2> QED BY <1>1, <1>3, <1>8, <2>1
<1>9. CASE pc[th] = "m_free" /\ tap' = [tap EXCEPT ![t].io = None, ![t].running = FALSE]
  <2>1. tap'[t].running = FALSE /\ \A o \in Taps \ {t} : tap'[o] = tap[o]
    BY <1>2, <1>3, <1>9, StoppedUpdated
  <2> QED BY <1>1, <1>3, <1>9, <2>1
<1> QED BY <1>4, <1>5, <1>6, <1>7, <1>8, <1>9

\* The listener that halts its tap restarts it, if nothing fails.
LEMMA UpHandler ==
  ASSUME Calm, CalmInv, NEW th \in MicTaps, MicStep(th), Moves(th)
  PROVE  (Up(th)' => Up(th)) /\ (faults' = 0 => (Up(th) => Up(th)'))
<1>1. /\ th \in Threads /\ th \in Taps /\ th # Caller /\ TypeOK /\ th \notin SysTaps
      /\ MicTaps \subseteq Taps
  BY AudioTapAssumption, SMT DEF CalmInv, ATInv, Threads, Taps
<1>2. Self(th) = th /\ frame[th].op = "handler" /\ pc[th] \in Serialized \cup {"lock"}
  <2>1. pc[th] \in Serialized \cup {"lock"}
    BY <1>1, MicStepTap
  <2> QED BY <1>1, <2>1, SMT DEF CalmInv, CallShape, ThreadFits, Serialized
<1>3. /\ \/ tap'[th].running = tap[th].running
         \/ pc[th] = "m_result" /\ frame[th].ok /\ tap'[th].running
         \/ pc[th] = "m_free" /\ ~tap'[th].running
  BY <1>1, <1>2, MicStepTap
<1>4. Up(th) <=> tap[th].running \/ Restarting(th)
  BY <1>1 DEF Up
<1>5. Up(th)' <=> tap'[th].running \/ Restarting(th)'
  BY <1>1 DEF Up
<1>6. CASE pc[th] \in RestartLabels \ {"m_free"}
  <2>1. Restarting(th)
    BY <1>6 DEF Restarting
  <2>2. faults' = 0 => Restarting(th)' \/ tap'[th].running
    <3>1. \/ \E label \in RestartLabels : Goto(th, label)
          \/ Fault
          \/ pc[th] = "m_permission" /\ permission # "granted"
          \/ pc[th] = "m_result" /\ (~frame[th].ok \/ tap' = [tap EXCEPT ![th].running = TRUE])
      <4>1. pc[th] \notin {"lock", "unlock", "h_device", "h_switch", "m_free"}
        BY <1>6, SMT DEF RestartLabels, LockedLabels, Serialized
      <4>2. ~Lock(th) /\ ~Unlock(th) /\ ~HandlerDevice(th) /\ ~HandlerSwitch(th) /\ ~MicDestroyProc(th)
        BY <4>1 DEF Lock, Unlock, HandlerDevice, HandlerSwitch, MicDestroyProc
      <4>3. {"m_free", "m_permission", "m_pause", "m_start", "m_check", "x_halt", "m_result", "s_create"}
              \subseteq RestartLabels
        BY SMT DEF RestartLabels, LockedLabels, Serialized
      <4>4. \/ \E label \in {"m_free", "m_permission", "m_pause", "m_start", "m_check", "x_halt", "m_result",
                             "s_create"} : Goto(th, label)
            \/ Fault
            \/ pc[th] = "m_permission" /\ permission # "granted"
            \/ pc[th] = "m_result" /\ (~frame[th].ok \/ tap' = [tap EXCEPT ![th].running = TRUE])
        BY <1>2, <4>2, Zenon DEF MicStep, MicDeviceStop, MicCreateProc, MicPermission, MicFindSys, MicPauseSys,
           MicDeviceStart, MicResult, Jump
      <4> QED BY <4>3, <4>4
    <3>2. CASE \E label \in RestartLabels : Goto(th, label)
      <4>1. pc'[th] \in RestartLabels
        BY <1>1, <3>2, WentTo, SMT
      <4> QED BY <4>1 DEF Restarting
    <3>3. CASE Fault
      BY <1>1, <3>3, SMT DEF Fault, TypeOK
    <3>4. permission = "granted"
      BY <1>1, <1>4, <2>1, SMT DEF CalmInv, Wishes, GrantInv
    <3>5. CASE pc[th] = "m_result" /\ (~frame[th].ok \/ tap' = [tap EXCEPT ![th].running = TRUE])
      <4>1. faults' = 0 => faults = 0
        <5>1. UNCHANGED faults \/ Fault
          BY Zenon DEF MicStep, Lock, Unlock, HandlerDevice, HandlerSwitch, MicDeviceStop,
             MicDestroyProc, MicCreateProc, MicPermission, MicFindSys, MicPauseSys, MicDeviceStart, MicResult, Jump,
             NoFault, bounds
        <5> QED BY <1>1, <5>1, SMT DEF Fault, TypeOK
      <4>2. faults = 0 => frame[th].ok
        BY <1>1, <3>5, SMT DEF CalmInv, Wishes, OkInv
      <4>3. CASE tap' = [tap EXCEPT ![th].running = TRUE]
        <5>1. tap'[th].running = TRUE
          BY <1>1, <4>3, RunningUpdated
        <5> QED BY <5>1
      <4> QED BY <3>5, <4>1, <4>2, <4>3
    <3> QED BY <3>1, <3>2, <3>3, <3>4, <3>5
  <2> QED BY <1>4, <1>5, <2>1, <2>2
<1>7. CASE pc[th] = "m_free"
  <2>1. Restarting(th)
    BY <1>7, SMT DEF Restarting, RestartLabels, LockedLabels, Serialized
  <2>2. MicDestroyProc(th)
    BY <1>7, SMT DEF MicStep, Lock, Unlock, HandlerDevice, HandlerSwitch, MicDeviceStop,
       MicCreateProc, MicPermission, MicFindSys, MicPauseSys, MicDeviceStart, MicResult, Jump
  <2>3. Goto(th, "h_switch") /\ frame' = frame
    BY <1>2, <2>2, Zenon DEF MicDestroyProc, AfterMicStop
  <2>4. frame[th].was
    BY <1>1, <1>2, <1>7, SMT DEF CalmInv, CallShape, ThreadFits, Fits, ResultFits
  <2>5. pc'[th] = "h_switch"
    BY <1>1, <2>3, WentTo
  <2>6. Restarting(th)'
    BY <2>3, <2>4, <2>5 DEF Restarting
  <2> QED BY <1>4, <1>5, <2>1, <2>6
<1>8. CASE pc[th] = "h_switch"
  <2>1. HandlerSwitch(th)
    BY <1>8, SMT DEF MicStep, Lock, Unlock, HandlerDevice, MicDeviceStop, MicDestroyProc,
       MicCreateProc, MicPermission, MicFindSys, MicPauseSys, MicDeviceStart, MicResult, Jump
  <2>2. tap'[th].running = tap[th].running /\ ~tap[th].running
    <3>1. ~tap[th].running
      BY <1>1, <1>2, <1>8, SMT DEF CalmInv, Registry, MicPhase
    <3> QED BY <1>3, <1>8, <3>1, SMT
  <2>3. CASE frame[th].was
    <3>1. Goto(th, "m_create")
      BY <2>1, <2>3, Zenon DEF HandlerSwitch
    <3>2. pc'[th] = "m_create"
      BY <1>1, <3>1, WentTo
    <3>3. Restarting(th) /\ Restarting(th)'
      BY <1>8, <2>3, <3>2, SMT DEF Restarting, RestartLabels, LockedLabels, Serialized
    <3> QED BY <1>4, <1>5, <3>3
  <2>4. CASE ~frame[th].was
    <3>1. Goto(th, "unlock")
      BY <2>1, <2>4, Zenon DEF HandlerSwitch
    <3>2. pc'[th] = "unlock"
      BY <1>1, <3>1, WentTo
    <3>3. ~Restarting(th) /\ ~Restarting(th)'
      BY <1>8, <2>4, <3>2, SMT DEF Restarting, RestartLabels
    <3> QED BY <1>4, <1>5, <2>2, <3>3
  <2> QED BY <2>3, <2>4
<1>9. CASE pc[th] = "h_device"
  <2>1. HandlerDevice(th)
    BY <1>9, SMT DEF MicStep, Lock, Unlock, HandlerSwitch, MicDeviceStop, MicDestroyProc,
       MicCreateProc, MicPermission, MicFindSys, MicPauseSys, MicDeviceStart, MicResult, Jump
  <2>2. tap' = tap
    BY <2>1, SMT DEF HandlerDevice, shared
  <2>3. ~Restarting(th)
    BY <1>9, SMT DEF Restarting, RestartLabels
  <2>4. CASE Goto(th, "unlock")
    <3>1. pc'[th] = "unlock"
      BY <1>1, <2>4, WentTo
    <3>2. ~Restarting(th)'
      BY <3>1, SMT DEF Restarting, RestartLabels
    <3> QED BY <1>4, <1>5, <2>2, <2>3, <3>2
  <2>5. CASE tap[th].running /\ Goto(th, "m_halt")
    BY <1>4, <1>5, <2>2, <2>5
  <2>6. CASE /\ ~tap[th].running /\ Goto(th, "h_switch")
             /\ frame' = [frame EXCEPT ![th].dev = default_dev, ![th].was = tap[Self(th)].running]
    <3>1. ~frame'[th].was
      <4>1. frame'[th] = [frame[th] EXCEPT !.dev = default_dev, !.was = tap[th].running]
        BY <1>1, <1>2, <2>6, Zenon DEF TypeOK
      <4>2. frame[th] \in FrameRecord
        BY <1>1, Zenon DEF TypeOK
      <4>3. frame'[th].was = tap[th].running
        BY <4>1, <4>2, SMT DEF FrameRecord
      <4> QED BY <2>6, <4>3
    <3>2. pc'[th] = "h_switch"
      BY <1>1, <2>6, WentTo
    <3>3. ~Restarting(th)'
      BY <3>1, <3>2, SMT DEF Restarting, RestartLabels
    <3> QED BY <1>4, <1>5, <2>2, <2>3, <3>3
  <2> QED BY <1>2, <2>1, <2>4, <2>5, <2>6, Zenon DEF HandlerDevice
<1>10. CASE pc[th] \in {"lock", "unlock"}
  <2>1. \E label \in {"h_device", "return"} : Goto(th, label)
    <3>1. Lock(th) \/ Unlock(th)
      BY <1>10, SMT DEF MicStep, HandlerDevice, HandlerSwitch, MicDeviceStop, MicDestroyProc,
         MicCreateProc, MicPermission, MicFindSys, MicPauseSys, MicDeviceStart, MicResult, Jump
    <3>2. Unlock(th) => Goto(th, "return")
      BY <1>2, SMT DEF Unlock, AfterStop
    <3>3. Lock(th) => Goto(th, "h_device")
      BY <1>2, Zenon DEF Lock
    <3> QED BY <3>1, <3>2, <3>3
  <2>2. pc'[th] \in {"h_device", "return"}
    BY <1>1, <2>1, WentTo, SMT
  <2>3. ~Restarting(th) /\ ~Restarting(th)'
    BY <1>10, <2>2, SMT DEF Restarting, RestartLabels, LockedLabels, Serialized
  <2>4. tap'[th].running = tap[th].running
    BY <1>3, <1>10, SMT
  <2> QED BY <1>4, <1>5, <2>3, <2>4
<1> QED BY <1>2, <1>6, <1>7, <1>8, <1>9, <1>10, SMT DEF RestartLabels, LockedLabels

LEMMA UpMicStep ==
  ASSUME Calm, CalmInv, NEW th \in Threads, MicStep(th), Moves(th), Self(th)' = Self(th)
  PROVE  RunsOnlyAsked(th) /\ EndsOnlyAsked(th)
<1>1. /\ Self(th) \in MicTaps /\ pc[th] \in Serialized \cup {"lock"}
      /\ \A o \in Taps \ {Self(th)} : tap'[o] = tap[o]
      /\ \/ tap'[Self(th)].running = tap[Self(th)].running
         \/ pc[th] = "m_result" /\ frame[th].ok /\ tap'[Self(th)].running
         \/ pc[th] = "m_free" /\ ~tap'[Self(th)].running
  BY MicStepTap
<1>2. /\ TypeOK /\ MicTaps \subseteq Taps /\ SysTaps \subseteq Taps /\ None \notin SysTaps
      /\ \A t \in SysTaps : t \notin MicTaps
      /\ Caller \notin MicTaps
  BY AudioTapAssumption, SMT DEF CalmInv, ATInv, Taps
<1>3. ASSUME NEW t \in SysTaps PROVE Up(t)' <=> Up(t)
  <2>1. PausedBy(th, t)' <=> PausedBy(th, t)
    <3>1. CASE pc[th] = "m_start"
      <4>1. MicDeviceStart(th)
        BY <3>1, SMT DEF MicStep, Lock, Unlock, HandlerDevice, HandlerSwitch, MicDeviceStop, MicDestroyProc,
           MicCreateProc, MicPermission, MicFindSys, MicPauseSys, MicResult, Jump
      <4>2. Sys(th)' = Sys(th)
        <5>1. UNCHANGED frame \/ Failed(th)
          BY <4>1, Zenon DEF MicDeviceStart
        <5> QED BY <1>2, <5>1, FailedKeeps, UnchangedKeeps, Zenon DEF FramesKeep, Sys
      <4>3. CASE Sys(th) = None
        BY <1>2, <4>2, <4>3 DEF PausedBy
      <4>4. CASE Sys(th) # None
        <5>1. Goto(th, "s_create")
          BY <4>1, <4>4, Zenon DEF MicDeviceStart
        <5>2. pc'[th] = "s_create"
          BY <1>2, <5>1, WentTo
        <5> QED BY <1>1, <3>1, <4>2, <5>2, SMT DEF PausedBy, PauseLabels
      <4> QED BY <4>3, <4>4
    <3>2. CASE pc[th] # "m_start"
      <4>1. ~PausedBy(th, t)
        BY <1>1, <3>2, SMT DEF PausedBy, PauseLabels, Serialized
      <4>2. ~MicDeviceStart(th)
        BY <3>2 DEF MicDeviceStart
      <4>3. CASE MicFindSys(th)
        <5>1. \/ Goto(th, "m_check")
              \/ active = None
          BY <4>3, Zenon DEF MicFindSys
        <5>2. Sys(th)' = active
          BY <4>3, FoundSys DEF CalmInv, Sys
        <5>3. pc'[th] = "m_check" \/ active = None
          BY <1>2, <5>1, WentTo
        <5> QED BY <1>2, <4>1, <5>2, <5>3, SMT DEF PausedBy, PauseLabels
      <4>4. CASE MicPauseSys(th)
        <5>1. pc[th] = "m_check"
          BY <4>4 DEF MicPauseSys, Jump
        <5>2. tap[Sys(th)].running
          BY <5>1, ActiveRuns
        <5>3. Goto(th, "x_halt")
          BY <4>4, <5>2, Zenon DEF MicPauseSys, Jump
        <5>4. pc'[th] = "x_halt"
          BY <1>2, <5>3, WentTo
        <5> QED BY <4>1, <5>4, SMT DEF PausedBy, PauseLabels
      <4>5. CASE ~MicFindSys(th) /\ ~MicPauseSys(th)
        <5>1. \E label \in {"m_create", "h_device", "m_halt", "m_free", "h_switch", "unlock", "m_permission",
                            "m_pause", "return", "d_unlisten"} : Goto(th, label)
          <6>1. AfterStop(th) \in {"return", "d_unlisten"}
            BY <1>1, <1>2, SMT DEF AfterStop, DestroyBegin
          <6> QED BY <4>2, <4>5, <6>1, Zenon DEF MicStep, Lock, Unlock, HandlerDevice, HandlerSwitch, MicDeviceStop,
              MicDestroyProc, MicCreateProc, MicPermission, MicResult, AfterMicStop
        <5>2. pc'[th] \notin PauseLabels
          BY <1>2, <5>1, WentTo, SMT DEF PauseLabels
        <5> QED BY <4>1, <5>2 DEF PausedBy
      <4> QED BY <4>3, <4>4, <4>5
    <3> QED BY <3>1, <3>2
  <2>2. tap'[t].running = tap[t].running
    BY <1>1, <1>2, SMT
  <2> QED BY <1>2, <2>1, <2>2, UpMoved
<1>4. ASSUME NEW t \in MicTaps, t # th, t # Self(th) PROVE Up(t)' <=> Up(t)
  <2>1. tap'[t].running = tap[t].running
    BY <1>1, <1>2, <1>4
  <2> QED BY <1>2, <1>4, <2>1, UpMoved
<1>5. CASE th \in MicTaps
  <2>1. Self(th) = th
    BY <1>1, <1>5, SMT DEF CalmInv, CallShape, ThreadFits, Serialized
  <2>2. (Up(th)' => Up(th)) /\ (faults' = 0 => (Up(th) => Up(th)'))
    BY <1>5, UpHandler
  <2> QED BY <1>3, <1>4, <2>1, <2>2 DEF RunsOnlyAsked, EndsOnlyAsked, Taps
<1>6. CASE th \notin MicTaps
  <2>1. th = Caller
    BY <1>6 DEF Threads
  <2>2. PICK t \in MicTaps : t = Self(th) /\ t \in Taps /\ t # th /\ t \notin SysTaps
    BY <1>1, <1>2, <1>6, SMT
  <2>3. CASE tap'[t].running = tap[t].running
    <3>1. Up(t)' <=> Up(t)
      BY <2>2, <2>3, UpMoved
    <3> QED BY <1>3, <1>4, <1>6, <2>2, <3>1, SMT DEF RunsOnlyAsked, EndsOnlyAsked, Taps
  <2>4. CASE pc[th] = "m_result" /\ tap'[t].running
    <3>1. Up(t)'
      BY <2>4 DEF Up
    <3> QED BY <1>3, <1>4, <1>6, <2>1, <2>2, <2>4, <3>1, SMT DEF RunsOnlyAsked, EndsOnlyAsked, Taps
  <2>5. CASE pc[th] = "m_free" /\ ~tap'[t].running
    <3>1. frame[th].op \in {"stop", "destroy"}
      BY <2>1, <2>5, SMT DEF CalmInv, CallShape, ThreadFits, Fits, OpFits
    <3>2. Up(t)' => Up(t)
      <4>1. pc'[t] = pc[t] /\ frame'[t] = frame[t]
        BY <2>2, SMT DEF Moves, Threads
      <4> QED BY <2>2, <2>5, <4>1, SMT DEF Up, Restarting
    <3> QED BY <1>3, <1>4, <1>6, <2>1, <2>2, <3>1, <3>2, SMT DEF RunsOnlyAsked, EndsOnlyAsked, Taps
  <2> QED BY <1>1, <2>2, <2>3, <2>4, <2>5
<1> QED BY <1>5, <1>6

\* The other steps of a thread neither run nor pause a tap.
LEMMA UpOtherStep ==
  ASSUME CalmInv, NEW th \in Threads,
         CreateStep(th) \/ DestroyStep(th) \/ Start(th) \/ Stop(th) \/ RequestPermission(th) \/ Return(th)
  PROVE  /\ Moves(th) /\ \A t \in Taps : Up(t)' <=> Up(t)
         /\ \/ Return(th)
            \/ Self(th)' = Self(th) /\ frame'[th].op = frame[th].op /\ pc[th] # "return"
<1>1. TypeOK /\ SysTaps \subseteq Taps /\ MicTaps \subseteq Taps
      /\ (\A t \in SysTaps : t \notin MicTaps) /\ None \notin MicTaps /\ Caller \notin MicTaps
  BY AudioTapAssumption, SMT DEF CalmInv, ATInv, Taps
<1>2. CASE Return(th)
  <2>1. /\ UNCHANGED tap /\ pc[th] = "return" /\ Goto(th, "ready") /\ frame' = [frame EXCEPT ![th] = NoFrame]
    BY <1>2, SMT DEF Return, shared
  <2>2. pc'[th] = "ready" /\ frame'[th] = NoFrame /\ Moves(th)
    BY <1>1, <2>1, WentTo, SMT DEF TypeOK, Moves
  <2>3. /\ pc[th] \notin RestartLabels \cup {"h_switch"} \cup PauseLabels
        /\ pc'[th] \notin RestartLabels \cup {"h_switch"} \cup PauseLabels
    BY <2>1, <2>2, SMT DEF RestartLabels, LockedLabels, Serialized, PauseLabels
  <2> QED BY <1>2, <2>1, <2>2, <2>3, UpSame
<1>3. CASE ~Return(th)
  <2>1. /\ pc[th] \in {"c_tap", "c_aggregate", "c_alloc", "c_device", "c_listen", "destroy", "d_aggregate", "d_tap",
                       "d_unlisten", "d_free", "start", "stop", "permission"}
    BY <1>3, SMT DEF CreateStep, DestroyStep, CreateTap, CreateAggregate, CreateAlloc, CreateMic, Listen,
       Destroy, DestroyAggregate, DestroyTap, Unlisten, Free, Start, Stop, RequestPermission, Jump
  <2>2. UNCHANGED frame \/ Failed(th)
    BY <1>3, Zenon DEF CreateStep, DestroyStep, CreateTap, CreateAggregate, CreateAlloc, CreateMic, Listen,
       Destroy, DestroyAggregate, DestroyTap, Unlisten, Free, Start, Stop, RequestPermission, Jump
  <2>3. FramesKeep(th)
    BY <1>1, <2>2, FailedKeeps, UnchangedKeeps, Zenon
  <2>4. \E label : Goto(th, label) /\ \/ label \notin PauseLabels
                                      \/ Self(th) \in SysTaps
    <3>1. CASE Start(th)
      <4>1. \/ Goto(th, "return") \/ Goto(th, "lock")
            \/ Goto(th, "s_create") /\ Self(th) \in SysTaps
        BY <3>1, Zenon DEF Start, Jump
      <4>2. "return" \notin PauseLabels /\ "lock" \notin PauseLabels
        BY SMT DEF PauseLabels
      <4> QED BY <4>1, <4>2
    <3>2. CASE Stop(th)
      <4>1. \E label \in {"return", "lock", "x_halt", "d_aggregate", "d_unlisten"} : Goto(th, label)
        BY <3>2, Zenon DEF Stop, Jump, AfterStop, DestroyBegin
      <4>2. \A label \in {"return", "lock", "x_halt", "d_aggregate", "d_unlisten"} : label \notin PauseLabels
        BY SMT DEF PauseLabels
      <4> QED BY <4>1, <4>2, Zenon
    <3>3. CASE CreateStep(th) \/ DestroyStep(th) \/ RequestPermission(th)
      <4>1. \E label \in {"return", "stop", "d_aggregate", "d_tap", "d_unlisten", "d_free", "dialog",
                          "c_aggregate", "c_alloc", "c_listen"} : Goto(th, label)
        BY <3>3, Zenon DEF CreateStep, DestroyStep, CreateTap, CreateAggregate, CreateAlloc, CreateMic, Listen,
           Destroy, DestroyAggregate, DestroyTap, Unlisten, Free, RequestPermission, Jump, DestroyBegin
      <4>2. \A label \in {"return", "stop", "d_aggregate", "d_tap", "d_unlisten", "d_free", "dialog",
                          "c_aggregate", "c_alloc", "c_listen"} : label \notin PauseLabels
        BY SMT DEF PauseLabels
      <4> QED BY <4>1, <4>2, Zenon
    <3> QED BY <1>3, <3>1, <3>2, <3>3
  <2>5. /\ Moves(th) /\ Self(th)' = Self(th) /\ frame'[th].op = frame[th].op
        /\ pc'[th] \notin PauseLabels \/ Self(th) \in SysTaps
    <3>1. PICK label : Goto(th, label) /\ (label \notin PauseLabels \/ Self(th) \in SysTaps)
      BY <2>4
    <3> QED BY <1>1, <2>3, <3>1, KeepsMoves, WentTo DEF FramesKeep
  <2>6. th \notin MicTaps
    <3>1. ThreadFits(th)
      BY DEF CalmInv, CallShape
    <3> QED BY <2>1, <3>1, SMT DEF ThreadFits, Fits, OpFits
  <2>7. \A t \in Taps : tap'[t].running = tap[t].running
    <3>1. CASE tap' = tap
      BY <3>1
    <3>2. CASE tap' # tap
      <4>1. pc[th] \in {"c_tap", "c_aggregate", "c_alloc", "c_device", "c_listen", "d_aggregate", "d_tap",
                       "d_unlisten", "d_free"}
        <5>1. ~Start(th) /\ ~Stop(th) /\ ~RequestPermission(th) /\ ~Destroy(th)
          BY <3>2 DEF Start, Stop, RequestPermission, Destroy, Jump, shared
        <5> QED BY <1>3, <5>1, SMT DEF CreateStep, DestroyStep, CreateTap, CreateAggregate, CreateAlloc, CreateMic,
           Listen, DestroyAggregate, DestroyTap, Unlisten, Free
      <4>2. PICK u \in Taps : u = Self(th)
        BY <4>1, LifeWork, SMT
      <4>3. \/ \E v : tap' = [tap EXCEPT ![u].life = v]
            \/ tap' = [tap EXCEPT ![u].life = "live", ![u].dev = default_dev]
        BY <1>3, <3>2, <4>2, Zenon DEF CreateStep, DestroyStep, CreateTap, CreateAggregate, CreateAlloc, CreateMic,
           Listen, Destroy, DestroyAggregate, DestroyTap, Unlisten, Free, Start, Stop, RequestPermission, Jump, shared
      <4>4. tap'[u].running = tap[u].running /\ \A o \in Taps \ {u} : tap'[o] = tap[o]
        <5>1. CASE \E v : tap' = [tap EXCEPT ![u].life = v]
          <6>1. PICK v : tap' = [tap EXCEPT ![u].life = v]
            BY <5>1
          <6> QED BY <1>1, <6>1, LifeUpdated
        <5>2. CASE tap' = [tap EXCEPT ![u].life = "live", ![u].dev = default_dev]
          BY <1>1, <5>2, CreatedUpdated
        <5> QED BY <4>3, <5>1, <5>2
      <4> QED BY <4>4
    <3> QED BY <3>1, <3>2
  <2>8. pc[th] \notin PauseLabels /\ pc[th] # "return"
    BY <2>1, SMT DEF PauseLabels
  <2> QED BY <1>1, <2>5, <2>6, <2>7, <2>8, UpSame, Zenon
<1> QED BY <1>2, <1>3

\* The frame of a thread that goes on in its call.
LEMMA StepFrame ==
  ASSUME CalmInv, NEW th \in Threads, SysStep(th) \/ MicStep(th)
  PROVE  /\ Moves(th) /\ Self(th)' = Self(th) /\ frame'[th].op = frame[th].op
         /\ SysStep(th) => FramesKeep(th)
         /\ frame'[th].ok = frame[th].ok \/ ~frame'[th].ok
<1>1. TypeOK /\ ATInv
  BY DEF CalmInv, ATInv
<1>2. Moves(th)
  BY StepMoves
<1>3. \/ UNCHANGED frame \/ Failed(th) \/ SysFailed(th)
      \/ ~SysStep(th) /\ MicFindSys(th)
      \/ /\ ~SysStep(th)
         /\ frame' = [frame EXCEPT ![th].dev = default_dev, ![th].was = tap[Self(th)].running]
  <2>1. CASE SysStep(th)
    BY <2>1, Zenon DEF SysStep, SysCreateProc, SysDeviceStart, SysSetRunning, SysSetActive, SysDeviceStop,
       SysDestroyProc, SysClearRunning, SysClearActive
  <2>2. CASE MicStep(th) /\ ~SysStep(th)
    BY <2>2, Zenon DEF MicStep, Lock, Unlock, HandlerDevice,
     HandlerSwitch, MicDeviceStop, MicDestroyProc, MicCreateProc, MicPermission, MicPauseSys,
     MicDeviceStart, MicResult, Jump
  <2> QED BY <2>1, <2>2
<1>4. CASE UNCHANGED frame
  BY <1>2, <1>4, UnchangedKeeps DEF Self
<1>5. CASE Failed(th) \/ SysFailed(th)
  <2>1. Failed(th) \/ UNCHANGED frame
    BY <1>5 DEF SysFailed
  <2> QED BY <1>1, <1>2, <1>4, <2>1, FailedKeeps DEF Self, FramesKeep
<1>6. CASE ~SysStep(th) /\ MicFindSys(th)
  BY <1>1, <1>2, <1>6, FoundSys DEF Self
<1>7. CASE /\ ~SysStep(th)
           /\ frame' = [frame EXCEPT ![th].dev = default_dev, ![th].was = tap[Self(th)].running]
  <2>1. frame'[th] = [frame[th] EXCEPT !.dev = default_dev, !.was = tap[Self(th)].running]
    BY <1>1, <1>7, Zenon DEF TypeOK
  <2>2. frame[th] \in FrameRecord
    BY <1>1, Zenon DEF TypeOK
  <2>3. frame'[th].tap = frame[th].tap /\ frame'[th].op = frame[th].op /\ frame'[th].ok = frame[th].ok
    BY <2>1, <2>2, SMT DEF FrameRecord
  <2> QED BY <1>2, <1>7, <2>3 DEF Self
<1> QED BY <1>3, <1>4, <1>5, <1>6, <1>7

LEMMA StepUp ==
  ASSUME Calm, CalmInv, NEW th \in Threads, Step(th), Registry'
  PROVE  /\ Moves(th) /\ RunsOnlyAsked(th) /\ EndsOnlyAsked(th)
         /\ \/ Return(th)
            \/ Self(th)' = Self(th) /\ frame'[th].op = frame[th].op /\ pc[th] # "return"
<1>1. CASE SysStep(th) \/ MicStep(th)
  <2>1. Moves(th) /\ Self(th)' = Self(th) /\ frame'[th].op = frame[th].op /\ (SysStep(th) => FramesKeep(th))
    BY <1>1, StepFrame
  <2>2. pc[th] # "return"
    <3>1. pc[th] \in SysCode \cup Serialized \cup {"lock"}
      BY <1>1, SysStepTaps, MicStepTap
    <3> QED BY <3>1, SMT DEF SysCode, SysStarts, SysStops, Serialized
  <2> QED BY <1>1, <2>1, <2>2, UpSysStep, UpMicStep
<1>2. CASE CreateStep(th) \/ DestroyStep(th) \/ Start(th) \/ Stop(th) \/ RequestPermission(th) \/ Return(th)
  <2>1. Moves(th) /\ \A t \in Taps : Up(t)' <=> Up(t)
    BY <1>2, UpOtherStep
  <2>2. Return(th) \/ (Self(th)' = Self(th) /\ frame'[th].op = frame[th].op /\ pc[th] # "return")
    BY <1>2, UpOtherStep
  <2> QED BY <2>1, <2>2 DEF RunsOnlyAsked, EndsOnlyAsked
<1> QED BY <1>1, <1>2 DEF Step

\* Calls that resume or end well so far.
LEMMA StepOk ==
  ASSUME CalmInv, NEW th \in Threads, Step(th), Moves(th), faults' = 0 => faults = 0
  PROVE  OkInv'
<1> SUFFICES ASSUME faults' = 0, NEW o \in Threads, pc'[o] \in SysStarts \cup {"m_result"}
             PROVE  frame'[o].ok
  BY DEF OkInv
<1>1. faults = 0 /\ OkInv /\ TypeOK
  BY DEF CalmInv, Wishes, ATInv
<1>2. CASE o # th
  BY <1>1, <1>2, SMT DEF Moves, OkInv
<1>3. CASE o = th
  <2> DEFINE Other == Labels \ (SysStarts \cup {"m_result"})
  <2>1. Other = {"ready", "return", "permission", "dialog", "start", "stop", "destroy",
     "c_tap", "c_aggregate", "c_alloc", "c_device", "c_listen", "d_aggregate", "d_tap", "d_unlisten", "d_free",
     "x_halt", "x_free", "x_clear", "x_active",
     "lock", "unlock", "h_device", "h_switch", "m_halt", "m_free", "m_create",
     "m_permission", "m_pause", "m_check", "m_start"}
    BY SMT DEF Labels, SysStarts
  <2> HIDE DEF Other
  <2>2. ASSUME \E label \in Other : Goto(th, label) PROVE FALSE
    <3>1. pc'[th] \in Other
      BY <1>1, <2>2, WentTo, SMT
    <3> QED BY <1>3, <2>1, <3>1, SMT DEF SysStarts
  <2>3. ~Fault
    BY <1>1, SMT DEF Fault
  <2>4. CASE UNCHANGED frame /\ pc[th] \in SysStarts \cup {"start", "m_start"}
    <3>1. ResultFits(pc[th], frame[th])
      BY DEF CalmInv, CallShape, ThreadFits, Fits
    <3> QED BY <1>1, <1>3, <2>4, <3>1, SMT DEF OkInv, ResultFits, SoFarOk
  <2>5. CASE SysStep(th)
    <3>1. \/ \E label \in {"x_halt", "x_free", "x_clear", "x_active", "m_start", "return", "d_aggregate",
                           "d_unlisten"} : Goto(th, label)
          \/ Fault
          \/ UNCHANGED frame /\ (SysCreateProc(th) \/ SysDeviceStart(th) \/ SysSetRunning(th) \/ SysSetActive(th))
      BY <2>5, Zenon DEF SysStep, SysCreateProc, SysDeviceStart, SysSetRunning, SysSetActive, SysDeviceStop,
         SysDestroyProc, SysClearRunning, SysClearActive, AfterSysStart, AfterSysStop, AfterStop, DestroyBegin
    <3>2. SysCreateProc(th) \/ SysDeviceStart(th) \/ SysSetRunning(th) \/ SysSetActive(th) => pc[th] \in SysStarts
      BY SMT DEF SysCreateProc, SysDeviceStart, SysSetRunning, SysSetActive, SysStarts
    <3> QED BY <2>1, <2>2, <2>3, <2>4, <3>1, <3>2, SMT
  <2>6. CASE MicStep(th)
    <3>1. \/ \E label \in {"unlock", "return", "d_aggregate", "d_unlisten", "m_create", "h_device", "m_halt",
                           "h_switch", "m_free", "m_permission", "m_pause", "m_start", "m_check", "x_halt"} :
               Goto(th, label)
          \/ Fault
          \/ UNCHANGED frame /\ MicDeviceStart(th)
      BY <2>6, Zenon DEF MicStep, Lock, Unlock, HandlerDevice, HandlerSwitch, MicDeviceStop, MicDestroyProc,
         MicCreateProc, MicPermission, MicFindSys, MicPauseSys, MicDeviceStart, MicResult, Jump, AfterStop,
         DestroyBegin, AfterMicStop
    <3>2. MicDeviceStart(th) => pc[th] = "m_start"
      BY DEF MicDeviceStart
    <3> QED BY <2>1, <2>2, <2>3, <2>4, <3>1, <3>2, SMT
  <2>7. CASE CreateStep(th) \/ DestroyStep(th) \/ Start(th) \/ Stop(th) \/ RequestPermission(th) \/ Return(th)
    <3>1. \/ \E label \in {"ready", "return", "dialog", "stop", "lock", "x_halt", "c_aggregate", "c_alloc",
                           "c_listen", "d_aggregate", "d_tap", "d_unlisten", "d_free"} : Goto(th, label)
          \/ UNCHANGED frame /\ Start(th)
      BY <2>7, Zenon DEF CreateStep, DestroyStep, CreateTap, CreateAggregate, CreateAlloc, CreateMic, Listen,
         Destroy, DestroyAggregate, DestroyTap, Unlisten, Free, Start, Stop, RequestPermission, Return, Jump,
         AfterStop, DestroyBegin
    <3>2. Start(th) => pc[th] = "start"
      BY DEF Start, Jump
    <3> QED BY <2>1, <2>2, <2>4, <3>1, <3>2, SMT
  <2> QED BY <2>5, <2>6, <2>7 DEF Step
<1> QED BY <1>2, <1>3

\* A microphone runs, or is about to, only with the permission to use it.
LEMMA StepGrant ==
  ASSUME CalmInv, NEW th \in Threads, Step(th), Moves(th), RunsOnlyAsked(th),
         Return(th) \/ Self(th)' = Self(th)
  PROVE  GrantInv'
<1>1. GrantInv /\ TypeOK /\ Caller \in Threads /\ MicTaps \subseteq Taps
  BY SMT DEF CalmInv, Wishes, ATInv, Threads, Taps
<1>2. permission' = permission
  <2>1. UNCHANGED permission
    BY Zenon DEF Step, CreateStep, DestroyStep, SysStep, MicStep, CreateTap, CreateAggregate, CreateAlloc, CreateMic,
       Listen, Destroy, DestroyAggregate, DestroyTap, Unlisten, Free, SysCreateProc, SysDeviceStart, SysSetRunning,
       SysSetActive, SysDeviceStop, SysDestroyProc, SysClearRunning, SysClearActive, Lock, Unlock, HandlerDevice,
       HandlerSwitch, MicDeviceStop, MicDestroyProc, MicCreateProc, MicPermission, MicFindSys, MicPauseSys,
       MicDeviceStart, MicResult, Jump, Start, Stop, RequestPermission, Return, hal, env
  <2> QED BY <2>1
<1>3. Self(th) \in MicTaps /\ pc[th] \in GrantedLabels => permission = "granted"
  BY <1>1 DEF GrantInv
<1>4. ASSUME NEW m \in MicTaps, Up(m)' PROVE permission = "granted"
  <2>1. Up(m) \/ (Self(th) = m /\ pc[th] \in {"m_result", "s_running"})
    BY <1>1, <1>4 DEF RunsOnlyAsked
  <2>2. pc[th] \in {"m_result", "s_running"} => pc[th] \in GrantedLabels
    BY SMT DEF GrantedLabels, SysCode, SysStarts
  <2> QED BY <1>1, <1>3, <2>1, <2>2 DEF GrantInv
<1>5. /\ Self(th)' \in MicTaps /\ pc'[th] \in GrantedLabels => permission = "granted"
      /\ pc'[th] = "dialog" => permission = "unknown"
  <2> DEFINE Other == Labels \ (GrantedLabels \cup {"dialog"})
  <2>1. Other = {"ready", "return", "permission", "start", "stop", "destroy",
     "c_tap", "c_aggregate", "c_alloc", "c_device", "c_listen", "d_aggregate", "d_tap", "d_unlisten", "d_free",
     "lock", "unlock", "h_device", "h_switch", "m_halt", "m_free", "m_create", "m_permission"}
    BY SMT DEF Labels, GrantedLabels, SysCode, SysStarts, SysStops
  <2>2. "dialog" \notin GrantedLabels /\ GrantedLabels \cap Other = {} /\ "dialog" \notin Other
    BY SMT DEF GrantedLabels, SysCode, SysStarts, SysStops
  <2> HIDE DEF Other
  <2>3. CASE pc'[th] \in Other
    BY <2>2, <2>3, SMT
  <2>4. CASE RequestPermission(th) /\ permission = "unknown"
    <3>1. Goto(th, "dialog")
      BY <2>4, Zenon DEF RequestPermission, Jump
    <3>2. pc'[th] = "dialog"
      BY <1>1, <3>1, WentTo
    <3> QED BY <2>2, <2>4, <3>2
  <2>5. CASE pc[th] \in GrantedLabels /\ pc'[th] # "dialog"
    <3>1. ~Return(th)
      BY <2>5, SMT DEF GrantedLabels, SysCode, SysStarts, SysStops, Return
    <3> QED BY <1>3, <2>5, <3>1
  <2>6. CASE permission = "granted" /\ pc'[th] # "dialog"
    BY <2>6
  <2>7. CASE Self(th) \in SysTaps /\ Self(th)' = Self(th) /\ pc'[th] # "dialog"
    BY <2>7, AudioTapAssumption, SMT
  <2>8. CASE SysStep(th)
    <3>1. pc[th] \in GrantedLabels
      BY <2>8, SysStepTaps, SMT DEF GrantedLabels
    <3>2. \E label \in SysCode \cup {"m_start", "m_result", "return", "d_aggregate", "d_unlisten"} : Goto(th, label)
      BY <2>8, Zenon DEF SysStep, SysCreateProc, SysDeviceStart, SysSetRunning, SysSetActive, SysDeviceStop,
         SysDestroyProc, SysClearRunning, SysClearActive, AfterSysStart, AfterSysStop, AfterStop, DestroyBegin,
         SysCode, SysStarts, SysStops
    <3>3. pc'[th] # "dialog"
      BY <1>1, <3>2, WentTo, SMT DEF SysCode, SysStarts, SysStops
    <3> QED BY <2>5, <3>1, <3>3
  <2>9. CASE MicStep(th)
    <3>1. \/ \E label \in {"unlock", "return", "d_aggregate", "d_unlisten", "m_create", "h_device", "m_halt",
                           "h_switch", "m_free", "m_permission"} : Goto(th, label)
          \/ /\ \E label \in {"m_pause", "m_start", "m_check", "x_halt", "s_create", "m_result"} : Goto(th, label)
             /\ \/ permission = "granted"
                \/ MicFindSys(th) \/ MicPauseSys(th) \/ MicDeviceStart(th)
      BY <2>9, Zenon DEF MicStep, Lock, Unlock, HandlerDevice, HandlerSwitch, MicDeviceStop, MicDestroyProc,
         MicCreateProc, MicPermission, MicFindSys, MicPauseSys, MicDeviceStart, MicResult, Jump, AfterStop,
         DestroyBegin, AfterMicStop
    <3>2. MicFindSys(th) \/ MicPauseSys(th) \/ MicDeviceStart(th) => pc[th] \in GrantedLabels
      BY SMT DEF MicFindSys, MicPauseSys, MicDeviceStart, Jump, GrantedLabels
    <3>3. CASE \E label \in {"unlock", "return", "d_aggregate", "d_unlisten", "m_create", "h_device", "m_halt",
                           "h_switch", "m_free", "m_permission"} : Goto(th, label)
      <4>1. pc'[th] \in Other
        BY <1>1, <2>1, <3>3, WentTo, SMT
      <4> QED BY <2>3, <4>1
    <3>4. CASE \E label \in {"m_pause", "m_start", "m_check", "x_halt", "s_create", "m_result"} : Goto(th, label)
      <4>1. pc'[th] # "dialog"
        BY <1>1, <3>4, WentTo, SMT
      <4> QED BY <2>5, <2>6, <2>3, <3>1, <3>2, <3>3, <4>1
    <3> QED BY <3>1, <3>3, <3>4
  <2>10. CASE CreateStep(th) \/ DestroyStep(th) \/ Start(th) \/ Stop(th) \/ RequestPermission(th) \/ Return(th)
    <3>1. \/ \E label \in {"ready", "return", "stop", "lock", "c_aggregate", "c_alloc",
                           "c_listen", "d_aggregate", "d_tap", "d_unlisten", "d_free"} : Goto(th, label)
          \/ RequestPermission(th) /\ permission = "unknown"
          \/ /\ Start(th) \/ Stop(th)
             /\ Self(th) \in SysTaps /\ \E label \in {"s_create", "x_halt"} : Goto(th, label)
      BY <2>10, Zenon DEF CreateStep, DestroyStep, CreateTap, CreateAggregate, CreateAlloc, CreateMic, Listen,
         Destroy, DestroyAggregate, DestroyTap, Unlisten, Free, Start, Stop, RequestPermission, Return, Jump,
         AfterStop, DestroyBegin
    <3>2. CASE \E label \in {"ready", "return", "stop", "lock", "c_aggregate", "c_alloc",
                           "c_listen", "d_aggregate", "d_tap", "d_unlisten", "d_free"} : Goto(th, label)
      <4>1. pc'[th] \in Other
        BY <1>1, <2>1, <3>2, WentTo, SMT
      <4> QED BY <2>3, <4>1
    <3>3. CASE /\ Start(th) \/ Stop(th)
               /\ Self(th) \in SysTaps /\ \E label \in {"s_create", "x_halt"} : Goto(th, label)
      <4>1. pc'[th] # "dialog"
        BY <1>1, <3>3, WentTo, SMT
      <4>2. Self(th)' = Self(th)
        BY <3>3, SMT DEF Start, Stop, Jump, Self
      <4> QED BY <2>7, <3>3, <4>1, <4>2
    <3> QED BY <2>4, <3>1, <3>2, <3>3
  <2> QED BY <2>8, <2>9, <2>10 DEF Step
<1>6. ASSUME NEW o \in Threads PROVE Self(o)' \in MicTaps /\ pc'[o] \in GrantedLabels => permission = "granted"
  <2>1. CASE o = th
    BY <1>5, <2>1
  <2>2. CASE o # th
    <3>1. Self(o)' = Self(o) /\ pc'[o] = pc[o]
      BY <2>2 DEF Moves, Self
    <3> QED BY <1>1, <3>1 DEF GrantInv
  <2> QED BY <2>1, <2>2
<1>7. pc'[Caller] = "dialog" => permission = "unknown"
  <2>1. CASE th = Caller
    BY <1>5, <2>1
  <2>2. CASE th # Caller
    BY <1>1, <2>2 DEF Moves, GrantInv
  <2> QED BY <2>1, <2>2
<1> QED BY <1>2, <1>4, <1>6, <1>7 DEF GrantInv

\* The tap a call has stopped, or failed to start, does not run when the call
\* returns: nobody is at work on it.
LEMMA NotUp ==
  ASSUME NEW t \in Taps, Moves(Caller), pc'[Caller] = "return", ~tap'[t].running,
         t \in MicTaps => pc[t] \notin LockedLabels,
         t \in SysTaps => \A m \in MicTaps : pc[m] = "ready"
  PROVE  ~Up(t)'
<1>1. Caller \notin MicTaps
  BY AudioTapAssumption DEF Taps
<1>2. t \in MicTaps => ~Restarting(t)'
  <2>1. t \in MicTaps => pc'[t] \notin LockedLabels
    BY <1>1, SMT DEF Moves, Threads
  <2> QED BY <2>1, SMT DEF Restarting, RestartLabels, LockedLabels, Serialized
<1>3. t \in SysTaps => ~Paused(t)'
  <2>1. ASSUME t \in SysTaps, NEW o \in Threads PROVE pc'[o] \notin PauseLabels
    <3>1. pc'[o] \in {"ready", "return"}
      BY <1>1, <2>1, SMT DEF Moves, Threads
    <3> QED BY <3>1, SMT DEF PauseLabels
  <2> QED BY <2>1, SMT DEF Paused, PausedBy
<1> QED BY <1>2, <1>3 DEF Up

\* What a call has come to when it ends.
EndsWell(t) ==
  IF frame'[Caller].op = "start" /\ frame'[Caller].ok THEN tap'[t].running ELSE ~Up(t)'

LEMMA CallerSysEnds ==
  ASSUME Calm, CalmInv, SysStep(Caller), NEW t \in Taps, t = Self(Caller), pc'[Caller] = "return"
  PROVE  EndsWell(t)
<1>1. /\ Caller \in Threads /\ TypeOK /\ ATInv /\ Caller \notin MicTaps
      /\ pc[Caller] \in SysCode /\ pc[Caller] \in LockedLabels
  BY SysStepTaps, AudioTapAssumption, SMT DEF CalmInv, ATInv, Threads, Taps
<1>2. \/ SysSetActive(Caller) /\ frame' = frame /\ tap' = tap
      \/ (SysCreateProc(Caller) \/ SysDeviceStart(Caller)) /\ SysFailed(Caller)
      \/ SysClearActive(Caller) /\ frame' = frame /\ tap' = tap
  <2> DEFINE On2 == {"s_start", "s_running", "s_active", "x_free", "x_clear", "x_active"}
  <2>1. "return" \notin On2
    BY SMT
  <2> HIDE DEF On2
  <2>2. ~ \E label \in On2 : Goto(Caller, label)
    BY <1>1, <2>1, WentTo, SMT
  <2>3. "s_start" \in On2 /\ "s_running" \in On2 /\ "s_active" \in On2 /\ "x_free" \in On2 /\ "x_clear" \in On2
        /\ "x_active" \in On2
    BY SMT DEF On2
  <2>4. ~SysSetRunning(Caller) /\ ~SysDeviceStop(Caller) /\ ~SysDestroyProc(Caller) /\ ~SysClearRunning(Caller)
    <3>1. SysDeviceStop(Caller) => Goto(Caller, "x_clear") \/ Goto(Caller, "x_free")
      BY Zenon DEF SysDeviceStop
    <3> QED BY <2>2, <2>3, <3>1 DEF SysSetRunning, SysDestroyProc, SysClearRunning
  <2> QED BY <2>2, <2>3, <2>4, Zenon DEF SysStep, SysCreateProc, SysDeviceStart, SysSetActive, SysClearActive, hal
<1>3. Self(Caller) \in SysTaps /\ t \in SysTaps /\ Sys(Caller) = t
  <2>1. Self(Caller) \notin MicTaps
    <3>1. CASE Self(Caller) \in MicTaps
      <4>1. \E label \in {"s_start", "s_running", "s_active", "x_free", "x_clear", "x_active", "m_result",
                          "m_start"} : Goto(Caller, label)
        BY <3>1, Zenon DEF SysStep, SysCreateProc, SysDeviceStart, SysSetRunning, SysSetActive, SysDeviceStop,
           SysDestroyProc, SysClearRunning, SysClearActive, AfterSysStart, AfterSysStop
      <4> QED BY <1>1, <4>1, WentTo, SMT
    <3> QED BY <3>1
  <2>2. TapFits(pc[Caller], frame[Caller])
    BY <1>1 DEF CalmInv, CallShape, ThreadFits, Fits
  <2> QED BY <2>1, <2>2, SMT DEF TapFits, Self, Sys, Taps
<1>4. \A m \in MicTaps : pc[m] = "ready"
  BY <1>1, <1>3, OnlyCaller DEF CalmInv
<1>5. Moves(Caller) /\ frame'[Caller].op = frame[Caller].op
  BY <1>1, StepFrame
<1>6. SysPhase(Caller) /\ OpFits(pc[Caller], frame[Caller]) /\ ResultFits(pc[Caller], frame[Caller])
  BY <1>1, AtWork DEF CalmInv, CallShape, ThreadFits, Fits
<1>7. CASE SysSetActive(Caller) /\ frame' = frame /\ tap' = tap
  <2>1. pc[Caller] = "s_active"
    BY <1>7 DEF SysSetActive
  <2>2. tap[t].running
    BY <1>3, <1>6, <2>1, SMT DEF SysPhase
  <2>3. frame[Caller].op = "start" /\ frame[Caller].ok
    BY <1>1, <1>3, <1>6, <2>1, SMT DEF OpFits, ResultFits, SysStarts, Self, CalmInv, CallShape, ThreadFits
  <2> QED BY <1>7, <2>2, <2>3 DEF EndsWell
<1>8. CASE (SysCreateProc(Caller) \/ SysDeviceStart(Caller)) /\ SysFailed(Caller)
  <2>1. Failed(Caller)
    BY <1>3, <1>8, AudioTapAssumption, SMT DEF SysFailed
  <2>2. ~frame'[Caller].ok
    BY <1>1, <2>1, FailedKeeps
  <2>3. ~tap[t].running
    <3>1. pc[Caller] \in {"s_create", "s_start"}
      BY <1>8, SMT DEF SysCreateProc, SysDeviceStart
    <3> QED BY <1>3, <1>6, <3>1, SMT DEF SysPhase
  <2>4. tap'[t].running = tap[t].running
    <3>1. tap' = tap \/ \E v : tap' = [tap EXCEPT ![t].io = v]
      BY <1>3, <1>8, Zenon DEF SysCreateProc, SysDeviceStart, Register
    <3> QED BY <1>1, <3>1, IoUpdated
  <2>5. ~Up(t)'
    BY <1>3, <1>4, <1>5, <2>3, <2>4, NotUp, AudioTapAssumption
  <2> QED BY <2>2, <2>5 DEF EndsWell
<1>9. CASE SysClearActive(Caller) /\ frame' = frame /\ tap' = tap
  <2>1. pc[Caller] = "x_active"
    BY <1>9 DEF SysClearActive
  <2>2. ~tap[t].running
    BY <1>3, <1>6, <2>1, SMT DEF SysPhase
  <2>3. frame[Caller].op # "start"
    BY <1>3, <1>6, <2>1, SMT DEF OpFits, SysStops, Self
  <2>4. ~Up(t)'
    BY <1>3, <1>4, <1>5, <1>9, <2>2, NotUp, AudioTapAssumption
  <2> QED BY <1>9, <2>3, <2>4 DEF EndsWell
<1> QED BY <1>2, <1>7, <1>8, <1>9

LEMMA CallerMicEnds ==
  ASSUME Calm, CalmInv, MicStep(Caller), NEW t \in Taps, t = Self(Caller)
  PROVE  /\ pc'[Caller] = "return" => EndsWell(t)
         /\ pc'[Caller] = "unlock" =>
              /\ frame[Caller].op = "start" => (tap'[t].running <=> frame'[Caller].ok)
              /\ frame[Caller].op = "stop" => ~tap'[t].running
<1>1. /\ Caller \in Threads /\ TypeOK /\ ATInv /\ Caller \notin MicTaps
      /\ t \in MicTaps /\ pc[Caller] \in Serialized \cup {"lock"}
      /\ frame[Caller].op # "handler" /\ OpFits(pc[Caller], frame[Caller]) /\ ResultInv
  <2>1. Caller \in Threads
    BY DEF Threads
  <2> QED BY <2>1, MicStepTap, AudioTapAssumption, SMT
      DEF CalmInv, ATInv, Taps, CallShape, ThreadFits, Fits, Wishes
<1>2. Moves(Caller) /\ frame'[Caller].op = frame[Caller].op
  BY <1>1, StepFrame
<1>3. ASSUME NEW label \in {"m_create", "h_device", "m_halt", "m_free", "h_switch", "m_permission", "m_pause",
                            "m_start", "m_check", "x_halt", "s_create", "m_result"},
             Goto(Caller, label)
      PROVE  pc'[Caller] \notin {"unlock", "return"}
  BY <1>1, <1>3, WentTo, SMT
<1>4. CASE \E label \in {"m_create", "h_device", "m_halt", "m_free", "h_switch", "m_permission", "m_pause",
                         "m_start", "m_check", "x_halt", "s_create", "m_result"} : Goto(Caller, label)
  BY <1>3, <1>4
<1>5. CASE Unlock(Caller)
  <2>1. pc[Caller] = "unlock" /\ tap' = tap /\ frame' = frame /\ Goto(Caller, AfterStop(Caller))
    BY <1>5 DEF Unlock
  <2>2. pc'[Caller] = "return" => frame[Caller].op \in {"start", "stop"}
    <3>1. frame[Caller].op \in {"start", "stop", "destroy"}
      BY <1>1, <2>1, SMT DEF OpFits
    <3>2. frame[Caller].op = "destroy" => AfterStop(Caller) # "return"
      BY SMT DEF AfterStop, DestroyBegin
    <3>3. pc'[Caller] = AfterStop(Caller)
      BY <1>1, <2>1, WentTo
    <3> QED BY <3>1, <3>2, <3>3
  <2>3. pc'[Caller] # "unlock"
    <3>1. AfterStop(Caller) # "unlock"
      BY SMT DEF AfterStop, DestroyBegin
    <3>2. pc'[Caller] = AfterStop(Caller)
      BY <1>1, <2>1, WentTo
    <3> QED BY <3>1, <3>2
  <2>4. pc[t] \notin LockedLabels
    <3>1. lock[t] = Caller
      BY <1>1, <2>1, SMT DEF ATInv, LockInv, LockedLabels, Serialized
    <3>2. pc[t] \in LockedLabels => lock[t] = t
      <4>1. t \in Threads /\ (pc[t] # "ready" => Self(t) = t)
        BY <1>1, SMT DEF CalmInv, CallShape, ThreadFits, Threads
      <4> QED BY <1>1, <4>1, SMT DEF ATInv, LockInv, LockedLabels, Serialized
    <3> QED BY <1>1, <3>1, <3>2
  <2>5. CASE pc'[Caller] = "return"
    <3>1. CASE frame[Caller].op = "start" /\ frame[Caller].ok
      BY <1>1, <2>1, <3>1, SMT DEF ResultInv, EndsWell
    <3>2. CASE ~(frame[Caller].op = "start" /\ frame[Caller].ok)
      <4>1. ~tap[t].running
        BY <1>1, <2>1, <2>2, <2>5, <3>2, SMT DEF ResultInv
      <4>2. t \notin SysTaps
        BY <1>1, AudioTapAssumption, SMT
      <4>3. ~Up(t)'
        BY <1>2, <2>1, <2>4, <2>5, <4>1, <4>2, NotUp
      <4>4. frame' = frame
        BY <2>1
      <4> QED BY <2>3, <3>2, <4>3, <4>4 DEF EndsWell
    <3> QED BY <2>3, <2>5, <3>1, <3>2
  <2> QED BY <2>3, <2>5
<1>6. CASE MicDestroyProc(Caller)
  <2>1. tap' = [tap EXCEPT ![t].io = None, ![t].running = FALSE] /\ Goto(Caller, "unlock") /\ pc[Caller] = "m_free"
    BY <1>1, <1>6, Zenon DEF MicDestroyProc, AfterMicStop
  <2>2. ~tap'[t].running
    BY <1>1, <2>1, StoppedUpdated
  <2>3. frame[Caller].op # "start"
    BY <1>1, <2>1, SMT DEF OpFits
  <2>4. pc'[Caller] = "unlock"
    BY <1>1, <2>1, WentTo
  <2> QED BY <2>2, <2>3, <2>4
<1>7. CASE /\ pc[Caller] \in {"m_create", "m_permission"} \/ (pc[Caller] = "m_result" /\ ~frame[Caller].ok)
           /\ Failed(Caller) \/ (frame' = frame /\ pc[Caller] = "m_result")
           /\ tap' = tap \/ tap' = [tap EXCEPT ![t].io = None]
           /\ Goto(Caller, "unlock")
  <2>1. ~frame'[Caller].ok
    <3>1. CASE Failed(Caller)
      BY <1>1, <3>1, FailedKeeps
    <3>2. CASE frame' = frame /\ pc[Caller] = "m_result"
      <4>1. ~frame[Caller].ok
        BY <1>7, <3>2, SMT
      <4> QED BY <3>2, <4>1
    <3> QED BY <1>7, <3>1, <3>2
  <2>2. ~tap'[t].running
    <3>1. tap'[t].running = tap[t].running
      BY <1>1, <1>7, IoUpdated
    <3>2. pc[Caller] \in LockedLabels /\ pc[Caller] \in {"m_create", "m_permission", "m_result"}
      BY <1>7, SMT DEF LockedLabels, Serialized
    <3>3. MicPhase(Caller)
      BY <1>1, <3>2, AtWork
    <3>4. ~tap[t].running
      BY <3>2, <3>3, SMT DEF MicPhase
    <3> QED BY <3>1, <3>4
  <2>3. frame[Caller].op = "start"
    <3>1. pc[Caller] \in MicStarts
      BY <1>7, SMT DEF MicStarts
    <3> QED BY <1>1, <3>1, SMT DEF OpFits
  <2>4. pc'[Caller] = "unlock"
    BY <1>1, <1>7, WentTo
  <2> QED BY <2>1, <2>2, <2>3, <2>4
<1>8. CASE /\ pc[Caller] = "m_result" /\ frame[Caller].ok /\ frame' = frame
           /\ tap' = [tap EXCEPT ![t].running = TRUE] /\ Goto(Caller, "unlock")
  <2>1. tap'[t].running = TRUE
    BY <1>1, <1>8, RunningUpdated
  <2>2. frame[Caller].op = "start"
    <3>1. pc[Caller] \in MicStarts
      BY <1>8, SMT DEF MicStarts
    <3> QED BY <1>1, <3>1, SMT DEF OpFits
  <2>3. pc'[Caller] = "unlock"
    BY <1>1, <1>8, WentTo
  <2> QED BY <1>8, <2>1, <2>2, <2>3
<1>9. ~HandlerDevice(Caller) /\ ~HandlerSwitch(Caller)
  BY <1>1, SMT DEF OpFits, HandlerDevice, HandlerSwitch
<1>10. CASE MicCreateProc(Caller) \/ MicPermission(Caller) \/ MicResult(Caller)
  <2>1. MicCreateProc(Caller) => pc[Caller] = "m_create"
    BY DEF MicCreateProc
  <2>2. MicPermission(Caller) => pc[Caller] = "m_permission"
    BY DEF MicPermission
  <2>3. CASE MicCreateProc(Caller)
    BY <1>1, <1>4, <1>7, <2>1, <2>3, Zenon DEF MicCreateProc, Register
  <2>4. CASE MicPermission(Caller)
    BY <1>1, <1>4, <1>7, <2>2, <2>4, Zenon DEF MicPermission
  <2>5. CASE MicResult(Caller)
    BY <1>1, <1>7, <1>8, <2>5, Zenon DEF MicResult
  <2> QED BY <1>10, <2>3, <2>4, <2>5
<1>11. CASE ~(MicCreateProc(Caller) \/ MicPermission(Caller) \/ MicResult(Caller) \/ Unlock(Caller)
              \/ MicDestroyProc(Caller))
  BY <1>4, <1>9, <1>11, Zenon DEF MicStep, Lock, MicDeviceStop, MicFindSys, MicPauseSys, MicDeviceStart, Jump
<1> QED BY <1>5, <1>6, <1>10, <1>11

LEMMA CallerOtherEnds ==
  ASSUME Calm, CalmInv,
         CreateStep(Caller) \/ DestroyStep(Caller) \/ Start(Caller) \/ Stop(Caller) \/ RequestPermission(Caller),
         NEW t \in Taps, t = Self(Caller)
  PROVE  /\ pc'[Caller] = "return" /\ frame[Caller].op \in {"start", "stop", "destroy"} => EndsWell(t)
         /\ pc'[Caller] # "unlock"
<1>1. /\ Caller \in Threads /\ TypeOK /\ ATInv /\ Caller \notin MicTaps
      /\ OpFits(pc[Caller], frame[Caller]) /\ ResultFits(pc[Caller], frame[Caller])
  BY AudioTapAssumption, SMT DEF CalmInv, ATInv, Taps, CallShape, ThreadFits, Fits, Threads
<1>2. (Moves(Caller) /\ frame'[Caller].op = frame[Caller].op) \/ Return(Caller)
  BY <1>1, UpOtherStep
<1>3. pc'[Caller] # "unlock"
  <2>1. \E label \in {"return", "dialog", "stop", "lock", "s_create", "x_halt", "c_aggregate", "c_alloc",
                      "c_listen", "d_aggregate", "d_tap", "d_unlisten", "d_free"} : Goto(Caller, label)
      BY Zenon DEF CreateStep, DestroyStep, CreateTap, CreateAggregate, CreateAlloc, CreateMic, Listen,
         Destroy, DestroyAggregate, DestroyTap, Unlisten, Free, Start, Stop, RequestPermission, Jump,
         AfterStop, DestroyBegin
  <2> QED BY <1>1, <2>1, WentTo, SMT
<1>4. Moves(Caller)
  BY <1>1, UpOtherStep
<1>5. CASE Start(Caller) /\ pc'[Caller] = "return"
  <2>1. pc[Caller] = "start" /\ tap' = tap /\ frame' = frame
    BY <1>5, SMT DEF Start, Jump, shared
  <2>2. frame[Caller].op = "start" /\ frame[Caller].ok
    BY <1>1, <2>1, SMT DEF OpFits, ResultFits, SoFarOk
  <2>3. tap[t].running
    <3>1. ~tap[t].running => \E label \in {"s_create", "lock"} : Goto(Caller, label)
      BY <1>5, Zenon DEF Start, Jump
    <3> QED BY <1>1, <1>5, <3>1, WentTo, SMT
  <2>4. tap'[t].running /\ frame'[Caller].op = "start" /\ frame'[Caller].ok
    BY <2>1, <2>2, <2>3
  <2> QED BY <1>3, <2>4 DEF EndsWell
<1>6. CASE Stop(Caller) /\ pc'[Caller] = "return"
  <2>1. pc[Caller] = "stop" /\ tap' = tap /\ frame' = frame
    BY <1>6, SMT DEF Stop, Jump, shared
  <2>2. frame[Caller].op # "start"
    BY <1>1, <2>1, SMT DEF OpFits
  <2>3. ~tap[t].running
    <3>1. tap[t].running => \E label \in {"x_halt", "lock"} : Goto(Caller, label)
      BY <1>6, Zenon DEF Stop, Jump
    <3> QED BY <1>1, <1>6, <3>1, WentTo, SMT
  <2>4. \A m \in MicTaps : pc[m] = "ready"
    BY <2>1, SMT DEF CalmInv, CallShape, OverlapInv, Quiet
  <2>5. ~Up(t)'
    <3>1. t \in MicTaps => pc[t] \notin LockedLabels
      BY <2>4, SMT DEF LockedLabels, Serialized
    <3> QED BY <1>4, <1>6, <2>1, <2>3, <2>4, <3>1, NotUp
  <2>6. frame'[Caller].op # "start"
    BY <2>1, <2>2
  <2> QED BY <1>3, <2>5, <2>6 DEF EndsWell
<1>7. CASE DestroyStep(Caller) /\ pc'[Caller] = "return" /\ frame[Caller].op = "destroy"
  <2>1. Free(Caller)
    <3>1. DestroyTap(Caller) => Goto(Caller, "d_free")
      BY <1>7, SMT DEF DestroyTap
    <3>2. ~Free(Caller) => \E label \in {"stop", "d_aggregate", "d_tap", "d_unlisten", "d_free"} : Goto(Caller, label)
      BY <1>7, <3>1, Zenon DEF DestroyStep, Destroy, DestroyAggregate, Unlisten, Jump, DestroyBegin
    <3> QED BY <1>1, <1>7, <3>2, WentTo, SMT
  <2>2. pc[Caller] = "d_free" /\ tap' = [tap EXCEPT ![t].life = "freed"] /\ frame' = frame
    BY <2>1 DEF Free
  <2>3. ~tap[t].running /\ tap'[t].running = tap[t].running
    BY <1>1, <2>2, FreedRests, LifeUpdated
  <2>4. \A m \in MicTaps : pc[m] = "ready"
    BY <1>1, <1>7, Alone
  <2>5. ~Up(t)'
    <3>1. t \in MicTaps => pc[t] \notin LockedLabels
      BY <2>4, SMT DEF LockedLabels, Serialized
    <3> QED BY <1>4, <1>7, <2>3, <2>4, <3>1, NotUp
  <2>6. frame'[Caller].op # "start"
    BY <1>7, <2>2
  <2> QED BY <1>3, <2>5, <2>6 DEF EndsWell
<1>8. CreateStep(Caller) => frame[Caller].op = "create"
  <2>1. CreateStep(Caller) => pc[Caller] \in {"c_tap", "c_aggregate", "c_alloc", "c_device", "c_listen"}
    BY SMT DEF CreateStep, CreateTap, CreateAggregate, CreateAlloc, CreateMic, Listen
  <2> QED BY <1>1, <2>1 DEF OpFits
<1>9. RequestPermission(Caller) => frame[Caller].op = "permission"
  BY <1>1, SMT DEF RequestPermission, Jump, OpFits
<1>10. DestroyStep(Caller) => frame[Caller].op \in {"create", "destroy"}
  <2>1. DestroyStep(Caller) => pc[Caller] \in {"destroy", "d_aggregate", "d_tap", "d_unlisten", "d_free"}
    BY SMT DEF DestroyStep, Destroy, DestroyAggregate, DestroyTap, Unlisten, Free, Jump
  <2> QED BY <1>1, <2>1, SMT DEF OpFits
<1> QED BY <1>3, <1>5, <1>6, <1>7, <1>8, <1>9, <1>10, SMT

LEMMA StepResult ==
  ASSUME Calm, CalmInv, NEW th \in Threads, Step(th), Moves(th), RunsOnlyAsked(th), EndsOnlyAsked(th),
         faults' = 0 => faults = 0,
         Return(th) \/ (Self(th)' = Self(th) /\ frame'[th].op = frame[th].op)
  PROVE  ResultInv'
<1>1. /\ Caller \in Threads /\ Caller \notin MicTaps /\ TypeOK /\ ATInv /\ ResultInv
      /\ MicTaps \subseteq Taps /\ SysTaps \subseteq Taps /\ \A m \in MicTaps : m \notin SysTaps
  BY AudioTapAssumption, SMT DEF CalmInv, ATInv, Taps, Threads, Wishes
<1>2. CASE Return(Caller)
  <2>1. frame'[Caller] = NoFrame
    BY <1>1, <1>2, SMT DEF Return, TypeOK
  <2>2. frame'[Caller].op = "none"
    BY <2>1, SMT DEF NoFrame, Frame
  <2> QED BY <2>2, SMT DEF ResultInv
<1>3. CASE th = Caller /\ ~Return(Caller)
  <2>1. Self(Caller)' = Self(Caller) /\ frame'[Caller].op = frame[Caller].op
    BY <1>3
  <2>2. SUFFICES ASSUME NEW t \in Taps, Self(Caller) = t
                 PROVE  /\ pc'[Caller] = "unlock" =>
                             /\ frame[Caller].op = "start" => (tap'[t].running <=> frame'[Caller].ok)
                             /\ frame[Caller].op = "stop" => ~tap'[t].running
                        /\ pc'[Caller] = "return" /\ frame[Caller].op \in {"start", "stop", "destroy"} =>
                             EndsWell(t)
    BY <2>1, SMT DEF ResultInv, EndsWell, Up
  <2>3. CASE SysStep(Caller)
    <3>1. \E label \in SysCode \cup {"m_start", "m_result", "return", "d_aggregate", "d_unlisten"} :
            Goto(Caller, label)
      BY <2>3, Zenon DEF SysStep, SysCreateProc, SysDeviceStart, SysSetRunning, SysSetActive, SysDeviceStop,
         SysDestroyProc, SysClearRunning, SysClearActive, AfterSysStart, AfterSysStop, AfterStop, DestroyBegin,
         SysCode, SysStarts, SysStops
    <3>2. pc'[Caller] # "unlock"
      BY <1>1, <3>1, WentTo, SMT DEF SysCode, SysStarts, SysStops
    <3> QED BY <2>2, <2>3, <3>2, CallerSysEnds
  <2>4. CASE MicStep(Caller)
    BY <2>2, <2>4, CallerMicEnds
  <2>5. CASE CreateStep(Caller) \/ DestroyStep(Caller) \/ Start(Caller) \/ Stop(Caller) \/ RequestPermission(Caller)
    BY <2>2, <2>5, CallerOtherEnds
  <2> QED BY <1>3, <2>3, <2>4, <2>5 DEF Step
<1>4. CASE th # Caller
  <2>1. pc'[Caller] = pc[Caller] /\ frame'[Caller] = frame[Caller] /\ Self(Caller)' = Self(Caller)
    BY <1>1, <1>4 DEF Moves, Self
  <2>2. SUFFICES ASSUME NEW t \in Taps, Self(Caller) = t
                 PROVE  /\ pc[Caller] = "unlock" => tap'[t].running = tap[t].running
                        /\ Up(t)' => Up(t)
                        /\ faults' = 0 => (Up(t) => Up(t)')
    BY <1>1, <2>1, SMT DEF ResultInv
  <2>3. (Up(t)' => Up(t)) /\ (faults' = 0 => (Up(t) => Up(t)'))
    BY <1>4 DEF RunsOnlyAsked, EndsOnlyAsked
  <2>4. ASSUME pc[Caller] = "unlock" PROVE tap'[t].running = tap[t].running
    <3>1. t \in MicTaps /\ lock[t] = Caller
      BY <1>1, <2>2, <2>4, SMT DEF ATInv, CallInv, LockInv, MicLabels, LockedLabels, Serialized
    <3>2. th \in MicTaps /\ th \in Taps /\ (pc[th] # "ready" => Self(th) = th /\ frame[th].op = "handler")
      BY <1>1, <1>4, SMT DEF Threads, CalmInv, CallShape, ThreadFits
    <3>3. CASE SysStep(th)
      BY <3>1, <3>3, SysStepTaps
    <3>4. CASE MicStep(th)
      <4>1. /\ pc[th] \in Serialized \cup {"lock"}
            /\ \A o \in Taps \ {Self(th)} : tap'[o] = tap[o]
            /\ \/ tap'[Self(th)].running = tap[Self(th)].running
               \/ pc[th] = "m_result" \/ pc[th] = "m_free"
        BY <3>4, MicStepTap
      <4>2. Self(th) = th
        BY <3>2, <4>1, SMT DEF Serialized
      <4>3. CASE t = th
        <5>1. pc[th] \notin LockedLabels
          BY <1>1, <3>1, <3>2, <4>2, <4>3, SMT DEF ATInv, LockInv
        <5>2. pc[th] # "m_result" /\ pc[th] # "m_free"
          BY <5>1, SMT DEF LockedLabels, Serialized
        <5> QED BY <4>1, <4>2, <4>3, <5>2
      <4>4. CASE t # th
        BY <4>1, <4>2, <4>4
      <4> QED BY <4>3, <4>4
    <3>5. CASE Return(th)
      BY <3>5, SMT DEF Return, shared
    <3>6. ~CreateStep(th) /\ ~DestroyStep(th) /\ ~Start(th) /\ ~Stop(th) /\ ~RequestPermission(th)
      <4>1. OpFits(pc[th], frame[th])
        BY DEF CalmInv, CallShape, ThreadFits, Fits
      <4>2. pc[th] \notin {"c_tap", "c_aggregate", "c_alloc", "c_device", "c_listen", "destroy", "d_aggregate", "d_tap",
                       "d_unlisten", "d_free", "start", "stop", "permission"}
        BY <3>2, <4>1, SMT DEF OpFits
      <4> QED BY <4>2, SMT DEF CreateStep, DestroyStep, CreateTap, CreateAggregate, CreateAlloc, CreateMic, Listen,
          Destroy, DestroyAggregate, DestroyTap, Unlisten, Free, Start, Stop, RequestPermission, Jump
    <3> QED BY <3>3, <3>4, <3>5, <3>6 DEF Step
  <2> QED BY <2>3, <2>4
<1> QED BY <1>2, <1>3, <1>4

\* What the caller started and did not stop is what runs.
LEMMA StepWant ==
  ASSUME Calm, CalmInv, NEW th \in Threads, Step(th), Moves(th), RunsOnlyAsked(th), EndsOnlyAsked(th),
         faults' = 0 => faults = 0,
         Return(th) \/ (Self(th)' = Self(th) /\ frame'[th].op = frame[th].op)
  PROVE  WantInv'
<1>1. /\ Caller \in Threads /\ Caller \notin MicTaps /\ TypeOK /\ ResultInv /\ WantInv
      /\ OpFits(pc[Caller], frame[Caller]) /\ TapFits(pc[Caller], frame[Caller]) /\ frame[Caller].op # "handler"
  BY AudioTapAssumption, SMT DEF CalmInv, ATInv, Taps, Threads, Wishes, CallShape, ThreadFits, Fits
<1>2. CASE Return(Caller)
  <2>1. /\ frame'[Caller] = NoFrame /\ pc[Caller] = "return" /\ tap' = tap
        /\ want' = (IF frame[Caller].op = "start" /\ frame[Caller].ok THEN want \cup {Self(Caller)} ELSE want)
    BY <1>1, <1>2, SMT DEF Return, TypeOK, shared
  <2>2. frame'[Caller].op = "none"
    BY <2>1, SMT DEF NoFrame, Frame
  <2>3. \A t \in Taps : Up(t)' <=> Up(t)
    BY <1>1, <1>2, UpOtherStep
  <2>4. ASSUME NEW t \in Taps, Up(t) PROVE t \in want'
    <3>1. CASE t \in want
      BY <2>1, <3>1
    <3>2. CASE CallerAsks(t)
      BY <1>1, <2>1, <2>4, <3>2, SMT DEF CallerAsks, ResultInv
    <3> QED BY <1>1, <2>4, <3>1, <3>2 DEF WantInv
  <2>5. ASSUME NEW t \in Taps, faults' = 0, t \in want' PROVE Up(t)
    <3>1. CASE t \in want
      BY <1>1, <2>5, <3>1 DEF WantInv
    <3>2. CASE t \notin want
      BY <1>1, <2>1, <2>5, <3>2, SMT DEF ResultInv
    <3> QED BY <3>1, <3>2
  <2>6. frame'[Caller].op \notin {"stop", "destroy"}
    BY <2>2
  <2> QED BY <2>3, <2>4, <2>5, <2>6 DEF WantInv
<1>3. CASE ~Return(Caller)
  <2>1. Self(Caller)' = Self(Caller) /\ frame'[Caller].op = frame[Caller].op
    <3>1. CASE th = Caller
      BY <1>3, <3>1
    <3>2. CASE th # Caller
      BY <1>1, <3>2 DEF Moves, Self
    <3> QED BY <3>1, <3>2
  <2>2. want' = want
    <3>1. CASE Return(th)
      <4>1. th \in MicTaps /\ pc[th] = "return"
        <5>1. th # Caller
          BY <1>3, <3>1
        <5> QED BY <3>1, <5>1 DEF Threads, Return
      <4>2. frame[th].op # "start"
        BY <4>1, SMT DEF CalmInv, CallShape, ThreadFits, Threads
      <4> QED BY <3>1, <4>2, SMT DEF Return
    <3>2. CASE ~Return(th)
      <4>1. UNCHANGED want
        BY <3>2, Zenon DEF Step, CreateStep, DestroyStep, SysStep, MicStep, CreateTap, CreateAggregate, CreateAlloc,
           CreateMic, Listen, Destroy, DestroyAggregate, DestroyTap, Unlisten, Free, SysCreateProc, SysDeviceStart,
           SysSetRunning, SysSetActive, SysDeviceStop, SysDestroyProc, SysClearRunning, SysClearActive, Lock, Unlock,
           HandlerDevice, HandlerSwitch, MicDeviceStop, MicDestroyProc, MicCreateProc, MicPermission, MicFindSys,
           MicPauseSys, MicDeviceStart, MicResult, Jump, Start, Stop, RequestPermission
      <4> QED BY <4>1
    <3> QED BY <3>1, <3>2
  <2>3. \A t \in Taps : CallerAsks(t)' <=> CallerAsks(t)
    BY <2>1 DEF CallerAsks
  <2>4. ASSUME NEW t \in Taps, Up(t)' PROVE t \in want \/ CallerAsks(t)
    <3>1. CASE Up(t)
      BY <1>1, <3>1 DEF WantInv
    <3>2. CASE th = Caller /\ Self(th) = t /\ pc[th] \in {"m_result", "s_running"}
      <4>1. frame[Caller].op = "start"
        <5>1. pc[Caller] \in MicStarts \/ pc[Caller] \in SysStarts
          BY <3>2, SMT DEF MicStarts, SysStarts
        <5> QED BY <1>1, <5>1, SMT DEF OpFits
      <4> QED BY <3>2, <4>1 DEF CallerAsks
    <3> QED BY <2>4, <3>1, <3>2 DEF RunsOnlyAsked
  <2>5. ASSUME NEW t \in Taps, faults' = 0, t \in want PROVE Up(t)'
    <3>1. Up(t)
      BY <1>1, <2>5 DEF WantInv
    <3>2. ~(th = Caller /\ Self(th) = t /\ frame[th].op \in {"stop", "destroy"})
      BY <1>1, <2>5 DEF WantInv
    <3> QED BY <2>5, <3>1, <3>2 DEF EndsOnlyAsked
  <2> QED BY <1>1, <2>1, <2>2, <2>3, <2>4, <2>5 DEF WantInv
<1> QED BY <1>2, <1>3

\* The environment moves a thread into a call, out of the dialog or into its
\* handler: nothing starts or stops to run.
LEMMA EnvUp ==
  ASSUME CalmInv, NEW th \in Threads, Moves(th), tap' = tap, faults' = faults, pc[th] \in {"ready", "dialog"},
         pc'[th] \in {"c_tap", "c_device", "start", "stop", "destroy", "permission", "lock", "return"}
  PROVE  /\ \A t \in Taps : Up(t)' <=> Up(t)
         /\ OkInv'
         /\ \A o \in Threads : Self(o)' \in MicTaps /\ pc'[o] \in GrantedLabels =>
              Self(o) \in MicTaps /\ pc[o] \in GrantedLabels
<1>1. \A t \in Taps : Up(t)' <=> Up(t)
  <2>1. /\ pc[th] \notin RestartLabels \cup {"h_switch"} /\ pc'[th] \notin RestartLabels \cup {"h_switch"}
        /\ pc[th] \notin PauseLabels /\ pc'[th] \notin PauseLabels
    BY SMT DEF RestartLabels, LockedLabels, Serialized, SysCode, SysStarts, SysStops, PauseLabels
  <2>2. \A t \in Taps : tap'[t].running = tap[t].running
    OBVIOUS
  <2> QED BY <2>1, <2>2, UpSame
<1>2. pc'[th] \notin GrantedLabels /\ pc'[th] \notin SysStarts \cup {"m_result"}
  BY SMT DEF GrantedLabels, SysCode, SysStarts, SysStops
<1>3. \A o \in Threads : o # th => pc'[o] = pc[o] /\ frame'[o] = frame[o]
  BY DEF Moves
<1>4. OkInv'
  BY <1>2, <1>3 DEF CalmInv, Wishes, OkInv
<1>5. \A o \in Threads : o # th => (Self(o)' = Self(o))
  BY <1>3 DEF Self
<1> QED BY <1>1, <1>2, <1>3, <1>4, <1>5

LEMMA CallWishes ==
  ASSUME CalmInv, NEW fun \in Functions, NEW a, Call(fun, a)
  PROVE  Wishes'
<1>1. /\ Caller \in Threads /\ Caller \notin MicTaps /\ TypeOK /\ MicTaps \subseteq Taps
      /\ GrantInv /\ WantInv
  BY AudioTapAssumption, SMT DEF CalmInv, ATInv, Taps, Threads, Wishes
<1>2. /\ pc[Caller] = "ready" /\ tap' = tap /\ permission' = permission /\ faults' = faults
      /\ want' = (IF fun \in {"stop", "destroy"} THEN want \ {a} ELSE want)
      /\ frame' = [frame EXCEPT ![Caller] = Frame(fun, a, IF a \in SysTaps THEN a ELSE None)]
      /\ Goto(Caller, CASE fun = "create" -> IF a \in SysTaps THEN "c_tap" ELSE "c_device" [] OTHER -> fun)
  BY SMT DEF Call, shared, hal, env, bounds
<1>3. frame[Caller].op = "none"
  BY <1>1, <1>2, SMT DEF CalmInv, CallShape, ThreadFits, Fits, OpFits, NoFrame, Frame
<1>4. /\ frame'[Caller] = Frame(fun, a, IF a \in SysTaps THEN a ELSE None)
      /\ \A o \in Threads \ {Caller} : frame'[o] = frame[o]
  BY <1>1, <1>2, SMT DEF TypeOK
<1>5. frame'[Caller].op = fun /\ frame'[Caller].tap = a
  BY <1>4, SMT DEF Frame
<1>6. /\ pc'[Caller] \in {"c_tap", "c_device", "start", "stop", "destroy", "permission"}
      /\ \A o \in Threads \ {Caller} : pc'[o] = pc[o]
  BY <1>1, <1>2, SMT DEF Functions, Goto, TypeOK
<1>7. Moves(Caller)
  BY <1>4, <1>6, SMT DEF Moves
<1>8. /\ \A t \in Taps : Up(t)' <=> Up(t)
      /\ OkInv'
      /\ \A o \in Threads : Self(o)' \in MicTaps /\ pc'[o] \in GrantedLabels =>
           Self(o) \in MicTaps /\ pc[o] \in GrantedLabels
  <2>1. pc[Caller] \in {"ready", "dialog"}
        /\ pc'[Caller] \in {"c_tap", "c_device", "start", "stop", "destroy", "permission", "lock", "return"}
    BY <1>2, <1>6, SMT
  <2> QED BY <1>1, <1>2, <1>7, <2>1, EnvUp
<1>9. pc'[Caller] # "dialog" /\ pc'[Caller] # "unlock" /\ pc'[Caller] # "return"
  BY <1>6
<1>10. GrantInv'
  BY <1>1, <1>2, <1>8, <1>9 DEF GrantInv
<1>11. WantInv'
  <2>1. ASSUME NEW t \in Taps, Up(t) PROVE t \in want' \/ CallerAsks(t)'
    <3>1. t \in want
      BY <1>1, <1>3, <2>1 DEF WantInv, CallerAsks
    <3>2. CASE fun \in {"stop", "destroy"} /\ t = a
      BY <1>5, <3>2 DEF CallerAsks, Self
    <3>3. CASE ~(fun \in {"stop", "destroy"} /\ t = a)
      BY <1>2, <3>1, <3>3
    <3> QED BY <3>2, <3>3
  <2>2. ASSUME NEW t \in Taps, faults = 0, t \in want' PROVE Up(t)
    <3>1. t \in want
      BY <1>2, <2>2
    <3> QED BY <1>1, <2>2, <3>1 DEF WantInv
  <2>3. frame'[Caller].op \in {"stop", "destroy"} => Self(Caller)' \notin want'
    BY <1>2, <1>5 DEF Self
  <2> QED BY <1>2, <1>8, <2>1, <2>2, <2>3 DEF WantInv
<1>12. ResultInv'
  BY <1>9 DEF ResultInv
<1> QED BY <1>8, <1>10, <1>11, <1>12 DEF Wishes

LEMMA UserAnswersWishes ==
  ASSUME CalmInv, NEW answer, UserAnswers(answer)
  PROVE  Wishes'
<1>1. /\ Caller \in Threads /\ TypeOK /\ MicTaps \subseteq Taps /\ GrantInv /\ WantInv
  BY SMT DEF CalmInv, ATInv, Taps, Threads, Wishes
<1>2. /\ pc[Caller] = "dialog" /\ tap' = tap /\ faults' = faults /\ want' = want /\ frame' = frame
      /\ Goto(Caller, "return")
  BY SMT DEF UserAnswers, shared, bounds
<1>3. frame[Caller].op = "permission"
  BY <1>1, <1>2, SMT DEF CalmInv, CallShape, ThreadFits, Fits, OpFits
<1>4. pc'[Caller] = "return" /\ \A o \in Threads \ {Caller} : pc'[o] = pc[o]
  BY <1>1, <1>2, SMT DEF Goto, TypeOK
<1>5. Moves(Caller)
  BY <1>2, <1>4, SMT DEF Moves
<1>6. /\ \A t \in Taps : Up(t)' <=> Up(t)
      /\ OkInv'
      /\ \A o \in Threads : Self(o)' \in MicTaps /\ pc'[o] \in GrantedLabels =>
           Self(o) \in MicTaps /\ pc[o] \in GrantedLabels
  BY <1>1, <1>2, <1>4, <1>5, EnvUp
<1>7. permission = "unknown"
  BY <1>1, <1>2 DEF GrantInv
<1>8. GrantInv'
  BY <1>1, <1>4, <1>6, <1>7 DEF GrantInv
<1>9. WantInv'
  <2>1. (\A t \in Taps : CallerAsks(t)' <=> CallerAsks(t)) /\ Self(Caller)' = Self(Caller)
    BY <1>2 DEF CallerAsks, Self
  <2> QED BY <1>1, <1>2, <1>6, <2>1 DEF WantInv
<1>10. ResultInv'
  BY <1>2, <1>3 DEF ResultInv
<1> QED BY <1>6, <1>8, <1>9, <1>10 DEF Wishes

LEMMA HandlerBeginWishes ==
  ASSUME CalmInv, NEW m \in MicTaps, HandlerBegin(m)
  PROVE  Wishes'
<1>1. /\ Caller \in Threads /\ Caller # m /\ m \in Threads /\ TypeOK /\ MicTaps \subseteq Taps
      /\ GrantInv /\ WantInv /\ ResultInv
  BY AudioTapAssumption, SMT DEF CalmInv, ATInv, Taps, Threads, Wishes
<1>2. /\ pc[m] = "ready" /\ tap' = tap /\ faults' = faults /\ want' = want /\ permission' = permission
      /\ frame' = [frame EXCEPT ![m] = Frame("handler", m, None)] /\ Goto(m, "lock")
  BY SMT DEF HandlerBegin, shared, bounds
<1>3. pc'[m] = "lock" /\ \A o \in Threads \ {m} : pc'[o] = pc[o] /\ frame'[o] = frame[o]
  BY <1>1, <1>2, SMT DEF Goto, TypeOK
<1>4. Moves(m)
  BY <1>3, SMT DEF Moves
<1>5. /\ \A t \in Taps : Up(t)' <=> Up(t)
      /\ OkInv'
      /\ \A o \in Threads : Self(o)' \in MicTaps /\ pc'[o] \in GrantedLabels =>
           Self(o) \in MicTaps /\ pc[o] \in GrantedLabels
  BY <1>1, <1>2, <1>3, <1>4, EnvUp
<1>6. pc'[Caller] = pc[Caller] /\ frame'[Caller] = frame[Caller] /\ Self(Caller)' = Self(Caller)
  BY <1>1, <1>3 DEF Self
<1>7. GrantInv'
  BY <1>1, <1>2, <1>5, <1>6 DEF GrantInv
<1>8. WantInv'
  <2>1. \A t \in Taps : CallerAsks(t)' <=> CallerAsks(t)
    BY <1>6 DEF CallerAsks
  <2> QED BY <1>1, <1>2, <1>5, <1>6, <2>1 DEF WantInv
<1>9. ResultInv'
  BY <1>1, <1>2, <1>5, <1>6 DEF ResultInv
<1> QED BY <1>5, <1>7, <1>8, <1>9 DEF Wishes

LEMMA SameWishes ==
  ASSUME CalmInv, UNCHANGED <<tap, pc, frame, want, permission, faults>>
  PROVE  Wishes'
<1>1. \A t \in Taps : Up(t)' <=> Up(t)
  BY Zenon DEF Up, Restarting, Paused, PausedBy, Self, Sys
<1>2. \A th : Self(th)' = Self(th)
  BY DEF Self
<1>3. MicTaps \subseteq Taps /\ Wishes
  BY DEF Taps, CalmInv
<1>4. GrantInv'
  BY <1>1, <1>2, <1>3 DEF Wishes, GrantInv
<1>5. WantInv'
  BY <1>1, <1>2, <1>3 DEF Wishes, WantInv, CallerAsks
<1>6. ResultInv'
  BY <1>1, <1>2, <1>3 DEF Wishes, ResultInv
<1>7. OkInv'
  BY <1>3 DEF Wishes, OkInv
<1> QED BY <1>4, <1>5, <1>6, <1>7 DEF Wishes

LEMMA NextWishes ==
  ASSUME Calm, CalmInv, [Next]_vars, Registry'
  PROVE  Wishes'
<1>1. faults' = 0 => faults = 0
  BY FaultsStay DEF CalmInv, ATInv
<1>2. CASE \E c \in Calls : Call(c[1], c[2])
  <2>1. PICK c \in Calls : Call(c[1], c[2])
    BY <1>2
  <2>2. c[1] \in Functions
    BY AudioTapAssumption, SMT
  <2> QED BY <2>1, <2>2, CallWishes
<1>3. CASE \E dev \in Devices \cup {None} : DeviceChange(dev)
  <2>1. UNCHANGED <<tap, pc, frame, want, permission, faults>>
    BY <1>3, SMT DEF DeviceChange, shared
  <2> QED BY <2>1, SameWishes
<1>4. CASE \E answer \in {"granted", "denied"} : UserAnswers(answer)
  BY <1>4, UserAnswersWishes
<1>5. CASE \E m \in MicTaps : HandlerBegin(m)
  BY <1>5, HandlerBeginWishes
<1>6. ASSUME NEW th \in Threads, Step(th) PROVE Wishes'
  <2>1. Moves(th) /\ RunsOnlyAsked(th) /\ EndsOnlyAsked(th)
        /\ (Return(th) \/ (Self(th)' = Self(th) /\ frame'[th].op = frame[th].op))
    BY <1>6, StepUp
  <2> QED BY <1>1, <1>6, <2>1, StepOk, StepGrant, StepResult, StepWant DEF Wishes
<1>7. CASE UNCHANGED vars
  <2>1. UNCHANGED <<tap, pc, frame, want, permission, faults>>
    BY <1>7, SMT DEF vars, shared, hal, env, bounds
  <2> QED BY <2>1, SameWishes
<1> QED BY <1>2, <1>3, <1>4, <1>5, <1>6, <1>7, Zenon DEF Next

-----------------------------------------------------------------------------
(* The layers together.                                                    *)

LEMMA InitCalm ==
  ASSUME Init
  PROVE  CalmInv
<1>1. /\ \A t \in Taps : tap[t].life = "none" /\ ~tap[t].running /\ tap[t].io = None
      /\ active = None /\ listening = {} /\ faults = 0 /\ want = {}
      /\ \A m \in MicTaps : lock[m] = None /\ pending[m] = 0
      /\ \A p \in IoProcs : procs[p] = NoProc
      /\ \A t \in SysTaps : objects[t] = {}
      /\ \A th \in Threads : pc[th] = "ready" /\ frame[th] = NoFrame
  BY SMT DEF Init
<1>2. /\ MicTaps \subseteq Taps /\ SysTaps \subseteq Taps /\ MicTaps \subseteq Threads /\ Caller \in Threads
      /\ None \notin Taps
  BY AudioTapAssumption DEF Taps, Threads
<1>3. NoFrame.op = "none" /\ NoFrame.tap = None /\ NoFrame.sys = None
  BY SMT DEF NoFrame, Frame
<1>4. Registry
  <2>1. LinkInv
    BY <1>1 DEF LinkInv
  <2>2. MicRest
    BY <1>1, <1>2 DEF MicRest, Rest, Off
  <2>3. SysRest
    BY <1>1, <1>2 DEF SysRest, AtPeace, Rest, Off
  <2>4. WaitInv
    BY <1>1, <1>2, SMT DEF WaitInv, CallerWaits
  <2>5. ASSUME NEW th \in Threads PROVE MicPhase(th) /\ SysPhase(th)
    <3>1. pc[th] = "ready"
      BY <1>1
    <3> QED BY <3>1, SMT DEF MicPhase, SysPhase, SysCode, SysStarts, SysStops
  <2> QED BY <2>1, <2>2, <2>3, <2>4, <2>5 DEF Registry
<1>5. Lifetimes
  <2>1. TapLife
    BY <1>1, <1>2, SMT DEF TapLife
  <2>2. ASSUME NEW th \in Threads PROVE ThreadLife(th)
    <3>1. pc[th] = "ready" /\ frame[th].op = "none"
      BY <1>1, <1>3
    <3> QED BY <3>1, SMT DEF ThreadLife
  <2> QED BY <2>1, <2>2 DEF Lifetimes
<1>6. FollowInv
  BY <1>1, <1>2, SMT DEF FollowInv, Live
<1>7. Wishes
  <2>1. \A t \in Taps : ~Up(t)
    BY <1>1, <1>2, SMT DEF Up, Restarting, RestartLabels, LockedLabels, Serialized, Paused, PausedBy, PauseLabels
  <2>2. GrantInv
    BY <1>1, <1>2, <2>1, SMT DEF GrantInv, GrantedLabels, SysCode, SysStarts, SysStops
  <2>3. WantInv
    BY <1>1, <1>2, <1>3, <2>1, SMT DEF WantInv
  <2>4. ResultInv
    BY <1>1, <1>2, <1>3, SMT DEF ResultInv
  <2>5. OkInv
    BY <1>1, SMT DEF OkInv, SysStarts
  <2> QED BY <2>2, <2>3, <2>4, <2>5 DEF Wishes
<1> QED BY <1>4, <1>5, <1>6, <1>7, InitATInv, InitShape DEF CalmInv

LEMMA NextCalm ==
  ASSUME Calm, CalmInv, [Next]_vars
  PROVE  CalmInv'
<1>1. ATInv' /\ CallShape'
  BY NextATInv, NextShape DEF CalmInv
<1>2. Registry'
  BY NextRegistry
<1>3. Lifetimes' /\ FollowInv' /\ Wishes'
  BY <1>1, <1>2, NextLifetimes, NextFollow, NextWishes
<1> QED BY <1>1, <1>2, <1>3 DEF CalmInv

\* The layers hold together in every state.
THEOREM CalmHolds == Calm => (Spec => []CalmInv)
<1> SUFFICES ASSUME Calm PROVE Spec => []CalmInv
  OBVIOUS
<1>1. CalmInv /\ [Next]_vars => CalmInv'
  BY NextCalm
<1> QED BY <1>1, InitCalm, PTL DEF Spec

-----------------------------------------------------------------------------
(* What they say of the library.                                           *)

\* A registered IO proc is the one its tap knows.
LEMMA NoOrphan == ASSUME CalmInv PROVE NoOrphanIoProc
BY DEF CalmInv, Registry, LinkInv, NoOrphanIoProc

\* Nobody is at work: every tap is at rest.
LEMMA AllRest ==
  ASSUME CalmInv, AtRest
  PROVE  /\ \A t \in Taps : Rest(t)
         /\ \A t \in SysTaps : AtPeace(t)
<1>1. \A th \in Threads : pc[th] = "ready"
  BY DEF AtRest, Quiet, Threads
<1>2. "ready" \notin LockedLabels /\ "ready" \notin SysCode
  BY SMT DEF LockedLabels, Serialized, SysCode, SysStarts, SysStops
<1>3. \A m \in MicTaps : Rest(m)
  <2> SUFFICES ASSUME NEW m \in MicTaps PROVE lock[m] = None
    BY DEF CalmInv, Registry, MicRest
  <2>1. lock[m] \in Threads \cup {None}
    BY DEF CalmInv, ATInv, TypeOK
  <2> QED BY <1>1, <1>2, <2>1 DEF CalmInv, CallShape, HeldInv
<1>4. \A t \in SysTaps : AtPeace(t)
  BY <1>1, <1>2 DEF CalmInv, Registry, SysRest, Untouched
<1> QED BY <1>3, <1>4 DEF AtPeace, Taps

LEMMA RestTruth ==
  ASSUME OneSystemTap, CalmInv
  PROVE  RestConsistent
<1> SUFFICES ASSUME AtRest
             PROVE  /\ \A t \in Taps :
                         IF tap[t].running
                         THEN /\ tap[t].life = "live"
                              /\ procs[tap[t].io] = [dev |-> Source(t), tap |-> t, on |-> TRUE]
                         ELSE tap[t].io = None
                    /\ active # None => tap[active].running
                    /\ \A t \in SysTaps : tap[t].running => active # None
  BY DEF RestConsistent
<1>1. (\A t \in Taps : Rest(t)) /\ \A t \in SysTaps : AtPeace(t)
  BY AllRest
<1>2. ASSUME NEW t \in Taps, tap[t].running
      PROVE  tap[t].life = "live" /\ procs[tap[t].io] = [dev |-> Source(t), tap |-> t, on |-> TRUE]
  <2>1. tap[t].io # None /\ procs[tap[t].io].on
    BY <1>1, <1>2 DEF Rest, On
  <2>2. tap[t].life = "live"
    BY <1>2 DEF CalmInv, Lifetimes, TapLife, Live
  <2>3. procs[tap[t].io].tap = t /\ procs[tap[t].io].dev = Source(t)
    BY <2>1 DEF CalmInv, Registry, LinkInv
  <2>4. tap[t].io \in IoProcs
    <3>1. tap[t] \in TapRecord
      BY Zenon DEF CalmInv, ATInv, TypeOK
    <3> QED BY <2>1, <3>1, SMT DEF TapRecord
  <2>5. procs[tap[t].io] \in ProcRecord
    BY <2>4, Zenon DEF CalmInv, ATInv, TypeOK
  <2>6. procs[tap[t].io].on = TRUE
    BY <2>1, <2>5, SMT DEF ProcRecord
  <2>7. \A r \in ProcRecord : r = [dev |-> r.dev, tap |-> r.tap, on |-> r.on]
    BY SMT DEF ProcRecord
  <2> QED BY <2>2, <2>3, <2>5, <2>6, <2>7
<1>3. ASSUME NEW t \in Taps, ~tap[t].running PROVE tap[t].io = None
  BY <1>1, <1>3 DEF Rest, Off
<1>4. active # None => tap[active].running
  <2>1. active \in SysTaps \cup {None}
    BY DEF CalmInv, ATInv, TypeOK
  <2> QED BY <1>1, <2>1 DEF AtPeace
<1>5. ASSUME NEW t \in SysTaps, tap[t].running PROVE active # None
  <2>1. active = t
    BY <1>1, <1>5 DEF AtPeace
  <2> QED BY <2>1, AudioTapAssumption DEF Taps
<1> QED BY <1>2, <1>3, <1>4, <1>5

LEMMA AllReleased ==
  ASSUME CalmInv
  PROVE  NothingLeftBehind
<1> SUFFICES ASSUME pc[Caller] = "ready", NEW t \in Taps, tap[t].life # "live"
             PROVE  /\ t \in SysTaps => objects[t] = {}
                    /\ \A p \in IoProcs : procs[p].tap # t
                    /\ t \notin listening /\ active # t
  BY DEF NothingLeftBehind
<1>1. ~Live(t) /\ TapLife
  BY DEF Live, CalmInv, Lifetimes
<1>2. t \in SysTaps => objects[t] = {}
  BY <1>1 DEF TapLife, Building
<1>3. ASSUME NEW p \in IoProcs PROVE procs[p].tap # t
  <2>1. CASE procs[p] = NoProc
    BY <2>1, ProcFacts
  <2>2. CASE procs[p] # NoProc
    <3>1. tap[procs[p].tap].io = p
      BY <2>2 DEF CalmInv, Registry, LinkInv
    <3>2. tap[t].io = None
      BY <1>1 DEF TapLife
    <3> QED BY <3>1, <3>2, ProcFacts
  <2> QED BY <2>1, <2>2
<1>4. t \notin listening
  <2>1. listening \subseteq MicTaps
    BY DEF CalmInv, ATInv, TypeOK
  <2> QED BY <1>1, <2>1 DEF TapLife
<1>5. active # t
  <2>1. t # None
    BY ProcFacts
  <2> QED BY <1>1, <2>1 DEF TapLife
<1> QED BY <1>2, <1>3, <1>4, <1>5

\* A thread about to start a microphone is the only one at work on a system
\* tap, and has paused the one that ran.
LEMMA NoAggregate ==
  ASSUME Calm, OneSystemTap, CalmInv
  PROVE  NeverUnderAggregate
<1> SUFFICES ASSUME NEW th \in Threads, pc[th] = "m_start", NEW p \in IoProcs,
                    procs[p].on, procs[p].tap \in SysTaps
             PROVE  FALSE
  BY DEF NeverUnderAggregate, AggregateRuns
<1>1. PICK u \in SysTaps : u = procs[p].tap
  OBVIOUS
<1>2. procs[p] # NoProc
  BY ProcFacts
<1>3. tap[u].io = p /\ u \in Taps
  BY <1>1, <1>2 DEF CalmInv, Registry, LinkInv, Taps
<1>4. On(u) /\ ~Off(u)
  BY <1>3, ProcFacts DEF On, Off
<1>5. SysPhase(th) /\ MicPhase(th)
  BY DEF CalmInv, Registry
<1>6. CASE Sys(th) = None
  <2>1. active = None
    BY <1>5, <1>6 DEF SysPhase
  <2>2. pc[th] \in LockedLabels /\ pc[th] \notin SysCode /\ SysCode \subseteq LockedLabels
    BY SMT DEF LockedLabels, Serialized, SysCode, SysStarts, SysStops
  <2>3. \A o \in Threads : pc[o] \notin SysCode
    <3> SUFFICES ASSUME NEW o \in Threads, pc[o] \in SysCode PROVE FALSE
      OBVIOUS
    <3>1. o \in Threads \ {th} /\ pc[o] \in LockedLabels
      BY <2>2
    <3>2. SysTaps = {}
      BY <2>2, <3>1, Exclusive DEF CalmInv
    <3> QED BY <3>2
  <2>4. AtPeace(u)
    BY <2>3 DEF CalmInv, Registry, SysRest, Untouched
  <2>5. active = u
    BY <1>4, <2>4 DEF AtPeace, Rest
  <2> QED BY <2>1, <2>5, <1>3, ProcFacts
<1>7. CASE Sys(th) # None
  <2>1. Sys(th) \in SysTaps
    BY <1>7, FrameTyped DEF CalmInv, Sys
  <2>2. Sys(th) = u
    BY <2>1 DEF OneSystemTap
  <2>3. Off(u)
    BY <1>5, <1>7, <2>2 DEF SysPhase
  <2> QED BY <1>4, <2>3
<1> QED BY <1>6, <1>7

LEMMA OnDefault ==
  ASSUME CalmInv
  PROVE  FollowsDefault
<1> SUFFICES ASSUME AtRest, faults = 0, NEW m \in MicTaps, Live(m), default_dev # None
             PROVE  tap[m].dev = default_dev
  BY DEF FollowsDefault, Live
<1>1. WillFollow(m)
  BY DEF CalmInv, FollowInv
<1>2. pending[m] = 0 /\ pc[m] = "ready"
  BY DEF AtRest, Quiet
<1> QED BY <1>1, <1>2 DEF WillFollow

LEMMA AsAsked ==
  ASSUME CalmInv
  PROVE  RunsAsAsked
<1> SUFFICES ASSUME AtRest, NEW t \in Taps
             PROVE  /\ tap[t].running => t \in want
                    /\ t \in want /\ faults = 0 => tap[t].running
  BY DEF RunsAsAsked
<1>1. \A th \in Threads : pc[th] = "ready"
  BY DEF AtRest, Quiet, Threads
<1>2. ~CallerAsks(t)
  <2>1. frame[Caller] = NoFrame
    BY <1>1 DEF CalmInv, CallShape, ThreadFits, Fits, OpFits, Threads
  <2>2. NoFrame.op = "none"
    BY DEF NoFrame, Frame
  <2> QED BY <2>1, <2>2 DEF CallerAsks
<1>3. Up(t) <=> tap[t].running
  <2>1. "ready" \notin RestartLabels \cup {"h_switch"} /\ "ready" \notin PauseLabels
    BY SMT DEF RestartLabels, LockedLabels, Serialized, PauseLabels
  <2>2. t \in MicTaps => ~Restarting(t)
    BY <1>1, <2>1 DEF Restarting, Threads
  <2>3. ~Paused(t)
    BY <1>1, <2>1 DEF Paused, PausedBy
  <2> QED BY <2>2, <2>3 DEF Up
<1> QED BY <1>2, <1>3 DEF CalmInv, Wishes, WantInv

LEMMA UsesLive ==
  ASSUME CalmInv
  PROVE  NoUseAfterFree
<1> SUFFICES ASSUME NEW th \in Threads, NEW t \in Uses(th) PROVE Live(t)
  BY DEF NoUseAfterFree, Live
<1>1. OpFits(pc[th], frame[th]) /\ TapFits(pc[th], frame[th]) /\ ThreadLife(th)
  BY DEF CalmInv, CallShape, ThreadFits, Fits, Lifetimes
<1>2. CASE t = Self(th) /\ pc[th] \in UsesSelf /\ frame[th].op # "create"
  <2>1. frame[th].op \in {"start", "stop", "destroy", "handler"} /\ pc[th] # "return"
    BY <1>1, <1>2, SMT DEF OpFits, UsesSelf, MicStarts
  <2> QED BY <1>1, <1>2, <2>1, SMT DEF ThreadLife
<1>3. CASE t = Sys(th) /\ pc[th] \in UsesSys
  <2>1. pc[th] \in SysCode \cup {"m_check"} /\ pc[th] # "return"
    BY <1>3, SMT DEF UsesSys, SysCode, SysStarts, SysStops
  <2>2. t \in SysTaps /\ t # None
    <3>1. t \in SysTaps
      BY <1>1, <1>3, <2>1 DEF TapFits, Sys
    <3> QED BY <3>1, AudioTapAssumption DEF Taps
  <2>3. CASE frame[th].op \in {"start", "handler"}
    BY <1>1, <1>3, <2>2, <2>3, SMT DEF ThreadLife
  <2>4. CASE frame[th].op \notin {"start", "handler"}
    <3>1. frame[th].tap \in SysTaps /\ frame[th].op \in {"stop", "destroy"}
      BY <1>1, <2>1, <2>4, SMT DEF OpFits, SysCode, SysStarts, SysStops, MicStarts
    <3>2. t = Self(th)
      BY <1>1, <1>3, <3>1 DEF TapFits, Sys, Self
    <3> QED BY <1>1, <2>1, <3>1, <3>2, SMT DEF ThreadLife
  <2> QED BY <2>3, <2>4
<1> QED BY <1>2, <1>3 DEF Uses

\* No IO proc is forgotten: Core Audio calls back only with the id that stop
\* and destroy know (io_proc_id, audiotap_system.m and audiotap_mic.c).
THEOREM NoOrphanIoProcHolds == Calm => (Spec => []NoOrphanIoProc)
BY CalmHolds, NoOrphan, PTL

\* Between calls `running' tells the truth of what is registered and started,
\* and the global pointer is the system tap that runs (audiotap_system.m:
\* audiotap_system_start and audiotap_system_stop; audiotap_mic.c).
THEOREM RestConsistentHolds == Calm /\ OneSystemTap => (Spec => []RestConsistent)
<1> SUFFICES ASSUME Calm, OneSystemTap PROVE Spec => []RestConsistent
  OBVIOUS
<1>1. CalmInv => RestConsistent
  BY RestTruth
<1> QED BY <1>1, CalmHolds, PTL

\* A tap that could not be created, or was destroyed, leaves nothing behind
\* (the rollbacks of audiotap_create_system, audiotap_system_destroy,
\* audiotap_mic_destroy).
THEOREM NothingLeftBehindHolds == Calm => (Spec => []NothingLeftBehind)
BY CalmHolds, AllReleased, PTL

\* A microphone is started only while no aggregate device runs
\* (audiotap_internal.h: the pause of the active system tap).
THEOREM NeverUnderAggregateHolds == Calm /\ OneSystemTap => (Spec => []NeverUnderAggregate)
<1> SUFFICES ASSUME Calm, OneSystemTap PROVE Spec => []NeverUnderAggregate
  OBVIOUS
<1>1. CalmInv => NeverUnderAggregate
  BY NoAggregate
<1> QED BY <1>1, CalmHolds, PTL

\* Between calls, as long as nothing failed, a microphone tap is on the default
\* input device (handle_device_change, audiotap_mic.c).
THEOREM FollowsDefaultHolds == Calm => (Spec => []FollowsDefault)
BY CalmHolds, OnDefault, PTL

\* Between calls nothing runs that the caller did not ask for, and without a
\* failure everything it asked for runs: after the restart of a microphone tap
\* on its new device and after the pause of a system tap.
THEOREM RunsAsAskedHolds == Calm => (Spec => []RunsAsAsked)
BY CalmHolds, AsAsked, PTL

\* No thread works on a tap that audiotap_destroy has freed, the listener's
\* queue included.
THEOREM NoUseAfterFreeHolds == Calm => (Spec => []NoUseAfterFree)
BY CalmHolds, UsesLive, PTL

-----------------------------------------------------------------------------
(* The library implements module Capture.                                  *)

\* What a call that creates or destroys a tap has come to.
DoneInv ==
  LET t == Self(Caller)  label == pc[Caller]  ok == frame[Caller].ok  IN
  /\ frame[Caller].op = "create" =>
       /\ label \in {"c_tap", "c_aggregate", "c_alloc", "c_device", "c_listen"} => ok
       /\ label \in {"d_aggregate", "d_tap"} => ~ok
       /\ label = "return" => (ok <=> Live(t))
  /\ frame[Caller].op = "destroy" /\ label = "return" => tap[t].life = "freed"
  /\ label # "ready" => frame[Caller].op # "none"

\* Core Audio calls back the taps whose registered IO proc is started.
LEMMA SoundingOn ==
  ASSUME CalmInv, NEW t \in Sounding
  PROVE  t \in Taps /\ On(t)
<1>1. t \in Taps /\ \E p \in IoProcs : procs[p].tap = t /\ procs[p].on
  BY DEF Sounding
<1>2. PICK p \in IoProcs : procs[p].tap = t /\ procs[p].on
  BY <1>1
<1>3. procs[p] # NoProc
  BY <1>2, ProcFacts
<1>4. tap[t].io = p
  BY <1>2, <1>3 DEF CalmInv, Registry, LinkInv
<1> QED BY <1>1, <1>2, <1>4, ProcFacts DEF On

\* A tap that sounds runs, or will again, or its caller is at work on it.
LEMMA OnUp ==
  ASSUME CalmInv, NEW t \in Taps, On(t)
  PROVE  Up(t) \/ (CallerAsks(t) /\ pc[Caller] \in LockedLabels)
<1>1. CASE Rest(t)
  BY <1>1, SMT DEF Rest, On, Off, Up
<1>2. CASE t \in MicTaps /\ lock[t] # None
  <2>1. lock[t] \in Threads
    BY <1>2 DEF CalmInv, ATInv, TypeOK
  <2>2. PICK th \in Threads : th = lock[t]
    BY <2>1
  <2>3. Self(th) = t /\ pc[th] \in LockedLabels
    BY <1>2, <2>2 DEF CalmInv, CallShape, HeldInv
  <2>4. CASE th = Caller
    <3>1. frame[Caller].op # "handler"
      BY <2>2, <2>4 DEF CalmInv, CallShape, ThreadFits
    <3> QED BY <2>3, <2>4, <3>1, WorksOnLive, SMT DEF CallerAsks, Threads
  <2>5. CASE th # Caller
    <3>1. th \in MicTaps /\ pc[th] # "ready"
      BY <2>3, <2>5, SMT DEF Threads, LockedLabels, Serialized
    <3>2. th = t
      BY <2>3, <3>1 DEF CalmInv, CallShape, ThreadFits
    <3>3. CASE pc[t] \in RestartLabels
      BY <1>2, <3>3 DEF Up, Restarting
    <3>4. CASE pc[t] \in {"h_device", "unlock", "h_switch"}
      <4>1. MicPhase(t)
        BY <3>2, <2>3, AtWork
      <4>2. pc[t] \in {"h_device", "unlock"}
        BY <2>3, <3>2, <3>4, <4>1, SMT DEF MicPhase, On, Off
      <4> QED BY <1>1, <2>3, <3>2, <4>1, <4>2, SMT DEF MicPhase
    <3> QED BY <2>3, <3>2, <3>3, <3>4, SMT DEF RestartLabels
  <2> QED BY <2>4, <2>5
<1>3. CASE t \in SysTaps /\ ~Untouched(t)
  <2>1. PICK th \in Threads : pc[th] \in SysCode /\ Sys(th) = t
    BY <1>3 DEF Untouched
  <2>2. pc[th] \in LockedLabels
    BY <2>1, SMT DEF SysCode, SysStarts, SysStops, LockedLabels
  <2>3. SysPhase(th) /\ Self(th) \in Taps
    BY <2>2, AtWork
  <2>4. CASE Self(th) \in SysTaps
    <3>1. th = Caller
      BY <2>4, OnlyCaller DEF CalmInv
    <3>2. Self(th) = t
      BY <2>1, <2>4, SMT DEF CalmInv, CallShape, ThreadFits, Fits, TapFits, Self, Sys
    <3>3. frame[Caller].op # "handler"
      BY <2>1, <3>1 DEF CalmInv, CallShape, ThreadFits
    <3> QED BY <2>2, <3>1, <3>2, <3>3, WorksOnLive, SMT DEF CallerAsks
  <2>5. CASE Self(th) \in MicTaps
    <3>1. tap[t].running \/ pc[th] \in PauseLabels
      BY <1>3, <2>1, <2>3, SMT DEF SysPhase, On, Off, SysCode, SysStarts, SysStops, PauseLabels
    <3> QED BY <1>3, <2>1, <2>5, <3>1 DEF Up, Paused, PausedBy
  <2> QED BY <2>3, <2>4, <2>5 DEF Taps
<1>4. Rest(t) \/ (t \in MicTaps /\ lock[t] # None) \/ (t \in SysTaps /\ ~Untouched(t))
  BY DEF CalmInv, Registry, MicRest, SysRest, AtPeace, Taps
<1> QED BY <1>1, <1>2, <1>3, <1>4

LEMMA SoundingWanted ==
  ASSUME CalmInv, NEW t \in Sounding
  PROVE  Live(t) /\ (t \in want \/ CallerAsks(t))
<1>1. t \in Taps /\ On(t)
  BY SoundingOn
<1>2. Live(t)
  BY <1>1 DEF On, CalmInv, Lifetimes, TapLife
<1>3. t \in want \/ CallerAsks(t)
  BY <1>1, OnUp DEF CalmInv, Wishes, WantInv
<1> QED BY <1>2, <1>3

\* Only the end of a creation and a destruction change which taps exist.
LEMMA LifeStep ==
  ASSUME CalmInv, NEW th \in Threads, Step(th),
         ~CreateAlloc(th), ~CreateMic(th), ~Free(th)
  PROVE  \A t \in Taps : tap'[t].life = tap[t].life
<1>1. TypeOK
  BY DEF CalmInv, ATInv
<1>2. CASE SysStep(th)
  <2>1. Sys(th) \in Taps
    BY <1>2, SysStepTaps, AtWork, SMT
  <2>2. \/ tap' = tap
        \/ \E v : \/ tap' = [tap EXCEPT ![Sys(th)].io = v]
                  \/ tap' = [tap EXCEPT ![Sys(th)].running = v]
    BY <1>2, Zenon DEF SysStep, SysCreateProc, SysDeviceStart, SysSetRunning, SysSetActive, SysDeviceStop,
       SysDestroyProc, SysClearRunning, SysClearActive, shared, Register
  <2> QED BY <1>1, <2>1, <2>2, RetouchedBy, Zenon DEF Retouched
<1>3. CASE MicStep(th)
  <2>1. Self(th) \in Taps
    BY <1>3, MicStepTap, SMT DEF Taps
  <2>2. \/ tap' = tap
        \/ \E v : \/ tap' = [tap EXCEPT ![Self(th)].io = v]
                  \/ tap' = [tap EXCEPT ![Self(th)].running = v]
                  \/ tap' = [tap EXCEPT ![Self(th)].dev = v]
        \/ tap' = [tap EXCEPT ![Self(th)].io = None, ![Self(th)].running = FALSE]
    BY <1>3, Zenon DEF MicStep, Lock, Unlock, HandlerDevice, HandlerSwitch, MicDeviceStop, MicDestroyProc,
       MicCreateProc, MicPermission, MicFindSys, MicPauseSys, MicDeviceStart, MicResult, Jump, shared, Register
  <2> QED BY <1>1, <2>1, <2>2, RetouchedBy, Zenon DEF Retouched
<1>4. CASE ~SysStep(th) /\ ~MicStep(th)
  <2>1. tap' = tap
    BY <1>4, Zenon DEF Step, CreateStep, DestroyStep, CreateTap, CreateAggregate, Listen, Destroy, DestroyAggregate,
       DestroyTap, Unlisten, Start, Stop, RequestPermission, Return, Jump, shared
  <2> QED BY <2>1
<1> QED BY <1>2, <1>3, <1>4

\* The threads that create and destroy taps.
LEMMA OnlyCallerMakes ==
  ASSUME CalmInv, NEW th \in Threads, CreateAlloc(th) \/ CreateMic(th) \/ Free(th)
  PROVE  th = Caller /\ Self(Caller) \in Taps
<1>1. pc[th] \in {"c_alloc", "c_device", "d_free"}
  BY SMT DEF CreateAlloc, CreateMic, Free
<1> QED BY <1>1, LifeWork, SMT

\* The calls that neither create nor end a tap go on.
LEMMA DoneInMiddle ==
  ASSUME CalmInv, SysStep(Caller) \/ MicStep(Caller) \/ Start(Caller) \/ Stop(Caller) \/ RequestPermission(Caller)
  PROVE  /\ frame[Caller].op # "create" /\ pc[Caller] # "ready"
         /\ frame[Caller].op = "destroy" => pc'[Caller] # "return"
<1>1. /\ TypeOK /\ Caller \in Threads /\ OpFits(pc[Caller], frame[Caller])
      /\ TapFits(pc[Caller], frame[Caller])
  BY DEF CalmInv, ATInv, CallShape, ThreadFits, Fits, Threads
<1>2. pc[Caller] \in SysCode \cup Serialized \cup {"lock", "start", "stop", "permission"}
  BY <1>1, SysStepTaps, MicStepTap, SMT DEF Start, Stop, RequestPermission, Jump
<1>3. frame[Caller].op # "create"
  <2>1. CASE pc[Caller] \in SysCode \cup {"lock", "start", "stop", "permission"}
    BY <1>1, <2>1, SMT DEF OpFits, SysCode, SysStarts, SysStops
  <2>2. CASE pc[Caller] \in Serialized
    BY <1>1, <2>2, SMT DEF OpFits, Serialized, MicStarts
  <2> QED BY <1>2, <2>1, <2>2
<1>4. ASSUME frame[Caller].op = "destroy" PROVE pc'[Caller] # "return"
  <2>1. pc[Caller] \notin SysStarts \cup {"start", "permission"}
    BY <1>1, <1>4, SMT DEF OpFits
  <2>2. ~Start(Caller) /\ ~RequestPermission(Caller)
    BY <2>1, SMT DEF Start, RequestPermission, Jump
  <2>3. CASE SysStep(Caller)
    <3>1. SysDeviceStop(Caller) \/ SysDestroyProc(Caller) \/ SysClearRunning(Caller) \/ SysClearActive(Caller)
      BY <2>1, <2>3, SMT DEF SysStep, SysCreateProc, SysDeviceStart, SysSetRunning, SysSetActive, SysStarts
    <3>2. \E label \in {"x_clear", "x_free", "x_active", "m_start", "d_aggregate", "d_unlisten"} : Goto(Caller, label)
      BY <1>4, <3>1, Zenon DEF SysDeviceStop, SysDestroyProc, SysClearRunning, SysClearActive, AfterSysStop,
         AfterStop, DestroyBegin
    <3> QED BY <1>1, <3>2, WentTo, SMT
  <2>4. CASE MicStep(Caller)
    <3>1. ~Lock(Caller) =>
            \E label \in {"unlock", "m_halt", "h_switch", "m_create", "m_free", "m_permission", "m_pause", "m_start",
                          "m_check", "x_halt", "m_result", "s_create", "d_aggregate", "d_unlisten"} : Goto(Caller, label)
      BY <1>4, <2>4, Zenon DEF MicStep, Unlock, HandlerDevice, HandlerSwitch, MicDeviceStop, MicDestroyProc,
         MicCreateProc, MicPermission, MicFindSys, MicPauseSys, MicDeviceStart, MicResult, Jump, AfterMicStop,
         AfterStop, DestroyBegin
    <3>2. Lock(Caller) => Goto(Caller, "m_halt")
      BY <1>4, SMT DEF Lock
    <3> QED BY <1>1, <3>1, <3>2, WentTo, SMT
  <2>5. CASE Stop(Caller)
    <3>1. \E label \in {"x_halt", "lock", "d_aggregate", "d_unlisten"} : Goto(Caller, label)
      BY <1>4, <2>5, Zenon DEF Stop, Jump, AfterStop, DestroyBegin
    <3> QED BY <1>1, <3>1, WentTo, SMT
  <2> QED BY <2>2, <2>3, <2>4, <2>5
<1>5. pc[Caller] # "ready"
  BY <1>2, SMT DEF SysCode, SysStarts, SysStops, Serialized
<1> QED BY <1>3, <1>4, <1>5

\* A step that leaves the call of the caller where it is.
LEMMA DoneSame ==
  ASSUME CalmInv, DoneInv, pc'[Caller] = pc[Caller], frame'[Caller] = frame[Caller],
         \A t \in Taps : tap'[t].life = tap[t].life
  PROVE  DoneInv'
<1>1. Caller \in Threads /\ ThreadFits(Caller)
  BY DEF CalmInv, CallShape, Threads
<1>2. frame[Caller].op \in {"create", "destroy"} => Self(Caller) \in Taps
  BY <1>1, SMT DEF ThreadFits, Fits, TapFits, Self
<1> QED BY <1>2, SMT DEF DoneInv, Self, Live

LEMMA DoneCreate ==
  ASSUME CalmInv, DoneInv, CreateStep(Caller)
  PROVE  DoneInv'
<1>1. /\ TypeOK /\ Caller \in Threads
      /\ pc[Caller] \in {"c_tap", "c_aggregate", "c_alloc", "c_device", "c_listen"}
  BY SMT DEF CalmInv, ATInv, Threads, CreateStep, CreateTap, CreateAggregate, CreateAlloc, CreateMic, Listen
<1>2. frame[Caller].op = "create" /\ Self(Caller) \in Taps /\ ThreadLife(Caller)
  BY <1>1, LifeWork
<1>3. frame[Caller].ok
  BY <1>1, <1>2 DEF DoneInv
<1>4. \/ UNCHANGED frame
      \/ FramesKeep(Caller) /\ ~frame'[Caller].ok
  BY <1>1, FailedKeeps, Zenon DEF CreateStep, CreateTap, CreateAggregate, CreateAlloc, CreateMic, Listen
<1>5. frame'[Caller].op = "create" /\ Self(Caller)' = Self(Caller)
  BY <1>2, <1>4, SMT DEF FramesKeep, Self
<1>6. CASE UNCHANGED frame
  <2>1. \/ pc[Caller] = "c_tap" /\ Goto(Caller, "c_aggregate")
        \/ pc[Caller] = "c_aggregate" /\ Goto(Caller, "c_alloc")
        \/ /\ pc[Caller] = "c_alloc" /\ Goto(Caller, "return")
           /\ tap' = [tap EXCEPT ![Self(Caller)].life = "live"]
        \/ pc[Caller] = "c_device" /\ Goto(Caller, "c_listen")
        \/ pc[Caller] = "c_listen" /\ Goto(Caller, "return") /\ tap' = tap
        \/ Failed(Caller)
    BY <1>6, Zenon DEF CreateStep, CreateTap, CreateAggregate, CreateAlloc, CreateMic, Listen, shared
  <2>2. ~Failed(Caller)
    BY <1>1, <1>3, <1>6, FailedKeeps
  <2>3. CASE pc[Caller] = "c_alloc" /\ Goto(Caller, "return") /\ tap' = [tap EXCEPT ![Self(Caller)].life = "live"]
    <3>1. tap'[Self(Caller)].life = "live" /\ pc'[Caller] = "return"
      BY <1>1, <1>2, <2>3, LifeUpdated, WentTo
    <3> QED BY <1>3, <1>5, <1>6, <3>1, SMT DEF DoneInv, Live
  <2>4. CASE pc[Caller] = "c_listen" /\ Goto(Caller, "return") /\ tap' = tap
    <3>1. Live(Self(Caller)) /\ pc'[Caller] = "return"
      BY <1>1, <1>2, <2>4, WentTo DEF ThreadLife
    <3> QED BY <1>3, <1>5, <1>6, <2>4, <3>1, SMT DEF DoneInv, Live
  <2>5. CASE \E label \in {"c_aggregate", "c_alloc", "c_listen"} : Goto(Caller, label)
    <3>1. pc'[Caller] \in {"c_aggregate", "c_alloc", "c_listen"}
      BY <1>1, <2>5, WentTo
    <3> QED BY <1>3, <1>5, <1>6, <3>1, SMT DEF DoneInv
  <2> QED BY <2>1, <2>2, <2>3, <2>4, <2>5
<1>7. CASE ~frame'[Caller].ok
  <2>1. \/ Listen(Caller)
        \/ Goto(Caller, "d_tap") \/ Goto(Caller, "d_aggregate")
        \/ pc[Caller] # "c_listen" /\ Goto(Caller, "return") /\ tap' = tap
        \/ UNCHANGED frame
    BY <1>3, <1>7, SMT DEF CreateStep, CreateTap, CreateAggregate, CreateAlloc, CreateMic, shared
  <2>2. ~Listen(Caller)
    BY <1>3, <1>7 DEF Listen
  <2>3. ~UNCHANGED frame
    BY <1>3, <1>7
  <2>4. CASE \E label \in {"d_tap", "d_aggregate"} : Goto(Caller, label)
    <3>1. pc'[Caller] \in {"d_tap", "d_aggregate"}
      BY <1>1, <2>4, WentTo
    <3> QED BY <1>5, <1>7, <3>1, SMT DEF DoneInv
  <2>5. CASE pc[Caller] # "c_listen" /\ Goto(Caller, "return") /\ tap' = tap
    <3>1. pc'[Caller] = "return"
      BY <1>1, <2>5, WentTo
    <3>2. tap[Self(Caller)].life = "none"
      BY <1>1, <1>2, <2>5, SMT DEF ThreadLife
    <3> QED BY <1>5, <1>7, <2>5, <3>1, <3>2, SMT DEF DoneInv, Live
  <2> QED BY <2>1, <2>2, <2>3, <2>4, <2>5
<1> QED BY <1>4, <1>6, <1>7

LEMMA DoneDestroy ==
  ASSUME CalmInv, DoneInv, DestroyStep(Caller)
  PROVE  DoneInv'
<1>1. TypeOK /\ Caller \in Threads /\ frame' = frame
  BY SMT DEF CalmInv, ATInv, Threads, DestroyStep, Destroy, DestroyAggregate, DestroyTap, Unlisten, Free, Jump
<1>2. frame'[Caller].op = frame[Caller].op /\ frame'[Caller].ok = frame[Caller].ok /\ Self(Caller)' = Self(Caller)
  BY <1>1 DEF Self
<1>3. frame[Caller].op # "none"
  <2>1. pc[Caller] # "ready"
    BY SMT DEF DestroyStep, Destroy, DestroyAggregate, DestroyTap, Unlisten, Free, Jump
  <2> QED BY <2>1 DEF DoneInv
<1>4. CASE Free(Caller)
  <2>1. pc[Caller] = "d_free" /\ Goto(Caller, "return") /\ tap' = [tap EXCEPT ![Self(Caller)].life = "freed"]
    BY <1>4 DEF Free
  <2>2. frame[Caller].op = "destroy" /\ Self(Caller) \in Taps
    BY <1>1, <2>1, LifeWork
  <2>3. pc'[Caller] = "return" /\ tap'[Self(Caller)].life = "freed"
    BY <1>1, <2>1, <2>2, LifeUpdated, WentTo
  <2> QED BY <1>2, <2>2, <2>3, SMT DEF DoneInv
<1>5. CASE ~Free(Caller)
  <2>1. tap' = tap
    BY <1>5, Zenon DEF DestroyStep, Destroy, DestroyAggregate, DestroyTap, Unlisten, Jump, shared
  <2>2. CASE frame[Caller].op = "create"
    <3>1. DestroyAggregate(Caller) \/ DestroyTap(Caller)
      <4>1. pc[Caller] \notin {"destroy", "d_unlisten"}
        BY <1>1, <2>2, SMT DEF CalmInv, CallShape, ThreadFits, Fits, OpFits
      <4> QED BY <1>5, <4>1, SMT DEF DestroyStep, Destroy, Unlisten, Jump
    <3>2. pc[Caller] \in {"d_aggregate", "d_tap"}
      BY <3>1, SMT DEF DestroyAggregate, DestroyTap
    <3>3. ~frame[Caller].ok /\ tap[Self(Caller)].life = "none"
      BY <1>1, <2>2, <3>2, SMT DEF DoneInv, CalmInv, Lifetimes, ThreadLife
    <3>4. \E label \in {"d_tap", "return"} : Goto(Caller, label)
      BY <2>2, <3>1, SMT DEF DestroyAggregate, DestroyTap
    <3>5. pc'[Caller] \in {"d_tap", "return"}
      BY <1>1, <3>4, WentTo
    <3> QED BY <1>2, <2>1, <2>2, <3>3, <3>5, SMT DEF DoneInv, Live
  <2>3. CASE frame[Caller].op # "create"
    <3>1. \E label \in {"stop", "d_aggregate", "d_tap", "d_unlisten", "d_free"} : Goto(Caller, label)
      <4>1. DestroyTap(Caller) => Goto(Caller, "d_free")
        BY <2>3, SMT DEF DestroyTap
      <4> QED BY <1>5, <4>1, Zenon DEF DestroyStep, Destroy, DestroyAggregate, Unlisten, Jump, DestroyBegin
    <3>2. pc'[Caller] # "return"
      BY <1>1, <3>1, WentTo, SMT
    <3> QED BY <1>2, <1>3, <2>3, <3>2, SMT DEF DoneInv
  <2> QED BY <2>2, <2>3
<1> QED BY <1>4, <1>5

\* What a creation and a destruction have come to, step by step.
LEMMA NextDone ==
  ASSUME Calm, CalmInv, Registry', DoneInv, [Next]_vars
  PROVE  DoneInv'
<1>1. /\ TypeOK /\ Caller \in Threads /\ Caller \notin MicTaps /\ MicTaps \subseteq Threads
      /\ ThreadFits(Caller)
  BY AudioTapAssumption DEF CalmInv, ATInv, Threads, CallShape, Taps
<1>2. CASE UNCHANGED vars
  BY <1>2, DoneSame DEF vars, shared
<1>3. ASSUME NEW c \in Calls, Call(c[1], c[2]) PROVE DoneInv'
  <2>1. frame'[Caller] = Frame(c[1], c[2], IF c[2] \in SysTaps THEN c[2] ELSE None) /\ c[1] \in Functions
    BY <1>1, <1>3, AudioTapAssumption, SMT DEF Call, TypeOK
  <2>2. frame'[Caller].op = c[1] /\ frame'[Caller].ok /\ c[1] # "none"
    BY <2>1, SMT DEF Frame, Functions
  <2>3. \E label \in {"c_tap", "c_device", "start", "stop", "destroy", "permission"} : Goto(Caller, label)
    BY <1>3, <2>1, SMT DEF Call, Functions
  <2>4. pc'[Caller] \notin {"d_aggregate", "d_tap", "return"}
    BY <1>1, <2>3, WentTo, SMT
  <2> QED BY <2>2, <2>4, SMT DEF DoneInv
<1>4. ASSUME NEW dev, DeviceChange(dev) PROVE DoneInv'
  BY <1>4, DoneSame DEF DeviceChange, shared
<1>5. ASSUME NEW answer, UserAnswers(answer) PROVE DoneInv'
  <2>1. frame[Caller].op = "permission" /\ frame' = frame
    BY <1>1, <1>5, SMT DEF UserAnswers, ThreadFits, Fits, OpFits
  <2> QED BY <2>1, SMT DEF DoneInv
<1>6. ASSUME NEW m \in MicTaps, HandlerBegin(m) PROVE DoneInv'
  <2>1. pc'[Caller] = pc[Caller] /\ frame'[Caller] = frame[Caller] /\ tap' = tap
    BY <1>1, <1>6, SMT DEF HandlerBegin, shared, Goto, TypeOK
  <2> QED BY <2>1, DoneSame
<1>7. ASSUME NEW th \in Threads \ {Caller}, Step(th) PROVE DoneInv'
  <2>1. Moves(th)
    BY <1>7, StepUp
  <2>2. \A t \in Taps : tap'[t].life = tap[t].life
    BY <1>7, OnlyCallerMakes, LifeStep
  <2> QED BY <1>1, <1>7, <2>1, <2>2, DoneSame DEF Moves
<1>8. ASSUME Step(Caller) PROVE DoneInv'
  <2>1. CASE CreateStep(Caller)
    BY <2>1, DoneCreate
  <2>2. CASE DestroyStep(Caller)
    BY <2>2, DoneDestroy
  <2>3. CASE Return(Caller)
    <3>1. frame'[Caller] = NoFrame /\ pc'[Caller] = "ready"
      BY <1>1, <2>3, WentTo DEF Return, TypeOK
    <3> QED BY <3>1, SMT DEF DoneInv, NoFrame, Frame
  <2>4. CASE (SysStep(Caller) \/ MicStep(Caller) \/ Start(Caller) \/ Stop(Caller) \/ RequestPermission(Caller))
             /\ ~Return(Caller)
    <3>1. frame[Caller].op \notin {"create", "none"} /\ (frame[Caller].op = "destroy" => pc'[Caller] # "return")
      BY <2>4, DoneInMiddle, SMT DEF DoneInv
    <3>2. frame'[Caller].op = frame[Caller].op
      BY <1>1, <1>8, <2>4, StepUp
    <3> QED BY <3>1, <3>2, SMT DEF DoneInv
  <2> QED BY <1>8, <2>1, <2>2, <2>3, <2>4 DEF Step
<1> QED BY <1>2, <1>3, <1>4, <1>5, <1>6, <1>7, <1>8 DEF Next

SoundsWanted == \A t \in Sounding : Live(t) /\ (t \in want \/ CallerAsks(t))

LEMMA AllWanted == CalmInv => SoundsWanted
BY SoundingWanted DEF SoundsWanted

\* Whatever else a step does, the taps that sound after it exist and are wanted.
LEMMA StepSounds ==
  ASSUME CalmInv', want' = want, \A t \in Taps : tap'[t].life = tap[t].life,
         frame'[Caller].op = frame[Caller].op, Self(Caller)' = Self(Caller)
  PROVE  Promise!Sound
<1>1. Sounding' \subseteq Taps
  BY DEF Sounding
<1>2. ASSUME NEW t \in Sounding'
      PROVE  tap[t].life = "live" /\ (t \in want \/ CallerAsks(t))
  <2>1. SoundsWanted'
    BY AllWanted, PTL
  <2>2. Live(t)' /\ (t \in want' \/ CallerAsks(t)')
    BY <1>2, <2>1 DEF SoundsWanted
  <2> QED BY <1>1, <2>2, SMT DEF Live, CallerAsks
<1>3. \A t \in Sounding' : [o \in Taps |-> tap[o].life][t] = "live" /\ Promise!Wanted(t)
  BY <1>1, <1>2, SMT DEF CallerAsks, Promise!Wanted
<1>4. [t \in Taps |-> tap'[t].life] = [t \in Taps |-> tap[t].life]
  OBVIOUS
<1> QED BY <1>1, <1>3, <1>4, Zenon DEF Promise!Sound

\* A call of the library is a call of the promise.
LEMMA CallBegins ==
  ASSUME CalmInv, NEW fun, NEW t, <<fun, t>> \in Calls, Call(fun, t)
  PROVE  Promise!CNext
<1>1. /\ fun \in Functions /\ t \in Taps \cup {None} /\ None \notin Taps
      /\ TypeOK /\ Caller \in Threads /\ ThreadFits(Caller)
  BY AudioTapAssumption, SMT DEF CalmInv, ATInv, CallShape, Threads
<1>2. frame[Caller] = NoFrame
  BY <1>1, SMT DEF Call, ThreadFits, Fits, OpFits
<1>3. <<frame[Caller].op, Self(Caller)>> = Promise!NoCall
  BY <1>2, SMT DEF Self, NoFrame, Frame, Promise!NoCall
<1>4. frame'[Caller] = Frame(fun, t, IF t \in SysTaps THEN t ELSE None)
  BY <1>1 DEF Call, TypeOK
<1>5. <<frame'[Caller].op, Self(Caller)'>> = <<fun, t>>
  BY <1>4, SMT DEF Self, Frame
<1>6. tap' = tap /\ procs' = procs
  BY DEF Call, shared, hal
<1>7. Sounding' = Sounding
  BY <1>6 DEF Sounding
<1>8. want' = IF fun \in {"stop", "destroy"} THEN want \ {t} ELSE want
  BY DEF Call
<1>9. IF fun = "permission" THEN t = None
      ELSE t \in Taps /\ tap[t].life = (IF fun = "create" THEN "none" ELSE "live")
  BY DEF Call
<1>10. (CASE fun = "permission" -> t = None
          [] fun = "create" -> t \in Taps /\ [o \in Taps |-> tap[o].life][t] = "none"
          [] fun \in {"start", "stop", "destroy"} -> t \in Taps /\ [o \in Taps |-> tap[o].life][t] = "live")
  <2>1. CASE fun = "permission"
    BY <1>9, <2>1, SMT
  <2>2. CASE fun = "create"
    BY <1>9, <2>2, SMT
  <2>3. CASE fun \in {"start", "stop", "destroy"}
    <3>1. fun # "permission" /\ fun # "create"
      BY <2>3, SMT
    <3>2. t \in Taps /\ tap[t].life = "live"
      BY <1>9, <3>1
    <3>3. [o \in Taps |-> tap[o].life][t] = "live"
      BY <3>2
    <3> QED BY <2>3, <3>1, <3>2, <3>3, Zenon
  <2> QED BY <1>1, <2>1, <2>2, <2>3 DEF Functions
<1>11. Promise!Begin(fun, t)
  BY <1>3, <1>5, <1>6, <1>7, <1>8, <1>10, Zenon DEF Promise!Begin
<1> QED BY <1>1, <1>11, Zenon DEF Promise!CNext, Promise!Functions, Functions

\* The end of a creation.
LEMMA MakesTap ==
  ASSUME CalmInv, CreateAlloc(Caller) \/ CreateMic(Caller),
         ~(\A t \in Taps : tap'[t].life = tap[t].life)
  PROVE  Promise!CNext
<1>1. /\ Caller \in Threads /\ TypeOK
      /\ pc[Caller] \in {"c_alloc", "c_device"}
  BY SMT DEF CalmInv, ATInv, Threads, CreateAlloc, CreateMic
<1>2. /\ frame[Caller].op = "create" /\ Self(Caller) \in Taps
      /\ tap[Self(Caller)].life = "none"
  BY <1>1, LifeWork, SMT DEF ThreadLife
<1>3. PICK t \in Taps : t = Self(Caller)
  BY <1>2
<1>4. /\ frame' = frame /\ procs' = procs /\ want' = want
      /\ \/ tap' = [tap EXCEPT ![t].life = "live"]
         \/ tap' = [tap EXCEPT ![t].life = "live", ![t].dev = default_dev]
  BY <1>3, Zenon DEF CreateAlloc, CreateMic, hal
<1>5. tap'[t].life = "live" /\ \A o \in Taps \ {t} : tap'[o] = tap[o]
  BY <1>1, <1>4, LifeUpdated, CreatedUpdated
<1>6. [o \in Taps |-> tap'[o].life] = [[o \in Taps |-> tap[o].life] EXCEPT ![t] = "live"]
  BY <1>5
<1>7. Sounding' = Sounding /\ Self(Caller)' = Self(Caller)
  BY <1>4 DEF Sounding, Self
<1>8. [o \in Taps |-> tap[o].life][t] = "none"
  BY <1>2, <1>3
<1>9. Promise!Create(t)
  BY <1>2, <1>3, <1>4, <1>6, <1>7, <1>8, Zenon DEF Promise!Create
<1> QED BY <1>9, Zenon DEF Promise!CNext

\* The end of a destruction.
LEMMA FreesTap ==
  ASSUME CalmInv, Free(Caller)
  PROVE  Promise!CNext
<1>1. /\ Caller \in Threads /\ TypeOK /\ pc[Caller] = "d_free"
  BY SMT DEF CalmInv, ATInv, Threads, Free
<1>2. /\ frame[Caller].op = "destroy" /\ Self(Caller) \in Taps
      /\ tap[Self(Caller)].life = "live"
  BY <1>1, LifeWork, SMT DEF ThreadLife, Live
<1>3. PICK t \in Taps : t = Self(Caller)
  BY <1>2
<1>4. frame' = frame /\ procs' = procs /\ want' = want /\ tap' = [tap EXCEPT ![t].life = "freed"]
  BY <1>3, Zenon DEF Free, hal
<1>5. tap'[t].life = "freed" /\ \A o \in Taps \ {t} : tap'[o] = tap[o]
  BY <1>1, <1>4, LifeUpdated
<1>6. [o \in Taps |-> tap'[o].life] = [[o \in Taps |-> tap[o].life] EXCEPT ![t] = "freed"]
  BY <1>5
<1>7. Sounding' = Sounding /\ Self(Caller)' = Self(Caller)
  BY <1>4 DEF Sounding, Self
<1>8. [o \in Taps |-> tap[o].life][t] = "live"
  BY <1>2, <1>3
<1>9. t \notin Sounding
  <2>1. Off(t)
    BY <1>1, <1>3, FreedRests
  <2> QED BY <2>1, SoundingOn DEF On, Off
<1>10. Promise!Free(t)
  BY <1>2, <1>3, <1>4, <1>6, <1>7, <1>8, <1>9, Zenon DEF Promise!Free
<1> QED BY <1>10, Zenon DEF Promise!CNext

\* A call returns with what it has come to.
LEMMA CallEnds ==
  ASSUME CalmInv, DoneInv, Return(Caller)
  PROVE  Promise!CNext
<1>1. /\ Caller \in Threads /\ TypeOK /\ pc[Caller] = "return" /\ None \notin Taps
      /\ frame[Caller].op \in Functions \cup {"none", "handler"} /\ frame[Caller].ok \in BOOLEAN
      /\ Self(Caller) \in Taps \cup {None}
  BY FrameTyped, AudioTapAssumption, SMT DEF CalmInv, ATInv, Threads, Return, Self
<1> DEFINE fun == frame[Caller].op
           t == Self(Caller)
           ok == frame[Caller].ok
<1>2. frame'[Caller] = NoFrame /\ tap' = tap /\ procs' = procs
      /\ want' = IF fun = "start" /\ ok THEN want \cup {t} ELSE want
  BY <1>1 DEF Return, TypeOK, shared, hal
<1>3. <<frame'[Caller].op, Self(Caller)'>> = Promise!NoCall
  BY <1>2, SMT DEF Self, NoFrame, Frame, Promise!NoCall
<1>4. Sounding' = Sounding
  BY <1>2 DEF Sounding
<1>5. fun \in {"create", "start", "stop", "destroy"} => t \in Taps
  BY <1>1, SMT DEF CalmInv, CallShape, ThreadFits, Fits, TapFits, Self
<1>6. fun = "create" => (ok <=> [o \in Taps |-> tap[o].life][t] = "live")
  BY <1>1, <1>5, SMT DEF DoneInv, Live
<1>7. fun = "destroy" => [o \in Taps |-> tap[o].life][t] = "freed"
  BY <1>1, <1>5, SMT DEF DoneInv
<1>8. fun \in {"stop", "destroy"} \/ (fun = "start" /\ ~ok) => t \notin Sounding
  <2> SUFFICES ASSUME fun \in {"stop", "destroy"} \/ (fun = "start" /\ ~ok), t \in Sounding PROVE FALSE
    OBVIOUS
  <2>1. t \in Taps /\ On(t)
    BY SoundingOn
  <2>2. ~Up(t)
    BY <1>1, <2>1 DEF CalmInv, Wishes, ResultInv
  <2>3. pc[Caller] \notin LockedLabels
    BY <1>1, SMT DEF LockedLabels, Serialized
  <2> QED BY <2>1, <2>2, <2>3, OnUp
<1>9. fun \in Functions /\ fun # "none"
  BY <1>1, SMT DEF DoneInv, CalmInv, CallShape, ThreadFits
<1>10. Promise!End(fun, t, ok)
  BY <1>2, <1>3, <1>4, <1>6, <1>7, <1>8, <1>9, Zenon DEF Promise!End
<1> QED BY <1>1, <1>9, <1>10, Zenon DEF Promise!CNext, Promise!Functions, Functions

LEMMA InitPromise == Init => Promise!CInit
<1> SUFFICES ASSUME Init PROVE Promise!CInit
  OBVIOUS
<1>1. [t \in Taps |-> tap[t].life] = [t \in Taps |-> "none"]
  BY DEF Init
<1>2. Sounding = {}
  BY ProcFacts DEF Sounding, Init
<1>3. frame[Caller] = NoFrame
  BY DEF Init, Threads
<1>4. <<frame[Caller].op, Self(Caller)>> = Promise!NoCall
  BY <1>3, SMT DEF Self, NoFrame, Frame, Promise!NoCall
<1> QED BY <1>1, <1>2, <1>4 DEF Init, Promise!CInit

LEMMA InitDone == Init => DoneInv
<1> SUFFICES ASSUME Init PROVE DoneInv
  OBVIOUS
<1>1. frame[Caller] = NoFrame /\ pc[Caller] = "ready"
  BY DEF Init, Threads
<1> QED BY <1>1, SMT DEF DoneInv, NoFrame, Frame

\* A step of a thread is a step of the promise.
LEMMA ThreadKeepsPromise ==
  ASSUME Calm, CalmInv, CalmInv', DoneInv, NEW th \in Threads, Step(th)
  PROVE  Promise!CNext
<1>1. Caller \in Threads /\ Registry'
  BY DEF Threads, CalmInv
<1>2. CASE th = Caller /\ Return(th)
  BY <1>2, CallEnds
<1>3. CASE Free(th)
  BY <1>3, OnlyCallerMakes, FreesTap
<1>4. CASE (CreateAlloc(th) \/ CreateMic(th)) /\ ~(\A t \in Taps : tap'[t].life = tap[t].life)
  BY <1>4, OnlyCallerMakes, MakesTap
<1>5. CASE (\A t \in Taps : tap'[t].life = tap[t].life) /\ ~(th = Caller /\ Return(th))
  <2>1. frame'[Caller].op = frame[Caller].op /\ Self(Caller)' = Self(Caller)
    <3>1. CASE th = Caller
      BY <1>1, <1>5, <3>1, StepUp
    <3>2. CASE th # Caller
      <4>1. Moves(th)
        BY <1>1, StepUp
      <4> QED BY <1>1, <3>2, <4>1 DEF Moves, Self
    <3> QED BY <3>1, <3>2
  <2>2. want' = want
    <3>1. CASE Return(th)
      <4>1. th \in MicTaps /\ pc[th] # "ready"
        BY <1>5, <3>1, SMT DEF Threads, Return
      <4>2. frame[th].op = "handler"
        BY <4>1 DEF CalmInv, CallShape, ThreadFits
      <4> QED BY <3>1, <4>2, SMT DEF Return
    <3>2. CASE ~Return(th)
      BY <3>2, Zenon DEF Step, CreateStep, DestroyStep, SysStep, MicStep, CreateTap, CreateAggregate, CreateAlloc,
         CreateMic, Listen, Destroy, DestroyAggregate, DestroyTap, Unlisten, Free, SysCreateProc, SysDeviceStart,
         SysSetRunning, SysSetActive, SysDeviceStop, SysDestroyProc, SysClearRunning, SysClearActive, Lock, Unlock,
         HandlerDevice, HandlerSwitch, MicDeviceStop, MicDestroyProc, MicCreateProc, MicPermission, MicFindSys,
         MicPauseSys, MicDeviceStart, MicResult, Start, Stop, RequestPermission, Jump
    <3> QED BY <3>1, <3>2
  <2> QED BY <1>5, <2>1, <2>2, StepSounds, Zenon DEF Promise!CNext
<1> QED BY <1>2, <1>3, <1>4, <1>5, LifeStep

\* A step of the library is a step of the promise, or changes nothing it tells.
LEMMA NextKeepsPromise ==
  ASSUME Calm, CalmInv, CalmInv', DoneInv, [Next]_vars
  PROVE  [Promise!CNext]_(Promise!cvars)
<1>1. /\ TypeOK /\ Caller \in Threads /\ Caller \notin MicTaps /\ MicTaps \subseteq Threads
  BY AudioTapAssumption DEF CalmInv, ATInv, Threads, Taps
<1>2. CASE UNCHANGED vars
  <2>1. tap' = tap /\ procs' = procs /\ frame' = frame /\ want' = want
    BY <1>2 DEF vars, shared, hal
  <2>2. Sounding' = Sounding /\ Self(Caller)' = Self(Caller)
    BY <2>1 DEF Sounding, Self
  <2> QED BY <2>1, <2>2, Zenon DEF Promise!cvars
<1>3. ASSUME NEW c \in Calls, Call(c[1], c[2]) PROVE Promise!CNext
  <2>1. <<c[1], c[2]>> \in Calls
    BY AudioTapAssumption, SMT
  <2> QED BY <1>3, <2>1, CallBegins
<1>4. ASSUME NEW dev, DeviceChange(dev) PROVE Promise!CNext
  <2>1. tap' = tap /\ frame' = frame /\ want' = want
    BY <1>4 DEF DeviceChange, shared
  <2> QED BY <2>1, StepSounds DEF Self, Promise!CNext
<1>5. ASSUME NEW answer, UserAnswers(answer) PROVE Promise!CNext
  <2>1. tap' = tap /\ frame' = frame /\ want' = want
    BY <1>5 DEF UserAnswers, shared
  <2> QED BY <2>1, StepSounds DEF Self, Promise!CNext
<1>6. ASSUME NEW m \in MicTaps, HandlerBegin(m) PROVE Promise!CNext
  <2>1. tap' = tap /\ frame'[Caller] = frame[Caller] /\ want' = want
    BY <1>1, <1>6 DEF HandlerBegin, shared, TypeOK
  <2> QED BY <2>1, StepSounds DEF Self, Promise!CNext
<1>7. ASSUME NEW th \in Threads, Step(th) PROVE Promise!CNext
  BY <1>7, ThreadKeepsPromise
<1> QED BY <1>2, <1>3, <1>4, <1>5, <1>6, <1>7, Zenon DEF Next

\* The library, when calls and device changes do not race, keeps the promise of
\* module Capture for any number of taps, devices, changes and failures.
THEOREM CapturePromised == Calm => (Spec => ImplementsCapture)
<1> SUFFICES ASSUME Calm PROVE Spec => ImplementsCapture
  OBVIOUS
<1> DEFINE PInv == CalmInv /\ DoneInv
<1>1. Init => PInv
  BY InitCalm, InitDone
<1>2. PInv /\ [Next]_vars => PInv'
  <2>1. CalmInv /\ [Next]_vars => CalmInv'
    BY NextCalm
  <2>2. CalmInv /\ CalmInv' /\ DoneInv /\ [Next]_vars => DoneInv'
    BY NextDone DEF CalmInv
  <2> QED BY <2>1, <2>2
<1>3. PInv /\ PInv' /\ [Next]_vars => [Promise!CNext]_(Promise!cvars)
  BY NextKeepsPromise
<1> QED BY <1>1, <1>2, <1>3, InitPromise, PTL DEF Spec, ImplementsCapture, Promise!CSpec
=============================================================================
