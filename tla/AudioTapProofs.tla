--------------------------- MODULE AudioTapProofs ---------------------------
(***************************************************************************)
(* For any number of taps, devices, failures and changes, and however      *)
(* calls and changes overlap: the types of the state, and the serialization*)
(* of a microphone tap's Core Audio work by its mutex.                     *)
(***************************************************************************)
EXTENDS AudioTap, TLAPS

\* The labels of code that works on a microphone tap.
MicLabels == Serialized \cup {"lock", "c_device", "c_listen"}

\* A call that names a tap was made with one, and code for microphone taps
\* works on a microphone tap.
CallInv ==
  \A th \in Threads :
    /\ frame[th].op = "start" => Self(th) \in Taps
    /\ pc[th] \in {"start", "stop", "destroy"} => Self(th) \in Taps
    /\ pc[th] \in MicLabels => Self(th) \in MicTaps

\* A thread between `lock' and `unlock' holds its tap's mutex.
LockInv ==
  \A th \in Threads : \A m \in MicTaps :
    Self(th) = m /\ pc[th] \in LockedLabels => lock[m] = th

ATInv == TypeOK /\ CallInv /\ LockInv

-----------------------------------------------------------------------------
(* A thread that moves on inside its call.                                 *)

\* Every thread stays in the call it is in.
SameCalls == \A th \in Threads : Self(th)' = Self(th) /\ frame'[th].op = frame[th].op

\* The label suits what thread th is doing.
Suits(th, label) ==
  /\ label \in Labels \ {"start", "destroy"}
  /\ label = "stop" => Self(th) \in Taps
  /\ label \in MicLabels => Self(th) \in MicTaps
  /\ label \in LockedLabels /\ Self(th) \in MicTaps => pc[th] \in LockedLabels

LEMMA MoveKeeps ==
  ASSUME ATInv, NEW th \in Threads, NEW label, Goto(th, label), Suits(th, label),
         SameCalls, lock' = lock
  PROVE  pc' \in [Threads -> Labels] /\ CallInv' /\ LockInv'
BY SMT DEF Goto, Suits, SameCalls, ATInv, TypeOK, CallInv, LockInv, Self, MicLabels,
           LockedLabels, Serialized

LEMMA SameFrames == ASSUME UNCHANGED frame PROVE SameCalls
BY SMT DEF SameCalls, Self

LEMMA JumpKeeps ==
  ASSUME ATInv, NEW th \in Threads, NEW from, NEW label, Jump(th, from, label), Suits(th, label)
  PROVE  ATInv'
<1>1. Goto(th, label) /\ UNCHANGED <<shared, hal, frame, want, bounds>>
  BY Zenon DEF Jump
<1>2. pc' \in [Threads -> Labels] /\ CallInv' /\ LockInv'
  BY <1>1, MoveKeeps, SameFrames, SMT DEF shared
<1> QED BY <1>1, <1>2, SMT DEF ATInv, TypeOK, shared, hal, env, bounds

-----------------------------------------------------------------------------
(* What the updates of the tables return.                                  *)

LEMMA LifeTyped ==
  ASSUME NEW f \in [Taps -> TapRecord], NEW t, NEW v \in {"none", "live", "freed"}
  PROVE  [f EXCEPT ![t].life = v] \in [Taps -> TapRecord]
<1>1. \A r \in TapRecord : [r EXCEPT !.life = v] \in TapRecord
  BY SMT DEF TapRecord
<1> QED BY <1>1, Zenon

LEMMA RunningTyped ==
  ASSUME NEW f \in [Taps -> TapRecord], NEW t, NEW v \in BOOLEAN
  PROVE  [f EXCEPT ![t].running = v] \in [Taps -> TapRecord]
<1>1. \A r \in TapRecord : [r EXCEPT !.running = v] \in TapRecord
  BY SMT DEF TapRecord
<1> QED BY <1>1, Zenon

LEMMA IoTyped ==
  ASSUME NEW f \in [Taps -> TapRecord], NEW t, NEW v \in IoProcs \cup {None}
  PROVE  [f EXCEPT ![t].io = v] \in [Taps -> TapRecord]
<1>1. \A r \in TapRecord : [r EXCEPT !.io = v] \in TapRecord
  BY SMT DEF TapRecord
<1> QED BY <1>1, Zenon

LEMMA DevTyped ==
  ASSUME NEW f \in [Taps -> TapRecord], NEW t, NEW v \in Devices \cup {None}
  PROVE  [f EXCEPT ![t].dev = v] \in [Taps -> TapRecord]
<1>1. \A r \in TapRecord : [r EXCEPT !.dev = v] \in TapRecord
  BY SMT DEF TapRecord
<1> QED BY <1>1, Zenon

LEMMA OnTyped ==
  ASSUME TypeOK, NEW p, NEW b \in BOOLEAN
  PROVE  [procs EXCEPT ![p].on = b] \in [IoProcs -> ProcRecord]
<1>1. \A r \in ProcRecord : [r EXCEPT !.on = b] \in ProcRecord
  BY SMT DEF ProcRecord
<1> QED BY <1>1, Zenon DEF TypeOK

LEMMA ProcsTyped ==
  ASSUME TypeOK, NEW p
  PROVE  {Started(p), Stopped(p), Unregistered(p)} \subseteq [IoProcs -> ProcRecord]
<1>1. Started(p) \in [IoProcs -> ProcRecord] /\ Stopped(p) \in [IoProcs -> ProcRecord]
  BY OnTyped, Zenon DEF TypeOK, Started, Stopped
<1>2. NoProc \in ProcRecord
  BY SMT DEF NoProc, ProcRecord
<1>3. Unregistered(p) \in [IoProcs -> ProcRecord]
  BY <1>2, Zenon DEF TypeOK, Unregistered
<1> QED BY <1>1, <1>3, Zenon

LEMMA RegisterTyped ==
  ASSUME TypeOK, NEW t \in Taps \cup {None}, NEW dev \in Devices \cup SysTaps \cup {None},
         Register(t, dev)
  PROVE  tap' \in [Taps -> TapRecord] /\ procs' \in [IoProcs -> ProcRecord]
<1>1. PICK id \in IoProcs :
        /\ procs' = [procs EXCEPT ![id] = [dev |-> dev, tap |-> t, on |-> FALSE]]
        /\ tap' = [tap EXCEPT ![t].io = id]
  BY Zenon DEF Register
<1>2. tap' \in [Taps -> TapRecord]
  BY <1>1, IoTyped, Zenon DEF TypeOK
<1>3. [dev |-> dev, tap |-> t, on |-> FALSE] \in ProcRecord
  BY SMT DEF ProcRecord
<1>4. procs' \in [IoProcs -> ProcRecord]
  BY <1>1, <1>3, Zenon DEF TypeOK
<1> QED BY <1>2, <1>4

LEMMA FailedTyped ==
  ASSUME TypeOK, NEW th \in Threads, Failed(th)
  PROVE  frame' \in [Threads -> FrameRecord] /\ SameCalls
<1>1. \A r \in FrameRecord, b \in BOOLEAN :
        /\ [r EXCEPT !.ok = b] \in FrameRecord
        /\ [r EXCEPT !.ok = b].tap = r.tap /\ [r EXCEPT !.ok = b].op = r.op
  BY SMT DEF FrameRecord
<1>2. frame' \in [Threads -> FrameRecord]
  BY <1>1, Zenon DEF TypeOK, Failed
<1>3. \A other \in Threads : frame'[other].tap = frame[other].tap /\ frame'[other].op = frame[other].op
  BY <1>1, Zenon DEF TypeOK, Failed
<1> QED BY <1>2, <1>3, SMT DEF SameCalls, Self

LEMMA SysFailedTyped ==
  ASSUME TypeOK, NEW th \in Threads, SysFailed(th)
  PROVE  frame' \in [Threads -> FrameRecord] /\ SameCalls
BY FailedTyped, SameFrames, Zenon DEF SysFailed, TypeOK

LEMMA HandlerFrame ==
  ASSUME NEW r \in FrameRecord, NEW d \in Devices \cup {None}, NEW b \in BOOLEAN
  PROVE  /\ [r EXCEPT !.dev = d, !.was = b] \in FrameRecord
         /\ [r EXCEPT !.dev = d, !.was = b].tap = r.tap
         /\ [r EXCEPT !.dev = d, !.was = b].op = r.op
<1>1. [r EXCEPT !.dev = d] \in FrameRecord
  BY SMT DEF FrameRecord
<1>2. \A q \in FrameRecord : [q EXCEPT !.was = b] \in FrameRecord
  BY SMT DEF FrameRecord
<1>3. [r EXCEPT !.dev = d, !.was = b] = [[r EXCEPT !.dev = d] EXCEPT !.was = b]
  OBVIOUS
<1>4. [r EXCEPT !.dev = d, !.was = b] \in FrameRecord
  BY <1>1, <1>2, <1>3, Zenon
<1>5. [r EXCEPT !.dev = d, !.was = b].tap = r.tap /\ [r EXCEPT !.dev = d, !.was = b].op = r.op
  BY SMT DEF FrameRecord
<1> QED BY <1>4, <1>5

-----------------------------------------------------------------------------
(* The steps of a call.                                                    *)

LEMMA StartKeeps ==
  ASSUME ATInv, NEW th \in Threads, Start(th)
  PROVE  ATInv'
<1>1. PICK from, label : Jump(th, from, label) /\ Suits(th, label)
  BY AudioTapAssumption, SMT DEF Start, Taps, ATInv, CallInv, TypeOK, Jump, Suits, Labels, MicLabels, LockedLabels, Serialized
<1> QED BY <1>1, JumpKeeps

LEMMA StopKeeps ==
  ASSUME ATInv, NEW th \in Threads, Stop(th)
  PROVE  ATInv'
<1>1. PICK from, label : Jump(th, from, label) /\ Suits(th, label)
  BY AudioTapAssumption, SMT DEF Stop, AfterStop, DestroyBegin, Taps, ATInv, CallInv, TypeOK, Jump, Suits, Labels, MicLabels, LockedLabels, Serialized
<1> QED BY <1>1, JumpKeeps

LEMMA DestroyKeeps ==
  ASSUME ATInv, NEW th \in Threads, Destroy(th)
  PROVE  ATInv'
<1>1. PICK from, label : Jump(th, from, label) /\ Suits(th, label)
  BY AudioTapAssumption, SMT DEF Destroy, DestroyBegin, Taps, ATInv, CallInv, TypeOK, Jump, Suits, Labels, MicLabels, LockedLabels, Serialized
<1> QED BY <1>1, JumpKeeps

LEMMA RequestPermissionKeeps ==
  ASSUME ATInv, NEW th \in Threads, RequestPermission(th)
  PROVE  ATInv'
<1>1. PICK from, label : Jump(th, from, label) /\ Suits(th, label)
  BY AudioTapAssumption, SMT DEF RequestPermission, ATInv, CallInv, TypeOK, Jump, Suits, Labels, MicLabels, LockedLabels, Serialized
<1> QED BY <1>1, JumpKeeps

LEMMA MicPauseSysKeeps ==
  ASSUME ATInv, NEW th \in Threads, MicPauseSys(th)
  PROVE  ATInv'
<1>1. PICK from, label : Jump(th, from, label) /\ Suits(th, label)
  BY AudioTapAssumption, SMT DEF MicPauseSys, ATInv, CallInv, TypeOK, Jump, Suits, Labels, MicLabels, LockedLabels, Serialized
<1> QED BY <1>1, JumpKeeps

LEMMA CreateTapKeeps ==
  ASSUME ATInv, NEW th \in Threads, CreateTap(th)
  PROVE  ATInv'
<1>1. frame' \in [Threads -> FrameRecord] /\ SameCalls
  BY FailedTyped, SameFrames, Zenon DEF CreateTap, ATInv, TypeOK
<1>2. objects' \in [SysTaps -> SUBSET {"tap", "aggregate"}]
  BY SMT DEF CreateTap, ATInv, TypeOK
<1>3. UNCHANGED <<tap, active, lock, procs, listening, pending, default_dev, permission, want, changes>> /\ faults' \in Nat
  BY SMT DEF CreateTap, NoFault, Fault, ATInv, TypeOK, shared, env, hal, bounds
<1>4. PICK label : Goto(th, label) /\ Suits(th, label)
  BY AudioTapAssumption, SMT DEF CreateTap, ATInv, CallInv, TypeOK, Taps, Suits, Labels, MicLabels, LockedLabels, Serialized
<1>5. pc' \in [Threads -> Labels] /\ CallInv' /\ LockInv'
  BY <1>1, <1>3, <1>4, MoveKeeps, Zenon
<1> QED BY <1>1, <1>2, <1>3, <1>5, SMT DEF ATInv, TypeOK

LEMMA CreateAggregateKeeps ==
  ASSUME ATInv, NEW th \in Threads, CreateAggregate(th)
  PROVE  ATInv'
<1>1. frame' \in [Threads -> FrameRecord] /\ SameCalls
  BY FailedTyped, SameFrames, Zenon DEF CreateAggregate, ATInv, TypeOK
<1>2. objects' \in [SysTaps -> SUBSET {"tap", "aggregate"}]
  BY SMT DEF CreateAggregate, ATInv, TypeOK
<1>3. UNCHANGED <<tap, active, lock, procs, listening, pending, default_dev, permission, want, changes>> /\ faults' \in Nat
  BY SMT DEF CreateAggregate, NoFault, Fault, ATInv, TypeOK, shared, env, hal, bounds
<1>4. PICK label : Goto(th, label) /\ Suits(th, label)
  BY AudioTapAssumption, SMT DEF CreateAggregate, ATInv, CallInv, TypeOK, Taps, Suits, Labels, MicLabels, LockedLabels, Serialized
<1>5. pc' \in [Threads -> Labels] /\ CallInv' /\ LockInv'
  BY <1>1, <1>3, <1>4, MoveKeeps, Zenon
<1> QED BY <1>1, <1>2, <1>3, <1>5, SMT DEF ATInv, TypeOK

LEMMA CreateAllocKeeps ==
  ASSUME ATInv, NEW th \in Threads, CreateAlloc(th)
  PROVE  ATInv'
<1>1. tap' \in [Taps -> TapRecord]
  <2>1. CASE UNCHANGED tap
    BY <2>1, SMT DEF ATInv, TypeOK
  <2>2. CASE tap' = [tap EXCEPT ![Self(th)].life = "live"]
    BY <2>2, LifeTyped, Zenon DEF ATInv, TypeOK
  <2> QED BY <2>1, <2>2, Zenon DEF CreateAlloc
<1>2. frame' \in [Threads -> FrameRecord] /\ SameCalls
  BY FailedTyped, SameFrames, Zenon DEF CreateAlloc, ATInv, TypeOK
<1>3. UNCHANGED <<active, lock, procs, objects, listening, pending, default_dev, permission, want, changes>> /\ faults' \in Nat
  BY SMT DEF CreateAlloc, NoFault, Fault, ATInv, TypeOK, shared, env, hal, bounds
<1>4. PICK label : Goto(th, label) /\ Suits(th, label)
  BY AudioTapAssumption, SMT DEF CreateAlloc, ATInv, CallInv, TypeOK, Taps, Suits, Labels, MicLabels, LockedLabels, Serialized
<1>5. pc' \in [Threads -> Labels] /\ CallInv' /\ LockInv'
  BY <1>2, <1>3, <1>4, MoveKeeps, Zenon
<1> QED BY <1>1, <1>2, <1>3, <1>5, SMT DEF ATInv, TypeOK

LEMMA CreateMicKeeps ==
  ASSUME ATInv, NEW th \in Threads, CreateMic(th)
  PROVE  ATInv'
<1>1. tap' \in [Taps -> TapRecord]
  <2>1. CASE UNCHANGED tap
    BY <2>1, SMT DEF ATInv, TypeOK
  <2>2. CASE tap' = [tap EXCEPT ![Self(th)].life = "live", ![Self(th)].dev = default_dev]
    BY <2>2, LifeTyped, DevTyped, Zenon DEF ATInv, TypeOK
  <2> QED BY <2>1, <2>2, Zenon DEF CreateMic
<1>2. frame' \in [Threads -> FrameRecord] /\ SameCalls
  BY FailedTyped, SameFrames, Zenon DEF CreateMic, ATInv, TypeOK
<1>3. UNCHANGED <<active, lock, procs, objects, listening, pending, default_dev, permission, want, changes>> /\ faults' \in Nat
  BY SMT DEF CreateMic, NoFault, Fault, ATInv, TypeOK, shared, env, hal, bounds
<1>4. PICK label : Goto(th, label) /\ Suits(th, label)
  BY AudioTapAssumption, SMT DEF CreateMic, ATInv, CallInv, TypeOK, Taps, Suits, Labels, MicLabels, LockedLabels, Serialized
<1>5. pc' \in [Threads -> Labels] /\ CallInv' /\ LockInv'
  BY <1>2, <1>3, <1>4, MoveKeeps, Zenon
<1> QED BY <1>1, <1>2, <1>3, <1>5, SMT DEF ATInv, TypeOK

LEMMA ListenKeeps ==
  ASSUME ATInv, NEW th \in Threads, Listen(th)
  PROVE  ATInv'
<1>1. UNCHANGED frame /\ SameCalls
  BY SameFrames, SMT DEF Listen
<1>2. listening' \subseteq MicTaps
  BY SMT DEF Listen, ATInv, TypeOK, CallInv, MicLabels
<1>3. UNCHANGED <<tap, active, lock, procs, objects, pending, default_dev, permission, want, changes>> /\ faults' \in Nat
  BY SMT DEF Listen, NoFault, Fault, ATInv, TypeOK, shared, env, hal, bounds
<1>4. PICK label : Goto(th, label) /\ Suits(th, label)
  BY AudioTapAssumption, SMT DEF Listen, ATInv, CallInv, TypeOK, Taps, Suits, Labels, MicLabels, LockedLabels, Serialized
<1>5. pc' \in [Threads -> Labels] /\ CallInv' /\ LockInv'
  BY <1>1, <1>3, <1>4, MoveKeeps, Zenon
<1> QED BY <1>1, <1>2, <1>3, <1>5, SMT DEF ATInv, TypeOK

LEMMA DestroyAggregateKeeps ==
  ASSUME ATInv, NEW th \in Threads, DestroyAggregate(th)
  PROVE  ATInv'
<1>1. UNCHANGED frame /\ SameCalls
  BY SameFrames, SMT DEF DestroyAggregate
<1>2. objects' \in [SysTaps -> SUBSET {"tap", "aggregate"}]
  <2>1. objects' = [objects EXCEPT ![Self(th)] = @ \ {"aggregate"}]
    BY Zenon DEF DestroyAggregate
  <2> QED BY <2>1, Zenon DEF ATInv, TypeOK
<1>3. UNCHANGED <<tap, active, lock, procs, listening, pending, default_dev, permission, want, faults, changes>>
  BY SMT DEF DestroyAggregate, NoFault, Fault, ATInv, TypeOK, shared, env, hal, bounds
<1>4. PICK label : Goto(th, label) /\ Suits(th, label)
  BY AudioTapAssumption, SMT DEF DestroyAggregate, ATInv, CallInv, TypeOK, Taps, Suits, Labels, MicLabels, LockedLabels, Serialized
<1>5. pc' \in [Threads -> Labels] /\ CallInv' /\ LockInv'
  BY <1>1, <1>3, <1>4, MoveKeeps, Zenon
<1> QED BY <1>1, <1>2, <1>3, <1>5, SMT DEF ATInv, TypeOK

LEMMA DestroyTapKeeps ==
  ASSUME ATInv, NEW th \in Threads, DestroyTap(th)
  PROVE  ATInv'
<1>1. UNCHANGED frame /\ SameCalls
  BY SameFrames, SMT DEF DestroyTap
<1>2. objects' \in [SysTaps -> SUBSET {"tap", "aggregate"}]
  <2>1. objects' = [objects EXCEPT ![Self(th)] = @ \ {"tap"}]
    BY Zenon DEF DestroyTap
  <2> QED BY <2>1, Zenon DEF ATInv, TypeOK
<1>3. UNCHANGED <<tap, active, lock, procs, listening, pending, default_dev, permission, want, faults, changes>>
  BY SMT DEF DestroyTap, NoFault, Fault, ATInv, TypeOK, shared, env, hal, bounds
<1>4. PICK label : Goto(th, label) /\ Suits(th, label)
  BY AudioTapAssumption, SMT DEF DestroyTap, ATInv, CallInv, TypeOK, Taps, Suits, Labels, MicLabels, LockedLabels, Serialized
<1>5. pc' \in [Threads -> Labels] /\ CallInv' /\ LockInv'
  BY <1>1, <1>3, <1>4, MoveKeeps, Zenon
<1> QED BY <1>1, <1>2, <1>3, <1>5, SMT DEF ATInv, TypeOK

LEMMA UnlistenKeeps ==
  ASSUME ATInv, NEW th \in Threads, Unlisten(th)
  PROVE  ATInv'
<1>1. UNCHANGED frame /\ SameCalls
  BY SameFrames, SMT DEF Unlisten
<1>2. listening' \subseteq MicTaps
  BY Zenon DEF Unlisten, ATInv, TypeOK
<1>3. UNCHANGED <<tap, active, lock, procs, objects, pending, default_dev, permission, want, faults, changes>>
  BY SMT DEF Unlisten, NoFault, Fault, ATInv, TypeOK, shared, env, hal, bounds
<1>4. PICK label : Goto(th, label) /\ Suits(th, label)
  BY AudioTapAssumption, SMT DEF Unlisten, ATInv, CallInv, TypeOK, Taps, Suits, Labels, MicLabels, LockedLabels, Serialized
<1>5. pc' \in [Threads -> Labels] /\ CallInv' /\ LockInv'
  BY <1>1, <1>3, <1>4, MoveKeeps, Zenon
<1> QED BY <1>1, <1>2, <1>3, <1>5, SMT DEF ATInv, TypeOK

LEMMA FreeKeeps ==
  ASSUME ATInv, NEW th \in Threads, Free(th)
  PROVE  ATInv'
<1>1. tap' \in [Taps -> TapRecord]
  BY LifeTyped, Zenon DEF Free, ATInv, TypeOK
<1>2. UNCHANGED frame /\ SameCalls
  BY SameFrames, SMT DEF Free
<1>3. UNCHANGED <<active, lock, procs, objects, listening, pending, default_dev, permission, want, faults, changes>>
  BY SMT DEF Free, NoFault, Fault, ATInv, TypeOK, shared, env, hal, bounds
<1>4. PICK label : Goto(th, label) /\ Suits(th, label)
  BY AudioTapAssumption, SMT DEF Free, ATInv, CallInv, TypeOK, Taps, Suits, Labels, MicLabels, LockedLabels, Serialized
<1>5. pc' \in [Threads -> Labels] /\ CallInv' /\ LockInv'
  BY <1>2, <1>3, <1>4, MoveKeeps, Zenon
<1> QED BY <1>1, <1>2, <1>3, <1>5, SMT DEF ATInv, TypeOK

LEMMA SysCreateProcKeeps ==
  ASSUME ATInv, NEW th \in Threads, SysCreateProc(th)
  PROVE  ATInv'
<1>1. Sys(th) \in Taps \cup {None} /\ Sys(th) \in Devices \cup SysTaps \cup {None}
  BY SMT DEF SysCreateProc, ATInv, TypeOK, Sys, FrameRecord, Taps
<1>2. tap' \in [Taps -> TapRecord] /\ procs' \in [IoProcs -> ProcRecord]
  BY <1>1, RegisterTyped, Zenon DEF SysCreateProc, ATInv, TypeOK
<1>3. frame' \in [Threads -> FrameRecord] /\ SameCalls
  BY SysFailedTyped, SameFrames, Zenon DEF SysCreateProc, ATInv, TypeOK
<1>4. UNCHANGED <<active, lock, objects, listening, pending, default_dev, permission, want, changes>> /\ faults' \in Nat
  BY SMT DEF SysCreateProc, NoFault, Fault, ATInv, TypeOK, shared, env, hal, bounds
<1>5. PICK label : Goto(th, label) /\ Suits(th, label)
  BY AudioTapAssumption, SMT DEF SysCreateProc, AfterSysStart, ATInv, CallInv, TypeOK, Taps, Suits, Labels, MicLabels, LockedLabels, Serialized
<1>6. pc' \in [Threads -> Labels] /\ CallInv' /\ LockInv'
  BY <1>3, <1>4, <1>5, MoveKeeps, Zenon
<1> QED BY <1>1, <1>2, <1>3, <1>4, <1>6, SMT DEF ATInv, TypeOK

LEMMA SysDeviceStartKeeps ==
  ASSUME ATInv, NEW th \in Threads, SysDeviceStart(th)
  PROVE  ATInv'
<1>1. tap' \in [Taps -> TapRecord]
  <2>1. CASE UNCHANGED tap
    BY <2>1, SMT DEF ATInv, TypeOK
  <2>2. CASE tap' = [tap EXCEPT ![Sys(th)].io = None]
    BY <2>2, IoTyped, Zenon DEF ATInv, TypeOK
  <2> QED BY <2>1, <2>2, Zenon DEF SysDeviceStart
<1>2. procs' \in [IoProcs -> ProcRecord]
  <2>1. \E p : procs' \in {procs, Started(p), Unregistered(p)}
    BY Zenon DEF SysDeviceStart
  <2> QED BY <2>1, ProcsTyped, Zenon DEF ATInv, TypeOK
<1>3. frame' \in [Threads -> FrameRecord] /\ SameCalls
  BY SysFailedTyped, SameFrames, Zenon DEF SysDeviceStart, ATInv, TypeOK
<1>4. UNCHANGED <<active, lock, objects, listening, pending, default_dev, permission, want, changes>> /\ faults' \in Nat
  BY SMT DEF SysDeviceStart, NoFault, Fault, ATInv, TypeOK, shared, env, hal, bounds
<1>5. PICK label : Goto(th, label) /\ Suits(th, label)
  BY AudioTapAssumption, SMT DEF SysDeviceStart, AfterSysStart, ATInv, CallInv, TypeOK, Taps, Suits, Labels, MicLabels, LockedLabels, Serialized
<1>6. pc' \in [Threads -> Labels] /\ CallInv' /\ LockInv'
  BY <1>3, <1>4, <1>5, MoveKeeps, Zenon
<1> QED BY <1>1, <1>2, <1>3, <1>4, <1>6, SMT DEF ATInv, TypeOK

LEMMA SysSetRunningKeeps ==
  ASSUME ATInv, NEW th \in Threads, SysSetRunning(th)
  PROVE  ATInv'
<1>1. tap' \in [Taps -> TapRecord]
  BY RunningTyped, Zenon DEF SysSetRunning, ATInv, TypeOK
<1>2. UNCHANGED frame /\ SameCalls
  BY SameFrames, SMT DEF SysSetRunning
<1>3. UNCHANGED <<active, lock, objects, listening, pending, default_dev, permission, procs, want, faults, changes>>
  BY SMT DEF SysSetRunning, NoFault, Fault, ATInv, TypeOK, shared, env, hal, bounds
<1>4. PICK label : Goto(th, label) /\ Suits(th, label)
  BY AudioTapAssumption, SMT DEF SysSetRunning, ATInv, CallInv, TypeOK, Taps, Suits, Labels, MicLabels, LockedLabels, Serialized
<1>5. pc' \in [Threads -> Labels] /\ CallInv' /\ LockInv'
  BY <1>2, <1>3, <1>4, MoveKeeps, Zenon
<1> QED BY <1>1, <1>2, <1>3, <1>5, SMT DEF ATInv, TypeOK

LEMMA SysSetActiveKeeps ==
  ASSUME ATInv, NEW th \in Threads, SysSetActive(th)
  PROVE  ATInv'
<1>1. UNCHANGED frame /\ SameCalls
  BY SameFrames, SMT DEF SysSetActive
<1>2. active' \in SysTaps \cup {None}
  BY SMT DEF SysSetActive, ATInv, TypeOK, Sys, FrameRecord
<1>3. UNCHANGED <<tap, lock, procs, objects, listening, pending, default_dev, permission, want, faults, changes>>
  BY SMT DEF SysSetActive, NoFault, Fault, ATInv, TypeOK, shared, env, hal, bounds
<1>4. PICK label : Goto(th, label) /\ Suits(th, label)
  BY AudioTapAssumption, SMT DEF SysSetActive, AfterSysStart, ATInv, CallInv, TypeOK, Taps, Suits, Labels, MicLabels, LockedLabels, Serialized
<1>5. pc' \in [Threads -> Labels] /\ CallInv' /\ LockInv'
  BY <1>1, <1>3, <1>4, MoveKeeps, Zenon
<1> QED BY <1>1, <1>2, <1>3, <1>5, SMT DEF ATInv, TypeOK

LEMMA SysDeviceStopKeeps ==
  ASSUME ATInv, NEW th \in Threads, SysDeviceStop(th)
  PROVE  ATInv'
<1>1. procs' \in [IoProcs -> ProcRecord]
  BY ProcsTyped, Zenon DEF SysDeviceStop, ATInv, TypeOK
<1>2. UNCHANGED frame /\ SameCalls
  BY SameFrames, SMT DEF SysDeviceStop
<1>3. UNCHANGED <<active, lock, objects, listening, pending, default_dev, permission, tap, want, faults, changes>>
  BY SMT DEF SysDeviceStop, NoFault, Fault, ATInv, TypeOK, shared, env, hal, bounds
<1>4. PICK label : Goto(th, label) /\ Suits(th, label)
  BY AudioTapAssumption, SMT DEF SysDeviceStop, ATInv, CallInv, TypeOK, Taps, Suits, Labels, MicLabels, LockedLabels, Serialized
<1>5. pc' \in [Threads -> Labels] /\ CallInv' /\ LockInv'
  BY <1>2, <1>3, <1>4, MoveKeeps, Zenon
<1> QED BY <1>1, <1>2, <1>3, <1>5, SMT DEF ATInv, TypeOK

LEMMA SysDestroyProcKeeps ==
  ASSUME ATInv, NEW th \in Threads, SysDestroyProc(th)
  PROVE  ATInv'
<1>1. tap' \in [Taps -> TapRecord]
  BY IoTyped, Zenon DEF SysDestroyProc, ATInv, TypeOK
<1>2. procs' \in [IoProcs -> ProcRecord]
  BY ProcsTyped, Zenon DEF SysDestroyProc, ATInv, TypeOK
<1>3. UNCHANGED frame /\ SameCalls
  BY SameFrames, SMT DEF SysDestroyProc
<1>4. UNCHANGED <<active, lock, objects, listening, pending, default_dev, permission, want, faults, changes>>
  BY SMT DEF SysDestroyProc, NoFault, Fault, ATInv, TypeOK, shared, env, hal, bounds
<1>5. PICK label : Goto(th, label) /\ Suits(th, label)
  BY AudioTapAssumption, SMT DEF SysDestroyProc, ATInv, CallInv, TypeOK, Taps, Suits, Labels, MicLabels, LockedLabels, Serialized
<1>6. pc' \in [Threads -> Labels] /\ CallInv' /\ LockInv'
  BY <1>3, <1>4, <1>5, MoveKeeps, Zenon
<1> QED BY <1>1, <1>2, <1>3, <1>4, <1>6, SMT DEF ATInv, TypeOK

LEMMA SysClearRunningKeeps ==
  ASSUME ATInv, NEW th \in Threads, SysClearRunning(th)
  PROVE  ATInv'
<1>1. tap' \in [Taps -> TapRecord]
  BY RunningTyped, Zenon DEF SysClearRunning, ATInv, TypeOK
<1>2. UNCHANGED frame /\ SameCalls
  BY SameFrames, SMT DEF SysClearRunning
<1>3. UNCHANGED <<active, lock, objects, listening, pending, default_dev, permission, procs, want, faults, changes>>
  BY SMT DEF SysClearRunning, NoFault, Fault, ATInv, TypeOK, shared, env, hal, bounds
<1>4. PICK label : Goto(th, label) /\ Suits(th, label)
  BY AudioTapAssumption, SMT DEF SysClearRunning, ATInv, CallInv, TypeOK, Taps, Suits, Labels, MicLabels, LockedLabels, Serialized
<1>5. pc' \in [Threads -> Labels] /\ CallInv' /\ LockInv'
  BY <1>2, <1>3, <1>4, MoveKeeps, Zenon
<1> QED BY <1>1, <1>2, <1>3, <1>5, SMT DEF ATInv, TypeOK

LEMMA SysClearActiveKeeps ==
  ASSUME ATInv, NEW th \in Threads, SysClearActive(th)
  PROVE  ATInv'
<1>1. UNCHANGED frame /\ SameCalls
  BY SameFrames, SMT DEF SysClearActive
<1>2. active' \in SysTaps \cup {None}
  BY SMT DEF SysClearActive, ATInv, TypeOK
<1>3. UNCHANGED <<tap, lock, procs, objects, listening, pending, default_dev, permission, want, faults, changes>>
  BY SMT DEF SysClearActive, NoFault, Fault, ATInv, TypeOK, shared, env, hal, bounds
<1>4. PICK label : Goto(th, label) /\ Suits(th, label)
  BY AudioTapAssumption, SMT DEF SysClearActive, AfterSysStop, AfterStop, DestroyBegin, ATInv, CallInv, TypeOK, Taps, Suits, Labels, MicLabels, LockedLabels, Serialized
<1>5. pc' \in [Threads -> Labels] /\ CallInv' /\ LockInv'
  BY <1>1, <1>3, <1>4, MoveKeeps, Zenon
<1> QED BY <1>1, <1>2, <1>3, <1>5, SMT DEF ATInv, TypeOK

LEMMA HandlerDeviceKeeps ==
  ASSUME ATInv, NEW th \in Threads, HandlerDevice(th)
  PROVE  ATInv'
<1>1. frame' \in [Threads -> FrameRecord] /\ SameCalls
  <2>1. CASE UNCHANGED frame
    BY <2>1, SameFrames, SMT DEF ATInv, TypeOK
  <2>2. CASE frame' = [frame EXCEPT ![th].dev = default_dev, ![th].was = tap[Self(th)].running]
    <3>1. tap[Self(th)].running \in BOOLEAN
      BY SMT DEF HandlerDevice, ATInv, TypeOK, TapRecord, CallInv, MicLabels, Serialized, Taps
    <3>2. default_dev \in Devices \cup {None}
      BY Zenon DEF ATInv, TypeOK
    <3>3. frame[th] \in FrameRecord
      BY Zenon DEF ATInv, TypeOK
    <3> DEFINE q == [frame[th] EXCEPT !.dev = default_dev, !.was = tap[Self(th)].running]
    <3>4. q \in FrameRecord /\ q.tap = frame[th].tap /\ q.op = frame[th].op
      BY <3>1, <3>2, <3>3, HandlerFrame, Zenon
    <3>5. frame' = [frame EXCEPT ![th] = q]
      BY <2>2
    <3> HIDE DEF q
    <3>6. frame' \in [Threads -> FrameRecord]
      BY <3>4, <3>5, Zenon DEF ATInv, TypeOK
    <3>7. SameCalls
      BY <3>4, <3>5, SMT DEF ATInv, TypeOK, SameCalls, Self
    <3> QED BY <3>6, <3>7
  <2> QED BY <2>1, <2>2, Zenon DEF HandlerDevice
<1>2. UNCHANGED <<tap, active, lock, procs, objects, listening, pending, default_dev, permission, want, changes>> /\ faults' \in Nat
  BY SMT DEF HandlerDevice, NoFault, Fault, ATInv, TypeOK, shared, env, hal, bounds
<1>3. PICK label : Goto(th, label) /\ Suits(th, label)
  BY AudioTapAssumption, SMT DEF HandlerDevice, ATInv, CallInv, TypeOK, Taps, Suits, Labels, MicLabels, LockedLabels, Serialized
<1>4. pc' \in [Threads -> Labels] /\ CallInv' /\ LockInv'
  BY <1>1, <1>2, <1>3, MoveKeeps, Zenon
<1> QED BY <1>1, <1>2, <1>4, SMT DEF ATInv, TypeOK

LEMMA HandlerSwitchKeeps ==
  ASSUME ATInv, NEW th \in Threads, HandlerSwitch(th)
  PROVE  ATInv'
<1>1. tap' \in [Taps -> TapRecord]
  <2>1. frame[th].dev \in Devices \cup {None}
    BY SMT DEF ATInv, TypeOK, FrameRecord
  <2> QED BY <2>1, DevTyped, Zenon DEF HandlerSwitch, ATInv, TypeOK
<1>2. UNCHANGED frame /\ SameCalls
  BY SameFrames, SMT DEF HandlerSwitch
<1>3. UNCHANGED <<active, lock, procs, objects, listening, pending, default_dev, permission, want, faults, changes>>
  BY SMT DEF HandlerSwitch, NoFault, Fault, ATInv, TypeOK, shared, env, hal, bounds
<1>4. PICK label : Goto(th, label) /\ Suits(th, label)
  BY AudioTapAssumption, SMT DEF HandlerSwitch, ATInv, CallInv, TypeOK, Taps, Suits, Labels, MicLabels, LockedLabels, Serialized
<1>5. pc' \in [Threads -> Labels] /\ CallInv' /\ LockInv'
  BY <1>2, <1>3, <1>4, MoveKeeps, Zenon
<1> QED BY <1>1, <1>2, <1>3, <1>5, SMT DEF ATInv, TypeOK

LEMMA MicDeviceStopKeeps ==
  ASSUME ATInv, NEW th \in Threads, MicDeviceStop(th)
  PROVE  ATInv'
<1>1. procs' \in [IoProcs -> ProcRecord]
  BY ProcsTyped, Zenon DEF MicDeviceStop, ATInv, TypeOK
<1>2. UNCHANGED frame /\ SameCalls
  BY SameFrames, SMT DEF MicDeviceStop
<1>3. UNCHANGED <<active, lock, objects, listening, pending, default_dev, permission, tap, want, faults, changes>>
  BY SMT DEF MicDeviceStop, NoFault, Fault, ATInv, TypeOK, shared, env, hal, bounds
<1>4. PICK label : Goto(th, label) /\ Suits(th, label)
  BY AudioTapAssumption, SMT DEF MicDeviceStop, ATInv, CallInv, TypeOK, Taps, Suits, Labels, MicLabels, LockedLabels, Serialized
<1>5. pc' \in [Threads -> Labels] /\ CallInv' /\ LockInv'
  BY <1>2, <1>3, <1>4, MoveKeeps, Zenon
<1> QED BY <1>1, <1>2, <1>3, <1>5, SMT DEF ATInv, TypeOK

LEMMA MicDestroyProcKeeps ==
  ASSUME ATInv, NEW th \in Threads, MicDestroyProc(th)
  PROVE  ATInv'
<1>1. tap' \in [Taps -> TapRecord]
  BY IoTyped, RunningTyped, Zenon DEF MicDestroyProc, ATInv, TypeOK
<1>2. procs' \in [IoProcs -> ProcRecord]
  BY ProcsTyped, Zenon DEF MicDestroyProc, ATInv, TypeOK
<1>3. UNCHANGED frame /\ SameCalls
  BY SameFrames, SMT DEF MicDestroyProc
<1>4. UNCHANGED <<active, lock, objects, listening, pending, default_dev, permission, want, faults, changes>>
  BY SMT DEF MicDestroyProc, NoFault, Fault, ATInv, TypeOK, shared, env, hal, bounds
<1>5. PICK label : Goto(th, label) /\ Suits(th, label)
  BY AudioTapAssumption, SMT DEF MicDestroyProc, AfterMicStop, ATInv, CallInv, TypeOK, Taps, Suits, Labels, MicLabels, LockedLabels, Serialized
<1>6. pc' \in [Threads -> Labels] /\ CallInv' /\ LockInv'
  BY <1>3, <1>4, <1>5, MoveKeeps, Zenon
<1> QED BY <1>1, <1>2, <1>3, <1>4, <1>6, SMT DEF ATInv, TypeOK

LEMMA MicCreateProcKeeps ==
  ASSUME ATInv, NEW th \in Threads, MicCreateProc(th)
  PROVE  ATInv'
<1>1. Self(th) \in Taps \cup {None} /\ tap[Self(th)].dev \in Devices \cup SysTaps \cup {None}
  BY SMT DEF MicCreateProc, ATInv, TypeOK, TapRecord, CallInv, MicLabels, Serialized, Taps
<1>2. tap' \in [Taps -> TapRecord] /\ procs' \in [IoProcs -> ProcRecord]
  BY <1>1, RegisterTyped, Zenon DEF MicCreateProc, ATInv, TypeOK
<1>3. frame' \in [Threads -> FrameRecord] /\ SameCalls
  BY FailedTyped, SameFrames, Zenon DEF MicCreateProc, ATInv, TypeOK
<1>4. UNCHANGED <<active, lock, objects, listening, pending, default_dev, permission, want, changes>> /\ faults' \in Nat
  BY SMT DEF MicCreateProc, NoFault, Fault, ATInv, TypeOK, shared, env, hal, bounds
<1>5. PICK label : Goto(th, label) /\ Suits(th, label)
  BY AudioTapAssumption, SMT DEF MicCreateProc, ATInv, CallInv, TypeOK, Taps, Suits, Labels, MicLabels, LockedLabels, Serialized
<1>6. pc' \in [Threads -> Labels] /\ CallInv' /\ LockInv'
  BY <1>3, <1>4, <1>5, MoveKeeps, Zenon
<1> QED BY <1>1, <1>2, <1>3, <1>4, <1>6, SMT DEF ATInv, TypeOK

LEMMA MicPermissionKeeps ==
  ASSUME ATInv, NEW th \in Threads, MicPermission(th)
  PROVE  ATInv'
<1>1. tap' \in [Taps -> TapRecord]
  <2>1. CASE UNCHANGED tap
    BY <2>1, SMT DEF ATInv, TypeOK
  <2>2. CASE tap' = [tap EXCEPT ![Self(th)].io = None]
    BY <2>2, IoTyped, Zenon DEF ATInv, TypeOK
  <2> QED BY <2>1, <2>2, Zenon DEF MicPermission
<1>2. procs' \in [IoProcs -> ProcRecord]
  <2>1. \E p : procs' \in {procs, Started(p), Unregistered(p)}
    BY Zenon DEF MicPermission
  <2> QED BY <2>1, ProcsTyped, Zenon DEF ATInv, TypeOK
<1>3. frame' \in [Threads -> FrameRecord] /\ SameCalls
  BY FailedTyped, SameFrames, Zenon DEF MicPermission, ATInv, TypeOK
<1>4. UNCHANGED <<active, lock, objects, listening, pending, default_dev, permission, want, faults, changes>>
  BY SMT DEF MicPermission, NoFault, Fault, ATInv, TypeOK, shared, env, hal, bounds
<1>5. PICK label : Goto(th, label) /\ Suits(th, label)
  BY AudioTapAssumption, SMT DEF MicPermission, ATInv, CallInv, TypeOK, Taps, Suits, Labels, MicLabels, LockedLabels, Serialized
<1>6. pc' \in [Threads -> Labels] /\ CallInv' /\ LockInv'
  BY <1>3, <1>4, <1>5, MoveKeeps, Zenon
<1> QED BY <1>1, <1>2, <1>3, <1>4, <1>6, SMT DEF ATInv, TypeOK

LEMMA MicFindSysKeeps ==
  ASSUME ATInv, NEW th \in Threads, MicFindSys(th)
  PROVE  ATInv'
<1>1. frame' \in [Threads -> FrameRecord] /\ SameCalls
  <2>1. \A r \in FrameRecord :
          /\ [r EXCEPT !.sys = active] \in FrameRecord
          /\ [r EXCEPT !.sys = active].tap = r.tap /\ [r EXCEPT !.sys = active].op = r.op
    BY SMT DEF FrameRecord, ATInv, TypeOK
  <2> QED BY <2>1, Zenon DEF MicFindSys, ATInv, TypeOK, SameCalls, Self
<1>2. UNCHANGED <<tap, active, lock, procs, objects, listening, pending, default_dev, permission, want, faults, changes>>
  BY SMT DEF MicFindSys, NoFault, Fault, ATInv, TypeOK, shared, env, hal, bounds
<1>3. PICK label : Goto(th, label) /\ Suits(th, label)
  BY AudioTapAssumption, SMT DEF MicFindSys, ATInv, CallInv, TypeOK, Taps, Suits, Labels, MicLabels, LockedLabels, Serialized
<1>4. pc' \in [Threads -> Labels] /\ CallInv' /\ LockInv'
  BY <1>1, <1>2, <1>3, MoveKeeps, Zenon
<1> QED BY <1>1, <1>2, <1>4, SMT DEF ATInv, TypeOK

LEMMA MicDeviceStartKeeps ==
  ASSUME ATInv, NEW th \in Threads, MicDeviceStart(th)
  PROVE  ATInv'
<1>1. procs' \in [IoProcs -> ProcRecord]
  BY ProcsTyped, Zenon DEF MicDeviceStart, ATInv, TypeOK
<1>2. frame' \in [Threads -> FrameRecord] /\ SameCalls
  BY FailedTyped, SameFrames, Zenon DEF MicDeviceStart, ATInv, TypeOK
<1>3. UNCHANGED <<active, lock, objects, listening, pending, default_dev, permission, tap, want, changes>> /\ faults' \in Nat
  BY SMT DEF MicDeviceStart, NoFault, Fault, ATInv, TypeOK, shared, env, hal, bounds
<1>4. PICK label : Goto(th, label) /\ Suits(th, label)
  BY AudioTapAssumption, SMT DEF MicDeviceStart, ATInv, CallInv, TypeOK, Taps, Suits, Labels, MicLabels, LockedLabels, Serialized
<1>5. pc' \in [Threads -> Labels] /\ CallInv' /\ LockInv'
  BY <1>2, <1>3, <1>4, MoveKeeps, Zenon
<1> QED BY <1>1, <1>2, <1>3, <1>5, SMT DEF ATInv, TypeOK

LEMMA MicResultKeeps ==
  ASSUME ATInv, NEW th \in Threads, MicResult(th)
  PROVE  ATInv'
<1>1. tap' \in [Taps -> TapRecord]
  <2>1. CASE UNCHANGED tap
    BY <2>1, SMT DEF ATInv, TypeOK
  <2>2. CASE tap' = [tap EXCEPT ![Self(th)].running = TRUE]
    BY <2>2, RunningTyped, Zenon DEF ATInv, TypeOK
  <2>3. CASE tap' = [tap EXCEPT ![Self(th)].io = None]
    BY <2>3, IoTyped, Zenon DEF ATInv, TypeOK
  <2> QED BY <2>1, <2>2, <2>3, Zenon DEF MicResult
<1>2. procs' \in [IoProcs -> ProcRecord]
  BY ProcsTyped, Zenon DEF MicResult, ATInv, TypeOK
<1>3. UNCHANGED frame /\ SameCalls
  BY SameFrames, SMT DEF MicResult
<1>4. UNCHANGED <<active, lock, objects, listening, pending, default_dev, permission, want, faults, changes>>
  BY SMT DEF MicResult, NoFault, Fault, ATInv, TypeOK, shared, env, hal, bounds
<1>5. PICK label : Goto(th, label) /\ Suits(th, label)
  BY AudioTapAssumption, SMT DEF MicResult, ATInv, CallInv, TypeOK, Taps, Suits, Labels, MicLabels, LockedLabels, Serialized
<1>6. pc' \in [Threads -> Labels] /\ CallInv' /\ LockInv'
  BY <1>3, <1>4, <1>5, MoveKeeps, Zenon
<1> QED BY <1>1, <1>2, <1>3, <1>4, <1>6, SMT DEF ATInv, TypeOK

LEMMA LockKeeps ==
  ASSUME ATInv, NEW th \in Threads, Lock(th)
  PROVE  ATInv'
<1>1. UNCHANGED <<tap, active, procs, objects, env, frame, want, faults, changes>>
  BY SMT DEF Lock, hal, bounds
<1>2. lock[Self(th)] = None /\ lock' = [lock EXCEPT ![Self(th)] = th]
  BY Zenon DEF Lock
<1>3. PICK label \in {"m_create", "h_device", "m_halt"} : Goto(th, label)
  BY SMT DEF Lock
<1>4. Self(th) \in MicTaps
  BY SMT DEF Lock, ATInv, CallInv, MicLabels
<1>5. pc' \in [Threads -> Labels]
  BY <1>3, SMT DEF Goto, ATInv, TypeOK, Labels
<1>6. CallInv'
  BY <1>1, <1>3, <1>4, SMT DEF Goto, ATInv, TypeOK, CallInv, Self, MicLabels, Serialized
<1>7. lock' \in [MicTaps -> Threads \cup {None}]
  BY <1>2, Zenon DEF ATInv, TypeOK
<1>8. LockInv'
  <2>1. \A other \in Threads : Self(other) = Self(th) => pc[other] \notin LockedLabels
    BY <1>2, <1>4, AudioTapAssumption, SMT DEF ATInv, LockInv, Threads, Taps
  <2> QED BY <2>1, <1>1, <1>2, <1>3, <1>4, SMT DEF Goto, ATInv, TypeOK, LockInv, Self
<1> QED BY <1>1, <1>5, <1>6, <1>7, <1>8, SMT DEF ATInv, TypeOK, env

LEMMA UnlockKeeps ==
  ASSUME ATInv, NEW th \in Threads, Unlock(th)
  PROVE  ATInv'
<1>1. UNCHANGED <<tap, active, procs, objects, env, frame, want, faults, changes>>
  BY SMT DEF Unlock, hal, bounds
<1>2. lock' = [lock EXCEPT ![Self(th)] = None]
  BY Zenon DEF Unlock
<1>3. PICK label \in {"return", "d_aggregate", "d_unlisten"} : Goto(th, label)
  BY SMT DEF Unlock, AfterStop, DestroyBegin
<1>4. Self(th) \in MicTaps /\ lock[Self(th)] = th
  BY SMT DEF Unlock, ATInv, CallInv, LockInv, MicLabels, LockedLabels, Serialized
<1>5. pc' \in [Threads -> Labels]
  BY <1>3, SMT DEF Goto, ATInv, TypeOK, Labels
<1>6. CallInv'
  BY <1>1, <1>3, <1>4, SMT DEF Goto, ATInv, TypeOK, CallInv, Self, MicLabels, Serialized
<1>7. lock' \in [MicTaps -> Threads \cup {None}]
  BY <1>2, Zenon DEF ATInv, TypeOK
<1>8. LockInv'
  <2>1. \A other \in Threads \ {th} : Self(other) = Self(th) => pc[other] \notin LockedLabels
    BY <1>4, SMT DEF ATInv, LockInv
  <2> QED BY <2>1, <1>1, <1>2, <1>3, <1>4, SMT DEF Goto, ATInv, TypeOK, LockInv, Self,
                                                   LockedLabels, Serialized
<1> QED BY <1>1, <1>5, <1>6, <1>7, <1>8, SMT DEF ATInv, TypeOK, env

-----------------------------------------------------------------------------
(* A thread that enters or leaves a call, with a frame of its own.         *)

LEMMA EnterKeeps ==
  ASSUME ATInv, NEW th \in Threads, NEW label \in Labels, NEW f \in FrameRecord,
         Goto(th, label), frame' = [frame EXCEPT ![th] = f], lock' = lock,
         label \notin LockedLabels,
         f.op = "start" => f.tap \in Taps,
         label \in {"start", "stop", "destroy"} => f.tap \in Taps,
         label \in MicLabels => f.tap \in MicTaps
  PROVE  /\ pc' \in [Threads -> Labels] /\ frame' \in [Threads -> FrameRecord]
         /\ CallInv' /\ LockInv'
<1>1. pc' \in [Threads -> Labels] /\ frame' \in [Threads -> FrameRecord]
  BY Zenon DEF Goto, ATInv, TypeOK
<1>2. CallInv'
  BY SMT DEF Goto, ATInv, TypeOK, CallInv, Self
<1>3. LockInv'
  BY SMT DEF Goto, ATInv, TypeOK, LockInv, Self
<1> QED BY <1>1, <1>2, <1>3

LEMMA FreshFrame ==
  ASSUME NEW fun \in Functions \cup {"none", "handler"}, NEW t \in Taps \cup {None},
         NEW sys \in SysTaps \cup {None}
  PROVE  Frame(fun, t, sys) \in FrameRecord /\ Frame(fun, t, sys).op = fun /\ Frame(fun, t, sys).tap = t
BY SMT DEF Frame, FrameRecord

LEMMA CallKeeps ==
  ASSUME ATInv, NEW fun, NEW t, <<fun, t>> \in Calls, Call(fun, t)
  PROVE  ATInv'
<1> DEFINE sys == IF t \in SysTaps THEN t ELSE None
           f == Frame(fun, t, sys)
<1>1. fun \in Functions /\ t \in Taps \cup {None}
  BY AudioTapAssumption, SMT
<1>2. f \in FrameRecord /\ f.op = fun /\ f.tap = t
  <2>1. fun \in Functions \cup {"none", "handler"} /\ sys \in SysTaps \cup {None}
    BY <1>1, Zenon
  <2> QED BY <1>1, <2>1, FreshFrame, SMT
<1>3. UNCHANGED <<tap, active, lock, procs, objects, env, faults, changes>> /\ want' \subseteq Taps
  BY SMT DEF Call, shared, hal, bounds, ATInv, TypeOK
<1>4. Caller \in Threads /\ frame' = [frame EXCEPT ![Caller] = f]
  BY Zenon DEF Call, Threads
<1> HIDE DEF f
<1>5. fun # "permission" => t \in Taps
  BY SMT DEF Call
<1>6. PICK label \in {"c_tap", "c_device", "start", "stop", "destroy", "permission"} :
        Goto(Caller, label) /\ (label = "c_device" => t \notin SysTaps /\ fun = "create")
                            /\ (label = "permission" <=> fun = "permission")
  BY <1>1, SMT DEF Call, Functions
<1>7. label \in Labels /\ label \notin LockedLabels
      /\ (label \in {"start", "stop", "destroy"} => t \in Taps)
      /\ (label \in MicLabels => t \in MicTaps)
  BY <1>5, <1>6, SMT DEF Labels, LockedLabels, MicLabels, Serialized, Taps
<1>8. pc' \in [Threads -> Labels] /\ frame' \in [Threads -> FrameRecord] /\ CallInv' /\ LockInv'
  BY <1>2, <1>3, <1>4, <1>5, <1>6, <1>7, EnterKeeps
<1> QED BY <1>3, <1>8, SMT DEF ATInv, TypeOK, env

LEMMA HandlerBeginKeeps ==
  ASSUME ATInv, NEW m \in MicTaps, HandlerBegin(m)
  PROVE  ATInv'
<1> DEFINE f == Frame("handler", m, None)
<1>1. f \in FrameRecord /\ f.op = "handler" /\ f.tap = m
  <2>1. "handler" \in Functions \cup {"none", "handler"} /\ m \in Taps \cup {None}
    BY Zenon DEF Taps
  <2> QED BY <2>1, FreshFrame, SMT
<1>2. m \in Threads /\ frame' = [frame EXCEPT ![m] = f] /\ Goto(m, "lock")
  BY Zenon DEF HandlerBegin, Threads
<1> HIDE DEF f
<1>3. pc' \in [Threads -> Labels] /\ frame' \in [Threads -> FrameRecord] /\ CallInv' /\ LockInv'
  <2>1. lock' = lock
    BY SMT DEF HandlerBegin, shared
  <2>2. "lock" \in Labels /\ "lock" \notin LockedLabels
    BY SMT DEF Labels, LockedLabels, Serialized
  <2> QED BY <1>1, <1>2, <2>1, <2>2, EnterKeeps
<1>4. UNCHANGED <<tap, active, lock, procs, objects, listening, default_dev, permission, want, faults, changes>>
  BY SMT DEF HandlerBegin, shared, bounds
<1>5. pending' \in [MicTaps -> Nat]
  BY SMT DEF HandlerBegin, ATInv, TypeOK
<1> QED BY <1>3, <1>4, <1>5, SMT DEF ATInv, TypeOK

LEMMA ReturnKeeps ==
  ASSUME ATInv, NEW th \in Threads, Return(th)
  PROVE  ATInv'
<1>1. NoFrame \in FrameRecord /\ NoFrame.op = "none"
  BY SMT DEF NoFrame, Frame, FrameRecord
<1>2. frame' = [frame EXCEPT ![th] = NoFrame] /\ Goto(th, "ready")
  BY Zenon DEF Return
<1>3. pc' \in [Threads -> Labels] /\ frame' \in [Threads -> FrameRecord] /\ CallInv' /\ LockInv'
  <2>1. lock' = lock
    BY SMT DEF Return, shared
  <2>2. "ready" \in Labels /\ "ready" \notin LockedLabels /\ "ready" \notin MicLabels
    BY SMT DEF Labels, LockedLabels, MicLabels, Serialized
  <2> QED BY <1>1, <1>2, <2>1, <2>2, EnterKeeps
<1>4. UNCHANGED <<tap, active, lock, procs, objects, env, faults, changes>>
  BY SMT DEF Return, shared, hal, bounds
<1>5. want' \subseteq Taps
  BY SMT DEF Return, ATInv, TypeOK, CallInv
<1> QED BY <1>3, <1>4, <1>5, SMT DEF ATInv, TypeOK, env

-----------------------------------------------------------------------------
(* The environment.                                                        *)

LEMMA DeviceChangeKeeps ==
  ASSUME ATInv, NEW dev \in Devices \cup {None}, DeviceChange(dev)
  PROVE  ATInv'
<1>1. UNCHANGED <<shared, procs, objects, listening, permission, pc, frame, want, faults>>
  BY Zenon DEF DeviceChange
<1>2. default_dev' = dev /\ changes' \in Nat /\ pending' \in [MicTaps -> Nat]
  BY SMT DEF DeviceChange, ATInv, TypeOK
<1> QED BY <1>1, <1>2, SMT DEF ATInv, TypeOK, CallInv, LockInv, Self, shared

LEMMA UserAnswersKeeps ==
  ASSUME ATInv, NEW answer \in {"granted", "denied"}, UserAnswers(answer)
  PROVE  ATInv'
<1>1. UNCHANGED <<tap, active, lock, procs, objects, listening, pending, default_dev, frame, want, faults, changes>>
  BY SMT DEF UserAnswers, shared, bounds
<1>2. Caller \in Threads /\ Goto(Caller, "return") /\ permission' = answer
  BY Zenon DEF UserAnswers, Threads
<1>3. Suits(Caller, "return")
  BY SMT DEF Suits, Labels, MicLabels, LockedLabels, Serialized
<1>4. pc' \in [Threads -> Labels] /\ CallInv' /\ LockInv'
  BY <1>1, <1>2, <1>3, MoveKeeps, SameFrames
<1> QED BY <1>1, <1>2, <1>4, SMT DEF ATInv, TypeOK

-----------------------------------------------------------------------------
LEMMA InitATInv == Init => ATInv
<1> SUFFICES ASSUME Init PROVE ATInv
  OBVIOUS
<1>1. tap \in [Taps -> TapRecord]
  BY SMT DEF Init, TapRecord
<1>2. procs \in [IoProcs -> ProcRecord]
  BY SMT DEF Init, NoProc, ProcRecord
<1>3. frame \in [Threads -> FrameRecord] /\ \A th \in Threads : frame[th].op = "none"
  BY SMT DEF Init, NoFrame, Frame, FrameRecord
<1>4. lock \in [MicTaps -> Threads \cup {None}] /\ objects \in [SysTaps -> SUBSET {"tap", "aggregate"}]
  BY Zenon DEF Init
<1>5. pc \in [Threads -> Labels] /\ pending \in [MicTaps -> Nat]
  BY SMT DEF Init, Labels
<1>6. TypeOK
  <2>1. default_dev \in Devices \cup {None} /\ permission \in {"unknown", "granted", "denied"}
        /\ active \in SysTaps \cup {None} /\ listening \subseteq MicTaps /\ want \subseteq Taps
    BY Zenon DEF Init
  <2>2. faults \in Nat /\ changes \in Nat
    BY SMT DEF Init
  <2> QED BY <1>1, <1>2, <1>3, <1>4, <1>5, <2>1, <2>2, Zenon DEF TypeOK
<1>7. CallInv /\ LockInv
  BY <1>3, SMT DEF Init, CallInv, LockInv, MicLabels, LockedLabels, Serialized
<1> QED BY <1>6, <1>7 DEF ATInv

LEMMA NextATInv == ATInv /\ [Next]_vars => ATInv'
<1> SUFFICES ASSUME ATInv, [Next]_vars PROVE ATInv'
  OBVIOUS
<1>1. CASE \E c \in Calls : Call(c[1], c[2])
  <2>1. PICK c \in Calls : Call(c[1], c[2])
    BY <1>1
  <2>2. <<c[1], c[2]>> \in Calls
    BY AudioTapAssumption, SMT
  <2> QED BY <2>1, <2>2, CallKeeps
<1>2. CASE \E dev \in Devices \cup {None} : DeviceChange(dev)
  BY <1>2, DeviceChangeKeeps
<1>3. CASE \E answer \in {"granted", "denied"} : UserAnswers(answer)
  BY <1>3, UserAnswersKeeps
<1>4. CASE \E m \in MicTaps : HandlerBegin(m)
  BY <1>4, HandlerBeginKeeps
<1>5. CASE \E th \in Threads : Step(th)
  <2>1. PICK th \in Threads : Step(th)
    BY <1>5
  <2>2. CASE CreateStep(th)
    BY <2>2, CreateTapKeeps, CreateAggregateKeeps, CreateAllocKeeps, CreateMicKeeps, ListenKeeps
       DEF CreateStep
  <2>3. CASE DestroyStep(th)
    BY <2>3, DestroyKeeps, DestroyAggregateKeeps, DestroyTapKeeps, UnlistenKeeps, FreeKeeps
       DEF DestroyStep
  <2>4. CASE SysStep(th)
    BY <2>4, SysCreateProcKeeps, SysDeviceStartKeeps, SysSetRunningKeeps, SysSetActiveKeeps,
       SysDeviceStopKeeps, SysDestroyProcKeeps, SysClearRunningKeeps, SysClearActiveKeeps
       DEF SysStep
  <2>5. CASE MicStep(th)
    BY <2>5, LockKeeps, UnlockKeeps, HandlerDeviceKeeps, HandlerSwitchKeeps, MicDeviceStopKeeps,
       MicDestroyProcKeeps, MicCreateProcKeeps, MicPermissionKeeps, MicFindSysKeeps,
       MicPauseSysKeeps, MicDeviceStartKeeps, MicResultKeeps
       DEF MicStep
  <2> QED BY <2>1, <2>2, <2>3, <2>4, <2>5, StartKeeps, StopKeeps, RequestPermissionKeeps,
             ReturnKeeps DEF Step
<1>6. CASE UNCHANGED vars
  BY <1>6, SMT DEF ATInv, TypeOK, CallInv, LockInv, Self, vars, shared, hal, env, bounds
<1> QED BY <1>1, <1>2, <1>3, <1>4, <1>5, <1>6 DEF Next

\* Every variable keeps its type, whatever calls, changes and failures do.
THEOREM AudioTapTypes == Spec => []TypeOK
<1>1. ATInv => TypeOK
  BY DEF ATInv
<1> QED BY <1>1, InitATInv, NextATInv, PTL DEF Spec

\* The thread that starts, stops or restarts a microphone tap holds the tap's
\* mutex from audiotap_mic_start, audiotap_mic_stop or handle_device_change on,
\* also while it pauses and resumes the system tap, and is the only one
\* (audiotap_mic.c).
THEOREM MicIsSerialized == Spec => []MicSerialized
<1>1. ATInv => MicSerialized
  <2> SUFFICES ASSUME ATInv, NEW m \in MicTaps, NEW th \in Threads, InMic(th, m)
               PROVE  lock[m] = th /\ \A other \in Threads : InMic(other, m) => other = th
    BY DEF MicSerialized
  <2>1. \A holder \in Threads : InMic(holder, m) => lock[m] = holder
    BY Zenon DEF ATInv, LockInv, InMic
  <2> QED BY <2>1
<1> QED BY <1>1, InitATInv, NextATInv, PTL DEF Spec
=============================================================================
