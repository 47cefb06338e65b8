---------------------------- MODULE PyTapProofs ----------------------------
(***************************************************************************)
(* For any number of Python threads: if destroy() is called with no other  *)
(* thread in a method of the tap, no call works on a freed tap, and the    *)
(* audio thread always finds its trampoline until two start() overlap.     *)
(***************************************************************************)
EXTENDS PyTap, TLAPS

LEMMA InitIInv == Init => IInv
<1> SUFFICES ASSUME Init PROVE IInv
  OBVIOUS
<1>1. /\ ~made /\ ~held /\ ~running /\ ~orphan /\ ~audio
      /\ made \in BOOLEAN /\ held \in BOOLEAN /\ running \in BOOLEAN /\ orphan \in BOOLEAN
      /\ audio \in BOOLEAN /\ overlap \in BOOLEAN
  BY Zenon DEF Init
<1>2. \A t \in Threads : pc[t] = "out"
  BY Zenon DEF Init
<1>3. TypeOK
  BY <1>1, SMT DEF Init, TypeOK
<1>4. AloneInv /\ LifeInv /\ StartInv
  BY <1>1, <1>2, SMT DEF Init, AloneInv, LifeInv, StartInv, Destroying, Constructing, Starting, AllOut
<1> QED BY <1>3, <1>4 DEF IInv

\* The interpreter lock changes hands.
LEMMA LockKeeps ==
  ASSUME IInv, NEW t \in Threads \cup {Audio}, Acquire(t) \/ GiveWay(t)
  PROVE  IInv'
BY SMT DEF Acquire, GiveWay, object, cside, IInv, TypeOK, AloneInv, LifeInv, StartInv, Destroying, Constructing,
   Starting, AllOut

LEMMA ConstructKeeps ==
  ASSUME IInv, NEW t \in Threads, New(t) \/ CreateReturns(t) \/ Assign(t)
  PROVE  IInv'
<1>1. CASE New(t)
  BY <1>1, SMT DEF New, Goto, cside, IInv, TypeOK, AloneInv, LifeInv, StartInv, Destroying, Constructing, Starting, AllOut
<1>2. CASE CreateReturns(t)
  BY <1>2, SMT DEF CreateReturns, Goto, object, IInv, TypeOK, AloneInv, LifeInv, StartInv, Destroying,
     Constructing, Starting, AllOut
<1>3. CASE Assign(t)
  BY <1>3, SMT DEF Assign, Goto, cside, IInv, TypeOK, AloneInv, LifeInv, StartInv, Destroying, Constructing, Starting, AllOut
<1> QED BY <1>1, <1>2, <1>3

LEMMA CallKeeps ==
  ASSUME DestroyAlone, IInv, NEW t \in Threads, \E f \in Methods : Call(t, f)
  PROVE  IInv'
<1>1. PICK f \in Methods : Call(t, f)
  OBVIOUS
<1>2. /\ pc[t] = "out" /\ held /\ pc' = [pc EXCEPT ![t] = "check"] /\ op' = [op EXCEPT ![t] = f]
      /\ \A other \in Threads : pc[other] # "out" => f # "destroy" /\ op[other] # "destroy"
  BY <1>1, Zenon DEF Call, MayCall, Goto, AllOut
<1>3. UNCHANGED <<gil, made, held, handle, trampoline, ctap, running, orphan, audio, arg>>
  BY <1>1, Zenon DEF Call, object, cside
<1>4. /\ overlap' \in BOOLEAN /\ (~overlap' => ~overlap)
      /\ ~overlap' /\ f = "start" => \A other \in Threads : ~Starting(other)
  <2> DEFINE Overlaps == f = "start" /\ \E other \in Threads : Starting(other)
  <2>1. CASE Overlaps
    BY <1>1, <2>1, Zenon DEF Call
  <2>2. CASE ~Overlaps
    BY <1>1, <2>2, Zenon DEF Call, IInv, TypeOK
  <2> QED BY <2>1, <2>2
<1>5. TypeOK'
  BY <1>2, <1>3, <1>4, SMT DEF IInv, TypeOK, Methods
<1>6. AloneInv'
  BY <1>2, <1>3, SMT DEF IInv, TypeOK, Methods, AloneInv, LifeInv, Destroying, Constructing, AllOut
<1>7. LifeInv'
  BY <1>2, <1>3, SMT DEF IInv, TypeOK, Methods, AloneInv, LifeInv, Destroying, Constructing, AllOut
<1>8. StartInv'
  BY <1>2, <1>3, <1>4, SMT DEF IInv, TypeOK, Methods, StartInv, Starting
<1> QED BY <1>5, <1>6, <1>7, <1>8 DEF IInv

LEMMA ForgetKeeps == IInv /\ Forget => IInv'
<1> SUFFICES ASSUME IInv, Forget PROVE IInv'
  OBVIOUS
<1>1. ~held' /\ held /\ held' \in BOOLEAN
  BY Zenon DEF Forget
<1>2. UNCHANGED <<gil, made, handle, trampoline, ctap, running, orphan, audio, pc, op, arg, overlap>>
  BY Zenon DEF Forget, cside
<1> QED BY <1>1, <1>2, SMT DEF IInv, TypeOK, AloneInv, LifeInv, StartInv, Destroying, Constructing, Starting, AllOut

LEMMA CollectKeeps ==
  ASSUME IInv, NEW t \in Threads, Collect(t)
  PROVE  IInv'
<1>1. /\ made /\ ~held /\ AllOut /\ trampoline = "live"
      /\ pc' = [pc EXCEPT ![t] = "check"] /\ op' = [op EXCEPT ![t] = "del"]
  BY Zenon DEF Collect, Goto
<1>2. UNCHANGED <<gil, made, held, handle, trampoline, ctap, running, orphan, audio, arg, overlap>>
  BY Zenon DEF Collect, object, cside
<1> QED BY <1>1, <1>2, SMT DEF IInv, TypeOK, AloneInv, LifeInv, StartInv, Destroying, Constructing, Starting, AllOut

LEMMA MethodKeeps ==
  ASSUME IInv, NEW t \in Threads, Check(t) \/ Enter(t) \/ Back(t)
  PROVE  IInv'
<1>1. CASE Check(t)
  BY <1>1, SMT DEF Check, Leave, Goto, cside, IInv, TypeOK, AloneInv, LifeInv, StartInv, Destroying,
     Constructing, Starting, AllOut
<1>2. CASE Enter(t)
  BY <1>2, SMT DEF Enter, Goto, object, cside, IInv, TypeOK, AloneInv, LifeInv, StartInv, Destroying,
     Constructing, Starting, AllOut
<1>3. CASE Back(t)
  BY <1>3, SMT DEF Back, Leave, Goto, cside, IInv, TypeOK, AloneInv, LifeInv, StartInv, Destroying,
     Constructing, Starting, AllOut
<1> QED BY <1>1, <1>2, <1>3

LEMMA LibraryKeeps ==
  ASSUME IInv, NEW t \in Threads,
         StartLooks(t) \/ StartReturns(t) \/ RunningReturns(t) \/ StopReturns(t) \/ DestroyReturns(t)
  PROVE  IInv'
<1>1. CASE StartReturns(t)
  <2>1. /\ pc[t] = "register" /\ op[t] = "start" /\ pc' = [pc EXCEPT ![t] = "back"]
        /\ arg[t] = "set"
    BY <1>1, Zenon DEF StartReturns, Goto, IInv, LifeInv
  <2>2. UNCHANGED <<gil, made, held, handle, trampoline, ctap, audio, op, arg, overlap>>
    BY <1>1, Zenon DEF StartReturns, object
  <2>3. ~overlap => ~orphan /\ ~running
    BY <2>1, Zenon DEF IInv, StartInv, Starting
  <2>4. /\ running' \in BOOLEAN /\ orphan' \in BOOLEAN
        /\ (running \/ orphan => running' \/ orphan') /\ (~overlap => ~orphan')
    <3>1. running \in BOOLEAN /\ orphan \in BOOLEAN
      BY DEF IInv, TypeOK
    <3>2. CASE running' = TRUE /\ orphan' = (orphan \/ running)
      BY <2>3, <3>1, <3>2, Zenon
    <3>3. CASE UNCHANGED running /\ orphan' \in {orphan, orphan \/ running}
      BY <2>3, <3>1, <3>3, Zenon
    <3> QED BY <1>1, <3>2, <3>3, Zenon DEF StartReturns
  <2>5. TypeOK' /\ AloneInv' /\ LifeInv'
    BY <2>1, <2>2, <2>4, SMT DEF IInv, TypeOK, AloneInv, LifeInv, Destroying, Constructing, AllOut
  <2>6. StartInv'
    BY <2>1, <2>2, <2>4, SMT DEF IInv, TypeOK, StartInv, Starting
  <2> QED BY <2>5, <2>6 DEF IInv
<1>5. CASE StartLooks(t)
  <2>1. /\ pc[t] = "c" /\ op[t] = "start" /\ arg[t] = "set"
        /\ UNCHANGED <<gil, made, held, handle, trampoline, ctap, running, orphan, audio>>
        /\ UNCHANGED <<op, arg, overlap>>
    BY <1>5, Zenon DEF StartLooks, InC, object, cside, IInv, LifeInv
  <2>2. CASE running
    <3>1. pc' = [pc EXCEPT ![t] = "back"]
      BY <1>5, <2>2, Zenon DEF StartLooks, Goto
    <3> QED
      BY <2>1, <3>1, SMT DEF IInv, TypeOK, AloneInv, LifeInv, StartInv, Destroying, Constructing,
         Starting, AllOut
  <2>3. CASE ~running
    <3>1. pc' = [pc EXCEPT ![t] = "register"]
      BY <1>5, <2>1, <2>3, Zenon DEF StartLooks, WithTap, Goto
    <3> QED
      BY <2>1, <2>3, <3>1, SMT DEF IInv, TypeOK, AloneInv, LifeInv, StartInv, Destroying, Constructing,
         Starting, AllOut
  <2> QED BY <2>2, <2>3
<1>2. CASE RunningReturns(t)
  BY <1>2, SMT DEF RunningReturns, InC, Goto, object, cside, IInv, TypeOK, AloneInv, LifeInv, StartInv, Destroying,
     Constructing, Starting, AllOut
<1>3. CASE StopReturns(t)
  <2>1. /\ pc[t] = "c" /\ op[t] = "stop" /\ pc' = [pc EXCEPT ![t] = "back"]
        /\ (audio => orphan) /\ ~running'
    BY <1>3, Zenon DEF StopReturns, InC, WithTap, Goto, IInv, LifeInv
  <2>2. UNCHANGED <<gil, made, held, handle, trampoline, ctap, orphan, audio, op, arg, overlap>> /\ running' \in BOOLEAN
    BY <1>3, Zenon DEF StopReturns, object, IInv, TypeOK
  <2> QED
    BY <2>1, <2>2, SMT DEF IInv, TypeOK, AloneInv, LifeInv, StartInv, Destroying, Constructing, Starting, AllOut
<1>4. CASE DestroyReturns(t)
  <2>1. /\ pc[t] = "c" /\ op[t] \in {"destroy", "del"} /\ pc' = [pc EXCEPT ![t] = "back"]
        /\ (audio => orphan) /\ ~running' /\ ctap' = "gone"
    BY <1>4, Zenon DEF DestroyReturns, InC, WithTap, Goto, IInv, LifeInv
  <2>2. UNCHANGED <<gil, made, held, handle, trampoline, orphan, audio, op, arg, overlap>> /\ running' \in BOOLEAN
    BY <1>4, Zenon DEF DestroyReturns, object, IInv, TypeOK
  <2> QED
    BY <2>1, <2>2, SMT DEF IInv, TypeOK, AloneInv, LifeInv, StartInv, Destroying, Constructing, Starting, AllOut
<1> QED BY <1>1, <1>2, <1>3, <1>4, <1>5

LEMMA AudioKeeps ==
  ASSUME IInv, AudioEnters \/ AudioReturns
  PROVE  IInv'
<1>1. CASE AudioEnters
  <2>1. (running \/ orphan) /\ audio' /\ audio' \in BOOLEAN
    BY <1>1, Zenon DEF AudioEnters
  <2>2. UNCHANGED <<gil, made, held, handle, trampoline, ctap, running, orphan, pc, op, arg, overlap>>
    BY <1>1, Zenon DEF AudioEnters, object
  <2> QED
    BY <2>1, <2>2, SMT DEF IInv, TypeOK, AloneInv, LifeInv, StartInv, Destroying, Constructing, Starting, AllOut
<1>2. CASE AudioReturns
  <2>1. ~audio' /\ audio' \in BOOLEAN /\ gil' = NoThread
    BY <1>2, Zenon DEF AudioReturns
  <2>2. UNCHANGED <<made, held, handle, trampoline, ctap, running, orphan, pc, op, arg, overlap>>
    BY <1>2, Zenon DEF AudioReturns, object
  <2> QED
    BY <2>1, <2>2, SMT DEF IInv, TypeOK, AloneInv, LifeInv, StartInv, Destroying, Constructing, Starting, AllOut
<1> QED BY <1>1, <1>2

LEMMA NextIInv == DestroyAlone /\ IInv /\ [Next]_vars => IInv'
<1> SUFFICES ASSUME DestroyAlone, IInv, [Next]_vars PROVE IInv'
  OBVIOUS
<1>1. CASE UNCHANGED vars
  BY <1>1, SMT DEF vars, object, cside, IInv, TypeOK, AloneInv, LifeInv, StartInv, Destroying, Constructing, Starting, AllOut
<1>2. CASE Next
  <2>1. ASSUME NEW t \in Threads, ThreadStep(t) PROVE IInv'
    BY <2>1, ConstructKeeps, MethodKeeps, LibraryKeeps DEF ThreadStep
  <2>2. ASSUME NEW t \in Threads, New(t) \/ Collect(t) \/ (\E f \in Methods : Call(t, f)) PROVE IInv'
    BY <2>2, ConstructKeeps, CollectKeeps, CallKeeps
  <2>3. CASE Forget
    BY <2>3, ForgetKeeps
  <2> QED BY <1>2, <2>1, <2>2, <2>3, LockKeeps, AudioKeeps DEF Next
<1> QED BY <1>1, <1>2

\* A thread that constructs or destroys is alone, and the handle tells
\* whether the tap is alive.
THEOREM PyTapIsSound == DestroyAlone => (Spec => []IInv)
<1> SUFFICES ASSUME DestroyAlone PROVE Spec => []IInv
  OBVIOUS
<1>1. IInv /\ [Next]_vars => IInv'
  BY NextIInv
<1> QED BY <1>1, InitIInv, PTL DEF Spec

\* No method works on a tap that destroy() or the collector has freed.
THEOREM NoUseAfterFreeHolds == DestroyAlone => (Spec => []NoUseAfterFree)
<1> SUFFICES ASSUME DestroyAlone PROVE Spec => []NoUseAfterFree
  OBVIOUS
<1>1. IInv => NoUseAfterFree
  BY SMT DEF IInv, TypeOK, LifeInv, NoUseAfterFree, WithTap
<1> QED BY <1>1, PyTapIsSound, PTL

\* As long as no two start() overlap, the audio thread never calls a
\* trampoline that was collected.
THEOREM CallbackHasTrampolineHolds == DestroyAlone => (Spec => []CallbackHasTrampoline)
<1> SUFFICES ASSUME DestroyAlone PROVE Spec => []CallbackHasTrampoline
  OBVIOUS
<1>1. IInv => CallbackHasTrampoline
  BY SMT DEF IInv, LifeInv, StartInv, CallbackHasTrampoline
<1> QED BY <1>1, PyTapIsSound, PTL
=============================================================================
