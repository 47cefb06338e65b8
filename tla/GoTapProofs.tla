---------------------------- MODULE GoTapProofs ----------------------------
(***************************************************************************)
(* For any number of goroutines and however their calls overlap: Close     *)
(* releases everything, once.  And as long as no Start, Stop or IsRunning  *)
(* has overlapped another one or Close, none of them finds its tap freed,  *)
(* and the audio thread finds its ring.                                    *)
(***************************************************************************)
EXTENDS GoTap, TLAPS

LEMMA InitIInv == Init => IInv
<1> SUFFICES ASSUME Init PROVE IInv
  OBVIOUS
<1>1. TypeOK
  <2>1. pc \in [Routines -> {"out"}] /\ op \in [Routines -> {"none"}]
    BY SMT DEF Init
  <2>2. /\ b_closed \in BOOLEAN /\ data \in BOOLEAN /\ pipe \in BOOLEAN /\ running \in BOOLEAN
        /\ orphan \in BOOLEAN /\ closed \in BOOLEAN /\ held \in BOOLEAN /\ overlap \in BOOLEAN
    BY Zenon DEF Init
  <2> QED BY <2>1, <2>2, SMT DEF Init, TypeOK
<1>2. ~closed /\ ~running /\ ~orphan /\ ~held /\ \A g \in Routines : pc[g] = "out"
  BY Zenon DEF Init
<1>3. CloserInv /\ LifeInv /\ WaitInv /\ OverlapInv /\ NoLeak
  BY <1>2, SMT DEF Init, CloserInv, LifeInv, WaitInv, OverlapInv, NoLeak, Body, Control
<1> QED BY <1>1, <1>3 DEF IInv

LEMMA ConstructKeeps ==
  ASSUME IInv, CreateBridge \/ CreateTap \/ CreateTapFails
  PROVE  IInv'
<1>1. CASE CreateBridge
  BY <1>1, SMT DEF CreateBridge, device, goside, IInv, TypeOK, CloserInv, LifeInv, WaitInv, OverlapInv, NoLeak,
     Body, Control, Closing
<1>2. CASE CreateTap
  BY <1>2, SMT DEF CreateTap, ring, IInv, TypeOK, CloserInv, LifeInv, WaitInv, OverlapInv, NoLeak,
     Body, Control, Closing
<1>3. CASE CreateTapFails
  BY <1>3, SMT DEF CreateTapFails, goside, IInv, TypeOK, CloserInv, LifeInv, WaitInv, OverlapInv, NoLeak,
     Body, Control, Closing
<1> QED BY <1>1, <1>2, <1>3

\* A call or a Close begins: if it overlaps, overlap says so.
LEMMA EnterKeeps ==
  ASSUME IInv, NEW g \in Goroutines, CallClose(g) \/ \E f \in Ops : Call(g, f)
  PROVE  IInv'
<1>1. CASE CallClose(g)
  <2>1. /\ UNCHANGED <<bridge, b_closed, data, pipe, ctap, running, orphan, callback>>
        /\ UNCHANGED <<closed, once, finalizer, held>>
        /\ pc[g] = "out" /\ held
        /\ pc' = [pc EXCEPT ![g] = "once"] /\ op' = [op EXCEPT ![g] = "close"]
    BY <1>1, Zenon DEF CallClose, Goto, cside, ring, device, goside
  <2>2. overlap' \in BOOLEAN /\ (~overlap' => ~overlap /\ \A other \in Routines : ~Control(other))
    <3>1. CASE \E other \in Routines : Control(other)
      BY <1>1, <3>1, Zenon DEF CallClose
    <3>2. CASE ~(\E other \in Routines : Control(other))
      BY <1>1, <3>2, Zenon DEF CallClose, IInv, TypeOK
    <3> QED BY <3>1, <3>2
  <2>3. TypeOK' /\ CloserInv' /\ LifeInv' /\ WaitInv' /\ NoLeak'
    BY <2>1, <2>2, SMT DEF IInv, TypeOK, CloserInv, LifeInv, WaitInv, NoLeak, Body, Routines
  <2>4. OverlapInv'
    BY <2>1, <2>2, SMT DEF IInv, TypeOK, OverlapInv, Control, Closing, Body, Routines
  <2> QED BY <2>3, <2>4 DEF IInv
<1>2. ASSUME NEW f \in Ops, Call(g, f) PROVE IInv'
  <2>1. /\ UNCHANGED <<bridge, b_closed, data, pipe, ctap, running, orphan, callback>>
        /\ UNCHANGED <<closed, once, finalizer, held>>
        /\ pc[g] = "out" /\ held
        /\ pc' = [pc EXCEPT ![g] = "check"] /\ op' = [op EXCEPT ![g] = f]
    BY <1>2, Zenon DEF Call, Goto, cside, ring, device, goside
  <2>2. /\ overlap' \in BOOLEAN /\ (~overlap' => ~overlap)
        /\ ~overlap' /\ f # "read" => \A other \in Routines : ~Control(other) /\ ~Closing(other)
    <3> DEFINE Overlaps == f # "read" /\ \E other \in Routines : Control(other) \/ Closing(other)
    <3>1. CASE Overlaps
      BY <1>2, <3>1, Zenon DEF Call
    <3>2. CASE ~Overlaps
      BY <1>2, <3>2, Zenon DEF Call, IInv, TypeOK
    <3> QED BY <3>1, <3>2
  <2>3. TypeOK' /\ CloserInv' /\ LifeInv' /\ WaitInv' /\ NoLeak'
    BY <2>1, <2>2, SMT DEF IInv, TypeOK, CloserInv, LifeInv, WaitInv, NoLeak, Body, Routines
  <2>4. OverlapInv'
    BY <2>1, <2>2, SMT DEF IInv, TypeOK, OverlapInv, Control, Closing, Body, Routines
  <2> QED BY <2>3, <2>4 DEF IInv
<1> QED BY <1>1, <1>2

\* A step of a call that leaves the tap and the device alone.
LEMMA LookKeeps ==
  ASSUME IInv, NEW g \in Routines, NEW label \in {"out", "enter", "c", "blocked", "start"},
         pc[g] \in {"check", "enter", "c", "blocked", "start"},
         Goto(g, label),
         UNCHANGED <<bridge, b_closed, ctap, running, callback, closed, once, finalizer, held, op, overlap>>,
         data' \in BOOLEAN, pipe' \in BOOLEAN, orphan' \in BOOLEAN, orphan => orphan',
         ~overlap => ~orphan',
         label = "enter" => ~closed,
         label \in {"c", "start"} => pc[g] # "check",
         label = "blocked" => op[g] = "read",
         label = "start" => ~running,
         label = "start" \/ (label \in {"enter", "c"} /\ op[g] # "read") => Control(g)
  PROVE  IInv'
<1>1. TypeOK' /\ CloserInv' /\ LifeInv' /\ WaitInv' /\ NoLeak'
  BY SMT DEF Goto, IInv, TypeOK, CloserInv, LifeInv, WaitInv, NoLeak, Body
<1>2. OverlapInv'
  <2> SUFFICES ASSUME ~overlap PROVE OverlapInv'
    BY DEF OverlapInv
  <2>1. \A r \in Routines : Control(r)' => Control(r)
    BY SMT DEF Goto, IInv, TypeOK, Control
  <2>2. \A r \in Routines : Closing(r)' => Closing(r)
    BY SMT DEF Goto, IInv, TypeOK, Closing, Body
  <2>3. ASSUME NEW r \in Routines, Control(r)'
        PROVE  /\ \A other \in Routines : other # r => ~Control(other)' /\ ~Closing(other)'
               /\ pc'[r] # "check" => ~closed'
               /\ pc'[r] = "start" => ~running'
    <3>1. /\ Control(r)
          /\ \A other \in Routines : other # r => ~Control(other) /\ ~Closing(other)
          /\ pc[r] # "check" => ~closed
          /\ pc[r] = "start" => ~running
      BY <2>1, <2>3, Zenon DEF IInv, OverlapInv
    <3>2. \A other \in Routines : other # r => ~Control(other)' /\ ~Closing(other)'
      BY <2>1, <2>2, <3>1
    <3>3. (closed' <=> closed) /\ (running' <=> running)
      OBVIOUS
    <3>4. CASE r = g
      <4>1. pc'[r] = label
        BY <3>4, SMT DEF Goto, IInv, TypeOK
      <4>2. label \in {"c", "start", "blocked"} => pc[r] # "check"
        BY <3>1, <3>4, SMT DEF Control
      <4>3. label # "out" /\ label # "blocked"
        BY <2>3, <4>1, SMT DEF Control
      <4>4. pc'[r] # "check" => ~closed'
        BY <3>1, <3>3, <4>1, <4>2, <4>3, SMT
      <4>5. pc'[r] = "start" => ~running'
        BY <3>3, <4>1, SMT
      <4> QED BY <3>2, <4>4, <4>5
    <3>5. CASE r # g
      <4>1. pc'[r] = pc[r]
        BY <3>5, SMT DEF Goto, IInv, TypeOK
      <4> QED BY <3>1, <3>2, <3>3, <4>1, SMT
    <3> QED BY <3>4, <3>5
  <2>4. ~orphan'
    OBVIOUS
  <2> QED BY <2>3, <2>4, Zenon DEF OverlapInv
<1> QED BY <1>1, <1>2 DEF IInv

LEMMA NoOrphanAlone ==
  ASSUME IInv, ~overlap
  PROVE  ~orphan
BY Zenon DEF IInv, OverlapInv

\* A goroutine that uses a freed tap, or registers an IO proc over another
\* one, has overlapped.
LEMMA AloneInTap ==
  ASSUME IInv, ~overlap, NEW g \in Routines, InTap(g)
  PROVE  ctap = "live" /\ (pc[g] = "start" => ~running)
<1>1. Control(g) /\ pc[g] # "out" /\ pc[g] # "check"
  BY SMT DEF InTap, Control
<1> QED BY <1>1, SMT DEF IInv, LifeInv, OverlapInv

\* The hypotheses of LookKeeps that most steps meet by leaving things alone.
LEMMA SameDevice ==
  ASSUME IInv, UNCHANGED <<bridge, b_closed, device, goside, op, overlap>>
  PROVE  /\ UNCHANGED <<bridge, b_closed, ctap, running, callback, closed, once, finalizer, held, op, overlap>>
         /\ orphan' \in BOOLEAN /\ (orphan => orphan') /\ (~overlap => ~orphan')
BY NoOrphanAlone, Zenon DEF device, goside, IInv, TypeOK

LEMMA SameRing ==
  ASSUME IInv, UNCHANGED <<cside, goside, op, overlap>>
  PROVE  /\ UNCHANGED <<bridge, b_closed, ctap, running, callback, closed, once, finalizer, held, op, overlap>>
         /\ data' \in BOOLEAN /\ pipe' \in BOOLEAN
         /\ orphan' \in BOOLEAN /\ (orphan => orphan') /\ (~overlap => ~orphan')
BY NoOrphanAlone, Zenon DEF cside, ring, device, goside, IInv, TypeOK

LEMMA CallKeeps ==
  ASSUME IInv, NEW g \in Routines, CallStep(g)
  PROVE  IInv'
<1>1. CASE CheckClosed(g)
  <2>1. PICK label \in {"out", "enter"} : Goto(g, label) /\ (label = "enter" => ~closed)
    BY <1>1, SMT DEF CheckClosed
  <2>2. pc[g] = "check" /\ UNCHANGED <<cside, goside, op, overlap>>
    BY <1>1 DEF CheckClosed
  <2>3. label = "enter" /\ op[g] # "read" => Control(g)
    BY <2>2 DEF Control
  <2> QED BY <2>1, <2>2, <2>3, SameRing, LookKeeps
<1>2. CASE EnterC(g)
  <2>1. pc[g] = "enter" /\ Goto(g, "c") /\ UNCHANGED <<cside, goside, op, overlap>>
    BY <1>2 DEF EnterC
  <2>2. op[g] # "read" => Control(g)
    BY <2>1 DEF Control
  <2> QED BY <2>1, <2>2, SameRing, LookKeeps
<1>3. CASE ReadLooks(g)
  <2>1. PICK label \in {"out", "blocked"} : Goto(g, label)
    BY <1>3, SMT DEF ReadLooks
  <2>2. /\ pc[g] = "c" /\ op[g] = "read"
        /\ UNCHANGED <<bridge, b_closed, pipe, device, goside, op, overlap>>
    BY <1>3 DEF ReadLooks
  <2>3. data' \in BOOLEAN /\ pipe' \in BOOLEAN
    BY <1>3, <2>2, Zenon DEF ReadLooks, IInv, TypeOK
  <2> QED BY <2>1, <2>2, <2>3, SameDevice, LookKeeps
<1>4. CASE ReadWakes(g)
  <2>1. /\ pc[g] = "blocked" /\ Goto(g, "c")
        /\ UNCHANGED <<bridge, b_closed, data, device, goside, op, overlap>>
    BY <1>4 DEF ReadWakes
  <2>2. data' \in BOOLEAN /\ pipe' \in BOOLEAN
    BY <1>4, <2>1, Zenon DEF ReadWakes, IInv, TypeOK
  <2>3. op[g] = "read"
    BY <2>1 DEF IInv, WaitInv
  <2> QED BY <2>1, <2>2, <2>3, SameDevice, LookKeeps
<1>5. CASE StartLooks(g)
  <2>1. PICK label \in {"out", "start"} : Goto(g, label) /\ (label = "start" => ~running)
    BY <1>5, SMT DEF StartLooks
  <2>2. pc[g] = "c" /\ op[g] = "start" /\ UNCHANGED <<cside, goside, op, overlap>>
    BY <1>5 DEF StartLooks
  <2>3. Control(g)
    BY <2>2 DEF Control
  <2> QED BY <2>1, <2>2, <2>3, SameRing, LookKeeps
<1>6. CASE UseFreed(g)
  <2>1. /\ pc[g] \in {"c", "blocked", "start"} /\ Goto(g, "out")
        /\ UNCHANGED <<ring, ctap, running, callback, goside, op, overlap>>
    BY <1>6, SMT DEF UseFreed, InBridge, InTap
  <2>2. data' \in BOOLEAN /\ pipe' \in BOOLEAN
    BY <2>1, Zenon DEF ring, IInv, TypeOK
  <2>3. orphan' = orphan \/ (orphan' = TRUE /\ InTap(g))
    BY <1>6, Zenon DEF UseFreed
  <2>4. orphan' \in BOOLEAN /\ (orphan => orphan')
    BY <2>3, Zenon DEF IInv, TypeOK
  <2>5. ~overlap => ~orphan'
    <3>1. InTap(g) => ctap = "gone"
      BY <1>6, SMT DEF UseFreed, InBridge, InTap
    <3>2. ~(~overlap /\ InTap(g))
      BY <3>1, AloneInTap, Zenon
    <3> QED BY <2>3, <3>2, NoOrphanAlone
  <2>6. UNCHANGED <<bridge, b_closed, ctap, running, callback, closed, once, finalizer, held, op, overlap>>
    BY <2>1 DEF ring, goside
  <2> QED BY <2>1, <2>2, <2>4, <2>5, <2>6, LookKeeps
<1>7. CASE StartReturns(g)
  <2>1. /\ UNCHANGED <<bridge, b_closed, data, pipe, ctap, callback>>
        /\ UNCHANGED <<closed, once, finalizer, held, op, overlap>>
        /\ pc[g] = "start" /\ ctap = "live" /\ pc' = [pc EXCEPT ![g] = "out"]
    BY <1>7 DEF StartReturns, Goto, ring, goside
  <2>2. /\ running' \in BOOLEAN /\ orphan' \in BOOLEAN
        /\ (running => running') /\ (orphan => orphan')
        /\ (~running => orphan' = orphan)
    <3>1. running \in BOOLEAN /\ orphan \in BOOLEAN
      BY Zenon DEF IInv, TypeOK
    <3>2. CASE running' = TRUE /\ orphan' = (orphan \/ running)
      BY <3>1, <3>2, Zenon
    <3>3. CASE UNCHANGED running /\ orphan' \in {orphan, orphan \/ running}
      BY <3>1, <3>3, Zenon
    <3> QED BY <1>7, <3>2, <3>3 DEF StartReturns
  <2>3. ~overlap => ~orphan'
    <3>1. ~overlap => ~running /\ ~orphan
      BY <2>1, SMT DEF IInv, OverlapInv, Control
    <3> QED BY <2>2, <3>1
  <2>4. TypeOK' /\ CloserInv' /\ LifeInv' /\ WaitInv' /\ NoLeak'
    BY <2>1, <2>2, SMT DEF IInv, TypeOK, CloserInv, LifeInv, WaitInv, NoLeak, Body
  <2>5. OverlapInv'
    BY <2>1, <2>3, SMT DEF IInv, TypeOK, OverlapInv, Control, Closing, Body
  <2> QED BY <2>4, <2>5 DEF IInv
<1>8. CASE StopReturns(g)
  <2>1. /\ UNCHANGED <<bridge, b_closed, data, pipe, ctap, orphan, callback>>
        /\ UNCHANGED <<closed, once, finalizer, held, op, overlap>>
        /\ pc[g] = "c" /\ pc' = [pc EXCEPT ![g] = "out"]
    BY <1>8 DEF StopReturns, Goto, ring, goside
  <2>2. ~running' /\ running' \in BOOLEAN /\ (callback # "none" => orphan)
    BY <1>8 DEF StopReturns
  <2>3. TypeOK' /\ CloserInv' /\ LifeInv' /\ WaitInv' /\ NoLeak'
    BY <2>1, <2>2, SMT DEF IInv, TypeOK, CloserInv, LifeInv, WaitInv, NoLeak, Body
  <2>4. OverlapInv'
    BY <2>1, <2>2, SMT DEF IInv, TypeOK, OverlapInv, Control, Closing, Body
  <2> QED BY <2>3, <2>4 DEF IInv
<1> QED BY <1>1, <1>2, <1>3, <1>4, <1>5, <1>6, <1>7, <1>8 DEF CallStep

LEMMA CallbackKeeps ==
  ASSUME IInv, CallbackEnters \/ CallbackReturns
  PROVE  IInv'
<1>1. UNCHANGED <<bridge, b_closed, ctap, running, orphan, goside, pc, op, overlap>>
  BY DEF CallbackEnters, CallbackReturns, ring
<1>2. data' \in BOOLEAN /\ pipe' \in BOOLEAN
  BY Zenon DEF CallbackEnters, CallbackReturns, ring, IInv, TypeOK
<1>3. /\ callback' \in {"none", "publish", "ignore"}
      /\ callback' # "none" => running \/ orphan
  BY SMT DEF CallbackEnters, CallbackReturns
<1>4. TypeOK' /\ CloserInv' /\ LifeInv' /\ WaitInv' /\ NoLeak'
  BY <1>1, <1>2, <1>3, SMT DEF goside, IInv, TypeOK, CloserInv, LifeInv, WaitInv, NoLeak, Body
<1>5. OverlapInv'
  BY <1>1, SMT DEF goside, IInv, TypeOK, OverlapInv, Control, Closing, Body
<1> QED BY <1>4, <1>5 DEF IInv

LEMMA CollectKeeps ==
  ASSUME IInv, Forget \/ Finalize
  PROVE  IInv'
<1>1. CASE Forget
  <2>1. ~held' /\ held' \in BOOLEAN
    BY <1>1 DEF Forget
  <2>2. UNCHANGED <<bridge, b_closed, data, pipe, ctap, running, orphan, callback, closed, once,
                    finalizer, pc, op, overlap>>
    BY <1>1 DEF Forget, cside, ring, device
  <2> QED BY <2>1, <2>2, SMT DEF IInv, TypeOK, CloserInv, LifeInv, WaitInv, OverlapInv, NoLeak,
        Body, Control, Closing
<1>2. CASE Finalize
  <2>1. /\ UNCHANGED <<bridge, b_closed, data, pipe, ctap, running, orphan, callback>>
        /\ UNCHANGED <<closed, once, held>>
        /\ pc[GC] = "out" /\ ~held /\ finalizer = "set" /\ finalizer' = "cleared"
        /\ pc' = [pc EXCEPT ![GC] = "once"] /\ op' = [op EXCEPT ![GC] = "close"]
    BY <1>2, Zenon DEF Finalize, Goto, cside, ring, device
  <2>2. overlap' \in BOOLEAN /\ (~overlap' => ~overlap /\ \A other \in Routines : ~Control(other))
    <3>1. CASE \E other \in Routines : Control(other)
      BY <1>2, <3>1, Zenon DEF Finalize
    <3>2. CASE ~(\E other \in Routines : Control(other))
      BY <1>2, <3>2, Zenon DEF Finalize, IInv, TypeOK
    <3> QED BY <3>1, <3>2
  <2>3. TypeOK' /\ CloserInv' /\ LifeInv' /\ WaitInv' /\ NoLeak'
    BY <2>1, <2>2, SMT DEF IInv, TypeOK, CloserInv, LifeInv, WaitInv, NoLeak, Body, Routines
  <2>4. OverlapInv'
    BY <2>1, <2>2, SMT DEF IInv, TypeOK, OverlapInv, Control, Closing, Body, Routines
  <2> QED BY <2>3, <2>4 DEF IInv
<1> QED BY <1>1, <1>2

\* The steps of Close, with whatever other goroutines do.
LEMMA CloseKeeps ==
  ASSUME IInv, NEW g \in Routines, CloseStep(g)
  PROVE  IInv'
<1>0. SUFFICES ASSUME Closing(g) PROVE IInv'
  BY SMT DEF CloseStep, OnceEnter, SetClosed, CloseBridge, FreeTap, FreeBridge, Closing, Body
<1>1. CASE OnceEnter(g)
  BY <1>1, SMT DEF OnceEnter, Goto, cside, ring, device, IInv, TypeOK, CloserInv, LifeInv, WaitInv,
     OverlapInv, NoLeak, Body, Control, Closing
<1>2. CASE SetClosed(g)
  BY <1>0, <1>2, SMT DEF SetClosed, Goto, cside, ring, device, IInv, TypeOK, CloserInv, LifeInv, WaitInv,
     OverlapInv, NoLeak, Body, Control, Closing
<1>3. CASE CloseBridge(g)
  BY <1>3, SMT DEF CloseBridge, Goto, device, goside, IInv, TypeOK, CloserInv, LifeInv, WaitInv,
     OverlapInv, NoLeak, Body, Control, Closing
<1>4. CASE FreeTap(g)
  <2>1. /\ UNCHANGED <<bridge, b_closed, data, pipe, orphan, callback>>
        /\ UNCHANGED <<closed, once, finalizer, held, op, overlap>>
        /\ pc[g] = "free_tap" /\ pc' = [pc EXCEPT ![g] = "free_bridge"]
        /\ ctap' = "gone"
    BY <1>4 DEF FreeTap, Goto, ring, goside
  <2>2. ~running' /\ running' \in BOOLEAN /\ (callback # "none" => orphan)
    BY <1>4 DEF FreeTap
  <2>3. once = "running" /\ closed
    BY <2>1, SMT DEF IInv, CloserInv, Body
  <2>4. TypeOK' /\ CloserInv'
    BY <2>1, <2>2, SMT DEF IInv, TypeOK, CloserInv, Body
  <2>5. LifeInv' /\ WaitInv' /\ NoLeak'
    BY <2>1, <2>2, <2>3, SMT DEF IInv, TypeOK, LifeInv, WaitInv, NoLeak
  <2>6. OverlapInv'
    BY <2>1, <2>2, SMT DEF IInv, TypeOK, OverlapInv, Control, Closing, Body
  <2> QED BY <2>4, <2>5, <2>6 DEF IInv
<1>5. CASE FreeBridge(g)
  BY <1>5, SMT DEF FreeBridge, Goto, device, IInv, TypeOK, CloserInv, LifeInv, WaitInv,
     OverlapInv, NoLeak, Body, Control, Closing
<1> QED BY <1>1, <1>2, <1>3, <1>4, <1>5 DEF CloseStep

LEMMA NextIInv == IInv /\ [Next]_vars => IInv'
<1> SUFFICES ASSUME IInv, [Next]_vars PROVE IInv'
  OBVIOUS
<1>1. CASE UNCHANGED vars
  BY <1>1, SMT DEF vars, cside, ring, device, goside, IInv, TypeOK, CloserInv, LifeInv, WaitInv,
     OverlapInv, NoLeak, Body, Control, Closing
<1> QED BY <1>1, ConstructKeeps, EnterKeeps, CallKeeps, CloseKeeps, CallbackKeeps, CollectKeeps DEF Next

\* The invariant holds, however calls overlap.
THEOREM TapIsSound == Spec => []IInv
<1>1. IInv /\ [Next]_vars => IInv'
  BY NextIInv
<1> QED BY <1>1, InitIInv, PTL DEF Spec

\* Unless Start, Stop and IsRunning have overlapped, none of them works on a
\* tap that Close has freed.
THEOREM CallsFindTapHolds == Spec => []CallsFindTap
<1>1. IInv => CallsFindTap
  BY AloneInTap, Zenon DEF CallsFindTap
<1> QED BY <1>1, TapIsSound, PTL

\* Unless they have overlapped, the audio thread never writes to a freed ring.
THEOREM CallbackHasBridgeHolds == Spec => []CallbackHasBridge
<1>1. IInv => CallbackHasBridge
  BY SMT DEF IInv, LifeInv, OverlapInv, CallbackHasBridge
<1> QED BY <1>1, TapIsSound, PTL

\* A constructor that fails leaves nothing behind, and after Close both C
\* objects are gone.
THEOREM NoLeakHolds == Spec => []NoLeak
<1>1. IInv => NoLeak
  BY DEF IInv
<1> QED BY <1>1, TapIsSound, PTL

\* Whoever called Close, first or later, finds everything released.
THEOREM CloseReleasesHolds == Spec => CloseReleases
<1>1. ASSUME IInv, [Next]_vars
      PROVE  [\A g \in Routines : pc[g] = "once" /\ pc'[g] = "out" => bridge' = "gone"]_vars
  <2> SUFFICES ASSUME NEW g \in Routines, pc[g] = "once", pc'[g] = "out" PROVE bridge' = "gone"
    OBVIOUS
  <2> USE <1>1
  <2>1. pc' # pc /\ pc[g] \notin {"out", "check", "enter", "c", "blocked", "start"} \cup Body
    BY SMT DEF Body
  <2>2. \A r \in Routines : pc' = [pc EXCEPT ![r] = pc'[r]] => r = g
    BY SMT DEF IInv, TypeOK
  <2>3. OnceEnter(g)
    <3>1. ~(CreateBridge \/ CreateTap \/ CreateTapFails \/ CallbackEnters \/ CallbackReturns \/ Forget)
      BY <2>1 DEF CreateBridge, CreateTap, CreateTapFails, CallbackEnters, CallbackReturns, Forget
    <3>2. ASSUME NEW r \in Routines, CallClose(r) \/ (\E f \in Ops : Call(r, f)) \/ CallStep(r)
          PROVE  FALSE
      <4>1. pc[r] \in {"out", "check", "enter", "c", "blocked", "start"}
            /\ \E label : pc' = [pc EXCEPT ![r] = label]
        BY <3>2, Zenon DEF CallClose, Call, CallStep, CheckClosed, EnterC, UseFreed, ReadLooks, ReadWakes,
           StartLooks, StartReturns, StopReturns, InBridge, InTap, Goto
      <4> QED BY <4>1, <2>1, SMT DEF IInv, TypeOK
    <3>3. ~Finalize
      <4> SUFFICES ASSUME Finalize PROVE FALSE
        OBVIOUS
      <4>1. pc[GC] = "out" /\ pc' = [pc EXCEPT ![GC] = "once"]
        BY Zenon DEF Finalize, Goto
      <4> QED BY <4>1, SMT DEF IInv, TypeOK
    <3>4. ASSUME NEW r \in Routines, CloseStep(r) PROVE OnceEnter(g)
      <4>1. CASE OnceEnter(r)
        <5>1. pc' = [pc EXCEPT ![r] = pc'[r]]
          BY <4>1, SMT DEF OnceEnter, Goto, IInv, TypeOK
        <5> QED BY <4>1, <5>1, <2>2
      <4>2. CASE SetClosed(r) \/ CloseBridge(r) \/ FreeTap(r) \/ FreeBridge(r)
        <5>1. pc' = [pc EXCEPT ![r] = pc'[r]] /\ pc[r] \in Body
          BY <4>2, SMT DEF SetClosed, CloseBridge, FreeTap, FreeBridge, Goto, IInv, TypeOK, Body
        <5> QED BY <5>1, <2>1, <2>2
      <4> QED BY <3>4, <4>1, <4>2 DEF CloseStep
    <3> QED BY <2>1, <3>1, <3>2, <3>3, <3>4 DEF Next, vars, Routines
  <2>4. once = "done" /\ UNCHANGED bridge
    BY <2>3, SMT DEF OnceEnter, Goto, cside, ring, IInv, TypeOK
  <2> QED BY <2>4 DEF IInv, NoLeak
<1> QED BY <1>1, TapIsSound, PTL DEF Spec, CloseReleases
=============================================================================
