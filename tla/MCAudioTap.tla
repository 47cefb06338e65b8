----------------------------- MODULE MCAudioTap -----------------------------
(***************************************************************************)
(* Instances of AudioTap: one system tap, one microphone tap, two input    *)
(* devices.                                                                *)
(***************************************************************************)
EXTENDS AudioTap

CONSTANTS s, m, d1, d2

AllCalls == ({"create", "start", "stop", "destroy"} \X {s, m}) \cup {<<"permission", None>>}

\* The calls whose work on a microphone tap is under its mutex.
MicCalls == {"start", "stop"} \X {m}

\* For the runs that look at one race: the calls made, and the calls in which
\* the default device may change.
StopCalls == {"create", "start", "stop"} \X {m}
DestroyCalls == {"create", "start", "destroy"} \X {m}
StartCalls == {"create", "start"} \X {s, m}
NoCalls == {}
StartSys == {<<"start", s>>}
DestroyMic == {<<"destroy", m>>}
CreateMicCall == {<<"create", m>>}
=============================================================================
