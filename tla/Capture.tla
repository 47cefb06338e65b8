------------------------------ MODULE Capture ------------------------------
(***************************************************************************)
(* What the C library promises the programs over it (audiotap.h): a tap    *)
(* exists from the end of its creation to its destruction; its callback is *)
(* called only while the tap exists, and only while its caller wants it:   *)
(* from the start of the tap until its stop or destruction has returned.   *)
(* In between the audio may pause and come back, for the restart of a      *)
(* microphone on a new device or while a microphone is being started.      *)
(***************************************************************************)
CONSTANTS Taps, None

VARIABLES
  life,    \* of a tap: "none", "live", "freed"
  asked,   \* the taps started successfully and not stopped since
  audio,   \* the taps whose callback may be called now
  call     \* the call under way and its tap

cvars == <<life, asked, audio, call>>

NoCall == <<"none", None>>

CInit == life = [t \in Taps |-> "none"] /\ asked = {} /\ audio = {} /\ call = NoCall

\* A call begins.  A tap is no longer asked for once its stop has begun.
Begin(fun, t) ==
  /\ call = NoCall /\ call' = <<fun, t>>
  /\ CASE fun = "permission" -> t = None
       [] fun = "create" -> t \in Taps /\ life[t] = "none"
       [] fun \in {"start", "stop", "destroy"} -> t \in Taps /\ life[t] = "live"
  /\ asked' = IF fun \in {"stop", "destroy"} THEN asked \ {t} ELSE asked
  /\ UNCHANGED <<life, audio>>

Create(t) ==
  /\ call = <<"create", t>> /\ life[t] = "none"
  /\ life' = [life EXCEPT ![t] = "live"]
  /\ UNCHANGED <<asked, audio, call>>

\* Audio begins and ends.
Wanted(t) == t \in asked \/ call \in {"start", "stop", "destroy"} \X {t}
Sound ==
  /\ audio' \subseteq Taps
  /\ \A t \in audio' : life[t] = "live" /\ Wanted(t)
  /\ UNCHANGED <<life, asked, call>>

\* Nothing is freed under its callback.
Free(t) ==
  /\ call = <<"destroy", t>> /\ life[t] = "live" /\ t \notin audio
  /\ life' = [life EXCEPT ![t] = "freed"]
  /\ UNCHANGED <<asked, audio, call>>

\* The call returns.  A start that failed and a stop leave the tap silent, a
\* creation has made a tap if it says so, a destruction has freed it.
End(fun, t, ok) ==
  /\ fun # "none" /\ call = <<fun, t>> /\ call' = NoCall
  /\ fun = "create" => (ok <=> life[t] = "live")
  /\ fun = "destroy" => life[t] = "freed"
  /\ fun \in {"stop", "destroy"} \/ (fun = "start" /\ ~ok) => t \notin audio
  /\ asked' = IF fun = "start" /\ ok THEN asked \cup {t} ELSE asked
  /\ UNCHANGED <<life, audio>>

Functions == {"create", "start", "stop", "destroy", "permission"}

CNext ==
  \/ \E fun \in Functions, t \in Taps \cup {None} :
       Begin(fun, t) \/ \E ok \in BOOLEAN : End(fun, t, ok)
  \/ \E t \in Taps : Create(t) \/ Free(t)
  \/ Sound

CSpec == CInit /\ [][CNext]_cvars
=============================================================================
