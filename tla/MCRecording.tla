---------------------------- MODULE MCRecording ----------------------------
(***************************************************************************)
(* Buffers of one and two channels: empty, whole frames, and with bytes    *)
(* and samples behind the last whole frame.  Samples are told apart by     *)
(* their position.                                                         *)
(***************************************************************************)
EXTENDS Recording

Buffer(channels, bytes) ==
  [channels |-> channels, bytes |-> bytes, data |-> [i \in 1..(bytes \div SizeofFloat) |-> 2 * i]]

MCConfigs == [Sources -> {1, 2}]
MCCycles ==
  {<<Buffer(1, 9)>>, <<Buffer(2, 13)>>, <<Buffer(2, 0)>>, <<Buffer(1, 4), Buffer(2, 17)>>}
MCMaxCycles == [x \in Sources |-> IF x = "system" THEN 1 ELSE 2]
=============================================================================
