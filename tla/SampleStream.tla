---------------------------- MODULE SampleStream ----------------------------
(***************************************************************************)
(* What the ring buffer of go/bridge.c promises: a bounded stream of       *)
(* numbered samples.  The producer first makes room for a chunk, dropping  *)
(* the oldest samples and only as many as the chunk needs, and then        *)
(* commits the chunk.  The consumer takes batches from the old end.  The   *)
(* n-th sample that enters the stream has number n, so that a batch says   *)
(* exactly which samples it carries.                                       *)
(***************************************************************************)
EXTENDS Naturals

CONSTANT Capacity   \* samples the stream can hold, at least 1

VARIABLES
  written,   \* samples committed so far
  head,      \* samples taken or dropped so far: head + 1 is the oldest held
  reserved,  \* length of the chunk that room was made for, 0 if none
  batch,     \* the last batch taken
  closed     \* the stream takes no new chunk

svars == <<written, head, reserved, batch, closed>>

SInit ==
  /\ written = 0
  /\ head = 0
  /\ reserved = 0
  /\ batch = << >>
  /\ closed = FALSE

\* Room for a chunk of c samples.  A chunk whose call began before the
\* stream was closed may still enter it: there is no guard on closed.
Reserve(c) ==
  /\ reserved = 0
  /\ reserved' = c
  /\ head' = IF written + c > head + Capacity THEN written + c - Capacity ELSE head
  /\ UNCHANGED <<written, batch, closed>>

Commit ==
  /\ reserved > 0
  /\ written' = written + reserved
  /\ reserved' = 0
  /\ UNCHANGED <<head, batch, closed>>

\* The n oldest samples leave, in order.
Take(n) ==
  /\ head + n <= written
  /\ head' = head + n
  /\ batch' = [i \in 1..n |-> head + i]
  /\ UNCHANGED <<written, reserved, closed>>

Close ==
  /\ closed' = TRUE
  /\ UNCHANGED <<written, head, reserved, batch>>

SNext ==
  \/ \E c \in 1..Capacity : Reserve(c)
  \/ Commit
  \/ \E n \in 1..Capacity : Take(n)
  \/ Close

SSpec == SInit /\ [][SNext]_svars
=============================================================================
