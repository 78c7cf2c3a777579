----------------------------- MODULE ResultChannel -----------------------------
(***************************************************************************)
(* What the buffer, the debugger and the analyser promise together: every  *)
(* result a test reports reaches the host once, in order and under its own *)
(* name, and nothing is outstanding when the run is closed.                *)
(***************************************************************************)
EXTENDS Naturals, Sequences

VARIABLES
  sent,      \* the results the test code has reported, oldest first
  received,  \* the results the host has shown
  closed     \* the host has seen the end of the run

channelVars == <<sent, received, closed>>

ChannelInit == sent = << >> /\ received = << >> /\ closed = FALSE

Report ==
  /\ ~closed
  /\ Len(sent') = Len(sent) + 1
  /\ SubSeq(sent', 1, Len(sent)) = sent
  /\ UNCHANGED <<received, closed>>

Deliver ==
  /\ ~closed
  /\ \E n \in (Len(received) + 1)..Len(sent) : received' = SubSeq(sent, 1, n)
  /\ UNCHANGED <<sent, closed>>

Close ==
  /\ ~closed
  /\ received' = sent
  /\ closed' = TRUE
  /\ UNCHANGED sent

ChannelNext == Report \/ Deliver \/ Close

ChannelSpec == ChannelInit /\ [][ChannelNext]_channelVars
=============================================================================
