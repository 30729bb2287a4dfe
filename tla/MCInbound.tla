----------------------------- MODULE MCInbound -----------------------------
(***************************************************************************)
(* Instances of Inbound for TLC. BACKOFF_STEPS is 5 s, 15 s, 60 s, 300 s   *)
(* and a sweep period 60 s: the first two steps may or may not outlast the *)
(* time to the next pass.                                                  *)
(***************************************************************************)
EXTENDS Inbound
OneStep == <<{0, 1}>>
TwoSteps == <<{0, 1}, {2}>>
=============================================================================
