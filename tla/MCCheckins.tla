----------------------------- MODULE MCCheckins -----------------------------
(***************************************************************************)
(* Instances of Checkins for TLC.                                          *)
(***************************************************************************)
EXTENDS Checkins
CONSTANTS g1, c1
=============================================================================
