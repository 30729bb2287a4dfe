----------------------------- MODULE MCSchedule -----------------------------
(***************************************************************************)
(* Instances of Schedule for TLC.                                          *)
(***************************************************************************)
EXTENDS Schedule
CONSTANTS s1, s2
SeriesApart == [t \in Ids |-> IF t = Series THEN s1 ELSE s2]
=============================================================================
