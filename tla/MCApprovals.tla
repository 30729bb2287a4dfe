----------------------------- MODULE MCApprovals -----------------------------
(***************************************************************************)
(* Instances of Approvals for TLC.                                         *)
(***************************************************************************)
EXTENDS Approvals, TLC
CONSTANTS cli, tap, e1, e2
BrokerSymmetry == Permutations(Exposers)
=============================================================================
