----------------------------- MODULE MCMcpRelay -----------------------------
(***************************************************************************)
(* Instances of McpRelay for TLC.                                          *)
(***************************************************************************)
EXTENDS McpRelay
CONSTANT active
EitherFirst == <<{"external", "preview"}, {"external"}>>
=============================================================================
