------------------------- MODULE MCFrontendSession --------------------------
(* Instances of FrontendSession for TLC. *)
EXTENDS FrontendSession, TLC

=============================================================================
