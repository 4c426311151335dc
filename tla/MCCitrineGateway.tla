-------------------------- MODULE MCCitrineGateway --------------------------
(* Instances of CitrineGateway for TLC. *)
EXTENDS CitrineGateway, TLC

CallSymmetry == Permutations(Calls)

=============================================================================
