----------------------------- MODULE MCSettings -----------------------------
(* Instances of Settings for TLC. *)
EXTENDS Settings, TLC

RequestSymmetry == Permutations(Requests) \cup Permutations(Keys)

=============================================================================
