-------------------------- MODULE MCRefreshTokens ---------------------------
(* Instances of RefreshTokens for TLC. *)
EXTENDS RefreshTokens, TLC

SessionSymmetry == Permutations(Users) \cup Permutations(Requests)

=============================================================================
