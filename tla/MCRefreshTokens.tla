-------------------------- MODULE MCRefreshTokens --------------------------
(* Small instances of RefreshTokens. *)
EXTENDS RefreshTokens, TLC

CONSTANTS f1, k1, k2, k3, r1, r2, r3

Symmetry == Permutations(Ids) \cup Permutations(Requests)
=============================================================================
