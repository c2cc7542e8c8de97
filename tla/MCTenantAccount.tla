-------------------------- MODULE MCTenantAccount --------------------------
(* Small instances of TenantAccount. *)
EXTENDS TenantAccount, TLC

CONSTANTS t1, t2

Symmetry == Permutations(Threads)
=============================================================================
