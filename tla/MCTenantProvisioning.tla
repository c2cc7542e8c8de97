------------------------ MODULE MCTenantProvisioning ------------------------
EXTENDS TenantProvisioning, TLC

CONSTANTS c1, c2, l1, l2

Symmetry == Permutations(Callers) \cup Permutations(Lanes)
=============================================================================
