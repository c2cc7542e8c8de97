------------------------ MODULE MCMigrationRollout ------------------------
(* Small instances of MigrationRollout. The percentages put the first of   *)
(* two external tenants into stage 1 and the second one into stage 3; an   *)
(* internal tenant is in stage 0.                                           *)
EXTENDS MigrationRollout, TLC

CONSTANTS i1, e1, e2, o1, o2, w1, w2

OtherTenants == <<e1, e2>>

Symmetry == Permutations(Operators) \cup Permutations(Workers)
=============================================================================
