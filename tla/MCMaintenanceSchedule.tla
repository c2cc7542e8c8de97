---------------------- MODULE MCMaintenanceSchedule ----------------------
(* Small instances of MaintenanceSchedule. *)
EXTENDS MaintenanceSchedule, TLC

CONSTANTS t1, t2, s1, s2, l1, l2

Symmetry == Permutations(Tenants) \cup Permutations(Servers) \cup Permutations(Lanes)
=============================================================================
