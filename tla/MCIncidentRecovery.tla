------------------------ MODULE MCIncidentRecovery ------------------------
(* Small instances of IncidentRecovery. *)
EXTENDS IncidentRecovery

CONSTANTS v1, v2, d1, s1, a1, c1
=============================================================================
