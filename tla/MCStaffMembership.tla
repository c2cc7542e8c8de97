------------------------- MODULE MCStaffMembership -------------------------
EXTENDS StaffMembership, TLC

CONSTANTS o, p1, p2, q1, q2

Symmetry == Permutations(People \ {Founder}) \cup Permutations(Requests)
=============================================================================
