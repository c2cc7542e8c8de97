------------------------- MODULE MCMayaGovernance -------------------------
(* Small instances of MayaGovernance. *)
EXTENDS MayaGovernance, TLC

CONSTANTS p1, p2, r1, r2, w1, w2, c1, c2

\* One cancellation request: the approval-bound path alone.
RiskOne == [p \in {p1} |-> "high_risk"]

\* A low-risk write of a conversation beside a message that needs approval.
RiskMixed == [p \in {p1, p2} |-> IF p = p1 THEN "human_approval" ELSE "low_risk_write"]

Symmetry == Permutations(Callers) \cup Permutations(Reviewers) \cup Permutations(Workers)
=============================================================================
