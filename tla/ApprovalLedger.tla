-------------------------- MODULE ApprovalLedger ---------------------------
(***************************************************************************)
(* What governance promises, without rows, events, batches or retries: an  *)
(* approval-bound action acts only by spending an approval, one approval   *)
(* buys at most one action, and approvals are granted one at a time.       *)
(***************************************************************************)
EXTENDS Naturals

CONSTANT Actions
VARIABLES granted,  \* approvals given so far
          used      \* executions started so far

Init ==
  /\ granted = [a \in Actions |-> 0]
  /\ used    = [a \in Actions |-> 0]

Grant(a) ==
  /\ granted' = [granted EXCEPT ![a] = @ + 1]
  /\ UNCHANGED used

Use(a) ==
  /\ used[a] < granted[a]
  /\ used' = [used EXCEPT ![a] = @ + 1]
  /\ UNCHANGED granted

Next == \E a \in Actions : Grant(a) \/ Use(a)

Spec == Init /\ [][Next]_<<granted, used>>
=============================================================================
