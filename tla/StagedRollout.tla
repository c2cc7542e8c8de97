--------------------------- MODULE StagedRollout ---------------------------
(***************************************************************************)
(* What a staged migration promises: tenants are migrated stage by stage.  *)
(* A tenant is touched only after every tenant of the stages before its    *)
(* own has been migrated, and a migrated tenant stays migrated.  A rollout  *)
(* may be withdrawn, and then no tenant of it is touched any more.         *)
(***************************************************************************)
EXTENDS Naturals

CONSTANTS Tenants, Stage   \* Stage: the stage of each tenant

VARIABLES touched,  \* tenants whose migration was begun
          migrated,
          open      \* the rollout was not withdrawn

vars == <<touched, migrated, open>>

Before(t) == {u \in Tenants : Stage[u] < Stage[t]}

Init == touched = {} /\ migrated = {} /\ open = TRUE

Touch(t) ==
  /\ open
  /\ Before(t) \subseteq migrated
  /\ touched' = touched \cup {t}
  /\ UNCHANGED <<migrated, open>>

Migrate(t) ==
  /\ t \in touched
  /\ migrated' = migrated \cup {t}
  /\ UNCHANGED <<touched, open>>

Withdraw == touched' = {} /\ migrated' = {} /\ open' = FALSE

Next == Withdraw \/ \E t \in Tenants : Touch(t) \/ Migrate(t)

Spec == Init /\ [][Next]_vars
=============================================================================
