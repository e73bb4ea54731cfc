----------------------------- MODULE MCNotifier -----------------------------
(* Notifier with the two replicas of charts/claimpipe/values.yaml, or one. *)
EXTENDS Notifier, TLC

Persisting == {"CLAIM_PERSISTED"}
Outcomes   == {"CLAIM_PERSISTED", "CLAIM_FAILED"}

SymmetricReplicas == Permutations(Replicas)
=============================================================================
