---------------------------- MODULE MCStoreTwins ----------------------------
(* StoreTwins on two claims, an idempotency key, and two connections; or on one claim that *)
(* gets as far as its predictions. *)
EXTENDS StoreTwins

\* The creation, a status change and one that is legal from the start or not at all.
Lifecycle == {Plain("CLAIM_RECEIVED"), Plain("OCR_STARTED"), Plain("CLAIM_PERSISTED")}

\* The way to predictions that are made twice, escalated or not.
Predicting ==
  {Plain(t) : t \in {"CLAIM_RECEIVED", "OCR_STARTED", "OCR_COMPLETED", "LLM_STARTED",
                     "PREDICTIONS_READY"}}
    \cup {[Plain("PREDICTIONS_READY") EXCEPT !.escalated = TRUE]}
=============================================================================
