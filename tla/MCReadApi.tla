------------------------------ MODULE MCReadApi ------------------------------
(* ReadApi with a submitter and a reviewer of one tenant. *)
EXTENDS ReadApi

Decides(t, d) == [Plain(t) EXCEPT !.decision = d]

WholeLife ==
  {Plain(t) : t \in {"CLAIM_RECEIVED", "OCR_STARTED", "OCR_COMPLETED", "LLM_STARTED",
                     "PREDICTIONS_READY", "CLAIM_PERSISTED", "CLAIM_FAILED"}}
    \cup {[Plain("PREDICTIONS_READY") EXCEPT !.escalated = TRUE]}
    \cup {Decides("CLAIM_ADJUDICATED", d) : d \in {"PEND", "DENY"}}
    \cup {Decides("REVIEW_COMPLETED", "APPROVE")}

Acme     == [customer_id |-> "acme-carrier", tenant_id |-> "default", roles |-> {"submit"}]
Adjuster == [customer_id |-> "payer-adjusters", tenant_id |-> "default", roles |-> {"review"}]

SubmitterAndReviewer == [u \in Callers |-> IF u = "acme" THEN Acme ELSE Adjuster]
AcmeSubmits == [c \in Claims |-> "acme"]
=============================================================================
