----------------------------- MODULE Projection -----------------------------
(***************************************************************************)
(* The claim read model as a fold of its domain events                     *)
(* (src/claimpipe/projection.py, domain/events.py, domain/models.py).      *)
(*                                                                         *)
(* A claim is the row of the `claims' table reduced to what the pipeline   *)
(* decides on: its status, its decision and whether it has an ocr_ref.  A  *)
(* claim id without a row is NoClaim.  A domain event is its type and the  *)
(* part of its payload that the projection or a later activity reads.      *)
(***************************************************************************)
EXTENDS Naturals, Sequences

ClaimStatus == {"RECEIVED", "OCR_RUNNING", "OCR_DONE", "LLM_RUNNING",
                "LLM_DONE", "PARTIAL_SUCCESS", "ADJUDICATED", "PERSISTED",
                "NOTIFIED", "NOTIFY_FAILED", "FAILED"}

EventType == {"CLAIM_RECEIVED", "METADATA_LOGGED", "OCR_STARTED",
              "OCR_COMPLETED", "LLM_STARTED", "PREDICTIONS_READY",
              "CLAIM_ADJUDICATED", "REVIEW_COMPLETED", "CLAIM_PERSISTED",
              "CLAIM_NOTIFIED", "NOTIFY_FAILED", "CLAIM_FAILED"}

\* "NONE" is the Python None: no decision on the claim, or none in the payload.
Decision == {"NONE", "APPROVE", "DENY", "PEND"}

Event == [type : EventType, decision : Decision, escalated : BOOLEAN]

Plain(t) == [type |-> t, decision |-> "NONE", escalated |-> FALSE]

Claim   == [status : ClaimStatus \cup {"ABSENT"}, decision : Decision, ocr : BOOLEAN]
NoClaim == [status |-> "ABSENT", decision |-> "NONE", ocr |-> FALSE]

\* The legal status changes, as pairs <<from, to>>.
Allowed ==
       {"RECEIVED"} \X {"OCR_RUNNING", "ADJUDICATED", "PERSISTED", "FAILED"}
  \cup {"OCR_RUNNING"} \X {"OCR_DONE", "FAILED"}
  \cup {"OCR_DONE"} \X {"LLM_RUNNING", "ADJUDICATED", "PERSISTED", "FAILED"}
  \cup {"LLM_RUNNING"} \X {"LLM_DONE", "PARTIAL_SUCCESS", "FAILED"}
  \cup {"LLM_DONE", "PARTIAL_SUCCESS"} \X {"ADJUDICATED", "PERSISTED", "FAILED"}
  \cup {"ADJUDICATED"} \X {"PERSISTED", "FAILED"}
  \cup {"PERSISTED"} \X {"NOTIFIED", "NOTIFY_FAILED"}
  \cup {"NOTIFY_FAILED"} \X {"NOTIFIED"}

\* The status an event of type t moves the claim to; "ABSENT" when it moves none.
EventStatus(t) ==
  CASE t = "OCR_STARTED"       -> "OCR_RUNNING"
    [] t = "OCR_COMPLETED"     -> "OCR_DONE"
    [] t = "LLM_STARTED"       -> "LLM_RUNNING"
    [] t = "PREDICTIONS_READY" -> "LLM_DONE"
    [] t = "CLAIM_ADJUDICATED" -> "ADJUDICATED"
    [] t = "CLAIM_PERSISTED"   -> "PERSISTED"
    [] t = "CLAIM_NOTIFIED"    -> "NOTIFIED"
    [] t = "CLAIM_FAILED"      -> "FAILED"
    [] t = "NOTIFY_FAILED"     -> "NOTIFY_FAILED"
    [] OTHER                   -> "ABSENT"

\* Mutant of Legal: ALLOWED is not consulted.
LegalUnchecked(claim, e) ==
  IF e.type = "CLAIM_RECEIVED" THEN claim.status = "ABSENT" ELSE claim.status # "ABSENT"

\* Mutant of Legal: the event of a retried activity is refused once it is recorded.
LegalOnlyOnce(claim, e) ==
  IF e.type = "CLAIM_RECEIVED"
  THEN claim.status = "ABSENT"
  ELSE /\ claim.status # "ABSENT"
       /\ EventStatus(e.type) = "ABSENT"
            \/ <<claim.status, EventStatus(e.type)>> \in Allowed

\* FALSE where project raises IllegalTransition.
Legal(claim, e) ==
  IF e.type = "CLAIM_RECEIVED"
  THEN claim.status = "ABSENT"
  ELSE /\ claim.status # "ABSENT"
       /\ EventStatus(e.type) \in {"ABSENT", claim.status}
            \/ <<claim.status, EventStatus(e.type)>> \in Allowed

\* The events whose payload carries the claim's decision.
DecisionEvents == {"CLAIM_ADJUDICATED", "REVIEW_COMPLETED"}

\* The projection of a legal event.
Project(claim, e) ==
  IF e.type = "CLAIM_RECEIVED"
  THEN [status |-> "RECEIVED", decision |-> "NONE", ocr |-> FALSE]
  ELSE [status   |-> IF EventStatus(e.type) = "ABSENT"
                     THEN claim.status ELSE EventStatus(e.type),
        decision |-> IF e.type \in DecisionEvents THEN e.decision ELSE claim.decision,
        ocr      |-> claim.ocr \/ e.type = "OCR_COMPLETED"]

Tiers == {"cost", "accuracy"}

\* The model_outputs rows an event carries: an escalated run has both tiers.
TiersOf(e) == IF e.type # "PREDICTIONS_READY" THEN {}
              ELSE IF e.escalated THEN Tiers ELSE {"cost"}

\* The read model after a whole history: what a rebuild from claim_events gives.
Fold(log) ==
  LET row[n \in 0..Len(log)] ==
        IF n = 0 THEN NoClaim ELSE Project(row[n - 1], log[n])
  IN  row[Len(log)]

\* A topological order of Allowed: a status change never lowers it.
Rank(s) ==
  CASE s = "ABSENT" -> 0           [] s = "RECEIVED" -> 1
    [] s = "OCR_RUNNING" -> 2      [] s = "OCR_DONE" -> 3
    [] s = "LLM_RUNNING" -> 4      [] s = "LLM_DONE" -> 5
    [] s = "PARTIAL_SUCCESS" -> 6  [] s = "ADJUDICATED" -> 7
    [] s = "PERSISTED" -> 8        [] s = "NOTIFY_FAILED" -> 9
    [] OTHER -> 10
=============================================================================
