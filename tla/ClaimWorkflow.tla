---------------------------- MODULE ClaimWorkflow ----------------------------
(***************************************************************************)
(* One claim's Temporal workflow: the pipeline engine                      *)
(* (temporal/workflows.py), the activity attempts that append its events   *)
(* (temporal/activities.py), the two signals and their senders             *)
(* (api/app.py, portal.html) and the notifier's effect on the claim.       *)
(*                                                                         *)
(* The workflow is durable and deterministic, so worker crashes show only  *)
(* as attempts that fail.  An activity is named by the event it appends.   *)
(* Temporal retries an attempt whose answer it has not seen: the append    *)
(* may have committed, or may still come (a late attempt).  The event      *)
(* store's append is the atomic step of module EventStore.                 *)
(***************************************************************************)
EXTENDS Projection, ClaimTypes, FiniteSetsExt

CONSTANTS Pipelines,    \* the stage lists a claim may be submitted with
          Rulings,      \* what adjudicate may answer: escalated |-> decision
          Reviewers,    \* requests to POST /claims/{id}/review
          MaxAttempts,  \* RetryPolicy.maximum_attempts
          MaxFailures,  \* bound: attempts the environment makes fail
          MaxLate,      \* bound: abandoned attempts still running at a time
          MaxRulings,   \* bound: changes of the reference data under a claim
          EagerSignal   \* may /uploaded be called before the PUT has succeeded?

ASSUME WorkflowAssumption ==
  /\ \A p \in Pipelines : p \in Seq(Stage) /\ ValidPipeline(p)
  /\ Rulings \subseteq [BOOLEAN -> Decision \ {"NONE"}]
  /\ MaxAttempts \in Nat \ {0}
  /\ MaxFailures \in Nat /\ MaxLate \in Nat /\ MaxRulings \in Nat
  /\ EagerSignal \in BOOLEAN

VARIABLES
  pipeline,  \* the stages pinned into the workflow input
  pos,       \* the stage being run; 0 is the METADATA_LOGGED emit before the loop
  pc,        \* what the run coroutine awaits
  act,       \* the activity it awaits: its event, attempt number and progress
  decision,  \* self._decision
  live,      \* self._status, answered by the status query
  uploaded,  \* self._uploaded (with it _pdf_key)
  review,    \* self._review's decision
  late,      \* attempts Temporal has given up on that may still append
  log,       \* the claim's events
  claim,     \* the claim's row
  objects,   \* documents in the object store
  ruling,    \* the rule set on the claim's facts as they are now
  reviewer,  \* where each review request stands
  failures,  \* attempts failed by the environment so far
  rulings    \* changes of ruling so far

engine  == <<pipeline, pos, pc, act, decision, live>>
signals == <<uploaded, review>>
store   == <<log, claim>>
env     == <<objects, ruling, reviewer, failures, rulings>>
vars    == <<engine, signals, late, store, env>>

Document  == {"source.pdf", "ocr.txt"}
Open      == pc \notin {"completed", "failed"}
Running   == pc = "activity"

ActivityType == EventType \ {"CLAIM_RECEIVED", "CLAIM_NOTIFIED", "NOTIFY_FAILED"}

TypeOK ==
  /\ pipeline \in Pipelines
  /\ pos \in 0..(Len(pipeline) + 1)
  /\ pc \in {"next", "upload", "review", "activity", "completed", "failed"}
  /\ act \in [event : Event, attempt : 1..MaxAttempts,
              state : {"scheduled", "computed", "appended"}]
  /\ act.event.type \in ActivityType
  /\ decision \in Decision
  /\ live \in ClaimStatus
  /\ uploaded \in BOOLEAN
  /\ review \in {"NONE", "APPROVE", "DENY"}
  /\ late \subseteq [event : Event, attempt : 1..MaxAttempts]
  /\ log \in Seq(Event)
  /\ claim \in Claim
  /\ objects \subseteq Document
  /\ ruling \in Rulings
  /\ reviewer \in [Reviewers -> {"idle", "checked", "acked", "refused"}]
  /\ failures \in 0..MaxFailures
  /\ rulings \in 0..MaxRulings

-----------------------------------------------------------------------------
(* The run coroutine *)

Scheduled(e) == [event |-> e, attempt |-> 1, state |-> "scheduled"]

\* await execute_activity_method
Schedule(e) == act' = Scheduled(e) /\ pc' = "activity"

NextStage == pos' = pos + 1 /\ pc' = "next"

At(s) == pc = "next" /\ pos <= Len(pipeline) /\ pipeline[pos] = s

\* The API has appended CLAIM_RECEIVED and started the workflow; run emits first.
Init ==
  /\ pipeline \in Pipelines
  /\ pos = 0 /\ pc = "activity" /\ act = Scheduled(Plain("METADATA_LOGGED"))
  /\ decision = "NONE" /\ live = "RECEIVED"
  /\ uploaded = FALSE /\ review = "NONE"
  /\ late = {}
  /\ log = <<Plain("CLAIM_RECEIVED")>>
  /\ claim = Project(NoClaim, Plain("CLAIM_RECEIVED"))
  /\ objects = {}
  /\ ruling \in Rulings
  /\ reviewer = [r \in Reviewers |-> "idle"]
  /\ failures = 0 /\ rulings = 0

\* Mutant of BeginStage: the status query answers with the stage before it is recorded.
BeginStageEager ==
  /\ \/ At("OCR") /\ uploaded /\ Schedule(Plain("OCR_STARTED"))
     \/ At("LLM") /\ Schedule(Plain("LLM_STARTED"))
     \/ At("ADJUDICATE") /\ Schedule(Plain("CLAIM_ADJUDICATED"))
     \/ At("PERSIST") /\ Schedule(Plain("CLAIM_PERSISTED"))
  /\ live' = EventStatus(act'.event.type)
  /\ UNCHANGED <<pipeline, pos, decision, signals, late, store, env>>

\* Stages that start with an emit or an activity. OCR asserts that a key was signalled.
BeginStage ==
  /\ \/ At("OCR") /\ uploaded /\ Schedule(Plain("OCR_STARTED"))
     \/ At("LLM") /\ Schedule(Plain("LLM_STARTED"))
     \/ At("ADJUDICATE") /\ Schedule(Plain("CLAIM_ADJUDICATED"))
     \/ At("PERSIST") /\ Schedule(Plain("CLAIM_PERSISTED"))
  /\ UNCHANGED <<pipeline, pos, decision, live, signals, late, store, env>>

\* The dormancy gates. REVIEW lets everything but a PEND through.
EnterGate ==
  /\ \/ At("UPLOAD") /\ pc' = "upload" /\ UNCHANGED pos
     \/ At("REVIEW") /\ decision = "PEND" /\ pc' = "review" /\ UNCHANGED pos
     \/ At("REVIEW") /\ decision # "PEND" /\ NextStage
  /\ UNCHANGED <<pipeline, act, decision, live, signals, late, store, env>>

UploadArrives ==
  /\ pc = "upload" /\ uploaded /\ NextStage
  /\ UNCHANGED <<pipeline, act, decision, live, signals, late, store, env>>

\* Mutant of UploadTimeout: the run returns without recording CLAIM_FAILED.
UploadTimeoutSilent ==
  /\ pc = "upload" /\ ~uploaded /\ pc' = "completed"
  /\ UNCHANGED <<pipeline, pos, act, decision, live, signals, late, store, env>>

\* Seven days without a signal
UploadTimeout ==
  /\ pc = "upload" /\ ~uploaded /\ Schedule(Plain("CLAIM_FAILED"))
  /\ UNCHANGED <<pipeline, pos, decision, live, signals, late, store, env>>

ReviewArrives ==
  /\ pc = "review" /\ review # "NONE"
  /\ Schedule([Plain("REVIEW_COMPLETED") EXCEPT !.decision = review])
  /\ UNCHANGED <<pipeline, pos, decision, live, signals, late, store, env>>

\* Mutant of ReviewTimeout: the review gate has no timeout.
ReviewTimeoutNever == FALSE

\* Thirty days without a verdict: go on with the PEND
ReviewTimeout ==
  /\ pc = "review" /\ review = "NONE" /\ NextStage
  /\ UNCHANGED <<pipeline, act, decision, live, signals, late, store, env>>

Finish ==
  /\ pc = "next" /\ pos = Len(pipeline) + 1 /\ pc' = "completed"
  /\ UNCHANGED <<pipeline, pos, act, decision, live, signals, late, store, env>>

\* Mutant of DecisionAfter: the result of the adjudication is not kept.
DecisionAfterUnset(e) == IF e.type = "REVIEW_COMPLETED" THEN review ELSE decision

\* self._decision once the event e is recorded: a verdict is read again from the signal.
DecisionAfter(e) == CASE e.type = "CLAIM_ADJUDICATED" -> e.decision
                      [] e.type = "REVIEW_COMPLETED"  -> review
                      [] OTHER                        -> decision

\* The attempt's answer reaches the workflow, which runs on to its next await.
Resume ==
  /\ Running /\ act.state = "appended"
  /\ LET t == act.event.type IN
       /\ live' = IF EventStatus(t) = "ABSENT" THEN live ELSE EventStatus(t)
       /\ decision' = DecisionAfter(act.event)
       /\ CASE t = "OCR_STARTED"  -> Schedule(Plain("OCR_COMPLETED")) /\ UNCHANGED pos
            [] t = "LLM_STARTED"  -> Schedule(Plain("PREDICTIONS_READY")) /\ UNCHANGED pos
            [] t = "CLAIM_FAILED" -> pc' = "completed" /\ UNCHANGED <<pos, act>>
            [] OTHER              -> NextStage /\ UNCHANGED act
  /\ UNCHANGED <<pipeline, signals, late, store, env>>

-----------------------------------------------------------------------------
(* Activity attempts *)

\* i is the last event of type t
IsLast(i, t) == /\ log[i].type = t
                /\ \A j \in DOMAIN log : j > i => log[j].type # t

\* run_adjudication takes the flag of the last PREDICTIONS_READY
Escalated == \E i \in DOMAIN log : IsLast(i, "PREDICTIONS_READY") /\ log[i].escalated

\* The document an activity reads before it appends.
Needs == CASE act.event.type = "OCR_COMPLETED"     -> {"source.pdf"}
           [] act.event.type = "PREDICTIONS_READY" -> {"ocr.txt"}
           [] OTHER                                -> {}

\* Mutant of Produces: the extracted text is not put into the object store.
ProducesNothing == {}

\* The document it stores.
Produces == IF act.event.type = "OCR_COMPLETED" THEN {"ocr.txt"} ELSE {}

\* The attempt up to its append: run_ocr stores the text, run_llm routes, run_adjudication
\* reads the claim's history and decides.
Compute ==
  /\ Running /\ act.state = "scheduled" /\ Needs \subseteq objects
  /\ \E esc \in IF act.event.type = "PREDICTIONS_READY" THEN BOOLEAN ELSE {FALSE} :
       act' = [act EXCEPT !.state = "computed",
                          !.event.escalated = esc,
                          !.event.decision = IF act.event.type = "CLAIM_ADJUDICATED"
                                             THEN ruling[Escalated] ELSE @]
  /\ objects' = objects \cup Produces
  /\ UNCHANGED <<pipeline, pos, pc, decision, live, signals, late, store,
                 ruling, reviewer, failures, rulings>>

\* EventStore's append of a legal event
Store(e) == log' = Append(log, e) /\ claim' = Project(claim, e)

\* Mutant of AppendEvent: every attempt to record a verdict asks for it again.
AppendEventAsking ==
  /\ Running /\ act.state = "computed" /\ Legal(claim, act.event)
  /\ Store(IF act.event.type = "REVIEW_COMPLETED"
           THEN [act.event EXCEPT !.decision = review] ELSE act.event)
  /\ act' = [act EXCEPT !.state = "appended"]
  /\ UNCHANGED <<pipeline, pos, pc, decision, live, signals, late, env>>

AppendEvent ==
  /\ Running /\ act.state = "computed" /\ Legal(claim, act.event)
  /\ Store(act.event)
  /\ act' = [act EXCEPT !.state = "appended"]
  /\ UNCHANGED <<pipeline, pos, pc, decision, live, signals, late, env>>

\* Mutants of AttemptsLeft: one attempt too few, one too many.
AttemptsLeftFewer == act.attempt < MaxAttempts - 1
AttemptsLeftMore == act.attempt <= MaxAttempts

AttemptsLeft == act.attempt < MaxAttempts

\* Mutant of Retry: when the attempts are used up the run goes on with the next stage.
RetrySkips ==
  /\ IF AttemptsLeft
     THEN act' = [act EXCEPT !.attempt = @ + 1, !.state = "scheduled"] /\ UNCHANGED <<pos, pc>>
     ELSE NextStage /\ UNCHANGED act
  /\ UNCHANGED <<pipeline, decision, live>>

\* Another attempt, or ActivityError out of run once they are used up.
Retry ==
  /\ IF AttemptsLeft
     THEN act' = [act EXCEPT !.attempt = @ + 1, !.state = "scheduled"] /\ UNCHANGED pc
     ELSE pc' = "failed" /\ UNCHANGED act
  /\ UNCHANGED <<pipeline, pos, decision, live>>

\* The attempt raises: its document is not there, or project raises IllegalTransition.
AttemptRaises ==
  /\ Running
  /\ \/ act.state = "scheduled" /\ ~(Needs \subseteq objects)
     \/ act.state = "computed" /\ ~Legal(claim, act.event)
  /\ Retry
  /\ UNCHANGED <<signals, late, store, env>>

\* The worker dies, a dependency is down, or the answer is lost after the commit.
AttemptFails ==
  /\ Running /\ failures < MaxFailures
  /\ failures' = failures + 1
  /\ Retry
  /\ UNCHANGED <<signals, late, store, objects, ruling, reviewer, rulings>>

\* start_to_close runs out while the attempt is about to append.
AttemptTimesOut ==
  /\ Running /\ act.state = "computed" /\ failures < MaxFailures
  /\ Cardinality(late) < MaxLate
  /\ late' = late \cup {[event |-> act.event, attempt |-> act.attempt]}
  /\ failures' = failures + 1
  /\ Retry
  /\ UNCHANGED <<signals, store, objects, ruling, reviewer, rulings>>

LateAppend(z) ==
  /\ IF Legal(claim, z.event) THEN Store(z.event) ELSE UNCHANGED store
  /\ late' = late \ {z}
  /\ UNCHANGED <<engine, signals, env>>

-----------------------------------------------------------------------------
(* Signals and the outside world *)

ClientPuts ==
  /\ objects' = objects \cup {"source.pdf"}
  /\ UNCHANGED <<engine, signals, late, store, ruling, reviewer, failures, rulings>>

\* POST /claims/{id}/uploaded; the portal's client calls it after its PUT, the API does not look
MarkUploaded ==
  /\ Open /\ (EagerSignal \/ "source.pdf" \in objects)
  /\ uploaded' = TRUE
  /\ UNCHANGED <<engine, review, late, store, env>>

\* POST /claims/{id}/review reads the row ...
ReviewerChecks(r) ==
  /\ reviewer[r] = "idle"
  /\ reviewer' = [reviewer EXCEPT ![r] =
                    IF claim.decision = "PEND" THEN "checked" ELSE "refused"]
  /\ UNCHANGED <<engine, signals, late, store, objects, ruling, failures, rulings>>

\* ... and signals the workflow, which takes it as long as it is open.
ReviewerSignals(r) ==
  /\ reviewer[r] = "checked"
  /\ IF Open THEN /\ review' \in {"APPROVE", "DENY"}
                  /\ reviewer' = [reviewer EXCEPT ![r] = "acked"]
             ELSE /\ reviewer' = [reviewer EXCEPT ![r] = "refused"]
                  /\ UNCHANGED review
  /\ UNCHANGED <<engine, uploaded, late, store, objects, ruling, failures, rulings>>

\* The notifier's append; its duplicates are left to the delivery path.
NotifierAppends(t) ==
  /\ EventStatus(t) # claim.status /\ Legal(claim, Plain(t))
  /\ Store(Plain(t))
  /\ UNCHANGED <<engine, signals, late, env>>

\* Reference data or the tenant's rule sets change under the claim.
RulingChanges ==
  /\ rulings < MaxRulings
  /\ rulings' = rulings + 1
  /\ ruling' \in Rulings
  /\ UNCHANGED <<engine, signals, late, store, objects, reviewer, failures>>

Engine  == \/ BeginStage \/ EnterGate \/ UploadArrives \/ UploadTimeout
           \/ ReviewArrives \/ ReviewTimeout \/ Finish \/ Resume
Attempt == Compute \/ AppendEvent \/ AttemptRaises

Next == \/ Engine \/ Attempt
        \/ AttemptFails \/ AttemptTimesOut \/ \E z \in late : LateAppend(z)
        \/ ClientPuts \/ MarkUploaded \/ RulingChanges
        \/ \E r \in Reviewers : ReviewerChecks(r) \/ ReviewerSignals(r)
        \/ \E t \in {"CLAIM_NOTIFIED", "NOTIFY_FAILED"} : NotifierAppends(t)

Spec == Init /\ [][Next]_vars

\* Temporal runs the workflow, fires its timers and dispatches its activities.  Nobody
\* has to upload, review or notify.
FairSpec == Spec /\ WF_vars(Engine) /\ WF_vars(Attempt)

-----------------------------------------------------------------------------
Recorded(t) == \E i \in DOMAIN log : log[i].type = t

\* OCR after ADJUDICATE is the one order validate_pipeline lets through and ALLOWED does not.
Runnable(p) == ValidPipeline(p) /\ Precedes(p, "OCR", "ADJUDICATE")

Notified == claim.status \in {"NOTIFIED", "NOTIFY_FAILED"}

\* The engine never asks for an event the projection rejects: whatever was retried,
\* committed twice or came late, the event about to be appended is legal - unless the
\* claim has already been notified about ("validated transitions", projection.py:1-5).
EngineRespectsProjection ==
  Running /\ act.state = "computed" => Legal(claim, act.event) \/ Notified

\* The status query never runs ahead of the durable projection.
LiveStatusNotAhead == Rank(live) <= Rank(claim.status)

\* What a stage reads was written by the stages before it: OCR runs on an uploaded
\* document, LLM on a stored text and on a row that has its ocr_ref.
InputsPresent ==
  /\ Running /\ act.event.type \in {"OCR_STARTED", "OCR_COMPLETED"} =>
       uploaded /\ (EagerSignal \/ "source.pdf" \in objects)
  /\ Running /\ act.event.type \in {"LLM_STARTED", "PREDICTIONS_READY"} =>
       claim.ocr /\ "ocr.txt" \in objects

\* The event that ends a stage; the two gates end without one.
StageEvent(s) == CASE s = "OCR" -> "OCR_COMPLETED" [] s = "LLM" -> "PREDICTIONS_READY"
                   [] s = "ADJUDICATE" -> "CLAIM_ADJUDICATED"
                   [] s = "PERSIST" -> "CLAIM_PERSISTED" [] OTHER -> "METADATA_LOGGED"

\* A claim only reaches PERSISTED with the outcome of every stage of its pipeline on
\* record, each first recorded in pipeline order: retries and late attempts add
\* duplicates, never a hole.
PersistedIsComplete ==
  Recorded("CLAIM_PERSISTED") =>
    LET First(t)  == Min({i \in DOMAIN log : log[i].type = t})
        recording == {i \in DOMAIN pipeline : pipeline[i] \notin {"UPLOAD", "REVIEW"}}
    IN  /\ \A i \in recording : Recorded(StageEvent(pipeline[i]))
        /\ \A i, j \in recording : i < j =>
             First(StageEvent(pipeline[i])) < First(StageEvent(pipeline[j]))

\* Failures that leave an attempt to spare are masked: the workflow fails only when the
\* claim was persisted and the customer is already being told.
FailuresMasked == pc = "failed" => Notified

\* A completed workflow, its status query and the row agree on how the claim ended.
CompletionAgrees ==
  pc = "completed" => /\ claim.status = live \/ Notified
                      /\ live \in {"PERSISTED", "FAILED"}

\* An abandoned attempt of run_adjudication commits to a claim that is not persisted yet.
LateAdjudication ==
  /\ ~Recorded("CLAIM_PERSISTED")
  /\ \E z \in late : z.event.type = "CLAIM_ADJUDICATED" /\ late' = late \ {z}

\* A verdict is recorded, and every verdict recorded before it was the same.
SameVerdict ==
  /\ log'[Len(log')].type = "REVIEW_COMPLETED"
  /\ \A i \in DOMAIN log' : log'[i].type = "REVIEW_COMPLETED" =>
       log'[i].decision = claim'.decision

\* Once the rules have answered the workflow, the row's decision changes only by the one
\* verdict a human gave, or by an abandoned adjudication before the claim is persisted: no
\* retry, second reviewer, lapsed gate, later stage or notification touches it.
DecisionSettled ==
  [][decision # "NONE" /\ claim'.decision # claim.decision
       => SameVerdict \/ LateAdjudication]_vars

\* Once a verdict is recorded the row shows the last recorded one ("overrides the PEND").
VerdictSticks ==
  \A i \in DOMAIN log :
    IsLast(i, "REVIEW_COMPLETED") => claim.decision = log[i].decision

\* The workflow's copy of the decision is the row's whenever the REVIEW gate looks at it.
GateSeesDecision == At("REVIEW") \/ pc = "review" => decision = claim.decision

\* Every claim's workflow ends although nobody uploads, reviews or repairs anything: the
\* timers bound the gates and the attempts bound the activities.
WorkflowEnds == <>~Open

\* A verdict the API accepted is on record when the workflow has completed (README:111-116).
AckedVerdictRecorded ==
  pc = "completed" /\ (\E r \in Reviewers : reviewer[r] = "acked")
    => Recorded("REVIEW_COMPLETED")

\* A claim whose review window lapsed is persisted with its PEND: "the system never decides
\* on the human's behalf" (README:123-124).
LapsedReviewStaysPend == pc = "completed" /\ decision = "PEND" => claim.decision = "PEND"

\* Running out of attempts leaves the claim FAILED (docs/DESIGN.md:287).
ExhaustionFailsClaim == pc = "failed" => claim.status = "FAILED"

\* Retries are safe (docs/DESIGN.md:262): with an attempt to spare, no workflow fails.
RetriesAreSafe == pc # "failed"

\* The projection accepts every event of every pipeline that registration accepts
\* (tests/test_claimtypes.py:3-5).
AcceptedPipelinesRun == Running /\ act.state = "computed" => Legal(claim, act.event)
=============================================================================
