------------------------- MODULE ClaimWorkflowProofs -------------------------
(***************************************************************************)
(* Proofs about ClaimWorkflow, for every set of valid pipelines, every     *)
(* rule set and every bound on attempts, failures and late attempts.       *)
(*                                                                         *)
(* Position says where the coroutine may be while it awaits what it        *)
(* awaits; with it TypeOK is inductive.                                    *)
(***************************************************************************)
EXTENDS ClaimWorkflow, FiniteSetTheorems, SequenceTheorems, WellFoundedInduction, TLAPS

On(s) == pos \in 1..Len(pipeline) /\ pipeline[pos] = s

\* The stage that awaits the activity appending t
StageOf(t) == CASE t \in {"OCR_STARTED", "OCR_COMPLETED"}     -> "OCR"
                [] t \in {"LLM_STARTED", "PREDICTIONS_READY"} -> "LLM"
                [] t = "CLAIM_ADJUDICATED"                    -> "ADJUDICATE"
                [] t = "REVIEW_COMPLETED"                     -> "REVIEW"
                [] t = "CLAIM_PERSISTED"                      -> "PERSIST"
                [] OTHER                                      -> "UPLOAD"

Position ==
  /\ pc = "next" => pos # 0
  /\ pc = "upload" => On("UPLOAD")
  /\ pc = "review" => On("REVIEW")
  /\ pc = "activity" => IF act.event.type = "METADATA_LOGGED" THEN pos = 0
                        ELSE On(StageOf(act.event.type))

\* Every append keeps the history and the row well-typed.
LEMMA StoreType ==
  ASSUME TypeOK, NEW e \in Event, Store(e), Legal(claim, e)
  PROVE  log' \in Seq(Event) /\ claim' \in Claim
<1>1. log' \in Seq(Event)
  BY AppendProperties DEF Store, TypeOK
<1>2. EventStatus(e.type) \in ClaimStatus \cup {"ABSENT"}
  BY DEF EventStatus, ClaimStatus
<1>3. claim' \in Claim
  BY <1>2 DEF DecisionEvents, Store, Project, Claim, ClaimStatus, Event, Decision, TypeOK
<1> QED BY <1>1, <1>3

LEMMA PlainType ==
  ASSUME NEW t \in EventType
  PROVE  Plain(t) \in Event /\ Plain(t).type = t
BY DEF Plain, Event, Decision

\* A fresh activity is well-typed.
LEMMA ScheduledType ==
  ASSUME NEW e \in Event, Schedule(e), e.type \in ActivityType
  PROVE  /\ act' \in [event : Event, attempt : 1..MaxAttempts,
                      state : {"scheduled", "computed", "appended"}]
         /\ act'.event = e
         /\ pc' = "activity"
BY WorkflowAssumption DEF Schedule, Scheduled

LEMMA InitType == Init => TypeOK /\ Position
<1> SUFFICES ASSUME Init PROVE TypeOK /\ Position
  OBVIOUS
<1>1. /\ Plain("CLAIM_RECEIVED") \in Event
      /\ Plain("METADATA_LOGGED") \in Event /\ Plain("METADATA_LOGGED").type = "METADATA_LOGGED"
  BY PlainType DEF EventType
<1>2. claim \in Claim
  BY DEF Init, Project, NoClaim, Plain, Claim, ClaimStatus, Decision
<1>3. /\ act \in [event : Event, attempt : 1..MaxAttempts,
                  state : {"scheduled", "computed", "appended"}]
      /\ act.event.type = "METADATA_LOGGED"
  BY <1>1, WorkflowAssumption DEF Init, Scheduled
<1>4. Len(pipeline) \in Nat
  BY WorkflowAssumption, LenProperties DEF Init
<1>5. log \in Seq(Event)
  BY <1>1 DEF Init
<1>6. /\ reviewer \in [Reviewers -> {"idle", "checked", "acked", "refused"}]
      /\ failures \in 0..MaxFailures /\ rulings \in 0..MaxRulings
      /\ pos \in 0..(Len(pipeline) + 1)
  BY <1>4, WorkflowAssumption DEF Init
<1>7. TypeOK
  BY <1>2, <1>3, <1>5, <1>6
     DEF Init, TypeOK, ActivityType, EventType, Decision, ClaimStatus, Document
<1>8. Position
  BY <1>1 DEF Init, Position, Scheduled
<1> QED BY <1>7, <1>8

\* The run coroutine moves within its pipeline.
LEMMA EngineType ==
  ASSUME TypeOK, Position, Engine
  PROVE  TypeOK' /\ Position'
<1> USE DEF engine, signals, store, env, On
<1>0. Len(pipeline) \in Nat /\ pos \in 0..(Len(pipeline) + 1)
  BY WorkflowAssumption, LenProperties DEF TypeOK
<1>1. CASE BeginStage
  <2>1. PICK t \in {"OCR_STARTED", "LLM_STARTED", "CLAIM_ADJUDICATED", "CLAIM_PERSISTED"} :
          At(StageOf(t)) /\ Schedule(Plain(t))
    BY <1>1 DEF BeginStage, StageOf
  <2>2. Plain(t) \in Event /\ Plain(t).type = t /\ t \in ActivityType
    BY PlainType DEF EventType, ActivityType
  <2>3. On(StageOf(t))
    BY <2>1, <1>0, <1>1 DEF At, Position
  <2>4. /\ act' \in [event : Event, attempt : 1..MaxAttempts,
                     state : {"scheduled", "computed", "appended"}]
        /\ act'.event = Plain(t) /\ pc' = "activity"
    BY <2>1, <2>2, ScheduledType
  <2>5. UNCHANGED <<pipeline, pos, decision, live, signals, late, store, env>>
    BY <1>1 DEF BeginStage
  <2>6. TypeOK'
    BY <2>2, <2>4, <2>5 DEF TypeOK
  <2>7. Position'
    BY <2>2, <2>3, <2>4, <2>5 DEF Position
  <2> QED BY <2>6, <2>7
<1>2. CASE EnterGate
  <2>1. pos \in 1..Len(pipeline) /\ UNCHANGED <<pipeline, act, decision, live, signals, late, store, env>>
    BY <1>0, <1>2 DEF EnterGate, At, Position
  <2>2. \/ At("UPLOAD") /\ pc' = "upload" /\ pos' = pos
        \/ At("REVIEW") /\ pc' = "review" /\ pos' = pos
        \/ pos' = pos + 1 /\ pc' = "next"
    BY <1>2 DEF EnterGate, NextStage
  <2>3. TypeOK'
    BY <1>0, <2>1, <2>2 DEF TypeOK
  <2>4. Position'
    BY <1>0, <2>1, <2>2 DEF Position, At
  <2> QED BY <2>3, <2>4
<1>3. CASE UploadArrives \/ ReviewTimeout
  <2>1. /\ pos \in 1..Len(pipeline) /\ pos' = pos + 1 /\ pc' = "next"
        /\ UNCHANGED <<pipeline, act, decision, live, signals, late, store, env>>
    BY <1>3 DEF UploadArrives, ReviewTimeout, Position, NextStage
  <2>2. TypeOK'
    BY <1>0, <2>1 DEF TypeOK
  <2> QED BY <1>0, <2>1, <2>2 DEF Position
<1>4. CASE UploadTimeout \/ ReviewArrives
  <2>1. PICK e \in Event : /\ Schedule(e)
                           /\ e.type \in ActivityType \ {"METADATA_LOGGED"}
                           /\ On(StageOf(e.type))
    <3>1. CASE UploadTimeout
      BY <3>1, PlainType DEF UploadTimeout, Position, StageOf, ActivityType, EventType
    <3>2. CASE ReviewArrives
      <4>1. [Plain("REVIEW_COMPLETED") EXCEPT !.decision = review] \in Event
        BY <3>2 DEF TypeOK, Plain, Event, EventType, Decision
      <4>2. [Plain("REVIEW_COMPLETED") EXCEPT !.decision = review].type = "REVIEW_COMPLETED"
        BY DEF Plain
      <4> QED BY <3>2, <4>1, <4>2 DEF ReviewArrives, Position, StageOf, ActivityType, EventType
    <3> QED BY <1>4, <3>1, <3>2
  <2>2. UNCHANGED <<pipeline, pos, decision, live, signals, late, store, env>>
    BY <1>4 DEF UploadTimeout, ReviewArrives
  <2>3. /\ act' \in [event : Event, attempt : 1..MaxAttempts,
                     state : {"scheduled", "computed", "appended"}]
        /\ act'.event = e /\ pc' = "activity"
    BY <2>1, ScheduledType
  <2>4. TypeOK'
    BY <2>1, <2>2, <2>3 DEF TypeOK
  <2> QED BY <2>1, <2>2, <2>3, <2>4 DEF Position
<1>5. CASE Finish
  <2>1. TypeOK'
    BY <1>5 DEF Finish, TypeOK
  <2> QED BY <1>5, <2>1 DEF Finish, Position
<1>6. CASE Resume
  <2> DEFINE t == act.event.type
  <2>1. UNCHANGED <<pipeline, signals, late, store, env>> /\ pc = "activity"
    BY <1>6 DEF Resume, Running
  <2>2. live' \in ClaimStatus
    BY <1>6 DEF Resume, EventStatus, ClaimStatus, TypeOK
  <2>3. decision' \in Decision
    <3>1. act.event.decision \in Decision /\ review \in Decision /\ decision \in Decision
      BY DEF TypeOK, Event, Decision
    <3> QED BY <1>6, <3>1 DEF DecisionAfter, Resume
  <2>4. CASE t \in {"OCR_STARTED", "LLM_STARTED"}
    <3>1. PICK u \in {"OCR_COMPLETED", "PREDICTIONS_READY"} :
            Schedule(Plain(u)) /\ StageOf(u) = StageOf(t) /\ pos' = pos
      BY <1>6, <2>4 DEF Resume, StageOf
    <3>2. Plain(u) \in Event /\ Plain(u).type = u /\ u \in ActivityType
      BY PlainType DEF EventType, ActivityType
    <3>3. /\ act' \in [event : Event, attempt : 1..MaxAttempts,
                       state : {"scheduled", "computed", "appended"}]
          /\ act'.event = Plain(u) /\ pc' = "activity"
      BY <3>1, <3>2, ScheduledType
    <3>4. TypeOK'
      BY <2>1, <2>2, <2>3, <3>1, <3>2, <3>3 DEF TypeOK
    <3>5. On(StageOf(t))
      BY <2>1, <2>4 DEF Position
    <3> QED BY <2>1, <3>1, <3>2, <3>3, <3>4, <3>5 DEF Position
  <2>5. CASE t = "CLAIM_FAILED"
    <3>1. pc' = "completed" /\ UNCHANGED <<pos, act>>
      BY <1>6, <2>5 DEF Resume
    <3>2. TypeOK'
      BY <2>1, <2>2, <2>3, <3>1 DEF TypeOK
    <3> QED BY <3>1, <3>2 DEF Position
  <2>6. CASE t \notin {"OCR_STARTED", "LLM_STARTED", "CLAIM_FAILED"}
    <3>1. pos' = pos + 1 /\ pc' = "next" /\ act' = act
      BY <1>6, <2>6 DEF Resume, NextStage
    <3>2. pos \in 0..Len(pipeline)
      BY <1>0, <2>1 DEF Position
    <3>3. TypeOK'
      BY <1>0, <2>1, <2>2, <2>3, <3>1, <3>2 DEF TypeOK
    <3> QED BY <1>0, <3>1, <3>2, <3>3 DEF Position
  <2> QED BY <2>4, <2>5, <2>6
<1> QED BY <1>1, <1>2, <1>3, <1>4, <1>5, <1>6 DEF Engine

\* A retry leaves the coroutine where it was, or fails the workflow.
LEMMA RetryType ==
  ASSUME TypeOK, Position, Running, Retry
  PROVE  /\ act' \in [event : Event, attempt : 1..MaxAttempts,
                      state : {"scheduled", "computed", "appended"}]
         /\ act'.event = act.event
         /\ pc' \in {"activity", "failed"}
         /\ UNCHANGED <<pipeline, pos, decision, live>>
<1>1. CASE act.attempt < MaxAttempts
  <2>1. act.attempt + 1 \in 1..MaxAttempts
    BY <1>1, WorkflowAssumption DEF TypeOK
  <2>2. /\ act' = [event |-> act.event, attempt |-> act.attempt + 1, state |-> "scheduled"]
        /\ pc' = pc /\ UNCHANGED <<pipeline, pos, decision, live>>
    BY <1>1 DEF AttemptsLeft, Retry, TypeOK
  <2>3. act.event \in Event
    BY DEF TypeOK
  <2> QED BY <2>1, <2>2, <2>3 DEF Running
<1>2. CASE ~(act.attempt < MaxAttempts)
  BY <1>2 DEF AttemptsLeft, TypeOK, Retry
<1> QED BY <1>1, <1>2

\* What attempts, clients, reviewers and the notifier do keeps the state well-typed.
LEMMA EnvironmentType ==
  ASSUME TypeOK, Position, Next, ~Engine
  PROVE  TypeOK' /\ Position'
<1> USE DEF engine, signals, store, env
<1>0. ruling[Escalated] \in Decision
  <2>1. Escalated \in BOOLEAN
    BY DEF Escalated
  <2>2. ruling \in [BOOLEAN -> Decision]
    BY WorkflowAssumption DEF TypeOK
  <2> QED BY <2>1, <2>2
<1>1. CASE Compute
  <2>1. PICK esc \in BOOLEAN, d \in Decision :
          act' = [act EXCEPT !.state = "computed", !.event.escalated = esc, !.event.decision = d]
    <3>1. act.event.decision \in Decision
      BY DEF TypeOK, Event
    <3>2. PICK esc \in BOOLEAN :
            act' = [act EXCEPT !.state = "computed", !.event.escalated = esc,
                               !.event.decision = IF act.event.type = "CLAIM_ADJUDICATED"
                                                  THEN ruling[Escalated] ELSE @]
      BY <1>1 DEF Compute
    <3> QED BY <1>0, <3>1, <3>2 DEF TypeOK, Event
  <2>2. /\ act' \in [event : Event, attempt : 1..MaxAttempts,
                     state : {"scheduled", "computed", "appended"}]
        /\ act'.event.type = act.event.type
    BY <2>1 DEF TypeOK, Event
  <2>3. UNCHANGED <<pipeline, pos, pc, decision, live, signals, late, store,
                    ruling, reviewer, failures, rulings>>
    BY <1>1 DEF Compute
  <2>4. objects' \subseteq Document
    BY <1>1 DEF Produces, Compute, TypeOK, Document
  <2>5. TypeOK'
    BY <2>2, <2>3, <2>4 DEF TypeOK
  <2> QED BY <2>2, <2>3, <2>5 DEF Position, On
<1>2. CASE AppendEvent
  <2>1. log' \in Seq(Event) /\ claim' \in Claim
    BY <1>2, StoreType DEF AppendEvent, TypeOK
  <2>2. /\ act' \in [event : Event, attempt : 1..MaxAttempts,
                     state : {"scheduled", "computed", "appended"}]
        /\ act'.event = act.event
        /\ UNCHANGED <<pipeline, pos, pc, decision, live, signals, late, env>>
    BY <1>2 DEF AppendEvent, TypeOK
  <2>3. TypeOK'
    BY <2>1, <2>2 DEF TypeOK
  <2> QED BY <2>2, <2>3 DEF Position, On
<1>3. CASE AttemptRaises \/ AttemptFails \/ AttemptTimesOut
  <2>1. Running /\ Retry
    BY <1>3 DEF AttemptRaises, AttemptFails, AttemptTimesOut
  <2>2. UNCHANGED <<signals, store, objects, ruling, reviewer, rulings>>
    BY <1>3 DEF AttemptRaises, AttemptFails, AttemptTimesOut
  <2>3. failures' \in 0..MaxFailures
    BY <1>3, WorkflowAssumption DEF AttemptRaises, AttemptFails, AttemptTimesOut, TypeOK
  <2>4. late' \subseteq [event : Event, attempt : 1..MaxAttempts]
    BY <1>3 DEF AttemptRaises, AttemptFails, AttemptTimesOut, TypeOK
  <2>5. /\ act' \in [event : Event, attempt : 1..MaxAttempts,
                     state : {"scheduled", "computed", "appended"}]
        /\ act'.event = act.event
        /\ pc' \in {"activity", "failed"}
        /\ UNCHANGED <<pipeline, pos, decision, live>>
    BY <2>1, RetryType
  <2>6. TypeOK'
    BY <2>2, <2>3, <2>4, <2>5 DEF TypeOK
  <2> QED BY <2>1, <2>5, <2>6 DEF Position, On, Running
<1>4. CASE \E z \in late : LateAppend(z)
  <2>1. PICK z \in late : LateAppend(z)
    BY <1>4
  <2>2. z.event \in Event
    BY DEF TypeOK
  <2>3. log' \in Seq(Event) /\ claim' \in Claim
    BY <2>1, <2>2, StoreType DEF LateAppend, TypeOK
  <2>4. late' \subseteq late /\ UNCHANGED <<engine, signals, env>>
    BY <2>1 DEF LateAppend
  <2>5. TypeOK'
    BY <2>3, <2>4 DEF TypeOK
  <2> QED BY <2>4, <2>5 DEF Position, On
<1>5. CASE \E t \in {"CLAIM_NOTIFIED", "NOTIFY_FAILED"} : NotifierAppends(t)
  <2>1. PICK t \in {"CLAIM_NOTIFIED", "NOTIFY_FAILED"} : NotifierAppends(t)
    BY <1>5
  <2>2. Plain(t) \in Event
    BY PlainType DEF EventType
  <2>3. log' \in Seq(Event) /\ claim' \in Claim
    BY <2>1, <2>2, StoreType DEF NotifierAppends
  <2>4. UNCHANGED <<engine, signals, late, env>>
    BY <2>1 DEF NotifierAppends
  <2>5. TypeOK'
    BY <2>3, <2>4 DEF TypeOK
  <2> QED BY <2>4, <2>5 DEF Position, On
<1>6. CASE ClientPuts \/ MarkUploaded \/ RulingChanges
  <2>1. objects' \subseteq Document /\ uploaded' \in BOOLEAN
    BY <1>6 DEF ClientPuts, MarkUploaded, RulingChanges, TypeOK, Document
  <2>2. ruling' \in Rulings /\ rulings' \in 0..MaxRulings
    BY <1>6, WorkflowAssumption DEF ClientPuts, MarkUploaded, RulingChanges, TypeOK
  <2>3. UNCHANGED <<engine, review, late, store, reviewer, failures>>
    BY <1>6 DEF ClientPuts, MarkUploaded, RulingChanges
  <2>4. TypeOK'
    BY <2>1, <2>2, <2>3 DEF TypeOK
  <2> QED BY <2>3, <2>4 DEF Position, On
<1>7. CASE \E r \in Reviewers : ReviewerChecks(r) \/ ReviewerSignals(r)
  <2>1. PICK r \in Reviewers : ReviewerChecks(r) \/ ReviewerSignals(r)
    BY <1>7
  <2>2. reviewer' \in [Reviewers -> {"idle", "checked", "acked", "refused"}]
    BY <2>1 DEF ReviewerChecks, ReviewerSignals, TypeOK
  <2>3. review' \in {"NONE", "APPROVE", "DENY"}
    BY <2>1 DEF ReviewerChecks, ReviewerSignals, TypeOK
  <2>4. UNCHANGED <<engine, uploaded, late, store, objects, ruling, failures, rulings>>
    BY <2>1 DEF ReviewerChecks, ReviewerSignals
  <2>5. TypeOK'
    BY <2>2, <2>3, <2>4 DEF TypeOK
  <2> QED BY <2>4, <2>5 DEF Position, On
<1> QED BY <1>1, <1>2, <1>3, <1>4, <1>5, <1>6, <1>7 DEF Next, Attempt

LEMMA TypeStep ==
  ASSUME TypeOK, Position, [Next]_vars
  PROVE  TypeOK' /\ Position'
<1>1. CASE Engine
  BY <1>1, EngineType
<1>2. CASE Next /\ ~Engine
  BY <1>2, EnvironmentType
<1>3. CASE UNCHANGED vars
  BY <1>3 DEF vars, engine, signals, store, env, TypeOK, Position, On
<1> QED BY <1>1, <1>2, <1>3 DEF Next

\* Type correctness, for every value of the constants.
THEOREM TypeCorrect == Spec => []TypeOK
<1>1. TypeOK /\ Position /\ [Next]_vars => (TypeOK /\ Position)'
  BY TypeStep
<1> QED BY InitType, <1>1, PTL DEF Spec

-----------------------------------------------------------------------------
(***************************************************************************)
(* The engine against the projection.  The claim's status is, while the    *)
(* engine awaits, the one its position calls for: Entry between stages,    *)
(* and before or after the awaited event during an activity.  A late       *)
(* attempt cannot disturb this: its event is behind the claim in Rank, or  *)
(* is the very event the engine is waiting for.                            *)
(***************************************************************************)
RunnablePipelines == \A p \in Pipelines : Runnable(p)

Ran(s) == \E i \in 1..Len(pipeline) : i < pos /\ pipeline[i] = s

\* The claim's status when the current stage begins
Entry == IF Ran("ADJUDICATE") THEN "ADJUDICATED"
         ELSE IF Ran("LLM") THEN "LLM_DONE"
         ELSE IF Ran("OCR") THEN "OCR_DONE" ELSE "RECEIVED"

Handed == {"PERSISTED", "NOTIFIED", "NOTIFY_FAILED"}

Before(t) == CASE t = "OCR_COMPLETED"     -> "OCR_RUNNING"
               [] t = "PREDICTIONS_READY" -> "LLM_RUNNING"
               [] OTHER                   -> Entry
After(t)  == IF EventStatus(t) = "ABSENT" THEN Entry ELSE EventStatus(t)

Reached(t) == claim.status = After(t) \/ (t = "CLAIM_PERSISTED" /\ claim.status \in Handed)

StatusFollows ==
  /\ pc \in {"next", "upload", "review"} =>
       IF Ran("PERSIST") THEN claim.status \in Handed ELSE claim.status = Entry
  /\ pc = "activity" =>
       /\ claim.status = Before(act.event.type) \/ Reached(act.event.type)
       /\ act.state = "appended" => Reached(act.event.type)

Behind(t) == EventStatus(t) = "ABSENT" \/ Rank(EventStatus(t)) <= Rank(claim.status)

LateBehind == \A z \in late : 
  /\ z.event.type \in ActivityType
  /\ Behind(z.event.type) \/ (pc \in {"activity", "failed"} /\ z.event.type = act.event.type)

Agreement == StatusFollows /\ LateBehind /\ LiveStatusNotAhead

\* The projection's transitions only climb in Rank.
LEMMA AllowedRises ==
  ASSUME NEW s, NEW t, <<s, t>> \in Allowed
  PROVE  Rank(s) \in Nat /\ Rank(t) \in Nat /\ Rank(s) < Rank(t)
BY DEF Allowed, Rank

LEMMA RankType ==
  ASSUME NEW s
  PROVE  Rank(s) \in Nat
BY DEF Rank

\* An append never takes the claim back; one that is behind does not move it.
LEMMA StoreRises ==
  ASSUME NEW e \in Event, Legal(claim, e), Store(e), e.type # "CLAIM_RECEIVED"
  PROVE  /\ Rank(claim.status) <= Rank(claim'.status)
         /\ claim'.status = IF EventStatus(e.type) = "ABSENT"
                            THEN claim.status ELSE EventStatus(e.type)
         /\ Behind(e.type) => claim'.status = claim.status
<1>1. claim'.status = IF EventStatus(e.type) = "ABSENT"
                      THEN claim.status ELSE EventStatus(e.type)
  BY DEF Store, Project
<1>2. \/ EventStatus(e.type) \in {"ABSENT", claim.status}
      \/ <<claim.status, EventStatus(e.type)>> \in Allowed
  BY DEF Legal
<1>3. Rank(claim.status) \in Nat /\ Rank(EventStatus(e.type)) \in Nat
  BY RankType
<1>4. CASE EventStatus(e.type) \in {"ABSENT", claim.status}
  BY <1>1, <1>3, <1>4
<1>5. CASE /\ EventStatus(e.type) \notin {"ABSENT", claim.status}
           /\ <<claim.status, EventStatus(e.type)>> \in Allowed
  <2>1. Rank(claim.status) < Rank(EventStatus(e.type))
    BY <1>5, AllowedRises
  <2>2. ~Behind(e.type)
    BY <1>3, <1>5, <2>1 DEF Behind
  <2> QED BY <1>1, <1>3, <1>5, <2>1, <2>2
<1> QED BY <1>2, <1>4, <1>5

\* Where a runnable pipeline stands determines the status its next stage starts from.
LEMMA EntryFacts ==
  ASSUME RunnablePipelines, TypeOK
  PROVE  /\ Entry \in {"RECEIVED", "OCR_DONE", "LLM_DONE", "ADJUDICATED"}
         /\ On("OCR") => Entry = "RECEIVED"
         /\ On("LLM") => Entry = "OCR_DONE"
         /\ On("ADJUDICATE") => Entry # "ADJUDICATED"
         /\ pos \in 0..Len(pipeline) => ~Ran("PERSIST")
         /\ pos \in {0, 1} => Entry = "RECEIVED"
<1> DEFINE p == pipeline
<1>1. Len(p) \in Nat /\ DOMAIN p = 1..Len(p)
  BY WorkflowAssumption, LenProperties DEF TypeOK
<1>2. NoDuplicates(p) /\ p # <<>> /\ p[Len(p)] = "PERSIST" /\ Len(p) \in 1..Len(p)
  BY <1>1, WorkflowAssumption, EmptySeq DEF TypeOK, ValidPipeline
<1>3. \A i, j \in 1..Len(p) : /\ p[i] = p[j] => i = j
                              /\ p[i] = "OCR" /\ p[j] = "LLM" => i < j
                              /\ p[i] = "LLM" /\ p[j] = "ADJUDICATE" => i < j
                              /\ p[i] = "OCR" /\ p[j] = "ADJUDICATE" => i < j
  BY <1>1, <1>2 DEF RunnablePipelines, Runnable, ValidPipeline, Precedes, NoDuplicates, TypeOK
<1>4. \A i \in 1..Len(p) : p[i] = "LLM" => \E j \in 1..Len(p) : p[j] = "OCR"
  BY <1>1 DEF RunnablePipelines, Runnable, ValidPipeline, Has, TypeOK
<1>5. pos \in 0..Len(p) => ~Ran("PERSIST")
  BY <1>1, <1>2, <1>3 DEF Ran
<1>6. pos \in {0, 1} => Entry = "RECEIVED"
  BY <1>1 DEF Entry, Ran
<1>7. On("OCR") => Entry = "RECEIVED"
  BY <1>1, <1>3 DEF Entry, Ran, On
<1>8. On("LLM") => Entry = "OCR_DONE"
  <2> SUFFICES ASSUME On("LLM") PROVE Entry = "OCR_DONE"
    OBVIOUS
  <2>1. Ran("OCR")
    BY <1>1, <1>3, <1>4 DEF Ran, On
  <2>2. ~Ran("LLM") /\ ~Ran("ADJUDICATE")
    BY <1>1, <1>3 DEF Ran, On
  <2> QED BY <2>1, <2>2 DEF Entry
<1>9. On("ADJUDICATE") => Entry # "ADJUDICATED"
  BY <1>1, <1>3 DEF Entry, Ran, On
<1> QED BY <1>5, <1>6, <1>7, <1>8, <1>9 DEF Entry

\* Leaving a stage adds it to what ran.
LEMMA EntryStep ==
  ASSUME RunnablePipelines, TypeOK, pos \in 0..Len(pipeline), pos' = pos + 1,
         UNCHANGED pipeline
  PROVE  /\ \A s : Ran(s)' <=> Ran(s) \/ On(s)
         /\ pos = 0 => Entry' = Entry
         /\ On("OCR") => Entry' = "OCR_DONE"
         /\ On("LLM") => Entry' = "LLM_DONE"
         /\ On("ADJUDICATE") => Entry' = "ADJUDICATED"
         /\ On("UPLOAD") \/ On("REVIEW") => Entry' = Entry
         /\ Ran("PERSIST")' <=> On("PERSIST")
<1>1. Len(pipeline) \in Nat
  BY WorkflowAssumption, LenProperties DEF TypeOK
<1>2. \A s : Ran(s)' <=> Ran(s) \/ On(s)
  BY <1>1 DEF Ran, On
<1>3. \A s : On(s) => \A r : On(r) => r = s
  BY DEF On
<1>4. pos = 0 => \A s : ~On(s)
  BY <1>1 DEF On
<1>5. Ran("PERSIST")' <=> On("PERSIST")
  BY <1>2, EntryFacts
<1>6. On("OCR") => ~Ran("LLM") /\ ~Ran("ADJUDICATE") /\ ~On("LLM") /\ ~On("ADJUDICATE")
  BY <1>3, EntryFacts DEF Entry
<1>7. On("LLM") => ~Ran("ADJUDICATE") /\ ~On("ADJUDICATE")
  BY <1>3, EntryFacts DEF Entry
<1>8. On("UPLOAD") \/ On("REVIEW") => ~On("OCR") /\ ~On("LLM") /\ ~On("ADJUDICATE")
  BY <1>3
<1> QED BY <1>2, <1>4, <1>5, <1>6, <1>7, <1>8 DEF Entry

LEMMA InitAgreement == RunnablePipelines /\ Init => Agreement
<1> SUFFICES ASSUME RunnablePipelines, Init PROVE Agreement
  OBVIOUS
<1>1. TypeOK
  BY InitType
<1>2. claim.status = "RECEIVED" /\ act.event.type = "METADATA_LOGGED" /\ act.state = "scheduled"
  BY DEF Init, Project, NoClaim, Plain, Scheduled
<1>3. Entry = "RECEIVED"
  BY <1>1, EntryFacts DEF Init
<1>4. StatusFollows
  BY <1>2, <1>3 DEF Init, StatusFollows, Before
<1>5. LateBehind
  BY DEF Init, LateBehind
<1>6. LiveStatusNotAhead
  BY <1>2, RankType DEF Init, LiveStatusNotAhead
<1> QED BY <1>4, <1>5, <1>6 DEF Agreement

\* Steps of the coroutine that leave the store alone.
LEMMA EngineAgreement ==
  ASSUME RunnablePipelines, TypeOK, Position, Agreement, Engine
  PROVE  Agreement'
<1> USE DEF signals, store, env
<1>0. /\ pos \in 0..(Len(pipeline) + 1) /\ Len(pipeline) \in Nat
      /\ UNCHANGED <<pipeline, late, log, claim>>
  BY WorkflowAssumption, LenProperties
     DEF TypeOK, Engine, BeginStage, EnterGate, UploadArrives, UploadTimeout,
         ReviewArrives, ReviewTimeout, Finish, Resume
<1>1. CASE Engine /\ ~Resume /\ pc' = "activity"
  <2>1. PICK e : /\ Schedule(e) /\ e.type \in {"OCR_STARTED", "LLM_STARTED",
                      "CLAIM_ADJUDICATED", "CLAIM_PERSISTED", "CLAIM_FAILED", "REVIEW_COMPLETED"}
    <3>1. CASE BeginStage
      BY <3>1 DEF BeginStage, Plain
    <3>2. CASE UploadTimeout
      BY <3>2 DEF UploadTimeout, Plain
    <3>3. CASE ReviewArrives
      BY <3>3 DEF ReviewArrives, Plain
    <3> QED BY <1>1, <3>1, <3>2, <3>3 
            DEF Engine, EnterGate, UploadArrives, ReviewTimeout, Finish, NextStage
  <2>2. /\ UNCHANGED <<pipeline, pos, late, claim, live>>
        /\ pc \in {"next", "upload", "review"} /\ pos \in 1..Len(pipeline)
    BY <1>0, <1>1 DEF Engine, BeginStage, EnterGate, UploadArrives, UploadTimeout, At, Position,
         On, ReviewArrives, ReviewTimeout, Finish, NextStage
  <2>3. claim.status = Entry /\ Entry' = Entry
    BY <2>2, EntryFacts DEF Agreement, StatusFollows, Entry, Ran
  <2>4. act'.event.type = e.type /\ act'.state = "scheduled" /\ pc' = "activity"
    BY <2>1 DEF Schedule, Scheduled
  <2>5. StatusFollows'
    BY <2>1, <2>2, <2>3, <2>4 DEF StatusFollows, Before
  <2>6. LateBehind'
    BY <2>2, <2>4 DEF Agreement, LateBehind, Behind
  <2> QED BY <2>2, <2>5, <2>6 DEF Agreement, LiveStatusNotAhead
<1>2. CASE Engine /\ ~Resume /\ pc' # "activity"
  <2>1. /\ UNCHANGED <<pipeline, act, late, claim, live>>
        /\ pc \in {"next", "upload", "review"}
        /\ \/ pos' = pos /\ pc' \in {"upload", "review", "completed"}
           \/ pos' = pos + 1 /\ pc' = "next" /\ (On("UPLOAD") \/ On("REVIEW"))
    BY <1>0, <1>2 DEF Engine, BeginStage, EnterGate, UploadArrives, UploadTimeout, At, Position,
         On, ReviewArrives, ReviewTimeout, Finish, NextStage, Schedule
  <2>2. LateBehind' /\ LiveStatusNotAhead'
    BY <2>1 DEF Agreement, LateBehind, Behind, LiveStatusNotAhead
  <2>3. CASE pos' = pos
    <3>1. Entry' = Entry /\ Ran("PERSIST")' = Ran("PERSIST")
      BY <2>1, <2>3 DEF Entry, Ran
    <3> QED BY <2>1, <2>2, <2>3, <1>2, <3>1 DEF Agreement, StatusFollows
  <2>4. CASE pos' = pos + 1 /\ pc' = "next" /\ (On("UPLOAD") \/ On("REVIEW"))
    <3>1. pos \in 1..Len(pipeline)
      BY <2>4 DEF On
    <3>2. Entry' = Entry /\ ~Ran("PERSIST")'
      BY <2>1, <2>4, <3>1, EntryStep DEF On
    <3>3. claim.status = Entry
      BY <2>1, <3>1, EntryFacts DEF Agreement, StatusFollows
    <3> QED BY <2>1, <2>2, <2>4, <3>2, <3>3 DEF Agreement, StatusFollows
  <2> QED BY <2>1, <2>3, <2>4
<1>3. CASE Resume
  <2> DEFINE t == act.event.type
  <2>1. /\ pc = "activity" /\ Reached(t) /\ t \in ActivityType
        /\ live' = (IF EventStatus(t) = "ABSENT" THEN live ELSE EventStatus(t))
    BY <1>3 DEF Resume, Running, Agreement, StatusFollows, TypeOK
  <2>2. EventStatus(t) = "ABSENT" \/ Rank(EventStatus(t)) <= Rank(claim.status)
    <3>1. CASE t = "CLAIM_PERSISTED"
      BY <2>1, <3>1 DEF Reached, After, EventStatus, Handed, Rank
    <3>2. CASE t # "CLAIM_PERSISTED"
      BY <2>1, <3>2, RankType DEF Reached, After
    <3> QED BY <3>1, <3>2
  <2>3. LiveStatusNotAhead'
    BY <1>0, <2>1, <2>2 DEF Agreement, LiveStatusNotAhead
  <2>4. LateBehind'
    BY <1>0, <2>1, <2>2 DEF Agreement, LateBehind, Behind
  <2>5. CASE t \in {"OCR_STARTED", "LLM_STARTED"}
    <3>1. PICK u \in {"OCR_COMPLETED", "PREDICTIONS_READY"} :
            /\ Schedule(Plain(u)) /\ pos' = pos
            /\ t = "OCR_STARTED" => u = "OCR_COMPLETED"
            /\ t = "LLM_STARTED" => u = "PREDICTIONS_READY"
      BY <1>3, <2>5 DEF Resume
    <3>2. act'.event.type = u /\ act'.state = "scheduled" /\ pc' = "activity"
      BY <3>1 DEF Schedule, Scheduled, Plain
    <3>3. claim'.status = Before(u)'
      BY <1>0, <2>1, <2>5, <3>1 DEF Reached, After, EventStatus, Before
    <3> QED BY <2>3, <2>4, <3>2, <3>3 DEF Agreement, StatusFollows
  <2>6. CASE t = "CLAIM_FAILED"
    <3>1. pc' = "completed"
      BY <1>3, <2>6 DEF Resume
    <3> QED BY <2>3, <2>4, <3>1 DEF Agreement, StatusFollows
  <2>7. CASE t \notin {"OCR_STARTED", "LLM_STARTED", "CLAIM_FAILED"}
    <3>1. pos' = pos + 1 /\ pc' = "next"
      BY <1>3, <2>7 DEF Resume, NextStage
    <3>2. pos \in 0..Len(pipeline)
      BY <1>0, <2>1 DEF Position, On
    <3>3. IF Ran("PERSIST")' THEN claim'.status \in Handed ELSE claim'.status = Entry'
      <4>1. CASE t = "METADATA_LOGGED"
        <5>1. pos = 0 /\ claim.status = Entry
          BY <2>1, <4>1 DEF Position, Reached, After, EventStatus
        <5> QED BY <1>0, <3>1, <3>2, <5>1, EntryStep DEF On
      <4>2. CASE t = "OCR_COMPLETED"
        <5>1. On("OCR") /\ claim.status = "OCR_DONE"
          BY <2>1, <4>2 DEF Position, StageOf, Reached, After, EventStatus
        <5> QED BY <1>0, <3>1, <3>2, <5>1, EntryStep DEF On
      <4>3. CASE t = "PREDICTIONS_READY"
        <5>1. On("LLM") /\ claim.status = "LLM_DONE"
          BY <2>1, <4>3 DEF Position, StageOf, Reached, After, EventStatus
        <5> QED BY <1>0, <3>1, <3>2, <5>1, EntryStep DEF On
      <4>4. CASE t = "CLAIM_ADJUDICATED"
        <5>1. On("ADJUDICATE") /\ claim.status = "ADJUDICATED"
          BY <2>1, <4>4 DEF Position, StageOf, Reached, After, EventStatus
        <5> QED BY <1>0, <3>1, <3>2, <5>1, EntryStep DEF On
      <4>5. CASE t = "REVIEW_COMPLETED"
        <5>1. On("REVIEW") /\ claim.status = Entry
          BY <2>1, <4>5 DEF Position, StageOf, Reached, After, EventStatus
        <5> QED BY <1>0, <3>1, <3>2, <5>1, EntryStep DEF On
      <4>6. CASE t = "CLAIM_PERSISTED"
        <5>1. On("PERSIST") /\ claim.status \in Handed
          BY <2>1, <4>6 DEF Position, StageOf, Reached, After, EventStatus, Handed
        <5> QED BY <1>0, <3>1, <3>2, <5>1, EntryStep
      <4> QED BY <2>1, <2>7, <4>1, <4>2, <4>3, <4>4, <4>5, <4>6 DEF ActivityType, EventType
    <3> QED BY <2>3, <2>4, <3>1, <3>3 DEF Agreement, StatusFollows
  <2> QED BY <2>5, <2>6, <2>7
<1> QED BY <1>1, <1>2, <1>3

\* An append, by the awaited attempt, a late one or the notifier, keeps what is behind behind.
LEMMA AppendAgreement ==
  ASSUME TypeOK, Agreement, NEW e \in Event, Legal(claim, e), Store(e),
         e.type # "CLAIM_RECEIVED",
         UNCHANGED <<pipeline, pos, pc, act.event, live>>, late' \subseteq late
  PROVE  LateBehind' /\ LiveStatusNotAhead'
<1>1. Rank(claim.status) <= Rank(claim'.status)
  BY StoreRises
<1>2. \A s : Rank(s) \in Nat
  BY RankType
<1>3. \A t : Behind(t) => Behind(t)'
  BY <1>1, <1>2 DEF Behind
<1>4. LateBehind'
  BY <1>3 DEF Agreement, LateBehind
<1>5. LiveStatusNotAhead'
  BY <1>1, <1>2 DEF Agreement, LiveStatusNotAhead
<1> QED BY <1>4, <1>5

\* Appending the awaited event takes the claim to its After, where a duplicate leaves it.
LEMMA AwaitedAppend ==
  ASSUME RunnablePipelines, TypeOK, Position, Agreement, pc = "activity",
         NEW e \in Event, e.type = act.event.type, Legal(claim, e), Store(e),
         UNCHANGED <<pipeline, pos, act.event>>
  PROVE  Reached(act.event.type)'
<1> DEFINE t == act.event.type
<1>1. t \in ActivityType
  BY DEF TypeOK
<1>2. claim'.status = IF EventStatus(t) = "ABSENT" THEN claim.status ELSE EventStatus(t)
  BY <1>1, StoreRises DEF ActivityType
<1>3. Entry' = Entry
  BY DEF Entry, Ran
<1>4. CASE EventStatus(t) = "ABSENT"
  <2>1. claim.status = Before(t) \/ claim.status = After(t)
    BY <1>1, <1>4 DEF Agreement, StatusFollows, Reached, EventStatus
  <2>2. Before(t) = Entry /\ After(t) = Entry
    BY <1>4 DEF Before, After, EventStatus
  <2> QED BY <1>2, <1>3, <1>4, <2>1, <2>2 DEF Reached, After
<1>5. CASE EventStatus(t) # "ABSENT"
  BY <1>2, <1>5 DEF Reached, After
<1> QED BY <1>4, <1>5

\* Attempts, clients, reviewers and the notifier keep the agreement.
LEMMA EnvironmentAgreement ==
  ASSUME RunnablePipelines, TypeOK, Position, Agreement, Next, ~Engine
  PROVE  Agreement'
<1> USE DEF engine, signals, store, env
<1>1. CASE AppendEvent
  <2>1. /\ pc = "activity" /\ act.event \in Event /\ act.event.type # "CLAIM_RECEIVED"
        /\ Legal(claim, act.event) /\ Store(act.event)
        /\ UNCHANGED <<pipeline, pos, pc, act.event, live, late>>
    BY <1>1 DEF AppendEvent, Running, TypeOK, ActivityType
  <2>2. LateBehind' /\ LiveStatusNotAhead'
    BY <2>1, AppendAgreement
  <2>3. Reached(act.event.type)'
    BY <2>1, AwaitedAppend
  <2> QED BY <2>1, <2>2, <2>3 DEF Agreement, StatusFollows
<1>2. CASE \E z \in late : LateAppend(z)
  <2>1. PICK z \in late : LateAppend(z)
    BY <1>2
  <2> DEFINE e == z.event
  <2>2. /\ e \in Event /\ e.type # "CLAIM_RECEIVED" /\ late' \subseteq late
        /\ UNCHANGED <<pipeline, pos, pc, act, live>>
        /\ (Legal(claim, e) /\ Store(e)) \/ UNCHANGED claim
    BY <2>1 DEF LateAppend, TypeOK, Agreement, LateBehind, ActivityType
  <2>3. Entry' = Entry /\ \A s : Ran(s)' = Ran(s)
    BY <2>2 DEF Entry, Ran
  <2>4. CASE UNCHANGED claim.status /\ LateBehind' /\ LiveStatusNotAhead'
    BY <2>2, <2>3, <2>4
       DEF Agreement, StatusFollows, Before, Reached, After, LateBehind, Behind
  <2>5. CASE UNCHANGED claim
    BY <2>2, <2>4, <2>5 DEF Agreement, LateBehind, LiveStatusNotAhead, Behind
  <2>6. CASE Legal(claim, e) /\ Store(e)
    <3>1. LateBehind' /\ LiveStatusNotAhead'
      BY <2>2, <2>6, AppendAgreement
    <3>2. CASE Behind(e.type)
      BY <2>2, <2>4, <2>6, <3>1, <3>2, StoreRises
    <3>3. CASE pc = "activity" /\ e.type = act.event.type
      <4>1. Reached(act.event.type)'
        BY <2>2, <2>6, <3>3, AwaitedAppend
      <4> QED BY <2>2, <3>1, <3>3, <4>1 DEF Agreement, StatusFollows
    <3>4. CASE pc = "failed"
      BY <2>2, <3>1, <3>4 DEF Agreement, StatusFollows
    <3> QED BY <2>1, <3>2, <3>3, <3>4 DEF Agreement, LateBehind
  <2> QED BY <2>2, <2>5, <2>6
<1>3. CASE \E t \in {"CLAIM_NOTIFIED", "NOTIFY_FAILED"} : NotifierAppends(t)
  <2>1. PICK t \in {"CLAIM_NOTIFIED", "NOTIFY_FAILED"} : NotifierAppends(t)
    BY <1>3
  <2>2. /\ Plain(t) \in Event /\ Plain(t).type = t
        /\ Legal(claim, Plain(t)) /\ Store(Plain(t)) /\ EventStatus(t) # claim.status
        /\ UNCHANGED <<pipeline, pos, pc, act, live, late>>
    BY <2>1, PlainType DEF NotifierAppends, EventType
  <2>3. LateBehind' /\ LiveStatusNotAhead'
    BY <2>2, AppendAgreement
  <2>4. claim.status \in Handed /\ claim'.status \in Handed
    BY <2>2, StoreRises DEF Legal, Allowed, EventStatus, Handed
  <2>5. Entry' = Entry /\ \A s : Ran(s)' = Ran(s)
    BY <2>2 DEF Entry, Ran
  <2>6. ~(claim.status = Entry)
    BY <2>4, EntryFacts DEF Handed
  <2>7. pc = "activity" => act.event.type = "CLAIM_PERSISTED"
    BY <2>4, <2>6 DEF Agreement, StatusFollows, Before, After, Reached, EventStatus,
                      Handed, TypeOK, ActivityType, EventType
  <2> QED BY <2>2, <2>3, <2>4, <2>5, <2>6, <2>7 DEF Agreement, StatusFollows, Reached
<1>4. CASE AttemptRaises \/ AttemptFails \/ AttemptTimesOut
  <2>1. Running /\ Retry /\ UNCHANGED <<log, claim>>
    BY <1>4 DEF AttemptRaises, AttemptFails, AttemptTimesOut
  <2>2. /\ act'.event = act.event /\ pc' \in {"activity", "failed"}
        /\ pc' = "activity" => act'.state = "scheduled"
        /\ UNCHANGED <<pipeline, pos, live>>
    BY <2>1, RetryType DEF AttemptsLeft, Retry, TypeOK, Running
  <2>3. \A z \in late' : z \in late \/ z.event = act.event
    BY <1>4 DEF AttemptRaises, AttemptFails, AttemptTimesOut
  <2>4. LateBehind'
    BY <2>1, <2>2, <2>3 DEF Agreement, LateBehind, Behind, Running, TypeOK
  <2>5. Entry' = Entry
    BY <2>2 DEF Entry, Ran
  <2>6. StatusFollows'
    BY <2>1, <2>2, <2>5 DEF Agreement, StatusFollows, Before, After, Reached, Running
  <2> QED BY <2>1, <2>2, <2>4, <2>6 DEF Agreement, LiveStatusNotAhead
<1>5. CASE UNCHANGED <<pipeline, pos, pc, act.event.type, live, late, claim>>
           /\ act'.state # "appended"
  BY <1>5 DEF Agreement, StatusFollows, Before, After, Reached, Entry, Ran,
              LateBehind, Behind, LiveStatusNotAhead
<1>6. CASE UNCHANGED <<engine, late, claim>>
  BY <1>6 DEF Agreement, StatusFollows, Before, After, Reached, Entry, Ran,
              LateBehind, Behind, LiveStatusNotAhead
<1>7. CASE Compute
  <2>1. PICK esc \in BOOLEAN :
          act' = [act EXCEPT !.state = "computed", !.event.escalated = esc,
                             !.event.decision = IF act.event.type = "CLAIM_ADJUDICATED"
                                                THEN ruling[Escalated] ELSE @]
    BY <1>7 DEF Compute
  <2>2. act'.event.type = act.event.type /\ act'.state = "computed"
    BY <2>1 DEF TypeOK, Event
  <2> QED BY <1>5, <1>7, <2>2 DEF Compute
<1>8. CASE ClientPuts \/ MarkUploaded \/ RulingChanges
           \/ \E r \in Reviewers : ReviewerChecks(r) \/ ReviewerSignals(r)
  BY <1>6, <1>8 DEF ClientPuts, MarkUploaded, RulingChanges, ReviewerChecks, ReviewerSignals
<1> QED BY <1>1, <1>2, <1>3, <1>4, <1>7, <1>8 DEF Next, Attempt

\* With the agreement, the awaited event is legal.
LEMMA AgreementLegal ==
  ASSUME RunnablePipelines, TypeOK, Position, Agreement
  PROVE  EngineRespectsProjection
<1> SUFFICES ASSUME pc = "activity", ~Notified PROVE Legal(claim, act.event)
  BY DEF EngineRespectsProjection, Running
<1> DEFINE t == act.event.type
<1>1. t \in ActivityType
  BY DEF TypeOK
<1>2. claim.status = Before(t) \/ claim.status = After(t)
  BY DEF Agreement, StatusFollows, Reached, Notified, Handed, After, EventStatus
<1>3. Entry \in {"RECEIVED", "OCR_DONE", "LLM_DONE", "ADJUDICATED"}
  BY EntryFacts
<1>4. claim.status # "ABSENT" /\ t # "CLAIM_RECEIVED"
  BY <1>1, <1>2, <1>3 DEF Before, After, ActivityType
<1>5. EventStatus(t) = "ABSENT" \/ claim.status = EventStatus(t) \/ claim.status = Before(t)
  BY <1>2 DEF After
<1>6. CASE claim.status = Before(t) /\ EventStatus(t) # "ABSENT"
  <2>1. t = "OCR_STARTED" => Entry = "RECEIVED"
    BY EntryFacts DEF Position, StageOf
  <2>2. t = "LLM_STARTED" => Entry = "OCR_DONE"
    BY EntryFacts DEF Position, StageOf
  <2>3. t = "CLAIM_ADJUDICATED" => Entry # "ADJUDICATED"
    BY EntryFacts DEF Position, StageOf
  <2>4. <<Before(t), EventStatus(t)>> \in Allowed
    BY <1>1, <1>3, <1>6, <2>1, <2>2, <2>3
       DEF Before, EventStatus, Allowed, ActivityType, EventType
  <2> QED BY <1>4, <1>6, <2>4 DEF Legal
<1>7. CASE EventStatus(t) = "ABSENT" \/ claim.status = EventStatus(t)
  BY <1>4, <1>7 DEF Legal
<1> QED BY <1>5, <1>6, <1>7

LEMMA AgreementStep ==
  ASSUME RunnablePipelines, TypeOK, Position, Agreement, [Next]_vars
  PROVE  Agreement'
<1>1. CASE UNCHANGED vars
  BY <1>1 DEF vars, engine, signals, store, env, Agreement, StatusFollows, Before, After,
              Reached, Entry, Ran, LateBehind, Behind, LiveStatusNotAhead
<1> QED BY <1>1, EngineAgreement, EnvironmentAgreement DEF Next

LEMMA AgreementInvariant ==
  ASSUME RunnablePipelines PROVE Spec => [](TypeOK /\ Position /\ Agreement)
<1>1. Init => TypeOK /\ Position /\ Agreement
  BY InitType, InitAgreement
<1>2. TypeOK /\ Position /\ Agreement /\ [Next]_vars => (TypeOK /\ Position /\ Agreement)'
  BY TypeStep, AgreementStep
<1> QED BY <1>1, <1>2, PTL DEF Spec

\* On pipelines that OCR before they adjudicate, whatever attempts fail, repeat or come
\* late, the engine asks the projection only for legal transitions, until the claim has
\* been notified about.
THEOREM EngineSafe == ASSUME RunnablePipelines PROVE Spec => []EngineRespectsProjection
<1>1. TypeOK /\ Position /\ Agreement => EngineRespectsProjection
  BY AgreementLegal
<1> QED BY AgreementInvariant, <1>1, PTL

\* On the same pipelines the status query never answers a status the row has not reached.
THEOREM LiveStatusSafe == ASSUME RunnablePipelines PROVE Spec => []LiveStatusNotAhead
<1>1. TypeOK /\ Position /\ Agreement => LiveStatusNotAhead
  BY DEF Agreement
<1> QED BY AgreementInvariant, <1>1, PTL

-----------------------------------------------------------------------------
(***************************************************************************)
(* The steps by what they do to the engine: what the later invariants need *)
(* to know of each action, so that they do not expand it again.            *)
(***************************************************************************)
Between == pc \in {"next", "upload", "review"}

Openers == {"OCR_STARTED", "LLM_STARTED", "CLAIM_ADJUDICATED", "REVIEW_COMPLETED",
            "CLAIM_PERSISTED", "CLAIM_FAILED"}

\* The coroutine schedules an activity, is parked at a gate, passes one, or returns.
Starts == /\ Between /\ pc' = "activity" /\ UNCHANGED <<pos, decision, live>>
          /\ act'.event.type \in Openers /\ On(StageOf(act'.event.type))
          /\ act'.state = "scheduled" /\ act'.attempt = 1
          /\ act'.event.type = "OCR_STARTED" => uploaded
Parks  == pc = "next" /\ pc' \in {"upload", "review"} /\ UNCHANGED <<pos, act, decision, live>>
Passes == /\ Between /\ (On("UPLOAD") \/ On("REVIEW"))
          /\ pos' = pos + 1 /\ pc' = "next" /\ UNCHANGED <<act, decision, live>>
Returns == /\ pc = "next" /\ pos = Len(pipeline) + 1 /\ pc' = "completed"
           /\ UNCHANGED <<pos, act, decision, live>>

\* The coroutine takes an answer: the stage's second activity, its end, or the run's.
Answered == /\ pc = "activity" /\ act.state = "appended"
            /\ decision' = DecisionAfter(act.event)
            /\ live' = IF EventStatus(act.event.type) = "ABSENT" THEN live
                       ELSE EventStatus(act.event.type)
Second(t) == IF t = "OCR_STARTED" THEN "OCR_COMPLETED" ELSE "PREDICTIONS_READY"
Continues == /\ Answered /\ act.event.type \in {"OCR_STARTED", "LLM_STARTED"}
             /\ pc' = "activity" /\ pos' = pos /\ act'.event.type = Second(act.event.type)
             /\ act'.state = "scheduled" /\ act'.attempt = 1
Leaves == /\ Answered /\ act.event.type \notin {"OCR_STARTED", "LLM_STARTED", "CLAIM_FAILED"}
          /\ pos \in 0..Len(pipeline) /\ pos' = pos + 1 /\ pc' = "next" /\ act' = act
Closes == /\ Answered /\ act.event.type = "CLAIM_FAILED" /\ pc' = "completed"
          /\ UNCHANGED <<pos, act>>

LEMMA EngineMoves ==
  ASSUME TypeOK, Position, Engine
  PROVE  /\ UNCHANGED <<pipeline, signals, late, store, env>>
         /\ Starts \/ Parks \/ Passes \/ Returns \/ Continues \/ Leaves \/ Closes
<1>0. Len(pipeline) \in Nat /\ pos \in 0..(Len(pipeline) + 1)
  BY WorkflowAssumption, LenProperties DEF TypeOK
<1>1. UNCHANGED <<pipeline, signals, late, store, env>>
  BY DEF Engine, BeginStage, EnterGate, UploadArrives, UploadTimeout,
         ReviewArrives, ReviewTimeout, Finish, Resume
<1>2. CASE BeginStage
  <2>1. PICK t \in {"OCR_STARTED", "LLM_STARTED", "CLAIM_ADJUDICATED", "CLAIM_PERSISTED"} :
          /\ At(StageOf(t)) /\ Schedule(Plain(t)) /\ (t = "OCR_STARTED" => uploaded)
          /\ UNCHANGED <<pos, decision, live>>
    BY <1>2 DEF BeginStage, StageOf
  <2>2. act'.event.type = t /\ act'.state = "scheduled" /\ act'.attempt = 1 /\ pc' = "activity"
    BY <2>1 DEF Schedule, Scheduled, Plain
  <2>3. On(StageOf(t)) /\ pc = "next"
    BY <1>0, <2>1 DEF At, On, Position
  <2> QED BY <1>1, <2>1, <2>2, <2>3 DEF Starts, Between, Openers
<1>3. CASE EnterGate
  BY <1>0, <1>1, <1>3 DEF EnterGate, NextStage, At, On, Position, Parks, Passes, Between
<1>4. CASE UploadArrives \/ ReviewTimeout
  BY <1>1, <1>4 DEF UploadArrives, ReviewTimeout, NextStage, Position, Passes, Between
<1>5. CASE UploadTimeout
  BY <1>1, <1>5 DEF UploadTimeout, Schedule, Scheduled, Plain, Position, StageOf,
                    Starts, Between, Openers
<1>6. CASE ReviewArrives
  BY <1>1, <1>6 DEF ReviewArrives, Schedule, Scheduled, Plain, Position, StageOf,
                    Starts, Between, Openers
<1>7. CASE Finish
  BY <1>1, <1>7 DEF Finish, Returns
<1>8. CASE Resume
  <2>1. Answered
    BY <1>8 DEF Resume, Running, Answered
  <2>2. CASE act.event.type \in {"OCR_STARTED", "LLM_STARTED"}
    <3>1. Schedule(Plain(Second(act.event.type))) /\ pos' = pos
      BY <1>8, <2>2 DEF Resume, Second
    <3> QED BY <1>1, <2>1, <2>2, <3>1 DEF Continues, Schedule, Scheduled, Plain
  <2>3. CASE act.event.type = "CLAIM_FAILED"
    BY <1>1, <1>8, <2>1, <2>3 DEF Resume, Closes
  <2>4. CASE act.event.type \notin {"OCR_STARTED", "LLM_STARTED", "CLAIM_FAILED"}
    <3>1. pos' = pos + 1 /\ pc' = "next" /\ act' = act
      BY <1>8, <2>4 DEF Resume, NextStage
    <3>2. pos \in 0..Len(pipeline)
      BY <1>0, <2>1 DEF Position, On, Answered
    <3> QED BY <1>1, <2>1, <2>4, <3>1, <3>2 DEF Leaves
  <2> QED BY <2>2, <2>3, <2>4
<1> QED BY <1>2, <1>3, <1>4, <1>5, <1>6, <1>7, <1>8 DEF Engine

\* An attempt computes, commits, or is given up for another one or for good.
Computes == /\ pc = "activity" /\ act.state = "scheduled" /\ act'.state = "computed"
            /\ act'.event.type = act.event.type /\ act'.attempt = act.attempt
            /\ act'.event.decision = IF act.event.type = "CLAIM_ADJUDICATED"
                                     THEN ruling[Escalated] ELSE act.event.decision
            /\ objects' = objects \cup Produces
            /\ UNCHANGED <<pc, signals, late, store, ruling, failures>>
Commits  == /\ pc = "activity" /\ act.state = "computed" /\ act'.state = "appended"
            /\ act'.event = act.event /\ act'.attempt = act.attempt
            /\ Legal(claim, act.event) /\ Store(act.event)
            /\ UNCHANGED <<pc, signals, late, objects, ruling, failures>>
GivesUp  == /\ pc = "activity" /\ act'.event = act.event
            /\ IF act.attempt < MaxAttempts
               THEN pc' = "activity" /\ act'.state = "scheduled" /\ act'.attempt = act.attempt + 1
               ELSE pc' = "failed" /\ act' = act
            /\ \/ UNCHANGED failures /\ AttemptRaises
               \/ failures < MaxFailures /\ failures' = failures + 1
            /\ \A z \in late' : z \in late \/ z.event = act.event
            /\ MaxLate = 0 /\ late = {} => late' = {}
            /\ UNCHANGED <<signals, store, objects, ruling>>

\* A late attempt commits or raises, the notifier commits, or someone outside acts.
CommitsLate == /\ \E z \in late : \/ Legal(claim, z.event) /\ Store(z.event)
                                  \/ UNCHANGED store
               /\ late' \subseteq late /\ UNCHANGED <<pc, act, signals, objects, ruling, failures>>
Notifies == /\ \E t \in {"CLAIM_NOTIFIED", "NOTIFY_FAILED"} :
                 EventStatus(t) # claim.status /\ Legal(claim, Plain(t)) /\ Store(Plain(t))
            /\ UNCHANGED <<pc, act, signals, late, objects, ruling, failures>>
Outside  == /\ objects \subseteq objects'
            /\ uploaded => uploaded'
            /\ uploaded' /\ ~uploaded => EagerSignal \/ "source.pdf" \in objects
            /\ MaxRulings = 0 => ruling' = ruling
            /\ UNCHANGED <<pc, act, late, store, failures>>

LEMMA EnvironmentMoves ==
  ASSUME TypeOK, Next, ~Engine
  PROVE  /\ UNCHANGED <<pipeline, pos, decision, live>>
         /\ Computes \/ Commits \/ GivesUp \/ CommitsLate \/ Notifies \/ Outside
<1> USE DEF engine, signals, store, env
<1>1. CASE Compute
  <2>1. PICK esc :
          act' = [act EXCEPT !.state = "computed", !.event.escalated = esc,
                             !.event.decision = IF act.event.type = "CLAIM_ADJUDICATED"
                                                THEN ruling[Escalated] ELSE @]
    BY <1>1 DEF Compute
  <2>2. /\ act'.state = "computed" /\ act'.event.type = act.event.type
        /\ act'.attempt = act.attempt
        /\ act'.event.decision = IF act.event.type = "CLAIM_ADJUDICATED"
                                 THEN ruling[Escalated] ELSE act.event.decision
    BY <2>1 DEF TypeOK, Event
  <2> QED BY <1>1, <2>2 DEF Compute, Computes, Running
<1>2. CASE AppendEvent
  <2>1. act'.state = "appended" /\ act'.event = act.event /\ act'.attempt = act.attempt
    BY <1>2 DEF AppendEvent, TypeOK
  <2> QED BY <1>2, <2>1 DEF AppendEvent, Running, Commits
<1>3. CASE AttemptRaises \/ AttemptFails \/ AttemptTimesOut
  <2>1. /\ Running /\ Retry /\ UNCHANGED <<signals, store, objects, ruling>>
        /\ \/ UNCHANGED failures /\ AttemptRaises
           \/ failures < MaxFailures /\ failures' = failures + 1
        /\ \A z \in late' : z \in late \/ z.event = act.event
    BY <1>3 DEF AttemptRaises, AttemptFails, AttemptTimesOut
  <2>2. MaxLate = 0 /\ late = {} => late' = {}
    <3>1. MaxLate = 0 /\ late = {} => ~AttemptTimesOut
      BY FS_EmptySet DEF AttemptTimesOut
    <3> QED BY <1>3, <3>1 DEF AttemptRaises, AttemptFails
  <2>3. act'.event = act.event /\ UNCHANGED <<pipeline, pos, decision, live>>
    BY <2>1 DEF Retry, TypeOK
  <2>4. IF act.attempt < MaxAttempts
        THEN pc' = "activity" /\ act'.state = "scheduled" /\ act'.attempt = act.attempt + 1
        ELSE pc' = "failed" /\ act' = act
    BY <2>1 DEF Retry, AttemptsLeft, TypeOK, Running
  <2> QED BY <2>1, <2>2, <2>3, <2>4 DEF GivesUp, Running
<1>4. CASE \E z \in late : LateAppend(z)
  BY <1>4 DEF LateAppend, CommitsLate
<1>5. CASE \E t \in {"CLAIM_NOTIFIED", "NOTIFY_FAILED"} : NotifierAppends(t)
  BY <1>5 DEF NotifierAppends, Notifies
<1>6. CASE ClientPuts \/ MarkUploaded
  BY <1>6 DEF ClientPuts, MarkUploaded, Outside
<1>7. CASE RulingChanges
  BY <1>7, WorkflowAssumption DEF RulingChanges, Outside, TypeOK
<1>8. CASE \E r \in Reviewers : ReviewerChecks(r) \/ ReviewerSignals(r)
  BY <1>8 DEF ReviewerChecks, ReviewerSignals, Outside
<1> QED BY <1>1, <1>2, <1>3, <1>4, <1>5, <1>6, <1>7, <1>8 DEF Next, Attempt

\* What ran when the coroutine moves on, and when it does not
LEMMA RanSteps ==
  ASSUME TypeOK, UNCHANGED pipeline
  PROVE  /\ pos' = pos => \A s : /\ (Ran(s)' <=> Ran(s)) /\ (On(s)' <=> On(s))
         /\ pos \in 0..Len(pipeline) /\ pos' = pos + 1 => \A s : Ran(s)' <=> Ran(s) \/ On(s)
<1>1. Len(pipeline) \in Nat
  BY WorkflowAssumption, LenProperties DEF TypeOK
<1> QED BY <1>1 DEF Ran, On

\* The stages validate_pipeline orders: when one is being run, its precondition ran and
\* what it precedes did not.
LEMMA StageOrder ==
  ASSUME TypeOK
  PROVE  /\ \A s : On(s) => ~Ran(s) /\ \A r : On(r) => r = s
         /\ On("LLM") => Ran("OCR") /\ ~Ran("ADJUDICATE")
         /\ On("REVIEW") => Ran("ADJUDICATE")
         /\ On("ADJUDICATE") => ~Ran("REVIEW")
         /\ On("LLM") => ~Ran("REVIEW")
<1> DEFINE p == pipeline
<1>1. Len(p) \in Nat /\ DOMAIN p = 1..Len(p) /\ ValidPipeline(p) /\ pos \in 0..(Len(p) + 1)
  BY WorkflowAssumption, LenProperties DEF TypeOK
<1>2. \A i, j \in 1..Len(p) : /\ p[i] = p[j] => i = j
                              /\ p[i] = "OCR" /\ p[j] = "LLM" => i < j
                              /\ p[i] = "LLM" /\ p[j] = "ADJUDICATE" => i < j
                              /\ p[i] = "ADJUDICATE" /\ p[j] = "REVIEW" => i < j
  BY <1>1 DEF ValidPipeline, Precedes, NoDuplicates
<1>3. \A s \in Stage : Has(p, s) <=> \E i \in 1..Len(p) : p[i] = s
  BY <1>1 DEF Has
<1>4. /\ Has(p, "LLM") => Has(p, "OCR")
      /\ Has(p, "REVIEW") => Has(p, "ADJUDICATE")
  BY <1>1 DEF ValidPipeline
<1>5. \A s : On(s) => ~Ran(s) /\ \A r : On(r) => r = s
  BY <1>1, <1>2 DEF On, Ran
<1>6. On("LLM") => Ran("OCR") /\ ~Ran("ADJUDICATE")
  BY <1>1, <1>2, <1>3, <1>4 DEF On, Ran, Stage
<1>7. On("REVIEW") => Ran("ADJUDICATE")
  BY <1>1, <1>2, <1>3, <1>4 DEF On, Ran, Stage
<1>8. On("ADJUDICATE") => ~Ran("REVIEW")
  BY <1>1, <1>2 DEF On, Ran
<1>9. On("LLM") => ~Ran("REVIEW")
  <2> SUFFICES ASSUME On("LLM"), NEW j \in 1..Len(p), j < pos, p[j] = "REVIEW" PROVE FALSE
    BY DEF Ran
  <2>1. PICK i \in 1..Len(p) : p[i] = "ADJUDICATE"
    BY <1>3, <1>4 DEF Stage
  <2>2. i < j /\ pos < i
    BY <1>1, <1>2, <2>1 DEF On
  <2> QED BY <1>1, <2>1, <2>2
<1> QED BY <1>5, <1>6, <1>7, <1>8, <1>9

-----------------------------------------------------------------------------
(***************************************************************************)
(* Inputs.  A late attempt or a retry can only add to the object store and *)
(* to the row; what a stage has to find was there when the stage before it *)
(* was left.                                                               *)
(***************************************************************************)
Awaits(t) == pc = "activity" /\ act.event.type = t

LateActivities == \A z \in late : z.event.type \in ActivityType

InputsReady ==
  /\ uploaded => EagerSignal \/ "source.pdf" \in objects
  /\ Awaits("OCR_STARTED") \/ Awaits("OCR_COMPLETED") => uploaded
  /\ Awaits("OCR_COMPLETED") /\ act.state # "scheduled" => "ocr.txt" \in objects
  /\ Awaits("OCR_COMPLETED") /\ act.state = "appended" => claim.ocr
  /\ Ran("OCR") => claim.ocr /\ "ocr.txt" \in objects

\* Only activities are ever late.
LEMMA LateStep ==
  ASSUME TypeOK, LateActivities, Position, [Next]_vars
  PROVE  LateActivities'
<1> USE DEF signals, store, env
<1>0. pc = "activity" => act.event.type \in ActivityType
  BY DEF TypeOK
<1>1. CASE Engine
  BY <1>1, EngineMoves DEF LateActivities
<1>2. CASE Next /\ ~Engine
  BY <1>0, <1>2, EnvironmentMoves
     DEF Computes, Commits, GivesUp, CommitsLate, Notifies, Outside, LateActivities
<1>3. CASE UNCHANGED vars
  BY <1>3 DEF vars, LateActivities
<1> QED BY <1>1, <1>2, <1>3 DEF Next

\* An append: of the awaited event, of a late attempt's, or of the notifier's.
LEMMA Appends ==
  ASSUME TypeOK, LateActivities, Next, ~Engine
  PROVE  \/ UNCHANGED store
         \/ \E e \in Event : /\ Legal(claim, e) /\ Store(e) /\ e.type # "CLAIM_RECEIVED"
                             /\ \/ Commits /\ e = act.event
                                \/ CommitsLate /\ \E z \in late : z.event = e
                                \/ Notifies /\ e \in {Plain("CLAIM_NOTIFIED"), Plain("NOTIFY_FAILED")}
<1> USE DEF store
<1>1. CASE Computes \/ GivesUp \/ Outside
  BY <1>1 DEF Computes, GivesUp, Outside
<1>2. CASE Commits
  BY <1>2 DEF Commits, TypeOK, ActivityType
<1>3. CASE CommitsLate
  <2>1. \A z \in late : z.event \in Event /\ z.event.type # "CLAIM_RECEIVED"
    BY DEF LateActivities, ActivityType, TypeOK
  <2> QED BY <1>3, <2>1 DEF CommitsLate
<1>4. CASE Notifies
  <2>1. PICK t \in {"CLAIM_NOTIFIED", "NOTIFY_FAILED"} : Legal(claim, Plain(t)) /\ Store(Plain(t))
    BY <1>4 DEF Notifies
  <2>2. Plain(t) \in Event /\ Plain(t).type # "CLAIM_RECEIVED"
    BY PlainType DEF EventType
  <2> QED BY <1>4, <2>1, <2>2
<1> QED BY <1>1, <1>2, <1>3, <1>4, EnvironmentMoves

\* What an append does to the row's document reference and decision
LEMMA StoreEffect ==
  ASSUME NEW e \in Event, e.type # "CLAIM_RECEIVED", Store(e)
  PROVE  /\ claim'.ocr = (claim.ocr \/ e.type = "OCR_COMPLETED")
         /\ claim'.decision = IF e.type \in DecisionEvents THEN e.decision ELSE claim.decision
BY DEF Store, Project

LEMMA InputsStep ==
  ASSUME TypeOK, Position, LateActivities, InputsReady, [Next]_vars
  PROVE  InputsReady'
<1> USE DEF signals, store, env
<1>1. CASE Engine
  <2>1. UNCHANGED <<uploaded, claim, objects>> /\ UNCHANGED pipeline
    BY <1>1, EngineMoves
  <2>2. \/ pos' = pos
        \/ Passes \/ Leaves
    BY <1>1, EngineMoves DEF Starts, Parks, Returns, Continues, Closes
  <2>3. Ran("OCR")' => claim.ocr /\ "ocr.txt" \in objects
    <3>1. CASE pos' = pos
      BY <2>1, <3>1, RanSteps DEF InputsReady
    <3>2. CASE Passes
      <4>1. pos \in 0..Len(pipeline) /\ ~On("OCR") /\ pos' = pos + 1
        BY <3>2, StageOrder DEF Passes, On
      <4> QED BY <2>1, <4>1, RanSteps DEF InputsReady
    <3>3. CASE Leaves
      <4>1. pos \in 0..Len(pipeline) /\ pos' = pos + 1
            /\ act.state = "appended" /\ pc = "activity"
        BY <3>3 DEF Leaves, Answered
      <4>2. On("OCR") => act.event.type = "OCR_COMPLETED"
        <5>1. pos # 0 \/ ~On("OCR")
          BY DEF On
        <5>2. On("OCR") => On(StageOf(act.event.type))
          BY <4>1, <5>1 DEF Position
        <5>3. On("OCR") => StageOf(act.event.type) = "OCR"
          BY <5>2, StageOrder
        <5> QED BY <3>3, <5>3 DEF StageOf, Leaves
      <4> QED BY <2>1, <4>1, <4>2, RanSteps DEF InputsReady, Awaits
    <3> QED BY <2>2, <3>1, <3>2, <3>3
  <2>4. Awaits("OCR_STARTED")' \/ Awaits("OCR_COMPLETED")' => uploaded /\ act'.state = "scheduled"
    BY <1>1, EngineMoves
       DEF Starts, Parks, Passes, Returns, Continues, Second, Leaves, Closes, Awaits, Answered,
           InputsReady, Openers, Between
  <2> QED BY <2>1, <2>3, <2>4 DEF InputsReady, Awaits
<1>2. CASE Next /\ ~Engine
  <2>1. \A s : Ran(s)' <=> Ran(s)
    BY <1>2, EnvironmentMoves, RanSteps
  <2>2. claim.ocr => claim'.ocr
    <3>1. CASE UNCHANGED store
      BY <3>1
    <3>2. CASE \E e \in Event : e.type # "CLAIM_RECEIVED" /\ Store(e)
      BY <3>2, StoreEffect
    <3> QED BY <1>2, <3>1, <3>2, Appends
  <2>3. \A t : Awaits(t)' => Awaits(t)
    <3>1. act'.event.type = act.event.type /\ (pc' = "activity" => pc = "activity")
      BY <1>2, EnvironmentMoves
         DEF Computes, Commits, GivesUp, CommitsLate, Notifies, Outside
    <3> QED BY <3>1 DEF Awaits
  <2>4. CASE Computes
    BY <2>1, <2>3, <2>4 DEF Computes, Produces, InputsReady, Awaits
  <2>5. CASE Commits
    <3>1. act.event \in Event /\ act.event.type # "CLAIM_RECEIVED"
      BY DEF TypeOK, ActivityType
    <3>2. Awaits("OCR_COMPLETED") => claim'.ocr
      BY <2>5, <3>1, StoreEffect DEF Commits, Awaits
    <3> QED BY <2>1, <2>2, <2>3, <2>5, <3>2 DEF Commits, InputsReady, Awaits
  <2>6. CASE GivesUp
    <3>1. /\ UNCHANGED <<uploaded, claim, objects>>
          /\ pc' = "activity" => act'.state = "scheduled"
      BY <2>6 DEF GivesUp
    <3> QED BY <2>1, <2>3, <3>1 DEF InputsReady, Awaits
  <2>7. CASE CommitsLate \/ Notifies
    BY <2>1, <2>2, <2>3, <2>7 DEF CommitsLate, Notifies, InputsReady, Awaits
  <2>8. CASE Outside
    <3>1. /\ objects \subseteq objects'
          /\ uploaded => uploaded'
          /\ uploaded' /\ ~uploaded => EagerSignal \/ "source.pdf" \in objects
          /\ UNCHANGED <<pc, act, claim>>
      BY <2>8 DEF Outside
    <3> QED BY <2>1, <2>3, <3>1 DEF InputsReady, Awaits
  <2> QED BY <1>2, <2>4, <2>5, <2>6, <2>7, <2>8, EnvironmentMoves
<1>3. CASE UNCHANGED vars
  BY <1>3 DEF vars, engine, InputsReady, Awaits, Ran
<1> QED BY <1>1, <1>2, <1>3 DEF Next

LEMMA InputsInvariant == Spec => [](TypeOK /\ Position /\ LateActivities /\ InputsReady)
<1>1. Init => TypeOK /\ Position /\ LateActivities /\ InputsReady
  <2> SUFFICES ASSUME Init PROVE LateActivities /\ InputsReady
    BY InitType
  <2>1. act.event.type = "METADATA_LOGGED"
    BY DEF Init, Scheduled, Plain
  <2> QED BY <2>1 DEF Init, LateActivities, InputsReady, Awaits, Ran
<1>2. TypeOK /\ Position /\ LateActivities /\ InputsReady /\ [Next]_vars
        => (TypeOK /\ Position /\ LateActivities /\ InputsReady)'
  BY TypeStep, LateStep, InputsStep
<1> QED BY <1>1, <1>2, PTL DEF Spec

\* OCR runs only on a document the client has reported, and the model only on a text that
\* is stored and a row that refers to it, whatever attempts fail, repeat or come late.
THEOREM InputsSafe == Spec => []InputsPresent
<1>1. TypeOK /\ Position /\ InputsReady => InputsPresent
  <2> SUFFICES ASSUME TypeOK, Position, InputsReady PROVE InputsPresent
    OBVIOUS
  <2>1. Awaits("LLM_STARTED") \/ Awaits("PREDICTIONS_READY") => Ran("OCR")
    BY StageOrder DEF Awaits, Position, StageOf
  <2> QED BY <2>1 DEF InputsReady, InputsPresent, Running, Awaits
<1> QED BY InputsInvariant, <1>1, PTL

-----------------------------------------------------------------------------
(***************************************************************************)
(* Completion.  The status query answers the status the claim had before   *)
(* the awaited event, and once the run has returned the last one it moved  *)
(* the claim to.                                                           *)
(***************************************************************************)
LiveFollows ==
  /\ Between => live = IF Ran("PERSIST") THEN "PERSISTED" ELSE Entry
  /\ pc = "activity" => live = Before(act.event.type)
  /\ pc = "completed" => \/ live = "PERSISTED" /\ claim.status \in Handed
                         \/ live = "FAILED" /\ claim.status = "FAILED"

\* The engine's own steps
LEMMA LiveEngine ==
  ASSUME RunnablePipelines, TypeOK, Position, Agreement, LiveFollows, Engine
  PROVE  LiveFollows'
<1> USE DEF signals, store, env
<1>0. UNCHANGED <<pipeline, claim>>
  BY EngineMoves
<1>1. CASE pos' = pos
  <2>1. Entry' = Entry /\ (Ran("PERSIST")' <=> Ran("PERSIST"))
    BY <1>0, <1>1, RanSteps DEF Entry
  <2>2. CASE Starts
    <3>1. ~Ran("PERSIST") /\ pc # "activity"
      BY <2>2, EntryFacts DEF Starts, On, Between
    <3>2. Before(act'.event.type) = Entry
      BY <2>2 DEF Starts, Before, Openers
    <3>3. Before(act.event.type)' = Before(act'.event.type)
      BY <2>1 DEF Before
    <3> QED BY <2>2, <3>1, <3>2, <3>3 DEF LiveFollows, Starts, Between
  <2>3. CASE Parks
    BY <2>1, <2>3 DEF LiveFollows, Parks, Between
  <2>4. CASE Returns
    <3>1. pos \in 1..Len(pipeline) + 1 /\ Ran("PERSIST")
      <4>1. Len(pipeline) \in Nat \ {0} /\ pipeline[Len(pipeline)] = "PERSIST"
        BY WorkflowAssumption, LenProperties, EmptySeq DEF TypeOK, ValidPipeline
      <4> QED BY <2>4, <4>1 DEF Returns, Ran
    <3> QED BY <1>0, <2>4, <3>1 DEF LiveFollows, Returns, Between, Agreement, StatusFollows
  <2>5. CASE Continues
    <3>1. live' = Before(Second(act.event.type))
      BY <2>5 DEF Continues, Answered, Before, Second, EventStatus
    <3>2. Before(act.event.type)' = Before(act'.event.type)
      BY <2>1 DEF Before
    <3> QED BY <2>5, <3>1, <3>2 DEF LiveFollows, Continues, Between
  <2>6. CASE Closes
    <3>1. live' = "FAILED" /\ claim.status = "FAILED"
      BY <2>6 DEF Closes, Answered, EventStatus, Agreement, StatusFollows, Reached, After
    <3> QED BY <1>0, <2>6, <3>1 DEF LiveFollows, Closes, Between
  <2>7. ~Passes /\ ~Leaves
    <3>1. pos \in Nat
      BY WorkflowAssumption, LenProperties DEF TypeOK
    <3> QED BY <1>1, <3>1 DEF Passes, Leaves
  <2> QED BY <2>2, <2>3, <2>4, <2>5, <2>6, <2>7, EngineMoves
<1>2. CASE Passes
  <2>1. /\ pos \in 0..Len(pipeline) /\ pos' = pos + 1 /\ pc' = "next" /\ live' = live
        /\ On("UPLOAD") \/ On("REVIEW")
    BY <1>2 DEF Passes, On
  <2>2. Entry' = Entry /\ ~Ran("PERSIST") /\ ~Ran("PERSIST")'
    BY <1>0, <2>1, EntryStep, EntryFacts, StageOrder
  <2> QED BY <1>2, <2>1, <2>2 DEF LiveFollows, Passes, Between
<1>3. CASE Leaves
  <2> DEFINE t == act.event.type
  <2>1. /\ pos \in 0..Len(pipeline) /\ pos' = pos + 1 /\ pc' = "next"
        /\ t \in ActivityType \ {"OCR_STARTED", "LLM_STARTED", "CLAIM_FAILED"}
        /\ live' = IF EventStatus(t) = "ABSENT" THEN live ELSE EventStatus(t)
        /\ pc = "activity"
    BY <1>3 DEF Leaves, Answered, TypeOK
  <2>2. live' = IF t = "CLAIM_PERSISTED" THEN "PERSISTED" ELSE Entry'
    <3>1. CASE t = "METADATA_LOGGED"
      BY <1>0, <2>1, <3>1, EntryStep DEF Position, LiveFollows, Before, EventStatus
    <3>2. CASE t = "OCR_COMPLETED"
      BY <1>0, <2>1, <3>2, EntryStep DEF Position, StageOf, EventStatus
    <3>3. CASE t = "PREDICTIONS_READY"
      BY <1>0, <2>1, <3>3, EntryStep DEF Position, StageOf, EventStatus
    <3>4. CASE t = "CLAIM_ADJUDICATED"
      BY <1>0, <2>1, <3>4, EntryStep DEF Position, StageOf, EventStatus
    <3>5. CASE t = "REVIEW_COMPLETED"
      BY <1>0, <2>1, <3>5, EntryStep DEF Position, StageOf, LiveFollows, Before, EventStatus
    <3>6. CASE t = "CLAIM_PERSISTED"
      BY <2>1, <3>6 DEF EventStatus
    <3> QED BY <2>1, <3>1, <3>2, <3>3, <3>4, <3>5, <3>6 DEF ActivityType, EventType
  <2>3. Ran("PERSIST")' <=> t = "CLAIM_PERSISTED"
    <3>1. Ran("PERSIST")' <=> On("PERSIST")
      BY <1>0, <2>1, EntryStep
    <3>2. t # "METADATA_LOGGED" => On(StageOf(t))
      BY <2>1 DEF Position
    <3>3. t = "METADATA_LOGGED" => ~On("PERSIST")
      BY <2>1 DEF Position, On
    <3>4. On("PERSIST") /\ t # "METADATA_LOGGED" => StageOf(t) = "PERSIST"
      BY <3>2, StageOrder
    <3> QED BY <2>1, <3>1, <3>2, <3>3, <3>4 DEF StageOf
  <2> QED BY <2>1, <2>2, <2>3 DEF LiveFollows, Between
<1> QED BY <1>1, <1>2, <1>3, EngineMoves DEF Starts, Parks, Returns, Continues, Closes

\* Nobody else moves the query, and a finished claim moves only along Handed.
LEMMA LiveEnvironment ==
  ASSUME TypeOK, Position, Agreement, LateActivities, LiveFollows, Next, ~Engine
  PROVE  LiveFollows'
<1>1. UNCHANGED <<pipeline, pos, live>> /\ (pc' # "failed" => pc' = pc)
      /\ act'.event.type = act.event.type
  BY EnvironmentMoves DEF Computes, Commits, GivesUp, CommitsLate, Notifies, Outside
<1>2. Entry' = Entry /\ (Ran("PERSIST")' <=> Ran("PERSIST"))
  BY <1>1, RanSteps DEF Entry
<1>3. Before(act.event.type)' = Before(act.event.type)
  BY <1>1, <1>2 DEF Before
<1>4. pc = "completed" =>
        \/ claim'.status = claim.status
        \/ claim.status \in Handed /\ claim'.status \in Handed
  <2> SUFFICES ASSUME pc = "completed" 
               PROVE  \/ claim'.status = claim.status
                      \/ claim.status \in Handed /\ claim'.status \in Handed
    OBVIOUS
  <2>1. CASE UNCHANGED store
    BY <2>1 DEF store
  <2>2. ASSUME NEW e \in Event, Legal(claim, e), Store(e), e.type # "CLAIM_RECEIVED",
               CommitsLate, \E z \in late : z.event = e
        PROVE  claim'.status = claim.status
    <3>1. Behind(e.type)
      BY <2>2 DEF Agreement, LateBehind
    <3> QED BY <2>2, <3>1, StoreRises
  <2>3. ASSUME NEW e \in Event, Legal(claim, e), Store(e), Notifies,
               e \in {Plain("CLAIM_NOTIFIED"), Plain("NOTIFY_FAILED")}
        PROVE  \/ claim'.status = claim.status
               \/ claim.status \in Handed /\ claim'.status \in Handed
    <3>1. e.type \in {"CLAIM_NOTIFIED", "NOTIFY_FAILED"}
      BY <2>3 DEF Plain
    <3> QED BY <2>3, <3>1, StoreRises DEF Legal, Allowed, EventStatus, Handed
  <2>4. ~Commits
    BY DEF Commits
  <2> QED BY <2>1, <2>2, <2>3, <2>4, Appends
<1>5. Between' => live' = IF Ran("PERSIST")' THEN "PERSISTED" ELSE Entry'
  BY <1>1, <1>2 DEF LiveFollows, Between
<1>6. pc' = "activity" => live' = Before(act.event.type)'
  BY <1>1, <1>3 DEF LiveFollows
<1>7. pc' = "completed" => \/ live' = "PERSISTED" /\ claim'.status \in Handed
                           \/ live' = "FAILED" /\ claim'.status = "FAILED"
  BY <1>1, <1>4 DEF LiveFollows, Handed
<1> QED BY <1>5, <1>6, <1>7 DEF LiveFollows

LEMMA LiveInvariant ==
  ASSUME RunnablePipelines
  PROVE  Spec => [](TypeOK /\ Position /\ Agreement /\ LateActivities /\ LiveFollows)
<1> DEFINE Inv == TypeOK /\ Position /\ Agreement /\ LateActivities /\ LiveFollows
<1>1. Init => Inv
  <2> SUFFICES ASSUME Init PROVE LateActivities /\ LiveFollows
    BY InitType, InitAgreement
  <2>1. live = Entry
    BY InitType, EntryFacts DEF Init
  <2>2. act.event.type = "METADATA_LOGGED"
    BY DEF Init, Scheduled, Plain
  <2> QED BY <2>1, <2>2 DEF Init, LateActivities, LiveFollows, Between, Before
<1>2. Inv /\ [Next]_vars => Inv'
  <2> SUFFICES ASSUME Inv, [Next]_vars PROVE Inv'
    OBVIOUS
  <2>1. TypeOK' /\ Position' /\ LateActivities'
    BY TypeStep, LateStep
  <2>2. Agreement'
    BY AgreementStep
  <2>3. LiveFollows'
    <3>1. CASE UNCHANGED vars
      BY <3>1 DEF vars, engine, store, LiveFollows, Between, Ran, Entry, Before
    <3> QED BY <3>1, LiveEngine, LiveEnvironment DEF Next
  <2> QED BY <2>1, <2>2, <2>3
<1> QED BY <1>1, <1>2, PTL DEF Spec

\* When the run has returned, the query and the row say the same end - PERSISTED, or
\* FAILED after an upload that never came - except that the claim may be notified since.
THEOREM CompletionSafe == ASSUME RunnablePipelines PROVE Spec => []CompletionAgrees
<1>1. TypeOK /\ Position /\ Agreement /\ LateActivities /\ LiveFollows => CompletionAgrees
  BY DEF LiveFollows, CompletionAgrees, Notified, Handed
<1> QED BY LiveInvariant, <1>1, PTL

-----------------------------------------------------------------------------
(***************************************************************************)
(* Failures.  An attempt raises only when its input is missing, which      *)
(* InputsPresent excludes unless the client signals before it has          *)
(* uploaded, or when its event is illegal, which EngineRespectsProjection  *)
(* excludes until the claim is notified about.  So every attempt number    *)
(* above 1 is paid for by a failure of the environment.                    *)
(***************************************************************************)
SpareAttempt == MaxFailures < MaxAttempts

AttemptsCounted ==
  /\ pc = "activity" => act.attempt <= failures + 1 \/ Notified
  /\ pc = "failed" => Notified

\* Nothing takes a claim back out of NOTIFIED and NOTIFY_FAILED.
LEMMA NotifiedStays ==
  ASSUME TypeOK, LateActivities, Position, Notified, [Next]_vars
  PROVE  Notified'
<1>1. CASE UNCHANGED store
  BY <1>1 DEF store, Notified
<1>2. ASSUME NEW e \in Event, Legal(claim, e), Store(e), e.type # "CLAIM_RECEIVED"
      PROVE  Notified'
  <2>1. claim'.status = IF EventStatus(e.type) = "ABSENT" THEN claim.status ELSE EventStatus(e.type)
    BY <1>2, StoreRises
  <2>2. \/ EventStatus(e.type) \in {"ABSENT", claim.status}
        \/ <<claim.status, EventStatus(e.type)>> \in Allowed
    BY <1>2 DEF Legal
  <2> QED BY <2>1, <2>2 DEF Notified, Allowed
<1>3. CASE Engine
  BY <1>1, <1>3, EngineMoves
<1>4. CASE Next /\ ~Engine
  BY <1>1, <1>2, <1>4, Appends
<1> QED BY <1>1, <1>3, <1>4 DEF vars, store

\* An attempt that raises is one that comes after the customer is being told.
LEMMA RaisesWhenNotified ==
  ASSUME ~EagerSignal, TypeOK, InputsPresent, EngineRespectsProjection, AttemptRaises
  PROVE  Notified
<1>1. CASE act.state = "scheduled" /\ ~(Needs \subseteq objects)
  <2>1. \/ act.event.type = "OCR_COMPLETED" /\ Needs = {"source.pdf"}
        \/ act.event.type = "PREDICTIONS_READY" /\ Needs = {"ocr.txt"}
    BY <1>1 DEF Needs
  <2>2. Running
    BY DEF AttemptRaises
  <2> QED BY <1>1, <2>1, <2>2 DEF InputsPresent
<1>2. CASE act.state = "computed" /\ ~Legal(claim, act.event)
  BY <1>2 DEF AttemptRaises, EngineRespectsProjection
<1> QED BY <1>1, <1>2 DEF AttemptRaises

LEMMA AttemptsStep ==
  ASSUME ~EagerSignal, SpareAttempt, TypeOK, Position, LateActivities, InputsPresent,
         EngineRespectsProjection, AttemptsCounted, [Next]_vars
  PROVE  AttemptsCounted'
<1>0. MaxFailures \in Nat /\ MaxAttempts \in Nat /\ failures \in 0..MaxFailures
      /\ act.attempt \in 1..MaxAttempts
  BY WorkflowAssumption DEF TypeOK
<1>1. CASE Notified
  BY <1>1, NotifiedStays DEF AttemptsCounted
<1>2. CASE ~Notified /\ Engine
  <2>1. failures' = failures /\ pc' # "failed" /\ (pc' = "activity" => act'.attempt = 1)
    BY <1>2, EngineMoves
       DEF Starts, Parks, Passes, Returns, Continues, Leaves, Closes, env
  <2> QED BY <1>0, <2>1 DEF AttemptsCounted
<1>3. CASE ~Notified /\ Next /\ ~Engine
  <2>1. CASE GivesUp
    <3>1. failures < MaxFailures /\ failures' = failures + 1
      BY <1>3, <2>1, RaisesWhenNotified DEF GivesUp
    <3>2. pc = "activity" /\ act.attempt <= failures + 1
      BY <1>3, <2>1 DEF GivesUp, AttemptsCounted
    <3>3. act.attempt < MaxAttempts
      BY <1>0, <3>1, <3>2 DEF SpareAttempt
    <3>4. pc' = "activity" /\ act'.attempt = act.attempt + 1
      BY <2>1, <3>3 DEF GivesUp
    <3> QED BY <1>0, <3>1, <3>2, <3>4 DEF AttemptsCounted
  <2>2. CASE ~GivesUp
    <3>1. pc' = pc /\ act'.attempt = act.attempt /\ failures' = failures
      BY <1>3, <2>2, EnvironmentMoves DEF Computes, Commits, CommitsLate, Notifies, Outside
    <3> QED BY <1>3, <3>1 DEF AttemptsCounted
  <2> QED BY <2>1, <2>2
<1>4. CASE UNCHANGED vars
  BY <1>4 DEF vars, engine, store, env, AttemptsCounted, Notified
<1> QED BY <1>1, <1>2, <1>3, <1>4 DEF Next

\* As long as the environment fails fewer attempts than one activity has, and the client
\* signals after its upload, no workflow fails but of a claim that is being told about.
THEOREM FailuresSafe ==
  ASSUME RunnablePipelines, ~EagerSignal, SpareAttempt
  PROVE  Spec => []FailuresMasked
<1>1. Init => AttemptsCounted
  <2> SUFFICES ASSUME Init PROVE AttemptsCounted
    OBVIOUS
  <2>1. act.attempt = 1 /\ failures = 0 /\ pc = "activity"
    BY DEF Init, Scheduled
  <2> QED BY <2>1 DEF AttemptsCounted
<1> DEFINE Safe == TypeOK /\ Position /\ LateActivities /\ InputsPresent /\ EngineRespectsProjection
<1>2. Safe /\ AttemptsCounted /\ [Next]_vars => AttemptsCounted'
  BY AttemptsStep
<1>3. AttemptsCounted => FailuresMasked
  BY DEF AttemptsCounted, FailuresMasked
<1>4. Spec => []Safe
  BY InputsInvariant, InputsSafe, EngineSafe, PTL
<1> QED BY <1>1, <1>2, <1>3, <1>4, PTL DEF Spec

-----------------------------------------------------------------------------
(***************************************************************************)
(* The history.  The outcome of a stage is recorded before the coroutine   *)
(* leaves it and never before it gets there, by whichever attempt; so each *)
(* first record of an outcome finds those of the earlier stages there.     *)
(***************************************************************************)
RecordingStage == {"OCR", "LLM", "ADJUDICATE", "PERSIST"}

Seen(s) == Ran(s) \/ On(s)

\* Each record of the event that ends stage s comes after one of what ends stage r.
Ordered(r, s) == \A m \in DOMAIN log : log[m].type = StageEvent(s) =>
                   \E k \in DOMAIN log : k < m /\ log[k].type = StageEvent(r)

StagesInOrder == \A i, j \in 1..Len(pipeline) :
  i < j /\ pipeline[i] \in RecordingStage /\ pipeline[j] \in RecordingStage
    => Ordered(pipeline[i], pipeline[j])

HistoryFollows ==
  /\ pc = "activity" /\ act.state = "appended" => Recorded(act.event.type)
  /\ \A s \in RecordingStage :
       /\ Ran(s) => Recorded(StageEvent(s))
       /\ Recorded(StageEvent(s)) => Seen(s)
       /\ \A z \in late : z.event.type = StageEvent(s) => Seen(s)
  /\ StagesInOrder

\* What an append adds to the record
LEMMA RecordStep ==
  ASSUME TypeOK, NEW e \in Event, Store(e)
  PROVE  /\ Len(log) \in Nat /\ DOMAIN log = 1..Len(log) /\ DOMAIN log' = 1..(Len(log) + 1)
         /\ \A k \in DOMAIN log : log'[k] = log[k]
         /\ log'[Len(log) + 1] = e
         /\ \A t : Recorded(t)' <=> Recorded(t) \/ e.type = t
<1>1. /\ Len(log) \in Nat /\ DOMAIN log = 1..Len(log) /\ DOMAIN log' = 1..(Len(log) + 1)
      /\ \A k \in DOMAIN log : log'[k] = log[k]
      /\ log'[Len(log) + 1] = e
  BY AppendProperties, LenProperties DEF TypeOK, Store
<1>2. \A t : Recorded(t)' <=> Recorded(t) \/ e.type = t
  BY <1>1 DEF Recorded
<1> QED BY <1>1, <1>2

\* The engine awaits the outcome of the stage it is at, and of no other.
LEMMA AwaitedStage ==
  ASSUME TypeOK, Position, pc = "activity"
  PROVE  /\ \A s \in RecordingStage : act.event.type = StageEvent(s) => On(s)
         /\ act.event.type \notin {"OCR_STARTED", "LLM_STARTED", "CLAIM_FAILED"} =>
              \A s \in RecordingStage : On(s) => act.event.type = StageEvent(s)
<1> DEFINE t == act.event.type
<1>1. t \in ActivityType
  BY DEF TypeOK
<1>2. t = "METADATA_LOGGED" => \A s : ~On(s)
  BY DEF Position, On
<1>3. t # "METADATA_LOGGED" => On(StageOf(t)) /\ \A s : On(s) => s = StageOf(t)
  BY StageOrder DEF Position
<1>4. \A s \in RecordingStage : t = StageEvent(s) => t # "METADATA_LOGGED" /\ StageOf(t) = s
  BY DEF RecordingStage, StageEvent, StageOf
<1>5. t \notin {"OCR_STARTED", "LLM_STARTED", "CLAIM_FAILED", "METADATA_LOGGED"} =>
        \A s \in RecordingStage : StageOf(t) = s => t = StageEvent(s)
  BY <1>1 DEF RecordingStage, StageEvent, StageOf, ActivityType, EventType
<1> QED BY <1>2, <1>3, <1>4, <1>5

\* Stages before one that was reached ran.
LEMMA EarlierRan ==
  ASSUME TypeOK, NEW i \in 1..Len(pipeline), NEW j \in 1..Len(pipeline), i < j,
         Seen(pipeline[j])
  PROVE  Ran(pipeline[i])
<1>1. Len(pipeline) \in Nat /\ DOMAIN pipeline = 1..Len(pipeline) /\ pos \in Nat
  BY WorkflowAssumption, LenProperties DEF TypeOK
<1>2. \A k \in 1..Len(pipeline) : pipeline[k] = pipeline[j] => k = j
  BY <1>1, WorkflowAssumption DEF TypeOK, ValidPipeline, NoDuplicates
<1>3. j <= pos
  BY <1>1, <1>2 DEF Seen, Ran, On
<1> QED BY <1>1, <1>3 DEF Ran

LEMMA HistoryEngine ==
  ASSUME TypeOK, Position, HistoryFollows, Engine
  PROVE  HistoryFollows'
<1>1. UNCHANGED <<pipeline, log, late>>
  BY EngineMoves DEF store
<1>2. \A t : Recorded(t)' <=> Recorded(t)
  BY <1>1 DEF Recorded
<1>3. StagesInOrder'
  BY <1>1 DEF HistoryFollows, StagesInOrder, Ordered
<1>4. ~(pc' = "activity" /\ act'.state = "appended")
  BY EngineMoves DEF Starts, Parks, Passes, Returns, Continues, Leaves, Closes
<1>5. \A s \in RecordingStage : /\ Ran(s)' => Recorded(StageEvent(s))
                                /\ Seen(s) => Seen(s)'
  <2>1. CASE pos' = pos
    BY <1>1, <2>1, RanSteps DEF HistoryFollows, Seen
  <2>2. CASE Passes
    <3>1. pos \in 0..Len(pipeline) /\ pos' = pos + 1 /\ \A s \in RecordingStage : ~On(s)
      BY <2>2, StageOrder DEF Passes, On, RecordingStage
    <3> QED BY <1>1, <3>1, RanSteps DEF HistoryFollows, Seen
  <2>3. CASE Leaves
    <3>1. /\ pos \in 0..Len(pipeline) /\ pos' = pos + 1
          /\ pc = "activity" /\ act.state = "appended"
      BY <2>3 DEF Leaves, Answered
    <3>2. \A s \in RecordingStage : On(s) => Recorded(StageEvent(s))
      BY <2>3, <3>1, AwaitedStage DEF HistoryFollows, Leaves
    <3> QED BY <1>1, <3>1, <3>2, RanSteps DEF HistoryFollows, Seen
  <2> QED BY <2>1, <2>2, <2>3, EngineMoves DEF Starts, Parks, Returns, Continues, Closes
<1> QED BY <1>1, <1>2, <1>3, <1>4, <1>5 DEF HistoryFollows

LEMMA HistoryEnvironment ==
  ASSUME TypeOK, Position, LateActivities, HistoryFollows, Next, ~Engine
  PROVE  HistoryFollows'
<1>1. UNCHANGED <<pipeline, pos>> /\ act'.event.type = act.event.type
      /\ (pc' = "activity" => pc = "activity")
  BY EnvironmentMoves DEF Computes, Commits, GivesUp, CommitsLate, Notifies, Outside
<1>2. \A s : (Ran(s)' <=> Ran(s)) /\ (Seen(s)' <=> Seen(s))
  BY <1>1, RanSteps DEF Seen
<1>3. \A s \in RecordingStage, z \in late' : z.event.type = StageEvent(s) => Seen(s)
  <2>1. CASE GivesUp
    <3>1. pc = "activity" /\ \A z \in late' : z \in late \/ z.event = act.event
      BY <2>1 DEF GivesUp
    <3> QED BY <3>1, AwaitedStage DEF HistoryFollows, Seen
  <2>2. CASE ~GivesUp
    <3>1. late' \subseteq late
      BY <2>2, EnvironmentMoves DEF Computes, Commits, CommitsLate, Notifies, Outside
    <3> QED BY <3>1 DEF HistoryFollows
  <2> QED BY <2>1, <2>2
<1>4. pc' = "activity" /\ act'.state = "appended" =>
        pc = "activity" /\ (act.state = "appended" \/ Commits)
  BY EnvironmentMoves DEF Computes, Commits, GivesUp, CommitsLate, Notifies, Outside
<1>5. CASE UNCHANGED store
  <2>1. log' = log
    BY <1>5 DEF store
  <2>2. \A t : Recorded(t)' <=> Recorded(t)
    BY <2>1 DEF Recorded
  <2>3. ~Commits
    BY <2>1, RecordStep DEF Commits, TypeOK
  <2>4. StagesInOrder'
    BY <1>1, <2>1 DEF HistoryFollows, StagesInOrder, Ordered
  <2> QED BY <1>1, <1>2, <1>3, <1>4, <2>2, <2>3, <2>4 DEF HistoryFollows
<1>6. ASSUME NEW e \in Event, Legal(claim, e), Store(e), e.type # "CLAIM_RECEIVED",
             \/ Commits /\ e = act.event
             \/ CommitsLate /\ \E z \in late : z.event = e
             \/ Notifies /\ e \in {Plain("CLAIM_NOTIFIED"), Plain("NOTIFY_FAILED")}
      PROVE  HistoryFollows'
  <2>1. \A t : Recorded(t)' <=> Recorded(t) \/ e.type = t
    BY <1>6, RecordStep
  <2>2. \A s \in RecordingStage : e.type = StageEvent(s) => Seen(s)
    <3>1. CASE Commits /\ e = act.event
      BY <3>1, AwaitedStage DEF Commits, Seen
    <3>2. CASE \E z \in late : z.event = e
      BY <3>2 DEF HistoryFollows
    <3>3. CASE e \in {Plain("CLAIM_NOTIFIED"), Plain("NOTIFY_FAILED")}
      BY <3>3 DEF Plain, RecordingStage, StageEvent
    <3> QED BY <1>6, <3>1, <3>2, <3>3
  <2>3. pc' = "activity" /\ act'.state = "appended" => Recorded(act.event.type)'
    <3>1. Commits => e.type = act.event.type
      BY <1>6 DEF Commits, CommitsLate, Notifies
    <3>2. PICK t : t = act.event.type /\ t = act'.event.type
      BY <1>1
    <3>3. pc' = "activity" /\ act'.state = "appended" => Recorded(t)'
      BY <1>4, <2>1, <3>1, <3>2 DEF HistoryFollows
    <3> QED BY <3>2, <3>3 DEF Recorded
  <2>4. StagesInOrder'
    <3> SUFFICES ASSUME NEW i \in 1..Len(pipeline), NEW j \in 1..Len(pipeline), i < j,
                        pipeline[i] \in RecordingStage, pipeline[j] \in RecordingStage,
                        NEW m \in DOMAIN log', log'[m].type = StageEvent(pipeline[j])
                 PROVE  \E k \in DOMAIN log' : k < m /\ log'[k].type = StageEvent(pipeline[i])
      BY <1>1 DEF StagesInOrder, Ordered
    <3>1. /\ Len(log) \in Nat /\ DOMAIN log = 1..Len(log) /\ DOMAIN log' = 1..(Len(log) + 1)
          /\ \A k \in DOMAIN log : log'[k] = log[k]
          /\ log'[Len(log) + 1] = e
      BY <1>6, RecordStep
    <3>2. CASE m \in DOMAIN log
      <4>1. PICK k \in DOMAIN log : k < m /\ log[k].type = StageEvent(pipeline[i])
        BY <3>1, <3>2 DEF HistoryFollows, StagesInOrder, Ordered
      <4> QED BY <3>1, <4>1
    <3>3. CASE m = Len(log) + 1
      <4>1. Recorded(StageEvent(pipeline[i]))
        BY <2>2, <3>1, <3>3, EarlierRan DEF HistoryFollows
      <4>2. PICK k \in DOMAIN log : log[k].type = StageEvent(pipeline[i])
        BY <4>1 DEF Recorded
      <4> QED BY <3>1, <3>3, <4>2
    <3> QED BY <3>1, <3>2, <3>3
  <2> QED BY <1>1, <1>2, <1>3, <2>1, <2>2, <2>3, <2>4 DEF HistoryFollows
<1> QED BY <1>5, <1>6, Appends

LEMMA HistoryInit == Init => TypeOK /\ Position /\ LateActivities /\ HistoryFollows
<1> SUFFICES ASSUME Init PROVE LateActivities /\ HistoryFollows
  BY InitType
<1>1. act.state = "scheduled" /\ \A s : ~Ran(s)
  BY DEF Init, Scheduled, Ran
<1>2. \A m \in DOMAIN log : log[m].type = "CLAIM_RECEIVED"
  BY DEF Init, Plain
<1>3. \A s \in RecordingStage : ~Recorded(StageEvent(s))
  BY <1>2 DEF Recorded, RecordingStage, StageEvent
<1>4. StagesInOrder
  BY <1>3 DEF StagesInOrder, Ordered, Recorded
<1> QED BY <1>1, <1>3, <1>4 DEF Init, LateActivities, HistoryFollows

LEMMA HistoryInvariant ==
  Spec => [](TypeOK /\ Position /\ LateActivities /\ HistoryFollows)
<1>1. TypeOK /\ Position /\ LateActivities /\ HistoryFollows /\ [Next]_vars
        => (TypeOK /\ Position /\ LateActivities /\ HistoryFollows)'
  <2> SUFFICES ASSUME TypeOK, Position, LateActivities, HistoryFollows, [Next]_vars
               PROVE  HistoryFollows'
    BY TypeStep, LateStep
  <2>1. CASE UNCHANGED vars
    BY <2>1 DEF vars, engine, store, HistoryFollows, Recorded, Ran, On, Seen, StagesInOrder, Ordered
  <2> QED BY <2>1, HistoryEngine, HistoryEnvironment DEF Next
<1> QED BY HistoryInit, <1>1, PTL DEF Spec

\* A set of naturals has a least element: Min is one.
LEMMA MinFacts ==
  ASSUME NEW T \in SUBSET Nat, T # {}
  PROVE  Min(T) \in T /\ \A y \in T : Min(T) <= y
<1> DEFINE R == OpToRel(<, Nat)
<1>1. IsWellFoundedOn(R, Nat)
  BY NatLessThanWellFounded
<1>2. \A x, y \in Nat : <<y, x>> \in R <=> y < x
  BY DEF OpToRel
<1> HIDE DEF R
<1>3. PICK x \in T : \A y \in T : ~ (<<y, x>> \in R)
  BY <1>1, WFMin
<1>4. x \in Nat /\ \A y \in T : y \in Nat
  OBVIOUS
<1>5. \A y \in T : ~ (y < x)
  BY <1>2, <1>3, <1>4, Zenon
<1>6. \A y \in T : x <= y
  BY <1>4, <1>5
<1> QED BY <1>6, Zenon DEF Min

\* With the pipeline done, nothing of it is missing and it happened in order.
LEMMA CompleteHistory ==
  ASSUME TypeOK, HistoryFollows
  PROVE  PersistedIsComplete
<1> SUFFICES ASSUME Recorded("CLAIM_PERSISTED") PROVE PersistedIsComplete
  BY DEF PersistedIsComplete
<1> DEFINE p == pipeline
           Records(t) == {m \in DOMAIN log : log[m].type = t}
           recording == {i \in DOMAIN p : p[i] \notin {"UPLOAD", "REVIEW"}}
<1>1. Len(p) \in Nat /\ DOMAIN p = 1..Len(p) /\ pos \in Nat
  BY WorkflowAssumption, LenProperties DEF TypeOK
<1>2. p # <<>> /\ p[Len(p)] = "PERSIST" /\ Len(p) \in 1..Len(p)
  BY <1>1, WorkflowAssumption, EmptySeq DEF TypeOK, ValidPipeline
<1>3. \A i \in recording : i \in 1..Len(p) /\ p[i] \in RecordingStage
  BY <1>1, WorkflowAssumption, ElementOfSeq DEF TypeOK, Stage, RecordingStage
<1>4. Seen("PERSIST")
  BY DEF HistoryFollows, RecordingStage, StageEvent
<1>5. \A i \in recording : Recorded(StageEvent(p[i]))
  <2> SUFFICES ASSUME NEW i \in recording PROVE Recorded(StageEvent(p[i]))
    OBVIOUS
  <2>1. CASE i = Len(p)
    BY <1>2, <2>1 DEF StageEvent
  <2>2. CASE i # Len(p)
    BY <1>1, <1>2, <1>3, <1>4, <2>2, EarlierRan DEF HistoryFollows
  <2> QED BY <2>1, <2>2
<1>6. \A t : Recorded(t) => /\ Records(t) \in SUBSET Nat /\ Records(t) # {}
                            /\ Min(Records(t)) \in Records(t)
                            /\ \A y \in Records(t) : Min(Records(t)) <= y
  <2> SUFFICES ASSUME NEW t, Recorded(t)
               PROVE  Records(t) \in SUBSET Nat /\ Records(t) # {}
    BY MinFacts
  <2>1. DOMAIN log = 1..Len(log) /\ Len(log) \in Nat
    BY LenProperties DEF TypeOK
  <2> QED BY <2>1 DEF Recorded
<1>7. ASSUME NEW i \in recording, NEW j \in recording, i < j
      PROVE  Min(Records(StageEvent(p[i]))) < Min(Records(StageEvent(p[j])))
  <2> DEFINE M == Min(Records(StageEvent(p[j])))
  <2>1. M \in Records(StageEvent(p[j]))
    BY <1>5, <1>6
  <2>2. PICK k \in DOMAIN log : k < M /\ log[k].type = StageEvent(p[i])
    BY <1>3, <1>7, <2>1 DEF HistoryFollows, StagesInOrder, Ordered
  <2>3. k \in Records(StageEvent(p[i]))
    BY <2>2
  <2>4. Min(Records(StageEvent(p[i]))) <= k
    BY <1>5, <1>6, <2>3
  <2>5. /\ k \in Nat /\ M \in Nat /\ Min(Records(StageEvent(p[i]))) \in Nat
    BY <1>5, <1>6, <2>1, <2>3
  <2> HIDE DEF M
  <2> QED BY <2>2, <2>4, <2>5 DEF M
<1> HIDE DEF Records
<1>8. \A t : {m \in DOMAIN log : log[m].type = t} = Records(t)
  BY DEF Records
<1> QED BY <1>5, <1>7, <1>8 DEF PersistedIsComplete

\* A persisted claim has the outcome of every recording stage on record, first recorded in
\* pipeline order: for every valid pipeline, however attempts fail, repeat or come late.
THEOREM HistoryComplete == Spec => []PersistedIsComplete
<1>1. TypeOK /\ HistoryFollows => PersistedIsComplete
  BY CompleteHistory
<1> QED BY HistoryInvariant, <1>1, PTL

-----------------------------------------------------------------------------
(***************************************************************************)
(* The workflow's copy of the decision, when no abandoned attempt appends  *)
(* any more (MaxLate = 0).  The decision events are then only those the    *)
(* engine awaits, so ADJUDICATE's are all before REVIEW's.                 *)
(***************************************************************************)
LEMMA NoneLate ==
  ASSUME MaxLate = 0
  PROVE  Spec => [](TypeOK /\ Position /\ LateActivities /\ late = {})
<1>1. Init => late = {}
  BY DEF Init
<1>2. TypeOK /\ Position /\ late = {} /\ [Next]_vars => (late = {})'
  <2> SUFFICES ASSUME TypeOK, Position, late = {}, [Next]_vars PROVE late' = {}
    OBVIOUS
  <2>1. CASE Engine
    BY <2>1, EngineMoves
  <2>2. CASE Next /\ ~Engine
    BY <2>2, EnvironmentMoves DEF Computes, Commits, GivesUp, CommitsLate, Notifies, Outside
  <2> QED BY <2>1, <2>2 DEF Next, vars
<1> QED BY <1>1, <1>2, InputsInvariant, PTL DEF Spec

\* With no attempt late, an append is of the awaited event, at its stage, or the notifier's.
CommitsAwaited(e) ==
  /\ Commits /\ e = act.event
  /\ e.type = "PREDICTIONS_READY" => On("LLM")
  /\ e.type = "CLAIM_ADJUDICATED" => On("ADJUDICATE")
  /\ e.type = "REVIEW_COMPLETED" => On("REVIEW")
  /\ UNCHANGED ruling

CommitsNotice(e) ==
  Notifies /\ UNCHANGED ruling /\ e.type \in {"CLAIM_NOTIFIED", "NOTIFY_FAILED"}

LEMMA AppendsNow ==
  ASSUME TypeOK, Position, LateActivities, late = {}, Next, ~Engine
  PROVE  \/ UNCHANGED store
         \/ \E e \in Event : /\ Store(e) /\ e.type # "CLAIM_RECEIVED"
                             /\ CommitsAwaited(e) \/ CommitsNotice(e)
<1>1. ASSUME NEW e \in Event, Store(e), e.type # "CLAIM_RECEIVED", Commits, e = act.event
      PROVE  CommitsAwaited(e)
  <2>1. pc = "activity" /\ UNCHANGED ruling
    BY <1>1 DEF Commits
  <2> QED BY <1>1, <2>1 DEF CommitsAwaited, Position, StageOf
<1>2. ASSUME NEW e \in Event, Notifies, e \in {Plain("CLAIM_NOTIFIED"), Plain("NOTIFY_FAILED")}
      PROVE  CommitsNotice(e)
  <2>1. e.type \in {"CLAIM_NOTIFIED", "NOTIFY_FAILED"}
    BY <1>2 DEF Plain
  <2>2. UNCHANGED ruling
    BY <1>2 DEF Notifies
  <2> QED BY <1>2, <2>1, <2>2 DEF CommitsNotice
<1> QED BY <1>1, <1>2, Appends

\* self._decision is the row's decision up to the REVIEW stage, but while the outcome of
\* the adjudication is on its way.
DecisionFollows ==
  /\ ~Ran("REVIEW") /\ (Between \/ (pc = "activity" /\ act.event.type \notin DecisionEvents))
       => decision = claim.decision
  /\ Awaits("CLAIM_ADJUDICATED") /\ act.state = "appended" => claim.decision = act.event.decision

LEMMA DecisionEngine ==
  ASSUME TypeOK, Position, DecisionFollows, Engine
  PROVE  DecisionFollows'
<1>1. UNCHANGED <<pipeline, claim>>
  BY EngineMoves DEF store
<1>2. CASE Starts \/ Continues
  <2>1. pos' = pos /\ act'.state = "scheduled" /\ decision' = decision
    BY <1>2 DEF Starts, Continues, Answered, DecisionAfter
  <2>2. ~Between'
    BY <1>2 DEF Starts, Continues, Between
  <2>3. Between \/ (pc = "activity" /\ act.event.type \notin DecisionEvents)
    BY <1>2 DEF Starts, Continues, Answered, DecisionEvents
  <2>4. Ran("REVIEW")' <=> Ran("REVIEW")
    BY <1>1, <2>1, RanSteps
  <2> QED BY <1>1, <2>1, <2>2, <2>3, <2>4 DEF DecisionFollows, Awaits
<1>3. CASE Parks
  <2>1. Ran("REVIEW")' <=> Ran("REVIEW")
    BY <1>1, <1>3, RanSteps DEF Parks
  <2> QED BY <1>1, <1>3, <2>1 DEF Parks, Between, DecisionFollows, Awaits
<1>4. CASE Passes
  <2>1. Ran("REVIEW") => Ran("REVIEW")'
    BY <1>1, <1>4, RanSteps DEF Passes, On
  <2> QED BY <1>1, <1>4, <2>1 DEF Passes, DecisionFollows, Awaits
<1>5. CASE Leaves
  <2>1. Ran("REVIEW")' <=> Ran("REVIEW") \/ On("REVIEW")
    BY <1>1, <1>5, RanSteps DEF Leaves
  <2>2. /\ pc = "activity" /\ act.state = "appended" /\ decision' = DecisionAfter(act.event)
        /\ pc' = "next"
    BY <1>5 DEF Leaves, Answered
  <2>3. ~Ran("REVIEW")' => decision' = claim.decision
    <3> SUFFICES ASSUME ~Ran("REVIEW"), ~On("REVIEW") PROVE decision' = claim.decision
      BY <2>1
    <3>1. act.event.type # "REVIEW_COMPLETED"
      BY <2>2 DEF Position, StageOf
    <3> QED BY <2>2, <3>1 DEF DecisionAfter, DecisionFollows, DecisionEvents, Awaits
  <2> QED BY <1>1, <2>2, <2>3 DEF DecisionFollows, Awaits
<1>6. CASE Returns \/ Closes
  BY <1>6 DEF Returns, Closes, DecisionFollows, Between, Awaits
<1> QED BY <1>2, <1>3, <1>4, <1>5, <1>6, EngineMoves

LEMMA DecisionEnvironment ==
  ASSUME TypeOK, Position, LateActivities, late = {}, DecisionFollows, Next, ~Engine
  PROVE  DecisionFollows'
<1>1. /\ UNCHANGED decision /\ act'.event.type = act.event.type
      /\ pc' # "failed" => pc' = pc
  BY EnvironmentMoves DEF Computes, Commits, GivesUp, CommitsLate, Notifies, Outside
<1>2. Ran("REVIEW")' <=> Ran("REVIEW")
  BY EnvironmentMoves, RanSteps
<1>3. pc' = "activity" /\ act'.state = "appended" =>
        Commits \/ (act.state = "appended" /\ act' = act)
  BY EnvironmentMoves DEF Computes, Commits, GivesUp, CommitsLate, Notifies, Outside
<1>4. CASE UNCHANGED claim /\ ~Commits
  BY <1>1, <1>2, <1>3, <1>4 DEF DecisionFollows, Between, Awaits
<1>5. ASSUME NEW e \in Event, Store(e), e.type # "CLAIM_RECEIVED", CommitsNotice(e)
      PROVE  DecisionFollows'
  <2>1. claim'.decision = claim.decision /\ ~Commits
    BY <1>5, StoreEffect DEF CommitsNotice, DecisionEvents, Notifies, Commits
  <2> QED BY <1>1, <1>2, <1>3, <2>1 DEF DecisionFollows, Between, Awaits
<1>6. ASSUME NEW e \in Event, Store(e), e.type # "CLAIM_RECEIVED", CommitsAwaited(e)
      PROVE  DecisionFollows'
  <2>1. pc = "activity" /\ pc' = "activity" /\ e = act.event /\ e = act'.event
    BY <1>6 DEF CommitsAwaited, Commits
  <2>2. claim'.decision = IF e.type \in DecisionEvents THEN e.decision ELSE claim.decision
    BY <1>6, StoreEffect
  <2> QED BY <1>1, <1>2, <2>1, <2>2 DEF DecisionFollows, Between, Awaits, DecisionEvents
<1>7. CASE UNCHANGED store /\ Commits
  BY <1>7, RecordStep DEF store, Commits, TypeOK
<1> QED BY <1>4, <1>5, <1>6, <1>7, AppendsNow DEF store

\* Whenever the REVIEW gate looks at the workflow's copy, it is the row's decision.
THEOREM GateSafe == ASSUME MaxLate = 0 PROVE Spec => []GateSeesDecision
<1>1. Init => DecisionFollows
  <2> SUFFICES ASSUME Init PROVE DecisionFollows
    OBVIOUS
  <2>1. decision = claim.decision /\ act.event.type = "METADATA_LOGGED"
    BY DEF Init, Scheduled, Plain, Project
  <2> QED BY <2>1 DEF DecisionFollows, Awaits
<1> DEFINE Quiet == TypeOK /\ Position /\ LateActivities /\ late = {}
<1>2. Quiet /\ DecisionFollows /\ [Next]_vars => DecisionFollows'
  <2> SUFFICES ASSUME Quiet, DecisionFollows, [Next]_vars PROVE DecisionFollows'
    OBVIOUS
  <2>1. CASE UNCHANGED vars
    BY <2>1 DEF vars, engine, store, DecisionFollows, Between, Awaits, Ran
  <2> QED BY <2>1, DecisionEngine, DecisionEnvironment DEF Next
<1>3. Quiet /\ DecisionFollows => GateSeesDecision
  <2> SUFFICES ASSUME TypeOK, Position, DecisionFollows, At("REVIEW") \/ pc = "review"
               PROVE  decision = claim.decision
    BY DEF GateSeesDecision
  <2>1. On("REVIEW") /\ Between
    BY WorkflowAssumption, LenProperties DEF At, Position, On, Between, TypeOK
  <2> QED BY <2>1, StageOrder DEF DecisionFollows
<1> QED BY <1>1, <1>2, <1>3, NoneLate, PTL DEF Spec

-----------------------------------------------------------------------------
(***************************************************************************)
(* The decision, with any number of late attempts, changed rules and       *)
(* reviewers.  ReviewArrives schedules REVIEW_COMPLETED once, with the     *)
(* verdict it finds; retries and late attempts carry that one, whatever    *)
(* has been signalled since (Verdict).  An adjudication is not awaited     *)
(* again once it has been answered, so only an abandoned one is left.      *)
(***************************************************************************)
HasVerdict == Ran("REVIEW") \/ (On("REVIEW") /\ pc \in {"activity", "failed"})

Verdict(v) ==
  /\ \A i \in DOMAIN log : log[i].type = "REVIEW_COMPLETED" => log[i].decision = v
  /\ \A z \in late : z.event.type = "REVIEW_COMPLETED" => z.event.decision = v
  /\ Awaits("REVIEW_COMPLETED") => act.event.decision = v

VerdictFollows ==
  /\ \E v \in Decision : Verdict(v)
  /\ Recorded("REVIEW_COMPLETED") => HasVerdict
  /\ (\E z \in late : z.event.type = "REVIEW_COMPLETED") => HasVerdict

AnswerFollows == decision # "NONE" => Ran("ADJUDICATE")

HandedOver == Recorded("CLAIM_PERSISTED") => claim.status \in Handed

Settling == VerdictFollows /\ AnswerFollows /\ HandedOver

LEMMA VerdictTaken ==
  ASSUME TypeOK, Position, Engine, HasVerdict
  PROVE  HasVerdict'
<1>1. UNCHANGED pipeline
  BY EngineMoves
<1>2. CASE Starts \/ Continues
  <2>1. pos' = pos /\ pc' = "activity"
    BY <1>2 DEF Starts, Continues
  <2> QED BY <1>1, <2>1, RanSteps DEF HasVerdict
<1>3. CASE Parks \/ Returns
  <2>1. pos' = pos /\ Ran("REVIEW")
    BY <1>3 DEF Parks, Returns, HasVerdict
  <2> QED BY <1>1, <2>1, RanSteps DEF HasVerdict
<1>4. CASE Passes \/ Leaves
  <2>1. pos \in 0..Len(pipeline) /\ pos' = pos + 1
    BY <1>4 DEF Passes, Leaves, On
  <2> QED BY <1>1, <2>1, RanSteps DEF HasVerdict
<1>5. CASE Closes
  <2>1. pos' = pos /\ On("UPLOAD")
    BY <1>5 DEF Closes, Answered, Position, StageOf
  <2>2. Ran("REVIEW")
    BY <2>1, StageOrder DEF HasVerdict
  <2> QED BY <1>1, <2>1, <2>2, RanSteps DEF HasVerdict
<1> QED BY <1>2, <1>3, <1>4, <1>5, EngineMoves

LEMMA SettlingEngine ==
  ASSUME TypeOK, Position, Settling, Engine
  PROVE  Settling'
<1>1. UNCHANGED <<pipeline, late, log, claim>> /\ TypeOK'
  BY EngineMoves, EngineType DEF store
<1>2. /\ Recorded("REVIEW_COMPLETED")' => HasVerdict'
      /\ (\E z \in late' : z.event.type = "REVIEW_COMPLETED") => HasVerdict'
  BY <1>1, VerdictTaken DEF Settling, VerdictFollows, Recorded
<1>3. \E v \in Decision : Verdict(v)'
  <2>1. CASE Starts /\ act'.event.type = "REVIEW_COMPLETED"
    <3>1. On("REVIEW") /\ pc \notin {"activity", "failed"}
      BY <2>1 DEF Starts, StageOf, Between
    <3>2. ~HasVerdict
      BY <3>1, StageOrder DEF HasVerdict
    <3>3. act'.event.decision \in Decision
      BY <1>1 DEF TypeOK, Event
    <3>4. Verdict(act.event.decision)'
      BY <1>1, <3>2 DEF Settling, VerdictFollows, Verdict, Recorded
    <3> QED BY <3>3, <3>4 DEF Verdict
  <2>2. CASE ~(Starts /\ act'.event.type = "REVIEW_COMPLETED")
    <3>1. PICK v \in Decision : Verdict(v)
      BY DEF Settling, VerdictFollows
    <3>2. ~Awaits("REVIEW_COMPLETED")'
      BY <2>2, EngineMoves
         DEF Awaits, Starts, Parks, Passes, Returns, Continues, Second, Leaves, Closes
    <3> QED BY <1>1, <3>1, <3>2 DEF Verdict
  <2> QED BY <2>1, <2>2
<1>4. AnswerFollows'
  <2>1. CASE Leaves
    <3>1. Ran("ADJUDICATE")' <=> Ran("ADJUDICATE") \/ On("ADJUDICATE")
      BY <1>1, <2>1, RanSteps DEF Leaves
    <3>2. pc = "activity" /\ decision' = DecisionAfter(act.event)
      BY <2>1 DEF Leaves, Answered
    <3>3. act.event.type = "CLAIM_ADJUDICATED" => On("ADJUDICATE")
      BY <3>2 DEF Position, StageOf
    <3>4. act.event.type = "REVIEW_COMPLETED" => Ran("ADJUDICATE")
      BY <3>2, StageOrder DEF Position, StageOf
    <3> QED BY <3>1, <3>2, <3>3, <3>4 DEF DecisionAfter, Settling, AnswerFollows
  <2>2. CASE ~Leaves
    <3>1. decision' = decision
      BY <2>2, EngineMoves
         DEF Starts, Parks, Passes, Returns, Continues, Closes, Answered, DecisionAfter
    <3>2. Ran("ADJUDICATE") => Ran("ADJUDICATE")'
      BY <1>1, <2>2, EngineMoves, RanSteps
         DEF Starts, Parks, Passes, Returns, Continues, Closes, On
    <3> QED BY <3>1, <3>2 DEF Settling, AnswerFollows
  <2> QED BY <2>1, <2>2
<1>5. HandedOver'
  BY <1>1 DEF Settling, HandedOver, Recorded
<1> QED BY <1>2, <1>3, <1>4, <1>5 DEF Settling, VerdictFollows

\* An event that is appended, now or late, repeats the verdict if it is one.
LEMMA RepeatsVerdict ==
  ASSUME TypeOK, Position, VerdictFollows, NEW v, Verdict(v), NEW e \in Event,
         e.type = "REVIEW_COMPLETED",
         \/ pc = "activity" /\ e = act.event
         \/ \E z \in late : z.event = e
         \/ e \in {Plain("CLAIM_NOTIFIED"), Plain("NOTIFY_FAILED")}
  PROVE  e.decision = v /\ HasVerdict
<1>1. CASE pc = "activity" /\ e = act.event
  BY <1>1 DEF Verdict, Awaits, Position, StageOf, HasVerdict
<1>2. CASE \E z \in late : z.event = e
  BY <1>2 DEF Verdict, VerdictFollows
<1>3. CASE e \in {Plain("CLAIM_NOTIFIED"), Plain("NOTIFY_FAILED")}
  BY <1>3 DEF Plain
<1> QED BY <1>1, <1>2, <1>3

LEMMA SettlingEnvironment ==
  ASSUME TypeOK, Position, LateActivities, Settling, Next, ~Engine
  PROVE  Settling'
<1>1. /\ UNCHANGED <<pipeline, pos, decision>>
      /\ \A s : (Ran(s)' <=> Ran(s)) /\ (On(s)' <=> On(s))
  BY EnvironmentMoves, RanSteps
<1>2. /\ pc' = pc \/ (pc = "activity" /\ pc' = "failed")
      /\ act'.event.type = act.event.type
      /\ act.event.type = "REVIEW_COMPLETED" => act'.event.decision = act.event.decision
      /\ \A z \in late' : z \in late \/ (pc = "activity" /\ z.event = act.event)
  BY EnvironmentMoves DEF Computes, Commits, GivesUp, CommitsLate, Notifies, Outside
<1>3. HasVerdict => HasVerdict'
  BY <1>1, <1>2 DEF HasVerdict
<1>4. PICK v \in Decision : Verdict(v)
  BY DEF Settling, VerdictFollows
<1>5. act.event \in Event /\ \A z \in late : z.event \in Event
  BY DEF TypeOK
<1>6. \A z \in late' : z.event.type = "REVIEW_COMPLETED" => z.event.decision = v /\ HasVerdict'
  BY <1>2, <1>3, <1>4, <1>5, RepeatsVerdict DEF Settling
<1>7. Awaits("REVIEW_COMPLETED")' => act'.event.decision = v
  BY <1>2, <1>4 DEF Verdict, Awaits
<1>8. AnswerFollows'
  BY <1>1 DEF Settling, AnswerFollows
<1>9. CASE UNCHANGED store
  <2>1. log' = log /\ claim' = claim
    BY <1>9 DEF store
  <2> QED BY <1>3, <1>4, <1>6, <1>7, <1>8, <2>1
          DEF Settling, VerdictFollows, Verdict, HandedOver, Recorded
<1>10. ASSUME NEW e \in Event, Legal(claim, e), Store(e), e.type # "CLAIM_RECEIVED",
              \/ Commits /\ e = act.event
              \/ CommitsLate /\ \E z \in late : z.event = e
              \/ Notifies /\ e \in {Plain("CLAIM_NOTIFIED"), Plain("NOTIFY_FAILED")}
       PROVE  Settling'
  <2>1. /\ Len(log) \in Nat /\ DOMAIN log = 1..Len(log) /\ DOMAIN log' = 1..(Len(log) + 1)
        /\ \A k \in DOMAIN log : log'[k] = log[k]
        /\ log'[Len(log) + 1] = e
        /\ \A t : Recorded(t)' <=> Recorded(t) \/ e.type = t
    BY <1>10, RecordStep
  <2>2. e.type = "REVIEW_COMPLETED" => e.decision = v /\ HasVerdict
    BY <1>4, <1>10, RepeatsVerdict DEF Settling, Commits
  <2>3. \A k \in DOMAIN log' : log'[k].type = "REVIEW_COMPLETED" => log'[k].decision = v
    BY <1>4, <2>1, <2>2 DEF Verdict
  <2>4. Recorded("REVIEW_COMPLETED")' => HasVerdict'
    BY <1>3, <2>1, <2>2 DEF Settling, VerdictFollows
  <2>5. HandedOver'
    <3>1. claim'.status = IF EventStatus(e.type) = "ABSENT" THEN claim.status
                          ELSE EventStatus(e.type)
      BY <1>10 DEF Store, Project
    <3>2. claim.status \in Handed => claim'.status \in Handed
      BY <1>10, <3>1 DEF Legal, Allowed, Handed
    <3>3. e.type = "CLAIM_PERSISTED" => claim'.status \in Handed
      BY <3>1 DEF EventStatus, Handed
    <3> QED BY <2>1, <3>2, <3>3 DEF Settling, HandedOver
  <2> QED BY <1>4, <1>6, <1>7, <1>8, <2>3, <2>4, <2>5 DEF Settling, VerdictFollows, Verdict
<1> QED BY <1>9, <1>10, Appends

LEMMA SettlingInvariant ==
  Spec => [](TypeOK /\ Position /\ LateActivities /\ Settling)
<1>1. Init => Settling
  <2> SUFFICES ASSUME Init PROVE Settling
    OBVIOUS
  <2>1. /\ decision = "NONE" /\ late = {} /\ ~Awaits("REVIEW_COMPLETED")
        /\ \A i \in DOMAIN log : log[i].type = "CLAIM_RECEIVED"
    BY DEF Init, Scheduled, Plain, Awaits
  <2>2. Verdict("NONE") /\ "NONE" \in Decision
    BY <2>1 DEF Verdict, Decision
  <2> QED BY <2>1, <2>2 DEF Settling, VerdictFollows, AnswerFollows, HandedOver, Recorded
<1>2. TypeOK /\ Position /\ LateActivities /\ Settling /\ [Next]_vars => Settling'
  <2> SUFFICES ASSUME TypeOK, Position, LateActivities, Settling, [Next]_vars PROVE Settling'
    OBVIOUS
  <2>1. CASE UNCHANGED vars
    BY <2>1 DEF vars, engine, store, Settling, VerdictFollows, AnswerFollows, HandedOver,
                Verdict, HasVerdict, Recorded, Awaits, Ran, On
  <2> QED BY <2>1, SettlingEngine, SettlingEnvironment DEF Next
<1> QED BY <1>1, <1>2, InputsInvariant, PTL DEF Spec

\* A step that changes a decision the workflow has been given: a verdict's, or late.
LEMMA SettledStep ==
  ASSUME TypeOK, Position, LateActivities, Settling, Next,
         decision # "NONE", claim'.decision # claim.decision
  PROVE  SameVerdict \/ LateAdjudication
<1>1. ~Engine /\ ~UNCHANGED store
  BY EngineMoves DEF store
<1>2. ASSUME NEW e \in Event, e.type = "REVIEW_COMPLETED", Store(e)
      PROVE  SameVerdict
  <2>1. PICK v \in Decision : Verdict(v)'
    BY <1>1, SettlingEnvironment DEF Settling, VerdictFollows
  <2>2. /\ Len(log') = Len(log) + 1 /\ Len(log') \in DOMAIN log' /\ log'[Len(log')] = e
    BY <1>2, AppendProperties, LenProperties DEF Store, TypeOK
  <2>3. claim'.decision = e.decision
    BY <1>2, StoreEffect DEF DecisionEvents
  <2>4. \A i \in DOMAIN log' : log'[i].type = "REVIEW_COMPLETED" => log'[i].decision = v
    BY <2>1 DEF Verdict
  <2> QED BY <1>2, <2>2, <2>3, <2>4 DEF SameVerdict
<1>3. CASE AppendEvent
  <2>1. Store(act.event) /\ act.event \in Event /\ act.event.type # "CLAIM_RECEIVED"
        /\ pc = "activity"
    BY <1>3 DEF AppendEvent, Running, TypeOK, ActivityType
  <2>2. act.event.type \in DecisionEvents
    BY <2>1, StoreEffect
  <2>3. act.event.type # "CLAIM_ADJUDICATED"
    <3>1. ~On("ADJUDICATE")
      BY StageOrder DEF Settling, AnswerFollows
    <3> QED BY <2>1, <3>1 DEF Position, StageOf
  <2> QED BY <1>2, <2>1, <2>2, <2>3 DEF DecisionEvents
<1>4. CASE \E z \in late : LateAppend(z)
  <2>1. PICK z \in late : LateAppend(z)
    BY <1>4
  <2>2. /\ Legal(claim, z.event) /\ Store(z.event) /\ late' = late \ {z}
        /\ z.event \in Event /\ z.event.type # "CLAIM_RECEIVED"
    BY <1>1, <2>1 DEF LateAppend, LateActivities, ActivityType, TypeOK
  <2>3. z.event.type \in DecisionEvents
    BY <2>2, StoreEffect
  <2>4. CASE z.event.type = "CLAIM_ADJUDICATED"
    <3>1. claim.status \notin Handed
      BY <2>2, <2>4 DEF Legal, EventStatus, Allowed, Handed
    <3> QED BY <2>2, <2>4, <3>1 DEF LateAdjudication, Settling, HandedOver
  <2> QED BY <1>2, <2>2, <2>3, <2>4 DEF DecisionEvents
<1>5. CASE \E t \in {"CLAIM_NOTIFIED", "NOTIFY_FAILED"} : NotifierAppends(t)
  <2>1. PICK t \in {"CLAIM_NOTIFIED", "NOTIFY_FAILED"} : Store(Plain(t))
    BY <1>5 DEF NotifierAppends
  <2>2. Plain(t) \in Event /\ Plain(t).type = t
    BY PlainType DEF EventType
  <2> QED BY <2>1, <2>2, StoreEffect DEF DecisionEvents
<1>6. CASE \/ Compute \/ AttemptRaises \/ AttemptFails \/ AttemptTimesOut
           \/ ClientPuts \/ MarkUploaded \/ RulingChanges
           \/ \E r \in Reviewers : ReviewerChecks(r) \/ ReviewerSignals(r)
  BY <1>1, <1>6 DEF Compute, AttemptRaises, AttemptFails, AttemptTimesOut, ClientPuts,
                    MarkUploaded, RulingChanges, ReviewerChecks, ReviewerSignals
<1> QED BY <1>1, <1>3, <1>4, <1>5, <1>6 DEF Next, Attempt

\* Once the rules have answered the workflow, the row's decision is changed only by the one
\* verdict of a human or by an abandoned adjudication, and by that only before the claim is
\* persisted: for any retries, late attempts, reviewers and changes of the rules.
THEOREM DecisionsSettle == Spec => DecisionSettled
<1>1. TypeOK /\ Position /\ LateActivities /\ Settling /\ [Next]_vars =>
        [decision # "NONE" /\ claim'.decision # claim.decision
           => SameVerdict \/ LateAdjudication]_vars
  BY SettledStep
<1> QED BY <1>1, SettlingInvariant, PTL DEF Spec, DecisionSettled
=============================================================================
