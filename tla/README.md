# claimpipe in TLA+

Claimpipe takes insurance claims over HTTP, runs each through a configurable pipeline
(`UPLOAD → OCR → LLM → ADJUDICATE → REVIEW → PERSIST`) as a Temporal workflow, records everything
as domain events in Postgres, and tells the customer by webhook. One image runs in four roles
(`charts/claimpipe/values.yaml`): 2 API pods, 3 workers, 1 relay, 2 notifiers. The correctness
questions are about what happens *between* them: no two of Postgres, Temporal, Kafka and the
customer's endpoint share a transaction.

Run a check with `tlc -config X.cfg M`, a proof with `tlapm M.tla`; `PROJECT.json` pairs each
configuration with its module and each definition with the source lines it translates.
Paths below are under `src/src/claimpipe/` unless they begin with `docs/`, `tests/` or `README`.

## 1. Inventory

| Component | State it keeps | Operations | Interacts by | What is hard |
|---|---|---|---|---|
| Projection (`projection.py`, `domain/`) | none: a fold | `project` | called in every append | which histories are legal |
| Claim types (`claimtypes.py`) | registry of pipelines | `register`, `get` | stage list pinned into the workflow input | accepted vs. runnable pipelines |
| Event stores (`eventstore.py`, migrations) | Postgres: `claim_events`, `claims`, `model_outputs`, `outbox`; in memory: dictionaries | `append`, reads, `fetch_unpublished`, `mark_published` | SQL transactions at READ COMMITTED; no await | seq read before insert, index waits, ids drawn before commit; two implementations of one protocol |
| Outbox relay (`relay.py`) | a batch in memory | `run_once` for ever | outbox → Kafka | crash between publish and mark, two relays during a rolling update |
| Bus (`adapters/bus.py`) | the topic | `publish` | keyed by claim | repetition, order |
| Workflow (`temporal/workflows.py`) | stage, decision, signals, live status | stages, two dormancy gates | activities, signals, query | retries, timers against signals |
| Activities (`temporal/activities.py`) | none | `record_event`, `run_ocr`, `run_llm`, `run_adjudication` | store, object store, models | lost answers, attempts that outlive their timeout, torn reads |
| Rules and routing (`adjudication.py`, `llm.py`, `refdata.py`) | rule sets, reference data | `adjudicate`, `should_escalate`, `enrich_facts` | pure | boundaries, missing facts |
| Submission API (`api/app.py`) | none | `_submit`, `/uploaded`, `/review` | store, then Temporal | two systems, two pods, client retries |
| Notifier (`notifier.py`) | offset, a delivery in hand | `handle_event`, `_notify`, DLQ replay | Kafka group, webhook, store | auto-commit, starting offset, rebalance, stale replay list |
| Read endpoints, customers, output adapters (`api/app.py`, `customers.py`, `adapters/output.py`) | keys and roles | documents, `/review-queue` | several store reads per call | reads that are not one transaction |
| Intake adapters, agent, wiring, portal, deployment | – | – | – | not modelled (section 7) |

What makes each correct: the row is the fold of its events and seq has no gap or fork (store); a
claim's events reach the topic, in order (relay); the engine only asks for legal events, failures
are masked, a human's verdict is kept (workflow); an approval rests on the evidence it claims
(adjudication); one key, one claim (submission); a persisted claim is reported on and the outcome
stands (notifier); a document shows the evidence of its decision (read side); every claim is
answered, and what the customer was told stays true (the whole).

## 2. Modules

```
Projection ── EventStore ◄─ refines ─ PostgresStore ── PostgresStoreProofs
   │  │          │   └────── ReadApi ── ReadApiProofs
   │  │          └────────── StoreTwins ── InMemoryStore, PostgresStore (proofs: PostgresStoreProofs)
   │  └────── ClaimWorkflow (+ ClaimTypes) ── ClaimWorkflowProofs
   │              └── EndToEnd ──┐ ── EndToEndProofs
   └───────── Notifier ──────────┴─ consumes ─► EventBus ◄─ refines ─ OutboxRelay ── OutboxRelayProofs
                  └── NotifierProofs
Rules ─────── Adjudication ── AdjudicationProofs          Submission ── SubmissionProofs
```

The `MC*` modules only give constants values and symmetries.

* **Projection** – `project` as `Legal` and `Project`; a claim is (status, decision, has `ocr_ref`).
* **ClaimTypes** – `validate_pipeline`, the shipped registry.
* **EventStore** – *abstract*: an append of one event is one step on history, row, predictions,
  keys and outbox. This is the granularity every other module uses for the store.
* **PostgresStore** – `append` statement by statement for several connections. A statement that
  meets an uncommitted entry in a unique index is disabled until that transaction ends, one that
  meets a committed entry aborts. `outbox.id` is drawn when the INSERT runs, the row is visible
  at commit, and an abort burns the id. `FetchUnpublished`/`MarkPublished` are the relay's calls.
* **InMemoryStore** – `InMemoryEventStore`, the store of the tests, atomic because no call of it
  awaits. **StoreTwins** – PostgresStore and InMemoryStore given the same calls: an append that
  commits and a mark reach both, and `TwinsAgree` compares what their reads return. The lists that
  `fetch_unpublished` returns are compared as what they are made of, the same events in the same order.
* **EventBus** – *abstract*: what a consumer may rely on. **OutboxRelay** – each relay's `run_once`
  as `Fetch`, `Publish` per row, `Mark`, and a `Crash` anywhere. Its rows obey what PostgresStore shows of them
  (`OutboxFollowsHistory`): global ids may appear out of order, a claim's own do not.
* **ClaimWorkflow** – the coroutine (`pc` says what it awaits), the awaited activity (event,
  attempt, progress), signals, timers, the attempts Temporal has abandoned (`late`), and their
  environment: client, reviewers, notifier, reference data.
* **Rules** / **Adjudication** – decision tables as data, and the reads and appends of
  `run_llm`/`run_adjudication` attempts around `model_outputs` and the events. ClaimWorkflow
  abstracts a decision to a ruling; Adjudication has the amounts, scores and policies behind it.
  `policy` is the sequence of what reference data answers as it, or the worker asked, changes;
  `Unwired` is the answer of a worker without a source.
* **Submission** – `_submit` as resolve, lookup, append, start; pods die and calls fail before or
  after they took effect; the registry changes under the requests. A claim is named by the
  request that made it (`uuid4`).
* **Notifier** – replicas of one consumer group, the owner of the partition, its position and the
  committed offset (none in a new group, which then starts at the end), `_notify` with its attempts,
  the replay job with its list.
* **EndToEnd** – ClaimWorkflow and Notifier on one claim: the row and the events are shared, what
  the workflow appends goes over the topic, what the notifier appends is the workflow's
  environment. The outbox is EventBus's publication step, which OutboxRelay implements.
* **ReadApi** – a document as the read of the claim and then of its predictions, the queue as the
  selection of ids and then a read per id, by callers with roles, over EventStore. The events come
  in any order `project` accepts, which is more than the workflow makes of them.

## 3. What the runs check

| Run | Shows | Bounds and why they suffice |
|---|---|---|
| `store_append` | the transaction implements EventStore; outbox ids follow each claim's history; the row is the fold; both stores answer alike; index waits form no cycle | 2 connections, 2 claims, 1 key: the two race on one claim or on the key; 3 ids let a rollback burn one and let a claim have two events |
| `workflow_retry` | inputs present, failures masked, the gate sees the row's decision, decisions settle, every workflow ends | shipped pipelines, 3 attempts over 2 failures, 2 reviewers of different minds, 1 change of ruling between attempts, no late attempts |
| `workflow_late` | legality, live status, completeness, completion agrees, decisions settle, with late attempts, attempts used up, eager `/uploaded`, changing rulings | every acceptable runnable pipeline, 2 attempts, 1 late at a time, 1 reviewer: `workflow_retry` has the second |
| `relay` | implements EventBus, nothing marked is missing, everything arrives | 2 relays, 2 claims, 3 rows, batch of 2, 1 crash: batches overlap, end inside a claim's history and are marked under each other |
| `notifier_group` | delivered before NOTIFIED, final status told, outcomes stand | 2 replicas, 2 attempts, a repeat, a crash, a rebalance, a replay |
| `notifier_live` | every persisted claim is settled | the same with no crash (see `Notifier_lost`) and no replay |
| `end_to_end` | every claim is answered; what was posted stays true | the reviewed and the document pipeline, 3 attempts over 1 failure, 1 late attempt, 1 change of reference data, 1 replica and 1 webhook attempt: `notifier_group` has the rest |
| `submission_races` | one key, one claim; acknowledged stages are the pinned ones; no workflow without a claim | 3 requests with a key, an empty one or none, 2 faults, 2 registry changes |
| `adjudication` | high value needs a human, an approval follows a confident unescalated run and an active policy, more money never helps | all rule sets at 24,999 / 25,000 / 100,000 / 100,001 and confidence 59 / 85, 2 attempts, 1 late, 1 change of reference data or of its wiring, whatever the claimant stated of the policy |
| `read_api` | a document shows the final evidence of its decision | a submitter and a reviewer, 1 claim, 7 events: the longest way to a decision and one event more, a repeated one or the next |

**Decisions.** `DecisionSettled` says who may change the row's decision once the workflow has been
given one: the one verdict of a human (a second reviewer, or a retry, only repeats it), or an
adjudication that Temporal has abandoned, and that only until CLAIM_PERSISTED. It does not say that
only humans resolve a PEND, because the code does not: an attempt of `run_adjudication` may commit
a PEND, lose its answer and be retried under other reference data, and the retry's APPROVE is what
the gate sees (`GateSeesDecision`); an abandoned one may do the same behind the gate
(`ClaimWorkflow_lapsed` below) and even behind the verdict (run `latereview`).

**Reference data.** `temporal/worker.py:63-75` always wires a source, if need be an empty one; the
activities also run without (`refdata.py:45`). Then `policy_found` and `policy_status` are what the
claimant put into the attributes, if anything, and with neither the policy rules of auto-fnol are
inert: the claim is approved with no check of its policy, as `tests/test_tenancy.py:60-61` and
`75-77` assert. `ApprovalOnActivePolicy` has this as its second case. In its first, "active" must
have been answered while the approving attempt ran: an answer kept from an earlier one will not do.

Every bound is a constant or a named element of a configuration. Requests (Submission) and
replicas (Notifier) are symmetric, in runs without liveness. Deadlock checking is off because every
modelled system really stops: all claims done, ids used up. That PostgresStore's waits do not block
is `AppendEnds`, a liveness property.

### Findings: runs that must fail

Each checks one statement the repository makes of itself.

| Run | Statement | What the code does |
|---|---|---|
| `latereview` | `projection.py:93` review overrides | a late `CLAIM_ADJUDICATED` takes the verdict back |
| `submission_orphan` | `docs/DESIGN.md:99-102` insert, then start | crash between the two; the retry is answered from the orphan |

Further configurations, which `PROJECT.json` does not list and TLC stops on as well. They are kept
because each explains a condition in a property above or a hazard without one.

| Configuration | Property | What the code does |
|---|---|---|
| `ClaimWorkflow_exhaust` | `ExhaustionFailsClaim`, `docs/DESIGN.md:287` | attempts used up: the workflow fails, the claim stays where it was |
| `ClaimWorkflow_pipelines` | `AcceptedPipelinesRun`, `tests/test_claimtypes.py:3-5` | `ADJUDICATE` before `OCR` is registered, then fails at `OCR_STARTED` |
| `ClaimWorkflow_lostverdict` | `AckedVerdictRecorded`, `README:112-114` | a verdict is accepted with 202 after the gate closed, and dropped |
| `ClaimWorkflow_lapsed` | `LapsedReviewStaysPend`, `README:123-124` the system never decides on the human's behalf | the abandoned attempt of `latereview` appends its APPROVE while the gate waits: nobody reviews, and the claim is persisted approved. The cause is the finding's, so it is no finding of its own |
| `ClaimWorkflow_saferetry` | `RetriesAreSafe`, `docs/DESIGN.md:262` | a retried `CLAIM_PERSISTED` is illegal once the notifier was faster |
| `Submission_duplicate` | `DuplicatesAreAnswered`, `README:83` | the loser of a race on one key gets a 500 |
| `Submission_owner` | `AckedClaimIsOwn`, `api/app.py:119` | the key lookup is not scoped to the customer: a 202 names a claim its receiver may not read |
| `Submission_emptykey` | `EmptyKeyIsNoKey`, `api/app.py:169` | an empty key is not looked up but stored as unique: the second such request gets a 500 |
| `StoreTwins_predictions` | `PredictionsAgree`, `eventstore.py:86-87` and `197-212` | an unescalated run after an escalated one: Postgres keeps the review's row, the in-memory store drops it |
| `Notifier_lost` | `NoLostNotification`, `docs/DESIGN.md:290` | auto-commit runs ahead of the delivery, the replica dies |
| `Notifier_newgroup` | `NoLostNotification` | a new group starts at the end of the topic, behind what was published before it |
| `Notifier_dedupe` | `ConsumersDedupe`, `relay.py:3` | no event_id is remembered |
| `Notifier_replayall` | `ReplayAttemptsAll`, `notifier.py:120` | an IllegalTransition ends the replay loop |
| `Adjudication_escalated` | `EscalatedNeedsHuman`, `adjudication.py:119` | a late escalated run lands between the read of the events and the APPROVE |
| `EndToEnd_twolate` | `ToldDecisionStands` | two attempts late at once: a late `CLAIM_ADJUDICATED` has the customer told PEND, a late `REVIEW_COMPLETED` changes it |
| `ReadApi_queue` | `QueueShowsPending`, `api/app.py:277` | a claim decided between the two queries is listed with its new row |
| `ReadApi_pend` | `DocumentDecisionStands`, `adapters/output.py:5` | an EOB is rendered for a PEND, which a reviewer then changes |

## 4. Fairness

* ClaimWorkflow: `WF(Engine)` and `WF(Attempt)`. Temporal keeps dispatching workflow tasks,
  attempts and timers; nothing is assumed of clients, reviewers or the notifier. The timers are
  part of `Engine`, which is why the gates end.
* PostgresStore: strong fairness per connection's statements. A statement is disabled while it
  waits for another transaction; Postgres wakes every waiter when that transaction ends, so a
  statement enabled again and again is executed. A cycle of waits would still block.
* OutboxRelay: `WF(RunOnce)` of each relay: `run` loops for ever. Crashes are bounded, as a relay that always
  dies before `mark_published` makes no progress.
* Notifier: weak fairness of the partition's assignment, of taking messages, of each delivery's next step, and of the *first*
  publication of each event (`EventuallyOnTopic` in run `relay`). None of crashes, rebalances or the replay.
* EndToEnd: ClaimWorkflow's and Notifier's together. `ClaimIsAnswered` needs both: the gates end by
  their timers, the webhook by its attempts. It assumes an attempt to spare over the failures and
  that no replica dies; `ClaimWorkflow_exhaust` and `Notifier_lost` show that neither can go.
* ReadApi and Submission state no liveness: a caller may give up.

## 5. What is proved

For every value of the constants that satisfies the named `ASSUME`s:

* `ClaimWorkflowProofs`. Every action is first classified once: a move of the engine starts an
  activity, parks at a gate, passes a stage, returns, continues after the review, leaves or closes;
  one of the environment computes, commits, gives up, commits late, notifies or stays outside. The
  invariants are then proved against these dozen kinds of steps, not against each action again.
  - **TypeCorrect**, **EngineSafe**, **LiveStatusSafe**. The last two need pipelines that `ALLOWED`
    can run (`RunnablePipelines`; `ClaimWorkflow_pipelines.cfg` shows why). The inductive invariant
    is `Position` (where the coroutine may be while it awaits what it awaits) and `Agreement`: the
    row's status is at least the entry status of the current stage and at most what the awaited
    event makes of it, late attempts are of stages already passed, and the live status is not
    ahead. Legality alone is not inductive: it says nothing of the stages still to come.
  - **InputsSafe** (`InputsPresent`): `InputsReady` says that a stage the coroutine has passed left
    its object and reference behind, which no later step takes away. No hypothesis.
  - **CompletionSafe** (`CompletionAgrees`): `LiveFollows` ties the query's answer to the last event
    the workflow had recorded.
  - **FailuresSafe** (`FailuresMasked`), when `MaxFailures < MaxAttempts` and `~EagerSignal`.
    `AttemptsCounted` says that the attempts the awaited activity has used are paid for by failures,
    so the last one is never reached; the append itself cannot be refused, by `Agreement`.
    `ClaimWorkflow_exhaust` shows that the first condition cannot go. A client that signals before
    it uploads makes OCR fail on the missing document, in every attempt.
  - **HistoryComplete** (`PersistedIsComplete`), with no hypothesis: `HistoryFollows` says that the
    first occurrences of the events of the stages passed are in the log in pipeline order, and
    that nothing of a stage still to come is there. A late append only repeats an event that is there.
  - **DecisionsSettle** (`DecisionSettled`, an action property), with no hypothesis: any late
    attempts, reviewers and changes of the rules. `Settling` says that every verdict there is, in
    the log, awaited or late, is one and the same (`VerdictFollows`: REVIEW is passed once, and a
    retry carries the event of the first attempt), that a workflow with a decision has passed
    ADJUDICATE, so an adjudication that still commits is an abandoned one, and that a persisted
    claim is handed over, where adjudications are refused.
  - **GateSafe** (`GateSeesDecision`), when `MaxLate = 0`: the workflow's copy is the one it was
    answered. An attempt that appends late changes the row and not the copy, by `latereview`'s trace.
* `PostgresStoreProofs`: **TypeCorrect** and **Refinement** (`Spec => Abstract!Spec`). A transaction
  reads before it writes; `ReadsCurrent` says that from the moment its event is in the unique index
  its seq is the next one and the row it read is still the row; `OneInserter` and `KeyReserved` say
  the indexes exclude everybody else. All three are needed: a commit publishes what was read.
  Events are arbitrary here, so this also covers the upsert of `model_outputs`, which the run's
  events do not carry.
  **ReadModelIsFold** (`RowIsFold`): append never folds a history, it projects one event onto the row
  it has read; that this is the fold of the longer history is **FoldAppend**, whose recursive
  functions are compared by the least index at which they could differ. **OutboxInOrder**
  (`OutboxFollowsHistory`): a claim's transactions draw their outbox ids in the order in which they
  commit, as a second writer of the claim waits at the unique index before it draws one.
  **TwinsStayAlike** (`TwinSpec => []TwinsAgree`): the in-memory index, which hands a key to whoever comes
  with it, agrees with the table because a second claim with the key never commits (`KeyReserved`);
  the in-memory list follows the commits and the table the ids, and within a claim both follow the
  history (`ListNumbered`, `IdsFollow`), with every event once (`SeqUnique`).
* `OutboxRelayProofs`: **TypeCorrect**, **NothingMarkedIsMissing** (`Spec => []MarkedIsOnTopic`): an
  id once sent is on the topic, and only sent ids are marked. A row that commits late must not
  carry an id that is already marked, hence `IdsUnique` and that a relay only holds ids it saw.
  **RelaysImplementEventBus** (`Spec => ImplementsEventBus`), for any number of relays: a publication
  is a step of EventBus when all earlier events of the claim are on the topic or were. `Numbered`
  says a claim's ids follow its history, `BatchFollows` that whoever holds an event holds the
  claim's earlier ones too or they are on the topic; as a batch is published in the order of ids,
  no event overtakes. `BatchFollows` survives another relay's mark because what is marked is on the
  topic (`Handled`).
* `SubmissionProofs`: **TypeCorrect**, **OneClaim** (`SameKeySameClaim`), **Pinned**
  (`FreshAckShowsPinned`), **ClaimFirst** (`WorkflowHasClaim`), for any number of requests, faults
  and registry changes. Inductive because a request past its append has its row (`RowsFollow`), a
  workflow is started by nobody but its own request, and no two rows share a key (`KeysUnique`).

* `NotifierProofs`: **TypeCorrect**, **DeliveredFirst** (`NotifiedWasDelivered`), **FinalIsTold**
  (`TellsFinalStatus`), **OutcomeFinal** (`OutcomeStands`), for any replicas, crashes, rebalances,
  repeats and replays. A delivery begins with a CLAIM_PERSISTED that is on the topic or a claim that
  was NOTIFY_FAILED, and a claim that has been persisted stays at PERSISTED or behind it. **NothingIsLost**
  (`NoLostNotification`) under `NoneDies`: without a crash, and with an offset committed before,
  positions and commits only cover messages taken, and whoever took one has it in hand until the
  claim is settled. `Notifier_lost` and `Notifier_newgroup` refute it without either half.
* `AdjudicationProofs`: **TypeCorrect**; **DecisionTable**, which reads the shipped rule sets, as
  first-match evaluation sees them, off as tables; on it **ApprovalsHaveRuns**
  (`ApprovalHasConfidentRun`), **HighValuesWait** (`HighValueNeedsHuman`), **ApprovalsWereCovered**
  (`ApprovalOnActivePolicy`) and **RaisingNeverHelps** (`RaisingAmountNeverHelps`), for any amounts,
  scores, settings, attempts and changes of the reference data. An attempt carries facts that were
  true when it read them (`Grounded`), and this remains so as histories only grow; what they say of
  the policy is one answer of the attempt's own time, folded into what the claimant stated (`Asked`).
  ApprovalsWereCovered covers deployments without a source, in which nothing checks the policy (section 3).
  HighValuesWait is about approvals: an amount over 100000 is denied without a human. It
  needs `StructuredLimitHolds`: the structured rules have 25000 as a literal (`adjudication.py:178`) where
  the model's escalation reads `high_value_amount` (`config.py:42`); with a lower setting a structured
  claim between the two is approved without a human.
* `ReadApiProofs`: **TypeCorrect**, **EvidenceIsFinal** (`DocumentShowsFinalEvidence`): a document is
  rendered of a decided claim, and `project` refuses PREDICTIONS_READY after an adjudication, so
  predictions read later than the claim are still those it was decided on (`DecidedLate`).

* `EndToEndProofs`: **ToldStands** (`ToldDecisionStands`), for the whole: any valid pipeline, rule
  sets, reviewers, replicas, repeats and failures, from ClaimWorkflowProofs' kinds of steps and the
  delivery's. A payload is only loaded once CLAIM_PERSISTED is recorded; from then on the row is handed
  over and no status leads back, PERSIST is the last stage and no decision is awaited any more, and
  the attempt that may still be late has an adjudication to append, which is refused, or repeats the
  verdict that is recorded (`LateVerdict`). The hypothesis is `OneLate`, at most one abandoned attempt
  at a time; `EndToEnd_twolate` shows that it cannot go. The topic carries what the history has
  (`TopicKnown`), by induction over an append to `TypesOf`, a recursion compared at its least index.

Only model-checked: liveness (`AppendEnds`, `EventuallyOnTopic`, `WorkflowEnds`, `PersistedIsSettled`,
`ClaimIsAnswered`), as temporal fairness and ENABLED are out of this prover's reach. Every invariant
and action property of a passing run is a theorem.

## 6. Plan

Nothing of section 2 is left to write. What would add to it: the hazards without a property, and
`GateSeesDecision` under a weaker hypothesis than `MaxLate = 0`.

## 7. What is not modelled, and why

* Of the read-only endpoints, `GET /claims/{id}` and `/predictions` are one of the two reads of a
  document; `/claim-types`, `/portal` and `/healthz` read no claim. Hashing of API keys is left out.
* Intake adapters parse one body each, output adapters lay out what they were given, the review
  agent is a straight line of four nodes whose recommendation and critique no rule reads, signing
  is a hash: pure functions without a property of their own here. The agent's confidence is a free
  choice in Adjudication.
* The content of documents: that the presigned URL allows another PUT after OCR has read the file is
  not visible here.
* Temporal's history replay and Kafka's replication are taken as given; the topic is one
  partition's log, which is what a claim's events see (messages are keyed by claim id).
* `route_and_predict` is not called by the pipeline; `pdf_ref`, reason codes, timestamps, latency
  and cost fields are read by no decision.
* `/uploaded` is also part of Submission, for the claims whose workflow exists; what the signal does is ClaimWorkflow's.
