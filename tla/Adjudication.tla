---------------------------- MODULE Adjudication ----------------------------
(***************************************************************************)
(* How one claim is scored and decided: attempts of the activities run_llm *)
(* and run_adjudication (temporal/activities.py), each a sequence of reads *)
(* and one append, retried by Temporal when an attempt fails, times out or *)
(* loses its answer.  An attempt Temporal has given up on may still run.   *)
(* ClaimWorkflow has the stages around them and abstracts what is decided; *)
(* this module has the data: the model_outputs rows, which a retry         *)
(* overwrites tier by tier, the escalation flag of the event, reference    *)
(* data and the rule sets.                                                 *)
(***************************************************************************)
EXTENDS Rules

CONSTANTS Types,       \* claim types
          Amounts,     \* what attributes["amount"] may be
          Scores,      \* confidences the models may give
          Threshold,   \* settings.confidence_threshold
          HighValue,   \* settings.high_value_amount
          MaxAttempts, \* _STD_RETRY.maximum_attempts
          MaxLate,     \* bound: abandoned attempts still running at a time
          MaxChanges   \* bound: changes of the reference data

ASSUME AdjudicationAssumption ==
  /\ Amounts \subseteq Nat /\ Scores \subseteq Nat
  /\ Threshold \in Nat /\ HighValue \in Nat
  /\ MaxAttempts \in Nat \ {0} /\ MaxLate \in Nat /\ MaxChanges \in Nat
  /\ None \notin Amounts /\ None \notin Scores /\ None \notin BOOLEAN

VARIABLES claim,     \* type and attributes, as submitted
          policy,    \* what reference data has answered on the claim's policy, in time
          outputs,   \* model_outputs: the confidence of the cost and of the review row
          runs,      \* the claim's PREDICTIONS_READY events
          decisions, \* the claim's CLAIM_ADJUDICATED events
          engine,    \* the stage the workflow is at and the attempt it waits for
          llm,       \* attempts of run_llm
          adj        \* attempts of run_adjudication

vars == <<claim, policy, outputs, runs, decisions, engine, llm, adj>>

Attempts == 1..MaxAttempts
Status   == {"active", "lapsed", None}
Answer   == Status \cup {Unwired}
Claim    == [type : Types, amount : Amounts \cup {None}, policy_number : BOOLEAN,
             policy_found : BOOLEAN \cup {None}, policy_status : Status]
Decision == {"APPROVE", "DENY", "PEND"}
Score    == Scores \cup {None}
Run      == [escalated : BOOLEAN, cost : Scores, review : Score]
Facts    == [amount : Amounts \cup {None}, escalated : BOOLEAN, confidence : Score,
             policy_found : BOOLEAN \cup {None}, policy_status : Status]
Row      == [decision : Decision, facts : Facts, answers : SUBSET Answer]

TypeOK ==
  /\ claim \in Claim
  /\ policy \in Seq(Answer) /\ Len(policy) \in 1..(MaxChanges + 1)
  /\ outputs \in [cost : Score, review : Score]
  /\ runs \in Seq(Run) /\ Len(runs) <= MaxAttempts
  /\ decisions \in Seq(Row) /\ Len(decisions) <= MaxAttempts
  /\ engine \in [stage : {"LLM", "ADJUDICATE", "DONE", "FAILED"}, attempt : Attempts]
  /\ llm \in [Attempts -> [pc : {"idle", "append", "over"}, run : Run \cup {None}]]
  /\ adj \in [Attempts -> [pc : {"idle", "events", "decide", "append", "over"},
                           since : 1..(MaxChanges + 1), confidence : Score,
                           escalated : BOOLEAN, facts : Facts \cup {None}]]

\* What validate_attributes lets through: amount and policy_number where they are required,
\* and any other attribute: a claimant may so state what reference data should say.  Only the
\* rules of auto-fnol read what concerns the policy; the other types do without it here.
Submitted ==
  {c \in Claim :
     /\ c.type \in {"structured-claim", "auto-fnol"} => c.amount # None
     /\ c.policy_number = (c.type = "auto-fnol")
     /\ ~c.policy_number => c.policy_found = None /\ c.policy_status = None}

\* An attempt of each activity that reads and holds nothing
Scoring(pc)  == [pc |-> pc, run |-> None]
Deciding(pc) == [pc |-> pc, since |-> 1, confidence |-> None, escalated |-> FALSE, facts |-> None]

Now == policy[Len(policy)]

\* Of a claim without a policy_number there is nothing to ask.
Answers == IF claim.policy_number THEN Answer ELSE {Unwired}

Init ==
  /\ claim \in Submitted
  /\ \E answer \in Answers : policy = <<answer>>
  /\ outputs = [cost |-> None, review |-> None]
  /\ runs = <<>> /\ decisions = <<>>
  /\ engine = [stage |-> IF claim.type = "structured-claim" THEN "ADJUDICATE" ELSE "LLM",
               attempt |-> 1]
  /\ llm = [a \in Attempts |-> Scoring("idle")]
  /\ adj = [a \in Attempts |-> Deciding("idle")]

-----------------------------------------------------------------------------
(* Temporal's side of an activity *)
Waiting(stage, a) == engine = [stage |-> stage, attempt |-> a]

NextStage(stage) == IF stage = "LLM" THEN "ADJUDICATE" ELSE "DONE"

Answered == engine' = [stage |-> NextStage(engine.stage), attempt |-> 1]

GivesUp == engine' = IF engine.attempt < MaxAttempts
                     THEN [engine EXCEPT !.attempt = @ + 1]
                     ELSE [engine EXCEPT !.stage = "FAILED"]

Running(attempts) == {a \in Attempts : attempts[a].pc \notin {"idle", "over"}}

Late == Cardinality(Running(llm)) + Cardinality(Running(adj))

\* An attempt ends; if it is the one waited for, its answer arrives or is lost.
Ends(stage, a) == IF Waiting(stage, a) THEN Answered \/ GivesUp ELSE UNCHANGED engine

-----------------------------------------------------------------------------
(* run_llm *)
Value == IF claim.amount = None THEN 0 ELSE claim.amount

\* The cost tier answers; an escalated claim also gets a review (the agent's, or the
\* accuracy tier's).
Predict(a) ==
  /\ Waiting("LLM", a) /\ llm[a].pc = "idle"
  /\ \E cost \in Scores, review \in Score :
       LET escalated == ShouldEscalate(cost, Value, Threshold, HighValue)
       IN  /\ escalated <=> review # None
           /\ llm' = [llm EXCEPT ![a] =
                        [pc |-> "append",
                         run |-> [escalated |-> escalated, cost |-> cost, review |-> review]]]
  /\ UNCHANGED <<claim, policy, outputs, runs, decisions, engine, adj>>

\* Each prediction is upserted under its model; a row the run has no prediction for stays.
Upserted(run) == [cost |-> run.cost,
                  review |-> IF run.review = None THEN outputs.review ELSE run.review]

\* The projection takes no PREDICTIONS_READY of an adjudicated claim (ADJUDICATED -> LLM_DONE).
StillOpen == decisions = <<>>

AppendRun(a) ==
  /\ llm[a].pc = "append"
  /\ llm' = [llm EXCEPT ![a] = Scoring("over")]
  /\ IF StillOpen
     THEN /\ outputs' = Upserted(llm[a].run)
          /\ runs' = Append(runs, llm[a].run)
          /\ Ends("LLM", a)
     ELSE UNCHANGED <<outputs, runs, engine>>
  /\ UNCHANGED <<claim, policy, decisions, adj>>

-----------------------------------------------------------------------------
(* run_adjudication *)
Confidence == LET rows == {outputs.cost, outputs.review} \ {None}
              IN  IF rows = {} THEN None ELSE Max(rows)

ReadOutputs(a) ==
  /\ Waiting("ADJUDICATE", a) /\ adj[a].pc = "idle"
  /\ adj' = [adj EXCEPT ![a].pc = "events", ![a].since = Len(policy),
                         ![a].confidence = Confidence]
  /\ UNCHANGED <<claim, policy, outputs, runs, decisions, engine, llm>>

\* The last PREDICTIONS_READY is the one that counts.
LastEscalated == runs # <<>> /\ runs[Len(runs)].escalated

ReadEvents(a) ==
  /\ adj[a].pc = "events"
  /\ adj' = [adj EXCEPT ![a].pc = "decide", ![a].escalated = LastEscalated]
  /\ UNCHANGED <<claim, policy, outputs, runs, decisions, engine, llm>>

Stated(a) == [amount |-> claim.amount, escalated |-> adj[a].escalated,
              confidence |-> adj[a].confidence,
              policy_found |-> claim.policy_found, policy_status |-> claim.policy_status]

\* Mutant of Decide: the answer of the first look-up is kept and used again.
DecideCached(a) ==
  /\ adj[a].pc = "decide"
  /\ adj' = [adj EXCEPT ![a].pc = "append",
                         ![a].facts = Enrich(Stated(a), claim.policy_number, policy[1])]
  /\ UNCHANGED <<claim, policy, outputs, runs, decisions, engine, llm>>

\* enrich_facts reads the policy, as it is now; adjudicate is pure.
Decide(a) ==
  /\ adj[a].pc = "decide"
  /\ adj' = [adj EXCEPT ![a].pc = "append",
                         ![a].facts = Enrich(Stated(a), claim.policy_number, Now)]
  /\ UNCHANGED <<claim, policy, outputs, runs, decisions, engine, llm>>

\* What reference data has answered since the attempt began, whether it asked or not
AnswersTo(a) == {policy[k] : k \in adj[a].since..Len(policy)}

\* Legal while the claim is neither persisted nor failed: a late attempt of a claim whose
\* workflow has moved on is ClaimWorkflow's matter.
AppendDecision(a) ==
  /\ adj[a].pc = "append"
  /\ adj' = [adj EXCEPT ![a] = Deciding("over")]
  /\ decisions' = Append(decisions, [decision |-> Adjudicate(RuleSet(claim.type), adj[a].facts),
                                     facts |-> adj[a].facts,
                                     answers |-> AnswersTo(a)])
  /\ Ends("ADJUDICATE", a)
  /\ UNCHANGED <<claim, policy, outputs, runs, llm>>

-----------------------------------------------------------------------------
\* An attempt dies, or Temporal gives up on it: if it is not dead it goes on.
AttemptFails(a) ==
  /\ \/ /\ Waiting("LLM", a)
        /\ llm' \in {llm, [llm EXCEPT ![a] = Scoring("over")]}
        /\ UNCHANGED adj
     \/ /\ Waiting("ADJUDICATE", a)
        /\ adj' \in {adj, [adj EXCEPT ![a] = Deciding("over")]}
        /\ UNCHANGED llm
  /\ Late' <= MaxLate
  /\ GivesUp
  /\ UNCHANGED <<claim, policy, outputs, runs, decisions>>

\* A worker with other reference data, or with none, serves the next read.
PolicyChanges ==
  /\ Len(policy) <= MaxChanges /\ claim.policy_number
  /\ \E answer \in Answer \ {Now} : policy' = Append(policy, answer)
  /\ UNCHANGED <<claim, outputs, runs, decisions, engine, llm, adj>>

Next == \/ \E a \in Attempts : \/ Predict(a) \/ AppendRun(a)
                               \/ ReadOutputs(a) \/ ReadEvents(a) \/ Decide(a)
                               \/ AppendDecision(a) \/ AttemptFails(a)
        \/ PolicyChanges

Spec == Init /\ [][Next]_vars

-----------------------------------------------------------------------------
Approvals == {i \in DOMAIN decisions : decisions[i].decision = "APPROVE"}

\* No claim worth HighValue or more is approved without a human, whichever attempts decided:
\* a model-driven type relies on every run_llm attempt having escalated it, a structured one
\* on its rule set (docs/DESIGN.md:318).
HighValueNeedsHuman == Approvals # {} => Value < HighValue

ModelDriven == claim.type \in {"generic-document", "auto-fnol"}

\* A claim of a model-driven type is approved only on the strength of a run that was
\* confident and did not escalate, though the confidence read may be a stale row's.
ApprovalHasConfidentRun ==
  Approvals # {} /\ ModelDriven =>
    \E i \in DOMAIN runs : ~runs[i].escalated /\ runs[i].cost >= Threshold

\* Without a source the rules on the policy go by what the claimant stated, if anything.
UncheckedCover == claim.policy_found # FALSE /\ claim.policy_status \in {None, "active"}

\* An auto-fnol claim is approved only by an attempt during which reference data called its
\* policy active, never on an answer left over from an earlier attempt -- unless no source was
\* wired meanwhile: then nothing checks the policy (tests/test_tenancy.py:60-61, 75-77).
ApprovalOnActivePolicy ==
  claim.type = "auto-fnol" =>
    \A i \in Approvals : \/ "active" \in decisions[i].answers
                         \/ Unwired \in decisions[i].answers /\ UncheckedCover

Favour(decision) == CASE decision = "APPROVE" -> 2 [] decision = "PEND" -> 1 [] decision = "DENY" -> 0

\* On the facts of any decision, claiming more would not have been decided more favourably.
RaisingAmountNeverHelps ==
  \A i \in DOMAIN decisions, more \in Amounts :
    LET facts == decisions[i].facts IN
    facts.amount # None /\ more > facts.amount =>
      Favour(Adjudicate(RuleSet(claim.type), [facts EXCEPT !.amount = more]))
        <= Favour(decisions[i].decision)

\* "Escalated claims need human review" (adjudication.py:119): when a claim is approved, the
\* run that counts, the last in its history, had not escalated it.  A late attempt of
\* run_llm that appends between the reading of the events and the approval breaks it.
EscalatedNeedsHuman == Approvals # {} /\ ModelDriven => ~LastEscalated
=============================================================================
