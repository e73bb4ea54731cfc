------------------------------ MODULE EndToEnd ------------------------------
(***************************************************************************)
(* One claim from its workflow to its customer: ClaimWorkflow and Notifier *)
(* composed.  They share the claim's row and its events; the workflow's    *)
(* appends reach the notifier over the topic, and the notifier's outcome   *)
(* events, which ClaimWorkflow leaves to its environment, are now those    *)
(* that NotificationService appends.                                       *)
(***************************************************************************)
EXTENDS ClaimWorkflow

CONSTANTS TheClaim, Replicas, WebhookAttempts, GroupIsNew,
          MaxRepeats  \* bound of Notifier

VARIABLES topic, owner, position, committed, handler, failed, accepted, used, \* Notifier's
          told  \* decisions in the payloads that were posted to the customer

\* What of the claim's history the consumers act on; handle_event returns at once for
\* the rest, which is left off the topic.
Carried == {"CLAIM_RECEIVED", "CLAIM_PERSISTED", "CLAIM_FAILED"}
TypesOf(events) ==
  LET types[n \in 0..Len(events)] ==
        IF n = 0 THEN <<>>
        ELSE IF events[n].type \in Carried THEN Append(types[n - 1], events[n].type)
        ELSE types[n - 1]
  IN  types[Len(events)]

MaxTopic == 4  \* bound: carried events of the claim, none of which comes more than twice

Delivery == INSTANCE Notifier
  WITH Claims <- {TheClaim}, WorkflowEvents <- {"CLAIM_PERSISTED", "CLAIM_FAILED"},
       MaxAttempts <- WebhookAttempts, MaxEvents <- MaxTopic,
       MaxCrashes <- 0, MaxRebalances <- 0, MaxReplays <- 0,
       row <- [c \in {TheClaim} |-> claim],
       log <- [c \in {TheClaim} |-> TypesOf(log)]

delivery == <<topic, owner, position, committed, handler, failed, accepted, used, told>>
allVars  == <<vars, delivery>>

EndToEndInit == Init /\ Delivery!Init /\ told = {}

\* Everything ClaimWorkflow does but the notifier's appends; only a claim that waits for a
\* document gets one.
WorkflowStep == /\ \/ Engine \/ Attempt \/ RulingChanges
                   \/ AttemptFails \/ AttemptTimesOut \/ \E z \in late : LateAppend(z)
                   \/ Has(pipeline, "UPLOAD") /\ (ClientPuts \/ MarkUploaded)
                   \/ \E r \in Reviewers : ReviewerChecks(r) \/ ReviewerSignals(r)
                /\ UNCHANGED delivery

\* The append of an outcome is the one step of the delivery that the workflow's row feels.
Concludes(w) == /\ handler[w].pc = "append"
                /\ Store(Plain(Delivery!Outcome(handler[w])))
                /\ UNCHANGED <<engine, signals, late, env, told>>
                /\ Delivery!Conclude(w)

Posts(w) == /\ UNCHANGED vars
            /\ Delivery!PostSucceeds(w) \/ Delivery!PostFails(w)
            /\ told' = told \cup {handler[w].decision}

NotifyStep(w) == \/ Concludes(w)
                 \/ Posts(w)
                 \/ UNCHANGED <<vars, told>> /\ (Delivery!Load(w) \/ Delivery!Refused(w))

RelayStep(n) == UNCHANGED <<vars, told>> /\ Delivery!RelayPublishes(TheClaim, n)

\* What crashes, rebalances and the replay job do to a delivery is Notifier's to say.
CommitStep == UNCHANGED <<vars, told>> /\ Delivery!AutoCommit

AssignStep == UNCHANGED <<vars, told>> /\ \E w \in Replicas : Delivery!Assign(w)
ReceiveStep(w) == UNCHANGED <<vars, told>> /\ Delivery!Receive(w)

EndToEndNext == \/ WorkflowStep
                \/ CommitStep \/ AssignStep
                \/ \E n \in 1..MaxTopic : RelayStep(n)
                \/ \E w \in Replicas : ReceiveStep(w) \/ NotifyStep(w)

EndToEndSpec == EndToEndInit /\ [][EndToEndNext]_allVars

\* ClaimWorkflow's fairness and Notifier's
FairEndToEnd ==
  /\ EndToEndSpec
  /\ WF_allVars(Engine /\ UNCHANGED delivery) /\ WF_allVars(Attempt /\ UNCHANGED delivery)
  /\ \A n \in 1..MaxTopic :
       WF_allVars(~Delivery!Bus!OnTopic(TheClaim, n) /\ RelayStep(n))
  /\ WF_allVars(AssignStep)
  /\ \A w \in Replicas : WF_allVars(ReceiveStep(w)) /\ WF_allVars(NotifyStep(w))

-----------------------------------------------------------------------------
\* Every claim comes to an end its customer can see: it fails, or the workflow, the
\* outbox, the topic, the group and the webhook together get it to NOTIFIED or
\* NOTIFY_FAILED, with an activity attempt to spare and as long as no replica dies.
ClaimIsAnswered == <>(claim.status \in {"NOTIFIED", "NOTIFY_FAILED", "FAILED"})

\* What a customer has been told stays true: no retried attempt, and no attempt late on
\* its own, changes the decision of a claim once a payload with it has been posted.
ToldDecisionStands == \A d \in told : d = claim.decision
=============================================================================
