------------------------------ MODULE Notifier ------------------------------
(***************************************************************************)
(* From the topic to the customer's webhook: the replicas of the notifier  *)
(* consumer group and the DLQ replay job (notifier.py).                    *)
(*                                                                         *)
(* The topic is EventBus's, which OutboxRelay implements.  What the Kafka  *)
(* client does with offsets is read off the options main gives it: one     *)
(* group, enable_auto_commit.  The outcome events the service appends are  *)
(* left off the topic: handle_event returns at once for them.              *)
(***************************************************************************)
EXTENDS Projection, FiniteSets

CONSTANTS Claims,
          Replicas,       \* notifier processes
          WorkflowEvents, \* event types the workflows append after CLAIM_RECEIVED
          MaxAttempts,    \* webhook_max_attempts
          GroupIsNew,     \* has the group never committed an offset?
          MaxEvents, MaxRepeats, MaxCrashes, MaxRebalances, MaxReplays   \* bounds

ASSUME NotifierAssumption ==
  /\ WorkflowEvents \subseteq EventType \ {"CLAIM_RECEIVED", "CLAIM_NOTIFIED", "NOTIFY_FAILED"}
  /\ {"replay", "nobody"} \cap Replicas = {} /\ Replicas # {}
  /\ MaxAttempts \in Nat \ {0} /\ GroupIsNew \in BOOLEAN
  /\ {MaxEvents, MaxRepeats, MaxCrashes, MaxRebalances, MaxReplays} \subseteq Nat

VARIABLES row,       \* the claims table
          log,       \* the types of the events the API and the workflow appended
          topic,     \* claim-events
          owner,     \* the replica the partition is assigned to, or "nobody"
          position,  \* messages the owner has taken from the topic
          committed, \* the group's committed offset, in a set; {} before the first commit
          handler,   \* what each replica, and the replay job, is delivering
          failed,    \* the replay job's list_by_status("NOTIFY_FAILED")
          accepted,  \* <<claim, idempotency_id>> of the webhooks customers accepted
          used       \* how much of each bound is used up

channel == <<log, topic>>
group   == <<owner, position, committed>>
vars    == <<row, channel, group, handler, failed, accepted, used>>

Bus == INSTANCE EventBus WITH length <- [c \in Claims |-> Len(log[c])]

Workers == Replicas \cup {"replay"}
Settled == {"NOTIFIED", "NOTIFY_FAILED"}
Bounds  == {"repeat", "crash", "rebalance", "replay"}

\* idempotency_id: the seq of the event it came with, or 0 for retry-<claim>.
Idle == [pc |-> "idle"]
Begin(c, id) == [pc |-> "load", claim |-> c, id |-> id, status |-> "ABSENT",
                 decision |-> "NONE", attempt |-> 1, delivered |-> FALSE]
Delivery == [pc : {"load", "post", "append"}, claim : Claims, id : Nat,
             status : ClaimStatus \cup {"ABSENT"}, decision : Decision,
             attempt : 1..MaxAttempts, delivered : BOOLEAN]

TypeOK ==
  /\ row \in [Claims -> Claim]
  /\ log \in [Claims -> Seq(EventType)]
  /\ topic \in Seq(Claims \X (Nat \ {0}))
  /\ owner \in Replicas \cup {"nobody"} /\ position \in 0..Len(topic)
  /\ committed \subseteq 0..position /\ Cardinality(committed) <= 1
  /\ handler \in [Workers -> Delivery \cup {Idle}]
  /\ failed \subseteq Claims
  /\ accepted \subseteq Claims \X Nat
  /\ used \in [Bounds -> Nat]

Init == /\ row = [c \in Claims |-> Project(NoClaim, Plain("CLAIM_RECEIVED"))]
        /\ log = [c \in Claims |-> <<"CLAIM_RECEIVED">>]
        /\ topic = <<>>
        /\ owner = "nobody" /\ position = 0
        /\ committed = IF GroupIsNew THEN {} ELSE {0}
        /\ handler = [w \in Workers |-> Idle]
        /\ failed = {} /\ accepted = {}
        /\ used = [b \in Bounds |-> 0]

Use(b, bound) == used[b] < bound /\ used' = [used EXCEPT ![b] = @ + 1]

-----------------------------------------------------------------------------
(* The channel *)

\* A workflow's append; CLAIM_PERSISTED comes twice when its activity is retried.
WorkflowAppends(c, t) ==
  /\ Legal(row[c], Plain(t))
  /\ Len(log[c]) < MaxEvents
  /\ row' = [row EXCEPT ![c] = Project(@, Plain(t))]
  /\ log' = [log EXCEPT ![c] = Append(@, t)]
  /\ UNCHANGED <<topic, group, handler, failed, accepted, used>>

\* The relay publishes an event, or once more one it has published before a crash.
RelayPublishes(c, n) ==
  /\ UNCHANGED <<row, log, group, handler, failed, accepted>>
  /\ Bus!Publication(c, n)
  /\ IF Bus!OnTopic(c, n) THEN Use("repeat", MaxRepeats) ELSE UNCHANGED used

-----------------------------------------------------------------------------
(* The consumer group: main's `async for' and the client behind it *)

TypeAt(m) == log[topic[m][1]][topic[m][2]]

\* Mutants of Notable: every event of a claim is notified about; the wrong one is.
NotableAny(t) == TRUE
NotableFailure(t) == t = "CLAIM_FAILED"

Notable(t) == t = "CLAIM_PERSISTED"

\* The position moves when the message is taken, not when it has been handled.
Receive(w) ==
  /\ w = owner /\ handler[w] = Idle /\ position < Len(topic)
  /\ position' = position + 1
  /\ LET m == topic[position + 1] IN
       handler' = IF Notable(TypeAt(position + 1))
                  THEN [handler EXCEPT ![w] = Begin(m[1], m[2])] ELSE handler
  /\ UNCHANGED <<row, channel, owner, committed, failed, accepted, used>>

\* Mutant of ResumesAt: committed offsets are not looked at.
ResumesAtEnd(offset) == {Len(topic)}

\* Where a replica that gets the partition starts: without a committed offset at the end,
\* auto_offset_reset being left at its default.
ResumesAt(offset) == IF offset = {} THEN {Len(topic)} ELSE offset

\* The coordinator gives the partition to a replica that has joined.
Assign(w) ==
  /\ owner = "nobody" /\ owner' = w
  /\ position' \in ResumesAt(committed)
  /\ UNCHANGED <<row, channel, committed, handler, failed, accepted, used>>

AutoCommit ==
  /\ owner # "nobody" /\ committed # {position} /\ committed' = {position}
  /\ UNCHANGED <<row, channel, owner, position, handler, failed, accepted, used>>

\* A replica ends with a message in hand and is started again: it dies, or an append
\* raises for another reason than the claim and the consumer commits as it stops.
Crash(w) ==
  /\ handler[w] # Idle
  /\ Use("crash", MaxCrashes)
  /\ handler' = [handler EXCEPT ![w] = Idle]
  /\ IF w = owner THEN /\ owner' = "nobody"
                       /\ committed' \in {committed, {position}}
                       /\ position' \in ResumesAt(committed')
                  ELSE UNCHANGED group
  /\ UNCHANGED <<row, channel, failed, accepted>>

\* The partition moves while its owner goes on with the message in hand: the client
\* commits first, or the owner has missed its session timeout.
Rebalance(w) ==
  /\ owner \notin {w, "nobody"}
  /\ Use("rebalance", MaxRebalances)
  /\ owner' = w
  /\ committed' \in {committed, {position}} /\ position' \in ResumesAt(committed')
  /\ UNCHANGED <<row, channel, handler, failed, accepted>>

-----------------------------------------------------------------------------
(* NotificationService._notify, on a replica or in the replay job *)

Load(w) ==
  /\ handler[w].pc = "load"
  /\ handler' = [handler EXCEPT ![w].pc = "post",
                                ![w].status = row[handler[w].claim].status,
                                ![w].decision = row[handler[w].claim].decision]
  /\ UNCHANGED <<row, channel, group, failed, accepted, used>>

Webhook(w) == <<handler[w].claim, handler[w].id>>

PostSucceeds(w) ==
  /\ handler[w].pc = "post"
  /\ accepted' = accepted \cup {Webhook(w)}
  /\ handler' = [handler EXCEPT ![w].pc = "append", ![w].delivered = TRUE]
  /\ UNCHANGED <<row, channel, group, failed, used>>

\* Mutant of MayRetry: one attempt too many.
MayRetryMore(h) == h.attempt <= MaxAttempts

MayRetry(h) == h.attempt < MaxAttempts

\* The endpoint fails, or its answer is lost after it has accepted.
PostFails(w) ==
  /\ handler[w].pc = "post"
  /\ accepted' \in {accepted, accepted \cup {Webhook(w)}}
  /\ handler' = IF MayRetry(handler[w])
                THEN [handler EXCEPT ![w].attempt = @ + 1]
                ELSE [handler EXCEPT ![w].pc = "append"]
  /\ UNCHANGED <<row, channel, group, failed, used>>

\* Mutants of Outcome: exhausted attempts are recorded as a success; an unfit event.
OutcomeOptimistic(h) == "CLAIM_NOTIFIED"
OutcomeFailed(h) == IF h.delivered THEN "CLAIM_NOTIFIED" ELSE "CLAIM_FAILED"

Outcome(h) == IF h.delivered THEN "CLAIM_NOTIFIED" ELSE "NOTIFY_FAILED"

Concluded(w) == Legal(row[handler[w].claim], Plain(Outcome(handler[w])))

\* The append of the outcome, after which the replay job drops the claim from its list.
Conclude(w) ==
  /\ handler[w].pc = "append" /\ Concluded(w)
  /\ row' = [row EXCEPT ![handler[w].claim] = Project(@, Plain(Outcome(handler[w])))]
  /\ failed' = IF w = "replay" THEN failed \ {handler[w].claim} ELSE failed
  /\ handler' = [handler EXCEPT ![w] = Idle]
  /\ UNCHANGED <<channel, group, accepted, used>>

\* An IllegalTransition ends the replica, whose consumer commits as it stops and which is
\* started again, and ends the replay job for good.
Refused(w) ==
  /\ handler[w].pc = "append" /\ ~Concluded(w)
  /\ IF w = owner THEN owner' = "nobody" /\ committed' = {position}
                  ELSE UNCHANGED <<owner, committed>>
  /\ failed' = IF w = "replay" THEN {} ELSE failed
  /\ handler' = [handler EXCEPT ![w] = Idle]
  /\ UNCHANGED <<row, channel, position, accepted, used>>

\* replay_failed_notifications reads the list once ...
Replay ==
  /\ failed = {}
  /\ Use("replay", MaxReplays)
  /\ failed' = {c \in Claims : row[c].status = "NOTIFY_FAILED"}
  /\ UNCHANGED <<row, channel, group, handler, accepted>>

\* ... and retries one claim after the other, whatever its status is by then.
ReplayNext(c) ==
  /\ c \in failed /\ handler["replay"] = Idle
  /\ handler' = [handler EXCEPT !["replay"] = Begin(c, 0)]
  /\ UNCHANGED <<row, channel, group, failed, accepted, used>>

-----------------------------------------------------------------------------
Notify(w) == Load(w) \/ PostSucceeds(w) \/ PostFails(w) \/ Conclude(w) \/ Refused(w)

Next == \/ \E c \in Claims : \/ \E t \in WorkflowEvents : WorkflowAppends(c, t)
                             \/ \E n \in 1..MaxEvents : RelayPublishes(c, n)
                             \/ ReplayNext(c)
        \/ AutoCommit \/ Replay
        \/ \E w \in Replicas : Assign(w) \/ Receive(w) \/ Crash(w) \/ Rebalance(w)
        \/ \E w \in Workers : Notify(w)

Spec == Init /\ [][Next]_vars

\* The relay gets every event to the topic (OutboxRelay), a consumer takes what there is,
\* and _notify's loop ends.
FairSpec ==
  /\ Spec
  /\ \A c \in Claims, n \in 1..MaxEvents :
       WF_vars(n \in DOMAIN log[c] /\ ~Bus!OnTopic(c, n) /\ RelayPublishes(c, n))
  /\ WF_vars(\E w \in Replicas : Assign(w))
  /\ \A w \in Replicas : WF_vars(Receive(w)) /\ WF_vars(Notify(w))

-----------------------------------------------------------------------------
\* A claim shown NOTIFIED has had a webhook accepted by its customer, with replicas and
\* the replay job at work on it at once.
NotifiedWasDelivered ==
  \A c \in Claims : row[c].status = "NOTIFIED" => \E d \in accepted : d[1] = c

\* The status in a payload, read from a row other processes keep moving, is never one
\* before PERSISTED: customers only hear of claims whose decision is final.
TellsFinalStatus ==
  \A w \in Workers : handler[w].pc \in {"post", "append"} =>
    handler[w].status \in {"PERSISTED"} \cup Settled

\* A persisted claim whose message the group has taken is settled or in a replica's hand:
\* nothing is lost between the offset and the append (docs/DESIGN.md:290 "no lost
\* notification").  It holds as long as no replica dies.
NoLostNotification ==
  \A m \in 1..position : TypeAt(m) = "CLAIM_PERSISTED" =>
    \/ row[topic[m][1]].status \in Settled
    \/ \E w \in Replicas : handler[w].pc # "idle" /\ handler[w].claim = topic[m][1]

\* A reported outcome stands: NOTIFIED is final and NOTIFY_FAILED gives way to NOTIFIED
\* alone, although repeated messages are delivered, and fail, after it.
OutcomeStands ==
  [][\A c \in Claims : row[c].status \in Settled =>
       row'[c].status \in {row[c].status, "NOTIFIED"}]_vars

\* Every persisted claim is reported on, one way or the other, if no replica dies.
PersistedIsSettled ==
  \A c \in Claims : row[c].status = "PERSISTED" ~> row[c].status \in Settled

\* "consumers dedupe on event_id" (relay.py:3): no webhook goes out again for an event
\* that the customer has accepted one for.
ConsumersDedupe ==
  [][\A w \in Replicas :
       handler[w].pc = "load" /\ handler'[w].pc = "post" => Webhook(w) \notin accepted]_vars

\* The replay job re-attempts every claim it has found (notifier.py:120).
ReplayAttemptsAll ==
  [][Cardinality(failed') + 1 >= Cardinality(failed)]_vars
=============================================================================
