------------------------------- MODULE ReadApi -------------------------------
(***************************************************************************)
(* The reading side of the API (api/app.py): documents rendered on demand  *)
(* and the reviewers' work queue, served while the claims' events go on.   *)
(* A document takes the claim and its model outputs in two reads, and the  *)
(* queue reads each claim again after it has selected their ids.  The      *)
(* store is EventStore, which PostgresStore implements.                    *)
(*                                                                         *)
(* A caller is an API key.  customers.py resolves it to a customer id, a   *)
(* tenant and roles; the submit path stamps the first two onto the claim.  *)
(***************************************************************************)
EXTENDS Projection, FiniteSets

CONSTANTS Claims, Events, NoKey,
          Callers,      \* registered API keys
          Customer,     \* CustomerRegistry: what a key resolves to
          SubmittedBy,  \* the key each claim is submitted with
          MaxEvents     \* bound: events of a claim

CustomerType == [customer_id : STRING, tenant_id : STRING, roles : SUBSET {"submit", "review"}]

ASSUME ReadAssumption ==
  /\ Events \subseteq Event /\ MaxEvents \in Nat
  /\ Customer \in [Callers -> CustomerType]
  /\ SubmittedBy \in [Claims -> {u \in Callers : "submit" \in Customer[u].roles}]

VARIABLES log, row, key, outputs, outbox,  \* EventStore's
          reader                           \* the call each caller has made

stored == <<log, row, key, outputs, outbox>>
vars   == <<stored, reader>>

Store == INSTANCE EventStore WITH Keys <- {}

Idle == [pc |-> "idle"]

Adapters == {"eob", "denial-letter"}
Statuses == {200, 403, 404, 409}

\* A call for a document: the claim as it was read, then the predictions and the answer.
\* Only a caller who is shown a claim has read one.
DocumentCall ==
  {d \in [pc : {"claim", "predictions", "document"}, claim : Claims, adapter : Adapters,
          seen : Claim, evidence : SUBSET Tiers, code : Statuses] :
     d.seen = NoClaim <=> d.pc = "claim" \/ d.code = 404}

\* A call for the queue: the ids selected and not read yet, and the rows read.
QueueCall == [pc : {"select", "rows", "queue"}, todo : SUBSET Claims,
              found : SUBSET (Claims \X Claim), code : Statuses]

TypeOK == Store!TypeOK /\ reader \in [Callers -> {Idle} \cup DocumentCall \cup QueueCall]

Init == Store!Init /\ reader = [u \in Callers |-> Idle]

-----------------------------------------------------------------------------
(* The claims' lives: the API, the workflow and the notifier append *)

\* A verdict comes from the gate behind ADJUDICATE.
AppendEvent(c, e) ==
  /\ Len(log[c]) < MaxEvents
  /\ e.type = "REVIEW_COMPLETED" => row[c].decision # "NONE"
  /\ Store!AppendEvent([claim |-> c, event |-> e, key |-> NoKey])
  /\ UNCHANGED reader

-----------------------------------------------------------------------------
(* GET /claims/{id}/documents/{adapter} *)

Can(u, role) == role \in Customer[u].roles

\* Mutant of Visible: the owner's identity is compared before the row is known to exist.
VisibleUnread(u, c) == Customer[SubmittedBy[c]].tenant_id = Customer[u].tenant_id

\* Submitters see their own claims, reviewers their tenant's.
Visible(u, c) ==
  LET owner == Customer[SubmittedBy[c]] IN
  /\ row[c].status # "ABSENT"
  /\ \/ Can(u, "submit") /\ owner.customer_id = Customer[u].customer_id
     \/ Can(u, "review") /\ owner.tenant_id = Customer[u].tenant_id

Turns(u, call) == reader' = [reader EXCEPT ![u] = call] /\ UNCHANGED stored

RequestDocument(u, c, a) ==
  /\ reader[u] = Idle
  /\ Turns(u, [pc |-> "claim", claim |-> c, adapter |-> a, seen |-> NoClaim,
               evidence |-> {}, code |-> 200])

\* _visible_claim reads the row
ReadClaim(u) ==
  LET d == reader[u] IN
  /\ d.pc = "claim"
  /\ Turns(u, IF Visible(u, d.claim) THEN [d EXCEPT !.pc = "predictions", !.seen = row[d.claim]]
              ELSE [d EXCEPT !.pc = "document", !.code = 404])

\* Mutant of Renders: a document needs no decision.
RendersAny(adapter, claim) == TRUE

\* What an adapter raises OutputError for.
Renders(adapter, claim) == /\ claim.decision # "NONE"
                           /\ adapter = "denial-letter" => claim.decision = "DENY"

ReadPredictions(u) ==
  LET d == reader[u] IN
  /\ d.pc = "predictions"
  /\ Turns(u, [d EXCEPT !.pc = "document", !.evidence = outputs[d.claim],
                        !.code = IF Renders(d.adapter, d.seen) THEN 200 ELSE 409])

-----------------------------------------------------------------------------
(* GET /review-queue *)

RequestQueue(u) ==
  /\ reader[u] = Idle
  /\ Turns(u, [pc |-> IF Can(u, "review") THEN "select" ELSE "queue", todo |-> {},
               found |-> {}, code |-> IF Can(u, "review") THEN 200 ELSE 403])

\* list_pending_review selects the ids ...
SelectPending(u) ==
  /\ reader[u].pc = "select"
  /\ Turns(u, [reader[u] EXCEPT !.pc = "rows", !.todo =
                 {c \in Claims : row[c].decision = "PEND" /\ row[c].status = "ADJUDICATED"}])

\* ... and reads each claim again, which by then may be decided.
ReadRow(u, c) ==
  LET q == reader[u] IN
  /\ q.pc = "rows" /\ c \in q.todo
  /\ Turns(u, [q EXCEPT !.todo = @ \ {c}, !.found = @ \cup {<<c, row[c]>>}])

OfTenant(u, c) == Customer[SubmittedBy[c]].tenant_id = Customer[u].tenant_id

AnswerQueue(u) ==
  LET q == reader[u] IN
  /\ q.pc = "rows" /\ q.todo = {}
  /\ Turns(u, [q EXCEPT !.pc = "queue", !.found = {f \in @ : OfTenant(u, f[1])}])

Reads(u) == \/ \E c \in Claims, a \in Adapters : RequestDocument(u, c, a)
            \/ ReadClaim(u) \/ ReadPredictions(u)
            \/ RequestQueue(u) \/ SelectPending(u) \/ AnswerQueue(u)
            \/ \E c \in Claims : ReadRow(u, c)

Next == \/ \E c \in Claims, e \in Events : AppendEvent(c, e)
        \/ \E u \in Callers : Reads(u)

Spec == Init /\ [][Next]_vars

-----------------------------------------------------------------------------
Rendered(u) == reader[u].pc = "document" /\ reader[u].code = 200

\* A rendered document shows the model outputs its decision leaves on record for good: the
\* two reads are not one transaction and runs of the models are repeated and escalated,
\* yet nothing is added under a document any more (output.py:5 "a pure projection over
\* already-decided state").
DocumentShowsFinalEvidence ==
  \A u \in Callers : Rendered(u) => reader[u].evidence = outputs[reader[u].claim]

\* The work queue lists claims that are pending (app.py:277 "adjudicated claims PENDing
\* for a human reviewer").
QueueShowsPending ==
  \A u \in Callers : reader[u].pc = "queue" =>
    \A f \in reader[u].found : f[2].decision = "PEND" /\ f[2].status = "ADJUDICATED"

\* The decision a document was rendered with stands (output.py:5 "already-decided state").
DocumentDecisionStands ==
  \A u \in Callers : Rendered(u) => reader[u].seen.decision = row[reader[u].claim].decision
=============================================================================
