----------------------------- MODULE Submission -----------------------------
(***************************************************************************)
(* POST /claims and POST /intake/{adapter}: the shared path _submit of     *)
(* api/app.py, run for several requests at once by the API's pods, and     *)
(* POST /claims/{id}/uploaded.                                             *)
(*                                                                         *)
(* A handler resolves the claim type, looks for the Idempotency-Key,       *)
(* appends CLAIM_RECEIVED (EventStore's atomic append) and starts the      *)
(* workflow: four steps in three systems, any of which may be its last.    *)
(* claim_id is a fresh uuid4, so a claim is named by the request that made *)
(* it.  Customers retry by sending another request.                        *)
(***************************************************************************)
EXTENDS Naturals, FiniteSets

CONSTANTS Requests,    \* HTTP requests that submit a claim
          CustomerOf,  \* the customer each request is authenticated as
          Keys, NoKey, \* Idempotency-Key values; none given
          EmptyKey,    \* the header with an empty value, among Keys where it is looked at
          Types,       \* claim types customers name
          StageLists,  \* stage lists the tenant's registry may hold for a type
          NotFound,    \* no such type in the registry, no such workflow
          MaxFaults,   \* bound: crashes and calls that fail
          MaxChanges   \* bound: changes of the registry

ASSUME SubmissionAssumption ==
  /\ DOMAIN CustomerOf = Requests
  /\ NoKey \notin Keys /\ NotFound \notin StageLists
  /\ MaxFaults \in Nat /\ MaxChanges \in Nat

VARIABLES registry,  \* tenant.registry: the stages of each type
          request,   \* the handler of each request
          claims,    \* claims rows made by a request: their idempotency_key
          workflows, \* stages pinned into the workflow of each claim
          signalled, \* claims whose workflow has got pdf_uploaded
          faults, changes

vars == <<registry, request, claims, workflows, signalled, faults, changes>>

\* A reply names a claim and shows stages; reply is the status code, 0 as long as there is none.
Handler ==
  [pc : {"idle", "lookup", "append", "start", "done"}, key : Keys \cup {NoKey},
   type : Types, stages : StageLists \cup {NotFound}, reply : {0, 202, 422, 500},
   claim : Requests, idempotent : BOOLEAN]

Row == [exists : BOOLEAN, key : Keys \cup {NoKey}]

TypeOK == /\ registry \in [Types -> StageLists \cup {NotFound}]
          /\ request \in [Requests -> Handler]
          /\ claims \in [Requests -> Row]
          /\ workflows \in [Requests -> StageLists \cup {NotFound}]
          /\ signalled \subseteq Requests
          /\ faults \in 0..MaxFaults /\ changes \in 0..MaxChanges

\* Which key and type a request carries is the client's choice.
Init ==
  /\ registry \in [Types -> StageLists]
  /\ \E key \in [Requests -> Keys \cup {NoKey}], type \in [Requests -> Types] :
       request = [r \in Requests |->
                    [pc |-> "idle", key |-> key[r], type |-> type[r], stages |-> NotFound,
                     reply |-> 0, claim |-> r, idempotent |-> FALSE]]
  /\ claims = [r \in Requests |-> [exists |-> FALSE, key |-> NoKey]]
  /\ workflows = [r \in Requests |-> NotFound]
  /\ signalled = {}
  /\ faults = 0 /\ changes = 0

-----------------------------------------------------------------------------
Goes(r, pc) == request' = [request EXCEPT ![r] = [@ EXCEPT !.pc = pc]]

Replies(r, code) == request' = [request EXCEPT ![r] = [@ EXCEPT !.pc = "done", !.reply = code]]

\* The type and the attributes are checked, the stages resolved, all on one reading of
\* the registry.
Resolve(r) ==
  /\ request[r].pc = "idle"
  /\ \/ /\ registry[request[r].type] # NotFound
        /\ request' = [request EXCEPT ![r] =
             [@ EXCEPT !.pc = IF request[r].key \in {NoKey, EmptyKey} THEN "append" ELSE "lookup",
                       !.stages = registry[request[r].type]]]
     \/ Replies(r, 422)
  /\ UNCHANGED <<registry, claims, workflows, signalled, faults, changes>>

Holder(k) == {c \in Requests : claims[c].exists /\ claims[c].key = k}

\* Mutant of Answered: the reply carries the key it was found by.
AnsweredByKey(c) == claims[c].key

\* The claim_id a hit is answered with.
Answered(c) == c

\* find_by_idempotency_key; a hit is answered with the existing claim and the stages of
\* this request's type.
Lookup(r) ==
  /\ request[r].pc = "lookup"
  /\ \/ /\ Holder(request[r].key) = {}
        /\ Goes(r, "append")
     \/ \E c \in Holder(request[r].key) :
          request' = [request EXCEPT ![r] =
            [@ EXCEPT !.pc = "done", !.reply = 202, !.claim = Answered(c), !.idempotent = TRUE]]
  /\ UNCHANGED <<registry, claims, workflows, signalled, faults, changes>>

\* Mutant of KeyFree: idempotency_key without its UNIQUE.
KeyFreeAlways(k) == TRUE

\* To the index the empty key is a key like any other.
KeyFree(k) == k = NoKey \/ Holder(k) = {}

\* The append fails on a key that another request has stored since the lookup.
AppendReceived(r) ==
  /\ request[r].pc = "append"
  /\ IF KeyFree(request[r].key)
     THEN /\ claims' = [claims EXCEPT ![r] = [exists |-> TRUE, key |-> request[r].key]]
          /\ Goes(r, "start")
     ELSE Replies(r, 500) /\ UNCHANGED claims
  /\ UNCHANGED <<registry, workflows, signalled, faults, changes>>

\* Mutant of PinnedStages: the registry is read again when the workflow is started.
PinnedStagesLate(r) == registry[request[r].type]

PinnedStages(r) == request[r].stages

\* Mutant of StartWorkflow: the workflow is started before the event is appended.
StartWorkflowFirst(r) ==
  /\ request[r].pc \in {"append", "start"} /\ workflows[r] = NotFound
  /\ workflows' = [workflows EXCEPT ![r] = PinnedStages(r)]
  /\ IF request[r].pc = "start" THEN Replies(r, 202) ELSE UNCHANGED request
  /\ UNCHANGED <<registry, claims, signalled, faults, changes>>

StartWorkflow(r) ==
  /\ request[r].pc = "start"
  /\ workflows' = [workflows EXCEPT ![r] = PinnedStages(r)]
  /\ Replies(r, 202)
  /\ UNCHANGED <<registry, claims, signalled, faults, changes>>

\* The pod dies or a call raises, before or after it took effect: the request ends with an
\* error or no answer at all, and nothing is undone.
Fault(r) ==
  /\ request[r].pc \in {"lookup", "append", "start"} /\ faults < MaxFaults
  /\ faults' = faults + 1
  /\ \/ UNCHANGED <<claims, workflows>>
     \/ /\ request[r].pc = "append" /\ KeyFree(request[r].key)
        /\ claims' = [claims EXCEPT ![r] = [exists |-> TRUE, key |-> request[r].key]]
        /\ UNCHANGED workflows
     \/ /\ request[r].pc = "start"
        /\ workflows' = [workflows EXCEPT ![r] = PinnedStages(r)]
        /\ UNCHANGED claims
  /\ \E code \in {0, 500} : Replies(r, code)
  /\ UNCHANGED <<registry, signalled, changes>>

\* POST /claims/{id}/uploaded: signalling a workflow that is not there raises.
MarkUploaded(c) ==
  /\ claims[c].exists /\ workflows[c] # NotFound
  /\ signalled' = signalled \cup {c}
  /\ UNCHANGED <<registry, request, claims, workflows, faults, changes>>

\* Another deployment, with other claim types.
RegistryChanges(t) ==
  /\ changes < MaxChanges
  /\ changes' = changes + 1
  /\ \E s \in StageLists \cup {NotFound} : registry' = [registry EXCEPT ![t] = s]
  /\ UNCHANGED <<request, claims, workflows, signalled, faults>>

Next == \/ \E r \in Requests : \/ Resolve(r) \/ Lookup(r) \/ AppendReceived(r)
                               \/ StartWorkflow(r) \/ Fault(r) \/ MarkUploaded(r)
        \/ \E t \in Types : RegistryChanges(t)

Spec == Init /\ [][Next]_vars

-----------------------------------------------------------------------------
Acked(r) == request[r].reply = 202

\* However requests with one Idempotency-Key interleave, crash and are sent again, every
\* 202 they get names the same claim (README "idempotent submit").
SameKeySameClaim ==
  \A r, s \in Requests :
    Acked(r) /\ Acked(s) /\ request[r].key = request[s].key /\ request[r].key # NoKey
      => request[r].claim = request[s].claim

\* A 202 for a new claim shows the stages its workflow was started with, though the
\* registry changed while the request was served (app.py:190-191, README "pinned").
FreshAckShowsPinned ==
  \A r \in Requests : Acked(r) /\ ~request[r].idempotent =>
    workflows[r] # NotFound /\ workflows[r] = request[r].stages

\* No workflow runs for a claim the event store does not have: its first activity would
\* be refused for ever.
WorkflowHasClaim == \A c \in Requests : workflows[c] # NotFound => claims[c].exists

\* Every accepted claim has a workflow: the INSERT is followed by the start
\* (docs/DESIGN.md:99-102).
AckedClaimRuns ==
  \A r \in Requests : Acked(r) => workflows[request[r].claim] # NotFound

\* Sending a submission twice is answered like sending it once (README:83).
DuplicatesAreAnswered ==
  faults = 0 => \A r \in Requests : request[r].reply # 500

\* A header with an empty value is no header (app.py:169 looks nothing up for it): where
\* nothing fails, no such request does.
EmptyKeyIsNoKey ==
  faults = 0 => \A r \in Requests : request[r].key = EmptyKey => request[r].reply # 500

\* The claim a customer is given is one they may see (app.py:119 "submitters see their OWN
\* claims"): the claim belongs to the customer of the request that made it.
AckedClaimIsOwn ==
  \A r \in Requests : Acked(r) => CustomerOf[request[r].claim] = CustomerOf[r]
=============================================================================
