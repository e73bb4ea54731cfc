---------------------------- MODULE InMemoryStore ----------------------------
(***************************************************************************)
(* InMemoryEventStore (eventstore.py), the store the tests and the local   *)
(* runs use: dictionaries and lists of one process, whose calls have no    *)
(* await inside and so are atomic.                                         *)
(***************************************************************************)
EXTENDS Projection

CONSTANTS Claims, Keys, NoKey, Events,  \* as in EventStore
          EmptyKey                      \* the Idempotency-Key header with an empty value

VARIABLES claims,      \* _claims; NoClaim where there is no entry
          history,     \* _events, whose lengths are _seq
          idem,        \* _idem: per key, the claims it leads to, at most one
          pending,     \* _outbox: <<claim, seq>> in order of append ...
          sent,        \* ... and those of them marked published
          predictions  \* _predictions: the tiers of the claim's last run

vars == <<claims, history, idem, pending, sent, predictions>>

TypeOK == /\ claims \in [Claims -> Claim]
          /\ history \in [Claims -> Seq(Event)]
          /\ idem \in [Keys -> SUBSET Claims]
          /\ pending \in Seq(Claims \X (Nat \ {0}))
          /\ sent \subseteq Claims \X (Nat \ {0})
          /\ predictions \in [Claims -> SUBSET Tiers]

Init == /\ claims = [c \in Claims |-> NoClaim]
        /\ history = [c \in Claims |-> <<>>]
        /\ idem = [k \in Keys |-> {}]
        /\ pending = <<>> /\ sent = {}
        /\ predictions = [c \in Claims |-> {}]

\* A key that is given again is taken over by the claim it comes with.
Indexed(r) == IF r.key \in {NoKey, EmptyKey} THEN idem
              ELSE [idem EXCEPT ![r.key] = {r.claim}]

\* append: project raises before anything is kept. A run's predictions replace the last's.
AppendEvent(r) ==
  /\ Legal(claims[r.claim], r.event)
  /\ claims' = [claims EXCEPT ![r.claim] = Project(@, r.event)]
  /\ history' = [history EXCEPT ![r.claim] = Append(@, r.event)]
  /\ idem' = Indexed(r)
  /\ predictions' = IF r.event.type = "PREDICTIONS_READY"
                    THEN [predictions EXCEPT ![r.claim] = TiersOf(r.event)] ELSE predictions
  /\ pending' = Append(pending, <<r.claim, Len(history[r.claim]) + 1>>)
  /\ UNCHANGED sent

\* Mutant of MarkPublished: whatever is in the outbox by now is marked.
MarkPublishedAll(S) == /\ sent' = sent \cup {pending[i] : i \in DOMAIN pending}
                       /\ UNCHANGED <<claims, history, idem, pending, predictions>>

\* mark_published, given ids that fetch_unpublished returned
MarkPublished(S) == /\ sent' = sent \cup S
                    /\ UNCHANGED <<claims, history, idem, pending, predictions>>

-----------------------------------------------------------------------------
(* The reads *)

FindByIdempotencyKey(k) == idem[k]
ListByStatus(s) == {c \in Claims : claims[c].status = s}
ListPendingReview == {c \in Claims : claims[c].decision = "PEND" /\ claims[c].status = "ADJUDICATED"}

\* fetch_unpublished without its limit: the positions it returns, in ascending order
Unpublished == {i \in DOMAIN pending : pending[i] \notin sent}
=============================================================================
