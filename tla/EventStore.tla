----------------------------- MODULE EventStore -----------------------------
(***************************************************************************)
(* What an event store promises its callers: append is one atomic step     *)
(* that adds a legal event to the claim's history, folds it into the       *)
(* claim's row and its model outputs, and leaves it in the outbox          *)
(* (src/claimpipe/eventstore.py, the EventStore protocol and the module    *)
(* docstring).  PostgresStore is the transaction that implements it.       *)
(***************************************************************************)
EXTENDS Projection

CONSTANTS Claims,     \* claim ids
          Keys,       \* values of the Idempotency-Key header
          NoKey,      \* the Python None: no key given
          Events      \* the events callers append, a subset of Event

VARIABLES log,      \* claim_events: the history of each claim
          row,      \* claims: the projected row
          key,      \* claims.idempotency_key
          outputs,  \* model_outputs: the tiers with a row for the claim
          outbox    \* <<claim, seq>> of the events not yet marked published

vars == <<log, row, key, outputs, outbox>>

\* No claim row holds the idempotency key k yet.
Unused(k) == \A d \in Claims : k = NoKey \/ key[d] # k

\* A request append is called with; only a submission passes a key.
Request == {r \in [claim : Claims, event : Events, key : Keys \cup {NoKey}] :
              r.event.type # "CLAIM_RECEIVED" => r.key = NoKey}

TypeOK == /\ log \in [Claims -> Seq(Event)]
          /\ row \in [Claims -> Claim]
          /\ key \in [Claims -> Keys \cup {NoKey}]
          /\ outputs \in [Claims -> SUBSET Tiers]
          /\ outbox \subseteq Claims \X (Nat \ {0})

Init == /\ log = [c \in Claims |-> <<>>]
        /\ row = [c \in Claims |-> NoClaim]
        /\ key = [c \in Claims |-> NoKey]
        /\ outputs = [c \in Claims |-> {}]
        /\ outbox = {}

AppendEvent(r) ==
  LET c == r.claim IN
  /\ Legal(row[c], r.event)
  /\ row[c].status = "ABSENT" => Unused(r.key)
  /\ log' = [log EXCEPT ![c] = Append(@, r.event)]
  /\ row' = [row EXCEPT ![c] = Project(@, r.event)]
  /\ key' = [key EXCEPT ![c] = IF row[c].status = "ABSENT" THEN r.key ELSE @]
  /\ outputs' = [outputs EXCEPT ![c] = @ \cup TiersOf(r.event)]
  /\ outbox' = outbox \cup {<<c, Len(log[c]) + 1>>}

\* The relay marks events it has fetched.
MarkPublished(S) == /\ S \subseteq outbox
                    /\ outbox' = outbox \ S
                    /\ UNCHANGED <<log, row, key, outputs>>

Next == \/ \E r \in Request : AppendEvent(r)
        \/ \E S \in SUBSET outbox : MarkPublished(S)

Spec == Init /\ [][Next]_vars
=============================================================================
