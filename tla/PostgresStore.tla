---------------------------- MODULE PostgresStore ----------------------------
(***************************************************************************)
(* PostgresEventStore: append as the transaction it is, statement by       *)
(* statement at READ COMMITTED, run by several connections at once (API    *)
(* pods, workers, notifiers), and the two calls the relay makes.           *)
(*                                                                         *)
(* A transaction's writes stay in its txn record until Commit.  What other *)
(* transactions feel of them before that are the unique indexes: an insert *)
(* waits for an uncommitted row with the same value, and fails once a      *)
(* committed one has it (migrations/001_init.sql, 002_events.sql).         *)
(***************************************************************************)
EXTENDS Projection, FiniteSetsExt

CONSTANTS Claims, Keys, NoKey, Events,  \* as in EventStore
          Writers,                      \* database connections that append
          MaxId,                        \* bound: no append begins past this outbox id
          BatchSize                     \* fetch_unpublished's limit

ASSUME PostgresAssumption ==
  /\ Events \subseteq Event
  /\ NoKey \notin Keys
  /\ MaxId \in Nat /\ BatchSize \in Nat \ {0}

VARIABLES events,   \* claim_events: per claim, the committed events by seq
          row,      \* claims
          key,      \* claims.idempotency_key
          outputs,  \* model_outputs
          outbox,   \* the outbox table
          nextId,   \* the sequence behind outbox.id
          txn,      \* each connection's transaction
          batch     \* ids the relay fetched and has not marked yet

vars == <<events, row, key, outputs, outbox, nextId, txn, batch>>

Unpublished == {o \in outbox : ~o.published}

\* The committed state is an EventStore whose append happens at Commit.
Abstract == INSTANCE EventStore
  WITH log <- events, outbox <- {<<o.claim, o.seq>> : o \in Unpublished}

Request == Abstract!Request

\* pc is the last statement executed; "idle" is no transaction.
Idle == [pc |-> "idle"]
Txn(pc, r, seq, new, id) ==
  [pc |-> pc, req |-> r, seq |-> seq, new |-> new, id |-> id]
Transaction ==
  {Idle} \cup [pc : {"seq", "row", "event", "claim", "outbox"}, req : Request,
               seq : Nat \ {0}, new : Claim, id : Nat]

OutboxRow == [id : Nat \ {0}, claim : Claims, seq : Nat \ {0}, published : BOOLEAN]

TypeOK == /\ events \in [Claims -> Seq(Event)]
          /\ row \in [Claims -> Claim]
          /\ key \in [Claims -> Keys \cup {NoKey}]
          /\ outputs \in [Claims -> SUBSET Tiers]
          /\ outbox \subseteq OutboxRow
          /\ nextId \in Nat \ {0}
          /\ txn \in [Writers -> Transaction]
          /\ batch \subseteq Nat

Init == /\ events = [c \in Claims |-> <<>>]
        /\ row = [c \in Claims |-> NoClaim]
        /\ key = [c \in Claims |-> NoKey]
        /\ outputs = [c \in Claims |-> {}]
        /\ outbox = {}
        /\ nextId = 1
        /\ txn = [w \in Writers |-> Idle]
        /\ batch = {}

-----------------------------------------------------------------------------
\* COALESCE(MAX(seq), 0) + 1 over the committed rows
NextSeq(c) == Max({0} \cup DOMAIN events[c]) + 1

HoldsEvent(w, c, n) == /\ txn[w].pc \in {"event", "claim", "outbox"}
                       /\ txn[w].req.claim = c
                       /\ txn[w].seq = n

\* Mutant of HoldsKey: a key is reserved by a statement of its own, before the claims row.
HoldsKeyEarly(w, k) == /\ txn[w].pc \in {"event", "claim", "outbox"}
                       /\ txn[w].req.event.type = "CLAIM_RECEIVED"
                       /\ txn[w].req.key = k

\* w has inserted an uncommitted claims row with idempotency key k
HoldsKey(w, k) == /\ txn[w].pc \in {"claim", "outbox"}
                  /\ txn[w].req.event.type = "CLAIM_RECEIVED"
                  /\ txn[w].req.key = k

\* Mutant of KeyTaken: idempotency_key without its UNIQUE.
KeyTakenUnindexed(k) == FALSE

KeyTaken(k) == k # NoKey /\ \E d \in Claims : key[d] = k

Step(w, pc) == txn' = [txn EXCEPT ![w].pc = pc]

\* Nothing of the transaction survives: an exception, a lost connection, a cancelled task.
Rollback(w) == txn' = [txn EXCEPT ![w] = Idle]

tables == <<events, row, key, outputs, outbox>>

\* BEGIN; SELECT COALESCE(MAX(seq), 0) + 1
ReadSeq(w, r) == /\ txn[w] = Idle
                 /\ nextId <= MaxId
                 /\ txn' = [txn EXCEPT ![w] =
                              Txn("seq", r, NextSeq(r.claim), NoClaim, 0)]
                 /\ UNCHANGED <<tables, nextId, batch>>

\* SELECT * FROM claims, and project: an IllegalTransition rolls back.
ReadRow(w) ==
  /\ txn[w].pc = "seq"
  /\ LET r == txn[w].req IN
       IF Legal(row[r.claim], r.event)
       THEN txn' = [txn EXCEPT ![w] =
                      Txn("row", r, txn[w].seq, Project(row[r.claim], r.event), 0)]
       ELSE Rollback(w)
  /\ UNCHANGED <<tables, nextId, batch>>

\* Mutant of InsertEvent: claim_events without UNIQUE (claim_id, seq).
InsertEventUnindexed(w) == /\ txn[w].pc = "row"
                           /\ Step(w, "event")
                           /\ UNCHANGED <<tables, nextId, batch>>

\* INSERT INTO claim_events, under UNIQUE (claim_id, seq)
InsertEvent(w) ==
  /\ txn[w].pc = "row"
  /\ LET c == txn[w].req.claim
         n == txn[w].seq IN
       /\ \A v \in Writers \ {w} : ~HoldsEvent(v, c, n)
       /\ IF n \in DOMAIN events[c] THEN Rollback(w) ELSE Step(w, "event")
  /\ UNCHANGED <<tables, nextId, batch>>

\* INSERT INTO claims ... ON CONFLICT (claim_id) DO UPDATE; only an insert writes the key
UpsertClaim(w) ==
  /\ txn[w].pc = "event"
  /\ LET r == txn[w].req IN
       IF row[r.claim].status # "ABSENT" THEN Step(w, "claim")
       ELSE /\ r.key # NoKey => \A v \in Writers \ {w} : ~HoldsKey(v, r.key)
            /\ IF KeyTaken(r.key) THEN Rollback(w) ELSE Step(w, "claim")
  /\ UNCHANGED <<tables, nextId, batch>>

\* Mutants of InsertOutbox: the sequence starts at 0; the row is written on another connection.
InsertOutboxFromZero(w) == /\ txn[w].pc = "claim"
                           /\ txn' = [txn EXCEPT ![w].pc = "outbox", ![w].id = nextId - 1]
                           /\ nextId' = nextId + 1
                           /\ UNCHANGED <<tables, batch>>

InsertOutboxAutocommit(w) ==
  /\ txn[w].pc = "claim"
  /\ txn' = [txn EXCEPT ![w].pc = "outbox", ![w].id = nextId]
  /\ nextId' = nextId + 1
  /\ outbox' = outbox \cup {[id |-> nextId, claim |-> txn[w].req.claim,
                             seq |-> txn[w].seq, published |-> FALSE]}
  /\ UNCHANGED <<events, row, key, outputs, batch>>

\* INSERT INTO outbox: the sequence does not roll back
InsertOutbox(w) == /\ txn[w].pc = "claim"
                   /\ txn' = [txn EXCEPT ![w].pc = "outbox", ![w].id = nextId]
                   /\ nextId' = nextId + 1
                   /\ UNCHANGED <<tables, batch>>

\* Only the INSERT of the claims row writes idempotency_key; model_outputs is upserted.
KeyWritten(r) == IF row[r.claim].status = "ABSENT" THEN r.key ELSE key[r.claim]
OutputsWritten(r) == outputs[r.claim] \cup TiersOf(r.event)

\* The model_outputs upserts and COMMIT
Commit(w) ==
  /\ txn[w].pc = "outbox"
  /\ LET t == txn[w]
         c == t.req.claim IN
       /\ events' = [events EXCEPT ![c] =
                       [i \in DOMAIN @ \cup {t.seq} |-> IF i = t.seq THEN t.req.event ELSE @[i]]]
       /\ row' = [row EXCEPT ![c] = t.new]
       /\ key' = [key EXCEPT ![c] = KeyWritten(t.req)]
       /\ outputs' = [outputs EXCEPT ![c] = OutputsWritten(t.req)]
       /\ outbox' = outbox \cup
            {[id |-> t.id, claim |-> c, seq |-> t.seq, published |-> FALSE]}
  /\ txn' = [txn EXCEPT ![w] = Idle]
  /\ UNCHANGED <<nextId, batch>>

Abort(w) == /\ txn[w] # Idle
            /\ Rollback(w)
            /\ UNCHANGED <<tables, nextId, batch>>

-----------------------------------------------------------------------------
\* Mutant of FetchUnpublished: ORDER BY id DESC.
FetchNewest ==
  /\ batch = {} /\ Unpublished # {}
  /\ batch' = {o.id : o \in {o \in Unpublished :
                 Cardinality({p \in Unpublished : p.id > o.id}) < BatchSize}}
  /\ UNCHANGED <<tables, nextId, txn>>

\* SELECT ... WHERE NOT published ORDER BY id LIMIT BatchSize
FetchUnpublished ==
  /\ batch = {} /\ Unpublished # {}
  /\ batch' = {o.id : o \in {o \in Unpublished :
                 Cardinality({p \in Unpublished : p.id < o.id}) < BatchSize}}
  /\ UNCHANGED <<tables, nextId, txn>>

\* UPDATE outbox SET published = true for the fetched rows
MarkPublished ==
  /\ batch # {}
  /\ outbox' = {[o EXCEPT !.published = @ \/ o.id \in batch] : o \in outbox}
  /\ batch' = {}
  /\ UNCHANGED <<events, row, key, outputs, nextId, txn>>

\* The relay dies between the two and starts over.
RelayCrash == /\ batch # {}
              /\ batch' = {}
              /\ UNCHANGED <<tables, nextId, txn>>

Statement(w) == \/ ReadRow(w) \/ InsertEvent(w) \/ UpsertClaim(w)
                \/ InsertOutbox(w) \/ Commit(w)

Next == \/ \E w \in Writers : \/ \E r \in Request : ReadSeq(w, r)
                              \/ Statement(w)
                              \/ Abort(w)
        \/ FetchUnpublished \/ MarkPublished \/ RelayCrash

Spec == Init /\ [][Next]_vars

\* A connection that has begun goes on to its next statement.  Strong fairness is for the
\* waits: Postgres wakes every waiter of a transaction that ends, so one that could go on
\* again and again does.
FairSpec == Spec /\ \A w \in Writers : SF_vars(Statement(w))

-----------------------------------------------------------------------------
\* However connections interleave, the transaction is EventStore's atomic append: no
\* event is lost or overwritten, and no row is written from a stale read
\* (eventstore.py:131-213, README "one transaction").
ImplementsEventStore == Abstract!Spec

\* Rebuilding a claim from its events gives exactly the row the reads are served from
\* ("read models are folded from them"), although the row was computed from a SELECT
\* made before the INSERTs.
RowIsFold == \A c \in Claims : row[c] = Fold(events[c])

\* ids are drawn before commit and can be burned by a rollback, yet within one claim
\* their order is the event order, and the relay that goes by id never leaves an earlier
\* event of a claim behind a later one it has published.
OutboxFollowsHistory ==
  \A o, p \in outbox : o.claim = p.claim /\ o.seq < p.seq =>
    /\ o.id < p.id
    /\ p.published => o.published

\* The waits for unique indexes never form a cycle: every append commits or rolls back.
AppendEnds == \A w \in Writers : txn[w].pc # "idle" ~> txn[w].pc = "idle"
=============================================================================
