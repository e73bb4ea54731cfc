----------------------------- MODULE StoreTwins -----------------------------
(***************************************************************************)
(* The two implementations of the EventStore protocol side by side: the    *)
(* in-memory store, which CI exercises, is given every append that         *)
(* Postgres commits, in the order of the commits, and every mark of the    *)
(* relay.  The reads of PostgresEventStore are single statements over the  *)
(* committed tables and are defined here.                                  *)
(***************************************************************************)
EXTENDS PostgresStore

CONSTANT EmptyKey

VARIABLES mclaims, mhistory, midem, mpending, msent, mpredictions

memory == <<mclaims, mhistory, midem, mpending, msent, mpredictions>>

Memory == INSTANCE InMemoryStore
  WITH claims <- mclaims, history <- mhistory, idem <- midem,
       pending <- mpending, sent <- msent, predictions <- mpredictions

TwinInit == Init /\ Memory!Init

\* The same call reaches both; a transaction that does not commit raises, and its caller
\* has appended nothing. What the in-memory store refuses must not hold Postgres back.
TwinCommit(w) == LET r == txn[w].req IN
                 /\ Commit(w)
                 /\ IF Legal(mclaims[r.claim], r.event) THEN Memory!AppendEvent(r)
                                                       ELSE UNCHANGED memory

Fetched == {<<o.claim, o.seq>> : o \in {o \in outbox : o.id \in batch}}

TwinMark == MarkPublished /\ Memory!MarkPublished(Fetched)

PostgresOnly == \/ \E w \in Writers : \/ \E r \in Request : ReadSeq(w, r)
                                      \/ ReadRow(w) \/ InsertEvent(w) \/ UpsertClaim(w)
                                      \/ InsertOutbox(w) \/ Abort(w)
                \/ FetchUnpublished \/ RelayCrash

TwinNext == \/ \E w \in Writers : TwinCommit(w)
            \/ TwinMark
            \/ PostgresOnly /\ UNCHANGED memory

twinVars == <<vars, memory>>

TwinSpec == TwinInit /\ [][TwinNext]_twinVars

\* As PostgresStore's FairSpec.
FairTwinSpec ==
  TwinSpec /\ \A w \in Writers :
                SF_twinVars((Statement(w) /\ UNCHANGED memory) \/ TwinCommit(w))

-----------------------------------------------------------------------------
(* PostgresEventStore's reads *)

FindByIdempotencyKey(k) == {c \in Claims : row[c].status # "ABSENT" /\ key[c] = k}
ListByStatus(s) == {c \in Claims : row[c].status = s}
PendingIds == {c \in Claims : row[c].decision = "PEND" /\ row[c].status = "ADJUDICATED"}

\* SELECT * FROM model_outputs: which tiers have a row
Predictions(c) == outputs[c]

\* ORDER BY id
FetchedBefore(o, p) == o.id < p.id

-----------------------------------------------------------------------------
\* What fetch_unpublished returns of a claim's events, without its limit: entry i of the
\* list is row o of the table.  Where both follow one order, neither has an event twice.
Returned(i, o) == mpending[i] = <<o.claim, o.seq>>

SameFetch(c) ==
  LET listed == {i \in Memory!Unpublished : mpending[i][1] = c}
      rows   == {o \in Unpublished : o.claim = c} IN
  /\ \A i \in listed : \E o \in rows : Returned(i, o)
  /\ \A o \in rows : \E i \in listed : Returned(i, o)
  /\ \A i, j \in listed, o, p \in rows :
       Returned(i, o) /\ Returned(j, p) => (i < j <=> FetchedBefore(o, p))

\* What the tests see of the in-memory store is what the deployment sees of Postgres:
\* after any commits, races, rollbacks and crashes every read but predictions answers
\* alike, the relay's per claim (eventstore.py:126 "Not exercised in CI (InMemory is)").
TwinsAgree ==
  /\ Memory!TypeOK
  /\ mclaims = row /\ mhistory = events
  /\ \A k \in Keys \ {EmptyKey} : Memory!FindByIdempotencyKey(k) = FindByIdempotencyKey(k)
  /\ \A s \in ClaimStatus : Memory!ListByStatus(s) = ListByStatus(s)
  /\ Memory!ListPendingReview = PendingIds
  /\ \A c \in Claims : SameFetch(c)

\* The same of the predictions, which Postgres merges and the in-memory store replaces
\* (eventstore.py:86-87, eventstore.py:197-212).
PredictionsAgree == \A c \in Claims : mpredictions[c] = Predictions(c)
=============================================================================
