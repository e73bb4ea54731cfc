------------------------- MODULE PostgresStoreProofs -------------------------
(***************************************************************************)
(* Proofs about PostgresStore, for any claims, keys, events and number of  *)
(* connections.  A transaction reads before it writes; what makes its      *)
(* writes current is the unique index: while w's event is in the index     *)
(* (Inserted), its seq is the next one, the row is the one it read, and no *)
(* other transaction is in the same place.  The last part is about         *)
(* StoreTwins, where each commit also reaches an in-memory store.          *)
(***************************************************************************)
EXTENDS StoreTwins, SequenceTheorems, FiniteSetTheorems, WellFoundedInduction, TLAPS

Active == [pc : {"seq", "row", "event", "claim", "outbox"}, req : Request,
           seq : Nat \ {0}, new : Claim, id : Nat]

Inserted(w) == txn[w].pc \in {"event", "claim", "outbox"}

\* The transaction's reads are still what they were.
Current(w) == LET t == txn[w] IN
  /\ t.seq = Len(events[t.req.claim]) + 1
  /\ Legal(row[t.req.claim], t.req.event)
  /\ t.new = Project(row[t.req.claim], t.req.event)

ReadsCurrent == \A w \in Writers :
  /\ txn[w].pc \in {"seq", "row"} => txn[w].seq <= Len(events[txn[w].req.claim]) + 1
  /\ txn[w].pc = "row" /\ txn[w].seq = Len(events[txn[w].req.claim]) + 1 => Current(w)
  /\ Inserted(w) => Current(w)

OneInserter == \A v, w \in Writers :
  Inserted(v) /\ Inserted(w) /\ txn[v].req.claim = txn[w].req.claim => v = w

\* An uncommitted claims row with a key excludes every other row with it.
KeyReserved == \A w \in Writers, k \in Keys : HoldsKey(w, k) =>
  ~KeyTaken(k) /\ \A v \in Writers \ {w} : ~HoldsKey(v, k)

IdDrawn == \A w \in Writers : txn[w].pc = "outbox" => txn[w].id \in Nat \ {0}

Inv == TypeOK /\ ReadsCurrent /\ OneInserter /\ KeyReserved /\ IdDrawn

-----------------------------------------------------------------------------
LEMMA ProjectType ==
  ASSUME NEW c \in Claim, NEW e \in Event, Legal(c, e)
  PROVE  Project(c, e) \in Claim
<1>1. EventStatus(e.type) \in ClaimStatus \cup {"ABSENT"}
  BY DEF EventStatus, ClaimStatus
<1> QED BY <1>1 DEF DecisionEvents, Project, Claim, ClaimStatus, Event, Decision

LEMMA ActiveType ==
  ASSUME TypeOK, NEW w \in Writers, txn[w].pc # "idle"
  PROVE  /\ txn[w] \in Active
         /\ txn[w].req.claim \in Claims
         /\ txn[w].req.event \in Event /\ txn[w].req.event \in Events
         /\ txn[w].req.key \in Keys \cup {NoKey}
         /\ txn[w].req \in Request
BY PostgresAssumption DEF TypeOK, Transaction, Active, Idle, Request, Abstract!Request

LEMMA EventsType ==
  ASSUME TypeOK, NEW c \in Claims
  PROVE  /\ events[c] \in Seq(Event) /\ Len(events[c]) \in Nat
         /\ DOMAIN events[c] = 1..Len(events[c])
BY LenProperties DEF TypeOK

\* Within a claim, sequence numbers are taken from 1 without gaps.
LEMMA NextSeqIsLen ==
  ASSUME TypeOK, NEW c \in Claims
  PROVE  NextSeq(c) = Len(events[c]) + 1
<1> DEFINE n == Len(events[c])
           S == {0} \cup DOMAIN events[c]
<1>1. n \in Nat /\ S = 0..n
  BY EventsType
<1>2. n \in S /\ \A y \in S : n >= y
  BY <1>1
<1>3. \A x \in S : (\A y \in S : x >= y) => x = n
  BY <1>1, <1>2
<1>4. Max(S) = CHOOSE x \in S : \A y \in S : x >= y
  BY Zenon DEF Max
<1>5. Max(S) = n
  <2> HIDE DEF S
  <2> QED BY <1>2, <1>3, <1>4
<1> QED BY <1>5 DEF NextSeq

\* Writing the next seq is appending.
LEMMA CommitAppends ==
  ASSUME NEW s \in Seq(Event), NEW e \in Event, NEW n, n = Len(s) + 1
  PROVE  /\ [i \in DOMAIN s \cup {n} |-> IF i = n THEN e ELSE s[i]] = Append(s, e)
         /\ Append(s, e) \in Seq(Event) /\ Len(Append(s, e)) = n
<1>1. Len(s) \in Nat /\ DOMAIN s = 1..Len(s)
  BY LenProperties
<1>2. /\ Append(s, e) \in Seq(Event) /\ Len(Append(s, e)) = n
      /\ \A i \in 1..Len(s) : Append(s, e)[i] = s[i]
      /\ Append(s, e)[n] = e
  BY AppendProperties
<1>3. Append(s, e) \in [1..n -> Event] /\ DOMAIN s \cup {n} = 1..n
  <2>1. \A q \in Seq(Event) : q \in [1..Len(q) -> Event]
    BY LenProperties
  <2>2. DOMAIN s \cup {n} = 1..n
    BY <1>1
  <2> QED BY <1>2, <2>1, <2>2, Zenon
<1>4. \A i \in 1..n : Append(s, e)[i] = IF i = n THEN e ELSE s[i]
  BY <1>1, <1>2
<1>5. Append(s, e) = [i \in 1..n |-> IF i = n THEN e ELSE s[i]]
  BY <1>3, <1>4
<1> QED BY <1>2, <1>3, <1>5

LEMMA InitInv == Init => Inv
<1> SUFFICES ASSUME Init PROVE Inv
  OBVIOUS
<1>1. NoClaim \in Claim
  BY DEF NoClaim, Claim, Decision
<1>2. <<>> \in Seq(Event)
  BY EmptySeq
<1>3. TypeOK
  BY <1>1, <1>2 DEF Init, TypeOK, Transaction
<1> QED BY <1>3 DEF Init, Inv, Idle, ReadsCurrent, OneInserter, KeyReserved, IdDrawn,
                    Inserted, HoldsKey

-----------------------------------------------------------------------------
(* Statements that touch only the transaction of w *)

\* What a statement before Commit leaves alone
OnlyTxn(w) == /\ UNCHANGED <<events, row, key, outputs, outbox, batch>>
              /\ \A v \in Writers \ {w} : txn'[v] = txn[v]
              /\ txn' \in [Writers -> Transaction]
              /\ nextId' \in Nat \ {0}

\* Ending a transaction without effect is always safe.
LEMMA RollbackInv ==
  ASSUME Inv, NEW w \in Writers, OnlyTxn(w), txn'[w] = Idle
  PROVE  Inv'
<1>1. TypeOK'
  BY DEF Inv, OnlyTxn, TypeOK
<1>2. txn'[w].pc = "idle"
  BY DEF Idle
<1>3. ReadsCurrent'
  BY <1>2 DEF Inv, OnlyTxn, ReadsCurrent, Inserted, Current
<1>4. OneInserter'
  BY <1>2 DEF Inv, OnlyTxn, OneInserter, Inserted
<1>5. KeyReserved'
  BY <1>2 DEF Inv, OnlyTxn, KeyReserved, HoldsKey, KeyTaken
<1>6. IdDrawn'
  BY <1>2 DEF Inv, OnlyTxn, IdDrawn
<1> QED BY <1>1, <1>3, <1>4, <1>5, <1>6 DEF Inv

\* Moving on to the next statement, the reads and the sequence number unchanged.
LEMMA StepType ==
  ASSUME TypeOK, NEW w \in Writers, txn[w].pc # "idle",
         NEW pc \in {"event", "claim"}, Step(w, pc)
  PROVE  /\ txn' \in [Writers -> Transaction]
         /\ txn'[w] = [txn[w] EXCEPT !.pc = pc]
         /\ txn'[w].pc = pc /\ txn'[w].req = txn[w].req
         /\ txn'[w].seq = txn[w].seq /\ txn'[w].new = txn[w].new
         /\ \A v \in Writers \ {w} : txn'[v] = txn[v]
<1>1. txn[w] \in Active
  BY ActiveType
<1>2. txn'[w] = [txn[w] EXCEPT !.pc = pc]
  BY DEF Step, TypeOK
<1>3. txn'[w] \in Active
  BY <1>1, <1>2 DEF Active
<1>4. \A v \in Writers \ {w} : txn'[v] = txn[v]
  BY DEF Step, TypeOK
<1>5. txn' \in [Writers -> Transaction]
  BY <1>3, <1>4 DEF Step, TypeOK, Transaction, Active
<1> QED BY <1>1, <1>2, <1>4, <1>5 DEF Active

LEMMA ReadSeqInv ==
  ASSUME Inv, NEW w \in Writers, NEW r \in Request, ReadSeq(w, r)
  PROVE  Inv'
<1>0. r.claim \in Claims /\ TypeOK
  BY DEF Inv, Request, Abstract!Request
<1>1. NextSeq(r.claim) = Len(events[r.claim]) + 1 /\ Len(events[r.claim]) \in Nat
  BY <1>0, NextSeqIsLen, EventsType
<1>2. NoClaim \in Claim
  BY DEF NoClaim, Claim, Decision
<1>3. Txn("seq", r, NextSeq(r.claim), NoClaim, 0) \in Active
  BY <1>1, <1>2 DEF Txn, Active
<1>4. /\ txn'[w] = Txn("seq", r, NextSeq(r.claim), NoClaim, 0)
      /\ txn'[w].pc = "seq" /\ txn'[w].req = r /\ txn'[w].seq = NextSeq(r.claim)
      /\ \A v \in Writers \ {w} : txn'[v] = txn[v]
      /\ UNCHANGED <<events, row, key, outputs, outbox, nextId, batch>>
  BY <1>0 DEF ReadSeq, TypeOK, tables, Txn
<1>5. txn' \in [Writers -> Transaction]
  BY <1>0, <1>3, <1>4 DEF ReadSeq, TypeOK, Transaction, Active
<1>6. TypeOK'
  BY <1>0, <1>4, <1>5 DEF TypeOK
<1>7. ReadsCurrent'
  BY <1>1, <1>4 DEF Inv, ReadsCurrent, Inserted, Current
<1>8. OneInserter' /\ IdDrawn'
  BY <1>4 DEF Inv, OneInserter, Inserted, IdDrawn
<1>9. KeyReserved'
  BY <1>4 DEF Inv, KeyReserved, HoldsKey, KeyTaken
<1> QED BY <1>6, <1>7, <1>8, <1>9 DEF Inv

LEMMA ReadRowInv ==
  ASSUME Inv, NEW w \in Writers, ReadRow(w)
  PROVE  Inv'
<1> DEFINE r == txn[w].req
<1>0. /\ TypeOK /\ txn[w] \in Active /\ r \in Request /\ r.claim \in Claims /\ r.event \in Event
      /\ UNCHANGED <<events, row, key, outputs, outbox, nextId, batch>>
  BY ActiveType DEF Inv, ReadRow, tables
<1>1. CASE ~Legal(row[r.claim], r.event)
  <2>1. /\ txn'[w] = Idle /\ \A v \in Writers \ {w} : txn'[v] = txn[v]
        /\ txn' \in [Writers -> Transaction]
    BY <1>0, <1>1 DEF ReadRow, Rollback, TypeOK, Transaction
  <2> QED BY <1>0, <2>1, RollbackInv DEF OnlyTxn, TypeOK
<1>2. CASE Legal(row[r.claim], r.event)
  <2> DEFINE new == Project(row[r.claim], r.event)
             t   == Txn("row", r, txn[w].seq, new, 0)
  <2>1. new \in Claim
    BY <1>0, <1>2, ProjectType DEF TypeOK
  <2>2. t \in Active
    BY <1>0, <2>1 DEF Txn, Active
  <2>3. /\ txn'[w] = t /\ \A v \in Writers \ {w} : txn'[v] = txn[v]
        /\ txn' \in [Writers -> Transaction]
    BY <1>0, <1>2, <2>2 DEF ReadRow, TypeOK, Transaction, Active
  <2>4. t.pc = "row" /\ t.req = r /\ t.seq = txn[w].seq /\ t.new = new
    BY DEF Txn
  <2>5. TypeOK'
    BY <1>0, <2>3 DEF TypeOK
  <2>6. ReadsCurrent'
    BY <1>0, <1>2, <2>3, <2>4 DEF Inv, ReadRow, ReadsCurrent, Inserted, Current
  <2>7. OneInserter' /\ IdDrawn'
    BY <2>3, <2>4 DEF Inv, OneInserter, Inserted, IdDrawn
  <2>8. KeyReserved'
    BY <1>0, <2>3, <2>4 DEF Inv, KeyReserved, HoldsKey, KeyTaken
  <2> QED BY <2>5, <2>6, <2>7, <2>8 DEF Inv
<1> QED BY <1>1, <1>2

LEMMA InsertEventInv ==
  ASSUME Inv, NEW w \in Writers, InsertEvent(w)
  PROVE  Inv'
<1> DEFINE c == txn[w].req.claim
           n == txn[w].seq
<1>0. /\ TypeOK /\ txn[w] \in Active /\ c \in Claims /\ txn[w].pc = "row" /\ n \in Nat \ {0}
      /\ UNCHANGED <<events, row, key, outputs, outbox, nextId, batch>>
  BY ActiveType DEF Inv, InsertEvent, tables, Active
<1>1. CASE n \in DOMAIN events[c]
  <2>1. /\ txn'[w] = Idle /\ \A v \in Writers \ {w} : txn'[v] = txn[v]
        /\ txn' \in [Writers -> Transaction]
    BY <1>0, <1>1 DEF InsertEvent, Rollback, TypeOK, Transaction
  <2> QED BY <1>0, <2>1, RollbackInv DEF OnlyTxn, TypeOK
<1>2. CASE n \notin DOMAIN events[c]
  <2>1. n = Len(events[c]) + 1
    <3>1. n <= Len(events[c]) + 1
      BY <1>0 DEF Inv, ReadsCurrent
    <3>2. Len(events[c]) \in Nat /\ DOMAIN events[c] = 1..Len(events[c])
      BY <1>0, EventsType
    <3> QED BY <1>0, <1>2, <3>1, <3>2
  <2>2. Current(w)
    BY <1>0, <2>1 DEF Inv, ReadsCurrent
  <2>3. \A v \in Writers \ {w} : Inserted(v) => txn[v].req.claim # c
    <3>1. \A v \in Writers \ {w} : ~HoldsEvent(v, c, n)
      BY DEF InsertEvent
    <3>2. \A v \in Writers : Inserted(v) /\ txn[v].req.claim = c => txn[v].seq = n
      BY <2>1 DEF Inv, ReadsCurrent, Current
    <3> QED BY <3>1, <3>2 DEF HoldsEvent, Inserted
  <2>4. /\ txn' \in [Writers -> Transaction]
        /\ txn'[w].pc = "event" /\ txn'[w].req = txn[w].req
        /\ txn'[w].seq = n /\ txn'[w].new = txn[w].new
        /\ \A v \in Writers \ {w} : txn'[v] = txn[v]
    BY <1>0, <1>2, StepType DEF InsertEvent
  <2>5. TypeOK'
    BY <1>0, <2>4 DEF TypeOK
  <2>6. ReadsCurrent'
    BY <1>0, <2>2, <2>4 DEF Inv, ReadsCurrent, Inserted, Current
  <2>7. OneInserter'
    BY <2>3, <2>4 DEF Inv, OneInserter, Inserted
  <2>8. KeyReserved' /\ IdDrawn'
    BY <1>0, <2>4 DEF Inv, KeyReserved, HoldsKey, KeyTaken, IdDrawn
  <2> QED BY <2>5, <2>6, <2>7, <2>8 DEF Inv
<1> QED BY <1>1, <1>2

LEMMA UpsertClaimInv ==
  ASSUME Inv, NEW w \in Writers, UpsertClaim(w)
  PROVE  Inv'
<1> DEFINE r == txn[w].req
<1>0. /\ TypeOK /\ txn[w] \in Active /\ r.claim \in Claims /\ txn[w].pc = "event"
      /\ r.key \in Keys \cup {NoKey}
      /\ UNCHANGED <<events, row, key, outputs, outbox, nextId, batch>>
  BY ActiveType DEF Inv, UpsertClaim, tables
<1>1. Current(w)
  BY <1>0 DEF Inv, ReadsCurrent, Inserted
<1>2. CASE Rollback(w)
  <2>1. /\ txn'[w] = Idle /\ \A v \in Writers \ {w} : txn'[v] = txn[v]
        /\ txn' \in [Writers -> Transaction]
    BY <1>0, <1>2 DEF Rollback, TypeOK, Transaction
  <2> QED BY <1>0, <2>1, RollbackInv DEF OnlyTxn, TypeOK
<1>3. CASE Step(w, "claim")
  <2>1. /\ txn' \in [Writers -> Transaction]
        /\ txn'[w].pc = "claim" /\ txn'[w].req = r
        /\ txn'[w].seq = txn[w].seq /\ txn'[w].new = txn[w].new
        /\ \A v \in Writers \ {w} : txn'[v] = txn[v]
    BY <1>0, <1>3, StepType
  <2>2. TypeOK'
    BY <1>0, <2>1 DEF TypeOK
  <2>3. ReadsCurrent'
    BY <1>0, <1>1, <2>1 DEF Inv, ReadsCurrent, Inserted, Current
  <2>4. OneInserter' /\ IdDrawn'
    BY <1>0, <2>1 DEF Inv, OneInserter, Inserted, IdDrawn
  <2>5. ASSUME NEW k \in Keys, HoldsKey(w, k)'
        PROVE  ~KeyTaken(k) /\ \A v \in Writers \ {w} : ~HoldsKey(v, k)
    <3>1. r.key = k /\ k # NoKey /\ r.event.type = "CLAIM_RECEIVED"
      BY <2>1, <2>5, PostgresAssumption DEF HoldsKey
    <3>2. row[r.claim].status = "ABSENT"
      BY <1>1, <3>1 DEF Current, Legal
    <3>3. txn'[w] # Idle
      BY <2>1 DEF Idle
    <3>4. ~KeyTaken(k)
      BY <1>0, <3>1, <3>2, <3>3 DEF UpsertClaim, Rollback, TypeOK
    <3> QED BY <3>1, <3>2, <3>4 DEF UpsertClaim
  <2>6. \A v \in Writers \ {w}, k \in Keys : HoldsKey(v, k)' = HoldsKey(v, k)
    BY <2>1 DEF HoldsKey
  <2>7. KeyReserved'
    BY <1>0, <2>5, <2>6 DEF Inv, KeyReserved, KeyTaken
  <2> QED BY <2>2, <2>3, <2>4, <2>7 DEF Inv
<1> QED BY <1>2, <1>3 DEF UpsertClaim

LEMMA InsertOutboxInv ==
  ASSUME Inv, NEW w \in Writers, InsertOutbox(w)
  PROVE  Inv'
<1>0. /\ TypeOK /\ txn[w] \in Active /\ txn[w].pc = "claim" /\ nextId' = nextId + 1
      /\ UNCHANGED <<events, row, key, outputs, outbox, batch>>
  BY ActiveType DEF Inv, InsertOutbox, tables
<1>1. txn'[w] = [txn[w] EXCEPT !.pc = "outbox", !.id = nextId]
  BY <1>0 DEF InsertOutbox, TypeOK
<1>2. /\ txn'[w] \in Active /\ txn'[w].pc = "outbox" /\ txn'[w].req = txn[w].req
      /\ txn'[w].seq = txn[w].seq /\ txn'[w].new = txn[w].new /\ txn'[w].id = nextId
  BY <1>0, <1>1 DEF Active, TypeOK
<1>3. \A v \in Writers \ {w} : txn'[v] = txn[v]
  BY <1>0 DEF InsertOutbox, TypeOK
<1>4. txn' \in [Writers -> Transaction] /\ nextId' \in Nat \ {0}
  BY <1>0, <1>2, <1>3 DEF InsertOutbox, TypeOK, Transaction, Active
<1>5. TypeOK'
  BY <1>0, <1>4 DEF TypeOK
<1>6. ReadsCurrent'
  BY <1>0, <1>2, <1>3 DEF Inv, ReadsCurrent, Inserted, Current
<1>7. OneInserter'
  BY <1>0, <1>2, <1>3 DEF Inv, OneInserter, Inserted
<1>8. \A v \in Writers, k \in Keys : HoldsKey(v, k)' = HoldsKey(v, k)
  BY <1>0, <1>2, <1>3 DEF HoldsKey
<1>9. KeyReserved'
  BY <1>0, <1>8 DEF Inv, KeyReserved, KeyTaken
<1>10. IdDrawn'
  BY <1>0, <1>2, <1>3 DEF Inv, IdDrawn, TypeOK
<1> QED BY <1>5, <1>6, <1>7, <1>9, <1>10 DEF Inv

\* What Commit does, in the abstract store's terms.
LEMMA CommitEffect ==
  ASSUME Inv, NEW w \in Writers, Commit(w)
  PROVE  LET r == txn[w].req
             c == r.claim IN
         /\ r \in Request /\ c \in Claims /\ r.event \in Event
         /\ Legal(row[c], r.event)
         /\ events' = [events EXCEPT ![c] = Append(@, r.event)]
         /\ row' = [row EXCEPT ![c] = Project(@, r.event)]
         /\ key' = [key EXCEPT ![c] = IF row[c].status = "ABSENT" THEN r.key ELSE @]
         /\ outputs' = [outputs EXCEPT ![c] = @ \cup TiersOf(r.event)]
         /\ txn[w].seq = Len(events[c]) + 1
         /\ Len(events'[c]) = Len(events[c]) + 1
         /\ events' \in [Claims -> Seq(Event)]
<1> DEFINE r == txn[w].req
           c == r.claim
           n == txn[w].seq
<1>0. /\ TypeOK /\ txn[w].pc = "outbox" /\ txn[w] \in Active
      /\ r \in Request /\ c \in Claims /\ r.event \in Event
  BY ActiveType DEF Inv, Commit
<1>1. Current(w)
  BY <1>0 DEF Inv, ReadsCurrent, Inserted
<1>2. events[c] \in Seq(Event) /\ n = Len(events[c]) + 1
  BY <1>0, <1>1 DEF Current, TypeOK
<1>3. /\ [i \in DOMAIN events[c] \cup {n} |-> IF i = n THEN r.event ELSE events[c][i]]
           = Append(events[c], r.event)
      /\ Append(events[c], r.event) \in Seq(Event)
      /\ Len(Append(events[c], r.event)) = n
  BY <1>0, <1>2, CommitAppends
<1>4. events' = [events EXCEPT ![c] = Append(events[c], r.event)]
  BY <1>3 DEF Commit
<1>5. events' \in [Claims -> Seq(Event)] /\ events'[c] = Append(events[c], r.event)
  BY <1>0, <1>3, <1>4 DEF TypeOK
<1> QED BY <1>0, <1>1, <1>2, <1>3, <1>4, <1>5 DEF KeyWritten, OutputsWritten, Commit, Current

LEMMA CommitInv ==
  ASSUME Inv, NEW w \in Writers, Commit(w)
  PROVE  Inv'
<1> DEFINE r == txn[w].req
           c == r.claim
<1>0. /\ TypeOK /\ txn[w].pc = "outbox" /\ txn[w] \in Active
      /\ r.key \in Keys \cup {NoKey} /\ txn[w].id \in Nat \ {0}
  BY ActiveType DEF Inv, Commit, IdDrawn
<1>1. /\ c \in Claims /\ r.event \in Event
      /\ Legal(row[c], r.event)
      /\ row' = [row EXCEPT ![c] = Project(@, r.event)]
      /\ key' = [key EXCEPT ![c] = IF row[c].status = "ABSENT" THEN r.key ELSE @]
      /\ outputs' = [outputs EXCEPT ![c] = @ \cup TiersOf(r.event)]
      /\ Len(events'[c]) = Len(events[c]) + 1 /\ Len(events[c]) \in Nat
      /\ events' \in [Claims -> Seq(Event)]
      /\ \A d \in Claims \ {c} : events'[d] = events[d] /\ row'[d] = row[d]
  BY CommitEffect, EventsType DEF Inv, TypeOK
<1>2. /\ txn'[w] = Idle /\ txn'[w].pc = "idle"
      /\ \A v \in Writers \ {w} : txn'[v] = txn[v]
      /\ txn' \in [Writers -> Transaction]
      /\ UNCHANGED <<nextId, batch>>
  BY <1>0 DEF Commit, TypeOK, Transaction, Idle
<1>3. TypeOK'
  <2>1. row' \in [Claims -> Claim]
    BY <1>0, <1>1, ProjectType DEF TypeOK
  <2>2. key' \in [Claims -> Keys \cup {NoKey}]
    BY <1>0, <1>1 DEF TypeOK
  <2>3. outputs' \in [Claims -> SUBSET Tiers]
    BY <1>0, <1>1 DEF TypeOK, TiersOf, Tiers
  <2>4. outbox' \subseteq OutboxRow
    <3>1. txn[w].seq \in Nat \ {0}
      BY <1>0 DEF Active
    <3>2. [id |-> txn[w].id, claim |-> c, seq |-> txn[w].seq, published |-> FALSE] \in OutboxRow
      BY <1>0, <1>1, <3>1 DEF OutboxRow
    <3>3. outbox' = outbox \cup
            {[id |-> txn[w].id, claim |-> c, seq |-> txn[w].seq, published |-> FALSE]}
      BY DEF Commit
    <3> QED BY <1>0, <3>2, <3>3 DEF TypeOK
  <2> QED BY <1>0, <1>1, <1>2, <2>1, <2>2, <2>3, <2>4 DEF TypeOK
<1>4. \A v \in Writers \ {w} : Inserted(v) => txn[v].req.claim # c
  BY <1>0 DEF Inv, OneInserter, Inserted
<1>5. ReadsCurrent'
  <2> SUFFICES ASSUME NEW v \in Writers, v # w, txn[v].pc # "idle"
               PROVE /\ txn[v].pc \in {"seq", "row"}
                          => txn[v].seq <= Len(events'[txn[v].req.claim]) + 1
                     /\ txn[v].pc = "row" /\ txn[v].seq = Len(events'[txn[v].req.claim]) + 1
                          => Current(v)'
                     /\ Inserted(v) => Current(v)'
    BY <1>2 DEF ReadsCurrent, Inserted
  <2>1. txn[v].req.claim \in Claims /\ txn[v].seq \in Nat
    BY <1>0, ActiveType DEF Active
  <2>2. CASE txn[v].req.claim = c
    BY <1>1, <1>4, <2>1, <2>2 DEF Inv, ReadsCurrent
  <2>3. CASE txn[v].req.claim # c
    <3>1. /\ txn'[v] = txn[v] /\ events'[txn[v].req.claim] = events[txn[v].req.claim]
          /\ row'[txn[v].req.claim] = row[txn[v].req.claim]
      BY <1>1, <1>2, <2>1, <2>3
    <3>2. Current(v)' <=> Current(v)
      BY <3>1 DEF Current
    <3> QED BY <3>1, <3>2 DEF Inv, ReadsCurrent
  <2> QED BY <2>2, <2>3
<1>6. OneInserter' /\ IdDrawn'
  BY <1>2 DEF Inv, OneInserter, Inserted, IdDrawn
<1>7. KeyReserved'
  <2> SUFFICES ASSUME NEW v \in Writers, NEW k \in Keys, HoldsKey(v, k)'
               PROVE  ~KeyTaken(k)' /\ \A u \in Writers \ {v} : ~HoldsKey(u, k)'
    BY DEF KeyReserved
  <2>1. v # w /\ HoldsKey(v, k)
    BY <1>2 DEF HoldsKey
  <2>2. ~KeyTaken(k) /\ \A u \in Writers \ {v} : ~HoldsKey(u, k)
    BY <2>1 DEF Inv, KeyReserved
  <2>3. key'[c] # k
    <3>1. CASE row[c].status = "ABSENT"
      <4>1. r.event.type = "CLAIM_RECEIVED"
        BY <1>1, <3>1 DEF Legal
      <4>2. r.key # k
        BY <1>0, <2>1, <2>2, <4>1 DEF HoldsKey
      <4> QED BY <1>0, <1>1, <3>1, <4>2 DEF TypeOK
    <3>2. CASE row[c].status # "ABSENT"
      BY <1>0, <1>1, <2>2, <3>2, PostgresAssumption DEF TypeOK, KeyTaken
    <3> QED BY <3>1, <3>2
  <2>4. ~KeyTaken(k)'
    BY <1>0, <1>1, <2>2, <2>3, PostgresAssumption DEF TypeOK, KeyTaken
  <2>5. \A u \in Writers \ {v} : ~HoldsKey(u, k)'
    BY <1>2, <2>2 DEF HoldsKey
  <2> QED BY <2>4, <2>5
<1> QED BY <1>3, <1>5, <1>6, <1>7 DEF Inv

\* Marking a row changes its published flag only.
LEMMA Marked ==
  ASSUME TypeOK, NEW o \in outbox
  PROVE  LET p == [o EXCEPT !.published = o.published \/ o.id \in batch] IN
         /\ p \in OutboxRow
         /\ p.id = o.id /\ p.claim = o.claim /\ p.seq = o.seq
         /\ (~p.published => ~o.published /\ p = o)
<1> DEFINE q == o.published \/ o.id \in batch
           p == [o EXCEPT !.published = q]
<1>1. o \in OutboxRow
  BY DEF TypeOK
<1>2. q \in BOOLEAN
  OBVIOUS
<1>3. p \in OutboxRow /\ p.published = q
  BY <1>1, <1>2 DEF OutboxRow
<1>4. p.id = o.id /\ p.claim = o.claim /\ p.seq = o.seq
  BY <1>1 DEF OutboxRow
<1>5. ASSUME ~q PROVE p = o
  <2>1. q = o.published
    BY <1>1, <1>2, <1>5 DEF OutboxRow
  <2> QED BY <1>1, <2>1 DEF OutboxRow
<1> HIDE DEF q
<1>6. ~p.published => ~q
  BY <1>3
<1>7. ~q => ~o.published
  BY DEF q
<1> QED BY <1>3, <1>4, <1>5, <1>6, <1>7 DEF q

LEMMA NextInv == Inv /\ [Next]_vars => Inv'
<1> SUFFICES ASSUME Inv, [Next]_vars PROVE Inv'
  OBVIOUS
<1>0. TypeOK
  BY DEF Inv
<1>1. CASE \E w \in Writers, r \in Request : ReadSeq(w, r)
  BY <1>1, ReadSeqInv
<1>2. CASE \E w \in Writers : Statement(w)
  BY <1>2, ReadRowInv, InsertEventInv, UpsertClaimInv, InsertOutboxInv, CommitInv DEF Statement
<1>3. CASE \E w \in Writers : Abort(w)
  <2>1. PICK w \in Writers : Abort(w)
    BY <1>3
  <2>2. OnlyTxn(w) /\ txn'[w] = Idle
    BY <1>0, <2>1 DEF Abort, Rollback, OnlyTxn, TypeOK, Transaction, tables
  <2> QED BY <2>2, RollbackInv
<1>4. CASE FetchUnpublished \/ MarkPublished \/ RelayCrash
  <2>1. UNCHANGED <<events, row, key, outputs, nextId, txn>>
    BY <1>4 DEF FetchUnpublished, MarkPublished, RelayCrash, tables
  <2>2. batch' \subseteq Nat /\ outbox' \subseteq OutboxRow
    <3>1. CASE FetchUnpublished
      <4>1. outbox' = outbox /\ \A i \in batch' : \E o \in outbox : i = o.id
        BY <3>1 DEF FetchUnpublished, tables, Unpublished
      <4> QED BY <1>0, <4>1 DEF TypeOK, OutboxRow
    <3>2. CASE MarkPublished
      <4>1. batch' = {} /\ \A p \in outbox' : \E o \in outbox :
                             p = [o EXCEPT !.published = o.published \/ o.id \in batch]
        BY <3>2 DEF MarkPublished
      <4> QED BY <1>0, <4>1, Marked
    <3>3. CASE RelayCrash
      BY <1>0, <3>3 DEF RelayCrash, TypeOK, tables
    <3> QED BY <1>4, <3>1, <3>2, <3>3
  <2>4. TypeOK'
    BY <1>0, <2>1, <2>2 DEF TypeOK
  <2> QED BY <2>1, <2>4 DEF Inv, ReadsCurrent, Inserted, Current, OneInserter, KeyReserved,
                            HoldsKey, KeyTaken, IdDrawn
<1>5. CASE UNCHANGED vars
  BY <1>5 DEF vars, Inv, TypeOK, ReadsCurrent, Inserted, Current, OneInserter, KeyReserved,
              HoldsKey, KeyTaken, IdDrawn
<1> QED BY <1>1, <1>2, <1>3, <1>4, <1>5 DEF Next

LEMMA Invariance == Spec => []Inv
BY InitInv, NextInv, PTL DEF Spec

\* Type correctness, for any number of connections and claims.
THEOREM TypeCorrect == Spec => []TypeOK
<1>1. Inv => TypeOK
  BY DEF Inv
<1> QED BY Invariance, <1>1, PTL

-----------------------------------------------------------------------------
(* The refinement: Commit is the abstract append, marking is marking, the rest stutters. *)

AbsOutbox == {<<o.claim, o.seq>> : o \in Unpublished}

LEMMA InitRefines == Init => Abstract!Init
<1> SUFFICES ASSUME Init PROVE Abstract!Init
  OBVIOUS
<1>1. Unpublished = {}
  BY DEF Init, Unpublished
<1>2. AbsOutbox = {}
  BY <1>1 DEF AbsOutbox
<1> QED BY <1>2 DEF Init, Abstract!Init, AbsOutbox, NoClaim, Abstract!NoClaim

\* The instance has its own copy of Projection: the same rules.
LEMMA SameRules ==
  \A c, e : /\ Legal(c, e) = Abstract!Legal(c, e)
            /\ Project(c, e) = Abstract!Project(c, e)
            /\ TiersOf(e) = Abstract!TiersOf(e)
<1>1. Allowed = Abstract!Allowed
  BY Zenon DEF Allowed, Abstract!Allowed
<1>2. \A t : EventStatus(t) = Abstract!EventStatus(t)
  BY DEF EventStatus, Abstract!EventStatus
<1>3. TAKE c, e
<1>4. Legal(c, e) = Abstract!Legal(c, e)
  BY <1>1, <1>2 DEF Legal, Abstract!Legal
<1>5. Project(c, e) = Abstract!Project(c, e)
  BY <1>2 DEF DecisionEvents, Abstract!DecisionEvents, Project, Abstract!Project
<1>6. TiersOf(e) = Abstract!TiersOf(e)
  BY DEF TiersOf, Abstract!TiersOf, Tiers, Abstract!Tiers
<1> QED BY <1>4, <1>5, <1>6

\* The commit of a claim's first event finds its key unused.
LEMMA CommitKeyUnused ==
  ASSUME Inv, NEW w \in Writers, Commit(w), row[txn[w].req.claim].status = "ABSENT"
  PROVE  Abstract!Unused(txn[w].req.key)
<1> DEFINE r == txn[w].req
<1>1. /\ txn[w].pc = "outbox" /\ r.key \in Keys \cup {NoKey}
      /\ Legal(row[r.claim], r.event)
  BY CommitEffect, ActiveType DEF Commit, Inv
<1>2. r.event.type = "CLAIM_RECEIVED"
  BY <1>1 DEF Legal
<1>3. CASE r.key \in Keys
  <2>1. HoldsKey(w, r.key)
    BY <1>1, <1>2 DEF HoldsKey
  <2>2. ~KeyTaken(r.key)
    BY <1>3, <2>1 DEF Inv, KeyReserved
  <2> QED BY <2>2 DEF KeyTaken, Abstract!Unused
<1>4. CASE r.key = NoKey
  BY <1>4 DEF Abstract!Unused
<1> QED BY <1>1, <1>3, <1>4

LEMMA CommitRefines ==
  ASSUME Inv, NEW w \in Writers, Commit(w)
  PROVE  Abstract!Next
<1> PICK r : r = txn[w].req
  OBVIOUS
<1> DEFINE c == r.claim
           new == [id |-> txn[w].id, claim |-> c, seq |-> txn[w].seq, published |-> FALSE]
<1>0. /\ r \in Request /\ txn[w].seq = Len(events[c]) + 1
      /\ Legal(row[c], r.event)
      /\ events' = [events EXCEPT ![c] = Append(@, r.event)]
      /\ row' = [row EXCEPT ![c] = Project(@, r.event)]
      /\ key' = [key EXCEPT ![c] = IF row[c].status = "ABSENT" THEN r.key ELSE @]
      /\ outputs' = [outputs EXCEPT ![c] = @ \cup TiersOf(r.event)]
  BY CommitEffect
<1>1. outbox' = outbox \cup {new}
  BY DEF Commit
<1>2. ~new.published /\ <<new.claim, new.seq>> = <<c, Len(events[c]) + 1>>
  BY <1>0
<1> HIDE DEF new
<1>3. Unpublished' = Unpublished \cup {new}
  BY <1>1, <1>2 DEF Unpublished
<1>4. AbsOutbox' = AbsOutbox \cup {<<c, Len(events[c]) + 1>>}
  BY <1>2, <1>3 DEF AbsOutbox
<1>5. row[c].status = "ABSENT" => Abstract!Unused(r.key)
  BY CommitKeyUnused
<1> HIDE DEF c
<1>6. Abstract!AppendEvent(r)
  BY <1>0, <1>4, <1>5, SameRules DEF Abstract!AppendEvent, AbsOutbox, c
<1>7. r \in Abstract!Request
  BY <1>0 DEF Request
<1> QED BY <1>6, <1>7 DEF Abstract!Next

LEMMA MarkRefines ==
  ASSUME Inv, MarkPublished
  PROVE  Abstract!Next
<1>1. ASSUME NEW p \in Unpublished' PROVE p \in Unpublished
  <2>1. PICK o \in outbox : p = [o EXCEPT !.published = o.published \/ o.id \in batch]
    BY <1>1 DEF MarkPublished, Unpublished
  <2>2. ~p.published
    BY <1>1 DEF Unpublished
  <2> QED BY <2>1, <2>2, Marked DEF Inv, Unpublished
<1>2. AbsOutbox' \subseteq AbsOutbox
  BY <1>1 DEF AbsOutbox
<1>3. PICK S \in SUBSET AbsOutbox : AbsOutbox' = AbsOutbox \ S
  <2>1. AbsOutbox' = AbsOutbox \ (AbsOutbox \ AbsOutbox')
    BY <1>2
  <2> QED BY <2>1
<1>4. Abstract!MarkPublished(S)
  BY <1>3 DEF Abstract!MarkPublished, AbsOutbox, MarkPublished
<1> QED BY <1>3, <1>4 DEF Abstract!Next, AbsOutbox

\* However connections interleave, abort and crash, the transaction behaves as the
\* atomic append of EventStore.
THEOREM Refinement == Spec => ImplementsEventStore
<1>1. Inv /\ [Next]_vars => [Abstract!Next]_(Abstract!vars)
  <2> SUFFICES ASSUME Inv, [Next]_vars PROVE Abstract!Next \/ UNCHANGED Abstract!vars
    BY Zenon
  <2>1. CASE \E w \in Writers : Commit(w)
    BY <2>1, CommitRefines
  <2>2. CASE MarkPublished
    BY <2>2, MarkRefines
  <2>3. CASE UNCHANGED <<events, row, key, outputs, outbox>>
    BY <2>3 DEF Abstract!vars, Unpublished
  <2>4. CASE \/ \E w \in Writers, r \in Request : ReadSeq(w, r)
             \/ \E w \in Writers : \/ ReadRow(w) \/ InsertEvent(w) \/ UpsertClaim(w)
                                   \/ InsertOutbox(w) \/ Abort(w)
             \/ FetchUnpublished \/ RelayCrash \/ UNCHANGED vars
    BY <2>3, <2>4 DEF ReadSeq, ReadRow, InsertEvent, UpsertClaim, InsertOutbox, Abort,
                      FetchUnpublished, RelayCrash, vars, tables
  <2> QED BY <2>1, <2>2, <2>4 DEF Next, Statement
<1> QED BY InitRefines, Invariance, <1>1, PTL DEF Spec, ImplementsEventStore, Abstract!Spec

-----------------------------------------------------------------------------
(***************************************************************************)
(* The read model is the fold of the history.  What a recursive function   *)
(* computes takes induction over the length of the history; the library's  *)
(* theorems that take a predicate cannot be instantiated, but that every   *)
(* non-empty set of naturals has a least element follows from WFMin.       *)
(***************************************************************************)

\* The least counterexample of a statement about naturals.
LEMMA Least ==
  ASSUME NEW T \in SUBSET Nat, T # {}
  PROVE  \E x \in T : \A y \in T : x <= y
<1> DEFINE R == OpToRel(<, Nat)
<1>1. IsWellFoundedOn(R, Nat)
  BY NatLessThanWellFounded
<1>2. \A x, y \in Nat : <<y, x>> \in R <=> y < x
  BY DEF OpToRel
<1> HIDE DEF R
<1>3. PICK x \in T : \A y \in T : ~ (<<y, x>> \in R)
  BY <1>1, WFMin
<1>4. x \in Nat /\ \A y \in T : y \in Nat
  OBVIOUS
<1>5. \A y \in T : ~ (y < x)
  BY <1>2, <1>3, <1>4, Zenon
<1>6. \A y \in T : x <= y
  BY <1>4, <1>5
<1> QED BY <1>6

\* f gives, for each n up to k, the projection of a history's first n events.
IsFold(f, log, k) ==
  f = [n \in 0..k |-> IF n = 0 THEN NoClaim ELSE Project(f[n - 1], log[n])]

\* The recursion that Fold is written with has a solution.
LEMMA FoldExists ==
  ASSUME NEW log, NEW k \in Nat
  PROVE  \E f : IsFold(f, log, k)
<1> DEFINE Bad == {n \in Nat : ~ \E f : IsFold(f, log, n)}
<1> SUFFICES ASSUME Bad # {} PROVE FALSE
  OBVIOUS
<1>1. PICK x \in Bad : \A y \in Bad : x <= y
  BY Least, Zenon
<1>2. x \in Nat /\ ~ \E f : IsFold(f, log, x)
  OBVIOUS
<1>3. CASE x = 0
  <2> DEFINE g == [n \in 0..0 |-> NoClaim]
  <2>1. IsFold(g, log, 0)
    BY DEF IsFold
  <2> QED BY <1>2, <1>3, <2>1
<1>4. CASE x # 0
  <2>1. x - 1 \in Nat /\ x - 1 \notin Bad
    BY <1>1, <1>2, <1>4
  <2>2. PICK f : IsFold(f, log, x - 1)
    BY <2>1
  <2> DEFINE g == [n \in 0..x |-> IF n = x THEN Project(f[x - 1], log[x]) ELSE f[n]]
  <2>3. \A n \in 0..(x - 1) : f[n] = IF n = 0 THEN NoClaim ELSE Project(f[n - 1], log[n])
    BY <2>2 DEF IsFold
  <2>4. \A n \in 0..x : g[n] = IF n = 0 THEN NoClaim ELSE Project(g[n - 1], log[n])
    <3> SUFFICES ASSUME NEW n \in 0..x
                 PROVE  g[n] = IF n = 0 THEN NoClaim ELSE Project(g[n - 1], log[n])
      OBVIOUS
    <3>1. CASE n = 0
      BY <1>2, <1>4, <2>1, <2>3, <3>1
    <3>2. CASE n # 0 /\ n # x
      <4>1. n \in 0..(x - 1) /\ n - 1 \in 0..x /\ n - 1 # x
        BY <1>2, <3>2
      <4> QED BY <2>3, <3>2, <4>1
    <3>3. CASE n = x
      <4>1. x - 1 \in 0..x /\ x - 1 # x
        BY <1>2, <2>1
      <4> QED BY <1>4, <3>3, <4>1
    <3> QED BY <3>1, <3>2, <3>3
  <2>5. IsFold(g, log, x)
    <3>1. g = [n \in 0..x |-> IF n = 0 THEN NoClaim ELSE Project(g[n - 1], log[n])]
      BY <2>4
    <3> QED BY <3>1 DEF IsFold
  <2> QED BY <1>2, <2>5
<1> QED BY <1>3, <1>4

LEMMA FoldIs ==
  ASSUME NEW log, Len(log) \in Nat
  PROVE  \E f : IsFold(f, log, Len(log)) /\ Fold(log) = f[Len(log)]
<1> DEFINE f == CHOOSE g : IsFold(g, log, Len(log))
<1>1. IsFold(f, log, Len(log))
  BY FoldExists
<1>2. Fold(log) = f[Len(log)]
  BY DEF Fold, IsFold
<1> QED BY <1>1, <1>2

\* Two histories that begin alike have the same projections as long as they do.
LEMMA FoldUnique ==
  ASSUME NEW log, NEW more, NEW f, NEW g, NEW k \in Nat, NEW l \in Nat,
         IsFold(f, log, k), IsFold(g, more, l), k <= l,
         \A n \in 1..k : more[n] = log[n]
  PROVE  \A n \in 0..k : f[n] = g[n]
<1> DEFINE Bad == {n \in 0..k : f[n] # g[n]}
<1> SUFFICES ASSUME Bad # {} PROVE FALSE
  OBVIOUS
<1>1. PICK x \in Bad : \A y \in Bad : x <= y
  <2>1. Bad \in SUBSET Nat
    OBVIOUS
  <2> QED BY <2>1, Least, Zenon
<1>2. x \in 0..k /\ x \in 0..l /\ f[x] # g[x]
  OBVIOUS
<1>3. /\ f[x] = IF x = 0 THEN NoClaim ELSE Project(f[x - 1], log[x])
      /\ g[x] = IF x = 0 THEN NoClaim ELSE Project(g[x - 1], more[x])
  BY <1>2 DEF IsFold
<1>4. x # 0
  BY <1>2, <1>3
<1>5. x - 1 \in 0..k /\ x - 1 \notin Bad
  BY <1>1, <1>2, <1>4
<1>6. f[x - 1] = g[x - 1] /\ more[x] = log[x]
  BY <1>2, <1>4, <1>5
<1> QED BY <1>2, <1>3, <1>6

LEMMA FoldEmpty == Fold(<<>>) = NoClaim
<1>1. Len(<<>>) = 0
  OBVIOUS
<1>2. PICK f : IsFold(f, <<>>, 0) /\ Fold(<<>>) = f[0]
  BY <1>1, FoldIs
<1>3. f[0] = NoClaim
  BY <1>2 DEF IsFold
<1> QED BY <1>2, <1>3

\* A rebuild from a history and one event more is the projection of that event.
THEOREM FoldAppend ==
  ASSUME NEW log \in Seq(Event), NEW e \in Event
  PROVE  Fold(Append(log, e)) = Project(Fold(log), e)
<1> DEFINE n == Len(log)
           more == Append(log, e)
<1>1. /\ n \in Nat /\ Len(more) = n + 1 /\ more[n + 1] = e
      /\ \A i \in 1..n : more[i] = log[i]
  BY AppendProperties, LenProperties
<1> HIDE DEF more
<1>2. PICK f : IsFold(f, log, n) /\ Fold(log) = f[n]
  BY <1>1, FoldIs
<1>3. PICK g : IsFold(g, more, n + 1) /\ Fold(more) = g[n + 1]
  BY <1>1, FoldIs
<1>4. f[n] = g[n]
  <2> HIDE DEF n
  <2>1. n + 1 \in Nat /\ n <= n + 1 /\ n \in 0..n
    BY <1>1
  <2>2. \A i \in 0..n : f[i] = g[i]
    BY <1>1, <1>2, <1>3, <2>1, FoldUnique
  <2> QED BY <2>1, <2>2
<1>5. g[n + 1] = Project(g[n], more[n + 1])
  <2> HIDE DEF n
  <2>1. n + 1 \in 0..(n + 1) /\ n + 1 # 0 /\ (n + 1) - 1 = n
    BY <1>1
  <2> QED BY <1>3, <2>1 DEF IsFold
<1> QED BY <1>1, <1>2, <1>3, <1>4, <1>5 DEF more

LEMMA NextFold == Inv /\ RowIsFold /\ [Next]_vars => RowIsFold'
<1> SUFFICES ASSUME Inv, RowIsFold, [Next]_vars PROVE RowIsFold'
  OBVIOUS
<1>1. CASE UNCHANGED <<events, row>>
  BY <1>1 DEF RowIsFold
<1>2. CASE \E w \in Writers : Commit(w)
  <2>1. PICK w \in Writers : Commit(w)
    BY <1>2
  <2> DEFINE r == txn[w].req
             c == r.claim
  <2>2. /\ c \in Claims /\ r.event \in Event
        /\ events' = [events EXCEPT ![c] = Append(@, r.event)]
        /\ row' = [row EXCEPT ![c] = Project(@, r.event)]
    BY <2>1, CommitEffect
  <2> HIDE DEF c
  <2>3. /\ events'[c] = Append(events[c], r.event) /\ row'[c] = Project(row[c], r.event)
        /\ events[c] \in Seq(Event)
        /\ \A d \in Claims \ {c} : events'[d] = events[d] /\ row'[d] = row[d]
    BY <2>2 DEF Inv, TypeOK
  <2>4. row'[c] = Fold(events'[c])
    BY <2>2, <2>3, FoldAppend DEF RowIsFold
  <2> QED BY <2>3, <2>4 DEF RowIsFold
<1> QED BY <1>1, <1>2 DEF Next, Statement, ReadSeq, ReadRow, InsertEvent, UpsertClaim,
           InsertOutbox, Abort, FetchUnpublished, MarkPublished, RelayCrash, vars, tables

\* The row the reads are served from, computed from a SELECT before the INSERTs, is what
\* a rebuild from claim_events gives, for histories of any length.
THEOREM ReadModelIsFold == Spec => []RowIsFold
<1>1. Init => RowIsFold
  BY FoldEmpty DEF Init, RowIsFold
<1> QED BY <1>1, NextFold, Invariance, PTL DEF Spec

-----------------------------------------------------------------------------
(***************************************************************************)
(* The outbox follows the history of each claim.  An id is drawn while the *)
(* transaction's event is in the unique index, so no other transaction of  *)
(* the claim can draw or commit one before it ends: ids of one claim are   *)
(* in the order of its events although ids of different claims are not in  *)
(* the order of their commits.  The relay takes the unpublished rows with  *)
(* the smallest ids, so with a row it holds the claim's earlier ones.      *)
(***************************************************************************)

Drawn(w) == txn[w].pc = "outbox"

Numbered ==
  /\ \A o \in outbox : o.id < nextId /\ o.seq <= Len(events[o.claim])
  /\ \A w \in Writers : Drawn(w) => txn[w].id < nextId

IdsUnique ==
  /\ \A w \in Writers, o \in outbox : Drawn(w) => o.id # txn[w].id
  /\ \A v, w \in Writers : Drawn(v) /\ Drawn(w) /\ txn[v].id = txn[w].id => v = w

IdsFollow ==
  /\ \A o, p \in outbox : o.claim = p.claim /\ o.seq < p.seq => o.id < p.id
  /\ \A w \in Writers, o \in outbox :
       Drawn(w) /\ o.claim = txn[w].req.claim => o.id < txn[w].id

BatchKnown == batch \subseteq {o.id : o \in outbox}

\* Published, or about to be.
Taken(o) == o.published \/ o.id \in batch

TakenFollows == \A o, p \in outbox : o.claim = p.claim /\ o.seq < p.seq =>
  /\ p.published => o.published
  /\ Taken(p) => Taken(o)

OutboxInv == /\ IsFiniteSet(Unpublished)
             /\ Numbered /\ IdsUnique /\ IdsFollow /\ BatchKnown /\ TakenFollows

LEMMA OutboxInit == Init => OutboxInv
<1> SUFFICES ASSUME Init PROVE OutboxInv
  OBVIOUS
<1>1. Unpublished = {} /\ \A w \in Writers : ~Drawn(w)
  BY DEF Init, Unpublished, Drawn, Idle
<1> QED BY <1>1, FS_EmptySet DEF Init, OutboxInv, Numbered, IdsUnique, IdsFollow, BatchKnown,
                                 TakenFollows

\* A statement that draws no id and writes no row.
LEMMA OutboxKept ==
  ASSUME Inv, OutboxInv, UNCHANGED <<events, outbox, nextId, batch>>, NEW w \in Writers,
         ~Drawn(w)', \A v \in Writers \ {w} : txn'[v] = txn[v]
  PROVE  OutboxInv'
BY DEF OutboxInv, Unpublished, Numbered, IdsUnique, IdsFollow, BatchKnown, Taken,
       TakenFollows, Drawn

LEMMA InsertOutboxKeeps ==
  ASSUME Inv, OutboxInv, NEW w \in Writers, InsertOutbox(w)
  PROVE  OutboxInv'
<1>0. /\ TypeOK /\ txn[w] \in Active /\ UNCHANGED <<events, outbox, batch>>
      /\ nextId \in Nat /\ nextId' = nextId + 1
  BY ActiveType DEF Inv, InsertOutbox, tables, TypeOK
<1>1. /\ txn'[w] = [txn[w] EXCEPT !.pc = "outbox", !.id = nextId]
      /\ \A v \in Writers \ {w} : txn'[v] = txn[v]
  BY <1>0 DEF InsertOutbox, TypeOK
<1>2. txn'[w].id = nextId /\ txn'[w].req = txn[w].req
  BY <1>0, <1>1 DEF Active
<1>3. \A o \in outbox : o \in OutboxRow
  BY <1>0 DEF TypeOK
<1>4. /\ \A o \in outbox : o.id < nextId /\ o.id < nextId + 1 /\ o.id # nextId
      /\ \A o \in outbox : o.seq <= Len(events[o.claim])
  <2>1. \A o \in outbox : o.id \in Nat
    BY <1>3 DEF OutboxRow
  <2>2. \A o \in outbox : o.id < nextId /\ o.seq <= Len(events[o.claim])
    BY DEF OutboxInv, Numbered
  <2> QED BY <1>0, <2>1, <2>2
<1>5. \A v \in Writers : Drawn(v) => txn[v].id < nextId + 1 /\ txn[v].id # nextId
  <2>1. \A v \in Writers : Drawn(v) => txn[v].id \in Nat /\ txn[v].id < nextId
    BY DEF Inv, IdDrawn, Drawn, OutboxInv, Numbered
  <2> QED BY <1>0, <2>1
<1>6. \A v \in Writers : Drawn(v)' => \/ v = w /\ txn'[v].id = nextId
                                      \/ v # w /\ Drawn(v) /\ txn'[v] = txn[v]
  BY <1>1, <1>2 DEF Drawn
<1>7. Numbered'
  <2>1. \A o \in outbox : o.id < nextId + 1 /\ o.seq <= Len(events[o.claim])
    BY <1>4
  <2>2. \A v \in Writers : Drawn(v)' => txn'[v].id < nextId + 1
    BY <1>0, <1>5, <1>6
  <2> QED BY <1>0, <2>1, <2>2 DEF Numbered
<1>8. IdsUnique'
  <2>1. \A v \in Writers, o \in outbox : Drawn(v)' => o.id # txn'[v].id
    BY <1>4, <1>6 DEF OutboxInv, IdsUnique
  <2>2. \A u, v \in Writers : Drawn(u)' /\ Drawn(v)' /\ txn'[u].id = txn'[v].id => u = v
    BY <1>5, <1>6 DEF OutboxInv, IdsUnique
  <2> QED BY <1>0, <2>1, <2>2 DEF IdsUnique
<1>9. IdsFollow'
  BY <1>0, <1>1, <1>2, <1>4 DEF OutboxInv, IdsFollow, Drawn
<1> QED BY <1>0, <1>7, <1>8, <1>9 DEF OutboxInv, Unpublished, BatchKnown, Taken, TakenFollows

LEMMA CommitKeeps ==
  ASSUME Inv, OutboxInv, NEW w \in Writers, Commit(w)
  PROVE  OutboxInv'
<1> DEFINE c == txn[w].req.claim
           new == [id |-> txn[w].id, claim |-> c, seq |-> txn[w].seq, published |-> FALSE]
<1>0. /\ TypeOK /\ Drawn(w) /\ txn[w].id \in Nat \ {0} /\ c \in Claims
      /\ txn[w].seq = Len(events[c]) + 1 /\ Len(events[c]) \in Nat
      /\ Len(events'[c]) = Len(events[c]) + 1
      /\ \A d \in Claims \ {c} : events'[d] = events[d]
  <2>1. /\ TypeOK /\ Drawn(w) /\ txn[w].id \in Nat \ {0}
    BY DEF Inv, IdDrawn, Commit, Drawn
  <2>2. /\ c \in Claims /\ txn[w].seq = Len(events[c]) + 1
        /\ Len(events'[c]) = Len(events[c]) + 1
        /\ events' = [events EXCEPT ![c] = Append(@, txn[w].req.event)]
    BY CommitEffect
  <2>3. Len(events[c]) \in Nat
    BY <2>1, <2>2, EventsType
  <2> QED BY <2>1, <2>2, <2>3 DEF TypeOK
<1>1. /\ UNCHANGED <<nextId, batch>> /\ outbox' = outbox \cup {new}
      /\ ~Drawn(w)' /\ \A v \in Writers \ {w} : txn'[v] = txn[v]
  <2>1. /\ UNCHANGED <<nextId, batch>> /\ outbox' = outbox \cup {new}
        /\ txn' = [txn EXCEPT ![w] = Idle]
    BY DEF Commit
  <2>2. txn'[w] = Idle /\ \A v \in Writers \ {w} : txn'[v] = txn[v]
    BY <1>0, <2>1 DEF TypeOK
  <2> QED BY <2>1, <2>2 DEF Drawn, Idle
<1>2. /\ new.id = txn[w].id /\ new.claim = c /\ new.seq = txn[w].seq /\ ~new.published
      /\ new.seq = Len(events[c]) + 1
  BY <1>0
<1>3. \A v \in Writers \ {w} : Drawn(v) => txn[v].req.claim # c
  BY <1>0 DEF Inv, OneInserter, Inserted, Drawn
<1>4. \A o \in outbox : o \in OutboxRow /\ o.claim \in Claims
  BY <1>0 DEF TypeOK, OutboxRow
<1>5. \A o \in outbox : o.claim = c => o.seq < new.seq
  BY <1>0, <1>2, <1>4 DEF OutboxInv, Numbered, OutboxRow
<1> HIDE DEF new, c
<1>6. IsFiniteSet(Unpublished')
  <2>1. Unpublished' = Unpublished \cup {new}
    BY <1>1, <1>2 DEF Unpublished
  <2> QED BY <2>1, FS_AddElement DEF OutboxInv
<1>7. Numbered'
  <2>1. \A o \in outbox : o.seq <= Len(events'[o.claim])
    BY <1>0, <1>4 DEF OutboxInv, Numbered, OutboxRow
  <2>2. new.id < nextId /\ new.seq <= Len(events'[c])
    BY <1>0, <1>2 DEF OutboxInv, Numbered
  <2> QED BY <1>1, <1>2, <2>1, <2>2 DEF OutboxInv, Numbered, Drawn
<1>8. IdsUnique'
  BY <1>0, <1>1, <1>2 DEF OutboxInv, IdsUnique, Drawn
<1>9. IdsFollow'
  <2>1. \A o \in outbox : o.claim = c => o.id < new.id
    BY <1>0, <1>2 DEF OutboxInv, IdsFollow, Drawn, c
  <2>2. \A o \in outbox : ~(new.claim = o.claim /\ new.seq < o.seq) /\ ~(new.seq < new.seq)
    BY <1>0, <1>2, <1>4, <1>5 DEF OutboxRow
  <2> QED BY <1>1, <1>2, <1>3, <2>1, <2>2 DEF OutboxInv, IdsFollow, Drawn
<1>10. BatchKnown'
  BY <1>1 DEF OutboxInv, BatchKnown
<1>11. TakenFollows'
  <2>1. new.id \notin batch
    BY <1>0, <1>2 DEF OutboxInv, BatchKnown, IdsUnique
  <2>2. \A o \in outbox : ~(new.claim = o.claim /\ new.seq < o.seq)
    BY <1>0, <1>2, <1>4, <1>5 DEF OutboxRow
  <2> QED BY <1>0, <1>1, <1>2, <2>1, <2>2 DEF OutboxInv, TakenFollows, Taken
<1> QED BY <1>6, <1>7, <1>8, <1>9, <1>10, <1>11 DEF OutboxInv

\* The rows with fewer than BatchSize unpublished ones before them: an unpublished row with
\* a smaller id is among them as well.
LEMMA FetchKeeps ==
  ASSUME Inv, OutboxInv, FetchUnpublished
  PROVE  OutboxInv'
<1> DEFINE Before(o) == {p \in Unpublished : p.id < o.id}
<1>0. /\ TypeOK /\ UNCHANGED <<events, outbox, nextId, txn>> /\ batch = {}
      /\ batch' = {o.id : o \in {o \in Unpublished : Cardinality(Before(o)) < BatchSize}}
  BY DEF FetchUnpublished, tables, Inv
<1>1. \A o \in outbox : o \in OutboxRow
  BY <1>0 DEF TypeOK
<1>2. \A o \in Unpublished : IsFiniteSet(Before(o)) /\ Cardinality(Before(o)) \in Nat
  BY FS_Subset, FS_CardinalityType DEF OutboxInv
<1>3. ASSUME NEW o \in outbox, NEW p \in outbox, o.claim = p.claim, o.seq < p.seq, Taken(p)'
      PROVE  Taken(o)'
  <2>1. CASE p.published
    BY <1>0, <1>3, <2>1 DEF OutboxInv, TakenFollows, Taken
  <2>2. CASE o.published
    BY <1>0, <2>2 DEF Taken
  <2>3. CASE ~p.published /\ ~o.published
    <3>1. PICK q \in Unpublished : q.id = p.id /\ Cardinality(Before(q)) < BatchSize
      BY <1>0, <1>3, <2>3 DEF Taken
    <3>2. o \in Unpublished /\ o.id < q.id /\ q \in outbox
      BY <1>3, <2>3, <3>1 DEF Unpublished, OutboxInv, IdsFollow
    <3>3. Before(o) \in SUBSET Before(q)
      <4>1. \A s \in Unpublished : s.id \in Nat
        BY <1>1 DEF Unpublished, OutboxRow
      <4> QED BY <3>1, <3>2, <4>1
    <3>4. Cardinality(Before(o)) <= Cardinality(Before(q))
      BY <1>2, <3>1, <3>3, FS_Subset
    <3> HIDE DEF Before
    <3>5. Cardinality(Before(o)) < BatchSize
      BY <1>2, <3>1, <3>2, <3>4, PostgresAssumption
    <3> QED BY <1>0, <3>2, <3>5 DEF Taken
  <2> QED BY <2>1, <2>2, <2>3, <1>1 DEF OutboxRow
<1>4. BatchKnown'
  BY <1>0 DEF BatchKnown, Unpublished
<1>5. TakenFollows'
  <2>1. \A o, p \in outbox : o.claim = p.claim /\ o.seq < p.seq => (p.published => o.published)
    BY DEF OutboxInv, TakenFollows
  <2> QED BY <1>0, <1>3, <2>1 DEF TakenFollows
<1> QED BY <1>0, <1>4, <1>5 DEF OutboxInv, Unpublished, Numbered, IdsUnique, IdsFollow, Drawn

LEMMA MarkKeeps ==
  ASSUME Inv, OutboxInv, MarkPublished
  PROVE  OutboxInv'
<1> DEFINE After(o) == [o EXCEPT !.published = o.published \/ o.id \in batch]
<1>0. /\ TypeOK /\ UNCHANGED <<events, nextId, txn>> /\ batch' = {}
      /\ outbox' = {After(o) : o \in outbox}
  BY DEF MarkPublished, Inv
<1>1. ASSUME NEW q \in outbox'
      PROVE  \E o \in outbox : /\ q.id = o.id /\ q.claim = o.claim /\ q.seq = o.seq
                               /\ q.published = Taken(o)
                               /\ ~q.published => q = o /\ ~o.published
  <2>1. PICK o \in outbox : q = After(o)
    BY <1>0, <1>1
  <2>2. /\ q.id = o.id /\ q.claim = o.claim /\ q.seq = o.seq
        /\ ~q.published => q = o /\ ~o.published
    BY <1>0, <2>1, Marked
  <2>3. q.published = Taken(o)
    BY <1>0, <2>1 DEF TypeOK, OutboxRow, Taken
  <2> QED BY <2>2, <2>3
<1>2. IsFiniteSet(Unpublished')
  <2>1. Unpublished' \in SUBSET Unpublished
    BY <1>1 DEF Unpublished
  <2> QED BY <2>1, FS_Subset DEF OutboxInv
<1>3. Numbered'
  BY <1>0, <1>1 DEF OutboxInv, Numbered, Drawn
<1>4. IdsUnique'
  BY <1>0, <1>1 DEF OutboxInv, IdsUnique, Drawn
<1>5. IdsFollow'
  BY <1>0, <1>1 DEF OutboxInv, IdsFollow, Drawn
<1>6. BatchKnown' /\ \A q \in outbox' : Taken(q)' = q.published
  BY <1>0, <1>1 DEF BatchKnown, Taken
<1>7. TakenFollows'
  BY <1>1, <1>6 DEF OutboxInv, TakenFollows
<1> QED BY <1>2, <1>3, <1>4, <1>5, <1>6, <1>7 DEF OutboxInv

LEMMA NextOutbox == Inv /\ OutboxInv /\ [Next]_vars => OutboxInv'
<1> SUFFICES ASSUME Inv, OutboxInv, [Next]_vars PROVE OutboxInv'
  OBVIOUS
<1>1. ASSUME NEW w \in Writers,
             \/ \E r \in Request : ReadSeq(w, r)
             \/ ReadRow(w) \/ InsertEvent(w) \/ UpsertClaim(w) \/ Abort(w)
      PROVE  OutboxInv'
  <2>1. /\ UNCHANGED <<events, outbox, nextId, batch>> /\ txn \in [Writers -> Transaction]
        /\ \E t : t.pc # "outbox" /\ txn' = [txn EXCEPT ![w] = t]
    <3>1. CASE \E r \in Request : ReadSeq(w, r)
      BY <3>1 DEF ReadSeq, tables, Txn, Inv, TypeOK
    <3>2. CASE Rollback(w)
      BY <1>1, <3>2 DEF Rollback, Idle, ReadSeq, ReadRow, InsertEvent, UpsertClaim, Abort, tables,
                       Inv, TypeOK
    <3>3. CASE ReadRow(w) /\ ~Rollback(w)
      BY <3>3 DEF ReadRow, tables, Txn, Inv, TypeOK
    <3>4. ASSUME NEW pc \in {"event", "claim"}, Step(w, pc), InsertEvent(w) \/ UpsertClaim(w)
          PROVE  \E t : t.pc # "outbox" /\ txn' = [txn EXCEPT ![w] = t]
      <4>1. txn[w].pc # "idle" /\ TypeOK
        BY <3>4 DEF InsertEvent, UpsertClaim, Inv
      <4>2. txn'[w].pc = pc
        BY <3>4, <4>1, StepType
      <4>3. txn' = [txn EXCEPT ![w] = txn'[w]]
        BY <3>4, <4>1 DEF Step, TypeOK
      <4> QED BY <4>2, <4>3
    <3>5. CASE (InsertEvent(w) \/ UpsertClaim(w)) /\ ~Rollback(w)
      <4>1. Step(w, "event") \/ Step(w, "claim")
        BY <3>5 DEF InsertEvent, UpsertClaim
      <4> QED BY <3>4, <3>5, <4>1 DEF InsertEvent, UpsertClaim, tables, Inv, TypeOK
    <3> QED BY <1>1, <3>1, <3>2, <3>3, <3>5 DEF Abort
  <2>2. ~Drawn(w)' /\ \A v \in Writers \ {w} : txn'[v] = txn[v]
    BY <2>1 DEF Drawn
  <2> QED BY <2>1, <2>2, OutboxKept
<1>2. CASE \E w \in Writers : InsertOutbox(w) \/ Commit(w)
  BY <1>2, InsertOutboxKeeps, CommitKeeps
<1>3. CASE FetchUnpublished \/ MarkPublished
  BY <1>3, FetchKeeps, MarkKeeps
<1>4. CASE RelayCrash \/ UNCHANGED vars
  <2>1. UNCHANGED <<events, outbox, nextId, txn>> /\ (batch' = {} \/ batch' = batch)
    BY <1>4 DEF RelayCrash, vars, tables
  <2> QED BY <2>1 DEF OutboxInv, Unpublished, Numbered, IdsUnique, IdsFollow, BatchKnown, Taken,
                      TakenFollows, Drawn
<1> QED BY <1>1, <1>2, <1>3, <1>4 DEF Next, Statement

\* For any number of connections and any batch size: within a claim outbox ids are in the
\* order of the events, and no later event of a claim is published before an earlier one.
THEOREM OutboxInOrder == Spec => []OutboxFollowsHistory
<1>1. OutboxInv => OutboxFollowsHistory
  BY DEF OutboxInv, IdsFollow, TakenFollows, OutboxFollowsHistory
<1> QED BY <1>1, OutboxInit, NextOutbox, Invariance, PTL DEF Spec

-----------------------------------------------------------------------------
(***************************************************************************)
(* The in-memory store beside it.  Both tables number a claim's events     *)
(* like its history, so an entry of the list and a row of the table that   *)
(* are the same event have the same place among the claim's others; and    *)
(* the list follows the commits, as the ids do (IdsFollow).                *)
(***************************************************************************)

\* One claim leads from a key, as a second one with it never commits (KeyReserved).
KeyIndex == \A k \in Keys \ {EmptyKey} : midem[k] = FindByIdempotencyKey(k)

ListNumbered ==
  /\ \A i \in DOMAIN mpending : mpending[i][2] <= Len(events[mpending[i][1]])
  /\ \A i, j \in DOMAIN mpending : mpending[i][1] = mpending[j][1] =>
       (i < j <=> mpending[i][2] < mpending[j][2])

SeqUnique == \A o, p \in outbox : o.claim = p.claim /\ o.seq = p.seq => o = p

SameEvents == /\ \A i \in DOMAIN mpending : \E o \in outbox : Returned(i, o)
              /\ \A o \in outbox : \E i \in DOMAIN mpending : Returned(i, o)

SentIsPublished ==
  /\ \A o \in outbox : o.published <=> <<o.claim, o.seq>> \in msent
  /\ \A e \in msent : \E o \in outbox : e = <<o.claim, o.seq>>

TwinInv == /\ Memory!TypeOK /\ mclaims = row /\ mhistory = events
           /\ KeyIndex /\ ListNumbered /\ SeqUnique /\ SameEvents /\ SentIsPublished

\* The second instance's copy of Projection: the same rules and the same sets.
LEMMA MemoryRules ==
  /\ \A c, e : /\ Legal(c, e) = Memory!Legal(c, e)
               /\ Project(c, e) = Memory!Project(c, e)
               /\ TiersOf(e) = Memory!TiersOf(e)
  /\ Memory!Claim = Claim /\ Memory!Event = Event /\ Memory!Tiers = Tiers
  /\ Memory!NoClaim = NoClaim
<1>1. Allowed = Memory!Allowed
  BY Zenon DEF Allowed, Memory!Allowed
<1>2. \A t : EventStatus(t) = Memory!EventStatus(t)
  BY DEF EventStatus, Memory!EventStatus
<1>3. \A c, e : Legal(c, e) = Memory!Legal(c, e)
  BY <1>1, <1>2 DEF Legal, Memory!Legal
<1>4. \A c, e : Project(c, e) = Memory!Project(c, e)
  BY <1>2 DEF DecisionEvents, Memory!DecisionEvents, Project, Memory!Project
<1>5. \A e : TiersOf(e) = Memory!TiersOf(e)
  BY DEF TiersOf, Memory!TiersOf, Tiers, Memory!Tiers
<1>6. /\ Memory!ClaimStatus = ClaimStatus /\ Memory!Decision = Decision
      /\ Memory!EventType = EventType /\ Memory!Tiers = Tiers /\ Memory!NoClaim = NoClaim
  BY DEF ClaimStatus, Decision, EventType, Tiers, NoClaim, Memory!ClaimStatus, Memory!Decision,
         Memory!EventType, Memory!Tiers, Memory!NoClaim
<1>7. Memory!Claim = Claim /\ Memory!Event = Event
  BY <1>6 DEF Claim, Event, Memory!Claim, Memory!Event
<1> QED BY <1>3, <1>4, <1>5, <1>6, <1>7

LEMMA TwinInitInv == TwinInit => TwinInv
<1> SUFFICES ASSUME Init, Memory!Init PROVE TwinInv
  BY DEF TwinInit
<1>1. NoClaim \in Claim
  BY DEF NoClaim, Claim, Decision
<1>2. Memory!TypeOK
  BY <1>1, MemoryRules, EmptySeq DEF Memory!Init, Memory!TypeOK
<1>3. mclaims = row /\ mhistory = events
  BY MemoryRules DEF Init, Memory!Init
<1>4. KeyIndex
  BY DEF Init, Memory!Init, KeyIndex, FindByIdempotencyKey, NoClaim
<1>5. DOMAIN mpending = {} /\ outbox = {} /\ msent = {}
  BY DEF Init, Memory!Init
<1> QED BY <1>2, <1>3, <1>4, <1>5
        DEF TwinInv, ListNumbered, SeqUnique, SameEvents, SentIsPublished

\* A commit reaches the in-memory store, which never refuses what Postgres takes.
LEMMA CommitReaches ==
  ASSUME Inv, TwinInv, NEW w \in Writers, TwinCommit(w)
  PROVE  LET r == txn[w].req IN Commit(w) /\ Memory!AppendEvent(r)
<1>1. Commit(w)
  BY DEF TwinCommit
<1>2. Legal(row[txn[w].req.claim], txn[w].req.event)
  BY <1>1, CommitEffect
<1> QED BY <1>1, <1>2 DEF TwinCommit, TwinInv

LEMMA CommitKeepsIndex ==
  ASSUME Inv, TwinInv, NEW w \in Writers, TwinCommit(w)
  PROVE  KeyIndex'
<1> DEFINE r == txn[w].req
           c == r.claim
<1>1. /\ r \in Request /\ c \in Claims /\ Legal(row[c], r.event)
      /\ row' = [row EXCEPT ![c] = Project(row[c], r.event)]
      /\ key' = [key EXCEPT ![c] = IF row[c].status = "ABSENT" THEN r.key ELSE key[c]]
  BY CommitReaches, CommitEffect
<1>2. row \in [Claims -> Claim] /\ key \in [Claims -> Keys \cup {NoKey}]
  BY DEF Inv, TypeOK
<1>3. /\ row'[c].status # "ABSENT"
      /\ key'[c] = IF row[c].status = "ABSENT" THEN r.key ELSE key[c]
      /\ \A d \in Claims \ {c} : row'[d] = row[d] /\ key'[d] = key[d]
  <2>1. Project(row[c], r.event).status # "ABSENT"
    BY <1>1, <1>2 DEF Project, Legal, EventStatus
  <2> QED BY <1>1, <1>2, <2>1
<1>4. r.key \in Keys \cup {NoKey} /\ (r.event.type # "CLAIM_RECEIVED" => r.key = NoKey)
  BY <1>1 DEF Request, Abstract!Request
<1>5. row[c].status = "ABSENT" <=> r.event.type = "CLAIM_RECEIVED"
  BY <1>1 DEF Legal
<1>6. midem' = Memory!Indexed(r) /\ midem \in [Keys -> SUBSET Claims]
  BY CommitReaches DEF Memory!AppendEvent, TwinInv, Memory!TypeOK
<1> HIDE DEF r, c
<1>7. ASSUME NEW k \in Keys \ {EmptyKey} PROVE midem'[k] = FindByIdempotencyKey(k)'
  <2>1. midem[k] = {d \in Claims : row[d].status # "ABSENT" /\ key[d] = k}
    BY DEF TwinInv, KeyIndex, FindByIdempotencyKey
  <2>2. k # NoKey
    BY PostgresAssumption
  <2>3. CASE r.key = k
    <3>1. midem'[k] = {c}
      BY <1>6, <2>2, <2>3 DEF Memory!Indexed, c
    <3>2. row[c].status = "ABSENT" /\ \A d \in Claims : key[d] # k
      <4>1. row[c].status = "ABSENT"
        BY <1>4, <1>5, <2>2, <2>3
      <4>2. Abstract!Unused(r.key)
        BY <4>1, CommitReaches, CommitKeyUnused DEF r, c
      <4> QED BY <2>2, <2>3, <4>1, <4>2 DEF Abstract!Unused
    <3> QED BY <1>1, <1>3, <2>3, <3>1, <3>2 DEF FindByIdempotencyKey
  <2>4. CASE r.key # k
    <3>1. midem'[k] = midem[k]
      BY <1>6, <2>4 DEF Memory!Indexed
    <3>2. \A d \in Claims :
            (row'[d].status # "ABSENT" /\ key'[d] = k) <=> (row[d].status # "ABSENT" /\ key[d] = k)
      BY <1>1, <1>3, <2>4
    <3> QED BY <2>1, <3>1, <3>2 DEF FindByIdempotencyKey
  <2> QED BY <2>3, <2>4
<1> QED BY <1>7 DEF KeyIndex

LEMMA CommitKeepsTwins ==
  ASSUME Inv, OutboxInv, TwinInv, NEW w \in Writers, TwinCommit(w)
  PROVE  TwinInv'
<1> DEFINE r == txn[w].req
           c == r.claim
           n == Len(mpending) + 1
           seq == Len(events[c]) + 1
           new == [id |-> txn[w].id, claim |-> c, seq |-> seq, published |-> FALSE]
<1>1. /\ Commit(w) /\ Memory!AppendEvent(r) /\ TypeOK
      /\ r \in Request /\ c \in Claims /\ r.event \in Event
      /\ mclaims = row /\ mhistory = events
  BY CommitReaches, CommitEffect DEF TwinInv, Inv
<1>2. /\ Len(events[c]) \in Nat /\ events' = [events EXCEPT ![c] = Append(@, r.event)]
      /\ row' = [row EXCEPT ![c] = Project(@, r.event)]
      /\ outbox' = outbox \cup {new}
      /\ Len(events'[c]) = seq /\ \A d \in Claims \ {c} : events'[d] = events[d]
  <2>1. /\ events' = [events EXCEPT ![c] = Append(@, r.event)]
        /\ row' = [row EXCEPT ![c] = Project(@, r.event)]
        /\ txn[w].seq = Len(events[c]) + 1 /\ Len(events'[c]) = Len(events[c]) + 1
    BY <1>1, CommitEffect
  <2>2. outbox' = outbox \cup {new}
    BY <2>1 DEF TwinCommit, Commit
  <2>3. Len(events[c]) \in Nat
    BY <1>1, EventsType
  <2> QED BY <1>1, <2>1, <2>2, <2>3 DEF TypeOK
<1>3. mclaims' = row' /\ mhistory' = events'
  BY <1>1, <1>2, MemoryRules DEF Memory!AppendEvent
<1>4. /\ mpending \in Seq(Claims \X (Nat \ {0})) /\ msent \subseteq Claims \X (Nat \ {0})
      /\ mpredictions \in [Claims -> SUBSET Tiers] /\ midem \in [Keys -> SUBSET Claims]
  BY MemoryRules DEF TwinInv, Memory!TypeOK
<1>5. mpending' = Append(mpending, <<c, seq>>) /\ msent' = msent
  BY <1>1 DEF Memory!AppendEvent
<1>6. /\ mpending' \in Seq(Claims \X (Nat \ {0}))
      /\ n \in Nat \ {0} /\ DOMAIN mpending = 1..(n - 1) /\ DOMAIN mpending' = 1..n
      /\ mpending'[n] = <<c, seq>> /\ \A i \in 1..(n - 1) : mpending'[i] = mpending[i]
  <2>1. <<c, seq>> \in Claims \X (Nat \ {0})
    BY <1>1, <1>2
  <2> QED BY <1>4, <1>5, <2>1, AppendProperties, LenProperties
<1>7. Memory!TypeOK'
  <2>1. mclaims' \in [Claims -> Claim] /\ mhistory' \in [Claims -> Seq(Event)]
    BY <1>1, <1>3, CommitInv DEF Inv, TypeOK
  <2>2. mpredictions' \in [Claims -> SUBSET Tiers]
    <3>1. \A e : TiersOf(e) \subseteq Tiers
      BY DEF TiersOf, Tiers
    <3> QED BY <1>1, <1>4, <3>1, MemoryRules DEF Memory!AppendEvent
  <2>3. midem' \in [Keys -> SUBSET Claims]
    BY <1>1, <1>4 DEF Memory!AppendEvent, Memory!Indexed
  <2> QED BY <1>4, <1>5, <1>6, <2>1, <2>2, <2>3, MemoryRules DEF Memory!TypeOK
<1>8. /\ \A o \in outbox : o.claim \in Claims /\ o.seq \in Nat /\ o.seq <= Len(events[o.claim])
      /\ \A i \in DOMAIN mpending : /\ mpending[i] = <<mpending[i][1], mpending[i][2]>>
                                    /\ mpending[i][1] \in Claims /\ mpending[i][2] \in Nat
                                    /\ mpending[i][2] <= Len(events[mpending[i][1]])
      /\ \A d \in Claims : Len(events[d]) \in Nat
  BY <1>1, <1>4, EventsType, ElementOfSeq, LenProperties
     DEF TypeOK, OutboxRow, OutboxInv, Numbered, TwinInv, ListNumbered
<1>9. new.claim = c /\ new.seq = seq /\ new.published = FALSE
  OBVIOUS
<1>10. KeyIndex'
  BY CommitKeepsIndex
<1> HIDE DEF r, c, n, seq, new
<1>11. ListNumbered'
  <2>1. ASSUME NEW i \in 1..n PROVE mpending'[i][2] <= Len(events'[mpending'[i][1]])
    <3>1. CASE i = n
      BY <1>2, <1>6, <3>1 DEF seq
    <3>2. CASE i \in 1..(n - 1)
      <4>1. mpending'[i] = mpending[i] /\ i \in DOMAIN mpending
        BY <1>6, <3>2
      <4>2. PICK d \in Claims, m \in Nat : mpending[i] = <<d, m>> /\ m <= Len(events[d])
        BY <1>8, <4>1
      <4>3. Len(events[d]) <= Len(events'[d]) /\ Len(events[d]) \in Nat /\ Len(events'[d]) \in Nat
        BY <1>2, <1>8, <4>2 DEF seq
      <4> QED BY <4>1, <4>2, <4>3
    <3> QED BY <1>6, <3>1, <3>2
  <2>2. ASSUME NEW i \in 1..(n - 1), mpending[i][1] = c PROVE mpending[i][2] < seq
    <3>1. i \in DOMAIN mpending
      BY <1>6, <2>2
    <3>2. mpending[i][2] \in Nat /\ mpending[i][2] <= Len(events[c])
      BY <1>8, <2>2, <3>1
    <3> QED BY <1>2, <3>2 DEF seq
  <2>3. ASSUME NEW i \in 1..n, NEW j \in 1..n, mpending'[i][1] = mpending'[j][1]
        PROVE  i < j <=> mpending'[i][2] < mpending'[j][2]
    <3>1. CASE i \in 1..(n - 1) /\ j \in 1..(n - 1)
      BY <1>6, <2>3, <3>1 DEF TwinInv, ListNumbered
    <3>2. CASE i = n /\ j \in 1..(n - 1)
      BY <1>2, <1>6, <1>8, <2>2, <2>3, <3>2 DEF seq
    <3>3. CASE i \in 1..(n - 1) /\ j = n
      BY <1>2, <1>6, <1>8, <2>2, <2>3, <3>3 DEF seq
    <3>4. CASE i = n /\ j = n
      BY <1>2, <1>6, <3>4 DEF seq
    <3> QED BY <1>6, <3>1, <3>2, <3>3, <3>4
  <2> QED BY <1>6, <2>1, <2>3 DEF ListNumbered
<1>12. \A o \in outbox : ~(o.claim = c /\ o.seq = seq)
  BY <1>2, <1>8 DEF seq
<1>13. SeqUnique'
  BY <1>2, <1>9, <1>12 DEF TwinInv, SeqUnique
<1>14. SameEvents'
  <2>1. mpending'[n] = <<new.claim, new.seq>>
    BY <1>6, <1>9
  <2>2. \A i \in 1..(n - 1) : \E o \in outbox : mpending'[i] = <<o.claim, o.seq>>
    BY <1>6 DEF TwinInv, SameEvents, Returned
  <2>3. \A o \in outbox : \E i \in 1..(n - 1) : mpending'[i] = <<o.claim, o.seq>>
    BY <1>6 DEF TwinInv, SameEvents, Returned
  <2>4. 1..n = 1..(n - 1) \cup {n}
    BY <1>6
  <2>5. \A i \in 1..n : \E o \in outbox' : mpending'[i] = <<o.claim, o.seq>>
    BY <1>2, <2>1, <2>2, <2>4
  <2>6. \A o \in outbox' : \E i \in 1..n : mpending'[i] = <<o.claim, o.seq>>
    BY <1>2, <2>1, <2>3, <2>4
  <2> QED BY <1>6, <2>5, <2>6 DEF SameEvents, Returned
<1>15. SentIsPublished'
  <2>1. <<c, seq>> \notin msent
    BY <1>12 DEF TwinInv, SentIsPublished
  <2> QED BY <1>2, <1>5, <1>9, <2>1 DEF TwinInv, SentIsPublished
<1> QED BY <1>3, <1>7, <1>10, <1>11, <1>13, <1>14, <1>15 DEF TwinInv

LEMMA MarkKeepsTwins ==
  ASSUME Inv, TwinInv, TwinMark
  PROVE  TwinInv'
<1>0. /\ TypeOK /\ UNCHANGED <<events, row, key>> /\ MarkPublished
      /\ UNCHANGED <<mclaims, mhistory, midem, mpending, mpredictions>>
      /\ msent' = msent \cup Fetched
  BY DEF Inv, TwinMark, MarkPublished, Memory!MarkPublished
<1>1. ASSUME NEW q \in outbox'
      PROVE  \E o \in outbox : /\ q.id = o.id /\ q.claim = o.claim /\ q.seq = o.seq
                               /\ q.published <=> o.published \/ o.id \in batch
  <2>1. PICK o \in outbox : q = [o EXCEPT !.published = o.published \/ o.id \in batch]
    BY <1>0 DEF MarkPublished
  <2>2. q.id = o.id /\ q.claim = o.claim /\ q.seq = o.seq
    BY <1>0, <2>1, Marked
  <2>3. q.published <=> o.published \/ o.id \in batch
    BY <1>0, <2>1 DEF TypeOK, OutboxRow
  <2> QED BY <2>2, <2>3
<1>2. ASSUME NEW o \in outbox
      PROVE  \E q \in outbox' : q.id = o.id /\ q.claim = o.claim /\ q.seq = o.seq
  <2> DEFINE q == [o EXCEPT !.published = o.published \/ o.id \in batch]
  <2>1. q \in outbox'
    BY <1>0 DEF MarkPublished
  <2>2. q.id = o.id /\ q.claim = o.claim /\ q.seq = o.seq
    BY <1>0, Marked
  <2> QED BY <2>1, <2>2
<1>3. Memory!TypeOK'
  <2>1. Fetched \subseteq Claims \X (Nat \ {0})
    BY <1>0 DEF Fetched, TypeOK, OutboxRow
  <2> QED BY <1>0, <2>1 DEF TwinInv, Memory!TypeOK
<1>4. KeyIndex' /\ ListNumbered'
  BY <1>0 DEF TwinInv, KeyIndex, FindByIdempotencyKey, ListNumbered
<1>5. SeqUnique'
  <2> SUFFICES ASSUME NEW q \in outbox', NEW p \in outbox', q.claim = p.claim, q.seq = p.seq
               PROVE  q = p
    BY DEF SeqUnique
  <2>1. PICK o \in outbox : q = [o EXCEPT !.published = o.published \/ o.id \in batch]
    BY <1>0 DEF MarkPublished
  <2>2. PICK u \in outbox : p = [u EXCEPT !.published = u.published \/ u.id \in batch]
    BY <1>0 DEF MarkPublished
  <2>3. o.claim = u.claim /\ o.seq = u.seq
    BY <1>0, <2>1, <2>2, Marked
  <2>4. o = u
    BY <2>3 DEF TwinInv, SeqUnique
  <2> QED BY <2>1, <2>2, <2>4
<1>6. SameEvents'
  <2>1. \A i \in DOMAIN mpending : \E q \in outbox' : mpending[i] = <<q.claim, q.seq>>
    BY <1>2 DEF TwinInv, SameEvents, Returned
  <2>2. \A q \in outbox' : \E i \in DOMAIN mpending : mpending[i] = <<q.claim, q.seq>>
    BY <1>1 DEF TwinInv, SameEvents, Returned
  <2> QED BY <1>0, <2>1, <2>2 DEF SameEvents, Returned
<1>7. SentIsPublished'
  <2>1. ASSUME NEW o \in outbox
        PROVE  <<o.claim, o.seq>> \in msent' <=> o.published \/ o.id \in batch
    <3>1. <<o.claim, o.seq>> \in Fetched <=> o.id \in batch
      BY DEF Fetched, TwinInv, SeqUnique
    <3> QED BY <1>0, <3>1 DEF TwinInv, SentIsPublished
  <2>2. \A q \in outbox' : q.published <=> <<q.claim, q.seq>> \in msent'
    BY <1>1, <2>1
  <2>3. \A e \in msent' : \E o \in outbox : e = <<o.claim, o.seq>>
    BY <1>0 DEF Fetched, TwinInv, SentIsPublished
  <2>4. \A e \in msent' : \E q \in outbox' : e = <<q.claim, q.seq>>
    BY <1>2, <2>3
  <2> QED BY <2>2, <2>4 DEF SentIsPublished
<1> QED BY <1>0, <1>3, <1>4, <1>5, <1>6, <1>7 DEF TwinInv

\* What only Postgres does leaves the committed tables alone.
LEMMA TwinNextInv ==
  ASSUME Inv, OutboxInv, TwinInv, [TwinNext]_twinVars
  PROVE  TwinInv' /\ [Next]_vars
<1>1. CASE \E w \in Writers : TwinCommit(w)
  BY <1>1, CommitKeepsTwins DEF TwinCommit, Next, Statement
<1>2. CASE TwinMark
  BY <1>2, MarkKeepsTwins DEF TwinMark, Next
<1>3. CASE (PostgresOnly /\ UNCHANGED memory) \/ UNCHANGED twinVars
  <2>1. [Next]_vars
    BY <1>3 DEF PostgresOnly, Next, Statement, twinVars
  <2>2. UNCHANGED <<events, row, key, outbox>>
    BY <1>3 DEF PostgresOnly, ReadSeq, ReadRow, InsertEvent, UpsertClaim, InsertOutbox, Abort,
                FetchUnpublished, RelayCrash, tables, twinVars, vars
  <2>3. UNCHANGED <<mclaims, mhistory, midem, mpending, msent, mpredictions>>
    BY <1>3 DEF twinVars, memory
  <2>4. Memory!TypeOK'
    BY <2>3 DEF TwinInv, Memory!TypeOK
  <2> QED BY <2>1, <2>2, <2>3, <2>4
          DEF TwinInv, KeyIndex, FindByIdempotencyKey, ListNumbered, SeqUnique, SameEvents,
              Returned, SentIsPublished
<1> QED BY <1>1, <1>2, <1>3 DEF TwinNext

LEMMA TwinsAlike ==
  ASSUME Inv, OutboxInv, TwinInv
  PROVE  TwinsAgree
<1>1. \A k \in Keys \ {EmptyKey} : Memory!FindByIdempotencyKey(k) = FindByIdempotencyKey(k)
  BY DEF TwinInv, KeyIndex, Memory!FindByIdempotencyKey
<1>2. /\ \A s \in ClaimStatus : Memory!ListByStatus(s) = ListByStatus(s)
      /\ Memory!ListPendingReview = PendingIds
  BY DEF TwinInv, Memory!ListByStatus, ListByStatus, Memory!ListPendingReview, PendingIds
<1>3. ASSUME NEW c \in Claims PROVE SameFetch(c)
  <2> DEFINE listed == {i \in Memory!Unpublished : mpending[i][1] = c}
             rows   == {o \in Unpublished : o.claim = c}
  <2>1. \A i \in DOMAIN mpending, o \in outbox : Returned(i, o) =>
          /\ mpending[i][1] = o.claim /\ mpending[i][2] = o.seq
          /\ i \in Memory!Unpublished <=> o \in Unpublished
    BY DEF Returned, Memory!Unpublished, Unpublished, TwinInv, SentIsPublished
  <2>2. /\ \A i \in listed : i \in DOMAIN mpending
        /\ \A o \in rows : o \in outbox
    BY DEF Memory!Unpublished, Unpublished
  <2>3. \A i \in listed : \E o \in rows : Returned(i, o)
    BY <2>1, <2>2 DEF TwinInv, SameEvents
  <2>4. \A o \in rows : \E i \in listed : Returned(i, o)
    BY <2>1, <2>2 DEF TwinInv, SameEvents
  <2>5. ASSUME NEW i \in listed, NEW j \in listed, NEW o \in rows, NEW p \in rows,
               Returned(i, o), Returned(j, p)
        PROVE  i < j <=> FetchedBefore(o, p)
    <3>1. /\ o \in outbox /\ p \in outbox /\ o.claim = p.claim
          /\ o.id \in Nat /\ p.id \in Nat /\ o.seq \in Nat /\ p.seq \in Nat
      BY <2>2 DEF Inv, TypeOK, OutboxRow
    <3>2. i < j <=> o.seq < p.seq
      BY <2>1, <2>2, <2>5, <3>1 DEF TwinInv, ListNumbered
    <3>3. /\ o.seq < p.seq => o.id < p.id
          /\ p.seq < o.seq => p.id < o.id
          /\ o.seq = p.seq => o.id = p.id
      BY <3>1 DEF OutboxInv, IdsFollow, TwinInv, SeqUnique
    <3> QED BY <3>1, <3>2, <3>3 DEF FetchedBefore
  <2> QED BY <2>3, <2>4, <2>5 DEF SameFetch
<1> QED BY <1>1, <1>2, <1>3 DEF TwinsAgree, TwinInv

\* After any commits, races, rollbacks, crashes and marks, for any claims, keys and connections:
\* the in-memory store, given what Postgres committed, has the same claims and histories, finds
\* them by the same keys and statuses, and gives the relay a claim's events in the same order.
THEOREM TwinsStayAlike == TwinSpec => []TwinsAgree
<1>1. TwinInit => Inv /\ OutboxInv /\ TwinInv
  BY InitInv, OutboxInit, TwinInitInv DEF TwinInit
<1>2. Inv /\ OutboxInv /\ TwinInv /\ [TwinNext]_twinVars => Inv' /\ OutboxInv' /\ TwinInv'
  BY TwinNextInv, NextInv, NextOutbox
<1>3. Inv /\ OutboxInv /\ TwinInv => TwinsAgree
  BY TwinsAlike
<1> QED BY <1>1, <1>2, <1>3, PTL DEF TwinSpec
=============================================================================
