---------------------------- MODULE ReadApiProofs ----------------------------
(***************************************************************************)
(* Proofs about ReadApi, for any claims, callers and histories.  A         *)
(* document takes two reads; what makes the second agree with the first    *)
(* for good is that a claim with a decision has left the statuses in which *)
(* the projection takes predictions (DecidedLate), and never returns.      *)
(***************************************************************************)
EXTENDS ReadApi, TLAPS

\* The statuses from which no event leads back to the model's
Decided == {"ADJUDICATED", "PERSISTED", "NOTIFIED", "NOTIFY_FAILED", "FAILED"}

DecidedLate == \A c \in Claims : row[c].decision # "NONE" => row[c].status \in Decided

\* A call goes on only while its answer is 200; what it has seen decided still is.
ReadersCurrent == \A u \in Callers :
  /\ reader[u].pc \in {"claim", "predictions"} => reader[u].code = 200
  /\ reader[u].pc = "predictions" /\ reader[u].seen.decision # "NONE" =>
       row[reader[u].claim].status \in Decided
  /\ Rendered(u) => row[reader[u].claim].status \in Decided

DocumentRecord ==
  [pc : {"claim", "predictions", "document"}, claim : Claims, adapter : Adapters,
   seen : Claim, evidence : SUBSET Tiers, code : Statuses]

Inv == TypeOK /\ DecidedLate /\ ReadersCurrent /\ DocumentShowsFinalEvidence

-----------------------------------------------------------------------------
\* The instance has its own copy of Projection: the same sets and rules.
LEMMA Same ==
  /\ Store!Event = Event /\ Store!Claim = Claim /\ Store!Tiers = Tiers
  /\ Store!NoClaim = NoClaim
  /\ \A c, e : /\ Store!Legal(c, e) = Legal(c, e)
               /\ Store!Project(c, e) = Project(c, e)
               /\ Store!TiersOf(e) = TiersOf(e)
<1>1. Store!Event = Event /\ Store!Tiers = Tiers /\ Store!NoClaim = NoClaim
  BY DEF Store!Event, Event, Store!EventType, EventType, Store!Decision, Decision,
         Store!Tiers, Tiers, Store!NoClaim, NoClaim
<1>2. Store!Claim = Claim
  BY DEF Store!Claim, Claim, Store!ClaimStatus, ClaimStatus, Store!Decision, Decision
<1>3. Allowed = Store!Allowed
  BY Zenon DEF Allowed, Store!Allowed
<1>4. \A t : EventStatus(t) = Store!EventStatus(t)
  BY DEF EventStatus, Store!EventStatus
<1>5. \A c, e : Store!Legal(c, e) = Legal(c, e)
  BY <1>3, <1>4 DEF Legal, Store!Legal
<1>6. \A c, e : Store!Project(c, e) = Project(c, e)
  BY <1>4 DEF DecisionEvents, Store!DecisionEvents, Project, Store!Project
<1>7. \A e : Store!TiersOf(e) = TiersOf(e)
  BY <1>1 DEF TiersOf, Store!TiersOf
<1> QED BY <1>1, <1>2, <1>5, <1>6, <1>7

LEMMA ProjectType ==
  ASSUME NEW c \in Claim, NEW e \in Event, Legal(c, e)
  PROVE  Project(c, e) \in Claim
<1>1. EventStatus(e.type) \in ClaimStatus \cup {"ABSENT"}
  BY DEF EventStatus, ClaimStatus
<1> QED BY <1>1 DEF Project, Claim, ClaimStatus, Event, Decision

\* A decided claim takes no more predictions and stays decided.
LEMMA DecidedStays ==
  ASSUME NEW c \in Claim, NEW e \in Event, Legal(c, e), c.status \in Decided
  PROVE  Project(c, e).status \in Decided /\ TiersOf(e) = {}
<1>1. e.type # "CLAIM_RECEIVED"
  BY DEF Legal, Decided
<1>2. EventStatus(e.type) \in {"ABSENT", c.status}
        \/ <<c.status, EventStatus(e.type)>> \in Allowed
  BY <1>1 DEF Legal
<1>3. EventStatus(e.type) \in {"ABSENT"} \cup Decided
  BY <1>2 DEF Decided, Allowed
<1>4. e.type # "PREDICTIONS_READY"
  BY <1>3 DEF EventStatus, Decided
<1> QED BY <1>1, <1>3, <1>4 DEF Project, TiersOf

\* A decision comes with ADJUDICATED, or to a claim that has one.
LEMMA DecisionsDecide ==
  ASSUME NEW c \in Claim, NEW e \in Event, Legal(c, e),
         e.type = "REVIEW_COMPLETED" => c.decision # "NONE",
         c.decision # "NONE" => c.status \in Decided,
         Project(c, e).decision # "NONE"
  PROVE  Project(c, e).status \in Decided
<1>1. e.type # "CLAIM_RECEIVED"
  BY DEF Project
<1>2. CASE e.type = "CLAIM_ADJUDICATED"
  BY <1>2 DEF Project, EventStatus, Decided
<1>3. CASE e.type # "CLAIM_ADJUDICATED"
  <2>1. c.decision # "NONE"
    BY <1>1, <1>3 DEF Project, DecisionEvents
  <2> QED BY <2>1, DecidedStays
<1> QED BY <1>2, <1>3

LEMMA AbsentHasNone ==
  ASSUME NEW c \in Claim, NEW e \in Event, c.status = "ABSENT", Legal(c, e)
  PROVE  e.type = "CLAIM_RECEIVED"
BY DEF Legal

LEMMA InitInv == Init => Inv
<1> SUFFICES ASSUME Init PROVE Inv
  OBVIOUS
<1>1. NoClaim \in Claim
  BY DEF NoClaim, Claim, Decision
<1>2. TypeOK
  BY Same, <1>1 DEF Init, Store!Init, TypeOK, Store!TypeOK
<1>3. DecidedLate
  BY Same DEF Init, Store!Init, DecidedLate, NoClaim
<1>4. ReadersCurrent /\ DocumentShowsFinalEvidence
  BY DEF Init, ReadersCurrent, DocumentShowsFinalEvidence, Rendered, Idle
<1> QED BY <1>2, <1>3, <1>4 DEF Inv

LEMMA AppendInv ==
  ASSUME Inv, NEW c \in Claims, NEW e \in Events, AppendEvent(c, e)
  PROVE  Inv'
<1>1. /\ e \in Event /\ row[c] \in Claim /\ Legal(row[c], e)
      /\ e.type = "REVIEW_COMPLETED" => row[c].decision # "NONE"
      /\ log' = [log EXCEPT ![c] = Append(@, e)]
      /\ row' = [row EXCEPT ![c] = Project(@, e)]
      /\ key' = [key EXCEPT ![c] = IF row[c].status = "ABSENT" THEN NoKey ELSE @]
      /\ outputs' = [outputs EXCEPT ![c] = @ \cup TiersOf(e)]
      /\ outbox' = outbox \cup {<<c, Len(log[c]) + 1>>}
      /\ UNCHANGED reader
  BY Same, ReadAssumption DEF AppendEvent, Store!AppendEvent, Inv, TypeOK, Store!TypeOK
<1>2. /\ row'[c] = Project(row[c], e) /\ outputs'[c] = outputs[c] \cup TiersOf(e)
      /\ \A d \in Claims \ {c} : row'[d] = row[d] /\ outputs'[d] = outputs[d]
  BY Same, <1>1 DEF Inv, TypeOK, Store!TypeOK
<1>3. TiersOf(e) \subseteq Tiers /\ Project(row[c], e) \in Claim
  BY <1>1, ProjectType DEF TiersOf, Tiers
<1>4. TypeOK'
  <2>1. log[c] \in Seq(Event) /\ Len(log[c]) + 1 \in Nat \ {0} /\ Append(log[c], e) \in Seq(Event)
    BY Same, <1>1 DEF Inv, TypeOK, Store!TypeOK
  <2>2. /\ log' \in [Claims -> Seq(Event)] /\ row' \in [Claims -> Claim]
        /\ outputs' \in [Claims -> SUBSET Tiers]
    BY Same, <1>1, <1>3, <2>1 DEF Inv, TypeOK, Store!TypeOK
  <2>3. key' \in [Claims -> {} \cup {NoKey}] /\ outbox' \subseteq Claims \X (Nat \ {0})
    BY Same, <1>1, <2>1 DEF Inv, TypeOK, Store!TypeOK
  <2>4. Store!TypeOK'
    BY Same, <2>2, <2>3 DEF Store!TypeOK
  <2>5. reader' \in [Callers -> {Idle} \cup DocumentCall \cup QueueCall]
    BY <1>1 DEF Inv, TypeOK
  <2> QED BY <2>4, <2>5 DEF TypeOK
<1>5. DecidedLate'
  BY <1>1, <1>2, DecisionsDecide DEF Inv, DecidedLate
<1>6. \A d \in Claims : row[d].status \in Decided =>
        row'[d].status \in Decided /\ outputs'[d] = outputs[d]
  BY <1>1, <1>2, DecidedStays
<1>7. \A u \in Callers : reader[u].pc = "predictions" \/ Rendered(u) => reader[u].claim \in Claims
  BY DEF Inv, TypeOK, Idle, DocumentCall, QueueCall, Rendered
<1>8. ReadersCurrent'
  BY <1>1, <1>6, <1>7 DEF Inv, ReadersCurrent, Rendered
<1>9. DocumentShowsFinalEvidence'
  <2>1. ASSUME NEW u \in Callers, Rendered(u)
        PROVE  reader[u].evidence = outputs'[reader[u].claim]
    <3>1. reader[u].claim \in Claims /\ row[reader[u].claim].status \in Decided
      BY <1>7, <2>1 DEF Inv, ReadersCurrent
    <3> QED BY <1>6, <2>1, <3>1 DEF Inv, DocumentShowsFinalEvidence
  <2>2. reader' = reader
    BY <1>1
  <2> QED BY <2>1, <2>2 DEF DocumentShowsFinalEvidence, Rendered
<1> QED BY <1>4, <1>5, <1>8, <1>9 DEF Inv

-----------------------------------------------------------------------------
\* A turn of u leaves the store and the other callers alone.
LEMMA TurnInv ==
  ASSUME Inv, NEW u \in Callers, NEW call, Turns(u, call),
         call \in {Idle} \cup DocumentCall \cup QueueCall,
         call.pc \in {"claim", "predictions"} => call.code = 200,
         call.pc = "predictions" /\ call.seen.decision # "NONE" =>
           row[call.claim].status \in Decided,
         call.pc = "document" /\ call.code = 200 =>
           row[call.claim].status \in Decided /\ call.evidence = outputs[call.claim]
  PROVE  Inv'
<1>1. /\ reader' = [reader EXCEPT ![u] = call]
      /\ UNCHANGED <<log, row, key, outputs, outbox>>
  BY DEF Turns, stored
<1>2. /\ reader'[u] = call /\ \A v \in Callers \ {u} : reader'[v] = reader[v]
      /\ reader' \in [Callers -> {Idle} \cup DocumentCall \cup QueueCall]
  BY <1>1 DEF Inv, TypeOK
<1>3. TypeOK' /\ DecidedLate'
  BY Same, <1>1, <1>2 DEF Inv, TypeOK, Store!TypeOK, DecidedLate
<1>4. ReadersCurrent'
  BY <1>1, <1>2 DEF Inv, ReadersCurrent, Rendered
<1>5. DocumentShowsFinalEvidence'
  BY <1>1, <1>2 DEF Inv, DocumentShowsFinalEvidence, Rendered
<1> QED BY <1>3, <1>4, <1>5 DEF Inv

LEMMA DocumentType ==
  ASSUME TypeOK, NEW u \in Callers, reader[u].pc \in {"claim", "predictions", "document"}
  PROVE  reader[u] \in DocumentCall
BY DEF TypeOK, Idle, QueueCall

LEMMA QueueType ==
  ASSUME TypeOK, NEW u \in Callers, reader[u].pc \in {"select", "rows", "queue"}
  PROVE  reader[u] \in QueueCall
BY DEF TypeOK, Idle, DocumentCall

LEMMA ReadClaimInv ==
  ASSUME Inv, NEW u \in Callers, ReadClaim(u)
  PROVE  Inv'
<1> DEFINE d == reader[u]
<1>1. d.pc = "claim" /\ d \in DocumentCall /\ d.code = 200 /\ d.claim \in Claims
  BY DocumentType DEF ReadClaim, Inv, ReadersCurrent, DocumentCall
<1>2. CASE Visible(u, d.claim)
  <2> DEFINE call == [d EXCEPT !.pc = "predictions", !.seen = row[d.claim]]
  <2>1. Turns(u, call)
    BY <1>2 DEF ReadClaim
  <2>2. row[d.claim] \in Claim /\ row[d.claim] # NoClaim
    BY Same, <1>1, <1>2 DEF Inv, TypeOK, Store!TypeOK, Visible, NoClaim
  <2>3. /\ call \in DocumentCall /\ call.pc = "predictions" /\ call.code = 200
        /\ call.seen = row[d.claim] /\ call.claim = d.claim
    <3>1. d \in DocumentRecord
      BY <1>1 DEF DocumentCall, DocumentRecord
    <3>2. /\ call \in DocumentRecord /\ call.pc = "predictions" /\ call.code = 200
          /\ call.seen = row[d.claim] /\ call.claim = d.claim
      BY <1>1, <2>2, <3>1 DEF DocumentRecord
    <3> HIDE DEF call
    <3> QED BY <2>2, <3>2 DEF DocumentCall, DocumentRecord
  <2>4. call.seen.decision # "NONE" => row[call.claim].status \in Decided
    BY <1>1, <2>3 DEF Inv, DecidedLate
  <2> HIDE DEF call
  <2> QED BY <2>1, <2>3, <2>4, TurnInv
<1>3. CASE ~Visible(u, d.claim)
  <2> DEFINE call == [d EXCEPT !.pc = "document", !.code = 404]
  <2>1. Turns(u, call)
    BY <1>3 DEF ReadClaim
  <2>2. call \in DocumentCall /\ call.pc = "document" /\ call.code = 404
    BY <1>1 DEF DocumentCall, Statuses
  <2> HIDE DEF call
  <2> QED BY <2>1, <2>2, TurnInv
<1> QED BY <1>2, <1>3

LEMMA ReadPredictionsInv ==
  ASSUME Inv, NEW u \in Callers, ReadPredictions(u)
  PROVE  Inv'
<1> DEFINE d == reader[u]
           answer == IF Renders(d.adapter, d.seen) THEN 200 ELSE 409
           call == [d EXCEPT !.pc = "document", !.evidence = outputs[d.claim], !.code = answer]
<1>1. d.pc = "predictions" /\ d \in DocumentCall /\ d.code = 200 /\ Turns(u, call)
  BY DocumentType DEF ReadPredictions, Inv, ReadersCurrent
<1>2. d.claim \in Claims /\ d.seen # NoClaim /\ outputs[d.claim] \in SUBSET Tiers
  BY Same, <1>1 DEF DocumentCall, Inv, TypeOK, Store!TypeOK
<1>3. /\ call \in DocumentCall /\ call.pc = "document" /\ call.evidence = outputs[d.claim]
      /\ call.claim = d.claim
      /\ call.code = 200 => Renders(d.adapter, d.seen)
  <2>1. d \in DocumentRecord
    BY <1>1 DEF DocumentCall, DocumentRecord
  <2>2. /\ call \in DocumentRecord /\ call.pc = "document" /\ call.evidence = outputs[d.claim]
        /\ call.claim = d.claim /\ call.seen = d.seen
        /\ call.code = answer
    <3>1. answer \in Statuses
      BY DEF Statuses
    <3> HIDE DEF answer
    <3> QED BY <1>2, <2>1, <3>1 DEF DocumentRecord
  <2> HIDE DEF call
  <2>3. answer # 404 /\ (answer = 200 => Renders(d.adapter, d.seen))
    OBVIOUS
  <2> HIDE DEF answer
  <2> QED BY <1>2, <2>2, <2>3 DEF DocumentCall, DocumentRecord
<1>4. call.code = 200 => row[call.claim].status \in Decided
  BY <1>1, <1>3 DEF Renders, Inv, ReadersCurrent
<1> HIDE DEF call
<1> QED BY <1>1, <1>3, <1>4, TurnInv

LEMMA QueueInv ==
  ASSUME Inv, NEW u \in Callers,
         \/ RequestQueue(u) \/ SelectPending(u) \/ AnswerQueue(u)
         \/ \E c \in Claims : ReadRow(u, c)
  PROVE  Inv'
<1>1. ASSUME NEW call \in QueueCall, Turns(u, call)
      PROVE  Inv'
  BY <1>1, TurnInv DEF QueueCall
<1> DEFINE q == reader[u]
<1>2. CASE RequestQueue(u)
  BY <1>1, <1>2 DEF RequestQueue, QueueCall, Statuses
<1>3. CASE SelectPending(u)
  <2> DEFINE ids == {c \in Claims : row[c].decision = "PEND" /\ row[c].status = "ADJUDICATED"}
  <2>1. Turns(u, [q EXCEPT !.pc = "rows", !.todo = ids]) /\ q \in QueueCall /\ ids \subseteq Claims
    BY <1>3, QueueType DEF SelectPending, Inv
  <2>2. [q EXCEPT !.pc = "rows", !.todo = ids] \in QueueCall
    BY <2>1 DEF QueueCall
  <2> QED BY <1>1, <2>1, <2>2
<1>4. CASE AnswerQueue(u)
  <2> DEFINE own == {f \in q.found : OfTenant(u, f[1])}
  <2>1. Turns(u, [q EXCEPT !.pc = "queue", !.found = own]) /\ q \in QueueCall
    BY <1>4, QueueType DEF AnswerQueue, Inv
  <2>2. [q EXCEPT !.pc = "queue", !.found = own] \in QueueCall
    BY <2>1 DEF QueueCall
  <2> QED BY <1>1, <2>1, <2>2
<1>5. ASSUME NEW c \in Claims, ReadRow(u, c)
      PROVE  Inv'
  <2> DEFINE todo == q.todo \ {c}
             found == q.found \cup {<<c, row[c]>>}
  <2>1. Turns(u, [q EXCEPT !.todo = todo, !.found = found]) /\ q \in QueueCall
    BY <1>5, QueueType DEF ReadRow, Inv
  <2>2. <<c, row[c]>> \in Claims \X Claim
    BY Same DEF Inv, TypeOK, Store!TypeOK
  <2>3. [q EXCEPT !.todo = todo, !.found = found] \in QueueCall
    BY <2>1, <2>2 DEF QueueCall
  <2> QED BY <1>1, <2>1, <2>3
<1> QED BY <1>2, <1>3, <1>4, <1>5

LEMMA NextInv == Inv /\ [Next]_vars => Inv'
<1> SUFFICES ASSUME Inv, [Next]_vars PROVE Inv'
  OBVIOUS
<1>1. ASSUME NEW c \in Claims, NEW e \in Events, AppendEvent(c, e)
      PROVE  Inv'
  BY <1>1, AppendInv
<1>2. ASSUME NEW u \in Callers, NEW c \in Claims, NEW a \in Adapters, RequestDocument(u, c, a)
      PROVE  Inv'
  <2> DEFINE call == [pc |-> "claim", claim |-> c, adapter |-> a, seen |-> NoClaim,
                      evidence |-> {}, code |-> 200]
  <2>1. NoClaim \in Claim
    BY DEF NoClaim, Claim, Decision
  <2>2. call \in DocumentCall /\ call.pc = "claim" /\ call.code = 200
    BY <2>1 DEF DocumentCall, Statuses
  <2>3. Turns(u, call)
    BY <1>2 DEF RequestDocument
  <2> HIDE DEF call
  <2> QED BY <2>2, <2>3, TurnInv
<1>3. ASSUME NEW u \in Callers, ReadClaim(u) \/ ReadPredictions(u)
      PROVE  Inv'
  BY <1>3, ReadClaimInv, ReadPredictionsInv
<1>4. ASSUME NEW u \in Callers,
             \/ RequestQueue(u) \/ SelectPending(u) \/ AnswerQueue(u)
             \/ \E c \in Claims : ReadRow(u, c)
      PROVE  Inv'
  BY <1>4, QueueInv
<1>5. CASE UNCHANGED vars
  BY Same, <1>5 DEF vars, stored, Inv, TypeOK, Store!TypeOK, DecidedLate, ReadersCurrent,
              DocumentShowsFinalEvidence, Rendered
<1> QED BY <1>1, <1>2, <1>3, <1>4, <1>5 DEF Next, Reads

\* Every variable has its type; a caller is shown no claim it may not see, so whoever got a
\* 404 has read nothing.
THEOREM TypeCorrect == Spec => []TypeOK
<1>1. Inv => TypeOK
  BY DEF Inv
<1> QED BY <1>1, InitInv, NextInv, PTL DEF Spec

\* Whatever events are appended between the two reads of a document or after it, the model
\* outputs it shows stay the ones on record (api/app.py's render_document).
THEOREM EvidenceIsFinal == Spec => []DocumentShowsFinalEvidence
<1>1. Inv => DocumentShowsFinalEvidence
  BY DEF Inv
<1> QED BY <1>1, InitInv, NextInv, PTL DEF Spec
===============================================================================
