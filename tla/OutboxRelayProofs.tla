------------------------- MODULE OutboxRelayProofs -------------------------
(***************************************************************************)
(* Proofs about OutboxRelay, for any claims, batch size, relays, rows and  *)
(* crashes.                                                                *)
(***************************************************************************)
EXTENDS OutboxRelay, FiniteSetTheorems, SequenceTheorems, TLAPS

Ids == {o.id : o \in rows}

\* BIGSERIAL: finitely many rows, no id twice.
IdsUnique == IsFiniteSet(rows) /\ \A o, q \in rows : o.id = q.id => o = q

\* A claim's events are numbered without gaps, and ids follow the numbers.
Numbered ==
  /\ \A o \in rows : o.seq \in 1..Length(o.claim)
  /\ \A c \in Claims : \A n \in 1..Length(c) : \E o \in rows : o.claim = c /\ o.seq = n
  /\ \A o, q \in rows : o.claim = q.claim /\ q.seq < o.seq => q.id < o.id

\* A relay only holds and marks ids it has seen, and those it has sent are on the topic.
Handled ==
  /\ published \subseteq Ids
  /\ \A p \in Relays : fetched[p] \subseteq Ids
  /\ \A o \in rows : o.id \in published => OnTopic(o)
  /\ \A o \in rows, p \in Relays : o.id \in sent[p] => OnTopic(o)

\* A relay that holds an event holds the claim's earlier ones too, or they are on the topic.
BatchFollows ==
  \A p \in Relays : \A o, q \in rows :
    o.id \in fetched[p] /\ q.claim = o.claim /\ q.seq < o.seq => q.id \in fetched[p] \/ OnTopic(q)

IInv == TypeOK /\ IdsUnique /\ Numbered /\ Handled /\ BatchFollows

LEMMA LengthType == ASSUME IdsUnique, NEW c PROVE Length(c) \in Nat
<1>1. IsFiniteSet({o \in rows : o.claim = c})
    BY FS_Subset DEF IdsUnique
<1> QED BY <1>1, FS_CardinalityType DEF Length

LEMMA InitInvariant == Init => IInv
<1> SUFFICES ASSUME Init PROVE IInv
    OBVIOUS
<1>1. TypeOK
    BY RelayAssumption DEF Init, TypeOK, Idle
<1>2. IdsUnique
    BY FS_EmptySet DEF Init, IdsUnique
<1>3. Numbered
  <2>1. \A c : Length(c) = 0
      BY FS_EmptySet DEF Init, Length
  <2> QED BY <2>1 DEF Init, Numbered
<1> QED BY <1>1, <1>2, <1>3 DEF Init, IInv, Handled, BatchFollows, Ids, Idle

\* A message stays on the topic when another is appended.
LEMMA TopicGrows ==
  ASSUME TypeOK, NEW o \in rows, NEW q \in rows, topic' = Append(topic, <<o.claim, o.seq>>)
  PROVE  OnTopic(q) \/ q = o => OnTopic(q)'
<1>1. topic \in Seq(Claims \X (Nat \ {0})) /\ <<o.claim, o.seq>> \in Claims \X (Nat \ {0})
    BY DEF TypeOK, Row
<1>2. /\ \A m \in DOMAIN topic : m \in DOMAIN topic' /\ topic'[m] = topic[m]
      /\ Len(topic) + 1 \in DOMAIN topic' /\ topic'[Len(topic) + 1] = <<o.claim, o.seq>>
    BY <1>1
<1> QED BY <1>2 DEF OnTopic

\* A commit adds one event to one claim.
LEMMA CommitLength ==
  ASSUME IInv, NEW c \in Claims, NEW i \in 1..MaxId, Commit(c, i)
  PROVE  \A d : Length(d)' = IF d = c THEN Length(d) + 1 ELSE Length(d)
<1> DEFINE new == [id |-> i, claim |-> c, seq |-> Length(c) + 1]
<1>1. rows' = rows \cup {new} /\ new \notin rows /\ new.claim = c
    BY DEF Commit
<1> HIDE DEF new
<1>2. SUFFICES ASSUME NEW d PROVE Length(d)' = IF d = c THEN Length(d) + 1 ELSE Length(d)
    OBVIOUS
<1>3. IsFiniteSet({o \in rows : o.claim = d})
    BY FS_Subset DEF IInv, IdsUnique
<1>4. CASE d = c
  <2>1. {o \in rows' : o.claim = d} = {o \in rows : o.claim = d} \cup {new}
      BY <1>1, <1>4
  <2>2. new \notin {o \in rows : o.claim = d}
      BY <1>1
  <2> QED BY <1>3, <1>4, <2>1, <2>2, FS_AddElement DEF Length
<1>5. CASE d # c
  <2>1. {o \in rows' : o.claim = d} = {o \in rows : o.claim = d}
      BY <1>1, <1>5
  <2> QED BY <1>5, <2>1 DEF Length
<1> QED BY <1>4, <1>5

\* A batch cut short by its limit still holds the claim's earlier waiting events.
LEMMA SelectedFollows ==
  ASSUME IInv, NEW o \in rows, NEW q \in rows,
         o.id \in Selected, q.claim = o.claim, q.seq < o.seq
  PROVE  q.id \in Selected \/ OnTopic(q)
<1>1. o.id \in Nat /\ q.id \in Nat /\ q.id < o.id /\ \A x \in rows : x.id \in Nat
    BY DEF IInv, Numbered, TypeOK, Row
<1>2. CASE q.id \in published
    BY <1>2 DEF IInv, Handled
<1>3. CASE q.id \notin published
  <2> DEFINE Below(r) == {x \in Waiting : x.id < r.id}
  <2>1. q \in Waiting /\ o \in Waiting /\ Cardinality(Below(o)) < BatchSize
      BY <1>3 DEF Selected, Waiting, IInv, IdsUnique
  <2>2. IsFiniteSet(Below(o))
      BY FS_Subset DEF IInv, IdsUnique, Waiting
  <2>3. Below(q) \subseteq Below(o)
      BY <1>1 DEF Waiting
  <2>4. Cardinality(Below(q)) <= Cardinality(Below(o)) /\ IsFiniteSet(Below(q))
      BY <2>2, <2>3, FS_Subset
  <2>5. Cardinality(Below(q)) \in Nat /\ Cardinality(Below(o)) \in Nat
      BY <2>2, <2>4, FS_CardinalityType
  <2>6. Cardinality(Below(q)) < BatchSize
      BY <2>1, <2>4, <2>5, RelayAssumption
  <2> QED BY <2>1, <2>6 DEF Selected
<1> QED BY <1>2, <1>3

LEMMA CommitInvariant ==
  ASSUME IInv, NEW c \in Claims, NEW i \in 1..MaxId, Commit(c, i) PROVE IInv'
<1> DEFINE new == [id |-> i, claim |-> c, seq |-> Length(c) + 1]
<1>1. Length(c) \in Nat
    BY LengthType DEF IInv
<1>2. new \in Row /\ new.id = i /\ new.claim = c /\ new.seq = Length(c) + 1
    BY <1>1 DEF Row
<1>3. rows' = rows \cup {new} /\ UNCHANGED <<published, fetched, sent, topic, crashes>>
    BY DEF Commit
<1>4. i \notin Ids
    BY DEF Commit, Ids
<1>5. \A o \in rows : o.claim = c => o.id < i
    BY DEF Commit
<1> HIDE DEF new
<1>6. TypeOK'
    BY <1>2, <1>3 DEF IInv, TypeOK
<1>7. IdsUnique'
  <2>1. IsFiniteSet(rows')
      BY <1>3, FS_AddElement DEF IInv, IdsUnique
  <2> QED BY <1>2, <1>3, <1>4, <2>1 DEF IInv, IdsUnique, Ids
<1>8. \A d : Length(d)' = IF d = c THEN Length(d) + 1 ELSE Length(d)
    BY CommitLength
<1>9. \A d : Length(d) \in Nat
    BY LengthType DEF IInv
<1>10. Numbered'
  <2>1. \A o \in rows' : o.seq \in 1..Length(o.claim)'
      BY <1>2, <1>3, <1>8, <1>9 DEF IInv, Numbered
  <2>2. \A d \in Claims : \A n \in 1..Length(d)' : \E o \in rows' : o.claim = d /\ o.seq = n
    <3>1. SUFFICES ASSUME NEW d \in Claims, NEW n \in 1..Length(d)'
                   PROVE \E o \in rows' : o.claim = d /\ o.seq = n
        OBVIOUS
    <3>2. CASE n \in 1..Length(d)
        BY <1>3, <3>2 DEF IInv, Numbered
    <3>3. CASE n \notin 1..Length(d)
      <4>1. d = c /\ n = Length(c) + 1
          BY <1>8, <1>9, <3>1, <3>3
      <4> QED BY <1>2, <1>3, <4>1
    <3> QED BY <3>2, <3>3
  <2>3. \A o, q \in rows' : o.claim = q.claim /\ q.seq < o.seq => q.id < o.id
    <3>1. SUFFICES ASSUME NEW o \in rows', NEW q \in rows', o.claim = q.claim, q.seq < o.seq
                   PROVE q.id < o.id
        OBVIOUS
    <3>2. CASE o \in rows /\ q \in rows
        BY <3>1, <3>2 DEF IInv, Numbered
    <3>3. CASE o = new /\ q \in rows
        BY <1>2, <1>5, <3>1, <3>3
    <3>4. CASE q = new
      <4>1. o.seq \in 1..(Length(c) + 1)
          BY <1>2, <1>8, <2>1, <3>1, <3>4
      <4> QED BY <1>2, <1>9, <3>1, <3>4, <4>1
    <3> QED BY <1>3, <3>2, <3>3, <3>4
  <2> QED BY <2>1, <2>2, <2>3 DEF Numbered
<1>11. \A p \in Relays : i \notin fetched[p] /\ i \notin sent[p]
    BY <1>4 DEF IInv, Handled, TypeOK
<1>12. Handled'
  <2>1. i \notin published
      BY <1>4 DEF IInv, Handled
  <2> QED BY <1>2, <1>3, <1>11, <2>1 DEF IInv, Handled, Ids, OnTopic
<1>13. BatchFollows'
  <2>1. SUFFICES ASSUME NEW p \in Relays, NEW o \in rows', NEW q \in rows',
                        o.id \in fetched[p], q.claim = o.claim, q.seq < o.seq
                 PROVE  q.id \in fetched[p] \/ OnTopic(q)
      BY <1>3 DEF BatchFollows, OnTopic
  <2>2. o \in rows
      BY <1>2, <1>3, <1>11, <2>1
  <2>3. q \in rows
    <3>1. o.seq \in 1..Length(o.claim)
        BY <2>2 DEF IInv, Numbered
    <3> QED BY <1>2, <1>3, <1>9, <2>1, <3>1
  <2> QED BY <2>1, <2>2, <2>3 DEF IInv, BatchFollows
<1> QED BY <1>6, <1>7, <1>10, <1>12, <1>13 DEF IInv

LEMMA StepInvariant == IInv /\ [Next]_vars => IInv'
<1> SUFFICES ASSUME IInv, [Next]_vars PROVE IInv'
    OBVIOUS
<1> USE RelayAssumption
<1>1. ASSUME NEW c \in Claims, NEW i \in 1..MaxId, Commit(c, i) PROVE IInv'
    BY <1>1, CommitInvariant
<1>2. rows' = rows => IdsUnique' /\ Numbered' /\ Ids' = Ids
    BY DEF IInv, IdsUnique, Numbered, Length, Ids
<1>3. ASSUME NEW p \in Relays, Fetch(p) PROVE IInv'
  <2>1. Selected \subseteq Ids
      BY DEF Selected, Waiting, Ids
  <2>2. Ids \subseteq 1..MaxId
      BY DEF IInv, TypeOK, Ids, Row
  <2>3. sent[p] = {}
      BY <1>3 DEF Fetch, IInv, TypeOK
  <2>4. /\ fetched' = [fetched EXCEPT ![p] = Selected]
        /\ UNCHANGED <<rows, published, sent, topic, crashes>>
      BY <1>3 DEF Fetch
  <2>5. TypeOK'
      BY <2>1, <2>2, <2>3, <2>4 DEF IInv, TypeOK
  <2>6. Handled'
      BY <2>1, <2>4 DEF IInv, TypeOK, Handled, Ids, OnTopic
  <2>7. BatchFollows'
      BY <2>4, SelectedFollows DEF IInv, TypeOK, BatchFollows, OnTopic
  <2> QED BY <1>2, <2>4, <2>5, <2>6, <2>7 DEF IInv
<1>4. ASSUME NEW p \in Relays, NEW o \in rows, Publish(p, o) PROVE IInv'
  <2>1. /\ topic' = Append(topic, <<o.claim, o.seq>>) /\ o.id \in fetched[p]
        /\ sent' = [sent EXCEPT ![p] = @ \cup {o.id}]
        /\ UNCHANGED <<rows, published, fetched, crashes>>
      BY <1>4 DEF Publish
  <2>2. <<o.claim, o.seq>> \in Claims \X (Nat \ {0})
      BY DEF IInv, TypeOK, Row
  <2>3. TypeOK'
    <3>1. topic' \in Seq(Claims \X (Nat \ {0}))
      <4>1. topic \in Seq(Claims \X (Nat \ {0}))
          BY DEF IInv, TypeOK
      <4> QED BY <2>1, <2>2, <4>1, Zenon, AppendProperties
    <3> QED BY <2>1, <3>1 DEF IInv, TypeOK
  <2>4. \A q \in rows : OnTopic(q) \/ q = o => OnTopic(q)'
      BY <2>1, TopicGrows DEF IInv
  <2>5. Handled'
    <3>1. \A q \in rows, r \in Relays : q.id \in sent'[r] => q.id \in sent[r] \/ q = o
        BY <2>1 DEF IInv, TypeOK, IdsUnique
    <3> QED BY <1>2, <2>1, <2>4, <3>1 DEF IInv, Handled
  <2>6. BatchFollows'
      BY <2>1, <2>4 DEF IInv, BatchFollows
  <2> QED BY <1>2, <2>1, <2>3, <2>5, <2>6 DEF IInv
<1>5. ASSUME NEW p \in Relays, Mark(p) PROVE IInv'
  <2>1. /\ sent[p] = fetched[p] /\ published' = published \cup fetched[p]
        /\ fetched' = [fetched EXCEPT ![p] = {}] /\ sent' = [sent EXCEPT ![p] = {}]
        /\ UNCHANGED <<rows, topic, crashes>>
      BY <1>5 DEF Mark, Sent
  <2>2. \A r \in Relays : /\ r = p => fetched'[r] = {} /\ sent'[r] = {}
                          /\ r # p => fetched'[r] = fetched[r] /\ sent'[r] = sent[r]
      BY <2>1 DEF IInv, TypeOK
  <2>3. TypeOK'
      BY <2>1 DEF IInv, TypeOK
  <2>4. Handled'
      BY <2>1, <2>2 DEF IInv, Handled, Ids, OnTopic
  <2>5. BatchFollows'
      BY <2>1, <2>2 DEF IInv, BatchFollows, OnTopic
  <2> QED BY <1>2, <2>1, <2>3, <2>4, <2>5 DEF IInv
<1>6. ASSUME NEW p \in Relays, Crash(p) PROVE IInv'
  <2>1. /\ crashes < MaxCrashes /\ crashes' = crashes + 1
        /\ fetched' = [fetched EXCEPT ![p] = {}] /\ sent' = [sent EXCEPT ![p] = {}]
        /\ UNCHANGED <<rows, published, topic>>
      BY <1>6 DEF Crash
  <2>2. \A r \in Relays : /\ r = p => fetched'[r] = {} /\ sent'[r] = {}
                          /\ r # p => fetched'[r] = fetched[r] /\ sent'[r] = sent[r]
      BY <2>1 DEF IInv, TypeOK
  <2>3. TypeOK'
      BY <2>1 DEF IInv, TypeOK
  <2>4. Handled'
      BY <2>1, <2>2 DEF IInv, Handled, Ids, OnTopic
  <2>5. BatchFollows'
      BY <2>1, <2>2 DEF IInv, BatchFollows, OnTopic
  <2> QED BY <1>2, <2>1, <2>3, <2>4, <2>5 DEF IInv
<1>7. CASE UNCHANGED vars
    BY <1>2, <1>7 DEF vars, IInv, TypeOK, Handled, BatchFollows, Ids, OnTopic
<1> QED BY <1>1, <1>3, <1>4, <1>5, <1>6, <1>7 DEF Next, RunOnce

THEOREM Invariance == Spec => []IInv
BY InitInvariant, StepInvariant, PTL DEF Spec

\* Every reachable state is well typed.
THEOREM TypeCorrect == Spec => []TypeOK
<1>1. IInv => TypeOK
    BY DEF IInv
<1> QED BY <1>1, Invariance, PTL

\* What mark_published has marked is on the topic, wherever the relays crashed
\* (relay.py:25-31).
THEOREM NothingMarkedIsMissing == Spec => []MarkedIsOnTopic
<1>1. IInv => MarkedIsOnTopic
    BY DEF IInv, Handled, MarkedIsOnTopic
<1> QED BY <1>1, Invariance, PTL

-----------------------------------------------------------------------------
(* The relays implement the bus. *)

LEMMA InitRefines == Init => Bus!BusInit
<1> SUFFICES ASSUME Init PROVE Bus!BusInit
    OBVIOUS
<1>1. \A c : Length(c) = 0
    BY FS_EmptySet DEF Init, Length
<1> QED BY <1>1 DEF Init, Bus!BusInit

\* What a relay publishes follows what the topic already has of the claim.
LEMMA PublishRefines ==
  ASSUME IInv, NEW p \in Relays, NEW o \in rows, Publish(p, o)
  PROVE  Bus!Publication(o.claim, o.seq) /\ o.claim \in Claims /\ o.seq \in 1..Length(o.claim)
<1>1. o.claim \in Claims /\ o.seq \in 1..Length(o.claim) /\ Length(o.claim) \in Nat
    BY LengthType DEF IInv, TypeOK, Row, Numbered
<1>2. /\ o.id \in fetched[p] /\ \A i \in fetched[p] \ sent[p] : o.id <= i
      /\ topic' = Append(topic, <<o.claim, o.seq>>) /\ rows' = rows
    BY DEF Publish
<1>3. ASSUME NEW m \in 1..(o.seq - 1) PROVE Bus!OnTopic(o.claim, m)
  <2>1. PICK q \in rows : q.claim = o.claim /\ q.seq = m
      BY <1>1 DEF IInv, Numbered
  <2>2. q.seq < o.seq /\ q.id < o.id /\ q.id \in Nat /\ o.id \in Nat
      BY <1>1, <2>1 DEF IInv, Numbered, TypeOK, Row
  <2>3. q.id \in fetched[p] \/ OnTopic(q)
      BY <1>2, <2>1, <2>2 DEF IInv, BatchFollows
  <2>4. OnTopic(q)
      BY <1>2, <2>2, <2>3 DEF IInv, Handled
  <2> QED BY <2>1, <2>4 DEF OnTopic, Bus!OnTopic
<1>4. [c \in Claims |-> Length(c)]' = [c \in Claims |-> Length(c)]
    BY <1>2 DEF Length
<1> QED BY <1>1, <1>2, <1>3, <1>4 DEF Bus!Publication, Bus!Publishable

LEMMA StepRefines == IInv /\ [Next]_vars => [Bus!BusNext]_Bus!busVars
<1> SUFFICES ASSUME IInv, [Next]_vars PROVE [Bus!BusNext]_Bus!busVars
    OBVIOUS
<1>1. ASSUME NEW c \in Claims, NEW i \in 1..MaxId, Commit(c, i) PROVE Bus!BusNext
  <2>1. \A d : Length(d)' = IF d = c THEN Length(d) + 1 ELSE Length(d)
      BY <1>1, CommitLength
  <2>2. topic' = topic
      BY <1>1 DEF Commit
  <2>3. Bus!Committed(c)
      BY <2>1, <2>2 DEF Bus!Committed
  <2> QED BY <2>3 DEF Bus!BusNext
<1>2. ASSUME NEW p \in Relays, NEW o \in rows, Publish(p, o) PROVE Bus!BusNext
    BY <1>2, PublishRefines DEF Bus!BusNext
<1>3. ASSUME rows' = rows, topic' = topic PROVE UNCHANGED Bus!busVars
    BY <1>3 DEF Bus!busVars, Length
<1>4. ASSUME NEW p \in Relays, Fetch(p) \/ Mark(p) \/ Crash(p) PROVE UNCHANGED Bus!busVars
    BY <1>3, <1>4 DEF Fetch, Mark, Crash
<1>5. CASE UNCHANGED vars
    BY <1>3, <1>5 DEF vars
<1> QED BY <1>1, <1>2, <1>4, <1>5 DEF Next, RunOnce

\* However many relays run, however short the batches and wherever they crash, the topic
\* is what EventBus promises its consumers (relay.py:1-5).
THEOREM RelaysImplementEventBus == Spec => ImplementsEventBus
BY InitRefines, StepRefines, Invariance, PTL DEF Spec, ImplementsEventBus, Bus!BusSpec
=============================================================================
