---------------------------- MODULE NotifierProofs ----------------------------
(***************************************************************************)
(* Proofs about Notifier, for any number of claims, replicas and messages  *)
(* and, but for NothingIsLost, any number of crashes.  The argument is     *)
(* about statuses: a persisted claim stays persisted or settled whatever   *)
(* legal events follow (FinalStays), a message is notable only when its    *)
(* claim is persisted, and so every delivery is of such a claim, however   *)
(* old the message and however many replicas deliver it at once.           *)
(***************************************************************************)
EXTENDS Notifier, SequenceTheorems, FiniteSetTheorems, TLAPS

Final == {"PERSISTED"} \cup Settled

Busy(w) == handler[w].pc # "idle"

\* The offset committed, if there is one, is not ahead of the owner's position.
CommittedBehind == committed = {} \/ \E n \in 0..position : committed = {n}

TopicNamesEvents == \A m \in 1..Len(topic) : topic[m][2] \in 1..Len(log[topic[m][1]])

PersistedIsFinal == \A c \in Claims :
  (\E n \in 1..Len(log[c]) : log[c][n] = "CLAIM_PERSISTED") => row[c].status \in Final

\* Who is told is told of a final status, and the replay job retries settled claims.
DeliveriesFinal ==
  /\ \A w \in Workers : Busy(w) => row[handler[w].claim].status \in Final
  /\ \A c \in failed : row[c].status \in Settled

Accepted(c) == \E d \in accepted : d[1] = c

DeliveredAccepted ==
  \A w \in Workers : Busy(w) /\ handler[w].delivered => Accepted(handler[w].claim)

\* Everything but TypeOK that the steps keep
Facts == /\ CommittedBehind /\ TopicNamesEvents /\ PersistedIsFinal /\ DeliveriesFinal
         /\ DeliveredAccepted /\ NotifiedWasDelivered /\ TellsFinalStatus

Inv == TypeOK /\ Facts

-----------------------------------------------------------------------------
(* The statuses *)

LEMMA PlainType ==
  ASSUME NEW t \in EventType
  PROVE  Plain(t) \in Event /\ Plain(t).type = t
BY DEF Plain, Event, Decision

LEMMA ProjectType ==
  ASSUME NEW c \in Claim, NEW t \in EventType, Legal(c, Plain(t))
  PROVE  Project(c, Plain(t)) \in Claim
<1>1. EventStatus(t) \in ClaimStatus \cup {"ABSENT"}
  BY DEF EventStatus, ClaimStatus
<1> QED BY <1>1, PlainType DEF DecisionEvents, Project, Claim, ClaimStatus, Event, Decision

\* A claim that is persisted or settled stays so, and an outcome only gives way to NOTIFIED.
LEMMA FinalStays ==
  ASSUME NEW c \in Claim, NEW t \in EventType, Legal(c, Plain(t)), c.status \in Final
  PROVE  /\ Project(c, Plain(t)).status \in Final
         /\ c.status \in Settled => Project(c, Plain(t)).status \in {c.status, "NOTIFIED"}
<1>1. Plain(t).type = t /\ t # "CLAIM_RECEIVED"
  BY PlainType DEF Legal, Final, Settled
<1>2. EventStatus(t) \in {"ABSENT", c.status} \/ <<c.status, EventStatus(t)>> \in Allowed
  BY <1>1 DEF Legal
<1>3. /\ <<c.status, EventStatus(t)>> \in Allowed => EventStatus(t) \in Settled
      /\ <<c.status, EventStatus(t)>> \in Allowed /\ c.status \in Settled
           => EventStatus(t) = "NOTIFIED"
  BY DEF Allowed, Final, Settled
<1>4. Project(c, Plain(t)).status = IF EventStatus(t) = "ABSENT" THEN c.status ELSE EventStatus(t)
  BY <1>1 DEF Project
<1> QED BY <1>2, <1>3, <1>4 DEF Final, Settled

\* The status a claim gets from an event with a status of its own.
LEMMA StatusOf ==
  ASSUME NEW c, NEW t \in EventType \ {"CLAIM_RECEIVED"}
  PROVE  Project(c, Plain(t)).status = IF EventStatus(t) = "ABSENT" THEN c.status ELSE EventStatus(t)
BY PlainType DEF Project

LEMMA OutcomeType ==
  ASSUME NEW h
  PROVE  /\ Outcome(h) \in EventType \ {"CLAIM_RECEIVED"}
         /\ EventStatus(Outcome(h)) = IF h.delivered THEN "NOTIFIED" ELSE "NOTIFY_FAILED"
BY DEF Outcome, EventType, EventStatus

-----------------------------------------------------------------------------
LEMMA HandlerType ==
  ASSUME TypeOK, NEW w \in Workers
  PROVE  /\ Busy(w) <=> handler[w] # Idle
         /\ Busy(w) => /\ handler[w] \in Delivery
                       /\ handler[w].claim \in Claims /\ handler[w].id \in Nat
                       /\ handler[w].pc \in {"load", "post", "append"}
                       /\ handler[w].attempt \in 1..MaxAttempts
BY DEF TypeOK, Delivery, Idle, Busy

LEMMA TopicType ==
  ASSUME TypeOK
  PROVE  /\ Len(topic) \in Nat /\ position \in Nat
         /\ \A m \in 1..Len(topic) : topic[m][1] \in Claims /\ topic[m][2] \in Nat \ {0}
         /\ \A c \in Claims : Len(log[c]) \in Nat /\ log[c] \in Seq(EventType)
<1>1. topic \in Seq(Claims \X (Nat \ {0}))
  BY DEF TypeOK
<1>2. \A m \in 1..Len(topic) : topic[m] \in Claims \X (Nat \ {0})
  BY <1>1, ElementOfSeq
<1>3. Len(topic) \in Nat
  BY <1>1, LenProperties
<1>4. \A c \in Claims : log[c] \in Seq(EventType)
  BY DEF TypeOK
<1>5. \A c \in Claims : Len(log[c]) \in Nat
  BY <1>4, LenProperties
<1> QED BY <1>2, <1>3, <1>4, <1>5 DEF TypeOK

LEMMA OffsetType ==
  ASSUME NEW offset, NEW p \in Nat, offset = {} \/ \E n \in 0..p : offset = {n}
  PROVE  offset \subseteq 0..p /\ Cardinality(offset) <= 1
<1>1. Cardinality(offset) = 0 \/ Cardinality(offset) = 1
  BY FS_EmptySet, FS_Singleton
<1> QED BY <1>1

LEMMA InitInv == Init => Inv
<1> SUFFICES ASSUME Init PROVE Inv
  OBVIOUS
<1>1. \A w \in Workers : handler[w] = Idle /\ ~Busy(w)
  BY DEF Init, Idle, Busy
<1>2. /\ Plain("CLAIM_RECEIVED").type = "CLAIM_RECEIVED"
      /\ \A c \in Claims : row[c] \in Claim /\ row[c].status = "RECEIVED"
  BY DEF Init, Project, Plain, Claim, ClaimStatus, Decision
<1>3. row \in [Claims -> Claim]
  BY <1>2 DEF Init
<1>4. /\ log \in [Claims -> Seq(EventType)]
      /\ \A c \in Claims : Len(log[c]) = 1 /\ log[c][1] = "CLAIM_RECEIVED"
  BY DEF Init, EventType
<1>5. topic \in Seq(Claims \X (Nat \ {0})) /\ Len(topic) = 0
  BY EmptySeq DEF Init
<1>6. CommittedBehind /\ position = 0
  BY DEF Init, CommittedBehind
<1>7. committed \subseteq 0..position /\ Cardinality(committed) <= 1
  BY <1>6, OffsetType DEF CommittedBehind
<1>8. TypeOK
  BY <1>3, <1>4, <1>5, <1>6, <1>7 DEF Init, TypeOK
<1>9. TopicNamesEvents /\ PersistedIsFinal
  BY <1>4, <1>5 DEF TopicNamesEvents, PersistedIsFinal
<1>10. DeliveriesFinal /\ DeliveredAccepted /\ TellsFinalStatus
  BY <1>1 DEF Init, DeliveriesFinal, DeliveredAccepted, TellsFinalStatus, Idle
<1>11. NotifiedWasDelivered
  BY <1>2 DEF NotifiedWasDelivered
<1> QED BY <1>6, <1>8, <1>9, <1>10, <1>11 DEF Inv, Facts

-----------------------------------------------------------------------------
(* The channel and the consumer group *)

\* An event that moves a claim on keeps everything said of the deliveries.
LEMMA RowMoves ==
  ASSUME Inv, NEW c \in Claims, NEW t \in EventType, Legal(row[c], Plain(t)),
         row' = [row EXCEPT ![c] = Project(@, Plain(t))]
  PROVE  /\ row' \in [Claims -> Claim]
         /\ row'[c] = Project(row[c], Plain(t))
         /\ \A d \in Claims \ {c} : row'[d] = row[d]
         /\ \A d \in Claims : row[d].status \in Final => row'[d].status \in Final
         /\ \A d \in Claims : row[d].status \in Settled =>
              row'[d].status \in {row[d].status, "NOTIFIED"} /\ row'[d].status \in Settled
<1>1. row \in [Claims -> Claim]
  BY DEF Inv, TypeOK
<1>2. row'[c] = Project(row[c], Plain(t)) /\ \A d \in Claims \ {c} : row'[d] = row[d]
  BY <1>1
<1>3. row' \in [Claims -> Claim]
  BY <1>1, ProjectType
<1>4. row[c].status \in Settled => row[c].status \in Final
  BY DEF Final
<1>5. /\ row[c].status \in Final => row'[c].status \in Final
      /\ row[c].status \in Settled => row'[c].status \in {row[c].status, "NOTIFIED"}
  BY <1>1, <1>2, <1>4, FinalStays
<1> QED BY <1>2, <1>3, <1>5 DEF Settled

LEMMA WorkflowAppendsInv ==
  ASSUME Inv, NEW c \in Claims, NEW t \in WorkflowEvents, WorkflowAppends(c, t)
  PROVE  Inv'
<1>0. /\ TypeOK /\ Facts /\ t \in EventType \ {"CLAIM_RECEIVED", "CLAIM_NOTIFIED", "NOTIFY_FAILED"}
      /\ UNCHANGED <<topic, owner, position, committed, handler, failed, accepted, used>>
  BY NotifierAssumption DEF Inv, WorkflowAppends, group
<1>1. /\ row' \in [Claims -> Claim] /\ row'[c] = Project(row[c], Plain(t))
      /\ \A d \in Claims \ {c} : row'[d] = row[d]
      /\ \A d \in Claims : row[d].status \in Final => row'[d].status \in Final
      /\ \A d \in Claims : row[d].status \in Settled => row'[d].status \in Settled
  BY <1>0, RowMoves DEF WorkflowAppends
<1>2. /\ log[c] \in Seq(EventType) /\ Len(log[c]) \in Nat
      /\ log' = [log EXCEPT ![c] = Append(log[c], t)]
  BY <1>0, TopicType DEF WorkflowAppends
<1>3. /\ log'[c] \in Seq(EventType) /\ Len(log'[c]) = Len(log[c]) + 1
      /\ log'[c][Len(log[c]) + 1] = t /\ \A n \in 1..Len(log[c]) : log'[c][n] = log[c][n]
  BY <1>0, <1>2, AppendProperties DEF TypeOK
<1>4. log' \in [Claims -> Seq(EventType)] /\ \A d \in Claims \ {c} : log'[d] = log[d]
  BY <1>0, <1>2, <1>3 DEF TypeOK
<1>5. TypeOK'
  BY <1>0, <1>1, <1>4 DEF TypeOK
<1>6. TopicNamesEvents'
  <2> SUFFICES ASSUME NEW m \in 1..Len(topic)
               PROVE  topic[m][2] \in 1..Len(log'[topic[m][1]])
    BY <1>0 DEF TopicNamesEvents
  <2>1. topic[m][1] \in Claims /\ topic[m][2] \in 1..Len(log[topic[m][1]])
    BY <1>0, TopicType DEF Facts, TopicNamesEvents
  <2> QED BY <1>2, <1>3, <1>4, <2>1
<1>7. PersistedIsFinal'
  <2> SUFFICES ASSUME NEW d \in Claims, NEW n \in 1..Len(log'[d]), log'[d][n] = "CLAIM_PERSISTED"
               PROVE  row'[d].status \in Final
    BY DEF PersistedIsFinal
  <2>1. CASE d = c /\ n = Len(log[c]) + 1
    <3>1. t = "CLAIM_PERSISTED"
      BY <1>3, <2>1
    <3>2. row'[c].status = "PERSISTED"
      BY <1>0, <1>1, <3>1, StatusOf DEF EventStatus
    <3> QED BY <2>1, <3>2 DEF Final
  <2>2. CASE ~(d = c /\ n = Len(log[c]) + 1)
    <3>1. n \in 1..Len(log[d]) /\ log[d][n] = "CLAIM_PERSISTED"
      BY <1>2, <1>3, <1>4, <2>2
    <3> QED BY <1>0, <1>1, <3>1 DEF Facts, PersistedIsFinal
  <2> QED BY <2>1, <2>2
<1>8. DeliveriesFinal'
  <2>1. failed \subseteq Claims
    BY <1>0 DEF TypeOK
  <2> QED BY <1>0, <1>1, <2>1, HandlerType DEF Facts, DeliveriesFinal, Busy
<1>9. NotifiedWasDelivered'
  <2>1. row'[c].status = "NOTIFIED" => row[c].status = "NOTIFIED"
    BY <1>0, <1>1, StatusOf DEF EventStatus, EventType
  <2> QED BY <1>0, <1>1, <2>1 DEF Facts, NotifiedWasDelivered
<1> QED BY <1>0, <1>5, <1>6, <1>7, <1>8, <1>9 DEF Inv, Facts, CommittedBehind, DeliveredAccepted,
           Accepted, Busy, TellsFinalStatus

LEMMA RelayPublishesInv ==
  ASSUME Inv, NEW c \in Claims, NEW n \in 1..MaxEvents, RelayPublishes(c, n)
  PROVE  Inv'
<1>0. /\ TypeOK /\ Facts
      /\ UNCHANGED <<row, log, owner, position, committed, handler, failed, accepted>>
      /\ n \in 1..Len(log[c]) /\ topic' = Append(topic, <<c, n>>)
  BY DEF Inv, RelayPublishes, Bus!Publication, Bus!Publishable, group
<1>1. used' \in [Bounds -> Nat]
  BY <1>0 DEF RelayPublishes, Use, TypeOK, Bounds
<1>2. /\ topic \in Seq(Claims \X (Nat \ {0})) /\ Len(topic) \in Nat /\ position \in Nat
      /\ n \in Nat \ {0}
  BY <1>0, TopicType DEF TypeOK
<1>3. /\ topic' \in Seq(Claims \X (Nat \ {0})) /\ Len(topic') = Len(topic) + 1
      /\ topic'[Len(topic) + 1] = <<c, n>> /\ \A m \in 1..Len(topic) : topic'[m] = topic[m]
  BY <1>0, <1>2, AppendProperties
<1>4. position' \in 0..Len(topic')
  BY <1>0, <1>2, <1>3 DEF TypeOK
<1>5. TypeOK'
  BY <1>0, <1>1, <1>3, <1>4 DEF TypeOK
<1>6. TopicNamesEvents'
  <2> SUFFICES ASSUME NEW m \in 1..Len(topic')
               PROVE  topic'[m][2] \in 1..Len(log[topic'[m][1]])
    BY <1>0 DEF TopicNamesEvents
  <2>1. CASE m = Len(topic) + 1
    BY <1>0, <1>3, <2>1
  <2>2. CASE m # Len(topic) + 1
    BY <1>0, <1>2, <1>3, <2>2 DEF Facts, TopicNamesEvents
  <2> QED BY <2>1, <2>2
<1> QED BY <1>0, <1>5, <1>6 DEF Inv, Facts, CommittedBehind, PersistedIsFinal, DeliveriesFinal,
           DeliveredAccepted, Accepted, NotifiedWasDelivered, Busy, TellsFinalStatus

\* What the consumer group does around its deliveries: a delivery may be dropped.
LEMMA GroupInv ==
  ASSUME Inv, UNCHANGED <<row, log, topic, failed, accepted>>,
         handler' \in [Workers -> Delivery \cup {Idle}],
         \A w \in Workers : handler'[w] \in {handler[w], Idle},
         owner' \in Replicas \cup {"nobody"}, position' \in 0..Len(topic), CommittedBehind',
         used' \in [Bounds -> Nat]
  PROVE  Inv'
<1>1. position' \in Nat
  BY TopicType DEF Inv
<1>2. (committed \subseteq 0..position /\ Cardinality(committed) <= 1)'
  BY <1>1, OffsetType DEF CommittedBehind
<1>3. TypeOK'
  BY <1>2 DEF Inv, TypeOK
<1>4. \A w \in Workers : Busy(w)' => Busy(w) /\ handler'[w] = handler[w]
  BY DEF Busy, Idle
<1>5. \A w \in Workers : handler'[w].pc \in {"post", "append"} => handler'[w] = handler[w]
  BY DEF Idle
<1> QED BY <1>3, <1>4, <1>5 DEF Inv, Facts, TopicNamesEvents, PersistedIsFinal, DeliveriesFinal,
           DeliveredAccepted, Accepted, NotifiedWasDelivered, TellsFinalStatus

\* Where a replica starts is not ahead of the topic, nor behind the committed offset.
LEMMA Resuming ==
  ASSUME Inv, NEW offset, NEW p \in ResumesAt(offset), offset \in {committed, {position}}
  PROVE  /\ p \in 0..Len(topic)
         /\ offset = {} \/ \E n \in 0..p : offset = {n}
<1>1. /\ Len(topic) \in Nat /\ position \in 0..Len(topic) /\ position \in Nat
      /\ offset = {} \/ \E n \in 0..position : offset = {n}
  <2>1. /\ Len(topic) \in Nat /\ position \in 0..Len(topic) /\ position \in Nat
    BY TopicType DEF Inv, TypeOK
  <2>2. committed = {} \/ \E n \in 0..position : committed = {n}
    BY DEF Inv, Facts, CommittedBehind
  <2>3. position \in 0..position
    BY <2>1
  <2> QED BY <2>1, <2>2, <2>3
<1>2. CASE offset = {}
  BY <1>1, <1>2 DEF ResumesAt
<1>3. ASSUME NEW n \in 0..position, offset = {n} PROVE p = n /\ n \in 0..n /\ n \in 0..Len(topic)
  BY <1>1, <1>3 DEF ResumesAt
<1> QED BY <1>1, <1>2, <1>3

LEMMA ReceiveInv ==
  ASSUME Inv, NEW w \in Replicas, Receive(w)
  PROVE  Inv'
<1> DEFINE m == position + 1
<1>0. /\ TypeOK /\ Facts /\ w \in Workers /\ handler[w] = Idle
      /\ UNCHANGED <<row, log, topic, owner, committed, failed, accepted, used>>
      /\ position' = m
  BY DEF Inv, Receive, channel, Workers
<1>1. m \in 1..Len(topic) /\ position \in Nat /\ Len(topic) \in Nat
  BY <1>0, TopicType DEF Receive, TypeOK
<1>2. CommittedBehind'
  BY <1>0, <1>1 DEF Facts, CommittedBehind
<1>3. topic[m][1] \in Claims /\ topic[m][2] \in Nat /\ topic[m][2] \in 1..Len(log[topic[m][1]])
  BY <1>0, <1>1, TopicType DEF Facts, TopicNamesEvents
<1>4. CASE ~Notable(TypeAt(m))
  <2>1. handler' = handler
    BY <1>4 DEF Receive
  <2>2. position' \in 0..Len(topic)
    BY <1>0, <1>1
  <2> QED BY <1>0, <1>2, <2>1, <2>2, GroupInv DEF TypeOK
<1>5. CASE Notable(TypeAt(m))
  <2> DEFINE c == topic[m][1]
             d == Begin(c, topic[m][2])
  <2>1. handler' = [handler EXCEPT ![w] = d]
    BY <1>5 DEF Receive
  <2>2. /\ d \in Delivery /\ d.pc = "load" /\ d.claim = c /\ d.delivered = FALSE
    BY <1>3, NotifierAssumption DEF Begin, Delivery, Decision
  <2>3. row[c].status \in Final
    BY <1>0, <1>3, <1>5 DEF Notable, TypeAt, Facts, PersistedIsFinal
  <2> HIDE DEF c, d, m
  <2>4. handler'[w] = d /\ \A v \in Workers \ {w} : handler'[v] = handler[v]
    BY <1>0, <2>1 DEF TypeOK
  <2>5. TypeOK'
    <3>1. position' \in 0..Len(topic) /\ position' \in Nat
      BY <1>0, <1>1
    <3>2. (committed \subseteq 0..position /\ Cardinality(committed) <= 1)'
      BY <1>2, <3>1, OffsetType DEF CommittedBehind
    <3>3. handler' \in [Workers -> Delivery \cup {Idle}]
      BY <1>0, <2>1, <2>2 DEF TypeOK
    <3> QED BY <1>0, <3>1, <3>2, <3>3 DEF TypeOK
  <2>6. DeliveriesFinal' /\ DeliveredAccepted' /\ TellsFinalStatus'
    BY <1>0, <2>2, <2>3, <2>4 DEF Facts, DeliveriesFinal, DeliveredAccepted, Accepted,
                                 TellsFinalStatus, Busy
  <2> QED BY <1>0, <1>2, <2>5, <2>6 DEF Inv, Facts, TopicNamesEvents, PersistedIsFinal,
                                       NotifiedWasDelivered
<1> QED BY <1>4, <1>5

LEMMA GroupStepInv ==
  ASSUME Inv, AutoCommit \/ \E w \in Replicas : Assign(w) \/ Crash(w) \/ Rebalance(w)
  PROVE  Inv'
<1>0. /\ TypeOK /\ position \in Nat /\ Replicas \subseteq Workers /\ CommittedBehind
      /\ position \in 0..position
  BY TopicType DEF Inv, Workers, Facts
<1>1. CASE AutoCommit
  <2>1. CommittedBehind'
    BY <1>0, <1>1 DEF AutoCommit, CommittedBehind
  <2> QED BY <1>0, <1>1, <2>1, GroupInv DEF AutoCommit, TypeOK, channel
<1>2. ASSUME NEW w \in Replicas, Assign(w) PROVE Inv'
  <2>1. position' \in 0..Len(topic) /\ CommittedBehind'
    BY <1>2, Resuming DEF Assign, CommittedBehind
  <2> QED BY <1>0, <1>2, <2>1, GroupInv DEF Assign, TypeOK, channel
<1>3. ASSUME NEW w \in Replicas, Rebalance(w) PROVE Inv'
  <2>1. position' \in 0..Len(topic) /\ CommittedBehind'
    BY <1>3, Resuming DEF Rebalance, CommittedBehind
  <2>2. used' \in [Bounds -> Nat]
    BY <1>0, <1>3 DEF Rebalance, Use, TypeOK, Bounds
  <2> QED BY <1>0, <1>3, <2>1, <2>2, GroupInv DEF Rebalance, TypeOK, channel
<1>4. ASSUME NEW w \in Replicas, Crash(w) PROVE Inv'
  <2>1. /\ owner' \in Replicas \cup {"nobody"}
        /\ position' \in 0..Len(topic) /\ CommittedBehind'
    <3>1. CASE w = owner
      BY <1>4, <3>1, Resuming DEF Crash, CommittedBehind
    <3>2. CASE w # owner
      BY <1>0, <1>4, <3>2 DEF Crash, CommittedBehind, TypeOK, group
    <3> QED BY <3>1, <3>2
  <2>2. used' \in [Bounds -> Nat]
    BY <1>0, <1>4 DEF Crash, Use, TypeOK, Bounds
  <2>3. /\ handler' \in [Workers -> Delivery \cup {Idle}]
        /\ \A v \in Workers : handler'[v] \in {handler[v], Idle}
    BY <1>0, <1>4 DEF Crash, TypeOK
  <2> QED BY <1>4, <2>1, <2>2, <2>3, GroupInv DEF Crash, channel
<1> QED BY <1>1, <1>2, <1>3, <1>4

-----------------------------------------------------------------------------
(* A delivery, on a replica or in the replay job *)

\* A step of w's delivery that leaves the rows alone: it goes on, or is dropped.
LEMMA DeliveryInv ==
  ASSUME Inv, NEW w \in Workers, UNCHANGED <<row, log, topic, position, used>>,
         owner' \in Replicas \cup {"nobody"}, CommittedBehind', failed' \subseteq failed,
         accepted \subseteq accepted', accepted' \subseteq Claims \X Nat,
         NEW h, handler' = [handler EXCEPT ![w] = h],
         \/ h = Idle
         \/ /\ Busy(w) /\ h \in Delivery /\ h.claim = handler[w].claim
            /\ h.pc # "load" => h.status \in Final
            /\ h.delivered => Accepted(h.claim)'
  PROVE  Inv'
<1>0. TypeOK /\ Facts /\ position \in Nat
  BY TopicType DEF Inv
<1>1. h \in Delivery \cup {Idle}
  OBVIOUS
<1>2. handler'[w] = h /\ \A v \in Workers \ {w} : handler'[v] = handler[v]
  BY <1>0 DEF TypeOK
<1>3. handler' \in [Workers -> Delivery \cup {Idle}]
  BY <1>0, <1>1 DEF TypeOK
<1>4. (committed \subseteq 0..position /\ Cardinality(committed) <= 1)'
  BY <1>0, OffsetType DEF CommittedBehind
<1>5. TypeOK'
  BY <1>0, <1>3, <1>4 DEF TypeOK
<1>6. DeliveriesFinal'
  BY <1>0, <1>2 DEF Facts, DeliveriesFinal, Busy, Idle
<1>7. DeliveredAccepted'
  <2>1. \A c : Accepted(c) => Accepted(c)'
    BY DEF Accepted
  <2> QED BY <1>0, <1>2, <2>1 DEF Facts, DeliveredAccepted, Busy, Idle
<1>8. TellsFinalStatus'
  BY <1>0, <1>2 DEF Facts, TellsFinalStatus, Final, Idle
<1>9. NotifiedWasDelivered'
  BY <1>0 DEF Facts, NotifiedWasDelivered
<1> QED BY <1>0, <1>5, <1>6, <1>7, <1>8, <1>9 DEF Inv, Facts, TopicNamesEvents, PersistedIsFinal

LEMMA LoadInv ==
  ASSUME Inv, NEW w \in Workers, Load(w)
  PROVE  Inv'
<1> PICK d, c : d = handler[w] /\ c = handler[w].claim
  OBVIOUS
<1> PICK h : h = [d EXCEPT !.pc = "post", !.status = row[c].status,
                           !.decision = row[c].decision]
  OBVIOUS
<1>0. /\ TypeOK /\ Facts /\ Busy(w) /\ handler[w].pc = "load"
      /\ UNCHANGED <<row, log, topic, owner, position, committed, failed, accepted, used>>
  BY DEF Inv, Load, Busy, channel, group
<1>1. d \in Delivery /\ c \in Claims
  BY <1>0, HandlerType
<1>2. row[c] \in Claim /\ row[c].status \in Final
  BY <1>0, <1>1 DEF TypeOK, Facts, DeliveriesFinal
<1>3. h \in Delivery /\ h.claim = c /\ h.status = row[c].status /\ h.delivered = d.delivered
  BY <1>1, <1>2 DEF Delivery, Claim
<1>4. handler' = [handler EXCEPT ![w] = h]
  BY <1>0, <1>1 DEF Load, TypeOK
<1>5. h.delivered => Accepted(c)'
  BY <1>0, <1>3 DEF Facts, DeliveredAccepted, Accepted
<1> QED BY <1>0, <1>2, <1>3, <1>4, <1>5, DeliveryInv DEF Facts, CommittedBehind, TypeOK

LEMMA PostInv ==
  ASSUME Inv, NEW w \in Workers, PostSucceeds(w) \/ PostFails(w)
  PROVE  Inv'
<1> PICK d : d = handler[w]
  OBVIOUS
<1>0. /\ TypeOK /\ Facts /\ Busy(w) /\ d.pc = "post"
      /\ UNCHANGED <<row, log, topic, owner, position, committed, failed, used>>
  BY DEF Inv, PostSucceeds, PostFails, Busy, channel, group
<1>1. d \in Delivery /\ d.claim \in Claims /\ d.id \in Nat /\ d.attempt \in 1..MaxAttempts
  BY <1>0, HandlerType
<1>2. /\ accepted' \in {accepted, accepted \cup {Webhook(w)}}
      /\ accepted \subseteq Claims \X Nat /\ Webhook(w) \in Claims \X Nat
  BY <1>0, <1>1 DEF PostSucceeds, PostFails, Webhook, TypeOK
<1>3. d.status \in Final
  BY <1>0 DEF Facts, TellsFinalStatus, Final
<1>4. d.delivered => Accepted(d.claim)
  BY <1>0 DEF Facts, DeliveredAccepted
<1>5. \E h : /\ handler' = [handler EXCEPT ![w] = h]
             /\ h \in Delivery /\ h.claim = d.claim /\ h.status = d.status
             /\ h.delivered => Accepted(h.claim)'
  <2>1. CASE PostSucceeds(w)
    <3> DEFINE h == [d EXCEPT !.pc = "append", !.delivered = TRUE]
    <3>1. handler' = [handler EXCEPT ![w] = h]
      BY <1>0, <2>1 DEF PostSucceeds, TypeOK
    <3>2. h \in Delivery /\ h.claim = d.claim /\ h.status = d.status
      BY <1>1 DEF Delivery
    <3>3. Accepted(d.claim)'
      <4>1. Webhook(w) \in accepted' /\ Webhook(w)[1] = d.claim
        BY <2>1 DEF PostSucceeds, Webhook
      <4> QED BY <4>1 DEF Accepted
    <3> HIDE DEF h
    <3> QED BY <3>1, <3>2, <3>3
  <2>2. CASE PostFails(w) /\ MayRetry(d)
    <3> DEFINE h == [d EXCEPT !.attempt = d.attempt + 1]
    <3>1. handler' = [handler EXCEPT ![w] = h]
      BY <1>0, <2>2 DEF PostFails, TypeOK
    <3>2. d.attempt + 1 \in 1..MaxAttempts
      BY <1>1, <2>2, NotifierAssumption DEF MayRetry
    <3>3. /\ h \in Delivery /\ h.claim = d.claim /\ h.status = d.status
          /\ h.delivered = d.delivered
      BY <1>1, <3>2 DEF Delivery
    <3>4. h.delivered => Accepted(h.claim)'
      BY <1>2, <1>4, <3>3 DEF Accepted
    <3> HIDE DEF h
    <3> QED BY <3>1, <3>3, <3>4
  <2>3. CASE PostFails(w) /\ ~MayRetry(d)
    <3> DEFINE h == [d EXCEPT !.pc = "append"]
    <3>1. handler' = [handler EXCEPT ![w] = h]
      BY <1>0, <2>3 DEF PostFails, TypeOK
    <3>2. /\ h \in Delivery /\ h.claim = d.claim /\ h.status = d.status
          /\ h.delivered = d.delivered
      BY <1>1 DEF Delivery
    <3>3. h.delivered => Accepted(h.claim)'
      BY <1>2, <1>4, <3>2 DEF Accepted
    <3> HIDE DEF h
    <3> QED BY <3>1, <3>2, <3>3
  <2> QED BY <2>1, <2>2, <2>3
<1>6. accepted \subseteq accepted' /\ accepted' \subseteq Claims \X Nat
  BY <1>2
<1> QED BY <1>0, <1>3, <1>5, <1>6, DeliveryInv DEF Facts, CommittedBehind, TypeOK

LEMMA RefusedInv ==
  ASSUME Inv, NEW w \in Workers, Refused(w)
  PROVE  Inv'
<1>0. TypeOK /\ Facts /\ position \in 0..position
  BY TopicType DEF Inv
<1>1. owner' \in Replicas \cup {"nobody"} /\ CommittedBehind'
  BY <1>0 DEF Refused, Facts, CommittedBehind, TypeOK
<1> QED BY <1>0, <1>1, DeliveryInv DEF Refused, TypeOK, channel

LEMMA ConcludeInv ==
  ASSUME Inv, NEW w \in Workers, Conclude(w)
  PROVE  Inv'
<1> DEFINE c == handler[w].claim
           t == Outcome(handler[w])
<1>0. /\ TypeOK /\ Facts /\ Busy(w) /\ handler[w].pc = "append" /\ Legal(row[c], Plain(t))
      /\ UNCHANGED <<log, topic, owner, position, committed, accepted, used>>
      /\ row' = [row EXCEPT ![c] = Project(@, Plain(t))]
      /\ handler' = [handler EXCEPT ![w] = Idle] /\ failed' \subseteq failed
  BY DEF Inv, Conclude, Concluded, Busy, channel, group
<1>1. c \in Claims /\ t \in EventType \ {"CLAIM_RECEIVED"}
  BY <1>0, HandlerType, OutcomeType
<1> HIDE DEF t
<1>2. /\ row' \in [Claims -> Claim] /\ row'[c] = Project(row[c], Plain(t))
      /\ \A d \in Claims \ {c} : row'[d] = row[d]
      /\ \A d \in Claims : row[d].status \in Final => row'[d].status \in Final
      /\ \A d \in Claims : row[d].status \in Settled => row'[d].status \in Settled
  BY <1>0, <1>1, RowMoves
<1>3. handler'[w] = Idle /\ \A v \in Workers \ {w} : handler'[v] = handler[v]
  BY <1>0 DEF TypeOK
<1>4. handler' \in [Workers -> Delivery \cup {Idle}] /\ failed \subseteq Claims
  BY <1>0 DEF TypeOK
<1>5. TypeOK'
  BY <1>0, <1>2, <1>4 DEF TypeOK
<1>6. PersistedIsFinal'
  BY <1>0, <1>2 DEF Facts, PersistedIsFinal
<1>7. DeliveriesFinal'
  BY <1>0, <1>2, <1>3, <1>4, HandlerType DEF Facts, DeliveriesFinal, Busy, Idle
<1>8. DeliveredAccepted' /\ TellsFinalStatus'
  BY <1>0, <1>3 DEF Facts, DeliveredAccepted, TellsFinalStatus, Accepted, Busy, Idle
<1>9. NotifiedWasDelivered'
  <2>1. ASSUME row'[c].status = "NOTIFIED" PROVE row[c].status = "NOTIFIED" \/ Accepted(c)
    <3>1. handler[w].delivered => Accepted(c)
      BY <1>0 DEF Facts, DeliveredAccepted
    <3>2. ~handler[w].delivered => EventStatus(t) = "NOTIFY_FAILED"
      BY OutcomeType DEF t
    <3> QED BY <1>1, <1>2, <2>1, <3>1, <3>2, StatusOf
  <2> QED BY <1>0, <1>1, <1>2, <2>1 DEF Facts, NotifiedWasDelivered, Accepted
<1> QED BY <1>0, <1>5, <1>6, <1>7, <1>8, <1>9 DEF Inv, Facts, CommittedBehind, TopicNamesEvents

LEMMA ReplayInv ==
  ASSUME Inv, Replay
  PROVE  Inv'
<1>0. /\ TypeOK /\ Facts
      /\ UNCHANGED <<row, log, topic, owner, position, committed, handler, accepted>>
      /\ failed' = {c \in Claims : row[c].status = "NOTIFY_FAILED"}
  BY DEF Inv, Replay, channel, group
<1>1. used' \in [Bounds -> Nat]
  BY <1>0 DEF Replay, Use, TypeOK, Bounds
<1>2. TypeOK'
  BY <1>0, <1>1 DEF TypeOK
<1>3. DeliveriesFinal'
  BY <1>0 DEF Facts, DeliveriesFinal, Settled, Busy
<1> QED BY <1>0, <1>2, <1>3 DEF Inv, Facts, CommittedBehind, TopicNamesEvents, PersistedIsFinal,
           DeliveredAccepted, Accepted, NotifiedWasDelivered, Busy, TellsFinalStatus

LEMMA ReplayNextInv ==
  ASSUME Inv, NEW c \in Claims, ReplayNext(c)
  PROVE  Inv'
<1> DEFINE d == Begin(c, 0)
<1>0. /\ TypeOK /\ Facts /\ handler["replay"] = Idle /\ "replay" \in Workers
      /\ UNCHANGED <<row, log, topic, owner, position, committed, failed, accepted, used>>
      /\ handler' = [handler EXCEPT !["replay"] = d] /\ row[c].status \in Final
  BY DEF Inv, ReplayNext, channel, group, Workers, Facts, DeliveriesFinal, Final
<1>1. d \in Delivery /\ d.claim = c /\ d.pc = "load" /\ d.delivered = FALSE
  BY NotifierAssumption DEF Begin, Delivery, Decision
<1> HIDE DEF d
<1>2. handler'["replay"] = d /\ \A v \in Workers \ {"replay"} : handler'[v] = handler[v]
  BY <1>0 DEF TypeOK
<1>3. TypeOK'
  BY <1>0, <1>1 DEF TypeOK
<1>4. DeliveriesFinal' /\ DeliveredAccepted' /\ TellsFinalStatus'
  BY <1>0, <1>1, <1>2 DEF Facts, DeliveriesFinal, DeliveredAccepted, Accepted, TellsFinalStatus,
                          Busy
<1> QED BY <1>0, <1>3, <1>4 DEF Inv, Facts, CommittedBehind, TopicNamesEvents, PersistedIsFinal,
           NotifiedWasDelivered

LEMMA NextInv == Inv /\ [Next]_vars => Inv'
<1> SUFFICES ASSUME Inv, [Next]_vars PROVE Inv'
  OBVIOUS
<1>1. CASE \E c \in Claims, t \in WorkflowEvents : WorkflowAppends(c, t)
  BY <1>1, WorkflowAppendsInv
<1>2. CASE \E c \in Claims, n \in 1..MaxEvents : RelayPublishes(c, n)
  BY <1>2, RelayPublishesInv
<1>3. CASE Replay \/ \E c \in Claims : ReplayNext(c)
  BY <1>3, ReplayInv, ReplayNextInv
<1>4. CASE AutoCommit \/ \E w \in Replicas : Assign(w) \/ Crash(w) \/ Rebalance(w)
  BY <1>4, GroupStepInv
<1>5. CASE \E w \in Replicas : Receive(w)
  BY <1>5, ReceiveInv
<1>6. CASE \E w \in Workers : Notify(w)
  BY <1>6, LoadInv, PostInv, ConcludeInv, RefusedInv DEF Notify
<1>7. CASE UNCHANGED vars
  BY <1>7 DEF vars, channel, group, Inv, TypeOK, Facts, CommittedBehind, TopicNamesEvents,
              PersistedIsFinal, DeliveriesFinal, DeliveredAccepted, Accepted, NotifiedWasDelivered,
              Busy, TellsFinalStatus
<1> QED BY <1>1, <1>2, <1>3, <1>4, <1>5, <1>6, <1>7 DEF Next

LEMMA Invariance == Spec => []Inv
BY InitInv, NextInv, PTL DEF Spec

\* Type correctness, for any number of claims, replicas, messages, crashes and replays.
THEOREM TypeCorrect == Spec => []TypeOK
<1>1. Inv => TypeOK
  BY DEF Inv
<1> QED BY Invariance, <1>1, PTL

\* A claim shown NOTIFIED has had a webhook accepted, however often its message is
\* delivered, dropped by a crash or retried by the replay job.
THEOREM DeliveredFirst == Spec => []NotifiedWasDelivered
<1>1. Inv => NotifiedWasDelivered
  BY DEF Inv, Facts
<1> QED BY Invariance, <1>1, PTL

\* No payload ever carries a status before PERSISTED.
THEOREM FinalIsTold == Spec => []TellsFinalStatus
<1>1. Inv => TellsFinalStatus
  BY DEF Inv, Facts
<1> QED BY Invariance, <1>1, PTL

-----------------------------------------------------------------------------
(* Outcomes stand, and nothing is lost *)

\* Rows change by legal events only.
LEMMA RowChange ==
  ASSUME Inv, [Next]_vars
  PROVE  \/ row' = row
         \/ \E c \in Claims, t \in EventType :
              Legal(row[c], Plain(t)) /\ row' = [row EXCEPT ![c] = Project(@, Plain(t))]
<1>1. CASE \E c \in Claims, t \in WorkflowEvents : WorkflowAppends(c, t)
  BY <1>1, NotifierAssumption DEF WorkflowAppends
<1>2. ASSUME NEW w \in Workers, Conclude(w)
      PROVE  \E c \in Claims, t \in EventType :
               Legal(row[c], Plain(t)) /\ row' = [row EXCEPT ![c] = Project(@, Plain(t))]
  <2>1. handler[w].claim \in Claims /\ Outcome(handler[w]) \in EventType
    BY <1>2, HandlerType, OutcomeType DEF Conclude, Inv, Busy
  <2> QED BY <1>2, <2>1 DEF Conclude, Concluded
<1>3. CASE UNCHANGED row
  BY <1>3
<1> QED BY <1>1, <1>2, <1>3 DEF Next, Notify, RelayPublishes, Receive, Assign, AutoCommit, Crash,
           Rebalance, Load, PostSucceeds, PostFails, Refused, Replay, ReplayNext, vars

LEMMA StatusesStand ==
  ASSUME Inv, [Next]_vars, NEW c \in Claims, row[c].status \in Settled
  PROVE  row'[c].status \in {row[c].status, "NOTIFIED"} /\ row'[c].status \in Settled
BY RowChange, RowMoves

\* Whatever is delivered again, and fails, after it: NOTIFIED is final, and NOTIFY_FAILED
\* gives way to NOTIFIED alone.
THEOREM OutcomeFinal == Spec => OutcomeStands
<1>1. Inv /\ [Next]_vars => [\A c \in Claims : row[c].status \in Settled =>
                               row'[c].status \in {row[c].status, "NOTIFIED"}]_vars
  BY StatusesStand
<1> QED BY <1>1, Invariance, PTL DEF Spec, OutcomeStands

\* What the code promises when no replica dies and the group has committed before: the
\* position never moves back behind a message or past one.
NoneDies == MaxCrashes = 0 /\ ~GroupIsNew

InHand(c) == \E w \in Replicas : Busy(w) /\ handler[w].claim = c

HeldOrSettled == \A m \in 1..position :
  TypeAt(m) = "CLAIM_PERSISTED" => row[topic[m][1]].status \in Settled \/ InHand(topic[m][1])

LostInv == committed # {} /\ HeldOrSettled

LEMMA LostInit == NoneDies /\ Init => LostInv
<1> SUFFICES ASSUME NoneDies, Init PROVE LostInv
  OBVIOUS
<1> QED BY DEF NoneDies, Init, LostInv, HeldOrSettled

\* A message that was taken stays the message it was.
LEMMA MessagesStay ==
  ASSUME Inv, [Next]_vars, NEW m \in 1..Len(topic)
  PROVE  topic'[m] = topic[m] /\ TypeAt(m)' = TypeAt(m) /\ topic[m][1] \in Claims
<1>0. /\ TypeOK /\ topic[m][1] \in Claims /\ topic[m][2] \in 1..Len(log[topic[m][1]])
      /\ topic \in Seq(Claims \X (Nat \ {0})) /\ \A c \in Claims : log[c] \in Seq(EventType)
  BY TopicType DEF Inv, Facts, TopicNamesEvents, TypeOK
<1>1. CASE UNCHANGED <<log, topic>>
  BY <1>0, <1>1 DEF TypeAt
<1>2. ASSUME NEW c \in Claims, NEW n \in 1..MaxEvents, RelayPublishes(c, n)
      PROVE  topic'[m] = topic[m] /\ TypeAt(m)' = TypeAt(m)
  <2>1. topic' = Append(topic, <<c, n>>) /\ log' = log /\ n \in 1..Len(log[c])
    BY <1>2 DEF RelayPublishes, Bus!Publication, Bus!Publishable
  <2>2. <<c, n>> \in Claims \X (Nat \ {0})
    BY <1>0, <2>1, TopicType
  <2>3. topic'[m] = topic[m]
    BY <1>0, <2>1, <2>2, AppendProperties
  <2> QED BY <2>1, <2>3 DEF TypeAt
<1>3. ASSUME NEW c \in Claims, NEW t \in WorkflowEvents, WorkflowAppends(c, t)
      PROVE  topic'[m] = topic[m] /\ TypeAt(m)' = TypeAt(m)
  <2>1. topic' = topic /\ log' = [log EXCEPT ![c] = Append(log[c], t)] /\ t \in EventType
    BY <1>3, NotifierAssumption DEF WorkflowAppends
  <2>2. log'[topic[m][1]][topic[m][2]] = log[topic[m][1]][topic[m][2]]
    <3>1. CASE topic[m][1] = c
      BY <1>0, <2>1, <3>1, AppendProperties DEF TypeOK
    <3>2. CASE topic[m][1] # c
      BY <1>0, <2>1, <3>2 DEF TypeOK
    <3> QED BY <3>1, <3>2
  <2> QED BY <2>1, <2>2 DEF TypeAt
<1> QED BY <1>0, <1>1, <1>2, <1>3 DEF Next, Notify, Receive, Assign, AutoCommit, Crash,
           Rebalance, Load, PostSucceeds, PostFails, Conclude, Refused, Replay, ReplayNext, vars,
           channel

\* The hand lets go of a claim only when its delivery ends, and then the claim is settled.
LEMMA HandLetsGo ==
  ASSUME Inv, [Next]_vars, MaxCrashes = 0, NEW c \in Claims, InHand(c)
  PROVE  InHand(c)' \/ row'[c].status \in Settled
<1> PICK w \in Replicas : Busy(w) /\ handler[w].claim = c
  BY DEF InHand
<1>0. TypeOK /\ Facts /\ w \in Workers /\ w # "replay" /\ row[c].status \in Final /\ row[c] \in Claim
  BY NotifierAssumption DEF Inv, Workers, Facts, DeliveriesFinal, TypeOK
<1>1. CASE handler'[w].pc # "idle" /\ handler'[w].claim = c
  BY <1>1 DEF InHand, Busy
<1>2. CASE Conclude(w)
  <2>1. /\ row'[c] = Project(row[c], Plain(Outcome(handler[w])))
        /\ EventStatus(Outcome(handler[w])) \in Settled
        /\ Outcome(handler[w]) \in EventType \ {"CLAIM_RECEIVED"}
    BY <1>0, <1>2, OutcomeType DEF Conclude, TypeOK, Settled
  <2> QED BY <2>1, StatusOf DEF Settled
<1>3. CASE Refused(w)
  <2>1. row[c].status # "PERSISTED"
    <3>1. /\ Plain(Outcome(handler[w])).type = Outcome(handler[w])
          /\ EventStatus(Outcome(handler[w])) \in Settled
          /\ Outcome(handler[w]) \in EventType \ {"CLAIM_RECEIVED"}
      BY OutcomeType, PlainType DEF Settled
    <3>2. ~Legal(row[c], Plain(Outcome(handler[w])))
      BY <1>3 DEF Refused, Concluded
    <3> QED BY <3>1, <3>2 DEF Legal, Allowed, Settled
  <2> QED BY <1>0, <1>3, <2>1 DEF Refused, Final
<1>4. CASE handler'[w] = handler[w]
  BY <1>1, <1>4 DEF Busy
<1>5. CASE Load(w) \/ PostSucceeds(w) \/ PostFails(w)
  <2>1. handler[w] \in Delivery /\ handler[w].claim = c
    BY <1>0, HandlerType
  <2>2. handler'[w].pc # "idle" /\ handler'[w].claim = c
    BY <1>0, <1>5, <2>1 DEF Load, PostSucceeds, PostFails, TypeOK, Delivery
  <2> QED BY <1>1, <2>2
<1>6. ASSUME NEW v \in Workers, Notify(v), v # w PROVE handler'[w] = handler[w]
  BY <1>0, <1>6 DEF Notify, Load, PostSucceeds, PostFails, Conclude, Refused, TypeOK
<1>7. ASSUME NEW v \in Replicas, Receive(v) PROVE handler'[w] = handler[w]
  <2>1. v # w
    BY <1>7 DEF Receive, Busy, Idle
  <2> QED BY <1>0, <1>7, <2>1 DEF Receive, TypeOK
<1>8. ASSUME NEW v \in Replicas, Crash(v) PROVE FALSE
  BY <1>0, <1>8 DEF Crash, Use, TypeOK, Bounds
<1>9. ASSUME NEW d \in Claims, ReplayNext(d) PROVE handler'[w] = handler[w]
  BY <1>0, <1>9 DEF ReplayNext, TypeOK
<1> QED BY <1>2, <1>3, <1>4, <1>5, <1>6, <1>7, <1>8, <1>9 DEF Next, Notify, WorkflowAppends,
           RelayPublishes, Assign, AutoCommit, Rebalance, Replay, vars

\* The position only goes on with a message in hand, and goes back to a committed offset.
LEMMA PositionMoves ==
  ASSUME Inv, [Next]_vars, NoneDies, committed # {}
  PROVE  /\ committed' # {}
         /\ \/ position' \in 0..position
            \/ /\ position' = position + 1 /\ position + 1 \in 1..Len(topic)
               /\ \E w \in Replicas : Receive(w)
<1>0. /\ TypeOK /\ position \in Nat /\ Len(topic) \in Nat /\ position \in 0..position
      /\ MaxCrashes = 0
  BY TopicType DEF Inv, NoneDies
<1>1. PICK n \in 0..position : committed = {n}
  BY DEF Inv, Facts, CommittedBehind
<1>2. ASSUME NEW w \in Replicas, Crash(w) PROVE FALSE
  BY <1>0, <1>2 DEF Crash, Use, TypeOK, Bounds
<1>3. ASSUME NEW w \in Replicas, Receive(w)
      PROVE  position' = position + 1 /\ position + 1 \in 1..Len(topic) /\ committed' = committed
  BY <1>0, <1>3 DEF Receive, TypeOK
<1>4. ASSUME NEW w \in Replicas, Assign(w) \/ Rebalance(w)
      PROVE  position' \in 0..position /\ committed' # {}
  BY <1>0, <1>1, <1>4 DEF Assign, Rebalance, ResumesAt
<1>5. CASE AutoCommit \/ \E w \in Workers : Refused(w)
  BY <1>0, <1>5 DEF AutoCommit, Refused
<1> QED BY <1>0, <1>2, <1>3, <1>4, <1>5 DEF Next, Notify, WorkflowAppends, RelayPublishes, Load,
           PostSucceeds, PostFails, Conclude, Replay, ReplayNext, vars, group

LEMMA LostNext == Inv /\ LostInv /\ NoneDies /\ [Next]_vars => LostInv'
<1> SUFFICES ASSUME Inv, LostInv, NoneDies, [Next]_vars,
                    NEW m \in 1..position', TypeAt(m)' = "CLAIM_PERSISTED"
             PROVE  (row[topic[m][1]].status \in Settled \/ InHand(topic[m][1]))'
  BY PositionMoves DEF LostInv, HeldOrSettled
<1>0. TypeOK /\ position \in Nat /\ position \in 0..Len(topic) /\ Len(topic) \in Nat
  BY TopicType DEF Inv, TypeOK
<1>1. CASE m \in 1..position
  <2> PICK c : c = topic[m][1]
    OBVIOUS
  <2>1. topic'[m] = topic[m] /\ TypeAt(m) = "CLAIM_PERSISTED" /\ c \in Claims
    BY <1>0, <1>1, MessagesStay
  <2>2. row[c].status \in Settled \/ InHand(c)
    BY <1>1, <2>1 DEF LostInv, HeldOrSettled
  <2>3. row'[c].status \in Settled \/ InHand(c)'
    BY <2>1, <2>2, StatusesStand, HandLetsGo DEF NoneDies
  <2> QED BY <2>1, <2>3 DEF InHand, Busy
<1>2. CASE m \notin 1..position
  <2>1. /\ position + 1 \in 1..Len(topic) /\ m = position + 1
        /\ \E w \in Replicas : Receive(w)
    BY <1>0, <1>2, PositionMoves DEF LostInv
  <2> PICK w \in Replicas : Receive(w)
    BY <2>1
  <2> PICK c : c = topic[m][1]
    OBVIOUS
  <2>2. topic'[m] = topic[m] /\ TypeAt(m) = "CLAIM_PERSISTED"
    BY <2>1, MessagesStay
  <2>3. handler' = [handler EXCEPT ![w] = Begin(c, topic[m][2])] /\ w \in Workers
    BY <2>1, <2>2 DEF Receive, Notable, Workers
  <2>4. handler'[w].pc = "load" /\ handler'[w].claim = c
    BY <1>0, <2>3 DEF TypeOK, Begin
  <2> QED BY <2>2, <2>4 DEF InHand, Busy
<1> QED BY <1>1, <1>2

\* As long as no replica dies, and for a group that has committed an offset before, a
\* persisted claim whose message was taken is settled or in some replica's hand: through
\* any rebalances, repeated messages, failed webhooks and refused appends.
THEOREM NothingIsLost == NoneDies => (Spec => []NoLostNotification)
<1>1. LostInv => NoLostNotification
  BY DEF LostInv, HeldOrSettled, InHand, Busy, NoLostNotification
<1>2. CASE NoneDies
  <2>1. Init => LostInv
    BY <1>2, LostInit
  <2>2. Inv /\ LostInv /\ [Next]_vars => LostInv'
    BY <1>2, LostNext
  <2>3. Spec => []NoLostNotification
    BY <1>1, <2>1, <2>2, Invariance, PTL DEF Spec
  <2> QED BY <2>3
<1> QED BY <1>2
=============================================================================
