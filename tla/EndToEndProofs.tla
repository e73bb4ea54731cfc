--------------------------- MODULE EndToEndProofs ---------------------------
(***************************************************************************)
(* Proofs about EndToEnd: what a customer has been told stays true, for    *)
(* any valid pipeline, rule sets, reviewers, replicas and attempts.        *)
(*                                                                         *)
(* A payload is only loaded for a claim whose CLAIM_PERSISTED is recorded. *)
(* From then on the row is handed over (no status leads back), no decision *)
(* is awaited any more (PERSIST comes last), and the one attempt that may  *)
(* still be late either has an adjudication to append, which is refused,   *)
(* or the verdict that was recorded already.  With two late attempts this  *)
(* is false (EndToEnd_twolate): hence OneLate.                             *)
(***************************************************************************)
EXTENDS EndToEnd, ClaimWorkflowProofs

\* At most one attempt at a time has been given up and is still about to append.
OneLate == MaxLate <= 1

Persisted == Recorded("CLAIM_PERSISTED")

LateApart == \A y, z \in late : y = z

\* A late verdict repeats the one the engine has recorded, is about to, or failed to.
LateVerdict == \A z \in late : z.event.type = "REVIEW_COMPLETED" =>
  \/ Ran("REVIEW") /\ claim.decision = z.event.decision
  \/ /\ Awaits("REVIEW_COMPLETED") /\ act.event.decision = z.event.decision
     /\ act.state = "appended" => claim.decision = z.event.decision
  \/ On("REVIEW") /\ pc = "failed"

PersistedHanded == Persisted => claim.status \in Handed

TypesKnown == /\ TypesOf(log) \in Seq(EventType)
              /\ \A n \in 1..Len(TypesOf(log)) : Recorded(TypesOf(log)[n])

WorkflowInv == /\ TypeOK /\ Position /\ LateActivities /\ HistoryFollows
               /\ LateApart /\ LateVerdict /\ PersistedHanded /\ TypesKnown

\* The delivery: its messages are of the claim's events, its payloads of the row as it is.
Hand == [pc : {"load", "post", "append"}, claim : {TheClaim}, id : Nat,
         status : ClaimStatus \cup {"ABSENT"}, decision : Decision,
         attempt : Nat, delivered : BOOLEAN]

TopicKnown == /\ topic \in Seq({TheClaim} \X Nat)
              /\ \A m \in 1..Len(topic) : topic[m][2] \in 1..Len(TypesOf(log))

GroupKnown == position \in 0..Len(topic) /\ committed \subseteq 0..Len(topic)

HandsKnow == /\ handler \in [Delivery!Workers -> Hand \cup {Delivery!Idle}]
             /\ \A w \in Delivery!Workers :
                  /\ handler[w].pc \in {"load", "post", "append"} => Persisted
                  /\ handler[w].pc \in {"post", "append"} => handler[w].decision = claim.decision

DeliveryInv == TopicKnown /\ GroupKnown /\ HandsKnow

ToldKnown == (told # {} => Persisted) /\ ToldDecisionStands

Inv == WorkflowInv /\ DeliveryInv /\ ToldKnown

-----------------------------------------------------------------------------
(***************************************************************************)
(* TypesOf, a recursion over the history: an event more adds its type at   *)
(* the end or adds nothing.  Two solutions of the recursion are compared   *)
(* at the least place at which they could differ.                          *)
(***************************************************************************)
IsTypes(f, events, k) ==
  f = [n \in 0..k |->
        IF n = 0 THEN <<>>
        ELSE IF events[n].type \in Carried THEN Append(f[n - 1], events[n].type)
        ELSE f[n - 1]]

Grown(types, e) == IF e.type \in Carried THEN Append(types, e.type) ELSE types

LEMMA TypesAt ==
  ASSUME NEW f, NEW events, NEW k, IsTypes(f, events, k)
  PROVE  \A n \in 0..k : f[n] = IF n = 0 THEN <<>> ELSE Grown(f[n - 1], events[n])
BY DEF IsTypes, Grown

LEMMA TypesExist ==
  ASSUME NEW events, NEW k \in Nat
  PROVE  \E f : IsTypes(f, events, k)
<1> DEFINE Bad == {n \in Nat : ~ \E f : IsTypes(f, events, n)}
           x   == Min(Bad)
<1> SUFFICES ASSUME Bad # {} PROVE FALSE
  OBVIOUS
<1>1. x \in Bad /\ \A y \in Bad : x <= y
  <2>1. Bad \in SUBSET Nat
    OBVIOUS
  <2> QED BY <2>1, MinFacts, Zenon
<1> HIDE DEF x
<1>2. x \in Nat /\ ~ \E f : IsTypes(f, events, x)
  BY <1>1
<1>3. CASE x = 0
  <2>1. IsTypes([n \in 0..0 |-> <<>>], events, 0)
    BY DEF IsTypes
  <2> QED BY <1>2, <1>3, <2>1
<1>4. CASE x # 0
  <2>1. x - 1 \in Nat /\ x - 1 \notin Bad
    BY <1>1, <1>2, <1>4
  <2>2. PICK f : IsTypes(f, events, x - 1)
    BY <2>1
  <2> DEFINE g == [n \in 0..x |-> IF n = x THEN Grown(f[x - 1], events[x]) ELSE f[n]]
  <2>3. \A n \in 0..(x - 1) : f[n] = IF n = 0 THEN <<>> ELSE Grown(f[n - 1], events[n])
    BY <2>2, TypesAt
  <2>4. \A n \in 0..x : g[n] = IF n = 0 THEN <<>> ELSE Grown(g[n - 1], events[n])
    <3> SUFFICES ASSUME NEW n \in 0..x
                 PROVE  g[n] = IF n = 0 THEN <<>> ELSE Grown(g[n - 1], events[n])
      OBVIOUS
    <3>1. CASE n = x
      <4>1. x - 1 \in 0..x /\ x - 1 # x
        BY <1>2, <2>1
      <4> QED BY <1>4, <3>1, <4>1
    <3>2. CASE n # x
      <4>1. n \in 0..(x - 1) /\ (n # 0 => n - 1 \in 0..x /\ n - 1 # x)
        BY <1>2, <3>2
      <4> QED BY <2>3, <3>2, <4>1
    <3> QED BY <3>1, <3>2
  <2>5. IsTypes(g, events, x)
    <3>1. g = [n \in 0..x |-> IF n = 0 THEN <<>> ELSE Grown(g[n - 1], events[n])]
      BY <2>4
    <3> QED BY <3>1 DEF IsTypes, Grown
  <2> QED BY <1>2, <2>5
<1> QED BY <1>3, <1>4

LEMMA TypesIs ==
  ASSUME NEW events, Len(events) \in Nat
  PROVE  \E f : IsTypes(f, events, Len(events)) /\ TypesOf(events) = f[Len(events)]
<1> DEFINE f == CHOOSE g : IsTypes(g, events, Len(events))
<1>1. IsTypes(f, events, Len(events))
  BY TypesExist
<1>2. TypesOf(events) = f[Len(events)]
  BY DEF TypesOf, IsTypes
<1> QED BY <1>1, <1>2

LEMMA TypesEmpty == TypesOf(<<>>) = <<>>
<1>1. Len(<<>>) = 0
  OBVIOUS
<1>2. PICK f : IsTypes(f, <<>>, 0) /\ TypesOf(<<>>) = f[0]
  BY <1>1, TypesIs
<1> QED BY <1>2, TypesAt

LEMMA TypesGrow ==
  ASSUME NEW events \in Seq(Event), NEW e \in Event
  PROVE  TypesOf(Append(events, e)) = Grown(TypesOf(events), e)
<1> DEFINE k == Len(events)
           more == Append(events, e)
<1>1. /\ k \in Nat /\ Len(more) = k + 1 /\ more[k + 1] = e
      /\ \A i \in 1..k : more[i] = events[i]
  BY AppendProperties, LenProperties
<1> HIDE DEF k, more
<1>2. PICK f : IsTypes(f, events, k) /\ TypesOf(events) = f[k]
  BY <1>1, TypesIs DEF k
<1>3. PICK g : IsTypes(g, more, k + 1) /\ TypesOf(more) = g[k + 1]
  BY <1>1, TypesIs
<1>4. \A n \in 0..k : f[n] = IF n = 0 THEN <<>> ELSE Grown(f[n - 1], events[n])
  BY <1>2, TypesAt
<1>5. \A n \in 0..(k + 1) : g[n] = IF n = 0 THEN <<>> ELSE Grown(g[n - 1], more[n])
  BY <1>3, TypesAt
<1>6. \A n \in 0..k : f[n] = g[n]
  <2> DEFINE Bad == {n \in 0..k : f[n] # g[n]}
             x   == Min(Bad)
  <2> SUFFICES ASSUME Bad # {} PROVE FALSE
    OBVIOUS
  <2>1. x \in Bad /\ \A y \in Bad : x <= y
    <3>1. Bad \in SUBSET Nat
      OBVIOUS
    <3> QED BY <3>1, MinFacts, Zenon
  <2> HIDE DEF x
  <2>2. x \in 0..k /\ x \in 0..(k + 1) /\ f[x] # g[x]
    BY <1>1, <2>1
  <2>3. x # 0
    BY <1>4, <1>5, <2>2
  <2>4. x - 1 \in 0..k /\ x - 1 \notin Bad /\ x \in 1..k
    BY <1>1, <2>1, <2>2, <2>3
  <2>5. f[x - 1] = g[x - 1] /\ more[x] = events[x]
    BY <1>1, <2>4
  <2> QED BY <1>4, <1>5, <2>2, <2>3, <2>5
<1>7. g[k + 1] = Grown(g[k], e)
  <2>1. k + 1 \in 0..(k + 1) /\ k + 1 # 0 /\ (k + 1) - 1 = k
    BY <1>1
  <2> QED BY <1>1, <1>5, <2>1
<1>8. f[k] = g[k]
  BY <1>1, <1>6
<1> QED BY <1>2, <1>3, <1>7, <1>8 DEF more

-----------------------------------------------------------------------------
(* The history and the row *)

\* What the relay has published keeps its number.
TypesStay == LET before == TypesOf(log)
                 after  == TypesOf(log)'
             IN  /\ Len(before) \in Nat /\ Len(after) \in Nat /\ Len(before) <= Len(after)
                 /\ \A n \in 1..Len(before) : after[n] = before[n]

LEMMA HandedStays ==
  ASSUME NEW c \in Claim, NEW e \in Event, Legal(c, e), c.status \in Handed
  PROVE  Project(c, e).status \in Handed /\ e.type # "CLAIM_ADJUDICATED"
<1>1. e.type # "CLAIM_RECEIVED"
  BY DEF Legal, Handed
<1>2. EventStatus(e.type) \in {"ABSENT", c.status}
        \/ <<c.status, EventStatus(e.type)>> \in Allowed
  BY <1>1 DEF Legal
<1>3. EventStatus(e.type) \in {"ABSENT"} \cup Handed
  BY <1>2 DEF Handed, Allowed
<1>4. e.type # "CLAIM_ADJUDICATED"
  BY <1>3 DEF EventStatus, Handed
<1> QED BY <1>1, <1>3, <1>4 DEF Project

LEMMA AppendKeeps ==
  ASSUME TypeOK, TypesKnown, PersistedHanded, NEW e \in Event, Legal(claim, e), Store(e)
  PROVE  TypesKnown' /\ TypesStay /\ PersistedHanded' /\ (Persisted => Persisted')
<1>1. \A t : Recorded(t)' <=> Recorded(t) \/ e.type = t
  BY RecordStep
<1> DEFINE before == TypesOf(log)
           after  == TypesOf(log')
<1>2. after = Grown(before, e)
  BY TypesGrow DEF TypeOK, Store
<1>3. before \in Seq(EventType) /\ Len(before) \in Nat /\ e.type \in EventType
  BY LenProperties DEF TypesKnown, Event
<1>4. \A n \in 1..Len(before) : Recorded(before[n])
  BY DEF TypesKnown
<1> HIDE DEF before, after
<1>5. ASSUME e.type \in Carried PROVE TypesKnown' /\ TypesStay
  <2>1. after = Append(before, e.type)
    BY <1>2, <1>5 DEF Grown
  <2>2. /\ after \in Seq(EventType) /\ Len(after) = Len(before) + 1
        /\ after[Len(before) + 1] = e.type
        /\ \A n \in 1..Len(before) : after[n] = before[n]
    BY <1>3, <2>1, AppendProperties
  <2>3. ASSUME NEW n \in 1..Len(after) PROVE \E t : t = after[n] /\ Recorded(t)'
    <3>1. CASE n \in 1..Len(before)
      BY <1>1, <1>4, <2>2, <3>1
    <3>2. CASE n = Len(before) + 1
      BY <1>1, <2>2, <3>2
    <3> QED BY <1>3, <2>2, <3>1, <3>2
  <2>4. TypesKnown'
    <3>1. \A n \in 1..Len(after) : \E i \in DOMAIN log' : log'[i].type = after[n]
      BY <2>3 DEF Recorded
    <3> QED BY <2>2, <3>1 DEF TypesKnown, Recorded, after
  <2>5. TypesStay
    BY <1>3, <2>2 DEF TypesStay, before, after
  <2> QED BY <2>4, <2>5
<1>6. ASSUME e.type \notin Carried PROVE TypesKnown' /\ TypesStay
  <2>1. after = before
    BY <1>2, <1>6 DEF Grown
  <2>2. \A n \in 1..Len(after) : \E i \in DOMAIN log' : log'[i].type = after[n]
    BY <1>1, <1>4, <2>1 DEF Recorded
  <2>3. TypesKnown'
    BY <1>3, <2>1, <2>2 DEF TypesKnown, Recorded, after
  <2> QED BY <1>3, <2>1, <2>3 DEF TypesStay, before, after
<1>7. PersistedHanded'
  <2> SUFFICES ASSUME Persisted' PROVE claim'.status \in Handed
    BY DEF PersistedHanded
  <2>1. claim \in Claim /\ claim' = Project(claim, e)
    BY DEF TypeOK, Store
  <2>2. CASE Persisted
    BY <2>1, <2>2, HandedStays DEF PersistedHanded
  <2>3. CASE e.type = "CLAIM_PERSISTED"
    BY <2>1, <2>3 DEF Project, EventStatus, Handed
  <2> QED BY <1>1, <2>2, <2>3 DEF Persisted
<1>8. Persisted => Persisted'
  BY <1>1 DEF Persisted
<1> QED BY <1>5, <1>6, <1>7, <1>8

LEMMA SameHistory ==
  ASSUME TypesKnown, PersistedHanded, UNCHANGED store
  PROVE  TypesKnown' /\ TypesStay /\ PersistedHanded' /\ (Persisted <=> Persisted')
<1>1. log' = log /\ claim' = claim
  BY DEF store
<1>2. TypesOf(log') = TypesOf(log) /\ \A t : Recorded(t)' <=> Recorded(t)
  BY <1>1 DEF Recorded
<1>3. TypesKnown'
  BY <1>1 DEF TypesKnown, Recorded
<1>4. Len(TypesOf(log)) \in Nat
  BY LenProperties DEF TypesKnown
<1> QED BY <1>1, <1>2, <1>3, <1>4 DEF TypesStay, PersistedHanded, Persisted

\* Nothing comes after PERSIST: no decision is awaited when it has been seen.
LEMMA LastStage ==
  ASSUME TypeOK, Seen("PERSIST"), NEW s, On(s)
  PROVE  s = "PERSIST"
<1> DEFINE n == Len(pipeline)
<1>1. n \in Nat /\ DOMAIN pipeline = 1..n /\ pos \in 1..n /\ pipeline[pos] = s
  BY WorkflowAssumption, LenProperties DEF TypeOK, On
<1>2. pipeline # <<>> /\ pipeline[n] = "PERSIST" /\ n \in 1..n
  BY <1>1, WorkflowAssumption, EmptySeq DEF TypeOK, ValidPipeline
<1>3. CASE pos < n
  <2>1. Ran(pipeline[pos])
    BY <1>1, <1>2, <1>3, EarlierRan
  <2> QED BY <1>1, <2>1, StageOrder
<1> QED BY <1>1, <1>2, <1>3

LEMMA DecisionStands ==
  ASSUME WorkflowInv, Next, Persisted
  PROVE  claim'.decision = claim.decision
<1>1. CASE Engine
  BY <1>1, EngineMoves DEF WorkflowInv, store
<1>2. ASSUME NEW e \in Event, Legal(claim, e), Store(e), e.type # "CLAIM_RECEIVED",
             \/ Commits /\ e = act.event
             \/ CommitsLate /\ \E z \in late : z.event = e
             \/ Notifies /\ e \in {Plain("CLAIM_NOTIFIED"), Plain("NOTIFY_FAILED")}
      PROVE  claim'.decision = claim.decision
  <2>1. claim'.decision = IF e.type \in DecisionEvents THEN e.decision ELSE claim.decision
    BY <1>2, StoreEffect
  <2>2. Seen("PERSIST") /\ claim \in Claim /\ claim.status \in Handed
    BY DEF WorkflowInv, HistoryFollows, Persisted, PersistedHanded, RecordingStage, StageEvent,
           TypeOK
  <2>3. e.type # "CLAIM_ADJUDICATED"
    BY <1>2, <2>2, HandedStays
  <2>4. CASE e.type = "REVIEW_COMPLETED"
    <3>1. ~On("REVIEW")
      BY <2>2, LastStage DEF WorkflowInv
    <3>2. ~Awaits("REVIEW_COMPLETED")
      BY <3>1 DEF WorkflowInv, Position, Awaits, StageOf
    <3>3. PICK z \in late : z.event = e
      BY <1>2, <2>4, <3>2 DEF Commits, Awaits, Plain
    <3>4. claim.decision = e.decision
      BY <2>4, <3>1, <3>2, <3>3 DEF WorkflowInv, LateVerdict
    <3> QED BY <2>1, <2>4, <3>4 DEF DecisionEvents
  <2> QED BY <2>1, <2>3, <2>4 DEF DecisionEvents
<1>3. CASE UNCHANGED store
  BY <1>3 DEF store
<1> QED BY <1>1, <1>2, <1>3, Appends DEF WorkflowInv

-----------------------------------------------------------------------------
(* The one late attempt *)

LEMMA TimesOutOnce ==
  ASSUME OneLate, WorkflowInv, AttemptTimesOut
  PROVE  late = {}
<1>1. SUFFICES ASSUME NEW z \in late PROVE FALSE
  OBVIOUS
<1>2. late = {z}
  BY DEF WorkflowInv, LateApart
<1>3. Cardinality(late) = 1
  BY <1>2, FS_Singleton
<1> QED BY <1>3, WorkflowAssumption DEF AttemptTimesOut, OneLate

LEMMA OnlyTimeOuts ==
  ASSUME WorkflowInv, Next, ~AttemptTimesOut
  PROVE  late' \subseteq late
<1> USE DEF engine, signals, store, env
<1>1. CASE Engine
  BY <1>1, EngineMoves DEF WorkflowInv
<1>2. CASE Attempt
  BY <1>2 DEF Attempt, Compute, AppendEvent, AttemptRaises
<1>3. CASE AttemptFails \/ \E z \in late : LateAppend(z)
  BY <1>3 DEF AttemptFails, LateAppend
<1>4. CASE ~Engine /\ ~Attempt /\ ~AttemptFails /\ ~ \E z \in late : LateAppend(z)
  BY <1>4 DEF Next, ClientPuts, MarkUploaded, RulingChanges, ReviewerChecks, ReviewerSignals,
              NotifierAppends
<1> QED BY <1>1, <1>2, <1>3, <1>4

LEMMA ApartStep ==
  ASSUME OneLate, WorkflowInv, Next
  PROVE  LateApart'
<1>1. CASE AttemptTimesOut
  BY <1>1, TimesOutOnce DEF AttemptTimesOut, LateApart
<1>2. CASE ~AttemptTimesOut
  BY <1>2, OnlyTimeOuts DEF WorkflowInv, LateApart
<1> QED BY <1>1, <1>2

\* Where the engine is with a verdict that is also late
Repeats(z) ==
  \/ Ran("REVIEW") /\ claim.decision = z.event.decision
  \/ /\ Awaits("REVIEW_COMPLETED") /\ act.event.decision = z.event.decision
     /\ act.state = "appended" => claim.decision = z.event.decision
  \/ On("REVIEW") /\ pc = "failed"

LEMMA VerdictEngine ==
  ASSUME WorkflowInv, Engine, NEW z \in late, z.event.type = "REVIEW_COMPLETED"
  PROVE  Repeats(z)'
<1>1. UNCHANGED <<pipeline, claim>> /\ Repeats(z)
  BY EngineMoves DEF WorkflowInv, LateVerdict, Repeats, store
<1>2. CASE Ran("REVIEW") /\ claim.decision = z.event.decision
  <2>1. Ran("REVIEW")'
    <3>1. pos' >= pos
      BY EngineMoves DEF WorkflowInv, TypeOK, Starts, Parks, Passes, Returns, Continues, Leaves, Closes
    <3>2. pos \in Nat /\ pos' \in Nat /\ Len(pipeline) \in Nat
      <4>1. Len(pipeline) \in Nat /\ pos \in 0..(Len(pipeline) + 1)
        BY WorkflowAssumption, LenProperties DEF WorkflowInv, TypeOK
      <4>2. pos' = pos \/ pos' = pos + 1
        BY EngineMoves DEF WorkflowInv, Starts, Parks, Passes, Returns, Continues, Leaves, Closes
      <4> QED BY <4>1, <4>2
    <3> QED BY <1>1, <1>2, <3>1, <3>2 DEF Ran
  <2> QED BY <1>1, <1>2, <2>1 DEF Repeats
<1>3. CASE Awaits("REVIEW_COMPLETED") /\ act.event.decision = z.event.decision
           /\ (act.state = "appended" => claim.decision = z.event.decision)
  <2>1. Leaves
    BY <1>3, EngineMoves DEF WorkflowInv, Awaits, Between, Starts, Parks, Passes, Returns, Continues,
                             Leaves, Closes
  <2>2. On("REVIEW")
    BY <1>3 DEF WorkflowInv, Position, Awaits, StageOf
  <2>3. Ran("REVIEW")'
    BY <1>1, <2>1, <2>2, RanSteps DEF Leaves, WorkflowInv
  <2> QED BY <1>1, <1>3, <2>1, <2>3 DEF Repeats, Leaves, Answered
<1>4. CASE On("REVIEW") /\ pc = "failed"
  BY <1>4, EngineMoves DEF WorkflowInv, Between, Starts, Parks, Passes, Returns, Continues, Leaves,
                           Closes, Answered
<1> QED BY <1>1, <1>2, <1>3, <1>4 DEF Repeats

LEMMA VerdictEnvironment ==
  ASSUME OneLate, WorkflowInv, Next, ~Engine, NEW z \in late', z.event.type = "REVIEW_COMPLETED"
  PROVE  Repeats(z)'
<1>1. UNCHANGED <<pipeline, pos>> /\ \A s : (Ran(s)' <=> Ran(s)) /\ (On(s)' <=> On(s))
  BY EnvironmentMoves, RanSteps DEF WorkflowInv
<1>2. Awaits("REVIEW_COMPLETED") => On("REVIEW") /\ ~Ran("REVIEW")
  BY StageOrder DEF WorkflowInv, Position, Awaits, StageOf
<1>3. CASE AttemptTimesOut
  <2>1. pc = "activity" /\ z.event = act.event /\ Retry
    BY <1>3, TimesOutOnce DEF AttemptTimesOut, Running
  <2>2. Awaits("REVIEW_COMPLETED")
    BY <2>1 DEF Awaits
  <2>3. \/ pc' = "activity" /\ act'.event = act.event /\ act'.state = "scheduled"
        \/ pc' = "failed"
    BY <2>1 DEF Retry, WorkflowInv, TypeOK
  <2> QED BY <1>1, <1>2, <2>1, <2>2, <2>3 DEF Repeats, Awaits
<1>4. CASE ~AttemptTimesOut
  <2>1. z \in late /\ Repeats(z)
    BY <1>4, OnlyTimeOuts DEF WorkflowInv, LateVerdict, Repeats
  <2>2. CASE Compute
    <3>1. PICK esc, d :
            /\ act' = [act EXCEPT !.state = "computed", !.event.escalated = esc, !.event.decision = d]
            /\ act.event.type # "CLAIM_ADJUDICATED" => d = act.event.decision
      BY <2>2 DEF Compute
    <3>2. /\ act'.state = "computed" /\ act'.event.type = act.event.type
          /\ act.event.type # "CLAIM_ADJUDICATED" => act'.event.decision = act.event.decision
      BY <3>1 DEF WorkflowInv, TypeOK, Event
    <3>3. pc' = pc /\ claim' = claim
      BY <2>2 DEF Compute, store
    <3> QED BY <1>1, <2>1, <3>2, <3>3 DEF Repeats, Awaits
  <2>3. CASE AppendEvent
    <3>1. /\ pc = "activity" /\ pc' = pc /\ act'.event = act.event /\ act.event \in Event
          /\ claim'.decision = IF act.event.type \in DecisionEvents
                               THEN act.event.decision ELSE claim.decision
      BY <2>3, StoreEffect DEF AppendEvent, Running, WorkflowInv, TypeOK, ActivityType
    <3>2. act.event.type = "CLAIM_ADJUDICATED" => ~Ran("REVIEW")
      BY <3>1, StageOrder DEF WorkflowInv, Position, StageOf
    <3>3. act.event.type = "REVIEW_COMPLETED" => Awaits("REVIEW_COMPLETED")
      BY <3>1 DEF Awaits
    <3>4. CASE Ran("REVIEW") /\ claim.decision = z.event.decision
      BY <1>1, <1>2, <3>1, <3>2, <3>3, <3>4 DEF Repeats, DecisionEvents
    <3>5. CASE Awaits("REVIEW_COMPLETED") /\ act.event.decision = z.event.decision
      BY <1>1, <3>1, <3>5 DEF Repeats, DecisionEvents, Awaits
    <3> QED BY <2>1, <3>1, <3>4, <3>5 DEF Repeats
  <2>4. CASE AttemptRaises \/ AttemptFails
    <3>1. Retry /\ claim' = claim /\ pc = "activity"
      BY <2>4 DEF AttemptRaises, AttemptFails, store, Running
    <3>2. \/ pc' = "activity" /\ act'.event = act.event /\ act'.state = "scheduled"
          \/ pc' = "failed"
      BY <3>1 DEF Retry, WorkflowInv, TypeOK
    <3> QED BY <1>1, <1>2, <2>1, <3>1, <3>2 DEF Repeats, Awaits
  <2>5. CASE \E y \in late : LateAppend(y)
    BY <2>1, <2>5 DEF LateAppend, WorkflowInv, LateApart
  <2>6. CASE Notifies \/ Outside
    <3>1. UNCHANGED <<pc, act>> /\ claim'.decision = claim.decision
      <4>1. CASE Notifies
        BY <4>1, StoreEffect, PlainType DEF Notifies, Plain, DecisionEvents, EventType
      <4> QED BY <2>6, <4>1 DEF Outside, store
    <3> QED BY <1>1, <2>1, <3>1 DEF Repeats, Awaits
  <2>7. CASE ~Attempt /\ ~AttemptFails /\ ~ \E y \in late : LateAppend(y)
    <3>1. Notifies \/ Outside
      BY <1>4, <2>7, WorkflowAssumption
         DEF engine, signals, store, env, Next, ClientPuts, MarkUploaded, RulingChanges,
             ReviewerChecks, ReviewerSignals, NotifierAppends, Notifies, Outside, WorkflowInv, TypeOK
    <3> QED BY <2>6, <3>1
  <2> QED BY <2>2, <2>3, <2>4, <2>5, <2>7 DEF Attempt
<1> QED BY <1>3, <1>4

LEMMA WorkflowKeeps ==
  ASSUME OneLate, WorkflowInv, Next
  PROVE  /\ WorkflowInv' /\ TypesStay
         /\ Persisted => Persisted' /\ claim'.decision = claim.decision
<1>1. (TypeOK /\ Position /\ LateActivities)'
  BY TypeStep, LateStep DEF WorkflowInv
<1>2. HistoryFollows'
  BY HistoryEngine, HistoryEnvironment DEF WorkflowInv
<1>3. LateApart'
  BY ApartStep
<1>4. LateVerdict'
  <2>1. CASE Engine
    <3>1. late' = late
      BY <2>1, EngineMoves DEF WorkflowInv
    <3> QED BY <2>1, <3>1, VerdictEngine DEF LateVerdict, Repeats
  <2>2. CASE ~Engine
    BY <2>2, VerdictEnvironment DEF LateVerdict, Repeats
  <2> QED BY <2>1, <2>2
<1>5. TypesKnown' /\ TypesStay /\ PersistedHanded' /\ (Persisted => Persisted')
  <2>1. CASE UNCHANGED store
    BY <2>1, SameHistory DEF WorkflowInv
  <2>2. ASSUME NEW e \in Event, Legal(claim, e), Store(e)
        PROVE  TypesKnown' /\ TypesStay /\ PersistedHanded' /\ (Persisted => Persisted')
    BY <2>2, AppendKeeps DEF WorkflowInv
  <2>3. CASE Engine
    BY <2>1, <2>3, EngineMoves DEF WorkflowInv
  <2> QED BY <2>1, <2>2, <2>3, Appends DEF WorkflowInv
<1> QED BY <1>1, <1>2, <1>3, <1>4, <1>5, DecisionStands DEF WorkflowInv

\* An outcome of the notifier's, the same as before or not
LEMMA NoticeKeeps ==
  ASSUME WorkflowInv, NEW t \in {"CLAIM_NOTIFIED", "NOTIFY_FAILED"},
         Legal(claim, Plain(t)), Store(Plain(t)), UNCHANGED <<engine, signals, late, env>>
  PROVE  /\ WorkflowInv' /\ TypesStay
         /\ Persisted => Persisted' /\ claim'.decision = claim.decision
<1> USE DEF engine, signals, env
<1>1. Plain(t) \in Event /\ Plain(t).type = t
  BY PlainType DEF EventType
<1>2. TypeOK'
  BY <1>1, StoreType DEF WorkflowInv, TypeOK
<1>3. Position' /\ LateActivities' /\ LateApart'
  BY DEF WorkflowInv, Position, On, LateActivities, LateApart
<1>4. claim'.decision = claim.decision
  BY <1>1, StoreEffect DEF DecisionEvents
<1>5. LateVerdict'
  BY <1>4 DEF WorkflowInv, LateVerdict, Ran, On, Awaits
<1>6. TypesKnown' /\ TypesStay /\ PersistedHanded' /\ (Persisted => Persisted')
  BY <1>1, AppendKeeps DEF WorkflowInv
<1>7. \A u : Recorded(u)' <=> Recorded(u) \/ t = u
  BY <1>1, RecordStep DEF WorkflowInv
<1>8. \A s \in RecordingStage : t # StageEvent(s)
  BY DEF RecordingStage, StageEvent
<1>9. StagesInOrder'
  <2> SUFFICES ASSUME NEW i \in 1..Len(pipeline), NEW j \in 1..Len(pipeline), i < j,
                      pipeline[i] \in RecordingStage, pipeline[j] \in RecordingStage,
                      NEW m \in DOMAIN log', log'[m].type = StageEvent(pipeline[j])
               PROVE  \E k \in DOMAIN log' : k < m /\ log'[k].type = StageEvent(pipeline[i])
    BY DEF StagesInOrder, Ordered
  <2>1. /\ Len(log) \in Nat /\ DOMAIN log = 1..Len(log) /\ DOMAIN log' = 1..(Len(log) + 1)
        /\ \A k \in DOMAIN log : log'[k] = log[k]
        /\ log'[Len(log) + 1] = Plain(t)
    BY <1>1, RecordStep DEF WorkflowInv
  <2>2. m \in DOMAIN log
    BY <1>1, <1>8, <2>1
  <2>3. PICK k \in DOMAIN log : k < m /\ log[k].type = StageEvent(pipeline[i])
    BY <2>1, <2>2 DEF WorkflowInv, HistoryFollows, StagesInOrder, Ordered
  <2> QED BY <2>1, <2>3
<1>10. HistoryFollows'
  <2>1. pc' = "activity" /\ act'.state = "appended" => Recorded(act.event.type)'
    <3>1. PICK u : u = act.event.type /\ u = act'.event.type
      OBVIOUS
    <3>2. pc' = "activity" /\ act'.state = "appended" => Recorded(u)'
      BY <1>7, <3>1 DEF WorkflowInv, HistoryFollows
    <3> QED BY <3>1, <3>2 DEF Recorded
  <2> QED BY <1>7, <1>8, <1>9, <2>1 DEF WorkflowInv, HistoryFollows, Seen, Ran, On
<1> QED BY <1>2, <1>3, <1>4, <1>5, <1>6, <1>10 DEF WorkflowInv

LEMMA InitWorkflow == Init => WorkflowInv
<1> SUFFICES ASSUME Init PROVE WorkflowInv
  OBVIOUS
<1>1. TypeOK /\ Position /\ LateActivities /\ HistoryFollows
  BY HistoryInit
<1>2. LateApart /\ LateVerdict
  BY DEF Init, LateApart, LateVerdict
<1>3. \A t : Recorded(t) => t = "CLAIM_RECEIVED"
  BY DEF Init, Recorded, Plain
<1>4. PersistedHanded
  BY <1>3 DEF PersistedHanded, Persisted
<1>5. TypesKnown
  <2> DEFINE e == Plain("CLAIM_RECEIVED")
  <2>1. log = Append(<<>>, e) /\ e \in Event /\ e.type = "CLAIM_RECEIVED" /\ <<>> \in Seq(Event)
    BY PlainType DEF Init, EventType
  <2>2. TypesOf(log) = Append(<<>>, "CLAIM_RECEIVED")
    BY <2>1, TypesGrow, TypesEmpty DEF Grown, Carried
  <2>3. /\ TypesOf(log) \in Seq(EventType) /\ Len(TypesOf(log)) = 1
        /\ TypesOf(log)[1] = "CLAIM_RECEIVED"
    BY <2>2 DEF EventType
  <2>4. 1 \in DOMAIN log /\ log[1].type = "CLAIM_RECEIVED"
    BY <2>1 DEF Init
  <2> QED BY <2>3, <2>4 DEF TypesKnown, Recorded
<1> QED BY <1>1, <1>2, <1>4, <1>5 DEF WorkflowInv

LEMMA WorkflowSame ==
  ASSUME WorkflowInv, UNCHANGED vars
  PROVE  WorkflowInv' /\ TypesStay /\ (Persisted <=> Persisted')
<1> USE DEF vars, engine, signals, store, env
<1>1. TypeOK' /\ Position' /\ LateActivities'
  BY TypeStep, LateStep DEF WorkflowInv
<1>2. HistoryFollows'
  BY DEF WorkflowInv, HistoryFollows, Recorded, Ran, On, Seen, StagesInOrder, Ordered
<1>3. LateApart' /\ LateVerdict'
  BY DEF WorkflowInv, LateApart, LateVerdict, Ran, On, Awaits
<1>4. TypesKnown' /\ TypesStay /\ PersistedHanded' /\ (Persisted <=> Persisted')
  BY SameHistory DEF WorkflowInv
<1> QED BY <1>1, <1>2, <1>3, <1>4 DEF WorkflowInv

-----------------------------------------------------------------------------
(* The delivery *)

\* The instance has its own copy of Projection: the same rules.
LEMMA Same == \A c, t : Delivery!Legal(c, Delivery!Plain(t)) = Legal(c, Plain(t))
<1>1. \A t : Delivery!Plain(t) = Plain(t)
  BY DEF Delivery!Plain, Plain
<1>2. Allowed = Delivery!Allowed
  BY Zenon DEF Allowed, Delivery!Allowed
<1>3. \A t : EventStatus(t) = Delivery!EventStatus(t)
  BY DEF EventStatus, Delivery!EventStatus
<1>4. \A c, e : Delivery!Legal(c, e) = Legal(c, e)
  BY <1>2, <1>3 DEF Legal, Delivery!Legal
<1> QED BY <1>1, <1>4

LEMMA HandType ==
  ASSUME HandsKnow, NEW w \in Delivery!Workers, handler[w].pc \in {"load", "post", "append"}
  PROVE  handler[w] \in Hand /\ handler[w].claim = TheClaim
BY DEF HandsKnow, Delivery!Idle, Hand

\* What moves the claim leaves what was delivered true, and what is in hand.
LEMMA WorkflowDelivers ==
  ASSUME DeliveryInv, TypesStay, UNCHANGED <<topic, position, committed>>,
         Persisted => Persisted' /\ claim'.decision = claim.decision,
         handler' \in [Delivery!Workers -> Hand \cup {Delivery!Idle}],
         \A w \in Delivery!Workers : handler'[w] \in {handler[w], Delivery!Idle}
  PROVE  DeliveryInv'
<1>1. TopicKnown'
  BY DEF DeliveryInv, TopicKnown, TypesStay
<1>2. GroupKnown'
  BY DEF DeliveryInv, GroupKnown
<1>3. HandsKnow'
  BY DEF DeliveryInv, HandsKnow, Delivery!Idle
<1> QED BY <1>1, <1>2, <1>3 DEF DeliveryInv

LEMMA ToldStays ==
  ASSUME ToldKnown, told' = told, Persisted => Persisted' /\ claim'.decision = claim.decision
  PROVE  ToldKnown'
BY DEF ToldKnown, ToldDecisionStands

\* A hand on the same claim and row: what it holds after a step of its own
LEMMA HandStep ==
  ASSUME HandsKnow, NEW w \in Delivery!Workers, NEW h \in Hand \cup {Delivery!Idle},
         handler' = [handler EXCEPT ![w] = h], UNCHANGED claim, Persisted <=> Persisted',
         h.pc \in {"load", "post", "append"} => Persisted,
         h.pc \in {"post", "append"} => h.decision = claim.decision
  PROVE  HandsKnow'
<1>1. /\ handler' \in [Delivery!Workers -> Hand \cup {Delivery!Idle}] /\ handler'[w] = h
      /\ \A v \in Delivery!Workers \ {w} : handler'[v] = handler[v]
  BY DEF HandsKnow
<1> QED BY <1>1 DEF HandsKnow

LEMMA RelayKeeps ==
  ASSUME DeliveryInv, UNCHANGED vars, NEW n \in 1..MaxTopic, Delivery!RelayPublishes(TheClaim, n)
  PROVE  TopicKnown' /\ GroupKnown'
<1> DEFINE types == TypesOf(log)
<1>1. topic' = Append(topic, <<TheClaim, n>>) /\ n \in 1..Len(types) /\ n \in Nat
  BY DEF Delivery!RelayPublishes, Delivery!Bus!Publication, Delivery!Bus!Publishable, MaxTopic
<1>2. UNCHANGED <<position, committed, log>>
  BY DEF Delivery!RelayPublishes, Delivery!group, vars, store
<1>3. topic \in Seq({TheClaim} \X Nat) /\ <<TheClaim, n>> \in {TheClaim} \X Nat
  BY <1>1 DEF DeliveryInv, TopicKnown
<1>4. /\ topic' \in Seq({TheClaim} \X Nat) /\ Len(topic') = Len(topic) + 1
      /\ Len(topic) \in Nat /\ topic'[Len(topic) + 1] = <<TheClaim, n>>
      /\ \A m \in 1..Len(topic) : topic'[m] = topic[m]
  BY <1>1, <1>3, AppendProperties, LenProperties
<1>5. \A m \in 1..Len(topic) : topic[m][2] \in 1..Len(types)
  BY DEF DeliveryInv, TopicKnown
<1>6. \A m \in 1..Len(topic') : topic'[m][2] \in 1..Len(types)
  <2> SUFFICES ASSUME NEW m \in 1..Len(topic') PROVE topic'[m][2] \in 1..Len(types)
    OBVIOUS
  <2>1. CASE m = Len(topic) + 1
    BY <1>1, <1>4, <2>1
  <2>2. CASE m \in 1..Len(topic)
    BY <1>4, <1>5, <2>2
  <2> QED BY <1>4, <2>1, <2>2
<1>7. TopicKnown'
  BY <1>2, <1>4, <1>6 DEF TopicKnown
<1>8. GroupKnown'
  BY <1>2, <1>4 DEF DeliveryInv, GroupKnown
<1> QED BY <1>7, <1>8

\* Only a CLAIM_PERSISTED on record is taken in hand.
LEMMA ReceiveKeeps ==
  ASSUME WorkflowInv, DeliveryInv, UNCHANGED vars, NEW w \in Replicas, Delivery!Receive(w)
  PROVE  DeliveryInv'
<1> DEFINE m == position + 1
           types == TypesOf(log)
<1>1. /\ m \in 1..Len(topic) /\ topic \in Seq({TheClaim} \X Nat) /\ topic[m][2] \in 1..Len(types)
      /\ position' = m /\ UNCHANGED <<topic, committed, log, claim>>
  BY DEF DeliveryInv, TopicKnown, GroupKnown, Delivery!Receive, Delivery!channel, vars, store
<1>2. topic[m] \in {TheClaim} \X Nat /\ Delivery!TypeAt(m) = types[topic[m][2]]
  BY <1>1 DEF Delivery!TypeAt
<1>3. Delivery!Notable(Delivery!TypeAt(m)) => Persisted
  BY <1>1, <1>2 DEF Delivery!Notable, WorkflowInv, TypesKnown, Persisted
<1> DEFINE h == Delivery!Begin(topic[m][1], topic[m][2])
<1>4. h \in Hand /\ h.pc = "load"
  BY <1>2, WorkflowAssumption DEF Delivery!Begin, Hand, Decision
<1>5. Persisted <=> Persisted'
  BY WorkflowSame
<1>6. w \in Delivery!Workers
  BY DEF Delivery!Workers
<1>7. HandsKnow'
  <2>1. CASE Delivery!Notable(Delivery!TypeAt(m))
    <3>1. handler' = [handler EXCEPT ![w] = h]
      BY <2>1 DEF Delivery!Receive
    <3> HIDE DEF h
    <3> QED BY <1>1, <1>3, <1>4, <1>5, <1>6, <2>1, <3>1, HandStep DEF DeliveryInv
  <2>2. CASE ~Delivery!Notable(Delivery!TypeAt(m))
    <3>1. handler' = handler
      BY <2>2 DEF Delivery!Receive
    <3> QED BY <1>1, <1>5, <3>1 DEF DeliveryInv, HandsKnow
  <2> QED BY <2>1, <2>2
<1> QED BY <1>1, <1>7, LenProperties DEF DeliveryInv, TopicKnown, GroupKnown

\* A payload is loaded from the row as it is, and the row's decision stands from there on.
LEMMA NotifyKeeps ==
  ASSUME WorkflowInv, DeliveryInv, UNCHANGED vars, NEW w \in Replicas,
         \/ Delivery!Load(w) \/ Delivery!PostSucceeds(w)
         \/ Delivery!PostFails(w) \/ Delivery!Refused(w)
  PROVE  DeliveryInv'
<1> USE DEF Delivery!channel, Delivery!group
<1>1. w \in Delivery!Workers /\ handler[w].pc \in {"load", "post", "append"}
  BY DEF Delivery!Workers, Delivery!Load, Delivery!PostSucceeds, Delivery!PostFails,
         Delivery!Refused
<1>2. handler[w] \in Hand /\ handler[w].claim = TheClaim
  BY <1>1, HandType DEF DeliveryInv
<1>3. /\ Persisted /\ (Persisted <=> Persisted') /\ UNCHANGED <<log, claim>>
      /\ handler[w].pc \in {"post", "append"} => handler[w].decision = claim.decision
  BY <1>1, WorkflowSame DEF DeliveryInv, HandsKnow, vars, store
<1>4. claim \in Claim
  BY DEF WorkflowInv, TypeOK
<1>5. HandsKnow'
  <2>1. \E h \in Hand \cup {Delivery!Idle} :
          /\ handler' = [handler EXCEPT ![w] = h]
          /\ h.pc \in {"post", "append"} => h.decision = claim.decision
    <3>1. CASE Delivery!Load(w)
      <4> DEFINE h == [handler[w] EXCEPT !.pc = "post", !.status = claim.status,
                                         !.decision = claim.decision]
      <4>1. handler' = [handler EXCEPT ![w] = h]
        BY <1>2, <3>1 DEF Delivery!Load
      <4>2. h \in Hand /\ h.decision = claim.decision
        BY <1>2, <1>4 DEF Hand, Claim
      <4> QED BY <4>1, <4>2
    <3>2. CASE Delivery!PostSucceeds(w)
      <4> DEFINE h == [handler[w] EXCEPT !.pc = "append", !.delivered = TRUE]
      <4>1. handler' = [handler EXCEPT ![w] = h] /\ handler[w].pc = "post"
        BY <3>2 DEF Delivery!PostSucceeds
      <4>2. h \in Hand /\ h.decision = claim.decision
        BY <1>2, <1>3, <4>1 DEF Hand
      <4> QED BY <4>1, <4>2
    <3>3. CASE Delivery!PostFails(w)
      <4> DEFINE more == [handler[w] EXCEPT !.attempt = @ + 1]
                 last == [handler[w] EXCEPT !.pc = "append"]
      <4>1. handler[w].pc = "post" /\ \E h \in {more, last} : handler' = [handler EXCEPT ![w] = h]
        BY <3>3 DEF Delivery!PostFails
      <4>2. /\ more \in Hand /\ more.decision = claim.decision
            /\ last \in Hand /\ last.decision = claim.decision
        BY <1>2, <1>3, <4>1 DEF Hand
      <4> HIDE DEF more, last
      <4> QED BY <4>1, <4>2
    <3>4. CASE Delivery!Refused(w)
      <4>1. handler' = [handler EXCEPT ![w] = Delivery!Idle]
        BY <3>4 DEF Delivery!Refused
      <4>2. Delivery!Idle.pc \notin {"post", "append"}
        BY DEF Delivery!Idle
      <4> QED BY <4>1, <4>2, Zenon
    <3> QED BY <3>1, <3>2, <3>3, <3>4
  <2> QED BY <1>1, <1>3, <2>1, HandStep DEF DeliveryInv
<1>6. topic' = topic /\ position' = position /\ committed' \in {committed, {position}}
  BY DEF Delivery!Load, Delivery!PostSucceeds, Delivery!PostFails, Delivery!Refused
<1> QED BY <1>3, <1>5, <1>6, LenProperties DEF DeliveryInv, TopicKnown, GroupKnown

LEMMA GroupKeeps ==
  ASSUME WorkflowInv, DeliveryInv, UNCHANGED vars,
         Delivery!AutoCommit \/ \E w \in Replicas : Delivery!Assign(w)
  PROVE  DeliveryInv'
<1> USE DEF Delivery!channel, Delivery!group
<1>1. /\ UNCHANGED <<topic, handler>>
      /\ \/ position' = position /\ committed' = {position}
         \/ position' \in {Len(topic)} \cup committed /\ committed' = committed
  BY DEF Delivery!AutoCommit, Delivery!Assign, Delivery!ResumesAt
<1>2. (Persisted <=> Persisted') /\ UNCHANGED <<log, claim>>
  BY WorkflowSame DEF vars, store
<1>3. Len(topic) \in Nat
  BY LenProperties DEF DeliveryInv, TopicKnown
<1>4. GroupKnown'
  <2>1. position \in 0..Len(topic) /\ \A n \in committed : n \in 0..Len(topic)
    BY DEF DeliveryInv, GroupKnown
  <2>2. position' \in 0..Len(topic)
    BY <1>1, <1>3, <2>1
  <2>3. \A n \in committed' : n \in 0..Len(topic)
    BY <1>1, <2>1
  <2> QED BY <1>1, <2>2, <2>3 DEF GroupKnown
<1>5. TopicKnown' /\ HandsKnow'
  BY <1>1, <1>2 DEF DeliveryInv, TopicKnown, HandsKnow
<1> QED BY <1>4, <1>5 DEF DeliveryInv

LEMMA ConcludeKeeps ==
  ASSUME Inv, NEW w \in Replicas, Concludes(w)
  PROVE  Inv'
<1> DEFINE t == Delivery!Outcome(handler[w])
<1>1. w \in Delivery!Workers /\ handler[w].pc = "append" /\ t \in {"CLAIM_NOTIFIED", "NOTIFY_FAILED"}
  BY DEF Delivery!Workers, Concludes, Delivery!Outcome
<1>2. handler[w].claim = TheClaim
  BY <1>1, HandType DEF Inv, DeliveryInv
<1>3. Legal(claim, Plain(t))
  BY <1>2, Same DEF Concludes, Delivery!Conclude, Delivery!Concluded
<1>4. Store(Plain(t)) /\ UNCHANGED <<engine, signals, late, env, told>>
  BY DEF Concludes
<1>5. /\ UNCHANGED <<topic, position, committed>>
      /\ handler' = [handler EXCEPT ![w] = Delivery!Idle]
  BY DEF Concludes, Delivery!Conclude, Delivery!channel, Delivery!group
<1> HIDE DEF t
<1>6. /\ WorkflowInv' /\ TypesStay
      /\ Persisted => Persisted' /\ claim'.decision = claim.decision
  BY <1>1, <1>3, <1>4, NoticeKeeps DEF Inv
<1>7. /\ handler' \in [Delivery!Workers -> Hand \cup {Delivery!Idle}]
      /\ \A v \in Delivery!Workers : handler'[v] \in {handler[v], Delivery!Idle}
  BY <1>1, <1>5 DEF Inv, DeliveryInv, HandsKnow
<1>8. DeliveryInv'
  BY <1>5, <1>6, <1>7, WorkflowDelivers DEF Inv
<1>9. ToldKnown'
  BY <1>4, <1>6, ToldStays DEF Inv
<1> QED BY <1>6, <1>8, <1>9 DEF Inv

-----------------------------------------------------------------------------
LEMMA InitInv == EndToEndInit => Inv
<1> SUFFICES ASSUME EndToEndInit PROVE Inv
  OBVIOUS
<1>1. WorkflowInv
  BY InitWorkflow DEF EndToEndInit
<1>2. topic = <<>> /\ position = 0 /\ committed \subseteq {0} /\ told = {}
      /\ handler = [w \in Delivery!Workers |-> Delivery!Idle]
  BY DEF EndToEndInit, Delivery!Init
<1>3. TopicKnown /\ GroupKnown
  BY <1>2 DEF TopicKnown, GroupKnown
<1>4. HandsKnow
  BY <1>2 DEF HandsKnow, Delivery!Idle
<1>5. ToldKnown
  BY <1>2 DEF ToldKnown, ToldDecisionStands
<1> QED BY <1>1, <1>3, <1>4, <1>5 DEF Inv, DeliveryInv

LEMMA WorkflowStepInv ==
  ASSUME OneLate, Inv, WorkflowStep
  PROVE  Inv'
<1>1. Next /\ UNCHANGED delivery
  BY DEF WorkflowStep, Next
<1>2. /\ WorkflowInv' /\ TypesStay
      /\ Persisted => Persisted' /\ claim'.decision = claim.decision
  BY <1>1, WorkflowKeeps DEF Inv
<1>3. UNCHANGED <<topic, position, committed, handler, told>>
  BY <1>1 DEF delivery
<1>4. DeliveryInv'
  BY <1>2, <1>3, WorkflowDelivers DEF Inv, DeliveryInv, HandsKnow
<1>5. ToldKnown'
  BY <1>2, <1>3, ToldStays DEF Inv
<1> QED BY <1>2, <1>4, <1>5 DEF Inv

LEMMA NextInv == OneLate /\ Inv /\ [EndToEndNext]_allVars => Inv'
<1> SUFFICES ASSUME OneLate, Inv, [EndToEndNext]_allVars PROVE Inv'
  OBVIOUS
<1>1. CASE WorkflowStep
  BY <1>1, WorkflowStepInv
<1>2. ASSUME UNCHANGED <<vars, told>>, DeliveryInv' PROVE Inv'
  <2>1. WorkflowInv' /\ (Persisted <=> Persisted') /\ claim' = claim
    BY <1>2, WorkflowSame DEF Inv, vars, store
  <2>2. ToldKnown'
    BY <1>2, <2>1, ToldStays DEF Inv
  <2> QED BY <1>2, <2>1, <2>2 DEF Inv
<1>3. CASE CommitStep \/ AssignStep
  BY <1>2, <1>3, GroupKeeps DEF Inv, CommitStep, AssignStep
<1>4. ASSUME NEW n \in 1..MaxTopic, RelayStep(n) PROVE Inv'
  <2>1. TopicKnown' /\ GroupKnown'
    BY <1>4, RelayKeeps DEF Inv, RelayStep
  <2>2. HandsKnow'
    <3>1. UNCHANGED <<handler, claim>> /\ (Persisted <=> Persisted')
      BY <1>4, WorkflowSame DEF Inv, RelayStep, Delivery!RelayPublishes, vars, store
    <3> QED BY <3>1 DEF Inv, DeliveryInv, HandsKnow
  <2> QED BY <1>2, <1>4, <2>1, <2>2 DEF RelayStep, DeliveryInv
<1>5. ASSUME NEW w \in Replicas, ReceiveStep(w) PROVE Inv'
  BY <1>2, <1>5, ReceiveKeeps DEF Inv, ReceiveStep
<1>6. ASSUME NEW w \in Replicas, NotifyStep(w) PROVE Inv'
  <2>1. CASE Concludes(w)
    BY <2>1, ConcludeKeeps
  <2>2. CASE Posts(w)
    <3>1. DeliveryInv' /\ UNCHANGED vars
      BY <2>2, NotifyKeeps DEF Inv, Posts
    <3>2. WorkflowInv' /\ (Persisted <=> Persisted') /\ claim' = claim
      BY <3>1, WorkflowSame DEF Inv, vars, store
    <3>3. w \in Delivery!Workers /\ handler[w].pc = "post"
      BY <2>2 DEF Delivery!Workers, Posts, Delivery!PostSucceeds, Delivery!PostFails
    <3>4. Persisted /\ handler[w].decision = claim.decision
      BY <3>3 DEF Inv, DeliveryInv, HandsKnow
    <3>5. told' = told \cup {handler[w].decision}
      BY <2>2 DEF Posts
    <3>6. ToldKnown'
      BY <3>2, <3>4, <3>5 DEF Inv, ToldKnown, ToldDecisionStands
    <3> QED BY <3>1, <3>2, <3>6 DEF Inv
  <2>3. CASE UNCHANGED <<vars, told>> /\ (Delivery!Load(w) \/ Delivery!Refused(w))
    BY <1>2, <2>3, NotifyKeeps DEF Inv
  <2> QED BY <1>6, <2>1, <2>2, <2>3 DEF NotifyStep
<1>7. CASE UNCHANGED allVars
  <2>1. UNCHANGED <<vars, told, topic, position, committed, handler>>
    BY <1>7 DEF allVars, delivery
  <2>2. TypesStay /\ (Persisted <=> Persisted') /\ claim' = claim
    BY <2>1, WorkflowSame DEF Inv, vars, store
  <2>3. DeliveryInv'
    BY <2>1, <2>2, WorkflowDelivers DEF Inv, DeliveryInv, HandsKnow
  <2> QED BY <1>2, <2>1, <2>3
<1> QED BY <1>1, <1>3, <1>4, <1>5, <1>6, <1>7 DEF EndToEndNext

\* What a customer has been told stays the claim's decision: for any valid pipeline, rules
\* that change, reviewers, failing activities and webhooks, repeated deliveries, as long as
\* no second attempt is given up while it is about to append.
THEOREM ToldStands == OneLate => (EndToEndSpec => []ToldDecisionStands)
<1>1. Inv => ToldDecisionStands
  BY DEF Inv, ToldKnown
<1>2. CASE OneLate
  <2>1. Inv /\ [EndToEndNext]_allVars => Inv'
    BY <1>2, NextInv
  <2>2. EndToEndSpec => []ToldDecisionStands
    BY <1>1, <2>1, InitInv, PTL DEF EndToEndSpec
  <2> QED BY <2>2
<1> QED BY <1>2
=============================================================================
