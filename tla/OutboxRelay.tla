---------------------------- MODULE OutboxRelay ----------------------------
(***************************************************************************)
(* The outbox relay (relay.py): fetch the unpublished rows by id, publish  *)
(* them one by one, mark them, again and again; and its crashes. The chart *)
(* runs one replica, but a rolling update starts the next pod before it    *)
(* stops the last, so several relays may work on the outbox at once.       *)
(*                                                                         *)
(* The rows come from module PostgresStore: ids are drawn before commit,   *)
(* so a row may become visible after rows with larger ids, but within one  *)
(* claim ids follow the history (OutboxFollowsHistory there).              *)
(***************************************************************************)
EXTENDS Naturals, Sequences, FiniteSets

CONSTANTS Claims,
          Relays,
          MaxId,      \* bound: outbox ids drawn
          BatchSize,  \* run_once's batch
          MaxCrashes  \* bound: crashes of the relays

ASSUME RelayAssumption == MaxId \in Nat /\ BatchSize \in Nat \ {0} /\ MaxCrashes \in Nat

VARIABLES rows,      \* the outbox: [id, claim, seq]
          published, \* ids whose row is marked published
          fetched,   \* per relay, run_once's events: the ids it will mark
          sent,      \* per relay, how far its loop has come
          topic,     \* claim-events
          crashes    \* crashes so far

vars == <<rows, published, fetched, sent, topic, crashes>>

Row == [id : 1..MaxId, claim : Claims, seq : Nat \ {0}]

Length(c) == Cardinality({o \in rows : o.claim = c})

Bus == INSTANCE EventBus WITH length <- [c \in Claims |-> Length(c)]

OnTopic(o) == \E m \in DOMAIN topic : topic[m] = <<o.claim, o.seq>>

TypeOK == /\ rows \subseteq Row
          /\ published \subseteq 1..MaxId
          /\ fetched \in [Relays -> SUBSET (1..MaxId)]
          /\ sent \in [Relays -> SUBSET (1..MaxId)]
          /\ \A p \in Relays : sent[p] \subseteq fetched[p]
          /\ topic \in Seq(Claims \X (Nat \ {0}))
          /\ crashes \in 0..MaxCrashes

Idle == [p \in Relays |-> {}]

Init == /\ rows = {} /\ published = {} /\ fetched = Idle /\ sent = Idle
        /\ topic = <<>> /\ crashes = 0

\* A transaction that appended to c commits; its id need not be the largest so far.
Commit(c, i) ==
  /\ \A o \in rows : o.id # i /\ (o.claim = c => o.id < i)
  /\ rows' = rows \cup {[id |-> i, claim |-> c, seq |-> Length(c) + 1]}
  /\ UNCHANGED <<published, fetched, sent, topic, crashes>>

Waiting == {o \in rows : o.id \notin published}

\* Mutants of Selected: rows are read from a cursor; rows are read newest first.
SelectedByCursor ==
  {o.id : o \in {o \in Waiting :
     /\ \A i \in published : i < o.id
     /\ Cardinality({p \in Waiting : p.id < o.id}) < BatchSize}}
SelectedNewest ==
  {o.id : o \in {o \in Waiting : Cardinality({p \in Waiting : p.id > o.id}) < BatchSize}}

\* SELECT ... WHERE NOT published ORDER BY id LIMIT BatchSize
Selected ==
  {o.id : o \in {o \in Waiting : Cardinality({p \in Waiting : p.id < o.id}) < BatchSize}}

Fetch(p) == /\ fetched[p] = {} /\ Selected # {}
            /\ fetched' = [fetched EXCEPT ![p] = Selected]
            /\ UNCHANGED <<rows, published, sent, topic, crashes>>

\* bus.publish of the next event of the batch, in id order
Publish(p, o) ==
  /\ o.id \in fetched[p] \ sent[p]
  /\ \A i \in fetched[p] \ sent[p] : o.id <= i
  /\ topic' = Append(topic, <<o.claim, o.seq>>)
  /\ sent' = [sent EXCEPT ![p] = @ \cup {o.id}]
  /\ UNCHANGED <<rows, published, fetched, crashes>>

\* Mutant of Sent: the rows are marked before the loop.
SentFirst(p) == fetched[p] # {}

Sent(p) == fetched[p] # {} /\ sent[p] = fetched[p]

\* Mutants of Mark: the next batch starts where this one ended; the batch is marked
\* by the largest id published.
MarkUnreset(p) == /\ Sent(p)
                  /\ published' = published \cup fetched[p]
                  /\ fetched' = [fetched EXCEPT ![p] = {}]
                  /\ UNCHANGED <<rows, sent, topic, crashes>>
MarkUpTo(p) == /\ Sent(p)
               /\ published' = {o.id : o \in {o \in rows : \E i \in fetched[p] : o.id <= i}}
               /\ fetched' = [fetched EXCEPT ![p] = {}] /\ sent' = [sent EXCEPT ![p] = {}]
               /\ UNCHANGED <<rows, topic, crashes>>

\* mark_published comes after the loop over the batch; another relay may have marked
\* some of it already.
Mark(p) == /\ Sent(p)
           /\ published' = published \cup fetched[p]
           /\ fetched' = [fetched EXCEPT ![p] = {}] /\ sent' = [sent EXCEPT ![p] = {}]
           /\ UNCHANGED <<rows, topic, crashes>>

\* The process dies, or publish or the database raises; run starts over.
Crash(p) == /\ fetched[p] # {} /\ crashes < MaxCrashes
            /\ crashes' = crashes + 1
            /\ fetched' = [fetched EXCEPT ![p] = {}] /\ sent' = [sent EXCEPT ![p] = {}]
            /\ UNCHANGED <<rows, published, topic>>

RunOnce(p) == Fetch(p) \/ (\E o \in rows : Publish(p, o)) \/ Mark(p)

Next == \/ \E c \in Claims, i \in 1..MaxId : Commit(c, i)
        \/ \E p \in Relays : RunOnce(p) \/ Crash(p)

Spec == Init /\ [][Next]_vars

\* Each relay polls for ever.
FairSpec == Spec /\ \A p \in Relays : WF_vars(RunOnce(p))

-----------------------------------------------------------------------------
\* What the relay puts on the topic is what EventBus promises: no event of a claim
\* overtakes an earlier one, although batches are cut short, repeated, published by two
\* relays at once, and rows show up below ids that were already published (relay.py:3
\* "At-least-once delivery").
ImplementsEventBus == Bus!BusSpec

\* A row that is marked, and so never fetched again, is on the topic: a crash between
\* publish and mark repeats, it never loses, and no relay marks for another.
MarkedIsOnTopic == \A o \in rows : o.id \in published => OnTopic(o)

\* Every committed event reaches the topic, also one that became visible late.
EventuallyOnTopic ==
  \A c \in Claims : \A n \in 1..MaxId : n <= Length(c) ~> Bus!OnTopic(c, n)
=============================================================================
