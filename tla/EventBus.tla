------------------------------ MODULE EventBus ------------------------------
(***************************************************************************)
(* What the message bus promises its consumers: each committed event is on *)
(* the topic at least once, and a claim's events appear in the order of    *)
(* its history, repetitions aside (README "outbox", relay.py docstring).   *)
(* OutboxRelay implements it; Notifier consumes it.                        *)
(***************************************************************************)
EXTENDS Naturals, Sequences

CONSTANT Claims

VARIABLES length,  \* events committed per claim
          topic    \* <<claim, seq>> of the messages on claim-events, one partition

busVars == <<length, topic>>

EventIds == Claims \X (Nat \ {0})

OnTopic(c, n) == \E m \in DOMAIN topic : topic[m] = <<c, n>>

BusTypeOK == length \in [Claims -> Nat] /\ topic \in Seq(EventIds)

BusInit == length = [c \in Claims |-> 0] /\ topic = <<>>

Committed(c) == /\ length' = [length EXCEPT ![c] = @ + 1]
                /\ UNCHANGED topic

\* An event not published yet follows the ones before it; a published one may come again.
Publishable(c, n) == /\ n \in 1..length[c]
                     /\ \A m \in 1..(n - 1) : OnTopic(c, m)

Publication(c, n) == /\ Publishable(c, n)
                     /\ topic' = Append(topic, <<c, n>>)
                     /\ UNCHANGED length

BusNext == \E c \in Claims : Committed(c) \/ \E n \in 1..length[c] : Publication(c, n)

BusSpec == BusInit /\ [][BusNext]_busVars
=============================================================================
