-------------------------- MODULE AdjudicationProofs --------------------------
(***************************************************************************)
(* Proofs about Adjudication, for any amounts, confidences, settings and   *)
(* numbers of attempts, late attempts and changes of the reference data.   *)
(* The rule sets are read off as decision tables first (DecisionTable):    *)
(* what is proved of the decisions is proved of those tables.  The         *)
(* argument about the attempts is that an attempt, however late, carries   *)
(* only what was true of the claim's history when it read it (Grounded),   *)
(* and that this stays true, since histories only grow.                    *)
(***************************************************************************)
EXTENDS Adjudication, SequenceTheorems, FiniteSetTheorems, TLAPS

Holds(rule, facts) == \A c \in rule.conditions : Matches(c, facts)

Given(fact) == fact # None

Unsure(f)    == Given(f.confidence) /\ f.confidence < 60
OverLimit(f) == Given(f.amount) /\ f.amount > 100000
Sizeable(f)  == Given(f.amount) /\ f.amount >= 25000

Reviewed(f) == IF f.escalated = TRUE \/ Unsure(f) THEN "PEND" ELSE "APPROVE"

Covered(f) == IF Given(f.policy_status) /\ f.policy_status # "active" THEN "DENY"
              ELSE IF Given(f.policy_found) /\ f.policy_found = FALSE THEN "PEND"
              ELSE IF OverLimit(f) THEN "DENY"
              ELSE Reviewed(f)

Structured(f) == IF OverLimit(f) THEN "DENY" ELSE IF Sizeable(f) THEN "PEND" ELSE "APPROVE"

Table(type, f) == CASE type = "generic-document" -> Reviewed(f)
                    [] type = "auto-fnol"        -> Covered(f)
                    [] type = "structured-claim" -> Structured(f)
                    [] OTHER                     -> "PEND"

-----------------------------------------------------------------------------
SizeableRule == Rule({If("amount", "gte", 25000)}, "PEND")

LEMMA FirstHit ==
  ASSUME NEW rules, NEW f, DOMAIN rules \subseteq Nat, NEW i \in DOMAIN rules,
         Holds(rules[i], f), \A j \in DOMAIN rules : j < i => ~Holds(rules[j], f)
  PROVE  Adjudicate(rules, f) = rules[i].outcome
<1> DEFINE H == Hits(rules, f)
<1>1. \A j \in DOMAIN rules : j \in H <=> Holds(rules[j], f)
  BY DEF Hits, Holds
<1>2. H \subseteq DOMAIN rules /\ H \subseteq Nat
  BY DEF Hits
<1>3. i \in H /\ \A j \in H : i <= j
  BY <1>1, <1>2
<1>4. \A x \in H : (\A y \in H : x <= y) => x = i
  BY <1>2, <1>3
<1>5. Min(H) = CHOOSE x \in H : \A y \in H : x <= y
  BY Zenon DEF Min
<1>6. Min(H) = i
  <2> HIDE DEF H
  <2> QED BY <1>3, <1>4, <1>5
<1>7. H # {}
  BY <1>3
<1> QED BY <1>6, <1>7 DEF Adjudicate

\* Each kind of condition the shipped rules use, alone in a rule
LEMMA OneCondition ==
  ASSUME NEW field, NEW op, NEW value, NEW outcome, NEW f
  PROVE  LET held == Holds(Rule({If(field, op, value)}, outcome), f)
         IN  /\ op = "eq"  => (held <=> Given(f[field]) /\ f[field] = value)
             /\ op = "ne"  => (held <=> Given(f[field]) /\ f[field] # value)
             /\ op = "lt"  => (held <=> Given(f[field]) /\ f[field] < value)
             /\ op = "gt"  => (held <=> Given(f[field]) /\ f[field] > value)
             /\ op = "gte" => (held <=> Given(f[field]) /\ f[field] >= value)
<1> DEFINE c == If(field, op, value)
<1>1. c.field = field /\ c.op = op /\ c.value = value
  BY DEF If
<1>2. Holds(Rule({c}, outcome), f) <=> Matches(c, f)
  BY DEF Holds, Rule
<1> HIDE DEF c
<1>3. CASE op = "eq"
  BY <1>1, <1>2, <1>3 DEF Matches, Given, c
<1>4. CASE op = "ne"
  BY <1>1, <1>2, <1>4 DEF Matches, Given, c
<1>5. CASE op \in {"lt", "gt", "gte"}
  <2>1. Matches(c, f) <=> Given(f[field]) /\ Compare(op, f[field], value)
    BY <1>1, <1>5 DEF Matches, Given
  <2> QED BY <1>2, <1>5, <2>1 DEF Compare, c
<1> QED BY <1>3, <1>4, <1>5

LEMMA Fields ==
  ASSUME NEW f \in Facts
  PROVE  /\ f["amount"] = f.amount /\ f["escalated"] = f.escalated
         /\ f["confidence"] = f.confidence /\ f["policy_found"] = f.policy_found
         /\ f["policy_status"] = f.policy_status
BY DEF Facts

LEMMA EscalatedRule ==
  ASSUME NEW f \in Facts
  PROVE  Holds(Rule({If("escalated", "eq", TRUE)}, "PEND"), f)
           <=> f.escalated = TRUE
<1>1. Holds(Rule({If("escalated", "eq", TRUE)}, "PEND"), f)
        <=> Given(f["escalated"]) /\ f["escalated"] = TRUE
  BY OneCondition
<1>2. f.escalated \in BOOLEAN
  BY DEF Facts
<1>3. Given(f.escalated)
  BY <1>2, AdjudicationAssumption, Zenon DEF Given
<1> QED BY <1>1, <1>3, Fields, Zenon

LEMMA ConfidenceRule ==
  ASSUME NEW f \in Facts
  PROVE  Holds(Rule({If("confidence", "lt", 60)}, "PEND"), f)
           <=> Unsure(f)
BY OneCondition, Fields DEF Unsure

LEMMA LimitRule ==
  ASSUME NEW f \in Facts
  PROVE  Holds(DenyOverLimit, f)
           <=> OverLimit(f)
BY OneCondition, Fields DEF DenyOverLimit, OverLimit

LEMMA StatusRule ==
  ASSUME NEW f \in Facts
  PROVE  Holds(Rule({If("policy_status", "ne", "active")}, "DENY"), f)
           <=> Given(f.policy_status) /\ f.policy_status # "active"
BY OneCondition, Fields

LEMMA FoundRule ==
  ASSUME NEW f \in Facts
  PROVE  Holds(Rule({If("policy_found", "eq", FALSE)}, "PEND"), f)
           <=> Given(f.policy_found) /\ f.policy_found = FALSE
BY OneCondition, Fields

LEMMA HighRule ==
  ASSUME NEW f \in Facts
  PROVE  Holds(SizeableRule, f)
           <=> Sizeable(f)
BY OneCondition, Fields DEF SizeableRule, Sizeable

LEMMA CatchAll ==
  ASSUME NEW f
  PROVE  Holds(Rule({}, "APPROVE"), f)
BY DEF Holds, Rule

\* The sequences of rules, rule by rule
LEMMA ReviewRules ==
  /\ DOMAIN ReviewAndConfidence = 1..3
  /\ ReviewAndConfidence[1] = Rule({If("escalated", "eq", TRUE)}, "PEND")
  /\ ReviewAndConfidence[2] = Rule({If("confidence", "lt", 60)}, "PEND")
  /\ ReviewAndConfidence[3] = Rule({}, "APPROVE")
BY DEF ReviewAndConfidence

LEMMA StructuredRuleSet ==
  /\ DOMAIN StructuredRules = 1..3
  /\ StructuredRules[1] = DenyOverLimit
  /\ StructuredRules[2] = SizeableRule
  /\ StructuredRules[3] = Rule({}, "APPROVE")
BY DEF StructuredRules, SizeableRule

AutoFnolRules == PolicyRules \o <<DenyOverLimit>> \o ReviewAndConfidence

LEMMA AutoFnolRuleSet ==
  /\ DOMAIN AutoFnolRules = 1..6
  /\ AutoFnolRules[1] = Rule({If("policy_status", "ne", "active")}, "DENY")
  /\ AutoFnolRules[2] = Rule({If("policy_found", "eq", FALSE)}, "PEND")
  /\ AutoFnolRules[3] = DenyOverLimit
  /\ AutoFnolRules[4] = Rule({If("escalated", "eq", TRUE)}, "PEND")
  /\ AutoFnolRules[5] = Rule({If("confidence", "lt", 60)}, "PEND")
  /\ AutoFnolRules[6] = Rule({}, "APPROVE")
<1> DEFINE P == <<Rule({If("policy_status", "ne", "active")}, "DENY"),
                  Rule({If("policy_found", "eq", FALSE)}, "PEND")>>
           R == <<Rule({If("escalated", "eq", TRUE)}, "PEND"),
                  Rule({If("confidence", "lt", 60)}, "PEND"),
                  Rule({}, "APPROVE")>>
           S == {P[1], P[2], DenyOverLimit, R[1], R[2], R[3]}
<1>1. /\ P \in Seq(S) /\ Len(P) = 2
      /\ <<DenyOverLimit>> \in Seq(S) /\ Len(<<DenyOverLimit>>) = 1
      /\ R \in Seq(S) /\ Len(R) = 3
  OBVIOUS
<1>2. P[1] = Rule({If("policy_status", "ne", "active")}, "DENY")
      /\ P[2] = Rule({If("policy_found", "eq", FALSE)}, "PEND")
      /\ R[1] = Rule({If("escalated", "eq", TRUE)}, "PEND")
      /\ R[2] = Rule({If("confidence", "lt", 60)}, "PEND")
      /\ R[3] = Rule({}, "APPROVE") /\ <<DenyOverLimit>>[1] = DenyOverLimit
  OBVIOUS
<1>3. AutoFnolRules = P \o <<DenyOverLimit>> \o R
  BY DEF AutoFnolRules, PolicyRules, ReviewAndConfidence
<1> HIDE DEF P, R, S
<1>4. /\ P \o <<DenyOverLimit>> \in Seq(S) /\ Len(P \o <<DenyOverLimit>>) = 3
      /\ (P \o <<DenyOverLimit>>)[1] = P[1] /\ (P \o <<DenyOverLimit>>)[2] = P[2]
      /\ (P \o <<DenyOverLimit>>)[3] = DenyOverLimit
  BY <1>1, <1>2, ConcatProperties
<1> DEFINE Q == P \o <<DenyOverLimit>>
<1> HIDE DEF Q
<1>5. Q \in Seq(S) /\ Len(Q) = 3 /\ Q[1] = P[1] /\ Q[2] = P[2] /\ Q[3] = DenyOverLimit
  BY <1>4 DEF Q
<1>6. /\ DOMAIN (Q \o R) = 1..6
      /\ (Q \o R)[1] = Q[1] /\ (Q \o R)[2] = Q[2] /\ (Q \o R)[3] = Q[3]
      /\ (Q \o R)[4] = R[1] /\ (Q \o R)[5] = R[2] /\ (Q \o R)[6] = R[3]
  <2>1. /\ Q \o R \in Seq(S) /\ Len(Q \o R) = 6
        /\ \A i \in 1..6 : (Q \o R)[i] = IF i <= 3 THEN Q[i] ELSE R[i - 3]
    <3>1. /\ Q \o R \in Seq(S) /\ Len(Q \o R) = Len(Q) + Len(R)
          /\ \A i \in 1..(Len(Q) + Len(R)) :
               (Q \o R)[i] = IF i <= Len(Q) THEN Q[i] ELSE R[i - Len(Q)]
      BY <1>1, <1>5, ConcatProperties, Zenon
    <3> QED BY <1>1, <1>5, <3>1
  <2>2. DOMAIN (Q \o R) = 1..6
    BY <2>1, LenProperties
  <2> QED BY <2>1, <2>2
<1> QED BY <1>2, <1>3, <1>5, <1>6 DEF Q

-----------------------------------------------------------------------------
\* FirstHit for rule sets of the shipped lengths, which end in a catch-all
LEMMA FirstOfThree ==
  ASSUME NEW rules, NEW f, DOMAIN rules = 1..3, Holds(rules[3], f)
  PROVE  Adjudicate(rules, f) = IF Holds(rules[1], f) THEN rules[1].outcome
                                ELSE IF Holds(rules[2], f) THEN rules[2].outcome
                                ELSE rules[3].outcome
<1>1. DOMAIN rules \subseteq Nat /\ 1 \in DOMAIN rules /\ 2 \in DOMAIN rules /\ 3 \in DOMAIN rules
  OBVIOUS
<1>2. /\ \A j \in DOMAIN rules : ~(j < 1)
      /\ \A j \in DOMAIN rules : j < 2 => j = 1
      /\ \A j \in DOMAIN rules : j < 3 => j = 1 \/ j = 2
  OBVIOUS
<1>3. CASE Holds(rules[1], f)
  BY <1>1, <1>2, <1>3, FirstHit, Zenon
<1>4. CASE ~Holds(rules[1], f) /\ Holds(rules[2], f)
  BY <1>1, <1>2, <1>4, FirstHit, Zenon
<1>5. CASE ~Holds(rules[1], f) /\ ~Holds(rules[2], f)
  BY <1>1, <1>2, <1>5, FirstHit, Zenon
<1> QED BY <1>3, <1>4, <1>5

LEMMA FirstOfSix ==
  ASSUME NEW rules, NEW f, DOMAIN rules = 1..6, Holds(rules[6], f)
  PROVE  Adjudicate(rules, f) = IF Holds(rules[1], f) THEN rules[1].outcome
                                ELSE IF Holds(rules[2], f) THEN rules[2].outcome
                                ELSE IF Holds(rules[3], f) THEN rules[3].outcome
                                ELSE IF Holds(rules[4], f) THEN rules[4].outcome
                                ELSE IF Holds(rules[5], f) THEN rules[5].outcome
                                ELSE rules[6].outcome
<1> DEFINE Miss(j) == ~Holds(rules[j], f)
<1>1. DOMAIN rules \subseteq Nat /\ \A i \in 1..6 : i \in DOMAIN rules
  OBVIOUS
<1>2. 1 \in 1..6 /\ 2 \in 1..6 /\ 3 \in 1..6 /\ 4 \in 1..6 /\ 5 \in 1..6 /\ 6 \in 1..6
  OBVIOUS
<1>3. /\ \A j \in DOMAIN rules : ~(j < 1)
      /\ \A j \in DOMAIN rules : j < 2 => j = 1
      /\ \A j \in DOMAIN rules : j < 3 => j = 1 \/ j = 2
      /\ \A j \in DOMAIN rules : j < 4 => j = 1 \/ j = 2 \/ j = 3
      /\ \A j \in DOMAIN rules : j < 5 => j = 1 \/ j = 2 \/ j = 3 \/ j = 4
      /\ \A j \in DOMAIN rules : j < 6 => j = 1 \/ j = 2 \/ j = 3 \/ j = 4 \/ j = 5
  OBVIOUS
<1>4. CASE Holds(rules[1], f)
  BY <1>1, <1>2, <1>3, <1>4, FirstHit, Zenon
<1>5. CASE Miss(1) /\ Holds(rules[2], f)
  BY <1>1, <1>2, <1>3, <1>5, FirstHit, Zenon
<1>6. CASE Miss(1) /\ Miss(2) /\ Holds(rules[3], f)
  BY <1>1, <1>2, <1>3, <1>6, FirstHit, Zenon
<1>7. CASE Miss(1) /\ Miss(2) /\ Miss(3) /\ Holds(rules[4], f)
  BY <1>1, <1>2, <1>3, <1>7, FirstHit, Zenon
<1>8. CASE Miss(1) /\ Miss(2) /\ Miss(3) /\ Miss(4) /\ Holds(rules[5], f)
  BY <1>1, <1>2, <1>3, <1>8, FirstHit, Zenon
<1>9. CASE Miss(1) /\ Miss(2) /\ Miss(3) /\ Miss(4) /\ Miss(5)
  BY <1>1, <1>2, <1>3, <1>9, FirstHit, Zenon
<1> QED BY <1>4, <1>5, <1>6, <1>7, <1>8, <1>9, Zenon

LEMMA ReviewedTable ==
  ASSUME NEW f \in Facts
  PROVE  Adjudicate(ReviewAndConfidence, f) = Reviewed(f)
<1> DEFINE R == ReviewAndConfidence
<1>1. /\ Holds(R[1], f) <=> f.escalated = TRUE
      /\ Holds(R[2], f) <=> Unsure(f)
      /\ Holds(R[3], f)
  BY ReviewRules, EscalatedRule, ConfidenceRule, CatchAll, Zenon
<1>2. R[1].outcome = "PEND" /\ R[2].outcome = "PEND" /\ R[3].outcome = "APPROVE"
  BY ReviewRules DEF Rule
<1>3. Adjudicate(R, f) = IF Holds(R[1], f) THEN R[1].outcome
                         ELSE IF Holds(R[2], f) THEN R[2].outcome ELSE R[3].outcome
  BY <1>1, ReviewRules, FirstOfThree, Zenon
<1> HIDE DEF R
<1>4. Adjudicate(R, f) = Reviewed(f)
  BY <1>1, <1>2, <1>3, Zenon DEF Reviewed
<1> QED BY <1>4 DEF R

LEMMA StructuredTable ==
  ASSUME NEW f \in Facts
  PROVE  Adjudicate(StructuredRules, f) = Structured(f)
<1> DEFINE R == StructuredRules
<1>1. /\ Holds(R[1], f) <=> OverLimit(f)
      /\ Holds(R[2], f) <=> Sizeable(f)
      /\ Holds(R[3], f)
  BY StructuredRuleSet, LimitRule, HighRule, CatchAll, Zenon
<1>2. R[1].outcome = "DENY" /\ R[2].outcome = "PEND" /\ R[3].outcome = "APPROVE"
  BY StructuredRuleSet DEF Rule, DenyOverLimit, SizeableRule
<1>3. Adjudicate(R, f) = IF Holds(R[1], f) THEN R[1].outcome
                         ELSE IF Holds(R[2], f) THEN R[2].outcome ELSE R[3].outcome
  BY <1>1, StructuredRuleSet, FirstOfThree, Zenon
<1> HIDE DEF R
<1>4. Adjudicate(R, f) = Structured(f)
  BY <1>1, <1>2, <1>3, Zenon DEF Structured
<1> QED BY <1>4 DEF R

LEMMA CoveredTable ==
  ASSUME NEW f \in Facts
  PROVE  Adjudicate(AutoFnolRules, f) = Covered(f)
<1> DEFINE R == AutoFnolRules
<1>1. /\ Holds(R[1], f) <=> Given(f.policy_status) /\ f.policy_status # "active"
      /\ Holds(R[2], f) <=> Given(f.policy_found) /\ f.policy_found = FALSE
      /\ Holds(R[3], f) <=> OverLimit(f)
      /\ Holds(R[4], f) <=> f.escalated = TRUE
      /\ Holds(R[5], f) <=> Unsure(f)
      /\ Holds(R[6], f)
  BY AutoFnolRuleSet, StatusRule, FoundRule, LimitRule, EscalatedRule, ConfidenceRule,
     CatchAll, Zenon
<1>2. /\ R[1].outcome = "DENY" /\ R[2].outcome = "PEND" /\ R[3].outcome = "DENY"
      /\ R[4].outcome = "PEND" /\ R[5].outcome = "PEND" /\ R[6].outcome = "APPROVE"
  BY AutoFnolRuleSet DEF Rule, DenyOverLimit
<1>3. Adjudicate(R, f) = IF Holds(R[1], f) THEN R[1].outcome
                         ELSE IF Holds(R[2], f) THEN R[2].outcome
                         ELSE IF Holds(R[3], f) THEN R[3].outcome
                         ELSE IF Holds(R[4], f) THEN R[4].outcome
                         ELSE IF Holds(R[5], f) THEN R[5].outcome ELSE R[6].outcome
  BY <1>1, AutoFnolRuleSet, FirstOfSix, Zenon
<1> HIDE DEF R
<1>4. Adjudicate(R, f) = Covered(f)
  BY <1>1, <1>2, <1>3, Zenon DEF Covered, Reviewed
<1> QED BY <1>4 DEF R

\* The rule set of a claim type and the facts decide as the table of the type says,
\* with PEND for a type without rules: what first-match evaluation of the shipped rules
\* comes to, whatever of the facts is missing.
THEOREM DecisionTable ==
  ASSUME NEW type, NEW f \in Facts
  PROVE  Adjudicate(RuleSet(type), f) = Table(type, f)
<1>1. CASE type = "generic-document"
  BY <1>1, ReviewedTable DEF RuleSet, Table
<1>2. CASE type = "auto-fnol"
  BY <1>2, CoveredTable DEF RuleSet, Table, AutoFnolRules
<1>3. CASE type = "structured-claim"
  BY <1>3, StructuredTable DEF RuleSet, Table
<1>4. CASE type \notin {"generic-document", "auto-fnol", "structured-claim"}
  <2>1. RuleSet(type) = <<>> /\ Table(type, f) = "PEND"
    BY <1>4 DEF RuleSet, Table
  <2>2. Hits(<<>>, f) = {}
    BY DEF Hits
  <2> QED BY <2>1, <2>2 DEF Adjudicate
<1> QED BY <1>1, <1>2, <1>3, <1>4

LEMMA RaisingIsMonotone ==
  ASSUME NEW type, NEW f \in Facts, f.amount # None,
         NEW more \in Amounts, more > f.amount
  PROVE  Favour(Adjudicate(RuleSet(type), [f EXCEPT !.amount = more]))
           <= Favour(Adjudicate(RuleSet(type), f))
<1> DEFINE g == [f EXCEPT !.amount = more]
<1>1. /\ g \in Facts /\ g.amount = more /\ g.escalated = f.escalated
      /\ g.confidence = f.confidence /\ g.policy_found = f.policy_found
      /\ g.policy_status = f.policy_status
  BY DEF Facts
<1>2. f.amount \in Nat /\ more \in Nat /\ more # None
  BY AdjudicationAssumption DEF Facts
<1> HIDE DEF g
<1>3. Reviewed(g) = Reviewed(f) /\ Reviewed(f) \in {"PEND", "APPROVE"}
  BY <1>1 DEF Reviewed, Unsure
<1>4. /\ OverLimit(f) => OverLimit(g)
      /\ Sizeable(f) => Sizeable(g)
  BY <1>1, <1>2 DEF OverLimit, Sizeable, Given
<1>5. Favour("APPROVE") = 2 /\ Favour("PEND") = 1 /\ Favour("DENY") = 0
  BY DEF Favour
<1>6. Favour(Structured(g)) <= Favour(Structured(f))
  BY <1>4, <1>5 DEF Structured
<1>7. Favour(Covered(g)) <= Favour(Covered(f))
  BY <1>1, <1>3, <1>4, <1>5 DEF Covered
<1>8. Favour(Table(type, g)) <= Favour(Table(type, f))
  BY <1>3, <1>5, <1>6, <1>7 DEF Table
<1> QED BY <1>1, <1>8, DecisionTable DEF g

LEMMA AdjudicateType ==
  ASSUME NEW type, NEW f \in Facts
  PROVE  Adjudicate(RuleSet(type), f) \in Decision
BY DecisionTable DEF Table, Reviewed, Covered, Structured, Decision

LEMMA EnrichType ==
  ASSUME NEW f \in Facts, NEW number \in BOOLEAN, NEW answer \in Answer
  PROVE  LET e == Enrich(f, number, answer)
         IN  /\ e \in Facts /\ e.amount = f.amount /\ e.escalated = f.escalated
             /\ number /\ answer # Unwired =>
                  /\ e.policy_found = (answer # None)
                  /\ e.policy_status = IF answer = None THEN f.policy_status ELSE answer
             /\ answer = Unwired => e = f
BY DEF Enrich, Facts, Answer, Status

-----------------------------------------------------------------------------
(* The inductive invariant *)
Scored == claim.type # "structured-claim"

\* Some run of the model left the claim unescalated.
KeptByModel == \E i \in DOMAIN runs : ~runs[i].escalated

Routed(run) == run.escalated <=> ShouldEscalate(run.cost, Value, Threshold, HighValue)

\* Facts that hold of the claim whenever they were gathered
Grounded(facts) ==
  /\ facts \in Facts /\ facts.amount = claim.amount
  /\ Scored /\ ~facts.escalated => KeptByModel

\* What the facts say of the policy is one answer folded into what the claimant stated.
Told(facts, answer) ==
  IF answer = Unwired
  THEN facts.policy_found = claim.policy_found /\ facts.policy_status = claim.policy_status
  ELSE /\ facts.policy_found = (answer # None)
       /\ facts.policy_status = IF answer = None THEN claim.policy_status ELSE answer

Asked(facts, answers) == claim.policy_number => \E answer \in answers : Told(facts, answer)

RunsRouted ==
  /\ \A a \in Attempts : llm[a].pc = "append" => llm[a].run \in Run /\ Routed(llm[a].run)
  /\ \A i \in DOMAIN runs : Routed(runs[i])

ScoredFirst ==
  /\ Scored /\ engine.stage \in {"ADJUDICATE", "DONE"} => runs # <<>>
  /\ \A a \in Attempts : Scored /\ adj[a].pc \in {"events", "decide", "append"} => runs # <<>>

AttemptGrounded(a) ==
  /\ adj[a].pc = "decide" /\ Scored /\ ~adj[a].escalated => KeptByModel
  /\ adj[a].pc \in {"events", "decide", "append"} => adj[a].since <= Len(policy)
  /\ adj[a].pc = "append" => Grounded(adj[a].facts) /\ Asked(adj[a].facts, AnswersTo(a))

AttemptsGrounded == \A a \in Attempts : AttemptGrounded(a)

DecisionsGrounded == \A i \in DOMAIN decisions :
  /\ Grounded(decisions[i].facts) /\ Asked(decisions[i].facts, decisions[i].answers)
  /\ decisions[i].decision = Adjudicate(RuleSet(claim.type), decisions[i].facts)

Over(attempts) == {a \in Attempts : attempts[a].pc = "over"}

OncePerAttempt == /\ Len(runs) <= Cardinality(Over(llm))
                  /\ Len(decisions) <= Cardinality(Over(adj))

Attempt == [pc : {"idle", "events", "decide", "append", "over"},
            since : 1..(MaxChanges + 1), confidence : Score, escalated : BOOLEAN,
            facts : Facts \cup {None}]

Inv == /\ TypeOK /\ claim \in Submitted
       /\ RunsRouted /\ ScoredFirst /\ AttemptsGrounded /\ DecisionsGrounded
       /\ OncePerAttempt

-----------------------------------------------------------------------------
LEMMA OverFinite ==
  ASSUME NEW attempts
  PROVE  /\ IsFiniteSet(Over(attempts)) /\ Cardinality(Over(attempts)) \in Nat
         /\ Cardinality(Over(attempts)) <= MaxAttempts
<1>1. IsFiniteSet(Attempts) /\ Cardinality(Attempts) = MaxAttempts
  BY FS_Interval, AdjudicationAssumption DEF Attempts
<1>2. Over(attempts) \in SUBSET Attempts
  BY DEF Over
<1> QED BY <1>1, <1>2, FS_Subset, FS_CardinalityType

LEMMA OverGrows ==
  ASSUME NEW before, NEW after, Over(before) \subseteq Over(after)
  PROVE  Cardinality(Over(before)) <= Cardinality(Over(after))
BY FS_Subset, OverFinite

LEMMA OverGains ==
  ASSUME NEW before, NEW after, NEW a, a \notin Over(before), Over(after) = Over(before) \cup {a}
  PROVE  Cardinality(Over(after)) = Cardinality(Over(before)) + 1
BY FS_AddElement, OverFinite

LEMMA ConfidenceType ==
  ASSUME TypeOK
  PROVE  Confidence \in Score
<1> DEFINE rows == {outputs.cost, outputs.review} \ {None}
<1>1. rows \subseteq Scores /\ Scores \subseteq Nat
  BY AdjudicationAssumption DEF TypeOK, Score
<1>2. CASE rows = {}
  BY <1>2 DEF Confidence, Score
<1>3. CASE rows # {}
  <2>1. \E x \in rows : \A y \in rows : x >= y
    <3>0. ASSUME NEW p, rows = {p}
          PROVE  \E x \in rows : \A y \in rows : x >= y
      <4> HIDE DEF rows
      <4> QED BY <1>1, <3>0
    <3>1. CASE outputs.cost = None
      <4>1. rows = {outputs.review}
        BY <1>3, <3>1
      <4> HIDE DEF rows
      <4> QED BY <3>0, <4>1
    <3>2. CASE outputs.review = None
      <4>1. rows = {outputs.cost}
        BY <1>3, <3>2
      <4> HIDE DEF rows
      <4> QED BY <3>0, <4>1
    <3>3. CASE outputs.cost # None /\ outputs.review # None
      <4>1. rows = {outputs.cost, outputs.review}
        BY <3>3
      <4>2. outputs.cost \in Nat /\ outputs.review \in Nat
        BY <1>1, <4>1
      <4>3. CASE outputs.cost >= outputs.review
        BY <4>1, <4>2, <4>3
      <4>4. CASE outputs.review >= outputs.cost
        BY <4>1, <4>2, <4>4
      <4> QED BY <4>2, <4>3, <4>4
    <3> QED BY <3>1, <3>2, <3>3
  <2>2. Max(rows) \in rows
    <3> HIDE DEF rows
    <3> QED BY <2>1, Zenon DEF Max
  <2>3. Confidence = Max(rows)
    BY <1>3 DEF Confidence
  <2> QED BY <1>1, <2>2, <2>3 DEF Score
<1> QED BY <1>2, <1>3

LEMMA EngineSteps ==
  ASSUME TypeOK, Answered \/ GivesUp \/ UNCHANGED engine
  PROVE  /\ engine' \in [stage : {"LLM", "ADJUDICATE", "DONE", "FAILED"}, attempt : Attempts]
         /\ \/ Answered /\ engine'.stage = NextStage(engine.stage)
            \/ engine'.stage \in {engine.stage, "FAILED"}
<1>1. engine \in [stage : {"LLM", "ADJUDICATE", "DONE", "FAILED"}, attempt : Attempts]
  BY DEF TypeOK
<1>2. CASE Answered
  BY <1>1, <1>2, AdjudicationAssumption DEF Answered, NextStage, Attempts
<1>3. CASE GivesUp
  <2>1. CASE engine.attempt < MaxAttempts
    <3>1. engine' = [engine EXCEPT !.attempt = @ + 1] /\ engine.attempt + 1 \in Attempts
      BY <1>1, <1>3, <2>1, AdjudicationAssumption DEF GivesUp, Attempts
    <3> QED BY <1>1, <3>1
  <2>2. CASE ~(engine.attempt < MaxAttempts)
    <3>1. engine' = [engine EXCEPT !.stage = "FAILED"]
      BY <1>3, <2>2 DEF GivesUp
    <3> QED BY <1>1, <3>1
  <2> QED BY <2>1, <2>2
<1>4. CASE UNCHANGED engine
  BY <1>1, <1>4
<1> QED BY <1>2, <1>3, <1>4

-----------------------------------------------------------------------------
(* What the steps have in common *)
\* What is grounded stays so while the claim is the same and what has run stays run.
LEMMA DecisionsKept ==
  ASSUME DecisionsGrounded, UNCHANGED <<claim, decisions>>, KeptByModel => KeptByModel'
  PROVE  DecisionsGrounded'
BY DEF DecisionsGrounded, Grounded, Scored, Asked, Told

\* The answers in time: there is one now, and what was answered stays answered.
LEMMA PolicyType ==
  ASSUME TypeOK
  PROVE  /\ Len(policy) \in Nat /\ Len(policy) \in 1..(MaxChanges + 1)
         /\ DOMAIN policy = 1..Len(policy) /\ Now \in Answer
         /\ \A k \in 1..Len(policy) : policy[k] \in Answer
<1>1. /\ policy \in Seq(Answer) /\ Len(policy) \in Nat /\ Len(policy) \in 1..(MaxChanges + 1)
      /\ DOMAIN policy = 1..Len(policy)
  BY LenProperties DEF TypeOK
<1>2. Len(policy) \in 1..Len(policy)
  BY <1>1
<1> QED BY <1>1, <1>2 DEF Now

\* An attempt that stays where it is keeps what it holds, and so does one that ends.
LEMMA AttemptsKept ==
  ASSUME TypeOK, AttemptsGrounded, NEW a \in Attempts, UNCHANGED claim,
         adj'[a] = adj[a] \/ adj'[a].pc = "over", KeptByModel => KeptByModel',
         policy' = policy \/ \E answer \in Answer : policy' = Append(policy, answer)
  PROVE  AttemptGrounded(a)'
<1>1. /\ Len(policy) \in Nat /\ Len(policy') \in Nat /\ Len(policy) <= Len(policy')
      /\ \A k \in 1..Len(policy) : policy'[k] = policy[k]
  <2>1. Len(policy) \in Nat
    BY PolicyType
  <2>2. CASE policy' = policy
    BY <2>1, <2>2
  <2>3. ASSUME NEW answer \in Answer, policy' = Append(policy, answer)
        PROVE  Len(policy') = Len(policy) + 1 /\ \A k \in 1..Len(policy) : policy'[k] = policy[k]
    <3>1. policy \in Seq(Answer)
      BY DEF TypeOK
    <3> QED BY <2>3, <3>1, AppendProperties
  <2> QED BY <2>1, <2>2, <2>3
<1>2. CASE adj'[a].pc = "over"
  BY <1>2 DEF AttemptGrounded
<1>3. CASE adj'[a] = adj[a]
  <2>1. adj[a].since \in Nat /\ adj[a].since >= 1
    BY AdjudicationAssumption DEF TypeOK
  <2>2. adj[a].pc = "append" => AnswersTo(a) \subseteq AnswersTo(a)'
    BY <1>1, <1>3, <2>1 DEF AnswersTo
  <2>3. AttemptGrounded(a) /\ (Scored' <=> Scored)
    BY DEF AttemptsGrounded, Scored
  <2>4. (adj[a].pc = "append" => Grounded(adj[a].facts))'
    BY <1>3, <2>3 DEF Grounded, AttemptGrounded
  <2>5. (adj[a].pc = "append" => Asked(adj[a].facts, AnswersTo(a)))'
    BY <1>3, <2>2, <2>3 DEF Asked, Told, AttemptGrounded
  <2>6. adj[a].pc \in {"events", "decide", "append"} => adj[a].since <= Len(policy')
    BY <1>1, <2>1, <2>3 DEF AttemptGrounded
  <2> QED BY <1>3, <2>3, <2>4, <2>5, <2>6 DEF AttemptGrounded
<1> QED BY <1>2, <1>3

LEMMA Lens ==
  ASSUME TypeOK
  PROVE  Len(runs) \in Nat /\ Len(decisions) \in Nat
BY LenProperties DEF TypeOK

-----------------------------------------------------------------------------
LEMMA OnceKept ==
  ASSUME TypeOK, OncePerAttempt, UNCHANGED <<runs, decisions>>,
         Over(llm) \subseteq Over(llm'), Over(adj) \subseteq Over(adj')
  PROVE  OncePerAttempt'
<1>1. /\ Cardinality(Over(llm)) \in Nat /\ Cardinality(Over(llm')) \in Nat
      /\ Cardinality(Over(adj)) \in Nat /\ Cardinality(Over(adj')) \in Nat
  BY OverFinite
<1>2. /\ Cardinality(Over(llm)) <= Cardinality(Over(llm'))
      /\ Cardinality(Over(adj)) <= Cardinality(Over(adj'))
  BY OverGrows
<1>3. Len(runs') = Len(runs) /\ Len(decisions') = Len(decisions)
  OBVIOUS
<1>4. /\ Len(runs') <= Cardinality(Over(llm'))
      /\ Len(decisions') <= Cardinality(Over(adj'))
  BY <1>1, <1>2, <1>3, Lens DEF OncePerAttempt
<1> QED BY <1>4 DEF OncePerAttempt

\* An attempt of run_adjudication moves on; the others stay as they are.
LEMMA AdjMoves ==
  ASSUME TypeOK, NEW a \in Attempts, NEW t \in Attempt, adj' = [adj EXCEPT ![a] = t]
  PROVE  /\ adj' \in [Attempts -> Attempt] /\ adj'[a] = t
         /\ \A b \in Attempts \ {a} : adj'[b] = adj[b]
BY DEF TypeOK, Attempt

LEMMA AdjType ==
  ASSUME TypeOK, NEW a \in Attempts
  PROVE  adj \in [Attempts -> Attempt] /\ adj[a] \in Attempt
BY DEF TypeOK, Attempt

LEMMA DecidingType ==
  ASSUME NEW pc \in {"idle", "over"}
  PROVE  Deciding(pc) \in Attempt /\ Deciding(pc).pc = pc
BY AdjudicationAssumption DEF Deciding, Attempt, Score

LEMMA InitInv == Init => Inv
<1> SUFFICES ASSUME Init PROVE Inv
  OBVIOUS
<1>1. claim \in Submitted
  BY DEF Init
<1>2. TypeOK
  <2>1. claim \in Claim
    BY DEF Init, Submitted
  <2>2. policy \in Seq(Answer) /\ Len(policy) \in 1..(MaxChanges + 1)
    <3>1. PICK answer \in Answer : policy = <<answer>>
      BY DEF Init, Answers, Answer
    <3> QED BY <3>1, AdjudicationAssumption
  <2>3. outputs \in [cost : Score, review : Score]
    BY DEF Init, Score
  <2>4. /\ runs \in Seq(Run) /\ Len(runs) <= MaxAttempts
        /\ decisions \in Seq(Row)
        /\ Len(decisions) <= MaxAttempts
    BY AdjudicationAssumption DEF Init
  <2>5. engine \in [stage : {"LLM", "ADJUDICATE", "DONE", "FAILED"}, attempt : Attempts]
    BY AdjudicationAssumption DEF Init, Attempts
  <2>6. llm \in [Attempts -> [pc : {"idle", "append", "over"}, run : Run \cup {None}]]
    BY DEF Init, Scoring
  <2>7. adj \in [Attempts -> Attempt]
    BY DecidingType DEF Init
  <2> QED BY <2>1, <2>2, <2>3, <2>4, <2>5, <2>6, <2>7 DEF TypeOK, Attempt
<1>3. RunsRouted /\ AttemptsGrounded /\ DecisionsGrounded
  BY DEF Init, Scoring, Deciding, RunsRouted, AttemptsGrounded, AttemptGrounded, DecisionsGrounded
<1>4. ScoredFirst
  BY DEF Init, ScoredFirst, Scored, Deciding
<1>5. OncePerAttempt
  <2>1. Len(runs) = 0 /\ Len(decisions) = 0
    BY DEF Init
  <2> QED BY <2>1, OverFinite DEF OncePerAttempt
<1> QED BY <1>1, <1>2, <1>3, <1>4, <1>5 DEF Inv

LEMMA PredictInv ==
  ASSUME Inv, NEW a \in Attempts, Predict(a)
  PROVE  Inv'
<1>1. PICK cost \in Scores, review \in Score :
        LET escalated == ShouldEscalate(cost, Value, Threshold, HighValue)
        IN  llm' = [llm EXCEPT ![a] =
                      [pc |-> "append",
                       run |-> [escalated |-> escalated, cost |-> cost, review |-> review]]]
  BY DEF Predict
<1> DEFINE run == [escalated |-> ShouldEscalate(cost, Value, Threshold, HighValue),
                   cost |-> cost, review |-> review]
<1>2. /\ llm[a].pc = "idle"
      /\ UNCHANGED <<claim, policy, outputs, runs, decisions, engine, adj>>
  BY DEF Predict
<1>3. run \in Run /\ Routed(run)
  BY DEF Run, Routed, ShouldEscalate
<1>4. /\ llm' \in [Attempts -> [pc : {"idle", "append", "over"}, run : Run \cup {None}]]
      /\ llm'[a] = [pc |-> "append", run |-> run]
      /\ \A b \in Attempts \ {a} : llm'[b] = llm[b]
  BY <1>1, <1>3 DEF Inv, TypeOK
<1>5. TypeOK'
  BY <1>2, <1>4 DEF Inv, TypeOK
<1>6. RunsRouted'
  <2>1. \A b \in Attempts : llm'[b].pc = "append" => llm'[b].run \in Run /\ Routed(llm'[b].run)
    BY <1>3, <1>4 DEF Inv, RunsRouted
  <2> QED BY <1>2, <2>1 DEF Inv, RunsRouted, Routed, Value
<1>7. ScoredFirst' /\ DecisionsGrounded' /\ AttemptsGrounded'
  <2>1. KeptByModel => KeptByModel'
    BY <1>2 DEF KeptByModel
  <2>2. ScoredFirst'
    BY <1>2 DEF Inv, ScoredFirst, Scored
  <2> QED BY <1>2, <2>1, <2>2, DecisionsKept, AttemptsKept DEF Inv, AttemptsGrounded
<1>8. Over(llm) \subseteq Over(llm')
  BY <1>2, <1>4 DEF Over
<1>9. OncePerAttempt'
  BY <1>2, <1>8, OnceKept DEF Inv
<1> QED BY <1>2, <1>5, <1>6, <1>7, <1>9 DEF Inv, Submitted

LEMMA AppendRunInv ==
  ASSUME Inv, NEW a \in Attempts, AppendRun(a)
  PROVE  Inv'
<1>1. /\ llm[a].pc = "append" /\ llm' = [llm EXCEPT ![a] = Scoring("over")]
      /\ UNCHANGED <<claim, policy, decisions, adj>>
  BY DEF AppendRun
<1>2. /\ llm' \in [Attempts -> [pc : {"idle", "append", "over"}, run : Run \cup {None}]]
      /\ llm'[a].pc = "over" /\ \A b \in Attempts \ {a} : llm'[b] = llm[b]
  BY <1>1 DEF Inv, TypeOK, Scoring
<1>3. a \notin Over(llm) /\ Over(llm') = Over(llm) \cup {a}
  BY <1>1, <1>2 DEF Over
<1>4. Cardinality(Over(llm')) = Cardinality(Over(llm)) + 1
  BY <1>3, OverGains
<1>5. runs \in Seq(Run) /\ Len(runs) \in Nat
  BY LenProperties DEF Inv, TypeOK
<1>6. llm[a].run \in Run /\ Routed(llm[a].run)
  BY <1>1 DEF Inv, RunsRouted
<1>7. CASE decisions # <<>>
  <2>1. UNCHANGED <<outputs, runs, engine>>
    BY <1>7 DEF AppendRun, StillOpen
  <2>2. TypeOK'
    BY <1>1, <1>2, <2>1 DEF Inv, TypeOK
  <2>3. RunsRouted'
    BY <1>1, <1>2, <2>1 DEF Inv, RunsRouted, Routed, Value
  <2>4. ScoredFirst' /\ DecisionsGrounded' /\ AttemptsGrounded'
    <3>1. KeptByModel => KeptByModel'
      BY <2>1 DEF KeptByModel
    <3>2. ScoredFirst'
      BY <1>1, <2>1 DEF Inv, ScoredFirst, Scored
    <3> QED BY <1>1, <3>1, <3>2, DecisionsKept, AttemptsKept DEF Inv, AttemptsGrounded
  <2>5. OncePerAttempt'
    BY <1>1, <1>4, <1>5, <2>1, OverFinite DEF Inv, OncePerAttempt
  <2> QED BY <1>1, <2>2, <2>3, <2>4, <2>5 DEF Inv, Submitted
<1>8. CASE decisions = <<>>
  <2>1. /\ outputs' = Upserted(llm[a].run) /\ runs' = Append(runs, llm[a].run)
        /\ Ends("LLM", a)
    BY <1>8 DEF AppendRun, StillOpen
  <2>2. /\ runs' \in Seq(Run) /\ Len(runs') = Len(runs) + 1 /\ DOMAIN runs' = 1..Len(runs')
        /\ \A i \in 1..Len(runs) : runs'[i] = runs[i]
        /\ runs'[Len(runs) + 1] = llm[a].run
    BY <1>5, <1>6, <2>1, AppendProperties, LenProperties
  <2>3. DOMAIN runs = 1..Len(runs) /\ DOMAIN runs \subseteq DOMAIN runs' /\ runs' # <<>>
    BY <1>5, <2>2, LenProperties
  <2>4. KeptByModel => KeptByModel'
    BY <2>2, <2>3 DEF KeptByModel
  <2>5. outputs' \in [cost : Score, review : Score]
    BY <1>6, <2>1 DEF Inv, TypeOK, Upserted, Run, Score
  <2>6. engine' \in [stage : {"LLM", "ADJUDICATE", "DONE", "FAILED"}, attempt : Attempts]
    BY <2>1, EngineSteps DEF Inv, Ends
  <2>7. Len(runs') <= Cardinality(Over(llm')) /\ Len(runs') <= MaxAttempts
    BY <1>4, <1>5, <2>2, OverFinite, AdjudicationAssumption DEF Inv, OncePerAttempt
  <2>8. TypeOK'
    BY <1>1, <1>2, <2>2, <2>5, <2>6, <2>7 DEF Inv, TypeOK
  <2>9. RunsRouted'
    <3>1. \A i \in DOMAIN runs' : i \in DOMAIN runs \/ i = Len(runs) + 1
      BY <1>5, <2>2, <2>3
    <3>2. \A i \in DOMAIN runs' : Routed(runs'[i])
      BY <1>6, <2>2, <2>3, <3>1 DEF Inv, RunsRouted
    <3> QED BY <1>1, <1>2, <3>2 DEF Inv, RunsRouted, Routed, Value
  <2>10. ScoredFirst'
    BY <1>1, <2>3 DEF Inv, ScoredFirst, Scored
  <2>11. DecisionsGrounded' /\ AttemptsGrounded'
    <3>1. DecisionsGrounded'
      BY <1>1, <2>4, DecisionsKept DEF Inv
    <3>2. AttemptsGrounded'
      BY <1>1, <2>4, AttemptsKept DEF Inv, AttemptsGrounded
    <3> QED BY <3>1, <3>2
  <2>12. OncePerAttempt'
    BY <1>1, <2>7 DEF Inv, OncePerAttempt
  <2> QED BY <1>1, <2>8, <2>9, <2>10, <2>11, <2>12 DEF Inv, Submitted
<1> QED BY <1>7, <1>8

LEMMA ReadOutputsInv ==
  ASSUME Inv, NEW a \in Attempts, ReadOutputs(a)
  PROVE  Inv'
<1>1. /\ engine = [stage |-> "ADJUDICATE", attempt |-> a] /\ adj[a].pc = "idle"
      /\ adj' = [adj EXCEPT ![a].pc = "events", ![a].since = Len(policy),
                             ![a].confidence = Confidence]
      /\ UNCHANGED <<claim, policy, outputs, runs, decisions, engine, llm>>
  BY DEF ReadOutputs, Waiting
<1>2. /\ adj' \in [Attempts -> Attempt]
      /\ adj'[a].pc = "events" /\ adj'[a].since = Len(policy)
      /\ \A b \in Attempts \ {a} : adj'[b] = adj[b]
  <2> DEFINE t == [adj[a] EXCEPT !.pc = "events", !.since = Len(policy), !.confidence = Confidence]
  <2>1. adj' = [adj EXCEPT ![a] = t]
    BY <1>1
  <2>2. t \in Attempt /\ t.pc = "events" /\ t.since = Len(policy)
    BY AdjType, ConfidenceType, PolicyType DEF Attempt, Inv
  <2> HIDE DEF t
  <2> QED BY <2>1, <2>2, AdjMoves DEF Inv
<1>3. TypeOK'
  BY <1>1, <1>2 DEF Inv, TypeOK, Attempt
<1>4. RunsRouted'
  BY <1>1 DEF Inv, RunsRouted, Routed, Value
<1>5. ScoredFirst'
  BY <1>1, <1>2 DEF Inv, ScoredFirst, Scored
<1>6. KeptByModel => KeptByModel'
  BY <1>1 DEF KeptByModel
<1>7. DecisionsGrounded'
  BY <1>1, <1>6, DecisionsKept DEF Inv
<1>8. AttemptsGrounded'
  <2>1. AttemptGrounded(a)'
    BY <1>1, <1>2, PolicyType DEF Inv, AttemptGrounded
  <2>2. \A b \in Attempts \ {a} : AttemptGrounded(b)'
    BY <1>1, <1>2, <1>6, AttemptsKept DEF Inv
  <2> QED BY <2>1, <2>2 DEF AttemptsGrounded
<1>9. Over(adj) \subseteq Over(adj')
  BY <1>1, <1>2 DEF Over
<1>10. OncePerAttempt'
  <2>1. Over(llm) \subseteq Over(llm')
    BY <1>1
  <2> QED BY <1>1, <1>9, <2>1, OnceKept DEF Inv
<1> QED BY <1>1, <1>3, <1>4, <1>5, <1>7, <1>8, <1>10 DEF Inv, Submitted

LEMMA ReadEventsInv ==
  ASSUME Inv, NEW a \in Attempts, ReadEvents(a)
  PROVE  Inv'
<1>1. /\ adj[a].pc = "events"
      /\ adj' = [adj EXCEPT ![a].pc = "decide", ![a].escalated = LastEscalated]
      /\ UNCHANGED <<claim, policy, outputs, runs, decisions, engine, llm>>
  BY DEF ReadEvents
<1>2. runs \in Seq(Run) /\ Len(runs) \in Nat /\ DOMAIN runs = 1..Len(runs)
  BY LenProperties DEF Inv, TypeOK
<1>3. LastEscalated \in BOOLEAN
  BY DEF LastEscalated
<1>4. Scored /\ ~LastEscalated => KeptByModel
  <2>1. ASSUME Scored, ~LastEscalated
        PROVE  KeptByModel
    <3>1. runs # <<>>
      BY <1>1, <2>1 DEF Inv, ScoredFirst
    <3>2. Len(runs) \in DOMAIN runs
      BY <1>2, <3>1, EmptySeq
    <3> QED BY <2>1, <3>1, <3>2 DEF LastEscalated, KeptByModel
  <2> QED BY <2>1
<1>5. /\ adj' \in [Attempts -> Attempt]
      /\ adj'[a].pc = "decide" /\ adj'[a].escalated = LastEscalated
      /\ adj'[a].since = adj[a].since
      /\ \A b \in Attempts \ {a} : adj'[b] = adj[b]
  <2> DEFINE t == [adj[a] EXCEPT !.pc = "decide", !.escalated = LastEscalated]
  <2>1. adj' = [adj EXCEPT ![a] = t]
    BY <1>1
  <2>2. /\ t \in Attempt /\ t.pc = "decide" /\ t.escalated = LastEscalated
        /\ t.since = adj[a].since
    BY AdjType, <1>3 DEF Attempt, Inv
  <2> HIDE DEF t
  <2> QED BY <2>1, <2>2, AdjMoves DEF Inv
<1>6. TypeOK'
  BY <1>1, <1>5 DEF Inv, TypeOK, Attempt
<1>7. RunsRouted'
  BY <1>1 DEF Inv, RunsRouted, Routed, Value
<1>8. ScoredFirst'
  BY <1>1, <1>5 DEF Inv, ScoredFirst, Scored
<1>9. (KeptByModel <=> KeptByModel') /\ (Scored <=> Scored')
  BY <1>1 DEF KeptByModel, Scored
<1>10. DecisionsGrounded'
  BY <1>1, <1>9, DecisionsKept DEF Inv
<1>11. AttemptsGrounded'
  <2>1. AttemptGrounded(a)'
    BY <1>1, <1>4, <1>5, <1>9 DEF Inv, AttemptsGrounded, AttemptGrounded
  <2>2. \A b \in Attempts \ {a} : AttemptGrounded(b)'
    BY <1>1, <1>5, <1>9, AttemptsKept DEF Inv
  <2> QED BY <2>1, <2>2 DEF AttemptsGrounded
<1>12. Over(adj) \subseteq Over(adj')
  BY <1>1, <1>5 DEF Over
<1>13. OncePerAttempt'
  <2>1. Over(llm) \subseteq Over(llm')
    BY <1>1
  <2> QED BY <1>1, <1>12, <2>1, OnceKept DEF Inv
<1> QED BY <1>1, <1>6, <1>7, <1>8, <1>10, <1>11, <1>13 DEF Inv, Submitted

LEMMA DecideInv ==
  ASSUME Inv, NEW a \in Attempts, Decide(a)
  PROVE  Inv'
<1> DEFINE e == Enrich(Stated(a), claim.policy_number, Now)
           t == [adj[a] EXCEPT !.pc = "append", !.facts = e]
<1>1. /\ adj[a].pc = "decide"
      /\ adj' = [adj EXCEPT ![a].pc = "append", ![a].facts = e]
      /\ UNCHANGED <<claim, policy, outputs, runs, decisions, engine, llm>>
  BY DEF Decide
<1>2. /\ Stated(a) \in Facts /\ claim.policy_number \in BOOLEAN /\ Now \in Answer
  BY AdjType, PolicyType DEF Inv, TypeOK, Facts, Attempt, Claim, Stated
<1>3. /\ e \in Facts /\ e.amount = claim.amount /\ e.escalated = adj[a].escalated
      /\ claim.policy_number => Told(e, Now)
  <2>1. /\ Stated(a).amount = claim.amount /\ Stated(a).escalated = adj[a].escalated
        /\ Stated(a).policy_found = claim.policy_found
        /\ Stated(a).policy_status = claim.policy_status
    BY DEF Stated
  <2>2. /\ e \in Facts /\ e.amount = Stated(a).amount /\ e.escalated = Stated(a).escalated
        /\ claim.policy_number /\ Now # Unwired =>
             /\ e.policy_found = (Now # None)
             /\ e.policy_status = IF Now = None THEN Stated(a).policy_status ELSE Now
        /\ Now = Unwired => e = Stated(a)
    BY <1>2, EnrichType
  <2> HIDE DEF e
  <2> QED BY <2>1, <2>2 DEF Told
<1> HIDE DEF e
<1>4. Grounded(e)
  <2>1. Scored /\ ~e.escalated => KeptByModel
    BY <1>1, <1>3 DEF Inv, AttemptsGrounded, AttemptGrounded
  <2> QED BY <1>3, <2>1 DEF Grounded
<1>5. /\ adj' \in [Attempts -> Attempt]
      /\ adj'[a].pc = "append" /\ adj'[a].facts = e /\ adj'[a].since = adj[a].since
      /\ \A b \in Attempts \ {a} : adj'[b] = adj[b]
  <2>1. adj' = [adj EXCEPT ![a] = t]
    BY <1>1
  <2>2. t \in Attempt /\ t.pc = "append" /\ t.facts = e /\ t.since = adj[a].since
    BY AdjType, <1>3 DEF Attempt, Inv
  <2> HIDE DEF t
  <2> QED BY <2>1, <2>2, AdjMoves DEF Inv
<1>6. TypeOK'
  BY <1>1, <1>5 DEF Inv, TypeOK, Attempt
<1>7. RunsRouted'
  BY <1>1 DEF Inv, RunsRouted, Routed, Value
<1>8. ScoredFirst'
  BY <1>1, <1>5 DEF Inv, ScoredFirst, Scored
<1>9. (KeptByModel <=> KeptByModel') /\ (Scored <=> Scored')
  BY <1>1 DEF KeptByModel, Scored
<1>10. DecisionsGrounded'
  BY <1>1, <1>9, DecisionsKept DEF Inv
<1>11. AttemptsGrounded'
  <2>1. AttemptGrounded(a)'
    <3>1. adj[a].since <= Len(policy) /\ adj[a].since \in Nat
      BY <1>1, AdjudicationAssumption DEF Inv, TypeOK, AttemptsGrounded, AttemptGrounded
    <3>2. Now \in AnswersTo(a)'
      BY <1>1, <1>5, <3>1, PolicyType DEF Inv, AnswersTo, Now
    <3>3. (Grounded(adj[a].facts) /\ Asked(adj[a].facts, AnswersTo(a)))'
      BY <1>1, <1>3, <1>4, <1>5, <1>9, <3>2 DEF Grounded, Asked, Told
    <3> QED BY <1>1, <1>5, <3>1, <3>3 DEF AttemptGrounded
  <2>2. \A b \in Attempts \ {a} : AttemptGrounded(b)'
    BY <1>1, <1>5, <1>9, AttemptsKept DEF Inv
  <2> QED BY <2>1, <2>2 DEF AttemptsGrounded
<1>12. Over(adj) \subseteq Over(adj') /\ Over(llm) \subseteq Over(llm')
  BY <1>1, <1>5 DEF Over
<1>13. OncePerAttempt'
  BY <1>1, <1>12, OnceKept DEF Inv
<1> QED BY <1>1, <1>6, <1>7, <1>8, <1>10, <1>11, <1>13 DEF Inv, Submitted

LEMMA AppendDecisionInv ==
  ASSUME Inv, NEW a \in Attempts, AppendDecision(a)
  PROVE  Inv'
<1> DEFINE f == adj[a].facts
           new == [decision |-> Adjudicate(RuleSet(claim.type), f), facts |-> f,
                   answers |-> AnswersTo(a)]
<1>1. /\ adj[a].pc = "append" /\ adj' = [adj EXCEPT ![a] = Deciding("over")]
      /\ decisions' = Append(decisions, new) /\ Ends("ADJUDICATE", a)
      /\ UNCHANGED <<claim, policy, outputs, runs, llm>>
  BY DEF AppendDecision
<1>2. f \in Facts /\ Grounded(f) /\ Asked(f, AnswersTo(a))
  BY <1>1 DEF Inv, AttemptsGrounded, AttemptGrounded, Grounded
<1>3. /\ new \in Row /\ new.facts = f /\ new.decision = Adjudicate(RuleSet(claim.type), f)
      /\ new.answers = AnswersTo(a)
  <2>1. AnswersTo(a) \subseteq Answer
    <3>1. adj[a].since \in Nat /\ adj[a].since >= 1
      BY AdjudicationAssumption DEF Inv, TypeOK
    <3> QED BY <3>1, PolicyType DEF Inv, AnswersTo
  <2> QED BY <1>2, <2>1, AdjudicateType DEF Row
<1>4. /\ adj' \in [Attempts -> Attempt] /\ adj'[a].pc = "over"
      /\ \A b \in Attempts \ {a} : adj'[b] = adj[b]
  <2>1. Deciding("over") \in Attempt /\ Deciding("over").pc = "over"
    BY DecidingType
  <2> QED BY <1>1, <2>1, AdjMoves DEF Inv
<1>5. decisions \in Seq(Row) /\ Len(decisions) \in Nat /\ DOMAIN decisions = 1..Len(decisions)
  BY LenProperties DEF Inv, TypeOK
<1> HIDE DEF new
<1>6. /\ decisions' \in Seq(Row) /\ Len(decisions') = Len(decisions) + 1
      /\ DOMAIN decisions' = 1..(Len(decisions) + 1)
      /\ \A i \in 1..Len(decisions) : decisions'[i] = decisions[i]
      /\ decisions'[Len(decisions) + 1] = new
  BY <1>1, <1>3, <1>5, AppendProperties, LenProperties
<1>7. a \notin Over(adj) /\ Over(adj') = Over(adj) \cup {a}
  BY <1>1, <1>4 DEF Over
<1>8. Cardinality(Over(adj')) = Cardinality(Over(adj)) + 1
  BY <1>7, OverGains
<1>9. Len(decisions') <= Cardinality(Over(adj')) /\ Len(decisions') <= MaxAttempts
  BY <1>5, <1>6, <1>8, OverFinite, AdjudicationAssumption DEF Inv, OncePerAttempt
<1>10. engine' \in [stage : {"LLM", "ADJUDICATE", "DONE", "FAILED"}, attempt : Attempts]
  BY <1>1, EngineSteps DEF Inv, Ends
<1>11. TypeOK'
  BY <1>1, <1>4, <1>6, <1>9, <1>10 DEF Inv, TypeOK, Attempt
<1>12. RunsRouted'
  BY <1>1 DEF Inv, RunsRouted, Routed, Value
<1>13. ScoredFirst'
  <2>1. Scored => runs # <<>>
    BY <1>1 DEF Inv, ScoredFirst
  <2> QED BY <1>1, <2>1 DEF ScoredFirst, Scored
<1>14. (KeptByModel <=> KeptByModel') /\ (Scored <=> Scored')
  BY <1>1 DEF KeptByModel, Scored
<1>15. DecisionsGrounded'
  <2>1. \A i \in DOMAIN decisions' : i \in DOMAIN decisions \/ i = Len(decisions) + 1
    BY <1>5, <1>6
  <2>2. \A i \in DOMAIN decisions' :
          /\ Grounded(decisions'[i].facts) /\ Asked(decisions'[i].facts, decisions'[i].answers)
          /\ decisions'[i].decision = Adjudicate(RuleSet(claim.type), decisions'[i].facts)
    BY <1>2, <1>3, <1>5, <1>6, <2>1 DEF Inv, DecisionsGrounded
  <2> QED BY <1>1, <1>14, <2>2 DEF DecisionsGrounded, Grounded, Asked, Told
<1>16. AttemptsGrounded'
  BY <1>1, <1>4, <1>14, AttemptsKept DEF Inv, AttemptsGrounded
<1>17. OncePerAttempt'
  BY <1>1, <1>9 DEF Inv, OncePerAttempt
<1> QED BY <1>1, <1>11, <1>12, <1>13, <1>15, <1>16, <1>17 DEF Inv, Submitted

LEMMA AttemptFailsInv ==
  ASSUME Inv, NEW a \in Attempts, AttemptFails(a)
  PROVE  Inv'
<1>1. /\ GivesUp /\ UNCHANGED <<claim, policy, outputs, runs, decisions>>
      /\ llm' \in {llm, [llm EXCEPT ![a] = Scoring("over")]}
      /\ adj' \in {adj, [adj EXCEPT ![a] = Deciding("over")]}
  BY DEF AttemptFails
<1>2. /\ llm' \in [Attempts -> [pc : {"idle", "append", "over"}, run : Run \cup {None}]]
      /\ \A b \in Attempts : llm'[b] = llm[b] \/ llm'[b].pc = "over"
  <2> DEFINE t == Scoring("over")
  <2>1. llm \in [Attempts -> [pc : {"idle", "append", "over"}, run : Run \cup {None}]]
    BY DEF Inv, TypeOK
  <2>2. llm' \in {llm, [llm EXCEPT ![a] = t]}
    BY <1>1
  <2>3. t \in [pc : {"idle", "append", "over"}, run : Run \cup {None}] /\ t.pc = "over"
    BY DEF Scoring
  <2> HIDE DEF t
  <2> QED BY <2>1, <2>2, <2>3
<1>3. /\ adj' \in [Attempts -> Attempt]
      /\ \A b \in Attempts : adj'[b] = adj[b] \/ adj'[b].pc = "over"
  <2> DEFINE t == Deciding("over")
  <2>1. adj' \in {adj, [adj EXCEPT ![a] = t]}
    BY <1>1
  <2>2. t \in Attempt /\ t.pc = "over"
    BY DecidingType
  <2> HIDE DEF t
  <2> QED BY <2>1, <2>2, AdjMoves, AdjType DEF Inv
<1>4. /\ engine' \in [stage : {"LLM", "ADJUDICATE", "DONE", "FAILED"}, attempt : Attempts]
      /\ engine'.stage \in {engine.stage, "FAILED"}
  BY <1>1, EngineSteps DEF Inv, GivesUp, TypeOK
<1>5. TypeOK'
  BY <1>1, <1>2, <1>3, <1>4 DEF Inv, TypeOK, Attempt
<1>6. RunsRouted'
  BY <1>1, <1>2 DEF Inv, RunsRouted, Routed, Value
<1>7. ScoredFirst'
  BY <1>1, <1>3, <1>4 DEF Inv, ScoredFirst, Scored
<1>8. (KeptByModel <=> KeptByModel') /\ (Scored <=> Scored')
  BY <1>1 DEF KeptByModel, Scored
<1>9. DecisionsGrounded'
  BY <1>1, <1>8, DecisionsKept DEF Inv
<1>10. AttemptsGrounded'
  BY <1>1, <1>3, <1>8, AttemptsKept DEF Inv, AttemptsGrounded
<1>11. Over(adj) \subseteq Over(adj') /\ Over(llm) \subseteq Over(llm')
  BY <1>2, <1>3 DEF Over
<1>12. OncePerAttempt'
  BY <1>1, <1>11, OnceKept DEF Inv
<1> QED BY <1>1, <1>5, <1>6, <1>7, <1>9, <1>10, <1>12 DEF Inv, Submitted

LEMMA PolicyChangesInv ==
  ASSUME Inv, PolicyChanges
  PROVE  Inv'
<1>1. PICK answer \in Answer : policy' = Append(policy, answer)
  BY DEF PolicyChanges
<1>2. /\ Len(policy) <= MaxChanges
      /\ UNCHANGED <<claim, outputs, runs, decisions, engine, llm, adj>>
  BY DEF PolicyChanges
<1>3. policy' \in Seq(Answer) /\ Len(policy') \in 1..(MaxChanges + 1)
  BY <1>1, <1>2, PolicyType, AppendProperties, AdjudicationAssumption DEF Inv, TypeOK
<1>5. TypeOK'
  BY <1>2, <1>3 DEF Inv, TypeOK
<1>6. RunsRouted' /\ ScoredFirst'
  BY <1>2 DEF Inv, RunsRouted, Routed, Value, ScoredFirst, Scored
<1>7. (KeptByModel <=> KeptByModel') /\ (Scored <=> Scored')
  BY <1>2 DEF KeptByModel, Scored
<1>8. DecisionsGrounded'
  BY <1>2, <1>7, DecisionsKept DEF Inv
<1>9. AttemptsGrounded'
  BY <1>1, <1>2, <1>7, AttemptsKept DEF Inv, AttemptsGrounded
<1>10. OncePerAttempt'
  BY <1>2, OnceKept DEF Inv
<1> QED BY <1>2, <1>3, <1>5, <1>6, <1>8, <1>9, <1>10 DEF Inv, Submitted

LEMMA NextInv == Inv /\ [Next]_vars => Inv'
<1> SUFFICES ASSUME Inv, [Next]_vars PROVE Inv'
  OBVIOUS
<1>1. ASSUME NEW a \in Attempts,
             Predict(a) \/ AppendRun(a) \/ ReadOutputs(a) \/ ReadEvents(a) \/ Decide(a)
               \/ AppendDecision(a) \/ AttemptFails(a)
      PROVE  Inv'
  BY <1>1, PredictInv, AppendRunInv, ReadOutputsInv, ReadEventsInv, DecideInv,
     AppendDecisionInv, AttemptFailsInv
<1>2. CASE PolicyChanges
  BY <1>2, PolicyChangesInv
<1>3. CASE UNCHANGED vars
  <2>1. UNCHANGED <<claim, policy, outputs, runs, decisions, engine, llm, adj>>
    BY <1>3 DEF vars
  <2>2. TypeOK' /\ RunsRouted' /\ ScoredFirst'
    BY <2>1 DEF Inv, TypeOK, RunsRouted, Routed, Value, ScoredFirst, Scored
  <2>3. (KeptByModel <=> KeptByModel') /\ (Scored <=> Scored')
    BY <2>1 DEF KeptByModel, Scored
  <2>4. DecisionsGrounded' /\ AttemptsGrounded'
    BY <2>1, <2>3, DecisionsKept, AttemptsKept DEF Inv, AttemptsGrounded
  <2>5. OncePerAttempt'
    BY <2>1, OnceKept DEF Inv
  <2> QED BY <2>1, <2>2, <2>4, <2>5 DEF Inv, Submitted
<1> QED BY <1>1, <1>2, <1>3 DEF Next

\* Every variable has its type; that a stage appends no more often than it has attempts
\* rests on the count of the attempts that are over.
THEOREM TypeCorrect == Spec => []TypeOK
<1>1. Inv => TypeOK
  BY DEF Inv
<1> QED BY <1>1, InitInv, NextInv, PTL DEF Spec

-----------------------------------------------------------------------------
\* What an approval says of the facts it was given on, whatever the type
LEMMA ApprovedFacts ==
  ASSUME Inv, NEW i \in Approvals
  PROVE  LET f == decisions[i].facts
         IN  /\ f \in Facts /\ Grounded(f) /\ Asked(f, decisions[i].answers)
             /\ Table(claim.type, f) = "APPROVE"
<1>1. i \in DOMAIN decisions /\ decisions[i].decision = "APPROVE"
  BY DEF Approvals
<1>2. /\ Grounded(decisions[i].facts) /\ decisions[i].facts \in Facts
      /\ Asked(decisions[i].facts, decisions[i].answers)
  BY <1>1 DEF Inv, DecisionsGrounded, Grounded
<1>3. Adjudicate(RuleSet(claim.type), decisions[i].facts) = "APPROVE"
  BY <1>1 DEF Inv, DecisionsGrounded
<1> QED BY <1>2, <1>3, DecisionTable

LEMMA ModelApprovals ==
  ASSUME Inv, ModelDriven, Approvals # {}
  PROVE  \E i \in DOMAIN runs : ~runs[i].escalated /\ Routed(runs[i]) /\ runs[i] \in Run
<1> PICK i \in Approvals : TRUE
  OBVIOUS
<1> DEFINE f == decisions[i].facts
<1>1. f \in Facts /\ Grounded(f) /\ Table(claim.type, f) = "APPROVE"
  BY ApprovedFacts
<1> HIDE DEF f
<1>2. Scored
  BY DEF ModelDriven, Scored
<1>3. ~f.escalated
  BY <1>1 DEF ModelDriven, Table, Reviewed, Covered, Facts
<1>4. KeptByModel
  BY <1>1, <1>2, <1>3 DEF Grounded
<1>5. \A j \in DOMAIN runs : Routed(runs[j]) /\ runs[j] \in Run
  <2>1. runs \in Seq(Run)
    BY DEF Inv, TypeOK
  <2> QED BY <2>1 DEF Inv, RunsRouted
<1> QED BY <1>4, <1>5 DEF KeptByModel

\* A model-driven claim is approved only if a run of the model was confident and did not
\* escalate it: whatever the attempts that overtake each other read, none can make up an
\* unescalated run (_persist_predictions and run_adjudication, temporal/activities.py).
THEOREM ApprovalsHaveRuns == Spec => []ApprovalHasConfidentRun
<1>1. Inv => ApprovalHasConfidentRun
  <2>1. ASSUME Inv, ModelDriven, Approvals # {}
        PROVE  \E i \in DOMAIN runs : ~runs[i].escalated /\ runs[i].cost >= Threshold
    <3> PICK i \in DOMAIN runs : ~runs[i].escalated /\ Routed(runs[i]) /\ runs[i] \in Run
      BY <2>1, ModelApprovals
    <3>1. ~(runs[i].cost < Threshold)
      BY DEF Routed, ShouldEscalate
    <3>2. runs[i].cost \in Nat /\ Threshold \in Nat
      BY AdjudicationAssumption DEF Run
    <3> QED BY <3>1, <3>2
  <2> QED BY <2>1 DEF ApprovalHasConfidentRun
<1> QED BY <1>1, InitInv, NextInv, PTL DEF Spec

\* pend-high-value compares with a literal; the setting must not be below it.
StructuredLimitHolds == HighValue >= 25000

\* With high_value_amount at its default of 25000 or above, no claim of that value or more
\* is approved without a human, however the attempts interleave.  The amount of a model-
\* driven claim is compared with the setting, that of a structured one with the literal of
\* its rule (adjudication.py:178), which does not follow the setting: hence the hypothesis.
THEOREM HighValuesWait == StructuredLimitHolds => (Spec => []HighValueNeedsHuman)
<1>1. StructuredLimitHolds /\ Inv => HighValueNeedsHuman
  <2> SUFFICES ASSUME StructuredLimitHolds, Inv, Approvals # {}
               PROVE  Value < HighValue
    BY DEF HighValueNeedsHuman
  <2> PICK i \in Approvals : TRUE
    OBVIOUS
  <2> DEFINE f == decisions[i].facts
  <2>1. f \in Facts /\ Grounded(f) /\ Table(claim.type, f) = "APPROVE"
    BY ApprovedFacts
  <2> HIDE DEF f
  <2>2. claim \in Submitted /\ claim.amount \in Amounts \cup {None}
    BY DEF Inv, TypeOK, Claim
  <2>3. Value \in Nat /\ HighValue \in Nat
    BY <2>2, AdjudicationAssumption DEF Value
  <2>4. CASE ModelDriven
    <3> PICK j \in DOMAIN runs : ~runs[j].escalated /\ Routed(runs[j]) /\ runs[j] \in Run
      BY <2>4, ModelApprovals
    <3>1. ~(Value >= HighValue)
      BY DEF Routed, ShouldEscalate
    <3> QED BY <2>3, <3>1
  <2>5. CASE claim.type = "structured-claim"
    <3>1. claim.amount # None /\ f.amount = claim.amount /\ claim.amount \in Nat
      BY <2>1, <2>2, <2>5, AdjudicationAssumption DEF Grounded, Submitted
    <3>2. ~(claim.amount >= 25000)
      BY <2>1, <2>5, <3>1 DEF Table, Structured, Sizeable, Given
    <3> QED BY <2>3, <3>1, <3>2 DEF Value, StructuredLimitHolds
  <2>6. CASE ~ModelDriven /\ claim.type # "structured-claim"
    BY <2>1, <2>6 DEF Table, ModelDriven
  <2> QED BY <2>4, <2>5, <2>6
<1>2. CASE StructuredLimitHolds
  <2>1. Inv => HighValueNeedsHuman
    BY <1>1, <1>2
  <2>2. Spec => []HighValueNeedsHuman
    BY <2>1, InitInv, NextInv, PTL DEF Spec
  <2> QED BY <2>2
<1> QED BY <1>2

\* The attempt that approved an auto-fnol claim folded one answer of its own time into what
\* the claimant stated.  No record leaves policy_found FALSE, any record its own status, and
\* neither an unknown nor a lapsed policy passes the coverage rules: the answer was active,
\* or there was no source to answer (enrich_facts, refdata.py).
THEOREM ApprovalsWereCovered == Spec => []ApprovalOnActivePolicy
<1>1. Inv => ApprovalOnActivePolicy
  <2> SUFFICES ASSUME Inv, claim.type = "auto-fnol", NEW i \in Approvals
               PROVE  \/ "active" \in decisions[i].answers
                      \/ Unwired \in decisions[i].answers /\ UncheckedCover
    BY DEF ApprovalOnActivePolicy
  <2> DEFINE f == decisions[i].facts
  <2>1. /\ f \in Facts /\ Asked(f, decisions[i].answers) /\ Table(claim.type, f) = "APPROVE"
    BY ApprovedFacts
  <2>2. claim.policy_number
    BY DEF Inv, Submitted
  <2> HIDE DEF f
  <2>3. PICK answer \in decisions[i].answers : Told(f, answer)
    BY <2>1, <2>2 DEF Asked
  <2>4. Covered(f) = "APPROVE"
    BY <2>1 DEF Table
  <2>5. /\ f.policy_status = None \/ f.policy_status = "active"
        /\ f.policy_found = None \/ f.policy_found # FALSE
    BY <2>4 DEF Covered, Given
  <2>6. CASE answer = Unwired
    <3>1. None # FALSE
      BY AdjudicationAssumption
    <3> QED BY <2>3, <2>5, <2>6, <3>1 DEF Told, UncheckedCover
  <2>7. CASE answer # Unwired /\ answer = None
    <3>1. f.policy_found = FALSE /\ None # FALSE
      BY <2>3, <2>7, AdjudicationAssumption DEF Told
    <3> QED BY <2>5, <3>1
  <2>8. CASE answer # Unwired /\ answer # None
    BY <2>3, <2>5, <2>8 DEF Told
  <2> QED BY <2>6, <2>7, <2>8
<1> QED BY <1>1, InitInv, NextInv, PTL DEF Spec

\* On the facts of any decision ever made, a larger amount would not have been decided
\* more favourably: the tables are monotone in the amount (RaisingIsMonotone).
THEOREM RaisingNeverHelps == Spec => []RaisingAmountNeverHelps
<1>1. Inv => RaisingAmountNeverHelps
  <2> SUFFICES ASSUME Inv, NEW i \in DOMAIN decisions, NEW more \in Amounts,
                      decisions[i].facts.amount # None, more > decisions[i].facts.amount
               PROVE  Favour(Adjudicate(RuleSet(claim.type),
                                        [decisions[i].facts EXCEPT !.amount = more]))
                        <= Favour(decisions[i].decision)
    BY DEF RaisingAmountNeverHelps
  <2>1. /\ decisions[i].facts \in Facts
        /\ decisions[i].decision = Adjudicate(RuleSet(claim.type), decisions[i].facts)
    BY DEF Inv, DecisionsGrounded, Grounded
  <2> QED BY <2>1, RaisingIsMonotone
<1> QED BY <1>1, InitInv, NextInv, PTL DEF Spec
===============================================================================
