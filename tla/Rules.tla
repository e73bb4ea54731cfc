------------------------------- MODULE Rules -------------------------------
(***************************************************************************)
(* Decision tables (src/claimpipe/adjudication.py), the routing of the     *)
(* cost tier's answer (llm.py) and the reference data folded into the      *)
(* facts (refdata.py).  Facts that no rule set that ships reads -- the     *)
(* claim's type, the policy's number and limit -- are left out.            *)
(*                                                                         *)
(* A fact the code has no entry for, or whose value is Python's None, is   *)
(* None here: Condition.matches does not tell the two apart.  Confidences  *)
(* are percentages.                                                        *)
(***************************************************************************)
EXTENDS Naturals, Sequences, FiniteSetsExt

CONSTANTS None, Unwired \* Unwired: no reference data source is wired

If(field, op, value) == [field |-> field, op |-> op, value |-> value]

Rule(conditions, outcome) == [conditions |-> conditions, outcome |-> outcome]

\* float(actual) op float(value); the attribute schemas leave only numbers here.
Compare(op, a, b) == \/ op = "gt"  /\ a > b
                     \/ op = "gte" /\ a >= b
                     \/ op = "lt"  /\ a < b
                     \/ op = "lte" /\ a <= b

\* A missing field fails every condition but not_exists.
Matches(c, facts) ==
  LET actual == facts[c.field]
  IN  CASE c.op = "exists"     -> actual # None
        [] c.op = "not_exists" -> actual = None
        [] c.op = "eq"         -> actual # None /\ actual = c.value
        [] c.op = "ne"         -> actual # None /\ actual # c.value
        [] c.op = "in"         -> actual # None /\ actual \in c.value
        [] OTHER               -> actual # None /\ Compare(c.op, actual, c.value)

Hits(rules, facts) == {i \in DOMAIN rules : \A c \in rules[i].conditions : Matches(c, facts)}

\* Mutant of Adjudicate: no default when no rule matches.
AdjudicateMatched(rules, facts) ==
  LET hits == Hits(rules, facts) IN IF hits = {} THEN None ELSE rules[Min(hits)].outcome

\* First match wins; facts that no rule matches PEND.
Adjudicate(rules, facts) ==
  LET hits == Hits(rules, facts) IN IF hits = {} THEN "PEND" ELSE rules[Min(hits)].outcome

-----------------------------------------------------------------------------
(* The rule sets that ship. *)
\* Mutant of ReviewAndConfidence: the model's confidence is enough.
ConfidenceAlone == << Rule({If("confidence", "lt", 60)}, "PEND"), Rule({}, "APPROVE") >>

ReviewAndConfidence ==
  << Rule({If("escalated", "eq", TRUE)}, "PEND"),
     Rule({If("confidence", "lt", 60)}, "PEND"),
     Rule({}, "APPROVE") >>

DenyOverLimit == Rule({If("amount", "gt", 100000)}, "DENY")

PolicyRules ==
  << Rule({If("policy_status", "ne", "active")}, "DENY"),
     Rule({If("policy_found", "eq", FALSE)}, "PEND") >>

\* Mutant of StructuredRules: the comparison of pend-high-value turned round.
StructuredRulesTurned ==
  << DenyOverLimit, Rule({If("amount", "lte", 25000)}, "PEND"), Rule({}, "APPROVE") >>

StructuredRules ==
  << DenyOverLimit, Rule({If("amount", "gte", 25000)}, "PEND"), Rule({}, "APPROVE") >>

\* A type without a rule set is decided by the empty one.
RuleSet(type) ==
  CASE type = "generic-document" -> ReviewAndConfidence
    [] type = "auto-fnol"        -> PolicyRules \o <<DenyOverLimit>> \o ReviewAndConfidence
    [] type = "structured-claim" -> StructuredRules
    [] OTHER                     -> <<>>

-----------------------------------------------------------------------------
\* Mutant of ShouldEscalate: a claim is of high value only above the amount.
ShouldEscalateAbove(cost, value, threshold, high) == cost < threshold \/ value > high

ShouldEscalate(cost, value, threshold, high) == cost < threshold \/ value >= high

\* answer is what reference data says of the claim's policy: its status, None without a
\* record, which leaves a policy_status the claimant stated in place, or Unwired.  Without a
\* source, or for a claim without a policy_number, the facts are left as they are.
Enrich(facts, number, answer) ==
  IF ~number \/ answer = Unwired THEN facts
  ELSE [facts EXCEPT !.policy_found = (answer # None),
                     !.policy_status = IF answer = None THEN @ ELSE answer]
=============================================================================
