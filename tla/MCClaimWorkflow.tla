--------------------------- MODULE MCClaimWorkflow ---------------------------
(* ClaimWorkflow on the pipelines that ship and on all the registry would accept. *)
EXTENDS ClaimWorkflow, TLC

Shipped      == DefaultRegistry \cup {DefaultStages}
Acceptable   == ValidPipelines
RunnableOnly == {p \in ValidPipelines : Runnable(p)}
Reviewed     == {StructuredClaim}

Ruling(plain, escalated) == [e \in BOOLEAN |-> IF e THEN escalated ELSE plain]

\* An escalated claim PENDs, another is decided by the rules; or everything PENDs.
Escalation == {Ruling("APPROVE", "PEND"), Ruling("PEND", "PEND")}
Changing   == {Ruling("PEND", "PEND"), Ruling("APPROVE", "APPROVE")}
=============================================================================
