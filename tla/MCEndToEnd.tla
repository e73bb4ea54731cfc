----------------------------- MODULE MCEndToEnd -----------------------------
(* EndToEnd on the pipeline with a human in it and on the one with a document. *)
EXTENDS EndToEnd

ReviewOrArchive == {StructuredClaim, ArchiveDocument}
Reviewed        == {StructuredClaim}

Ruling(plain, escalated) == [e \in BOOLEAN |-> IF e THEN escalated ELSE plain]

AskOrDecide == {Ruling("APPROVE", "PEND"), Ruling("PEND", "PEND")}
=============================================================================
