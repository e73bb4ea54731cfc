----------------------------- MODULE ClaimTypes -----------------------------
(***************************************************************************)
(* Pipelines as data: the stage vocabulary, what registration accepts      *)
(* (ClaimTypeDef.validate_pipeline) and the claim types that ship          *)
(* (src/claimpipe/claimtypes.py).                                          *)
(***************************************************************************)
EXTENDS Naturals, Sequences, FiniteSets

Stage == {"UPLOAD", "OCR", "LLM", "ADJUDICATE", "REVIEW", "PERSIST"}

Has(p, s) == \E i \in DOMAIN p : p[i] = s

\* s, when the pipeline has it, comes before every t
Precedes(p, s, t) == \A i, j \in DOMAIN p : p[i] = s /\ p[j] = t => i < j

NoDuplicates(p) == \A i, j \in DOMAIN p : p[i] = p[j] => i = j

ValidPipeline(p) ==
  /\ NoDuplicates(p)
  /\ p # <<>> /\ p[Len(p)] = "PERSIST"
  /\ Has(p, "OCR") => Has(p, "UPLOAD")
  /\ Has(p, "LLM") => Has(p, "OCR")
  /\ Has(p, "REVIEW") => Has(p, "ADJUDICATE")
  /\ Precedes(p, "UPLOAD", "OCR")
  /\ Precedes(p, "OCR", "LLM")
  /\ Precedes(p, "LLM", "ADJUDICATE")
  /\ Precedes(p, "ADJUDICATE", "REVIEW")

\* A stage list the registry holds: no longer than the vocabulary, or it has a duplicate.
ValidPipelines ==
  {p \in UNION {[1..n -> Stage] : n \in 1..Cardinality(Stage)} : ValidPipeline(p)}

GenericDocument == <<"UPLOAD", "OCR", "LLM", "ADJUDICATE", "REVIEW", "PERSIST">>
MetadataOnly    == <<"PERSIST">>
StructuredClaim == <<"ADJUDICATE", "REVIEW", "PERSIST">>
ArchiveDocument == <<"UPLOAD", "OCR", "PERSIST">>

DefaultRegistry == {GenericDocument, MetadataOnly, StructuredClaim, ArchiveDocument}

\* The engine's fallback when it is started without a stage list (workflows.DEFAULT_STAGES).
DefaultStages == <<"UPLOAD", "OCR", "LLM", "ADJUDICATE", "PERSIST">>
=============================================================================
