---------------------------- MODULE Completeness ----------------------------
(***************************************************************************)
(* How much of the repository a run covered: complete, partial or          *)
(* insufficient, and which evidence methods ran.                           *)
(*                                                                         *)
(* Source: analysis/completeness.py. Diagnostics are a set of kinds for    *)
(* every file that has any.                                                *)
(***************************************************************************)
EXTENDS Naturals, FiniteSets

Outcomes == {"analysed", "partial", "failed", "changed"}

FileOutcome(diagnostics) ==
  IF "source_changed" \in diagnostics THEN "changed"
  ELSE IF diagnostics \cap {"extraction_failed", "python_parse_error", "no_functions_recovered"} # {}
    THEN "failed"
  ELSE IF "tree_sitter_parse_error" \in diagnostics THEN "partial"
  ELSE "analysed"

(* inputs: source_files, diagnostics (a function over the files that have    *)
(* any), unsupported (a number), function_count, semantic_requested,         *)
(* semantic_answered.                                                        *)
Files(inputs) ==
  [outcome \in Outcomes |->
     IF outcome = "analysed"
     THEN IF inputs.source_files < Cardinality(DOMAIN inputs.diagnostics) THEN 0
          ELSE inputs.source_files - Cardinality(DOMAIN inputs.diagnostics)
     ELSE Cardinality({f \in DOMAIN inputs.diagnostics : FileOutcome(inputs.diagnostics[f]) = outcome})]

(* Mutant: only what happened to the files counts.                           *)
ReasonsFiles(inputs) ==
  {reason \in {"failed", "partial", "changed"} : Files(inputs)[reason] > 0}

Reasons(inputs) ==
  {reason \in {"no_source", "no_functions", "failed", "partial", "changed", "unsupported", "semantics"} :
     CASE reason = "no_source" -> inputs.source_files = 0
       [] reason = "no_functions" -> inputs.source_files > 0 /\ inputs.function_count = 0
       [] reason = "unsupported" -> inputs.unsupported > 0
       [] reason = "semantics" -> inputs.semantic_requested /\ inputs.semantic_answered = 0
       [] OTHER -> Files(inputs)[reason] > 0}

(* INSUFFICIENT_FAILED_SHARE is one half.                                    *)
Coverage(inputs) ==
  LET lost == Files(inputs)["failed"] + Files(inputs)["changed"] IN
  IF \/ inputs.source_files = 0 \/ inputs.function_count = 0
     \/ 2 * lost >= inputs.source_files
     \/ inputs.unsupported > inputs.source_files
  THEN "insufficient"
  ELSE IF Reasons(inputs) # {} THEN "partial" ELSE "complete"

(* _methods: the methods that a run may have gone without.                   *)
SemanticMethod(inputs) ==
  IF inputs.semantic_answered > 0 THEN "ran"
  ELSE IF inputs.semantic_requested THEN "unavailable" ELSE "skipped"
BucketMethod(inputs) == IF inputs.function_count > 0 THEN "ran" ELSE "skipped"
=============================================================================
