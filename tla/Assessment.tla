----------------------------- MODULE Assessment -----------------------------
(***************************************************************************)
(* The verdict on one review target: four scores, the action they allow,   *)
(* the review tier, and the caps that semantic roles put on both.          *)
(*                                                                         *)
(* Source: analysis/assessment (assess, evidence, detection, fit, risk,    *)
(* payoff, action, classify, semantic_caps, relation_evidence, bands) and  *)
(* platform/curves.py.                                                     *)
(*                                                                         *)
(* Scores are integers in units of 0.0001, the precision the code rounds   *)
(* to; a product is rounded at each factor, where the code rounds it once. *)
(* No score is negative, so that min(1.0, score) is Clamp(score).          *)
(* The fields of the policies and of the metrics of a draft have the names *)
(* of the code's dataclasses.                                              *)
(* Reasons, rationales and the other texts of a finding are left out.      *)
(***************************************************************************)
EXTENDS Integers, SequencesExt

CONSTANTS
  AssessmentPolicy,         \* thresholds of the tiers and bands
  DetectionPolicy, FitPolicy, PayoffPolicy,
  SemanticRoleCapPolicy, SemanticEvidencePolicy, RelationEvidencePolicy,
  RelationAssessmentPolicy

ASSUME PolicyAssumption ==
  \A policy \in {AssessmentPolicy, DetectionPolicy, FitPolicy, PayoffPolicy,
                  SemanticRoleCapPolicy, SemanticEvidencePolicy, RelationEvidencePolicy,
                  RelationAssessmentPolicy} :
     \A field \in DOMAIN policy : policy[field] \in Nat

ASSUME FieldsAssumption ==
  /\ {"review_candidate_threshold", "recommended_edit_threshold", "risk_cautious_threshold",
      "risk_block_threshold"} \subseteq DOMAIN AssessmentPolicy
  /\ {"declaration_surface_risk_unit", "unresolved_semantics_risk_unit",
      "ambiguous_ownership_risk_unit", "divergent_call_target_risk_floor"}
        \subseteq DOMAIN SemanticEvidencePolicy
  /\ "generated_vendor_cap" \in DOMAIN PayoffPolicy
  /\ "dominant_member_ratio" \in DOMAIN SemanticRoleCapPolicy

(* The constants of action.py: no settings.                                  *)
ActionGates ==
  [low_clone_risk |-> 3000, low_helper_risk |-> 2000, low_introduction_risk |-> 2000,
   clean_clone_cost |-> 2500, low_public_api_cost |-> 2500,
   near_identical_tree_similarity |-> 9500,
   max_introduction_cost |-> 4500, max_introduction_holes |-> 2,
   max_low_complexity_hole_size |-> 3, min_common_region_size |-> 2,
   min_local_duplicate_helper_lines |-> 5, max_small_helper_lines |-> 12]

One == 10000

Clamp(x) == IF x \in 0..One THEN x ELSE IF x < 0 THEN 0 ELSE One
Mul(x, y) == (x * y + One \div 2) \div One
Larger(x, y) == IF x > y THEN x ELSE y
Smaller(x, y) == IF x < y THEN x ELSE y

Ramp(x, low, high) ==
  IF high <= low THEN (IF x >= high THEN One ELSE 0)
  ELSE Clamp(((x - low) * One) \div (high - low))

RampCount(n, starts, high) == IF n < starts THEN 0 ELSE Ramp(n, starts - 1, high)

InverseRamp(x, low, high) == One - Ramp(x, low, high)

NoisyOr(x, y, z) == One - Mul(Mul(One - Clamp(x), One - Clamp(y)), One - Clamp(z))

Band(score, high, medium) ==
  IF score >= high THEN "high"
  ELSE IF score >= medium THEN "medium" ELSE IF score > 0 THEN "low" ELSE "none"

ScoreBand(score) ==
  Band(score, AssessmentPolicy.high_band_threshold, AssessmentPolicy.medium_band_threshold)

Attention == {"medium", "high"}

-----------------------------------------------------------------------------
(* Parts of lists.                                                           *)

Ascending(set) ==
  [i \in 1..Cardinality(set) |-> CHOOSE k \in set : Cardinality({j \in set : j <= k}) = i]

(* The items at some places of a list, in its order: a list comprehension.   *)
Kept(items, places) ==
  LET order == Ascending(places) IN [i \in DOMAIN order |-> items[order[i]]]
Filtered(items, Wanted(_)) == Kept(items, {i \in DOMAIN items : Wanted(items[i])})

-----------------------------------------------------------------------------
(* What the members demonstrably share: agreement labels of the pairs, by   *)
(* evidence class, and what the kinds of evidence and the provider say.     *)

BasisClass ==
  [same_signature_shape |-> "signature_shape",
   typed_argument_normalization_wrapper |-> "argument_normalization_wrapper",
   normalized_body_identity |-> "body_structure_similarity",
   body_structure_similarity |-> "body_structure_similarity",
   normalized_name_similarity |-> "name_similarity",
   parameter_use_similarity |-> "parameter_use_similarity",
   call_fingerprint_overlap |-> "call_fingerprint_overlap",
   local_dataflow_similarity |-> "local_dataflow_similarity",
   control_context_similarity |-> "control_context_similarity",
   statement_sequence_alignment |-> "statement_sequence_alignment",
   anti_unification_template |-> "anti_unification_template"]

Callsites == {"callsite_immediate", "callsite_stored_reuse", "callsite_registered",
              "callsite_pipeline", "callsite_cached"}

If(condition, class) == IF condition THEN {class} ELSE {}

EvidenceClasses(draft) ==
  LET kinds == draft.evidence_kinds
      semantic == draft.metrics.semantic_evidence
  IN  If(draft.has_signature_overlap \/ "signature_shape_cluster" \in kinds, "signature_shape")
      \cup If("policy_constant_duplicate" \in kinds, "shared_policy_literal")
      \cup If("argument_normalization_wrapper" \in kinds, "argument_normalization_wrapper")
      \cup If(\/ draft.metrics.duplicate_block_count > 0
              \/ kinds \cap {"intra_function_duplicate", "shared_block"} # {}, "duplicate_block")
      \cup If(kinds \cap (Callsites \cup {"callable_factory"}) # {}, "call_fingerprint_overlap")
      \cup {BasisClass[label] : label \in draft.basis \cap DOMAIN BasisClass}
      \cup If(semantic.shared_call_target_pair_count > 0, "semantic_shared_call_target")
      \cup If(semantic.same_overload_group_pair_count > 0, "semantic_overload_binding")
      \cup If(semantic.declaration_only_count > 0, "semantic_declaration_surface")
      \cup If(semantic.unresolved_item_count > 0, "semantic_unresolved")
      \cup If(semantic.ambiguous_ownership_count > 0, "semantic_ambiguous_ownership")

-----------------------------------------------------------------------------
(* Detection: is the relation real?                                         *)

Extraction ==
  [high |-> DetectionPolicy.high_extraction_multiplier,
   medium |-> DetectionPolicy.medium_extraction_multiplier,
   low |-> DetectionPolicy.low_extraction_multiplier,
   unknown |-> DetectionPolicy.unknown_extraction_multiplier]

StructuralSupport ==
  {"body_structure_similarity", "name_similarity", "call_fingerprint_overlap",
   "control_context_similarity", "semantic_shared_call_target", "semantic_overload_binding"}

RelationConfidence(m, evidence) ==
  LET related == Mul(m.lead_relatedness_score, DetectionPolicy.structural_relatedness_multiplier)
      base == Larger(m.lead_confidence_score, related)
  IN  Smaller(DetectionPolicy.structural_quality_cap,
        (IF base = 0 THEN DetectionPolicy.structural_relation_fallback_confidence ELSE base)
          + Cardinality(StructuralSupport \cap evidence) * DetectionPolicy.supporting_signal_boost)

WrapperConfidence(evidence) ==
  IF {"call_fingerprint_overlap", "parameter_use_similarity", "local_dataflow_similarity"}
       \cap evidence # {}
  THEN DetectionPolicy.argument_normalization_supported_confidence
  ELSE DetectionPolicy.argument_normalization_base_confidence

Detection(m, evidence) ==
  LET Found(score, quality) ==
        [score |-> Clamp(Mul(score, Extraction[m.min_extraction_confidence])),
         quality |-> quality]
  IN  IF m.policy_constant_duplicate_count > 0
      THEN Found(DetectionPolicy.policy_constant_confidence, "exact")
      ELSE IF m.duplicate_block_count > 0 \/ m.structural_duplicate_pair_count > 0
      THEN Found(Larger(DetectionPolicy.structural_duplicate_min_confidence,
                        m.lead_confidence_score), "exact")
      ELSE IF m.structural_relation_pair_count > 0
      THEN Found(RelationConfidence(m, evidence), "structural")
      ELSE IF "argument_normalization_wrapper" \in evidence
      THEN Found(WrapperConfidence(evidence), "structural")
      ELSE IF m.member_count >= DetectionPolicy.min_recurrence_members
      THEN Found(DetectionPolicy.signature_only_base_confidence, "signature_only")
      ELSE [score |-> 0, quality |-> "signature_only"]

-----------------------------------------------------------------------------
(* Relation kinds of the pairs.                                             *)

CleanClones == {"body_identical", "body_parameterized"}
Skeletons == {"same_skeleton_different_literals", "same_skeleton_different_callees"}

Count(counts, key) == IF key \in DOMAIN counts THEN counts[key] ELSE 0
HasKind(m, kinds) == \E kind \in kinds : Count(m.relation_kind_counts, kind) > 0

EditableSkeleton(m) ==
  LET gates == RelationEvidencePolicy
  IN  /\ HasKind(m, Skeletons)
      /\ m.same_role_relation_count > 0 /\ m.same_directory_relation_count > 0
      /\ m.lead_tree_similarity >= gates.parameterized_skeleton_min_tree_similarity
      /\ m.lead_refactorability_score >= gates.parameterized_skeleton_min_refactorability
      /\ m.lead_abstraction_cost_score <= gates.parameterized_skeleton_max_abstraction_cost
      /\ m.lead_risk_score <= gates.parameterized_skeleton_max_risk

CleanClone(m) ==
  m.structural_duplicate_pair_count > 0 \/ HasKind(m, CleanClones) \/ EditableSkeleton(m)

-----------------------------------------------------------------------------
(* Fit: is there one clean abstraction?                                     *)

ExactEvidence(m) ==
  m.structural_duplicate_pair_count + m.body_hash_match_count + m.duplicate_block_count
    + m.policy_constant_duplicate_count > 0

SharedImplementation(m) ==
  /\ m.semantic_evidence.same_overload_group_pair_count
       + m.semantic_evidence.shared_call_target_pair_count > 0
  /\ m.structural_relation_pair_count > 0
  /\ m.lead_stable_statement_count >= FitPolicy.stable_region_medium_at

RelationCommonality(m) ==
  IF m.structural_relation_pair_count = 0 THEN 0
  ELSE Larger(Larger(FitPolicy.structural_relation_floor,
                     FitPolicy.structural_relation_commonality),
              Larger(Mul(m.lead_tree_similarity, FitPolicy.tree_similarity_weight),
                     Mul(m.lead_relatedness_score, FitPolicy.relatedness_weight)))

Commonality(m) ==
  LET Anchor(condition, value) == IF condition THEN value ELSE 0
      base == Max({m.lead_refactorability_score,
                   Anchor(m.body_hash_match_count > 0, FitPolicy.body_hash_commonality),
                   Anchor(m.duplicate_block_count + m.structural_duplicate_pair_count > 0,
                          FitPolicy.structural_duplicate_commonality),
                   Anchor(m.policy_constant_duplicate_count > 0,
                          FitPolicy.policy_constant_commonality),
                   RelationCommonality(m),
                   Anchor(m.member_count >= FitPolicy.recurrence_starts_at_members,
                          FitPolicy.signature_only_commonality)})
      boosted == IF SharedImplementation(m)
                 THEN Clamp(base + FitPolicy.semantic_shared_implementation_boost) ELSE base
      stable == Ramp(m.lead_stable_statement_count, FitPolicy.stable_region_medium_at - 1,
                     FitPolicy.stable_region_high_at)
  IN  IF ExactEvidence(m) THEN Clamp(Larger(boosted, stable))
      ELSE IF m.structural_relation_pair_count > 0
      THEN Clamp(Mul(boosted, Larger(FitPolicy.weak_region_multiplier, stable)))
      ELSE Clamp(boosted)

HolesMeasured(m, evidence) ==
  m.lead_hole_count > 0 \/ m.lead_hole_size > 0 \/ "anti_unification_template" \in evidence

Simplicity(m, evidence) ==
  IF EditableSkeleton(m) THEN FitPolicy.parameterized_skeleton_simplicity
  ELSE IF /\ ~HolesMeasured(m, evidence)
          /\ m.structural_relation_pair_count > 0 /\ ~ExactEvidence(m)
  THEN FitPolicy.unknown_hole_simplicity
  ELSE Smaller(InverseRamp(m.lead_hole_count, 0, FitPolicy.high_hole_count_at),
               InverseRamp(m.lead_hole_size, 0, FitPolicy.high_hole_size_at))

FitCap(m) ==
  LET risk == m.lead_risk_score
      Limit(condition, value) == IF condition THEN value ELSE One
  IN  Min({Limit(m.lead_abstraction_cost_score >= FitPolicy.high_abstraction_cost_at,
                 FitPolicy.high_cost_cap),
           IF risk >= FitPolicy.high_relation_risk_at THEN FitPolicy.high_risk_cap
           ELSE Limit(risk > 0, Larger(FitPolicy.high_risk_cap, One - risk)),
           Limit(/\ m.lead_stable_statement_count <= 1
                 /\ m.structural_relation_pair_count > 0
                 /\ ~EditableSkeleton(m) /\ ~ExactEvidence(m),
                 FitPolicy.weak_common_region_cap)})

Fit(m, evidence) ==
  LET cost == Clamp(m.lead_abstraction_cost_score)
      raw == Mul(Mul(Commonality(m), Larger(1500, Simplicity(m, evidence))),
                 Larger(2000, One - cost))
      score == Clamp(Smaller(raw, FitCap(m)))
  IN  [score |-> score, cost |-> cost,
       band |-> Band(score, AssessmentPolicy.fit_high_threshold,
                     AssessmentPolicy.fit_medium_threshold)]

-----------------------------------------------------------------------------
(* Risk: could a merge change what the code does?                           *)

ProviderRisk(semantic) ==
  LET Unit(count, unit) == IF count > 0 THEN unit ELSE 0
      units == SemanticEvidencePolicy
      sum == Unit(semantic.declaration_only_count, units.declaration_surface_risk_unit)
             + Unit(semantic.unresolved_item_count, units.unresolved_semantics_risk_unit)
             + Unit(semantic.ambiguous_ownership_count, units.ambiguous_ownership_risk_unit)
  IN  Smaller(One, Larger(sum, Unit(semantic.divergent_call_target_pair_count,
                                    units.divergent_call_target_risk_floor)))

RiskUnit == 1200

(* Mutant: what the provider says replaces the risk of the relation.         *)
RiskFromProvider(m, risks) ==
  LET units == Cardinality(risks) + (IF m.cluster_scope = "same_language" THEN 0 ELSE 1)
      relation == IF m.lead_risk_score > 0 THEN m.lead_risk_score
                  ELSE Smaller(One, units * RiskUnit)
      provider == ProviderRisk(m.semantic_evidence)
      score == IF provider > 0 THEN provider ELSE relation
  IN  [score |-> score,
       band |-> Band(score, AssessmentPolicy.risk_block_threshold,
                     AssessmentPolicy.risk_cautious_threshold)]

(* Mutant: a measured risk of the pairs hides what the provider says.        *)
RiskOfPairs(m, risks) ==
  LET units == Cardinality(risks) + (IF m.cluster_scope = "same_language" THEN 0 ELSE 1)
      score == IF m.structural_relation_pair_count > 0 THEN m.lead_risk_score
               ELSE Larger(Smaller(One, units * RiskUnit), ProviderRisk(m.semantic_evidence))
  IN  [score |-> score,
       band |-> Band(score, AssessmentPolicy.risk_block_threshold,
                     AssessmentPolicy.risk_cautious_threshold)]

Risk(m, risks) ==
  LET units == Cardinality(risks) + (IF m.cluster_scope = "same_language" THEN 0 ELSE 1)
      relation == IF m.lead_risk_score > 0 THEN m.lead_risk_score
                  ELSE Smaller(One, units * RiskUnit)
      score == Larger(relation, ProviderRisk(m.semantic_evidence))
  IN  [score |-> Clamp(score),
       band |-> Band(score, AssessmentPolicy.risk_block_threshold,
                     AssessmentPolicy.risk_cautious_threshold)]

(* A strong relation takes back the doubt of a small commonality.           *)
EffectiveRisks(draft) ==
  IF /\ draft.metrics.lead_confidence_score >= 7000
     /\ draft.metrics.lead_refactorability_score >= 6000
  THEN draft.abstraction_risks \ {"small_commonality"}
  ELSE draft.abstraction_risks

-----------------------------------------------------------------------------
(* Payoff: is it worth the attention?                                       *)

RelationQuality(m) ==
  IF m.duplicate_block_count > 0 \/ m.structural_duplicate_pair_count > 0 THEN One
  ELSE IF m.structural_relation_pair_count > 0 THEN PayoffPolicy.structural_relation_quality
  ELSE IF m.member_count >= PayoffPolicy.recurrence_starts_at_members
  THEN PayoffPolicy.signature_only_quality ELSE 0

(* The exposure of the code and the cap on its payoff, by the roles of its  *)
(* files.                                                                   *)
Exposure(fileRoles) ==
  IF fileRoles \cap {"generated", "vendor", "build_output"} # {}
  THEN [factor |-> One, cap |-> PayoffPolicy.generated_vendor_cap]
  ELSE [factor |-> IF fileRoles # {} /\ fileRoles \subseteq {"test", "fixture"}
                   THEN PayoffPolicy.test_fixture_exposure
                   ELSE IF "source" \in fileRoles THEN One
                   ELSE PayoffPolicy.unknown_role_exposure,
        cap |-> One]

Payoff(draft) ==
  LET m == draft.metrics
      recurrence == RampCount(m.member_count, PayoffPolicy.recurrence_starts_at_members,
                              PayoffPolicy.recurrence_high_at_members)
      span == Ramp(draft.line_span, PayoffPolicy.material_line_span, PayoffPolicy.high_line_span)
      volume == IF m.duplicate_block_count = 0 THEN span
                ELSE Larger(span, Ramp(m.duplicate_block_line_count,
                                       PayoffPolicy.local_duplicate_material_line_span,
                                       PayoffPolicy.local_duplicate_high_line_span))
      spread == RampCount(Cardinality(draft.files), PayoffPolicy.spread_starts_at_files,
                          PayoffPolicy.spread_high_at_files)
      exposure == Exposure(draft.file_roles)
      score == Smaller(exposure.cap,
                 Clamp(Mul(Mul(RelationQuality(m), NoisyOr(recurrence, volume, spread)),
                           exposure.factor)))
  IN  [score |-> score, band |-> ScoreBand(score)]

-----------------------------------------------------------------------------
(* The action: which one the evidence asks for, which of its gates hold, and *)
(* what is done instead when they do not.                                    *)

Edits == {"consolidate_clone", "extract_small_helper", "introduce_abstraction",
          "reuse_existing_helper"}
Notes == {"record_shared_concern", "inspect_shared_lifecycle"}

(* Of the actions the relations propose: the first two that are not ruled    *)
(* out, and the kinds that are.                                              *)
SummaryOf(wanted, rejected) ==
  [primary |-> IF wanted = <<>> THEN "" ELSE wanted[1].kind,
   secondary |-> IF Len(wanted) < 2 THEN "" ELSE wanted[2].kind,
   not_recommended |-> {a.kind : a \in rejected}]
Summary(actions) ==
  SummaryOf(Filtered(actions, LAMBDA a : a.status # "not_recommended"),
            {b \in ToSet(actions) : b.status = "not_recommended"})

HasActions(summary) ==
  summary.primary # "" \/ summary.secondary # "" \/ summary.not_recommended # {}

PrimaryAction(summary) ==
  IF summary.primary # "" THEN summary.primary
  ELSE IF summary.secondary # "" THEN summary.secondary
  ELSE IF "do_not_refactor" \in summary.not_recommended THEN "do_not_refactor" ELSE "observe"

SubstantialBlock(m) ==
  /\ m.duplicate_block_count > 0
  /\ m.max_body_line_count >= ActionGates.min_local_duplicate_helper_lines

MixedRoles(m) ==
  LET relations == IF m.structural_duplicate_pair_count > 0 THEN m.structural_duplicate_pair_count
                   ELSE m.structural_relation_pair_count
  IN  relations > 0 /\ m.same_role_relation_count < relations

NormalizesArguments(m, evidence) ==
  \/ "argument_normalization_wrapper" \in evidence
  \/ HasKind(m, {"argument_normalization_wrapper"})

(* Gates, with others before them.                                           *)
Also(first, gates) ==
  [gate \in DOMAIN first \cup DOMAIN gates |->
     IF gate \in DOMAIN first THEN first[gate] ELSE gates[gate]]

ConsolidateGates(m, risk, fit) ==
  [clean_clone_relation |-> CleanClone(m),
   body_hash_or_near_identical_tree |->
     \/ m.body_hash_match_count > 0
     \/ m.lead_tree_similarity >= ActionGates.near_identical_tree_similarity,
   low_semantic_risk |-> risk.score <= ActionGates.low_clone_risk,
   low_abstraction_cost |-> fit.cost <= ActionGates.clean_clone_cost,
   same_role_semantics |-> ~MixedRoles(m)]

(* intra_function_duplicate_block is only ever recorded as passed.           *)
ExtractGates(m, evidence, given, risk, fit) ==
  LET local == m.duplicate_block_count > 0
  IN  Also(IF local THEN [intra_function_duplicate_block |-> TRUE] ELSE <<>>,
           [substantial_local_duplicate_block |-> local => SubstantialBlock(m),
            argument_normalization_detected |-> local \/ NormalizesArguments(m, evidence),
            same_downstream_operation |->
              local \/ "shared_operation_after_argument_normalization" \in given,
            small_common_body |-> m.max_body_line_count \in 1..ActionGates.max_small_helper_lines,
            low_public_api_cost |-> fit.cost <= ActionGates.low_public_api_cost,
            low_semantic_risk |-> risk.score <= ActionGates.low_helper_risk])

ReuseGates(m, evidence, given, risk, fit) ==
  [argument_normalization_detected |-> NormalizesArguments(m, evidence),
   same_downstream_operation |-> "shared_operation_after_argument_normalization" \in given,
   simple_argument_transform |-> "simple_argument_transform" \in given,
   existing_helper_boundary |-> "existing_helper_boundary" \in given,
   reviewable_semantic_risk |-> risk.score < AssessmentPolicy.risk_block_threshold,
   bounded_abstraction_cost |-> fit.cost < AssessmentPolicy.cost_block_threshold]

(* low_branch_delta counts the deltas named "branch_delta".                  *)
IntroduceGates(m, evidence, risk, fit) ==
  LET constant == m.policy_constant_duplicate_count > 0
      measured == constant \/ HolesMeasured(m, evidence)
  IN  [stable_common_region |->
         constant \/ m.lead_stable_statement_count >= ActionGates.min_common_region_size,
       low_hole_count |-> measured /\ m.lead_hole_count <= ActionGates.max_introduction_holes,
       low_hole_complexity |->
         measured /\ m.lead_hole_size <= ActionGates.max_low_complexity_hole_size,
       low_branch_delta |-> Count(m.delta_kind_counts, "branch_delta") <= 1,
       low_semantic_risk |-> risk.score <= ActionGates.low_introduction_risk,
       bounded_abstraction_cost |-> fit.cost <= ActionGates.max_introduction_cost,
       clear_boundary_owner |->
         \/ constant
         \/ m.language_count <= 1 /\ m.adapter_count <= 1 /\ m.cluster_scope = "same_language"]

(* The gates of an action and whether each is passed; s holds the scores and *)
(* the evidence of the target, given the preconditions its relations state.  *)
Gates(action, m, s, given) ==
  LET edit == action \in Edits
      own == CASE action = "consolidate_clone" -> ConsolidateGates(m, s.risk, s.fit)
               [] action = "extract_small_helper" ->
                    ExtractGates(m, s.evidence, given, s.risk, s.fit)
               [] action = "reuse_existing_helper" ->
                    ReuseGates(m, s.evidence, given, s.risk, s.fit)
               [] action = "introduce_abstraction" ->
                    IntroduceGates(m, s.evidence, s.risk, s.fit)
               [] action \in Notes -> [concern_only |-> s.detection.score > 0]
               [] OTHER -> <<>>
      detected == [relation_detected |->
                     s.detection.score >= AssessmentPolicy.detection_relation_threshold]
      payoff == [maintenance_payoff |->
                   \/ s.payoff.score >= AssessmentPolicy.review_candidate_threshold
                   \/ SubstantialBlock(m)
                   \/ action = "consolidate_clone" /\ EditableSkeleton(m)]
  IN  Also(IF edit \/ action \in Notes THEN detected ELSE <<>>,
           Also(IF edit THEN payoff ELSE <<>>, own))

Passed(gates) == {gate \in DOMAIN gates : gates[gate]}
Failed(gates) == {gate \in DOMAIN gates : ~gates[gate]}

FallbackAction(action, detection, failed) ==
  IF failed \subseteq {"maintenance_payoff"} THEN action
  ELSE IF "relation_detected" \in failed THEN "observe"
  ELSE CASE action \in {"introduce_abstraction", "extract_small_helper"} ->
              IF detection.score > 0 THEN "record_shared_concern" ELSE "observe"
         [] action = "consolidate_clone" -> "do_not_refactor"
         [] OTHER -> action

RecommendationScore(action, s) ==
  IF action \notin Edits THEN 0
  ELSE Clamp(Mul(Mul(s.detection.score, s.fit.score),
                 Mul(s.payoff.score, One - Larger(s.risk.score, s.fit.cost))))

Recommended(action, score, m, s) ==
  \/ action = "consolidate_clone" /\ EditableSkeleton(m)
  \/ action = "consolidate_clone" /\ score >= AssessmentPolicy.review_candidate_threshold
  \/ /\ action = "introduce_abstraction" /\ m.policy_constant_duplicate_count > 0
     /\ s.risk.score <= ActionGates.low_introduction_risk
     /\ s.fit.cost <= ActionGates.max_introduction_cost
  \/ /\ action = "extract_small_helper" /\ SubstantialBlock(m)
     /\ s.risk.score <= ActionGates.low_helper_risk
     /\ s.fit.cost <= ActionGates.low_public_api_cost
  \/ /\ score >= AssessmentPolicy.recommended_edit_threshold
     /\ s.risk.score < AssessmentPolicy.risk_cautious_threshold

Status(action, score, failed, m, s) ==
  IF action = "do_not_refactor" THEN "not_recommended"
  ELSE IF action \notin Edits THEN "cautious"
  ELSE IF \/ s.risk.score >= AssessmentPolicy.risk_block_threshold
          \/ s.fit.cost >= AssessmentPolicy.cost_block_threshold
  THEN "not_recommended"
  ELSE IF failed = {} /\ Recommended(action, score, m, s) THEN "recommended" ELSE "cautious"

(* The gates reported are those of the action asked for; the status is       *)
(* decided by those of the action taken, with no preconditions given.        *)
RecommendAction(actions, fallback, m, s) ==
  LET summary == IF HasActions(Summary(actions)) THEN Summary(actions) ELSE fallback
      requested == PrimaryAction(summary)
      given == UNION {a.preconditions : a \in {b \in ToSet(actions) : b.kind = requested}}
      gates == Gates(requested, m, s, given)
      action == FallbackAction(requested, s.detection, Failed(gates))
      failed == IF action = requested THEN Failed(gates) ELSE Failed(Gates(action, m, s, {}))
      score == RecommendationScore(action, s)
  IN  [kind |-> action, passed |-> Passed(gates), failed |-> Failed(gates), score |-> score,
       status |-> Status(action, score, failed, m, s)]

-----------------------------------------------------------------------------
(* The review tier.                                                          *)

Tiers == <<"recommended_edit", "review_candidate", "maintenance_note", "observation">>
TierRank(tier) == CHOOSE i \in DOMAIN Tiers : Tiers[i] = tier
Actionable == {"recommended_edit", "review_candidate"}

CleanCloneGates ==
  {"clean_clone_relation", "body_hash_or_near_identical_tree", "same_role_semantics"}
LocalDuplicateGates ==
  {"intra_function_duplicate_block", "substantial_local_duplicate_block",
   "argument_normalization_detected", "same_downstream_operation", "small_common_body"}
ReuseHelperGates ==
  {"argument_normalization_detected", "same_downstream_operation",
   "simple_argument_transform", "existing_helper_boundary"}

IsCleanClone(action) == CleanCloneGates \subseteq action.passed
IsReuse(action) == ReuseHelperGates \subseteq action.passed

RecommendedEdit(action, s) ==
  LET clone == IsCleanClone(action)
  IN  /\ action.kind \in Edits /\ action.status = "recommended"
      /\ \/ action.score >= AssessmentPolicy.recommended_edit_threshold
         \/ clone
         \/ LocalDuplicateGates \subseteq action.passed /\ action.kind = "extract_small_helper"
      /\ ScoreBand(s.detection.score) = "high" \/ clone
      /\ s.payoff.band \in Attention \/ clone
      /\ s.fit.band \in Attention
      /\ s.risk.band \in {"none", "low"}

DesignConcern(s) ==
  /\ s.detection.quality # "signature_only"
  /\ s.detection.score >= AssessmentPolicy.high_band_threshold
  /\ s.payoff.band = "high"
  /\ s.risk.band \in Attention \/ s.fit.cost >= AssessmentPolicy.cost_block_threshold

ReviewScore(action, s) ==
  IF action.kind \in Edits
  THEN IF IsReuse(action) THEN Larger(AssessmentPolicy.review_candidate_threshold, action.score)
       ELSE action.score
  ELSE IF action.kind \in Notes /\ DesignConcern(s)
  THEN Mul(Mul(s.detection.score, s.payoff.score), Larger(s.risk.score, s.fit.cost))
  ELSE 0

ReviewCandidate(action, s) ==
  LET score == ReviewScore(action, s)
  IN  /\ score > 0 /\ score >= AssessmentPolicy.review_candidate_threshold
      /\ \/ action.kind \in Notes /\ DesignConcern(s)
         \/ /\ action.kind \in Edits
            /\ ScoreBand(s.detection.score) \in Attention
            /\ s.risk.band # "high"
            /\ \/ IsReuse(action)
               \/ /\ s.payoff.band \in Attention \/ IsCleanClone(action)
                  /\ s.fit.band \in Attention
                  /\ s.payoff.band \in Attention \/ action.status = "recommended"

MaintenanceNote(action, s) ==
  LET detected == ScoreBand(s.detection.score)
  IN  CASE action.kind \in Notes -> detected \in Attention
        [] action.kind = "do_not_refactor" -> detected = "high" /\ s.payoff.band \in Attention
        [] action.kind \in Edits ->
             /\ detected \in Attention
             /\ \/ /\ action.kind = "extract_small_helper"
                   /\ "intra_function_duplicate_block" \in action.passed
                \/ "low" \in {s.fit.band, s.payoff.band}
        [] OTHER -> FALSE

ReviewTier(action, s) ==
  CASE RecommendedEdit(action, s) -> "recommended_edit"
    [] ~RecommendedEdit(action, s) /\ ReviewCandidate(action, s) -> "review_candidate"
    [] ~RecommendedEdit(action, s) /\ ~ReviewCandidate(action, s)
         /\ MaintenanceNote(action, s) -> "maintenance_note"
    [] OTHER -> "observation"

ActionStatus(action) ==
  CASE action.kind \in {"do_not_refactor", "observe"} -> action.kind
    [] action.kind \in Notes -> "record_shared_concern"
    [] action.kind \in Edits /\ action.status = "recommended" -> "recommended_edit"
    [] OTHER -> "cautious_candidate"

NoteStatuses == {"record_shared_concern", "observe", "do_not_refactor"}

(* Whether a finding is listed in the summary and counted by CI.             *)
SummaryEligible(tier, s, status, action) ==
  /\ tier \in Actionable
  /\ \/ tier = "recommended_edit"
     \/ /\ s.payoff.band \in Attention
        /\ s.fit.score >= RelationAssessmentPolicy.refactorability_medium_threshold
        /\ {status, action} \cap NoteStatuses = {}

-----------------------------------------------------------------------------
(* The semantic cap: code that a protocol, a framework or a test repeats on  *)
(* purpose is tracked, not edited. m.guardrails gives for each family of     *)
(* roles the members, duplicate pairs and relation pairs that carry it.      *)

DeclarationRoles == {"overload_signature", "declaration_boundary"}
InterfaceRoles == DeclarationRoles \cup {"typing_overload", "abstract_or_interface_stub"}

Mostly(count, total, ratio) == total > 0 /\ count * One >= ratio * total
MostMembers(m, count) == Mostly(count, m.member_count, SemanticRoleCapPolicy.dominant_member_ratio)
RoleCount(m, role) == Count(m.semantic_role_counts, role)
MaxRoleCount(m, roles) == Max({RoleCount(m, role) : role \in roles})

(* A family dominates by members or by the evidence it takes part in.        *)
Dominates(m, counts) ==
  \/ MostMembers(m, counts.members)
  \/ Mostly(counts.duplicate_pairs, m.structural_duplicate_pair_count,
            SemanticRoleCapPolicy.dominant_member_ratio)
  \/ Mostly(counts.relation_pairs, m.guardrail_relation_pair_count,
            SemanticRoleCapPolicy.dominant_member_ratio)

WithMembers(counts, n) == IF counts.members > 0 THEN counts ELSE [counts EXCEPT !.members = n]

DominantDuplicates(m, counts) ==
  /\ counts.duplicate_pairs > 0
  /\ \/ m.structural_duplicate_pair_count <= 1
     \/ Mostly(counts.duplicate_pairs, m.structural_duplicate_pair_count,
               SemanticRoleCapPolicy.material_duplicate_pair_ratio)
     \/ Mostly(counts.duplicate_pairs, m.structural_duplicate_pair_count,
               SemanticRoleCapPolicy.dominant_member_ratio)

SubstantialSharedLogic(m) ==
  /\ m.min_body_line_count >= SemanticRoleCapPolicy.substantial_body_line_count
  /\ m.min_stable_statement_count >= SemanticRoleCapPolicy.substantial_stable_statement_count
  /\ m.same_role_relation_count > 0 /\ m.same_directory_relation_count > 0

CleanTestHelper(m) ==
  /\ m.member_count = 2 /\ m.guardrails.test.members = 2
  /\ IF EditableSkeleton(m) THEN m.guardrails.test.relation_pairs = 1
     ELSE /\ m.guardrails.test.duplicate_pairs = 1 /\ m.structural_duplicate_pair_count = 1
          /\ m.same_role_relation_count > 0 /\ m.lead_risk_score = 0
          /\ HasKind(m, {"body_identical"})

Cap(level) == [level |-> level, action |-> ""]

SurfaceCap(m) ==
  Cap(IF SubstantialSharedLogic(m) THEN "review_candidate" ELSE "maintenance_note")

ApiSurfaceCap(m) ==
  IF RoleCount(m, "generated_or_cython_boundary") > 0 THEN Cap("maintenance_note")
  ELSE IF RoleCount(m, "sync_async_mirror") > 0 THEN Cap("review_candidate") ELSE SurfaceCap(m)

(* Pair evidence about a minority of the members says little of all of them. *)
BroadParent(m) ==
  LET covered == IF m.promoted_pair_count > 0 THEN m.promoted_member_count
                 ELSE m.pair_member_count
  IN  covered > 0 /\ m.member_count > 0 /\ ~MostMembers(m, covered)

(* Mutant: tests count only where they dominate.                             *)
InTestsMostly(m) == Dominates(m, m.guardrails.test)

InTests(m) ==
  LET test == m.guardrails.test
  IN  test.members > 0 \/ test.duplicate_pairs > 0 \/ Dominates(m, test)

(* The caps in the order the code asks for them; the first that applies is   *)
(* the cap of the target.                                                    *)
CapRules(m) ==
  LET g == m.guardrails
      special == RoleCount(m, "python_special_method")
  IN  <<[holds |-> Dominates(m, WithMembers(g.declaration, MaxRoleCount(m, DeclarationRoles))),
         cap |-> Cap(IF Dominates(m, g.api_surface) THEN "maintenance_note"
                     ELSE "observation")],
        [holds |-> Dominates(m, WithMembers(g.interface_only, MaxRoleCount(m, InterfaceRoles))),
         cap |-> Cap("do_not_refactor")],
        [holds |-> MostMembers(m, RoleCount(m, "trivial_body")), cap |-> Cap("maintenance_note")],
        [holds |-> BroadParent(m), cap |-> Cap("maintenance_note")],
        [holds |-> DominantDuplicates(m, g.example) \/ Dominates(m, g.example),
         cap |-> Cap("observation")],
        [holds |-> InTests(m) /\ ~CleanTestHelper(m),
         cap |-> [level |-> "review_candidate", action |-> "record_shared_concern"]],
        [holds |-> DominantDuplicates(m, g.protocol), cap |-> SurfaceCap(m)],
        [holds |-> DominantDuplicates(m, g.api_surface), cap |-> ApiSurfaceCap(m)],
        [holds |-> Dominates(m, g.protocol), cap |-> SurfaceCap(m)],
        [holds |-> Dominates(m, g.api_surface), cap |-> ApiSurfaceCap(m)],
        [holds |-> Dominates(m, WithMembers(g.constructor, RoleCount(m, "constructor"))),
         cap |-> [level |-> "review_candidate", action |-> "extract_small_helper"]],
        [holds |-> /\ special >= m.member_count
                  /\ m.max_body_line_count <= SemanticRoleCapPolicy.tiny_body_line_count,
         cap |-> Cap("maintenance_note")],
        [holds |-> \/ MostMembers(m, special)
                  \/ MostMembers(m, RoleCount(m, "custom_dunder_or_framework_hook")),
         cap |-> Cap("review_candidate")]>>

SemanticCap(m) ==
  LET rules == CapRules(m)
      applying == {i \in DOMAIN rules : rules[i].holds}
  IN  IF applying = {} THEN Cap("recommended_edit") ELSE rules[Min(applying)].cap

CappedTier(tier, level) ==
  LET most == IF level = "do_not_refactor" THEN "observation" ELSE level
  IN  IF TierRank(most) > TierRank(tier) THEN most ELSE tier

(* What a finding says once its cap is applied.                              *)
ApplyCap(tier, kind, status, cap) ==
  LET capped == CappedTier(tier, cap.level)
      Says(action, says) == [tier |-> capped, action |-> action, status |-> says]
      edit == kind \in Edits
      lowered == capped # tier
  IN  CASE cap.level = "recommended_edit" -> Says(kind, status)
        [] cap.level = "review_candidate" /\ (lowered \/ edit \/ status = "recommended_edit") ->
             Says(IF cap.action # "" THEN cap.action
                  ELSE IF edit THEN "record_shared_concern" ELSE kind, "cautious_candidate")
        [] cap.level \in {"maintenance_note", "observation"} /\ (lowered \/ edit) ->
             Says("record_shared_concern", "record_shared_concern")
        [] cap.level = "do_not_refactor" -> Says("do_not_refactor", "do_not_refactor")
        [] OTHER -> Says(kind, status)

-----------------------------------------------------------------------------
(* The assessment of a draft. The actions of a cluster of several languages  *)
(* are those that change no code; when none is left, the summary of all of   *)
(* them is used (draft.summary).                                             *)

ReadOnlyActions == {"observe", "do_not_refactor"} \cup Notes

EffectiveActions(draft) ==
  IF draft.metrics.cluster_scope = "same_language" THEN draft.actions
  ELSE Filtered(draft.actions, LAMBDA a : a.kind \in ReadOnlyActions)

Scores(draft) ==
  LET m == draft.metrics
      evidence == EvidenceClasses(draft)
  IN  [evidence |-> evidence,
       detection |-> Detection(m, evidence),
       fit |-> Fit(m, evidence),
       risk |-> Risk(m, EffectiveRisks(draft)),
       payoff |-> Payoff(draft)]

Verdict(surface, action, s) ==
  [tier |-> surface.tier, action |-> surface.action, status |-> surface.status,
   score |-> ReviewScore(action, s),
   eligible |-> SummaryEligible(surface.tier, s, surface.status, surface.action)]

Decide(m, action, s) ==
  Verdict(ApplyCap(ReviewTier(action, s), action.kind, ActionStatus(action), SemanticCap(m)),
          action, s)

AssessWith(draft, s) ==
  Decide(draft.metrics,
         RecommendAction(EffectiveActions(draft), draft.summary, draft.metrics, s), s)

Assess(draft) == AssessWith(draft, Scores(draft))

=============================================================================
