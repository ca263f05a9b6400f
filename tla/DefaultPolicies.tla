--------------------------- MODULE DefaultPolicies ---------------------------
(***************************************************************************)
(* The settings a repository without an [assessment] table is assessed     *)
(* with: a policy class of the code each, scores in units of 0.0001.       *)
(*                                                                         *)
(* Source: analysis/assessment/policy.py and analysis/relations/policy.py. *)
(* Left out: the settings no modelled decision reads, and those of the     *)
(* comparison of two functions, which its own instances scale down.        *)
(***************************************************************************)
EXTENDS Naturals

DefaultThresholds ==
  [recommended_edit_threshold |-> 4200,
   review_candidate_threshold |-> 1200,
   high_band_threshold |-> 7500,
   medium_band_threshold |-> 4500,
   detection_relation_threshold |-> 3500,
   fit_high_threshold |-> 7500,
   fit_medium_threshold |-> 4500,
   risk_cautious_threshold |-> 3000,
   risk_block_threshold |-> 6500,
   cost_block_threshold |-> 6500]

DefaultDetection ==
  [policy_constant_confidence |-> 9800,
   structural_duplicate_min_confidence |-> 9000,
   structural_relatedness_multiplier |-> 8500,
   structural_relation_fallback_confidence |-> 3000,
   argument_normalization_base_confidence |-> 5800,
   argument_normalization_supported_confidence |-> 7200,
   signature_only_base_confidence |-> 1800,
   supporting_signal_boost |-> 500,
   structural_quality_cap |-> 8500,
   min_recurrence_members |-> 2,
   high_extraction_multiplier |-> 10000,
   medium_extraction_multiplier |-> 9000,
   low_extraction_multiplier |-> 7500,
   unknown_extraction_multiplier |-> 8500]

DefaultFit ==
  [structural_duplicate_commonality |-> 9000,
   body_hash_commonality |-> 9500,
   policy_constant_commonality |-> 8500,
   structural_relation_commonality |-> 6500,
   structural_relation_floor |-> 3500,
   weak_region_multiplier |-> 3500,
   tree_similarity_weight |-> 7500,
   relatedness_weight |-> 8000,
   signature_only_commonality |-> 1500,
   stable_region_medium_at |-> 2,
   stable_region_high_at |-> 5,
   high_hole_count_at |-> 4,
   high_hole_size_at |-> 8,
   unknown_hole_simplicity |-> 5500,
   high_relation_risk_at |-> 3500,
   high_abstraction_cost_at |-> 6500,
   recurrence_starts_at_members |-> 2,
   weak_common_region_cap |-> 3500,
   high_cost_cap |-> 4000,
   high_risk_cap |-> 4500,
   semantic_shared_implementation_boost |-> 500,
   parameterized_skeleton_simplicity |-> 8500]

DefaultRelationEvidence ==
  [parameterized_skeleton_min_refactorability |-> 7500,
   parameterized_skeleton_max_abstraction_cost |-> 2500,
   parameterized_skeleton_max_risk |-> 3000,
   parameterized_skeleton_min_tree_similarity |-> 9500]

DefaultPayoff ==
  [recurrence_starts_at_members |-> 2,
   recurrence_high_at_members |-> 6,
   material_line_span |-> 12,
   high_line_span |-> 120,
   local_duplicate_material_line_span |-> 6,
   local_duplicate_high_line_span |-> 18,
   spread_starts_at_files |-> 2,
   spread_high_at_files |-> 5,
   structural_relation_quality |-> 6500,
   signature_only_quality |-> 1500,
   test_fixture_exposure |-> 4500,
   unknown_role_exposure |-> 7000,
   generated_vendor_cap |-> 1000]

DefaultSemanticCaps ==
  [tiny_body_line_count |-> 5,
   substantial_body_line_count |-> 8,
   substantial_stable_statement_count |-> 5,
   dominant_member_ratio |-> 8000,
   material_duplicate_pair_ratio |-> 6700]

DefaultSemanticEvidence ==
  [declaration_surface_risk_unit |-> 1800,
   unresolved_semantics_risk_unit |-> 800,
   ambiguous_ownership_risk_unit |-> 1200,
   divergent_call_target_risk_floor |-> 4500]

-----------------------------------------------------------------------------
(* Limits of the relation pairs and of the blocks functions share.           *)

DefaultStructural ==
  [structural_pair_limit |-> 10, tree_similarity_threshold |-> 9000]

DefaultPair ==
  [relation_pair_limit |-> 20,
   relatedness_minimum |-> 3500,
   multi_member_threshold |-> 2,
   action_limit |-> 5]

DefaultRelationAssessment ==
  [high_abstraction_cost_threshold |-> 6500,
   parameterized_skeleton_max_abstraction_cost |-> 2500,
   refactorability_high_threshold |-> 7500,
   refactorability_medium_threshold |-> 4500]

DefaultBlock == [min_lines |-> 8]

=============================================================================
