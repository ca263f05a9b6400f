--------------------------- MODULE FunctionPairs ---------------------------
(***************************************************************************)
(* How Codeseam compares two functions: the similarity of each kind of     *)
(* evidence, the gate before the tree measurement, the relation and its    *)
(* scores, and the class of clone it makes of them.                        *)
(*                                                                         *)
(* A function is a record of the features the adapters extract:            *)
(*   file, line, symbol, scope, public, language, role   what and where    *)
(*   name          the words of its normalized name                        *)
(*   shape         the hash of its signature shape                         *)
(*   bodyHash      the hash of its normalized body, or NoHash    *)
(*   tree, nodes   its body tree (NoTree until the detail is read), and    *)
(*                 the node count known without the tree                   *)
(*   statements, keys    statement tokens, and the keys they align by      *)
(*   calls         the call tokens, in order                               *)
(*   parameters, returnType, returns, errors, defaults   its contract      *)
(*   control       the control context of its statements, in order         *)
(*   literals, receivers, graph   sets of literal, receiver and dataflow   *)
(*                 features                                                *)
(*   uses          for each parameter role, how the parameter is used      *)
(*   reads         which arguments each statement reads                    *)
(*   transforms    the calls that only normalize its argument              *)
(*   lines         the lines of its body                                   *)
(***************************************************************************)
EXTENDS StatementAlignment

CONSTANTS
  NoTree,            \* a function whose body tree was not read
  NoHash,            \* a function whose body has no hash
  WordLength,        \* the number of characters of each word of a name
  NameRatio,         \* similarity_ratio of two different names
  EditProductLimit   \* TREE_EDIT_POLICY.edit_product_limit

NoRelation == [kind |-> "no_relation"]

RelatednessMinimum        == 3500
ParameterFlowThreshold    == 8500
CallFingerprintThreshold  == 6500
GraphThreshold            == 6000
NameSimilarityThreshold   == 8500
TreeSimilarityThreshold   == 9000
NameGateTokenSimilarity   == 5000
NormalizationRelatedness  == 7200
NormalizationRefactorability == 6800
MinWrapperStableEdges     == 3
ManageableParameters      == 2
HighParameters            == 6
HighAbstractionCost       == 6500
RefactorabilityHigh       == 7500
RefactorabilityMedium     == 4500
MinStatementLcs           == 2
MinStableStatements       == 2

Clamped(score) == Max({0, Min({One, score})})

SameBody(left, right) == left.bodyHash # NoHash /\ left.bodyHash = right.bodyHash

-----------------------------------------------------------------------------
(***************************************************************************)
(* The similarity of each kind of evidence.                                *)
(***************************************************************************)
NameLength(name) == SumOf([i \in DOMAIN name |-> WordLength[name[i]]]) + Len(name) - 1

LengthGapTooLarge(left, right) ==
  LET longer == Max({NameLength(left), NameLength(right)})
      shorter == Min({NameLength(left), NameLength(right)})
  IN 2 * (longer - shorter) > longer

OneContainsTheOther(left, right) ==
  \/ IsPrefix(left, right) \/ IsPrefix(right, left)
  \/ IsSuffix(left, right) \/ IsSuffix(right, left)

NameSimilarity(left, right) ==
  LET shared == ToSet(left) \cap ToSet(right)
      words  == Jaccard(ToSet(left), ToSet(right))
  IN IF left = right THEN One
     ELSE IF left = <<>> \/ right = <<>> \/ LengthGapTooLarge(left, right) \/ shared = {} THEN 0
     ELSE IF words < NameGateTokenSimilarity /\ ~ OneContainsTheOther(left, right) THEN words
     ELSE NameRatio[{left, right}]

AlignedStatements(f) ==
  IF f.keys # <<>> /\ Len(f.keys) = Len(f.statements) THEN f.keys ELSE f.statements

UsesOf(f, role) == IF role \in DOMAIN f.uses THEN f.uses[role] ELSE {}

\* mean_jaccard_by_key, over the parameters that either function uses.
ParameterUseSimilarity(left, right) ==
  LET used == { role \in DOMAIN left.uses \cup DOMAIN right.uses:
                  UsesOf(left, role) \cup UsesOf(right, role) # {} }
  IN IF used = {} THEN 0
     ELSE Share(1, MapThenSumSet(LAMBDA role: Jaccard(UsesOf(left, role), UsesOf(right, role)),
                                 used),
                Cardinality(used))

CallCounts(f) == ToBag(f.calls)

HasUses(f) == \E role \in DOMAIN f.uses: f.uses[role] # {}

AbsentComponents(left, right) ==
  (IF HasUses(left) \/ HasUses(right) THEN {} ELSE {"parameter"})
  \cup (IF left.calls = <<>> /\ right.calls = <<>> THEN {"call"} ELSE {})
  \cup (IF left.graph = {} /\ right.graph = {} THEN {"graph"} ELSE {})

CompareSequences(left, right) ==
  AlignSequences(AlignedStatements(left), AlignedStatements(right), left.reads, right.reads)

CheapScores(left, right, sequence) ==
  [name      |-> NameSimilarity(left.name, right.name),
   tree      |-> 0,
   parameter |-> ParameterUseSimilarity(left, right),
   call      |-> CounterJaccard(CallCounts(left), CallCounts(right)),
   sequence  |-> sequence.similarity,
   graph     |-> Jaccard(left.graph, right.graph),
   absent    |-> AbsentComponents(left, right)]

RelatednessWeights ==
  [parameter |-> 20, call |-> 15, sequence |-> 15, tree |-> 20, graph |-> 15, name |-> 5]

\* The weighted similarity over the components with evidence: 0.10 plus their
\* share of 0.90.
Relatedness(scores) ==
  LET present  == DOMAIN RelatednessWeights \ scores.absent
      weighted == MapThenSumSet(LAMBDA c: RelatednessWeights[c] * scores[c], present)
      total    == MapThenSumSet(LAMBDA c: RelatednessWeights[c], present)
  IN Min({One, 1000 + Share(9, weighted, 10 * total)})

-----------------------------------------------------------------------------
(***************************************************************************)
(* Argument normalization: two one-line functions with one parameter each, *)
(* of which one normalizes its argument before the operation they share.   *)
(***************************************************************************)
ReturnsFirstArgument(f) ==
  /\ Len(f.statements) = 1
  /\ f.statements[1].kind = "RETURN" /\ f.statements[1].detail = "ARG0"

CompatibleContracts(left, right) ==
  /\ left.language = right.language
  /\ left.returnType # "" /\ left.returnType = right.returnType
  /\ Len(left.parameters) = 1 /\ Len(right.parameters) = 1
  /\ left.parameters[1] # right.parameters[1]
  /\ ReturnsFirstArgument(left) /\ ReturnsFirstArgument(right)

\* Counter(calls) - Counter(transforms): one occurrence less of each transform.
Operations(f) ==
  LET transforms == {t \in f.transforms: t \in ToSet(f.calls)} IN
  CallCounts(f) (-) SetToBag(transforms)

SharedOperations(left, right) == BagOverlap(Operations(left), Operations(right))

Normalizes(left, right) ==
  /\ CompatibleContracts(left, right)
  /\ (left.transforms = {}) # (right.transforms = {})
  /\ SharedOperations(left, right) # EmptyBag

-----------------------------------------------------------------------------
(***************************************************************************)
(* The gate before the tree measurement, and the measurement.              *)
(***************************************************************************)
TreeSizeForEdit(f) == IF f.tree # NoTree THEN TreeSize(f.tree) ELSE f.nodes

ExceedsEditProduct(left, right) ==
  TreeSizeForEdit(left) * TreeSizeForEdit(right) > EditProductLimit

\* Mutant: a pair is rejected by what it scores before its trees are measured.
TreeEditDecisionByCheapScores(left, right, scores, normalizes) ==
  CASE SameBody(left, right) -> "body_hash"
    [] ~ SameBody(left, right) /\ Relatedness(scores) < RelatednessMinimum /\ ~ normalizes
         -> "reject"
    [] OTHER -> IF ExceedsEditProduct(left, right) THEN "product_limit" ELSE "measure"

TreeEditDecision(left, right, scores, normalizes) ==
  CASE SameBody(left, right) -> "body_hash"
    [] /\ ~ SameBody(left, right)
       /\ Relatedness([scores EXCEPT !.tree = One]) < RelatednessMinimum
       /\ ~ normalizes -> "reject"
    [] OTHER -> IF ExceedsEditProduct(left, right) THEN "product_limit" ELSE "measure"

ExactTreeSources == {"body_hash", "ordered_tree_edit_distance"}

ProxySimilarity(left, right) ==
  Jaccard(ToSet(AlignedStatements(left)), ToSet(AlignedStatements(right)))

SimilarityFromDistance(distance, nodes) ==
  IF nodes = 0 THEN One ELSE Share(One, Max({0, nodes - distance}), nodes)

\* tree_comparison_features, for functions with no body text to fall back on.
MeasureTrees(left, right) ==
  IF SameBody(left, right) THEN [similarity |-> One, source |-> "body_hash"]
  ELSE IF left.tree = NoTree \/ right.tree = NoTree
  THEN [similarity |-> ProxySimilarity(left, right), source |-> "body_shape_lazy_proxy"]
  ELSE [similarity |-> SimilarityFromDistance(BodyDistance(left.tree, right.tree),
                                              Max({TreeSize(left.tree), TreeSize(right.tree)})),
        source     |-> "ordered_tree_edit_distance"]

CompareTrees(left, right, decision, sequence) ==
  IF decision = "product_limit"
  THEN [similarity |-> sequence.similarity, source |-> "tree_edit_skipped_edit_product_limit"]
  ELSE MeasureTrees(left, right)

-----------------------------------------------------------------------------
(***************************************************************************)
(* The differences between two functions, and the risk they carry.         *)
(***************************************************************************)
CountKind(items, kind) == Cardinality({i \in DOMAIN items: items[i] = kind})

AssignmentsIn(f) == Cardinality({i \in DOMAIN f.statements: f.statements[i].kind = "ASSIGN"})

LastStatement(f) == IF f.statements = <<>> THEN <<>> ELSE <<Last(f.statements)>>

OperatorDelta(left, right) ==
  /\ left.tree # NoTree /\ right.tree # NoTree
  /\ left.bodyHash # right.bodyHash
  /\ OperatorChanged(left.tree, right.tree)

DeltaKinds(left, right, mismatch, normalizes) ==
  LET Control(f) == ToSet(f.control)
      When(condition, deltas) == IF condition THEN deltas ELSE {}
  IN When(left.defaults # right.defaults, {"default_argument"})
     \cup When(left.literals # right.literals, {"literal_value"})
     \cup When(left.receivers # right.receivers, {"receiver_shape"})
     \cup When(normalizes, {"argument_normalization"})
     \cup When(CountKind(left.control, "WITH") # CountKind(right.control, "WITH"),
               {"extra_context_manager"})
     \cup When(AssignmentsIn(left) # AssignmentsIn(right),
               {"extra_local_temporary", "extra_assignment"})
     \cup When(LastStatement(left) # LastStatement(right), {"extra_terminal_call"})
     \cup When(CallCounts(left) # CallCounts(right), {"callee_name"})
     \cup When(mismatch, {"argument_flow"})
     \cup When(Control(left) # Control(right), {"control_flow"})
     \cup When(CountKind(left.control, "TRY") # CountKind(right.control, "TRY"),
               {"error_handling"})
     \cup When(CountKind(left.control, "LOOP") # CountKind(right.control, "LOOP"), {"loop"})
     \cup When(left.returns # right.returns, {"return_value"})
     \cup When(OperatorDelta(left, right), {"operator"})

DeltaRiskWeights ==
  [operator |-> 5000, return_value |-> 1800, error_handling |-> 1800, control_flow |-> 1500,
   loop |-> 1400, argument_flow |-> 1200, callee_name |-> 1000, receiver_shape |-> 1000,
   extra_context_manager |-> 1000, default_argument |-> 600, literal_value |-> 400,
   extra_local_temporary |-> 400, extra_assignment |-> 400, extra_terminal_call |-> 800,
   argument_normalization |-> 600]

RiskScore(deltas) == Min({One, MapThenSumSet(LAMBDA d: DeltaRiskWeights[d], deltas)})

BranchDeltas    == {"control_flow", "error_handling", "extra_context_manager", "loop"}
LocalTempDeltas == {"extra_local_temporary", "extra_assignment"}

NeedsCallback(deltas, mismatch) ==
  /\ "argument_normalization" \notin deltas
  /\ mismatch
  /\ deltas \cap {"callee_name", "receiver_shape", "argument_flow"} # {}

-----------------------------------------------------------------------------
(***************************************************************************)
(* What one shared function would cost, and how easy it would be to make.  *)
(***************************************************************************)
HasErrorEvidence(f) == f.errors.caveats # {} \/ f.errors.tries > 0 \/ f.errors.raises > 0

SameReturnShape(left, right) == left.returns # <<>> /\ left.returns = right.returns
SameErrorShape(left, right)  == HasErrorEvidence(left) /\ left.errors = right.errors

If(condition, score) == IF condition THEN score ELSE 0

AbstractionCost(left, right, skeleton, deltas, mismatch) ==
  LET parameters == Max({Len(left.parameters), Len(right.parameters)})
      lines      == Max({left.lines, right.lines, 1})
  IN Clamped(
       Share(1800, Min({HighParameters, Max({0, parameters - ManageableParameters})}),
             HighParameters)
       + Share(1600, Min({3, Len(skeleton.holes)}), 3)
       + Share(1600, Min({lines, skeleton.maxHoleSize}), lines)
       + Share(1200, Min({3, Cardinality(deltas \cap BranchDeltas)}), 3)
       + Share(1000, Cardinality(deltas \cap LocalTempDeltas), 2)
       + If(NeedsCallback(deltas, mismatch), 1000)
       + If(left.scope # right.scope, 1000)
       + If(left.public \/ right.public, 800))

Refactorability(left, right, sequence, skeleton, cost) ==
  LET longest == sequence.longest
  IN Clamped(
       Share(2200, sequence.lcs, longest)
       + Share(1800, Max({sequence.prefix, sequence.suffix}), longest)
       + Share(1600, Max({0, 3 - Len(skeleton.holes)}), 3)
       + Share(1400, Max({0, longest - skeleton.maxHoleSize}), longest)
       + If(SameReturnShape(left, right), 1000)
       + If(SameErrorShape(left, right), 800)
       + If(left.role = right.role, 800)
       + If(left.scope = right.scope, 400)
       - Share(3500, cost, One))

Confidence(relatedness, risk) == Clamped(Share(relatedness, 2 * One - risk, 2 * One))

ScoreBand(score) ==
  CASE score >= RefactorabilityHigh -> "high"
    [] score >= RefactorabilityMedium /\ score < RefactorabilityHigh -> "medium"
    [] score > 0 /\ score < RefactorabilityMedium -> "low"
    [] OTHER -> "track_only"

-----------------------------------------------------------------------------
(***************************************************************************)
(* The relation of two functions and the clone it is taken for.            *)
(***************************************************************************)
SkeletonOf(f)  == IF f.tree = NoTree THEN EmptyBag ELSE BodySkeleton(f.tree)
OperatorsOf(f) == IF f.tree = NoTree THEN EmptyBag ELSE BodyOperators(f.tree)

\* The same skeleton: measured, not estimated, and apart by labels only.
SameTree(left, right, tree) ==
  /\ tree.source \in ExactTreeSources
  /\ tree.similarity >= TreeSimilarityThreshold
  /\ SkeletonOf(left) = SkeletonOf(right)
  /\ OperatorsOf(left) = OperatorsOf(right)

RelationBasis(left, right, sequence, tree, parameter, normalizes) ==
  [bodyMatch      |-> SameBody(left, right),
   sameShape      |-> left.shape = right.shape,
   sameTree       |-> SameTree(left, right, tree),
   literalsDiffer |-> left.literals # right.literals,
   callsDiffer    |-> CallCounts(left) # CallCounts(right),
   sameCalls      |-> left.calls # <<>> /\ CallCounts(left) = CallCounts(right),
   controlDiffers |-> ToSet(left.control) # ToSet(right.control),
   sharedControl  |-> left.control # <<>> /\ ToSet(left.control) = ToSet(right.control),
   parameterFlow  |-> parameter >= ParameterFlowThreshold,
   sameReturn     |-> SameReturnShape(left, right),
   sameErrors     |-> SameErrorShape(left, right),
   tailFlow       |-> sequence.tailFlow,
   normalizes     |-> normalizes,
   prefix         |-> sequence.prefix,
   suffix         |-> sequence.suffix,
   lcs            |-> sequence.lcs]

HasWrapperEvidence(basis) ==
  /\ basis.prefix > 0 /\ basis.suffix > 0
  /\ \/ basis.prefix + basis.suffix >= MinWrapperStableEdges
     \/ basis.sameTree \/ basis.sameReturn \/ basis.sameErrors \/ basis.tailFlow

SameStatementsReordered(left, right) ==
  LET l == AlignedStatements(left)
      r == AlignedStatements(right)
  IN l # <<>> /\ l # r /\ ToBag(l) = ToBag(r)

\* The first of these that holds names the relation.
RelationKind(basis, left, right) ==
  IF basis.bodyMatch
  THEN IF left.name = right.name THEN "body_identical" ELSE "body_parameterized"
  ELSE IF basis.normalizes THEN "argument_normalization_wrapper"
  ELSE IF basis.sameTree /\ basis.literalsDiffer THEN "same_skeleton_different_literals"
  ELSE IF basis.sameTree /\ basis.callsDiffer THEN "same_skeleton_different_callees"
  ELSE IF SameStatementsReordered(left, right) THEN "same_statements_different_order"
  ELSE IF basis.parameterFlow /\ basis.controlDiffers THEN "same_argument_flow_different_control"
  ELSE IF HasWrapperEvidence(basis) THEN "common_wrapper_different_core"
  ELSE IF basis.lcs > basis.prefix + basis.suffix THEN "same_core_different_wrapper"
  ELSE IF basis.prefix > 0 THEN "common_prefix_divergent_tail"
  ELSE IF basis.suffix > 0 THEN "common_suffix_divergent_setup"
  ELSE IF basis.sameCalls /\ left.calls # right.calls THEN "same_call_set_different_order"
  ELSE "none"

RelationLabels(kind, basis) ==
  LET When(condition, label) == IF condition THEN {label} ELSE {}
  IN When(kind # "none", kind)
     \cup When(basis.bodyMatch, "body_identical")
     \cup When(basis.normalizes, "argument_normalization_wrapper")
     \cup When(basis.sameTree /\ basis.literalsDiffer, "same_skeleton_different_literals")
     \cup When(basis.sameTree /\ basis.callsDiffer, "same_skeleton_different_callees")
     \cup When(basis.parameterFlow /\ basis.controlDiffers, "same_argument_flow_different_control")
     \cup When(HasWrapperEvidence(basis), "common_wrapper_different_core")
     \cup When(basis.sameCalls, "same_call_set_different_order")
     \cup When(basis.prefix > 0, "common_prefix_divergent_tail")
     \cup When(basis.suffix > 0, "common_suffix_divergent_setup")
     \cup When(basis.lcs > basis.prefix + basis.suffix, "same_core_different_wrapper")

CloneClass(kind) ==
  CASE kind \in {"body_identical", "body_parameterized", "same_skeleton_different_literals"}
         -> "type_2_parameterized"
    [] kind \in {"same_argument_flow_different_control", "same_call_set_different_order"}
         -> "contract_analogy"
    [] kind = "none" -> "signature_signal_only"
    [] OTHER -> "type_3_near_miss"

ExtractRegionRelations ==
  {"common_prefix_divergent_tail", "common_suffix_divergent_setup", "same_core_different_wrapper"}
AbstractionRelations == {"common_wrapper_different_core", "same_statements_different_order"}

DefaultAction(kind, cloneClass, refactorability, cost) ==
  IF cloneClass = "signature_signal_only" THEN "observe"
  ELSE IF cloneClass = "contract_analogy" \/ cost >= HighAbstractionCost
  THEN "record_shared_concern"
  ELSE IF kind = "argument_normalization_wrapper" THEN "reuse_existing_helper"
  ELSE IF cloneClass = "type_2_parameterized" THEN "consolidate_clone"
  ELSE IF kind \in AbstractionRelations /\ refactorability >= RefactorabilityMedium
  THEN "introduce_abstraction"
  ELSE IF kind \in ExtractRegionRelations THEN "inspect_shared_lifecycle"
  ELSE "record_shared_concern"

\* clone_basis_for: the evidence a clone classification rests on.
CloneBasis(basis, scores, tree, sequence, skeleton, deltas) ==
  LET When(condition, label) == IF condition THEN {label} ELSE {}
  IN When(basis.sameShape, "same_signature_shape")
     \cup When(basis.normalizes, "typed_argument_normalization_wrapper")
     \cup When(basis.bodyMatch, "normalized_body_identity")
     \cup When(scores.name >= NameSimilarityThreshold, "normalized_name_similarity")
     \cup When(tree.source \in ExactTreeSources /\ tree.similarity >= TreeSimilarityThreshold,
               "body_structure_similarity")
     \cup When(basis.parameterFlow, "parameter_use_similarity")
     \cup When(scores.call >= CallFingerprintThreshold, "call_fingerprint_overlap")
     \cup When(scores.graph >= GraphThreshold, "local_dataflow_similarity")
     \cup When(basis.sharedControl, "control_context_similarity")
     \cup When(sequence.lcs >= MinStatementLcs, "statement_sequence_alignment")
     \cup When(skeleton.stable >= MinStableStatements, "anti_unification_template")
     \cup When(deltas # {}, "structural_delta_classification")

-----------------------------------------------------------------------------
(***************************************************************************)
(* relation_pair_from_features: a relation, or none when the two functions *)
(* are too far apart.                                                      *)
(***************************************************************************)
Skeleton(left, right, sequence) ==
  LET skeleton == AntiUnify(left.statements, right.statements,
                            AlignedStatements(left), AlignedStatements(right))
  IN [skeleton EXCEPT !.argumentFlow = @ \/ sequence.tailFlow]

RelatednessOf(scores, normalizes) ==
  IF normalizes THEN Max({Relatedness(scores), NormalizationRelatedness}) ELSE Relatedness(scores)

\* The relation of two functions whose evidence has been gathered.
Classified(left, right, scores, relatedness, tree, sequence, skeleton, deltas, cost, ease, basis) ==
  LET kind == RelationKind(basis, left, right)
      risk == RiskScore(deltas)
  IN [kind        |-> kind,
      labels      |-> RelationLabels(kind, basis),
      cloneClass  |-> CloneClass(kind),
      action      |-> DefaultAction(kind, CloneClass(kind), ease, cost),
      evidence    |-> CloneBasis(basis, scores, tree, sequence, skeleton, deltas),
      basis       |-> basis,
      tree        |-> tree,
      skeleton    |-> skeleton,
      deltas      |-> deltas,
      name        |-> scores.name,
      relatedness |-> relatedness,
      refactorability |-> ease,
      band        |-> ScoreBand(ease),
      cost        |-> cost,
      risk        |-> risk,
      confidence  |-> Confidence(relatedness, risk),
      sameRole    |-> left.role = right.role]

Costed(left, right, scores, relatedness, tree, sequence, normalizes, mismatch, skeleton, deltas) ==
  LET cost == AbstractionCost(left, right, skeleton, deltas, mismatch)
      ease == Max({Refactorability(left, right, sequence, skeleton, cost),
                   If(normalizes, NormalizationRefactorability)})
  IN Classified(left, right, scores, relatedness, tree, sequence, skeleton, deltas, cost, ease,
                RelationBasis(left, right, sequence, tree, scores.parameter, normalizes))

Related(left, right, scores, tree, sequence, normalizes) ==
  LET mismatch == "parameter" \notin scores.absent /\ scores.parameter < ParameterFlowThreshold
      relatedness == RelatednessOf(scores, normalizes)
  IN IF relatedness < RelatednessMinimum THEN NoRelation
     ELSE Costed(left, right, scores, relatedness, tree, sequence, normalizes, mismatch,
                 Skeleton(left, right, sequence), DeltaKinds(left, right, mismatch, normalizes))

Measured(left, right, scores, tree, sequence, normalizes) ==
  Related(left, right, [scores EXCEPT !.tree = tree.similarity], tree, sequence, normalizes)

Gated(left, right, scores, sequence, normalizes) ==
  LET decision == TreeEditDecision(left, right, scores, normalizes)
  IN IF decision = "reject" THEN NoRelation
     ELSE Measured(left, right, scores, CompareTrees(left, right, decision, sequence), sequence,
                   normalizes)

Sequenced(left, right, sequence) ==
  Gated(left, right, CheapScores(left, right, sequence), sequence, Normalizes(left, right))

RelationPair(left, right) == Sequenced(left, right, CompareSequences(left, right))

=============================================================================
