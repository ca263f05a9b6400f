-------------------------- MODULE ClusterEnrichment --------------------------
(***************************************************************************)
(* What relation analysis says about the members of one cluster: the       *)
(* strongest relations of its candidate pairs, the actions they call for,  *)
(* the subclusters, and the risks of one abstraction for all of them.      *)
(*                                                                         *)
(* Every function has its relation detail (RelationDetail models when it   *)
(* has not).  The relation of a pair depends on nothing but the pair, and  *)
(* the pair cache holds it from one run to the next; here it is warm.      *)
(***************************************************************************)
EXTENDS PairSelection

CONSTANTS
  StopTokens,        \* words of names that carry no meaning: get, set, make, ...
  BoundaryTokens     \* words that mark boundary-sensitive code: auth, timeout, ...

VARIABLE relations   \* the pair cache: the relation of each pair

ManyParameters      == 4
MinVocabularyMembers == 2
MultiMember         == 2
MaxSkeletonCost     == 2500

\* The pairs of functions, each with its relation.
Compared(features, place) ==
  Tabulated([p \in {pair \in Functions \X Functions: place[pair[1]] < place[pair[2]]} |->
               RelationPair(features[p[1]], features[p[2]])])

-----------------------------------------------------------------------------
(***************************************************************************)
(* The strongest relations, first in the list of candidates first.         *)
(***************************************************************************)
UpTo(sequence, limit) == SubSeq(sequence, 1, Min({limit, Len(sequence)}))

StrengthRank(pairs, list) ==
  RankBy([p \in pairs |->
            <<-relations[p].relatedness, -relations[p].refactorability,
              Features[p[1]].file, Features[p[2]].file, list[p]>>])

StrongestFirst(related, list) == Ranked(related, StrengthRank(related, list))

StrongestRelations(candidates, list) ==
  UpTo(StrongestFirst({p \in candidates: relations[p] # NoRelation}, list),
       Limits.relationPairs)

IsStructuralDuplicate(relation) ==
  /\ relation.sameRole
  /\ relation.name >= NameSimilarityThreshold
  /\ relation.tree.similarity >= TreeSimilarityThreshold
  /\ relation.kind \in {"body_identical", "body_parameterized"}

StructuralDuplicates(strongest) ==
  UpTo(SelectSeq(strongest, LAMBDA p: IsStructuralDuplicate(relations[p])), Limits.duplicatePairs)

-----------------------------------------------------------------------------
(***************************************************************************)
(* Actions.                                                                *)
(***************************************************************************)
Action(kind, status, reasons, rejections, appliesTo) ==
  [kind |-> kind, status |-> status, reasons |-> reasons, rejections |-> rejections,
   appliesTo |-> appliesTo]

Recommended(kind, reasons, appliesTo) == Action(kind, "recommended", reasons, {}, appliesTo)

Rejected(reasons, rejections, appliesTo) ==
  Action("do_not_refactor", "not_recommended", reasons, rejections, appliesTo)

SkeletonRelations == {"same_skeleton_different_literals", "same_skeleton_different_callees"}

EditableSkeleton(relation) ==
  relation.refactorability >= RefactorabilityHigh /\ relation.cost <= MaxSkeletonCost

PairActions(relation, members) ==
  CASE relation.kind \in {"body_identical", "body_parameterized"}
         -> <<Recommended("consolidate_clone", {}, members)>>
    [] relation.kind \in SkeletonRelations /\ EditableSkeleton(relation)
         -> <<Recommended("consolidate_clone", relation.deltas, members)>>
    [] relation.kind = "argument_normalization_wrapper"
         -> <<Recommended("reuse_existing_helper", relation.deltas, members)>>
    [] relation.kind = "common_prefix_divergent_tail"
         -> <<Recommended("record_shared_concern", relation.deltas, members),
              Rejected({}, {"COMMON_REGION_TOO_SMALL"}, members)>>
    [] relation.kind \in AbstractionRelations
         -> <<IF relation.cost >= HighAbstractionCost
              THEN Rejected(relation.deltas, {"HIGH_ABSTRACTION_COST"}, members)
              ELSE Recommended("introduce_abstraction", relation.deltas, members),
              Recommended("record_shared_concern", relation.deltas, members)>>
    [] OTHER -> <<>>

ActionsOf(p) == PairActions(relations[p], {p[1], p[2]})

TooBroad(pairs, members) ==
  /\ Cardinality(members) > MultiMember
  /\ \E p \in pairs: relations[p].kind = "common_prefix_divergent_tail"

SameAdvice(a, b) ==
  /\ a.kind = b.kind /\ a.status = b.status
  /\ a.reasons = b.reasons /\ a.rejections = b.rejections

UniqueActions(actions) ==
  FoldLeft(LAMBDA kept, action:
             IF \E i \in DOMAIN kept: SameAdvice(kept[i], action) THEN kept
             ELSE Append(kept, action),
           <<>>, actions)

\* Mutant: a group is not warned about as a whole.
ActionsOfPairsOnly(strongest, members) ==
  UpTo(UniqueActions(FlattenSeq([i \in DOMAIN strongest |-> ActionsOf(strongest[i])])),
       Limits.actions)

ActionCandidates(strongest, members) ==
  LET warning == IF TooBroad(ToSet(strongest), members)
                 THEN <<Rejected({}, {"GROUP_TOO_BROAD_FOR_SINGLE_REFACTOR"}, members)>>
                 ELSE <<>>
  IN UpTo(UniqueActions(FlattenSeq([i \in DOMAIN strongest |-> ActionsOf(strongest[i])])
                        \o warning),
          Limits.actions)

KindsOf(actions, status) ==
  LET selected == SelectSeq(actions, LAMBDA action: action.status = status)
  IN [i \in DOMAIN selected |-> selected[i].kind]

Summary(recommended, rejected) ==
  [primary        |-> UpTo(recommended, 1),
   secondary      |-> SubSeq(recommended, 2, Min({2, Len(recommended)})),
   notRecommended |-> rejected]

SummarizeActions(actions) ==
  Summary(KindsOf(actions, "recommended"), KindsOf(actions, "not_recommended"))

-----------------------------------------------------------------------------
(***************************************************************************)
(* Subclusters: the pairs of one kind, assessed by their best scores.      *)
(***************************************************************************)
Subcluster(kind, pairs) ==
  LET Highest(Score(_)) == Max({Score(relations[p]): p \in pairs})
      ease == Highest(LAMBDA relation: relation.refactorability)
  IN [kind    |-> kind,
      class   |-> CloneClass(kind),
      action  |-> DefaultAction(kind, CloneClass(kind), ease,
                                Highest(LAMBDA relation: relation.cost)),
      band    |-> ScoreBand(ease),
      pairs   |-> Cardinality(pairs),
      members |-> MembersOf(pairs)]

Subclusters(pairs) ==
  {Subcluster(kind, {p \in pairs: relations[p].kind = kind}):
     kind \in {relations[p].kind: p \in pairs}}

-----------------------------------------------------------------------------
(***************************************************************************)
(* Evidence and risks of the whole group.                                  *)
(***************************************************************************)
CallsiteKinds == {"callsite_immediate", "callsite_stored_reuse", "callsite_registered",
                  "callsite_pipeline", "callsite_cached"}

CallsitesOf(members) == (UNION {Features[f].callsites: f \in members}) \cap CallsiteKinds

EvidenceKinds(members, base, duplicates) ==
  {base}
  \cup (IF \E f \in members: Features[f].factory THEN {"callable_factory"} ELSE {})
  \cup (IF duplicates # {} THEN {"structural_duplicate"} ELSE {})
  \cup CallsitesOf(members)

Words(f) == ToSet(Features[f].name) \ StopTokens

VocabularyMismatch(members) ==
  LET named  == {f \in members: Words(f) # {}}
      common == {word \in UNION {Words(f): f \in named}: \A f \in named: word \in Words(f)}
  IN /\ Cardinality(named) >= MinVocabularyMembers
     /\ common = {}

Layers(members) == {LayerPath(Paths[Features[f].file]): f \in members}

IsBoundary(f) ==
  (ToSet(Features[f].name) \cup WordsOfPath(Paths[Features[f].file])) \cap BoundaryTokens # {}

AbstractionRisks(members, evidence) ==
  LET When(condition, risk) == IF condition THEN {risk} ELSE {}
  IN When(\E f \in members: Len(Features[f].parameters) >= ManyParameters, "many_parameters")
     \cup When(VocabularyMismatch(members), "vocabulary_mismatch")
     \cup When(Cardinality(Layers(members)) > 1, "layer_mismatch")
     \cup When(evidence = {"signature_shape_cluster"}, "small_commonality")
     \cup When(Cardinality({Features[f].caveats: f \in members}) > 1, "error_semantics_mismatch")
     \cup When({IsBoundary(f): f \in members} = BOOLEAN, "boundary_mismatch")
     \cup When((\E f \in members: IsTestMember(Paths[Features[f].file], Features[f].role))
               /\ Cardinality({Features[f].role: f \in members}) > 1, "test_semantics_mismatch")

AbstractionKind(evidence, risks) ==
  IF risks \cap {"layer_mismatch", "vocabulary_mismatch", "test_semantics_mismatch"} # {}
     /\ evidence \cap CallsiteKinds = {}
  THEN "track_only"
  ELSE IF "callsite_registered" \in evidence THEN "registry_dispatch"
  ELSE IF "callsite_pipeline" \in evidence THEN "pipeline_template"
  ELSE IF "callable_factory" \in evidence THEN "compiler_factory"
  ELSE IF evidence \cap {"structural_duplicate", "argument_normalization_wrapper"} # {}
  THEN "extract_helper"
  ELSE "track_only"

GroupConfidence(evidence, risks) ==
  LET score == 3500
               + If("callable_factory" \in evidence, 500)
               + If(evidence \cap CallsiteKinds # {}, 700)
               + If("structural_duplicate" \in evidence, 1800)
               + If("argument_normalization_wrapper" \in evidence, 1200)
               - Min({1800, 300 * Cardinality(risks)})
  IN Max({1500, Min({8500, score})})

-----------------------------------------------------------------------------
(***************************************************************************)
(* enrich_signature_cluster                                                *)
(***************************************************************************)
Assessed(members, pairs, duplicates, actions, evidence, risks) ==
  [pairs       |-> pairs,
   duplicates  |-> duplicates,
   actions     |-> actions,
   summary     |-> SummarizeActions(actions),
   subclusters |-> Subclusters(pairs),
   evidence    |-> evidence,
   risks       |-> risks,
   abstraction |-> AbstractionKind(evidence, risks),
   confidence  |-> GroupConfidence(evidence, risks)]

WithEvidence(members, pairs, duplicates, actions, evidence) ==
  Assessed(members, pairs, duplicates, actions, evidence, AbstractionRisks(members, evidence))

WithDuplicates(members, base, strongest, duplicates) ==
  WithEvidence(members, ToSet(strongest), duplicates, ActionCandidates(strongest, members),
               EvidenceKinds(members, base, duplicates))

WithPairs(members, base, strongest) ==
  WithDuplicates(members, base, strongest, ToSet(StructuralDuplicates(strongest)))

Enrich(members, base, candidates, list) ==
  WithPairs(members, base, StrongestRelations(candidates, list))

=============================================================================
