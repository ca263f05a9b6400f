------------------------------ MODULE Findings ------------------------------
(***************************************************************************)
(* From clusters of functions to the ranked findings of a report: the      *)
(* drafts of each cluster, of the clone groups promoted out of it and of   *)
(* the blocks functions share; one assessment per draft; target IDs; the   *)
(* removal of repeats; the ranking and the surfaces of the report.         *)
(*                                                                         *)
(* Source: analysis/findings, analysis/relations (actions, blocks,         *)
(* summary, structural pairs) and analysis/assessment/findings.py.         *)
(*                                                                         *)
(* A body is a version of a function's code. What the comparison of two    *)
(* bodies finds is given (Compare), as are the clusters, their candidate   *)
(* pairs and the answers a semantic provider may give. Functions and       *)
(* constants are numbered in the order of their locations. Each step edits *)
(* a function, redefines a constant or asks the provider about a function, *)
(* and analyses the result.                                                *)
(***************************************************************************)
EXTENDS Assessment, PolicyConstants, SemanticRoles

CONSTANTS
  StructuralPolicy, PairPolicy, BlockPolicy,  \* of relations/policy.py
  Member,     \* the functions
  Layouts,    \* files, names, declarations, clusters and constants of a repository,
              \* the form each function has with each body it may have, and bounds:
              \* the bodies its functions may all start with, the functions edited
              \* and the constants redefined in it
  Definitions, \* what a constant may be redefined as
  Bodies,     \* [body |-> [lines, local]]; local: the blocks it repeats
  Runs,       \* statement runs two bodies may share: [run |-> [lines, statements]]
  Compare,    \* [<<body, body>> |-> scores and labels of the pair]
  Answers,    \* [answer |-> facts of a provider about a function]
  Asked       \* bound: the functions a provider is asked about

(* A list, as opposed to another function.                                   *)
IsList(s) == s \in Seq(ToSet(s))

ASSUME FindingsAssumption ==
  /\ \A policy \in {StructuralPolicy, PairPolicy, BlockPolicy} :
        \A field \in DOMAIN policy : policy[field] \in Nat
  /\ "relation_pair_limit" \in DOMAIN PairPolicy
  /\ "structural_pair_limit" \in DOMAIN StructuralPolicy
  /\ Member \subseteq Nat /\ IsFiniteSet(Member) /\ Asked \subseteq Member
  /\ IsFiniteSet(DOMAIN Runs) /\ \A r \in DOMAIN Runs : Runs[r].statements \in Nat
  /\ \A b \in DOMAIN Bodies : IsList(Bodies[b].local)
  /\ DOMAIN Compare = (DOMAIN Bodies) \X (DOMAIN Bodies)
  /\ "none" \notin DOMAIN Answers
  /\ \A l \in Layouts : /\ IsList(l.clusters) /\ IsFiniteSet(DOMAIN l.constants)
                        /\ DOMAIN l.constants \subseteq Nat
                        /\ Member \cup DOMAIN l.constants \subseteq DOMAIN l.at
                        /\ Member \cap DOMAIN l.constants = {}
                        /\ \A m \in Member : /\ l.starts \subseteq DOMAIN l.forms[m]
                                            /\ DOMAIN l.forms[m] \subseteq DOMAIN Bodies
                        /\ l.edited \subseteq Member /\ l.redefined \subseteq DOMAIN l.constants

VARIABLES
  layout,   \* the layout of the repository
  constants, \* [place of a definition -> the constant defined there]
  body,     \* [Member -> body]
  answer,   \* [Member -> answer, or "none"]
  targets,  \* every assessed target of the last analysis, in draft order
  report    \* the findings kept of them, by rank

vars == <<layout, constants, body, answer, targets, report>>

(* The constants of promotion.py: no settings.                               *)
PromotionGates ==
  [promoted_relation_min_confidence |-> 7000, guarded_promoted_pair_max_body_lines |-> 5,
   guarded_promoted_pair_min_stable_statements |-> 5]

-----------------------------------------------------------------------------
(* Lists, as Python makes them of others.                                   *)

Precedes(s, t) ==
  \E i \in DOMAIN s : s[i] < t[i] /\ \A j \in 1..i - 1 : s[j] = t[j]

(* sorted(): equals stay in their order.                                     *)
Sorted(items, Before(_, _)) ==
  LET Ahead(j, k) == \/ Before(items[j], items[k])
                     \/ j <= k /\ ~Before(items[k], items[j])
      place == [k \in DOMAIN items |-> Cardinality({j \in DOMAIN items : Ahead(j, k)})]
  IN  [i \in DOMAIN items |-> items[CHOOSE k \in DOMAIN items : place[k] = i]]

-----------------------------------------------------------------------------
(* Functions, their files and roles.                                        *)

FileOf(l, m) == l.files[l.at[m].file]
RolesOf(l, code, m) == l.roles[m][code[m]]

FileRecord(file) ==
  [path |-> file.path, family |-> file.family, directory |-> file.path.directories,
   role |-> ScanRole(file.path, file.family), async |-> AsyncPath(file.path)]

(* What extraction finds in the files: the roles of each function with each  *)
(* body it may have.                                                         *)
Extracted(l) ==
  LET files == [f \in DOMAIN l.files |-> FileRecord(l.files[f])]
      Roles(m, b) ==
        LET file == files[l.at[m].file]
        IN  SemanticRoles(file.path, file.role, file.family, l.declared[m], l.forms[m][b],
                          Bodies[b].lines)
  IN  [files |-> files, at |-> l.at, declared |-> l.declared, alike |-> l.alike,
       clusters |-> l.clusters, forms |-> l.forms,
       edited |-> l.edited, redefined |-> l.redefined, starts |-> l.starts,
       roles |-> [m \in Member |-> [b \in DOMAIN l.forms[m] |-> Roles(m, b)]]]

(* The same name on a synchronous and an asynchronous path.                  *)
Mirrors(l, members) ==
  \E x, y \in members : /\ l.at[x].name = l.at[y].name
                        /\ FileOf(l, x).async # FileOf(l, y).async

FamilyRoles ==
  [api_surface |-> {"adapter_forwarder", "public_api_mirror", "sync_async_mirror",
                    "command_or_registry_surface", "implementation_contract_method",
                    "framework_connector", "framework_render_surface", "framework_hook",
                    "generated_or_cython_boundary"},
   constructor |-> {"constructor"},
   declaration |-> DeclarationRoles,
   example |-> {"example_code"},
   interface_only |-> InterfaceRoles,
   protocol |-> {"operator_overload", "descriptor_method", "attribute_access_hook",
                 "container_protocol", "comparison_protocol", "context_manager_protocol",
                 "async_protocol", "property_accessor"},
   test |-> {"test_code"}]

(* A cluster is over functions, its candidates over pairs of them in order.  *)
(* A special name is of a group of Python's protocols, a decorator a name. A *)
(* block is a part of a function.                                            *)
ASSUME LayoutsAssumption ==
  /\ \A pair \in DOMAIN Compare :
        /\ Compare[pair].relatedness \in Nat /\ Compare[pair].refactorability \in Nat
        /\ Compare[pair].confidence \in Nat /\ Compare[pair].risk \in Nat
        /\ Compare[pair].clone_type \in {"type_2_parameterized", "type_3_near_miss"} =>
             Compare[pair].kind # "none"
  /\ "whole" \notin DOMAIN Runs
  /\ \A b \in DOMAIN Bodies : \A block \in ToSet(Bodies[b].local) : "whole" \notin block.parts
  /\ \A l \in Layouts :
        /\ \A c \in ToSet(l.clusters) :
              /\ c.members \in (SUBSET Member) \ {{}} /\ IsFiniteSet(c.risks)
              /\ IsList(c.candidates)
              /\ \A p \in ToSet(c.candidates) : p \in c.members \X c.members /\ p[1] < p[2]
        /\ \A m \in Member :
              /\ l.declared[m].special \in {"none", "dunder", "other", "constructor"}
                                            \cup FamilyRoles.protocol
              /\ \A d \in l.declared[m].decorators : IsList(d) /\ d # <<>>

-----------------------------------------------------------------------------
(* Relation pairs: the candidate pairs of a cluster that are related enough, *)
(* the strongest first, and the actions each of them proposes.               *)

Propose(kind, preconditions, reasons) ==
  [kind |-> kind, status |-> "recommended", preconditions |-> preconditions,
   reasons |-> reasons, rejections |-> ""]

Reject(reasons, rejections) ==
  [kind |-> "do_not_refactor", status |-> "not_recommended", preconditions |-> {},
   reasons |-> reasons, rejections |-> rejections]

(* Preconditions that no gate reads are left out.                            *)
PairActions(kind, p) ==
  CASE kind \in CleanClones -> <<Propose("consolidate_clone", {}, {})>>
    [] /\ kind \in Skeletons
       /\ p.refactorability >= RelationAssessmentPolicy.refactorability_high_threshold
       /\ p.cost <= RelationAssessmentPolicy.parameterized_skeleton_max_abstraction_cost ->
         <<Propose("consolidate_clone", {}, p.deltas)>>
    [] kind = "argument_normalization_wrapper" ->
         <<Propose("reuse_existing_helper",
                   {"shared_operation_after_argument_normalization",
                    "simple_argument_transform", "existing_helper_boundary"}, p.deltas)>>
    [] kind = "common_prefix_divergent_tail" ->
         <<Propose("record_shared_concern", {}, p.deltas),
           Reject({}, "COMMON_REGION_TOO_SMALL")>>
    [] kind \in {"common_wrapper_different_core", "same_statements_different_order"} ->
         <<IF p.cost >= RelationAssessmentPolicy.high_abstraction_cost_threshold
           THEN Reject(p.deltas, "HIGH_ABSTRACTION_COST")
           ELSE Propose("introduce_abstraction", {}, p.deltas),
           Propose("record_shared_concern", {}, p.deltas)>>
    [] OTHER -> <<>>

(* Equal bodies are identical only if their functions have one name too.     *)
PairKind(l, x, y, p) ==
  IF ~p.hash THEN p.kind
  ELSE IF l.at[x].name = l.at[y].name THEN "body_identical" ELSE "body_parameterized"

Pair(l, code, x, y) ==
  LET p == Compare[<<code[x], code[y]>>]
      lines == {Bodies[code[x]].lines, Bodies[code[y]].lines}
  IN  [left |-> x, right |-> y, is |-> p,
       kind |-> PairKind(l, x, y, p),
       same_role |-> FileOf(l, x).role = FileOf(l, y).role,
       same_directory |-> FileOf(l, x).directory = FileOf(l, y).directory,
       max_lines |-> Max(lines), min_lines |-> Min(lines),
       actions |-> PairActions(PairKind(l, x, y, p), p)]

Related(p, q) ==
  Precedes(<<-p.is.relatedness, -p.is.refactorability, p.left, p.right>>,
           <<-q.is.relatedness, -q.is.refactorability, q.left, q.right>>)

First(seq, n) == SubSeq(seq, 1, Smaller(n, Len(seq)))

RelationPairs(l, code, candidates) ==
  LET pairs == [i \in DOMAIN candidates |->
                  Pair(l, code, candidates[i][1], candidates[i][2])]
      related == Filtered(pairs, LAMBDA p : p.is.relatedness >= PairPolicy.relatedness_minimum)
  IN  First(Sorted(related, Related), PairPolicy.relation_pair_limit)

(* The clusters of a layout: one over similar content only if a pair of it   *)
(* is related.                                                               *)
Clusters(l, code) ==
  Kept(l.clusters, {i \in DOMAIN l.clusters :
                      \/ "content_similarity" \notin l.clusters[i].kinds
                      \/ RelationPairs(l, code, l.clusters[i].candidates) # <<>>})

StructuralDuplicate(l, p) ==
  /\ p.same_role /\ p.kind \in CleanClones
  /\ l.at[p.left].name = l.at[p.right].name \/ {p.left, p.right} \in l.alike
  /\ p.is.tree >= StructuralPolicy.tree_similarity_threshold

StructuralDuplicates(l, pairs) ==
  First(Filtered(pairs, LAMBDA p : StructuralDuplicate(l, p)),
        StructuralPolicy.structural_pair_limit)

SameAction(a, b) ==
  /\ a.kind = b.kind /\ a.status = b.status
  /\ a.reasons = b.reasons /\ a.rejections = b.rejections

(* What the pairs of a group propose, each action once.                      *)
ActionCandidates(pairs, members) ==
  LET proposed == FlattenSeq([i \in DOMAIN pairs |-> pairs[i].actions])
      tooBroad == /\ Cardinality(members) > PairPolicy.multi_member_threshold
                  /\ \E p \in ToSet(pairs) : p.kind = "common_prefix_divergent_tail"
      all == IF tooBroad
             THEN Append(proposed, Reject({}, "GROUP_TOO_BROAD_FOR_SINGLE_REFACTOR"))
             ELSE proposed
      new == {i \in DOMAIN all : \A j \in 1..i - 1 : ~SameAction(all[i], all[j])}
  IN  First(Kept(all, new), PairPolicy.action_limit)

-----------------------------------------------------------------------------
(* The metrics of a draft. One pair, the most certain, gives its scores; the *)
(* counts are over all pairs.                                               *)

NoSemantics ==
  [unresolved_item_count |-> 0, ambiguous_ownership_count |-> 0, declaration_only_count |-> 0,
   same_overload_group_pair_count |-> 0, shared_call_target_pair_count |-> 0,
   divergent_call_target_pair_count |-> 0]

Plain ==
  [member_count |-> 0, cluster_scope |-> "same_language", language_count |-> 1,
   adapter_count |-> 1, min_extraction_confidence |-> "high",
   policy_constant_duplicate_count |-> 0, duplicate_block_count |-> 0,
   duplicate_block_line_count |-> 0, max_body_line_count |-> 0, min_body_line_count |-> 0,
   min_stable_statement_count |-> 0, structural_duplicate_pair_count |-> 0,
   structural_relation_pair_count |-> 0, guardrail_relation_pair_count |-> 0,
   body_hash_match_count |-> 0, same_role_relation_count |-> 0,
   same_directory_relation_count |-> 0, promoted_pair_count |-> 0,
   promoted_member_count |-> 0, pair_member_count |-> 0,
   relation_kind_counts |-> <<>>, delta_kind_counts |-> <<>>,
   lead_tree_similarity |-> 0, lead_relatedness_score |-> 0, lead_refactorability_score |-> 0,
   lead_abstraction_cost_score |-> 0, lead_risk_score |-> 0, lead_confidence_score |-> 0,
   lead_stable_statement_count |-> 0, lead_hole_count |-> 0, lead_hole_size |-> 0,
   semantic_role_counts |-> <<>>, semantic_evidence |-> NoSemantics,
   guardrails |-> [family \in DOMAIN FamilyRoles |->
                     [members |-> 0, duplicate_pairs |-> 0, relation_pairs |-> 0]]]

CountIn(set, P(_)) == Cardinality({e \in set : P(e)})
Tally(values, set, Has(_, _)) == [v \in values |-> CountIn(set, LAMBDA e : Has(e, v))]

LeadPair(pairs) ==
  LET Key(p) == <<-p.is.confidence, -p.is.relatedness, -p.is.refactorability, p.left, p.right>>
  IN  CHOOSE p \in pairs : \A q \in pairs : q = p \/ Precedes(Key(p), Key(q))

PairMembers(pairs) == {p.left : p \in pairs} \cup {p.right : p \in pairs}

WithPairs(m, pairs, duplicates) ==
  IF pairs = {} THEN m
  ELSE LET lead == LeadPair(pairs).is
       IN  [m EXCEPT
              !.structural_duplicate_pair_count = Cardinality(duplicates),
              !.structural_relation_pair_count = Cardinality(pairs),
              !.guardrail_relation_pair_count = Cardinality(pairs),
              !.body_hash_match_count = CountIn(pairs, LAMBDA p : p.is.hash),
              !.same_role_relation_count = CountIn(pairs, LAMBDA p : p.same_role),
              !.same_directory_relation_count = CountIn(pairs, LAMBDA p : p.same_directory),
              !.relation_kind_counts =
                Tally({p.kind : p \in pairs}, pairs, LAMBDA p, k : p.kind = k),
              !.delta_kind_counts =
                Tally(UNION {p.is.deltas : p \in pairs}, pairs, LAMBDA p, d : d \in p.is.deltas),
              !.lead_tree_similarity = lead.tree,
              !.lead_relatedness_score = lead.relatedness,
              !.lead_refactorability_score = lead.refactorability,
              !.lead_abstraction_cost_score = lead.cost,
              !.lead_risk_score = lead.risk,
              !.lead_confidence_score = lead.confidence,
              !.lead_stable_statement_count = lead.stable,
              !.lead_hole_count = lead.holes,
              !.lead_hole_size = lead.hole_size,
              !.max_body_line_count = Max({p.max_lines : p \in pairs}),
              !.min_body_line_count = Min({p.min_lines : p \in pairs}),
              !.min_stable_statement_count = Min({p.is.stable : p \in pairs})]

(* Roles of the members, and of the pairs whose two members share them.      *)
InFamily(roles, family) == roles \cap FamilyRoles[family] # {}

RoleCounts(l, code, members, mirrored) ==
  LET counts == Tally(UNION {RolesOf(l, code, x) : x \in members}, members,
                      LAMBDA x, r : r \in RolesOf(l, code, x))
  IN  IF mirrored
      THEN Also([sync_async_mirror |-> 1 + Count(counts, "sync_async_mirror")], counts)
      ELSE counts

Guardrails(l, code, members, pairs, duplicates, mirrored) ==
  LET Roles(x) == RolesOf(l, code, x)
      Shares(p, family) ==
        \/ InFamily(Roles(p.left) \cap Roles(p.right), family)
        \/ family = "api_surface" /\ Mirrors(l, {p.left, p.right})
      Carriers(family) == {x \in members : InFamily(Roles(x), family)}
  IN  [family \in DOMAIN FamilyRoles |->
         [members |-> IF family = "constructor" THEN 0
                      ELSE IF family = "api_surface" /\ mirrored THEN Cardinality(members)
                      ELSE Cardinality(Carriers(family)),
          duplicate_pairs |-> CountIn(duplicates, LAMBDA p : Shares(p, family)),
          relation_pairs |-> CountIn(pairs, LAMBDA p : Shares(p, family))]]

WithRoles(m, l, code, members, pairs, duplicates, mirrored) ==
  [m EXCEPT !.semantic_role_counts = RoleCounts(l, code, members, mirrored),
            !.guardrails = Guardrails(l, code, members, pairs, duplicates, mirrored)]

(* What a provider's answers say of the members and of their pairs.          *)
SharedTarget(a, b) ==
  \E t \in a.call_targets, u \in b.call_targets : t.identity = u.identity
DivergentTarget(a, b) ==
  \E token \in {t.token : t \in a.call_targets} \cap {t.token : t \in b.call_targets} :
     \A t \in a.call_targets, u \in b.call_targets :
        t.token = token /\ u.token = token => t.identity # u.identity
SameOverload(a, b) == a.overload_group_id # "" /\ a.overload_group_id = b.overload_group_id

WithSemantics(m, given, members, pairs) ==
  LET answered == {x \in members : given[x] # "none"}
      Item(x) == Answers[given[x]]
      both == {p \in pairs : p.left \in answered /\ p.right \in answered}
      PairsWith(Fact(_, _)) == CountIn(both, LAMBDA p : Fact(Item(p.left), Item(p.right)))
  IN  [m EXCEPT !.semantic_evidence =
         [unresolved_item_count |-> CountIn(answered, LAMBDA x : ~Item(x).resolved),
          ambiguous_ownership_count |-> CountIn(answered, LAMBDA x : Item(x).ownership_ambiguous),
          declaration_only_count |-> CountIn(answered, LAMBDA x : Item(x).declaration_only),
          same_overload_group_pair_count |-> PairsWith(SameOverload),
          shared_call_target_pair_count |-> PairsWith(SharedTarget),
          divergent_call_target_pair_count |-> PairsWith(DivergentTarget)]]

-----------------------------------------------------------------------------
(* Clone groups that deserve a target of their own.                         *)

ExactOrStrong(p) ==
  \/ p.is.hash
  \/ /\ p.is.clone_type \in {"type_2_parameterized", "type_3_near_miss"}
     /\ p.is.confidence >= PromotionGates.promoted_relation_min_confidence

(* Required surface: a pair of it is reported with its cluster only.         *)
Guarded(l, code, p) ==
  LET Either(family) ==
        InFamily(RolesOf(l, code, p.left) \cup RolesOf(l, code, p.right), family)
  IN  \/ Either("interface_only") \/ Either("example")
      \/ /\ Either("protocol") \/ Either("api_surface")
         /\ \/ p.min_lines <= PromotionGates.guarded_promoted_pair_max_body_lines
            \/ p.is.stable < PromotionGates.guarded_promoted_pair_min_stable_statements

Promotable(l, code, p) == p.same_role /\ ~Guarded(l, code, p) /\ ExactOrStrong(p)

ByLocation(p, q) == Precedes(<<p.left, p.right>>, <<q.left, q.right>>)

(* The groups of functions that pairs connect.                               *)
Connected(pairs) ==
  LET closed == {g \in SUBSET Member : /\ g \cap PairMembers(pairs) # {}
                                       /\ \A p \in pairs : p.left \in g <=> p.right \in g}
  IN  {g \in closed : \A h \in closed : h \subseteq g => h = g}

(* Their pairs, by the location of the first of each.                        *)
PairComponents(pairs) ==
  LET Component(g) == Sorted(Filtered(pairs, LAMBDA p : p.left \in g), ByLocation)
  IN  Sorted(SetToSeq({Component(g) : g \in Connected(ToSet(pairs))}),
             LAMBDA c, d : ByLocation(c[1], d[1]))

(* Mutant: a cluster with one group of clones is that group.                 *)
ShouldPromoteSeveral(cluster, components, pairs) == Len(components) > 1

ShouldPromote(cluster, components, pairs) ==
  LET promoted == UNION {ToSet(c) : c \in ToSet(components)}
  IN  \/ Len(components) > 1
      \/ /\ components # <<>>
         /\ \/ Cardinality(PairMembers(promoted)) < Cardinality(cluster.members)
            \/ Cardinality(pairs) > Cardinality(promoted)

Promoted(l, code, cluster, pairs) ==
  LET components == PairComponents(Filtered(pairs, LAMBDA p : Promotable(l, code, p)))
  IN  IF ShouldPromote(cluster, components, ToSet(pairs)) THEN components ELSE <<>>

-----------------------------------------------------------------------------
(* The drafts. A location is a function or a part of one.                   *)

Titles == <<"Argument-normalization wrapper", "Cross-language analogous signature shape",
            "Drifted policy constant", "Duplicate helper", "Duplicate helpers",
            "Duplicated policy constant", "Repeated local block",
            "Same-family analogous signature shape", "Scattered policy literal",
            "Shared block", "Shared signature shape", "Similar implementations">>

Whole(members) == {<<m, "whole">> : m \in members}
FilesOf(l, members) == {l.at[m].file : m \in members}
LineSpan(code, members) == MapThenSumSet(LAMBDA m : Bodies[code[m]].lines + 1, members)

ClusterTitle(cluster) ==
  IF "content_similarity" \in cluster.kinds THEN "Similar implementations"
  ELSE IF "argument_normalization_wrapper" \in cluster.kinds
  THEN "Argument-normalization wrapper"
  ELSE CASE cluster.scope = "cross_language" -> "Cross-language analogous signature shape"
         [] cluster.scope = "same_family" -> "Same-family analogous signature shape"
         [] OTHER -> "Shared signature shape"

OfCluster(m, cluster, members) ==
  [m EXCEPT !.member_count = Cardinality(members), !.cluster_scope = cluster.scope,
            !.language_count = cluster.language_count, !.adapter_count = cluster.adapter_count,
            !.min_extraction_confidence = cluster.extraction]

Draft(l, metrics, locations, lines, source, kind, title, kinds, actions) ==
  LET files == FilesOf(l, {loc[1] : loc \in locations})
  IN  [metrics |-> metrics, evidence_kinds |-> kinds, basis |-> {},
       has_signature_overlap |-> FALSE, abstraction_risks |-> {}, line_span |-> lines,
       files |-> files, file_roles |-> {l.files[f].role : f \in files},
       actions |-> actions, summary |-> Summary(actions),
       locations |-> locations, source |-> source, kind |-> kind, title |-> title]

OfSignatures(kinds) == kinds = {} \/ "signature_shape_cluster" \in kinds

ClusterDraft(l, code, given, cluster, items, pairs, components) ==
  LET duplicates == ToSet(StructuralDuplicates(l, items))
      promoted == UNION {ToSet(c) : c \in ToSet(components)}
      members == cluster.members
      kinds == cluster.kinds \cup If(duplicates # {}, "structural_duplicate")
      measured == WithPairs(OfCluster(Plain, cluster, members), pairs, duplicates)
      roled == WithRoles(measured, l, code, members, pairs, duplicates, Mirrors(l, members))
      metrics == [WithSemantics(roled, given, members, pairs) EXCEPT
                    !.promoted_pair_count = Cardinality(promoted),
                    !.promoted_member_count = Cardinality(PairMembers(promoted)),
                    !.pair_member_count = Cardinality(PairMembers(pairs))]
  IN  [Draft(l, metrics, Whole(members), LineSpan(code, members), "signature",
             "signature_shape", ClusterTitle(cluster), kinds, ActionCandidates(items, members))
       EXCEPT !.basis = UNION {p.is.basis : p \in pairs},
              !.has_signature_overlap = OfSignatures(kinds),
              !.abstraction_risks =
                cluster.risks \cup If(kinds = {"signature_shape_cluster"}, "small_commonality")]

ComponentDraft(l, code, given, cluster, component) ==
  LET pairs == ToSet(component)
      members == PairMembers(pairs)
      exact == {p \in pairs : p.is.hash}
      mirrored == Cardinality(members) = 2 /\ Mirrors(l, members)
      measured == WithPairs(OfCluster(Plain, cluster, members), pairs, exact)
      roled == WithRoles(measured, l, code, members, pairs, exact, mirrored)
      oneName == Cardinality({l.at[m].name : m \in members}) = 1
  IN  [Draft(l, WithSemantics(roled, given, members, pairs), Whole(members),
             LineSpan(code, members), "structural_pair", "structural_duplicate",
             IF Cardinality(pairs) = 1 \/ oneName THEN "Duplicate helper"
             ELSE "Duplicate helpers",
             {"signature_shape_cluster"} \cup If(exact # {}, "structural_duplicate"),
             IF Cardinality(pairs) = 1 THEN component[1].actions
             ELSE ActionCandidates(component, members))
       EXCEPT !.basis = UNION {p.is.basis : p \in pairs},
              !.has_signature_overlap = TRUE]

(* A related pair that matched no relation kind proposes nothing and         *)
(* profiles nothing.                                                         *)
SignatureDrafts(l, code, given, cluster) ==
  LET items == RelationPairs(l, code, cluster.candidates)
      kept == Filtered(items, LAMBDA p : p.kind # "none")
      components == Promoted(l, code, cluster, kept)
  IN  <<ClusterDraft(l, code, given, cluster, items, ToSet(kept), components)>>
        \o [i \in DOMAIN components |->
              ComponentDraft(l, code, given, cluster, components[i])]

(* Blocks: repeated inside one function, or shared by several.               *)
BlockMetrics(l, code, members, lines, total, statements, scores) ==
  [WithRoles(Plain, l, code, members, {}, {}, FALSE) EXCEPT
     !.member_count = Cardinality(members),
     !.duplicate_block_count = 1, !.duplicate_block_line_count = total,
     !.max_body_line_count = Max(lines), !.min_body_line_count = Min(lines),
     !.lead_stable_statement_count = Max(statements),
     !.min_stable_statement_count = Min(statements),
     !.lead_tree_similarity = One, !.lead_relatedness_score = scores.confidence,
     !.lead_confidence_score = scores.confidence,
     !.lead_refactorability_score = scores.refactorability, !.lead_risk_score = scores.risk]

LocalBlockDraft(l, code, m, block) ==
  LET total == block.lines * Cardinality(block.parts)
  IN  Draft(l, BlockMetrics(l, code, {m}, {block.lines}, total, {block.statements},
                            [confidence |-> 9000, refactorability |-> 8500, risk |-> 400]),
            {m} \X block.parts, total, "intra_function_duplicate", block.kind,
            "Repeated local block", {"intra_function_duplicate"},
            <<Propose("extract_small_helper", {"intra_function_duplicate_block"},
                      {"INTRA_FUNCTION_DUPLICATE_BLOCK"})>>)

(* Pairs that are structural duplicates in some cluster share no block.      *)
RelatedPairs(l, code) ==
  UNION {{{p.left, p.right} :
            p \in ToSet(StructuralDuplicates(l, RelationPairs(l, code, c.candidates)))} :
         c \in ToSet(Clusters(l, code))}

InTest(l, m) == FileOf(l, m).role \in {"test", "fixture"}

SharingPairs(l, code, run) ==
  IF Runs[run].lines < BlockPolicy.min_lines THEN {}
  ELSE {pair \in Member \X Member :
          /\ pair[1] < pair[2]
          /\ run \in Compare[<<code[pair[1]], code[pair[2]]>>].runs
          /\ FileOf(l, pair[1]).family = FileOf(l, pair[2]).family
          /\ InTest(l, pair[1]) = InTest(l, pair[2])}

(* One block per set of functions: every run that exactly these share.       *)
SharedBlocks(l, code) ==
  LET related == RelatedPairs(l, code)
      Sharers(run) == UNION {{pair[1], pair[2]} :
                        pair \in {q \in SharingPairs(l, code, run) : {q[1], q[2]} \notin related}}
      sharers == [run \in DOMAIN Runs |-> Sharers(run)]
  IN  {[members |-> set, runs |-> {r \in DOMAIN Runs : sharers[r] = set}] :
         set \in {sharers[r] : r \in DOMAIN Runs} \ {{}}}

SharedBlockDraft(l, code, block) ==
  LET statements == {Runs[r].statements : r \in block.runs}
      lines == {Runs[r].lines : r \in block.runs}
      total == MapThenSumSet(LAMBDA r : Runs[r].lines, block.runs) * Cardinality(block.members)
  IN  Draft(l, BlockMetrics(l, code, block.members, lines, total, statements,
                            [confidence |-> 8500, refactorability |-> 8000, risk |-> 1000]),
            block.members \X block.runs, total, "shared_block", "duplicate_block",
            "Shared block", {"shared_block"},
            <<Propose("extract_small_helper", {"shared_block"}, {"SHARED_BLOCK"})>>)

SharedBlockDrafts(l, code) ==
  LET Key(b) == <<-Max({Runs[r].statements : r \in b.runs}), Min(b.members)>>
      blocks == Sorted(SetToSeq(SharedBlocks(l, code)), LAMBDA b, c : Precedes(Key(b), Key(c)))
  IN  [i \in DOMAIN blocks |-> SharedBlockDraft(l, code, blocks[i])]

(* Constants of the same value under one name, of other values under one     *)
(* name, or of the same value under other names.                             *)
ConstantTitle ==
  [identical |-> "Duplicated policy constant", drifted |-> "Drifted policy constant",
   scattered |-> "Scattered policy literal"]

ConstantDraft(l, defined, group) ==
  LET identical == group.match = "identical"
      metrics == [Plain EXCEPT
                    !.member_count = Cardinality(group.members),
                    !.policy_constant_duplicate_count = 1,
                    !.structural_relation_pair_count = 1, !.same_role_relation_count = 1,
                    !.lead_relatedness_score = One, !.lead_refactorability_score = 9200,
                    !.lead_confidence_score = 9800,
                    !.lead_risk_score = IF identical THEN 400 ELSE 3500]
      action == Propose("introduce_abstraction", {}, {group.match})
  IN  Draft(l, metrics, Whole(group.members), ConstantLines(defined, group.members),
            "policy_literal", "policy_constant", ConstantTitle[group.match],
            {"policy_constant_duplicate"},
            <<IF identical THEN action ELSE [action EXCEPT !.status = "conditional"]>>)

Drafts(l, defined, code, given) ==
  LET Of(Build(_), items) == [i \in DOMAIN items |-> Build(items[i])]
      LocalBlocks(m) == Of(LAMBDA b : LocalBlockDraft(l, code, m, b), Bodies[code[m]].local)
  IN  Of(LAMBDA g : ConstantDraft(l, defined, g), PolicyConstantClusters(defined, l.at))
        \o FlattenSeq(Of(LAMBDA c : SignatureDrafts(l, code, given, c), Clusters(l, code)))
        \o FlattenSeq(Of(LocalBlocks, Ascending(Member)))
        \o SharedBlockDrafts(l, code)

-----------------------------------------------------------------------------
(* Target IDs: the members of a target by file and name, and by line too     *)
(* when names alone do not tell two targets apart.                           *)

Identity(l, t, positional) ==
  {[file |-> l.at[loc[1]].file, name |-> l.at[loc[1]].name, source |-> t.source,
    kind |-> t.kind, line |-> If(positional, loc)] : loc \in t.locations}

(* Mutant: names are enough.                                                 *)
WithNamesOnly(l, found) ==
  [i \in DOMAIN found |-> [found[i] EXCEPT !.id = Identity(l, found[i], FALSE)]]

WithUniqueIdentities(l, found) ==
  LET Collides(t) == \E u \in ToSet(found) : /\ Identity(l, u, FALSE) = Identity(l, t, FALSE)
                                             /\ u.locations # t.locations
  IN  [i \in DOMAIN found |->
         [found[i] EXCEPT !.id = Identity(l, found[i], Collides(found[i]))]]

AssessedTarget(draft, verdict) ==
  [locations |-> draft.locations, source |-> draft.source, kind |-> draft.kind,
   title |-> draft.title, id |-> {},
   tier |-> verdict.tier, action |-> verdict.action, status |-> verdict.status,
   score |-> verdict.score, eligible |-> verdict.eligible]

AssessedTargets(l, drafts) ==
  WithUniqueIdentities(l, [i \in DOMAIN drafts |->
                             AssessedTarget(drafts[i], Assess(drafts[i]))])
Assessed(l, defined, code, given) == AssessedTargets(l, Drafts(l, defined, code, given))

-----------------------------------------------------------------------------
(* Removing repeats and ranking.                                             *)

TitleRank(title) == CHOOSE i \in DOMAIN Titles : Titles[i] = title

(* Titles with the same beginning are not compared further.                  *)
SortKey(t) == <<TierRank(t.tier), -t.score, TitleRank(t.title)>>
Stronger(t, u) == Precedes(SortKey(t), SortKey(u))

(* The strongest target of each set of locations, the first of equals, in    *)
(* the place of the first target over these locations.                       *)
DedupeEquivalent(found) ==
  LET Over(i) == {j \in DOMAIN found : found[j].locations = found[i].locations}
      Best(i) == CHOOSE j \in Over(i) :
                   \A k \in Over(i) : /\ ~Stronger(found[k], found[j])
                                      /\ k < j => Stronger(found[j], found[k])
      best == [i \in DOMAIN found |-> found[Best(i)]]
  IN  Kept(best, {i \in DOMAIN found : \A j \in Over(i) : i <= j})

Subsumes(u, t) ==
  /\ t.locations \subseteq u.locations /\ t.locations # u.locations
  /\ u.action = t.action
  /\ u.tier \in Actionable /\ TierRank(u.tier) <= TierRank(t.tier)

DropSubsumed(found) ==
  Kept(found, {i \in DOMAIN found : ~\E u \in ToSet(found) : Subsumes(u, found[i])})

Ranked(found) == Sorted(found, Stronger)

(* The report keeps the first finding of each ID.                            *)
SurfaceFindings(ranked) ==
  Kept(ranked, {i \in DOMAIN ranked : \A j \in 1..i - 1 : ranked[j].id # ranked[i].id})

Report(found) == SurfaceFindings(Ranked(DropSubsumed(DedupeEquivalent(found))))

-----------------------------------------------------------------------------
(* A run of the analysis after each change of its inputs.                    *)

Analyse(defined, code, given) ==
  /\ targets' = Assessed(layout, defined, code, given)
  /\ report' = Report(targets')

NoAnswers == [m \in Member |-> "none"]

Init ==
  /\ \E l \in Layouts : layout = Extracted(l) /\ constants = l.constants
  /\ \E b \in layout.starts : body = [m \in Member |-> b]
  /\ answer = NoAnswers
  /\ targets = Assessed(layout, constants, body, NoAnswers)
  /\ report = Report(targets)

(* A function gets another body.                                             *)
Edit(m, b) ==
  /\ m \in layout.edited /\ b \in DOMAIN layout.forms[m] \ {body[m]} /\ answer = NoAnswers
  /\ body' = [body EXCEPT ![m] = b]
  /\ UNCHANGED <<layout, constants, answer>>
  /\ Analyse(constants, body', answer)

(* A statement of a module defines another constant, or none.                *)
Redefine(c, d) ==
  /\ d # constants[c]
  /\ constants' = [constants EXCEPT ![c] = d]
  /\ UNCHANGED <<layout, body, answer>>
  /\ Analyse(constants', body, answer)

(* The provider, asked about one more function, answers.                     *)
Enrich(m, a) ==
  /\ m \in layout.edited /\ answer[m] = "none"
  /\ answer' = [answer EXCEPT ![m] = a]
  /\ UNCHANGED <<layout, constants, body>>
  /\ Analyse(constants, body, answer')

Next ==
  \/ \E m \in Member, b \in DOMAIN Bodies : Edit(m, b)
  \/ \E c \in layout.redefined, d \in Definitions : Redefine(c, d)
  \/ \E m \in Asked, a \in DOMAIN Answers : Enrich(m, a)

Spec == Init /\ [][Next]_vars

-----------------------------------------------------------------------------

(* Every target has a tier, an action and a status of the report's           *)
(* vocabulary, and the report is made of targets.                            *)
TypeOK ==
  /\ \E l \in Layouts : layout = Extracted(l) /\ DOMAIN constants = DOMAIN l.constants
  /\ \A m \in Member : body[m] \in DOMAIN layout.forms[m]
  /\ answer \in [Member -> DOMAIN Answers \cup {"none"}]
  /\ \A t \in ToSet(targets) :
       /\ t.tier \in ToSet(Tiers) /\ t.action \in Edits \cup ReadOnlyActions
       /\ t.status \in NoteStatuses \cup {"recommended_edit", "cautious_candidate"}
  /\ \A f \in ToSet(report) : \E t \in ToSet(targets) :
       /\ f.locations = t.locations /\ f.tier = t.tier /\ f.action = t.action /\ f.id = t.id

Functions(t) == {loc[1] : loc \in t.locations}
OfFunctions(t) == t.source \in {"signature", "structural_pair"}

RelationsOf(l, code) ==
  UNION {ToSet(RelationPairs(l, code, c.candidates)) : c \in ToSet(Clusters(l, code))}

(* Nothing that was assessed is lost: what removes a target from the report, *)
(* its ID, its members or another target over them, leaves one that covers   *)
(* all its members with a verdict at least as strong (analysis/assessment/   *)
(* findings.py, analysis/surfacing.py).                                      *)
EveryTargetRepresented ==
  \A t \in ToSet(targets) : \E f \in ToSet(report) :
     t.locations \subseteq f.locations /\ TierRank(f.tier) <= TierRank(t.tier)

(* A pair of functions with equal bodies is never reported only as part of a *)
(* catch-all: unless it is required surface, a finding names both, and four  *)
(* in five of the functions it names are in clone pairs too (promotion.py,   *)
(* _broad_parent_cap).                                                       *)
DuplicatesReported ==
  LET clones == {p \in RelationsOf(layout, body) : Promotable(layout, body, p)}
  IN  \A p \in {q \in clones : q.is.hash} :
        \E f \in ToSet(report) :
           /\ Whole({p.left, p.right}) \subseteq f.locations
           /\ MostMembers([member_count |-> Cardinality(f.locations)],
                          Cardinality(Functions(f) \cap PairMembers(clones)))

(* What a function is for, read from its declaration and its body alone.      *)
FormOf(m) == layout.forms[m][body[m]]
TestFunctions(members) == {m \in members : FileOf(layout, m).role \in {"test", "fixture"}}
ShownFunctions(members) == {m \in members : Under(FileOf(layout, m).path, ExampleMarkers)}

Unimplemented(m) ==
  LET d == layout.declared[m]
  IN  IF FileOf(layout, m).family = "python"
      THEN \/ \E name \in d.decorators : Last(name) \in {"overload", "abstractmethod"}
           \/ StubBody(FormOf(m))
      ELSE ~HasBody(d)

ProtocolFunction(m) ==
  LET d == layout.declared[m]
  IN  IF FileOf(layout, m).family = "python"
      THEN \/ d.special \notin {"none", "dunder", "other", "constructor"}
           \/ \E name \in d.decorators : Last(name) \in {"property", "cached_property"}
      ELSE Accessor(d)

FrameworkFunction(m) ==
  /\ FileOf(layout, m).family = "ecmascript" /\ HasBody(layout.declared[m])
  /\ LET form == FormOf(m)
     IN  CASE layout.declared[m].wording = "component" -> form.elements
           [] layout.declared[m].wording = "hook" -> form.hook
           [] layout.declared[m].wording = "registry" -> form.keys \/ form.registers
           [] OTHER -> FALSE

HasCode(m) == FileOf(layout, m).family = "python" \/ HasBody(layout.declared[m])

Forwarder(m) ==
  /\ HasCode(m) /\ DelegatesToAttribute(WholeCall(FormOf(m)))
  /\ Bodies[body[m]].lines <= SimpleForwarderMaxLines.python

OneRead(m) ==
  LET statements == FormOf(m).statements
      value == statements[1].value
  IN  /\ HasCode(m) /\ Len(statements) = 1 /\ statements[1].is = "return" /\ Bare(value)
      /\ value.is = "read" => \A i \in value.index : Bare(i)

(* The report never asks to edit what a test, a protocol, a framework or an  *)
(* example repeats on purpose, nor declarations without code or bodies too   *)
(* small to share: an edit names no test, but for one pair of related tests, *)
(* and the functions of such a surface, by the way they are declared, are    *)
(* less than four fifths of those it names (semantic_roles.py,               *)
(* semantic_caps.py).                                                        *)
EditsSpareRequiredSurface ==
  \A f \in {g \in ToSet(report) : g.source # "policy_literal" /\ g.action \in Edits} :
       LET members == Functions(f)
           tests == TestFunctions(members)
           Few(some) == ~MostMembers([member_count |-> Cardinality(members)], Cardinality(some))
       IN  /\ tests = {} \/ /\ tests = members /\ Cardinality(members) = 2
                            /\ \E p \in RelationsOf(layout, body) : {p.left, p.right} = members
           /\ Few(ShownFunctions(members))
           /\ Few({m \in members : Unimplemented(m)})
           /\ Few({m \in members : ProtocolFunction(m)})
           /\ Few({m \in members : FrameworkFunction(m) \/ Forwarder(m)})
           /\ Few({m \in members : OneRead(m)})

SameConstant(x, y) ==
  /\ NormalizedSymbol(constants[x]) = NormalizedSymbol(constants[y])
  /\ LiteralShape(constants[x]) = LiteralShape(constants[y])
ConstantEdits == {f \in ToSet(report) : f.source = "policy_literal" /\ f.status = "recommended_edit"}

(* An edit that joins constants joins equal ones, of one name and one value  *)
(* in one order (policy_drafts.py, POLICY_CONSTANT_DIVERGENT_RISK: unifying  *)
(* others "is recorded for review, never edited").                           *)
EditsJoinEqual == \A f \in ConstantEdits : \A x, y \in Functions(f) : SameConstant(x, y)

(* That, and every two equal constants of different modules are joined by an *)
(* edit, whatever else is defined beside them (clusters/policy_constants.py).*)
ConstantsAgree ==
  /\ EditsJoinEqual
  /\ \A x, y \in ConstantsOf(constants) :
       SameConstant(x, y) /\ layout.at[x].file # layout.at[y].file =>
         \E f \in ConstantEdits : {x, y} \subseteq Functions(f)

RecommendsEdit(f) == OfFunctions(f) /\ f.tier = "recommended_edit"

Diverge(x, y) ==
  answer[x] # "none" /\ answer[y] # "none"
    /\ DivergentTarget(Answers[answer[x]], Answers[answer[y]])

(* Two clones whose same call is bound to different targets are never in one *)
(* recommended edit of their cluster, however alike their bodies (risk.py,   *)
(* divergent_call_target_risk_floor).                                        *)
DivergentClonesStay ==
  \A f \in {g \in ToSet(report) : RecommendsEdit(g)}, c \in ToSet(Clusters(layout, body)) :
     Functions(f) \subseteq c.members =>
       \A p \in ToSet(RelationPairs(layout, body, c.candidates)) :
          Promotable(layout, body, p) /\ {p.left, p.right} \subseteq Functions(f) =>
            ~Diverge(p.left, p.right)

(* What that rests on: a target that differs is a risk above a recommended   *)
(* edit (policy.py), and of two clusters, one has no relation between the    *)
(* functions of the other. The code gives them apart: a signature is of one  *)
(* shape, the two functions of a wrapper are of two, and similar content     *)
(* leaves out the pairs already related (clusters/build.py); only the limits *)
(* on the pairs of a cluster may relate two functions in one and leave them  *)
(* unrelated in another.                                                     *)
DivergenceIsCautious ==
  AssessmentPolicy.risk_cautious_threshold
    <= Smaller(One, SemanticEvidencePolicy.divergent_call_target_risk_floor)

Relates(pairs, members) == \E p \in ToSet(pairs) : {p.left, p.right} \subseteq members
ClustersApart ==
  LET PairsIn(c) == RelationPairs(layout, body, c.candidates)
  IN  \A c, d \in ToSet(Clusters(layout, body)) :
         c # d => ~Relates(PairsIn(c), d.members) \/ ~Relates(PairsIn(d), c.members)

(* The same of the pairs that may be related.                                *)
CandidatesApart ==
  LET Compares(c, members) == \E q \in ToSet(c.candidates) : {q[1], q[2]} \subseteq members
  IN  \A l \in Layouts : \A c, d \in ToSet(l.clusters) :
         c # d => ~Compares(c, d.members) \/ ~Compares(d, c.members)

(* The same of any two functions an edit names that the analysis related:    *)
(* "same-looking calls [that] resolve to different targets" put the risk     *)
(* above that of a recommended edit (policy.py). The code does not ensure    *)
(* it: a promoted group counts the divergence of its clone pairs only, and   *)
(* two of its functions may be joined by a third.                            *)
DivergenceStopsEdits ==
  \A f \in {g \in ToSet(report) : RecommendsEdit(g)}, p \in RelationsOf(layout, body) :
     {p.left, p.right} \subseteq Functions(f) => ~Diverge(p.left, p.right)

(* An answer that ties no two functions together, a doubt or a binding of    *)
(* one function alone, never turns code into a recommended edit: each edit   *)
(* recommended after it is part of one recommended before (risk.py,          *)
(* evidence.py, fit.py).                                                     *)
Ties(given) ==
  \E x, y \in Member : /\ x # y /\ given[x] # "none" /\ given[y] # "none"
                       /\ \/ SharedTarget(Answers[given[x]], Answers[given[y]])
                          \/ SameOverload(Answers[given[x]], Answers[given[y]])

DoubtAddsNoEdit ==
  [][body' = body /\ ~Ties(answer') =>
       \A g \in {h \in ToSet(report') : RecommendsEdit(h)} :
          \E f \in ToSet(report) : RecommendsEdit(f) /\ g.locations \subseteq f.locations]_vars

(* While the code stays the same, the ID of a finding does not change with   *)
(* the evidence and the verdict: a finding over the same functions, which    *)
(* their names tell apart from every other, has one ID before and after an   *)
(* answer of the provider (identity.py, docs/concepts.md). The code does not *)
(* ensure it: the ID tells which draft won.                                  *)
Named(f) == \A part \in f.id : part.line = {}

TargetIdIsStable ==
  [][body' = body => \A f \in ToSet(report), g \in ToSet(report') :
       f.locations = g.locations /\ Named(f) /\ Named(g) => f.id = g.id]_vars

(* A group of clones promoted out of a cluster is a finding of its own, or   *)
(* part of one whose functions are all connected by clone pairs              *)
(* (promotion.py). The code does not ensure it: a cluster of several groups  *)
(* that cover it subsumes them.                                              *)
PromotedGroupVisible ==
  \A t \in {u \in ToSet(targets) : u.source = "structural_pair" /\ u.tier \in Actionable} :
    \E f \in ToSet(report) :
      /\ t.locations \subseteq f.locations
      /\ \E c \in ToSet(Clusters(layout, body)) :
           LET clones == Filtered(RelationPairs(layout, body, c.candidates),
                                  LAMBDA p : Promotable(layout, body, p))
           IN  \E group \in ToSet(PairComponents(clones)) :
                 Functions(f) \subseteq PairMembers(ToSet(group))

=============================================================================
