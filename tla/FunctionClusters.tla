-------------------------- MODULE FunctionClusters --------------------------
(***************************************************************************)
(* The clusters of a report: functions of one language and one signature   *)
(* shape, pairs of an argument-normalizing wrapper and its primitive,      *)
(* components of similar content, and the same shape in several languages. *)
(* Later stages leave out the pairs that earlier ones report.              *)
(*                                                                         *)
(* A cluster is a record: scope, base (the kind of evidence that gathered  *)
(* it), members, and enrichment (Unenriched for a summary).                *)
(***************************************************************************)
EXTENDS ClusterEnrichment

MinClusterMembers == 2

Unenriched == [pairs |-> {}, duplicates |-> {}, actions |-> <<>>,
               summary |-> Summary(<<>>, <<>>), evidence |-> {}]

IsEnriched(cluster) == cluster.enrichment.evidence # {}

Relevance(scope, base) ==
  IF base = "content_similarity" THEN "content_similarity"
  ELSE IF scope \in {"broad_unknown_exact_body", "broad_unknown_summary"}
  THEN "weak_unknown_signature_recurrence"
  ELSE IF scope \in {"broad_test_exact_body", "broad_test_summary"} THEN "test_pattern_family"
  ELSE IF scope = "same_language" THEN "signature_shape_only"
  ELSE "signature_shape_observation"

NonClaims(scope, base) ==
  IF base = "argument_normalization_wrapper" THEN "adapter_wrapper"
  ELSE IF base = "content_similarity" THEN "content_similarity"
  ELSE IF scope \in {"broad_unknown_exact_body", "broad_unknown_summary"} THEN "broad_unknown"
  ELSE IF scope \in {"broad_test_exact_body", "broad_test_summary"} THEN "broad_test"
  ELSE IF scope # "same_language" THEN "analogous"
  ELSE "signature"

NormalizationLevel(members) ==
  IF \E f \in members: Features[f].calls # <<>> THEN "call"
  ELSE IF \E f \in members: Features[f].control # <<>> THEN "control"
  ELSE "signature"

ExtractionConfidence(members) ==
  IF \E f \in members: "parse_error" \in Features[f].caveats THEN "low" ELSE "high"

Cluster(scope, base, members, enrichment) ==
  [scope         |-> scope,
   base          |-> base,
   members       |-> members,
   languages     |-> {Features[f].language: f \in members},
   relevance     |-> Relevance(scope, base),
   nonClaims     |-> NonClaims(scope, base),
   normalization |-> NormalizationLevel(members),
   confidence    |-> ExtractionConfidence(members),
   enrichment    |-> enrichment]

Shape == "signature_shape_cluster"

EnrichByShape(members, base, candidates) ==
  Enrich(members, base, candidates, ShapeListRank(candidates))

ShapeCluster(scope, members) ==
  Cluster(scope, Shape, members, EnrichByShape(members, Shape, ShapeCandidates(members)))

SummaryCluster(scope, members) == Cluster(scope, Shape, members, Unenriched)

-----------------------------------------------------------------------------
(***************************************************************************)
(* Clusters of one language and shape.                                     *)
(***************************************************************************)
Sides(members) == {IsTest(f): f \in members}

MixesTestsBroadly(members) ==
  Cardinality(members) >= Limits.splitMembers /\ Sides(members) = BOOLEAN

IsBroadUnknown(members) ==
  /\ Cardinality(members) > Limits.broadMembers
  /\ \A f \in members: Features[f].unknown

IsBroadTest(members) ==
  Cardinality(members) >= Limits.broadTestMembers /\ Sides(members) = {TRUE}

\* The sets of two functions or more with one body.
DuplicateGroups(members) ==
  {group \in {{f \in members: Features[f].bodyHash = hash}:
                hash \in {Features[f].bodyHash: f \in members} \ {NoHash}}:
     Cardinality(group) > 1}

\* A group of functions and the scope it is put in a cluster under.
Group(scope, members) == [scope |-> scope, members |-> members]

\* Mutant: a broad group is summarized with the copies in it.
BroadGroupsOfSummary(kind, members) == {Group(kind \o "_summary", members)}

\* Copies are compared before the rest is only summarized.
BroadGroups(kind, members) ==
  LET groups == DuplicateGroups(members)
      rest   == members \ UNION groups
  IN {Group(kind \o "_exact_body", copies): copies \in groups}
     \cup (IF Cardinality(rest) > 1 THEN {Group(kind \o "_summary", rest)} ELSE {})

UnsplitGroups(members) ==
  IF IsBroadUnknown(members) THEN BroadGroups("broad_unknown", members)
  ELSE IF SplitTest /\ IsBroadTest(members) THEN BroadGroups("broad_test", members)
  ELSE {Group("same_language", members)}

TestRoleGroups(members) ==
  {group \in {{f \in members: IsTest(f) = side}: side \in BOOLEAN}:
     Cardinality(group) >= MinClusterMembers}

GroupsOfShape(members) ==
  UNION {UnsplitGroups(group):
           group \in IF SplitTest /\ MixesTestsBroadly(members)
                     THEN TestRoleGroups(members) ELSE {members}}

\* _same_language_clusters: only the summaries are not enriched.
ShapeClusterOf(group) ==
  IF group.scope \in {"broad_unknown_summary", "broad_test_summary"}
  THEN SummaryCluster(group.scope, group.members)
  ELSE ShapeCluster(group.scope, group.members)

ShapeOf(f) == <<Features[f].language, Features[f].shape>>

SameLanguageGroups(code) ==
  {group \in {{f \in code: ShapeOf(f) = shape}: shape \in {ShapeOf(f): f \in code}}:
     Cardinality(group) > 1}

SameLanguageClusters(code) ==
  {ShapeClusterOf(group):
     group \in UNION {GroupsOfShape(members): members \in SameLanguageGroups(code)}}

-----------------------------------------------------------------------------
(***************************************************************************)
(* Wrappers that normalize the argument of the operation they share.       *)
(***************************************************************************)
IsWrapperCandidate(f) ==
  /\ Features[f].returnType # ""
  /\ Len(Features[f].parameters) = 1
  /\ ReturnsFirstArgument(Features[f])
  /\ Features[f].calls # <<>>

WrapperKeys(f) ==
  LET prefix == <<f.language, f.role, f.returnType>>
  IN {prefix \o <<"name_token", word>>: word \in ToSet(f.name)}
     \cup {prefix \o <<"call", call>>: call \in ToSet(f.calls)}

WrapperKeysOf(f) == WrapperKeys(Features[f])

WrapperBucket(candidates, key) ==
  FirstMembers({f \in candidates: key \in WrapperKeysOf(f)}, Limits.wrapperBucket)

MayWrap(p) ==
  LET left  == Features[p[1]]
      right == Features[p[2]]
  IN /\ left.shape # right.shape
     /\ left.language = right.language
     /\ left.returnType = right.returnType
     /\ left.parameters[1] # right.parameters[1]
     /\ left.transforms # {} \/ right.transforms # {}
     /\ SharedOperations(left, right) # EmptyBag

WrapperScore(left, right) ==
  Cardinality(ToSet(left.name) \cap ToSet(right.name))
  + Min({3, Cardinality(ToSet(left.calls) \cap ToSet(right.calls))})
  + If(left.file = right.file, 2)

WrapperRank(pairs) ==
  RankBy([p \in pairs |-> <<-WrapperScore(Features[p[1]], Features[p[2]]),
                               Place[p[1]], Place[p[2]]>>])

PairsToWrap(candidates) ==
  {p \in PairsIn(candidates):
     /\ MayWrap(p)
     /\ \E key \in WrapperKeysOf(p[1]): Within(p, WrapperBucket(candidates, key))}

WrapperPairs(code) == PairsToWrap({f \in code: IsWrapperCandidate(f)})

Normalization == "argument_normalization_wrapper"

WrapperCluster(p) ==
  Cluster("same_language", Normalization, {p[1], p[2]},
          EnrichByShape({p[1], p[2]}, Normalization, ShapeCandidates({p[1], p[2]})))

IsWrapper(p) ==
  \E q \in WrapperCluster(p).enrichment.pairs: relations[q].kind = Normalization

FirstWrappers(pairs) == FirstPairs(pairs, WrapperRank(pairs), Limits.wrapperClusters)

AdapterWrapperClusters(code) ==
  {WrapperCluster(p): p \in FirstWrappers({q \in WrapperPairs(code): IsWrapper(q)})}

-----------------------------------------------------------------------------
(***************************************************************************)
(* Similar content, and one shape in several languages.                    *)
(***************************************************************************)
EmittedPairs(clusters) == UNION {cluster.enrichment.pairs: cluster \in clusters}

Content == "content_similarity"

ContentCluster(edges) ==
  Cluster("same_language", Content, MembersOf(edges),
          Enrich(MembersOf(edges), Content, edges, EdgeRank(edges)))

ContentClusters(code, seen) ==
  {cluster \in {ContentCluster(edges): edges \in ContentComponents(code, seen)}:
     cluster.enrichment.pairs # {}}

AnalogousScope(members) ==
  IF Cardinality({Features[f].family: f \in members}) = 1 THEN "same_family" ELSE "cross_language"

AnalogousClusters(code) ==
  {SummaryCluster(AnalogousScope(group), group):
     group \in {g \in {{f \in code: Features[f].shape = shape}:
                         shape \in {Features[f].shape: f \in code}}:
                  Cardinality({Features[f].language: f \in g}) > 1}}

-----------------------------------------------------------------------------
(***************************************************************************)
(* build_clusters                                                          *)
(***************************************************************************)
WithContent(code, compared) ==
  compared \cup ContentClusters(code, EmittedPairs(compared)) \cup AnalogousClusters(code)

BuildClusters(code) ==
  WithContent(code, SameLanguageClusters(code) \cup AdapterWrapperClusters(code))

=============================================================================
