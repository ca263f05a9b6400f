--------------------------- MODULE PairSelection ---------------------------
(***************************************************************************)
(* Which pairs of functions are compared at all: the bounded buckets of a  *)
(* shape cluster, and the content index that looks past shapes and sizes.  *)
(*                                                                         *)
(* A pair is <<f, g>>, with f before g in location order.  The limits of   *)
(* the code are the fields of Limits, so that they can be met in small     *)
(* instances.                                                              *)
(*                                                                         *)
(* What is extracted from a function depends on nothing but the function   *)
(* (FileCache models the extraction); the index holds it.                  *)
(***************************************************************************)
EXTENDS FunctionFeatures, FileRoles

CONSTANTS
  Functions,         \* the functions there may be
  Signatures,        \* the signature of each, but for its role
  Paths,             \* the path of each file
  Bodies,            \* the statements of its body
  CallParts,         \* the target and the callee named by each call token
  Limits,            \* STRUCTURAL_POLICY, PAIR_POLICY, CONTENT_POLICY and build.py's limits
  SplitTest          \* config.split_test

VARIABLE index       \* the features, the place and the shingles of each function

Features == index.features
Place    == index.place
Shingles == index.shingles

TestRoles == {"test", "fixture"}
IsTest(f) == Features[f].role \in TestRoles

MinContentStatements == 2
MinContentShingles   == 4
MinSharedShingles    == 2
MinContentSimilarity == 5500
BucketCalls          == 5
ControlCalls         == 16

-----------------------------------------------------------------------------
(***************************************************************************)
(* Location order, ranks and limits.                                       *)
(***************************************************************************)
\* The first difference decides.
Earlier(a, b) ==
  \E i \in DOMAIN a: a[i] < b[i] /\ \A j \in 1..(i - 1): a[j] = b[j]

\* The position of each element in a sort by its key.
RankBy(key) ==
  LET Of(table) ==
        [p \in DOMAIN table |-> Cardinality({q \in DOMAIN table: Earlier(table[q], table[p])})]
  IN Tabulated(Of(Tabulated(key)))

LocationOrder(features) == RankBy([f \in DOMAIN features |-> <<features[f].file, features[f].line>>])

PairsIn(S) == {pair \in S \X S: Place[pair[1]] < Place[pair[2]]}

MembersOf(pairs) == UNION {{pair[1], pair[2]}: pair \in pairs}

FirstMembers(S, limit) ==
  {f \in S: Cardinality({g \in S: Place[g] < Place[f]}) < limit}

FirstPairs(pairs, rank, limit) ==
  {p \in pairs: Cardinality({q \in pairs: rank[q] < rank[p]}) < limit}

Ranked(pairs, rank) ==
  [i \in 1..Cardinality(pairs) |->
     CHOOSE p \in pairs: Cardinality({q \in pairs: rank[q] < rank[p]}) = i - 1]

-----------------------------------------------------------------------------
(***************************************************************************)
(* Structural shingles.                                                    *)
(***************************************************************************)
GenericRole(role) == IF role \in ArgumentRoles THEN "ARG" ELSE role

StatementShape(token) == <<token.kind, GenericRole(token.detail)>>

FlowTargets(token) ==
  IF "CALL" \in {token.kind, token.detail} THEN {"CALL"} ELSE {token.kind} \cap {"RETURN", "ASSIGN"}

StructuralShingles(f) ==
  LET shapes  == [i \in DOMAIN f.statements |-> StatementShape(f.statements[i])]
      targets == [i \in DOMAIN f.calls |-> CallParts[f.calls[i]].target]
      reads   == {read \in f.reads: read.index + 1 \in DOMAIN f.statements}
  IN {<<"STMT", shape>>: shape \in ToSet(shapes)}
     \cup {<<"BIGRAM", shapes[i], shapes[i + 1]>>: i \in 1..(Len(shapes) - 1)}
     \cup {<<"CALL", target>>: target \in ToSet(targets)}
     \cup {<<"CALLEE", CallParts[call].callee>>: call \in ToSet(f.calls)}
     \cup UNION {{<<"FLOW", GenericRole(role), target>>:
                    role \in read.roles, target \in FlowTargets(f.statements[read.index + 1])}:
                 read \in reads}
     \cup {<<"CTRL_CALL", control, targets[i]>>:
             control \in ToSet(f.control), i \in 1..Min({ControlCalls, Len(targets)})}

IndexOf(features) ==
  [features |-> features,
   place    |-> LocationOrder(features),
   shingles |-> Tabulated([f \in DOMAIN features |-> StructuralShingles(features[f])])]

\* The scan reads the role of a function from the path of its file.
RoleOf(signature) == ScanRole(Paths[signature.file], signature.family)

Extracted ==
  IndexOf(Tabulated(
    [f \in Functions |->
       FunctionOf([role |-> RoleOf(Signatures[f])] @@ Signatures[f], Bodies[f])]))

Similarity(p) == Jaccard(Shingles[p[1]], Shingles[p[2]])

Copies(p) == SameBody(Features[p[1]], Features[p[2]])

-----------------------------------------------------------------------------
(***************************************************************************)
(* Bucketed pairs of a shape cluster.                                      *)
(***************************************************************************)
HasStructure(f) ==
  /\ Features[f].statements # <<>>
  /\ Features[f].bodyHash # NoHash \/ Features[f].calls # <<>>

IsCompact(f) ==
  /\ HasStructure(f)
  /\ Len(Features[f].statements) <= Limits.statements
  /\ Features[f].nodes <= Limits.nodes

IsDetailed(token, kind) == token.kind = kind /\ token.detail # ""

BuildsPayload(f) ==
  /\ f.statements # <<>> /\ IsDetailed(Last(f.statements), "RETURN")
  /\ \E token \in ToSet(f.statements): IsDetailed(token, "ASSIGN")
  /\ f.calls # <<>>

BucketKeys(f) ==
  LET When(condition, keys) == IF condition THEN keys ELSE {}
  IN When(f.name # <<>>, {<<"name", f.name>>, <<"role_name", f.role, f.name>>,
                          <<"token_prefix", f.name[1]>>, <<"role_token_prefix", f.role, f.name[1]>>})
     \cup {<<"role_call", f.role, f.calls[i]>>: i \in 1..Min({BucketCalls, Len(f.calls)})}
     \cup When(BuildsPayload(f), {<<"payload", f.role, CallParts[f.calls[1]].target>>})
     \cup When(f.bodyHash # NoHash, {<<"body_hash", f.bodyHash>>})

KeysOf(f) == BucketKeys(Features[f])

Bucket(members, key) == {f \in members: key \in KeysOf(f)}

Within(p, S) == p[1] \in S /\ p[2] \in S

PairsOfBuckets(members, keys) ==
  {p \in PairsIn(members): \E key \in keys:
     Within(p, FirstMembers(Bucket(members, key), Limits.bucketMembers))}

\* Identical bodies first, then by the shingles they share.
Estimate(p) == IF Copies(p) THEN 2 * One ELSE Similarity(p)

EstimateRank(pairs) == RankBy([p \in pairs |-> <<-Estimate(p), Place[p[1]], Place[p[2]]>>])

BucketedPairs(members) ==
  PairsOfBuckets(members, UNION {KeysOf(f): f \in members})

MostSimilar(pairs) == FirstPairs(pairs, EstimateRank(pairs), Limits.candidatePairs)

RankedCandidates(members) == MostSimilar(BucketedPairs(members))

OversizedCopies(members) ==
  LET large == {f \in members: HasStructure(f) /\ Features[f].bodyHash # NoHash /\ ~ IsCompact(f)}
  IN PairsOfBuckets(large, {<<"body_hash", Features[f].bodyHash>>: f \in large})

\* Mutant: a function too large for fuzzy comparison is not compared at all.
ShapeCandidatesOfCompact(members) == RankedCandidates({f \in members: IsCompact(f)})

ShapeCandidates(members) ==
  RankedCandidates({f \in members: IsCompact(f)}) \cup OversizedCopies(members)

\* The order in which a shape cluster lists its candidates.
ShapeListRank(pairs) ==
  RankBy([p \in pairs |->
            <<IF IsCompact(p[1]) /\ IsCompact(p[2]) THEN 0 ELSE 1, -Estimate(p),
              Place[p[1]], Place[p[2]]>>])

-----------------------------------------------------------------------------
(***************************************************************************)
(* The content index.                                                      *)
(***************************************************************************)
Families(members) == {Features[f].family: f \in members}

Family(members, family) == {f \in members: Features[f].family = family}

Indexed(group) ==
  {f \in group: /\ Len(Features[f].statements) >= MinContentStatements
                /\ Cardinality(Shingles[f]) >= MinContentShingles}

\* Shingles that more than one function has, and not too many.
RareShingles(group) ==
  {s \in UNION {Shingles[f]: f \in group}:
     Cardinality({f \in group: s \in Shingles[f]}) \in 2..Limits.rareFunctions}

IsExact(p, indexed) ==
  /\ Copies(p)
  /\ Within(p, FirstMembers({f \in indexed: Features[f].bodyHash = Features[p[1]].bodyHash},
                           Limits.rareFunctions))

SharesRare(p, rare) ==
  Cardinality(Shingles[p[1]] \cap Shingles[p[2]] \cap rare) >= MinSharedShingles

IndexedPairs(indexed, rare) ==
  {p \in PairsIn(indexed): IsExact(p, indexed) \/ SharesRare(p, rare)}

\* Mutant: pairs that an earlier stage compared are paired again.
ComparableAgain(p, seen) == SplitTest => IsTest(p[1]) = IsTest(p[2])

Comparable(p, seen) ==
  /\ p \notin seen
  /\ SplitTest => IsTest(p[1]) = IsTest(p[2])

Verified(pairs, seen) ==
  {p \in pairs: Comparable(p, seen) /\ (Copies(p) \/ Similarity(p) >= MinContentSimilarity)}

Partner(p, f) == IF p[1] = f THEN p[2] ELSE p[1]

\* A pair stays when it is among the strongest of either of its functions.
NearestPairs(verified) ==
  LET Key(p, f) == <<-Similarity(p), Place[Partner(p, f)]>>
      Stronger(p, f) ==
        {q \in verified: f \in {q[1], q[2]} /\ Earlier(Key(q, f), Key(p, f))}
  IN {p \in verified: \E f \in {p[1], p[2]}:
        Cardinality(Stronger(p, f)) < Limits.neighbours}

ContentEdges(group, seen) ==
  NearestPairs(Verified(IndexedPairs(Indexed(group), RareShingles(group)), seen))

EdgeRank(edges) == RankBy([p \in edges |-> <<-Similarity(p), Place[p[1]], Place[p[2]]>>])

PartOf(parts, f) == CHOOSE part \in parts: f \in part

\* Mutant: two components join however large they are together.
JoinFreely(state, edge) ==
  LET left  == PartOf(state.parts, edge[1])
      right == PartOf(state.parts, edge[2])
  IN [parts    |-> (state.parts \ {left, right}) \cup {left \cup right},
      accepted |-> state.accepted \cup {edge}]

\* An edge that would make a component too large is dropped.
JoinEdge(state, edge) ==
  LET left  == PartOf(state.parts, edge[1])
      right == PartOf(state.parts, edge[2])
  IN IF left # right /\ Cardinality(left) + Cardinality(right) > Limits.componentMembers
     THEN state
     ELSE [parts    |-> (state.parts \ {left, right}) \cup {left \cup right},
           accepted |-> state.accepted \cup {edge}]

\* The edges of each component: strongest first, they join what they connect.
Components(edges) ==
  LET joined == FoldLeft(JoinEdge, [parts |-> {{f}: f \in MembersOf(edges)}, accepted |-> {}],
                         Ranked(edges, EdgeRank(edges)))
  IN {{edge \in joined.accepted: edge[1] \in part}: part \in joined.parts} \ {{}}

\* Mutant: the functions of all languages are indexed together.
ContentComponentsOfAll(members, seen) == Components(ContentEdges(members, seen))

ContentComponents(members, seen) ==
  Components(UNION {ContentEdges(Family(members, family), seen): family \in Families(members)})

=============================================================================
