---------------------------- MODULE CloneReport ----------------------------
(***************************************************************************)
(* A repository that is edited and analysed again after every edit: which  *)
(* clusters and which shared blocks a report holds.  Every function comes  *)
(* and goes as a whole; the analysis starts from nothing each time, so     *)
(* that a report can only depend on the code it is about.                  *)
(***************************************************************************)
EXTENDS FunctionClusters, SharedBlocks

CONSTANT MaxFunctions        \* the most functions present at once

VARIABLES
  code,              \* the functions in the repository
  clusters,          \* the clusters of the last report
  blocks             \* the shared blocks of the last report

vars == <<code, clusters, blocks, index, relations>>

\* build_shared_block_drafts: the pairs it leaves to the clone findings.
RelatedAsWhole(found) == UNION {cluster.enrichment.duplicates: cluster \in found}

Report(functions, found) ==
  /\ clusters' = found
  /\ blocks' = SharedBlocksOf(functions, RelatedAsWhole(found))

Analyse(functions) ==
  /\ code' = functions
  /\ Report(functions, BuildClusters(functions))
  /\ UNCHANGED <<index, relations>>

Init ==
  /\ code = {}
  /\ clusters = {}
  /\ blocks = {}
  /\ index = Extracted
  /\ relations = Compared(index.features, index.place)

AddFunction(f) ==
  /\ f \notin code
  /\ Cardinality(code) < MaxFunctions
  /\ Analyse(code \cup {f})

RemoveFunction(f) ==
  /\ f \in code
  /\ Analyse(code \ {f})

Next == \E f \in Functions: AddFunction(f) \/ RemoveFunction(f)

Spec == Init /\ [][Next]_vars

-----------------------------------------------------------------------------
(***************************************************************************)
(* What the report owes its reader about whole functions.                  *)
(***************************************************************************)
Side(f) == <<Features[f].family, IsTest(f)>>

Enriched == {cluster \in clusters: IsEnriched(cluster)}

ReportedPairs == EmittedPairs(Enriched)

ComparedByShape(p) == ShapeOf(p[1]) = ShapeOf(p[2]) /\ HasStructure(p[1]) /\ HasStructure(p[2])

\* Two identical bodies on one side of the test boundary are reported as a pair:
\* whatever their size and however many functions share their shape, and under
\* any shape when they have content to index.  (_same_language_clusters keeps
\* exact bodies out of the summaries, oversized_exact_body_pairs out of the size
\* limits, and content.py pairs them across shapes.)
CopiesMeet ==
  \A p \in PairsIn(code):
    (/\ Copies(p) /\ Side(p[1]) = Side(p[2])
     /\ ComparedByShape(p) \/ Indexed({p[1], p[2]}) = {p[1], p[2]})
    => p \in ReportedPairs

\* No pair is assessed in two clusters: the content stage leaves out what the
\* shape and the wrapper stages emitted (_emitted_pair_keys).
PairOnce ==
  \A one, other \in Enriched:
    one.enrichment.pairs \cap other.enrichment.pairs # {} => one = other

Connected(members, edges) ==
  \A part \in SUBSET members \ {{}, members}:
    \E edge \in edges: (edge[1] \in part) # (edge[2] \in part)

\* A content cluster is one family of functions: no larger than a reader can
\* take in, held together by similar pairs of its own members, and apart from
\* every other content cluster (_components joins the strongest edges first).
ContentGathers ==
  LET gathered == {cluster \in clusters: cluster.base = Content}
      Similar(members) ==
        {p \in PairsIn(members): Copies(p) \/ Similarity(p) >= MinContentSimilarity}
  IN \A one \in gathered:
       /\ Cardinality(one.members) <= Limits.componentMembers
       /\ Connected(one.members, Similar(one.members))
       /\ \A other \in gathered \ {one}: one.members \cap other.members = {}

\* A cluster of three functions or more in which two share no more than their
\* beginning is never offered as one refactoring without a warning
\* (_action_candidates adds it last, under the limit on actions).
WideGroupsWarn ==
  \A cluster \in Enriched:
    (/\ Cardinality(cluster.members) > MultiMember
     /\ \E p \in cluster.enrichment.pairs: relations[p].kind = "common_prefix_divergent_tail")
    => \/ Len(cluster.enrichment.actions) = Limits.actions
       \/ \E i \in DOMAIN cluster.enrichment.actions:
            LET action == cluster.enrichment.actions[i] IN
            action.kind = "do_not_refactor" /\ action.appliesTo = cluster.members

-----------------------------------------------------------------------------
(***************************************************************************)
(* What it owes its reader about parts of functions.                       *)
(***************************************************************************)
\* The runs of equal statements that two functions have in common and that no
\* longer such run contains, by trying every one.
CommonRuns(f, g) ==
  LET left  == Features[f].keys
      right == Features[g].keys
      Same(i, j) == i >= FirstCode(f) /\ j >= FirstCode(g)
                    /\ i <= Len(left) /\ j <= Len(right) /\ left[i] = right[j]
  IN {run \in {[left |-> Occurrence(f, i, n), right |-> Occurrence(g, j, n)]:
                 i \in DOMAIN left, j \in DOMAIN right, n \in DOMAIN left}:
        /\ \A k \in 0..(run.left.length - 1): Same(run.left.start + k, run.right.start + k)
        /\ ~ Same(run.left.start - 1, run.right.start - 1)
        /\ ~ Same(run.left.start + run.left.length, run.right.start + run.right.length)}

WorthExtracting(run) ==
  /\ run.left.length >= BlockStatements
  /\ LineCount(run.left) >= BlockLines /\ LineCount(run.right) >= BlockLines
  /\ ~ IsWholeFunction(run)

LongRuns(p) == {run \in CommonRuns(p[1], p[2]): WorthExtracting(run)}

\* Few enough functions of this side have one of its windows.
IsDistinctive(run) ==
  \E start \in run.left.start..(run.left.start + run.left.length - BlockStatements):
    LET window == Window(run.left.member, start)
        having == {f \in code: /\ Len(Features[f].keys) >= BlockStatements
                               /\ Side(f) = Side(run.left.member)
                               /\ window \in WindowsOf(f)}
    IN /\ Cardinality(having) <= Limits.windowFunctions
       /\ Cardinality(ToSet(window)) >= DistinctInBlock

\* An occurrence gives way only to one that is at least as long.
Shows(block, occurrence) ==
  \E shown \in block: Overlap(shown, occurrence) /\ shown.length >= occurrence.length

\* Every longest run of statements that two functions share, long enough and rare
\* enough to extract, is shown at both of its ends, unless the two are reported
\* as copies already (_runs and _maximal_run, against trying every run).
BlocksShown ==
  \A p \in PairsIn(code):
    (Side(p[1]) = Side(p[2]) /\ p \notin RelatedAsWhole(clusters))
    => \A run \in LongRuns(p):
         IsDistinctive(run)
         => \E block \in blocks: Shows(block, run.left) /\ Shows(block, run.right)

\* What a block shows can be extracted: no statement is shown twice, and the
\* statements shown in one function are found in another one of the block
\* (_without_overlaps).
BlocksShared ==
  \A block \in blocks:
    /\ Cardinality(BlockMembers(block)) > 1
    /\ \A one \in block:
         /\ \A other \in block \ {one}: ~ Overlap(one, other)
         /\ \E f \in BlockMembers(block) \ {one.member}:
              \E start \in 1..(Len(Features[f].keys) - one.length + 1):
                KeysFrom(f, start, one.length) = KeysFrom(one.member, one.start, one.length)

\* The shared blocks are the common runs of statements, all of them, and nothing
\* else (shared_blocks, after the overlaps are dropped).
BlocksExact == BlocksShown /\ BlocksShared

-----------------------------------------------------------------------------
(***************************************************************************)
(* Reports of different code.                                              *)
(***************************************************************************)
\* Code of another language family changes nothing in what is compared: only
\* the clusters that observe one shape in several languages may come and go
\* (content_components and _comparable_groups work family by family).
LanguagesApart ==
  [][\A f \in Functions:
       (/\ code' = code \cup {f}
        /\ \A g \in code: Features[g].family # Features[f].family)
       => /\ {c \in clusters': IsEnriched(c)} = {c \in clusters: IsEnriched(c)}
          /\ blocks' = blocks]_vars

\* shared_blocks (blocks.py:85): test and non-test functions are never mixed.
TestsStayApart ==
  \A block \in blocks: \A f, g \in BlockMembers(block): IsTest(f) = IsTest(g)

\* build_shared_block_drafts (block_drafts.py:63): a clone is never reported
\* twice, so a block of two functions is not of a pair to be consolidated.
BlocksSpareClones ==
  ~ \E block \in blocks, p \in ReportedPairs:
      /\ BlockMembers(block) = {p[1], p[2]}
      /\ \E i \in DOMAIN ActionsOf(p): ActionsOf(p)[i].kind = "consolidate_clone"

=============================================================================
