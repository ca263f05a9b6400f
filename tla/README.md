# Verification of Codeseam

Codeseam finds duplicated and near-duplicated functions in a repository of
Python and ECMAScript files. One `analyze` command scans the repository, parses
what is not in the cache, groups and compares functions, and publishes a
directory of reports. This directory holds TLA+ models of that program, the TLC
configurations that check them on small instances, and proofs that TLAPS checks
for all instances. Paths below are relative to `src/codeseam` unless they start
with `docs/`.

Tools: `tlc -config X.cfg M` for the runs, `tlapm M.tla` for the proofs.

## 1. Inventory

| Component | State it keeps | Operations | What makes it correct |
|---|---|---|---|
| Run lifecycle (`pipeline/analyze.py`, `cli/commands/*`, `platform/locks.py`, `output/artifacts/debug.py`) | two lock files, `.staging`, the output root, the cache directory | analyze, cache clear, cache stats, profile | one command at a time; the output root holds one run's reports; whoever fails or dies leaves neither locks nor leftovers that reach a later run |
| Storage roots (`platform/storage.py`, `platform/paths.py`, `config.py`, `cli/commands/init.py`) | the directories themselves, ownership markers | validate, claim, create, publish, clear | nothing of the user's is deleted; what a command accepts, the next one accepts |
| Configuration (`config.py`) | none | merge defaults, file, environment, flags | precedence; every setting is checked where it comes from; excludes add up |
| Repository selection (`adapters/repository`, `platform/files.py`) | none (walks the disk) | select, explain, doctor | the explanation is of the selection that happens; what is named is left out, and nothing else |
| Per-file analysis (`pipeline/file_analysis.py`, `adapters/languages/extraction.py`, `cache/file_analysis.py`) | scan manifest, five tables of rows by content hash, a write buffer, snapshots of the run | scan, prefetch, look up, parse, diagnose, store, flush | cached = uncached; no row under a foreign hash; diagnosed files are analysed again |
| Persistent cache (`cache/store.py`, `cache/main.py`) | one SQLite table, one transaction per run, a memo of decoded blobs | get, get many, set, set many, close | rows are only added or replaced; commit at the end, also of failed runs |
| Relation detail (`pipeline/signatures.py`, `cache/relation_detail.py`, `cache/relations.py`) | memo of hydrated functions, detail rows, tree rows, pair rows | hydrate, measure, compare, store | the comparison of two contents does not depend on what is cached or on the order of clusters |
| Candidates and similarity (`analysis/relations`, `analysis/signatures`) | none (pure) | bucket, bound, measure, align, unify, classify | symmetric; the gate and the limits save work and lose no relation; copies meet |
| Clusters (`analysis/clusters`) | none (pure) | group, split, enrich, act | independent of input order and of other languages, inside the documented limits |
| Shared blocks (`analysis/relations/blocks.py`) | none (pure) | window, extend, drop overlaps | every long shared run, once, and extractable |
| Policy constants (`analysis/clusters/policy_constants.py` and the Python adapter's) | none (pure) | extract, normalise, group | an edit joins equal constants only |
| File and function roles (`analysis/repository/classification.py`, `analysis/semantic_roles.py` and the adapters') | none (pure) | classify a path, a declaration, a body | what repeats on purpose is recognised before it becomes an edit |
| Call sites (`analysis/relations/callables.py`, the adapters' `callsites.py`) | scopes, kept results, evidence of one file | walk, bind, count | lexical scoping; each call counts for the result it calls |
| Findings and assessment (`analysis/assessment`, `analysis/findings`) | none (pure); IDs are compared between runs | draft, score, cap, classify, identify, deduplicate, drop, rank | no target is lost on the way to the report; duplicates are visible; required surface and divergent code are not edited; verdicts answer to the code |
| Semantic enrichment (`semantics`, `pipeline/semantics.py`, `cache/semantic_enrichment.py`, `resources/semantic_worker`) | one Node worker process per request, its output in temporary files, the result of the run, kept answers | select functions, look up, start the worker, wait for it or for the deadline, check the response, keep it | an answer belongs to its request; no wait beyond the deadline; a failure costs only this run's evidence, unless the mode is `required` |
| Completeness (`analysis/completeness.py`) | none (pure) | classify the run | complete / partial / insufficient as `docs/methodology.md` defines |
| Language adapters (`adapters/languages`) | none besides the run's snapshots | parse, extract, hydrate | deterministic in the content |
| Inventory and repository facts (`analysis/repository`) | cache rows by content | tabulate | like the rows of the file analysis |
| Reports (`output`), command line (`cli`) | none besides the files | build, serialise, write | the artifact list is complete and nothing else is published |

How they interact: a command takes both locks, claims the cache directory,
stages, and calls the stages in order. The scan gives every later stage file
records with content hashes and roles; every later read of a file is checked against that
hash (`platform/files.py verified_bytes`). All caches share one SQLite
connection that opens lazily and commits when the run closes, failed or not.
Clusters call back into the language adapters to hydrate the functions they
compare. Semantic enrichment makes at most one request per run, to a child
process that gets it on its standard input, writes its answer into a temporary
file and is killed at the deadline; the child reads the analysed project again,
on its own. Nothing else is concurrent inside one process; other processes are
other Codeseam commands, editors and version control that change the analysed
files at any moment, and package managers that exchange the compiler.

The hard behaviours are therefore of two sorts. Concurrency and failure: commands
that overlap; failures, Ctrl-C and SIGKILL at every step; files that change between the
scan and any later read; rows of several tables that get stored one without the other;
state of earlier runs that a later run trusts; the worker's deadline against a late
answer; directories that are one inside the other, or change hands, while a command
relies on an earlier check. And long pure pipelines whose stages have to agree: two
walks and two matchers over one selection; limits, buckets, summaries and gates that
may each drop the pair that mattered; deduplication, subsumption and caps that
remove findings; roles decided far from the score they cap.

## 2. Modules

| Module | What it is | Source |
|---|---|---|
| `AnalysisRun` | analyze and clear commands with locks, staging, publication, commit, errors, kills | `pipeline/analyze.py`, `output/artifacts/debug.py`, `platform/locks.py`, `platform/storage.py`, `cache/store.py` |
| `SerialCommands` | abstract: commands happen one at a time, a run delivers its report set in one step or in part | the docstrings of the same files |
| `AnalysisRunProofs` | theorems about `AnalysisRun`, and that it implements `SerialCommands` | |
| `FileCache` | scan manifest, prefetch, per-file analysis, write buffer, commit, while files change | `adapters/repository`, `pipeline/file_analysis.py`, `adapters/languages/extraction.py`, `cache` |
| `UncachedAnalysis` | abstract: the scan sees contents, the analysis is that of the scanned content | `docs/methodology.md` |
| `FileCacheProofs` | theorems about `FileCache` | |
| `RelationDetail` | late hydration, detail, tree and pair rows, clusters of one run | `pipeline/signatures.py`, `cache`, `analysis/relations` |
| `RelationDetailProofs` | theorems about `RelationDetail` | |
| `SemanticEnrichment` | one request, the worker process, its deadline and response, kept answers | `pipeline/semantics.py`, `semantics`, `cache/semantic_enrichment.py`, `resources/semantic_worker` |
| `SemanticEnrichmentProofs` | theorems about `SemanticEnrichment` | |
| `StorageRoots` | accepted roots, markers, claims, publication and clearing as changes of one directory tree | `platform/storage.py`, `platform/paths.py`, `config.py`, `pipeline/analyze.py`, `cli/commands` |
| `StorageRootsProofs` | theorems about `StorageRoots` | |
| `Configuration` | globs: the compiled matcher, the one-pattern matcher; layers of settings, checks, `.codeseamignore` | `platform/files.py`, `config.py`, `cli/commands/analyze.py` |
| `Completeness` | the class of a run | `analysis/completeness.py` |
| `RepositorySelection` | analyze, `--explain-files` and doctor over one disk, while settings, globs and files change | `adapters/repository`, `pipeline/doctor.py`, `pipeline/completeness.py` |
| `RepositorySelectionProofs` | theorems about `RepositorySelection` | |
| `BodyTrees` | tree distances, moves, unification | `analysis/relations` |
| `StatementAlignment` | prefixes, suffixes, common subsequences, skeletons | `analysis/relations` |
| `FunctionPairs` | scores, gate, relation kind, clone type of two functions | `analysis/relations`, `analysis/signatures` |
| `FunctionFeatures` | features of a function from its statements | `analysis/signatures` |
| `BodyComparison` | two bodies edited a statement at a time | |
| `PairSelection` | which pairs are compared: buckets, limits, content components | `analysis/relations`, `analysis/signatures` |
| `ClusterEnrichment` | pairs, duplicates, actions, evidence and risks of one cluster | `analysis/clusters`, `analysis/relations` |
| `FunctionClusters` | all clusters of a run | `analysis/clusters/build.py`, `analysis/signatures` |
| `SharedBlocks` | runs of statements shared by otherwise different functions | `analysis/relations/blocks.py` |
| `CloneReport` | a repository whose functions come and go, analysed after each change | |
| `FileRoles` | role, conventions, layer of a path | `analysis/repository/classification.py`, the adapters' `tests_matcher.py`, `analysis/relations/risks.py` |
| `SemanticRoles` | why a function may repeat: from path, declaration, body | `analysis/semantic_roles.py`, the adapters' `semantic_roles.py` |
| `PolicyConstants` | constants of modules and their groups | `analysis/clusters/policy_constants.py`, `adapters/languages/python/policy_constants.py` |
| `Assessment` | one draft's five scores, gates, action, tier and cap, as operators on its metrics | `analysis/assessment`, `platform/curves.py` |
| `DefaultPolicies` | the default settings | `analysis/assessment/policy.py`, `analysis/relations/policy.py` |
| `Findings` | drafts of clusters, promoted groups, blocks and constants; IDs; deduplication, subsumption, ranking, surfaces; re-analysis after an edit or an answer of the provider | `analysis/findings`, `analysis/assessment/findings.py`, `analysis/relations` |
| `FindingsProofs` | theorems about `Findings` | |
| `CallsiteTracker` | scopes and evidence of one file | `analysis/relations/callables.py` |
| `CallsiteWalk` | the walk of the two adapters over a file that is written as it goes | the adapters' `callsites.py` |
| `CallsiteWalkProofs` | theorems about `CallsiteWalk` | |
| `MC*` | constants for TLC | |

What builds on what (EXTENDS):

    BodyTrees <- StatementAlignment <- FunctionPairs <- FunctionFeatures
      FunctionFeatures <- BodyComparison
      FunctionFeatures, FileRoles <- PairSelection
        PairSelection <- ClusterEnrichment <- FunctionClusters \
        PairSelection <- SharedBlocks --------------------------> CloneReport
    FileRoles <- SemanticRoles \
    Assessment, PolicyConstants -> Findings
    Configuration \
    Completeness  -> RepositorySelection
    CallsiteTracker <- CallsiteWalk

`FileCache`, `RelationDetail`, `SemanticEnrichment` and `StorageRoots` take one
run at a time. What allows that is `MutualExclusion` of `AnalysisRun`, which is
proved there from lock files that stay where they are; section 3 names the
configuration of roots in which they do not. `CloneReport` covers the stages from
features to clusters and blocks, `Findings` those from clusters to the report: the
second takes the comparison of two bodies as given (`Compare`), the first computes it.
The provider's answers come from the stage that `SemanticEnrichment` models.

### AnalysisRun

A process has a program counter `pc[p]` named for what it does next. The order
is that of the code: lock `analyze.lock`, lock `cache.lock` (sorted paths),
claim the cache directory, create `.staging`, open SQLite at the first use,
stages (cache writes and artifact writes in any order the stages choose),
finalise (debug bundle and pruning), publish entry by entry (remove, then
rename), remove `.staging`, commit and close, unlock in reverse. `Fail` is any
exception or Ctrl-C: it runs the `finally` blocks that are open at that point
(`Unwind`). `Kill` is SIGKILL: flocks go, the transaction rolls back, files
stay as they are. Artifact contents are the identity of the run that wrote them.
`Torn` is an entry a removal has partly deleted.

### FileCache

Contents stand for hashes, and the analysis of content `v` is `v` in each of
its parts, so a mix of contents is visible. A stat is one number that every edit
changes (`Clock = "fine"`) or may leave alone (`Clock = "coarse"`). `ScanHit`
trusts the manifest, `ScanStat` and `ScanRead` are the two halves of an
unknown file, with edits in between. `ReuseFile`, `ParseFile`, `DiagnoseFile`
and `LoseFile` are the four ways through `analyze_language_file`. `Flush(t)`
writes one namespace. `Close` is both the regular end and any exception: it
commits what was flushed.

### RelationDetail

One function per file. `Cluster(C)` asks for the features of the functions of
`C`: memo first, then rows, then reads (`Hydrate`, `HydrateEmpty` for a Python
file that cannot be read, `HydrateBare` for a changed ECMAScript file). An
ECMAScript file that is gone ends the run (`Close`). `Compare` looks up or
computes every pair of the cluster; a comparison records which trees and
features it used, which is all that can differ. Rows of the file analysis are
a set `known`, flushed at the end of the analysis; contents that do not parse
are the subject of `FileCache`.

### SemanticEnrichment

The variable `step` follows `run_semantic_enrichment_stage`. A content stands for
everything the project key hashes. `Ask`, `Lookup`, `Launch` are the client;
`Examine` is the moment in which the worker reads the project and looks for a
compiler, on its own, and `Collect(reply)` takes any response: too large, empty, not
JSON, for another request, with repeated or invented items. `Expire` is the
deadline: `subprocess.run` kills the process and whatever it wrote is dropped.
`Store` keeps a ready answer under mode, project key and items; `Settle` is the
`required` mode. `Close`, `Interrupt` and `Crash` end the run as in `AnalysisRun`.
Facts are recorded as what the worker looked at: content, compiler, and whether
it type-checked.

### StorageRoots

One tree of directories with the files in them, by kind. `Above[d]` is `d` with
the directories it is in, so the model does not depend on path strings; the
file system root is among them, since `_runtime_root` treats it specially.
`Load` is `load_config` with its two checks. The steps of `analyze` are those of
`_analysis_cache` (lock files first, then mkdir and marker of each root), one
`Build` that writes rows, and `Publish`. `cache clear` deletes one entry at a time,
in any order (`RemoveFile`, `RemoveDir`), as `shutil.rmtree` does. `init
--create-dirs` takes no locks. `foreign` remembers the files that the user wrote
where Codeseam owned nothing, `claimed` the roots it claimed, `last` the
configuration of the last command that ended well.

### RepositorySelection

The disk is what each layer of settings says, `.codeseamignore`, Git's ignored paths and
what is at each site; any of it changes one thing at a time (`MaxDeviations` things may
differ from the start). A path is the sequence of its names; which names a
text of a glob accepts is a table (`Accepts`), so `fnmatch` is modelled by what it does
with texts, including `*` that spans slashes. `Included` is the walk of `select_files`
with its pruned directories and the compiled matcher, `Groups` the walk of
`explain_file_selection` pattern by pattern; both read the settings through `Configuration`,
where the load for `--exclude` happens a second time, as in the code. `doctor` goes
its own way to the same files. An analysis may lose files that change while it runs, and
then `Completeness` classifies it.

### BodyTrees to BodyComparison

Pure operators, in the order in which the code computes: the rolling rows of
`ordered_tree_edit_distance`, the moves of identical statements, prefixes, suffixes and
common subsequences, unification with a budget of moved statements, the scores of each kind of
evidence, the gate before the tree measurement, the relation kind and its deltas. Scores
are ten-thousandths. A statement stands for all that the adapters extract from it
(`Facts`); a body is a sequence of statements. `BodyComparison` edits two bodies
a statement at a time. What is checked is measured against definitions that
share no code with the operators: the least number of edits, by edits; every
statement accounted for; the relation that measuring everything would give.

### PairSelection to CloneReport

`PairSelection` has the buckets, limits and neighbours of candidate generation and the
components of content clusters, `ClusterEnrichment` what one cluster gets from its pairs,
`FunctionClusters` the three stages of `build_clusters` in order (shapes, wrappers,
content) with what each leaves to the next, `SharedBlocks` the partial clones. All limits
are in one record `Limits`, so that an instance can be scaled down to where they bite.
`CloneReport` adds or removes one function of a fixed set and analyses everything again
from nothing. Two variables, `index` and `relations`, hold what depends on the
functions alone, for all of them, computed once: they stand for warm caches, which
`RelationDetail` shows to be transparent.

### FileRoles and SemanticRoles

A name is the sequence of its words and the characters between them; patterns over names
are statements about them. `FileRoles` has both decisions about tests, that of
the scan (with the conventions of the language) and that of the risks (without),
and the layer of a path. `SemanticRoles` has the classifiers of both languages over a
declaration and the form of a body; a regular expression is modelled by what
it looks for.

### Assessment and Findings

Scores are integers in units of 0.0001, the precision the code rounds its results
to; the product of two scores is rounded where the code keeps a double, and `Band` and
the gates compare as the code does. Each policy class of the code is a constant
(`AssessmentPolicy`, `FitPolicy`, ...), and `DefaultPolicies` gives them the defaults.
The gates of each action are the sets of `Gates`; the caps are a sequence of rules
(`CapRules`), of which the first that holds counts, as in `semantic_cap_for`.

`Findings` has one step per change of the input: an edit of a function (`Edit`), another
definition of a module constant (`Redefine`) or one more answer of the semantic provider
(`Enrich`). Each step analyses the result from nothing, as `analyze` does: `targets` is
what `_with_unique_identities` returns, in draft order, `report` what is left of it in the
order of the ranks, `constants` the groups of module constants that the drafts are
of. A loop that keeps the best of several is written as the items no later one precedes
(`Kept`), a sort as the arrangement in which no item precedes an earlier one (`Sorted`). A body stands for its shape and what it repeats; `Compare` gives what
the comparison of two bodies finds (scores, relation kind, deltas, holes, shared runs).
A layout gives the files with their paths and languages, the functions with their names and
declarations, what each body is to a reader of roles (`forms`), clusters and candidate
pairs; the roles are computed from it by `FileRoles` and `SemanticRoles`, and are kept
in the layout because they are needed often (`Extracted`). The relation kind of equal
bodies depends on names as well and is computed (`PairKind`). Members are numbered in
the order of their locations, which is the order of candidates too. Whether two names are
alike is given (`alike`). Titles that begin alike count as equal, so that ties are broken
by draft order; the code goes on with the names in the title.
An ID is the set of its members' names (file, qualified name, source, kind), with
positions if names collide; hashing is taken to be injective. Answers come after
edits, so that each combination of bodies is met with each combination of answers once.

### CallsiteWalk

A file is written while it is walked: the stack `work` holds what the adapter has still to
visit, and an open body is one whose next statement is not chosen yet. The steps are those of
the generators in `callsites.py`: what is yielded before what differs between Python
and ECMAScript and is the point of the model. Five histories say what the file means
(`envs`, `meant`, `found`, `certain`, `mistaken`). They are computed from each statement as it
is chosen, by the scoping and evaluation order of the languages, without the state of the
tracker. A call invokes a factory if nothing was given to the name it calls (`Invoked`); its
evidence is `found`. Three things follow the code's own reading. A name of a factory that
holds another value and that `callables.py:108` still takes for the factory is `Mistaken`:
a plain name that holds a kept result, and a dotted one whatever it holds. Its evidence
is `mistaken`, and what a call of it returns is kept among `meant`, as the tracker keeps
it, but not `real`. And a definition of a factory's name changes no value
(`callables.py:121`), although in the file the name is the function again.

## 3. Runs

| Run | Configuration | Checks | Bounds |
|---|---|---|---|
| `analysis_run` | `MCAnalysisRun.cfg` | `MutualExclusion`, `ReportsWhole`, `UnpublishedLeavesReports`, `LocksAreFreed`, refinement of `SerialCommands` | 2 analyzers, 1 clearer, 2 runs |
| `file_cache` | `MCFileCache.cfg` | `CacheSound`, refinement of `UncachedAnalysis` | 2 files, 3 contents, 2 edits, 2 runs, fine clock |
| `relation_detail` | `MCRelationDetail.cfg` | `NothingMixed` (detail, trees and results belong to one content), `UnracedExact`, `OneDetailPerRun` | 3 files, 2 pairs, 2 contents, 2 edits, 2 runs |
| `relation_detail_degraded` | `MCRelationDetailDegraded.cfg` | `HydratedExact`: violated | 3 runs |
| `semantic_enrichment` | `MCSemanticEnrichment.cfg` | `RowsAnswer`, `FailureLeavesNoTrace`, `RunEnds` | 2 contents, 2 functions, 1 item per request, 1 compiler or none, 3 modes, edits at any time |
| `storage_roots` | `MCStorageRoots.cfg` | `ForeignFilesKept`, `AcceptedAgain`, with interruptions and `init` | 14 directories, 3 configurations, 3 user files |
| `repository_selection` | `MCRepositorySelection.cfg` | `ExplainAgrees`, `OnlyMatchedSkipped`, `ExcludedStaysOut`, `DoctorForetells`, `CompleteMeansCovered` | 6 sites, 3 layers, 4 ignore files, 3 command lines, 3 deviations at once |
| `body_comparison` | `MCBodyComparison.cfg` | `MeasuredExactly`, `SkeletonCovers`, `NoRelationLost`, `OperatorChangeSeen`, `EitherOrder` | bodies of up to 3 and up to 2 of four statements |
| `clone_report` | `MCCloneReport.cfg` | `CopiesMeet`, `PairOnce`, `ContentGathers`, `WideGroupsWarn`, `BlocksExact`, `LanguagesApart` | any 5 of 14 functions, limits scaled down |
| `blocks_mix_tests` | `MCCloneReportTests.cfg` | `TestsStayApart`: violated | the same |
| `findings` | `MCFindings.cfg` | `EveryTargetRepresented`, `DuplicatesReported`, `EditsSpareRequiredSurface`, `DivergentClonesStay`, `ConstantsAgree`, `DoubtAddsNoEdit` | 9 layouts, 4 functions, 4 bodies, answers about 2 functions, 4 constants, default settings |
| `callsites` | `MCCallsiteWalk.cfg` | `ScopesLexical`, `CallsCounted`, `EvidenceReal` | 2 languages, 2 factories, 4 statements, depth 2 |

Why the bounds are enough. Exclusion involves two commands and a third that
waits. A leftover needs one run that dies and one
that publishes after it, hence two runs (the safety properties also hold with `MaxRuns = 3`,
where another may run in between); the debug mode of each is free. A
cache hazard needs a run that stores and one that reads, and an edit between
or inside them; the second edit restores the old content, which is what makes a
foreign row visible. Three contents are needed where parts could mix. Bounds are
guards (`MaxRuns`, `MaxEdits`) so no state is cut off in the middle of a run.
`SemanticEnrichment` and `StorageRoots` need no such bound: their states are
finite, so any number of runs is covered. One item per request with two candidates
makes the limit bite. The directories are a repository with its `.codeseam`, and
an outside directory with two more in it: enough for roots that are apart, nested,
above the repository, or in a directory with files of the user.

The disk of `repository_selection` has a directory in a directory (pruning), a name in
brackets, the built-in `fixtures`, a language without an adapter and a link. With three
things off their defaults at once, two layers can contradict each other over one file, or
an ignore file, Git and an exclude meet in it.

The bodies of `body_comparison` allow an insertion, a removal, a move, and a change of a
literal or an operator, and each of these combined with one more. `EditProductLimit`
(120, 400) keeps both sides of the gate before the tree measurement within reach.
Of the fourteen functions of `clone_report` five suffice for copies under two signature
shapes with a third function between them, a family beyond the component limit, a broad
bucket with a wrapper, or a block over tests and sources; the limits are scaled down
to 2, 3 or 4 so that five functions exceed each of them.

Four functions in `findings` are two disjoint groups of clones, or a group, its cluster
and a stranger. The nine layouts put the same bodies into helpers with equal names,
functions with one name in one file, tests, protocols and mirrors, two languages, interfaces
with overloads and stubs, components and hooks, methods of classes, and modules with
tables of settings. The four bodies give each pair of them a relation of another kind:
equal, parameterised, near miss, common prefix and unrelated, with one body too small to
share. Divergence and doubt need answers about two functions.

Four statements in `callsites` are a kept result, what hides or replaces its name, and two
calls; depth 2 is a function inside a class or a function. The factory's own name may get
another value, its own result or that of a second factory.

`CHECK_DEADLOCK FALSE` is set where all runs may be over, where every answer is given,
where the file is walked, or where the user may have filled every root of the
configuration so that each command refuses it.

Symmetry: the two good contents of `MCFileCache` are interchangeable; they
occur in no liveness property.

### What the code does not ensure

Two of these are runs of their own (`blocks_mix_tests`, `relation_detail_degraded`); of the
others the modules keep the property, and the constants that violate it are given.

- `shared_blocks` searches tests and other functions apart but gathers the runs of both
  under their statement keys, so a block can hold tests and sources
  (`docs/methodology.md:135`: "It does not mix test code and non-test code").
- A pair compared without the detail of an ECMAScript function is stored under
  a key that does not tell, and replaces the full comparison in later runs.
- `publish_reports` replaces entries one at a time, so Ctrl-C in the middle does
  not leave "the previous reports untouched" (`pipeline/analyze.py:127`): `FailureLeavesReports`
  as an invariant of `MCAnalysisRun.cfg`. What does hold: until its first replacement a run leaves the
  reports alone, and the next successful run restores a whole set.
- The scan manifest has no guard against an edit within one tick of the file
  clock (of equal size); such an edit is missed by every later run (`ImplementsUncached`
  with `Clock = "coarse"`).
- A Python function whose file changed between scan and hydration gets an empty
  detail row under its old content, since `SourceChangedError` is an `OSError`.
  If the old content comes back, later runs compare it without detail (`DetailWhole`, 3 runs).
- The semantic worker reads the project after the scan; an answer about newer
  content is kept under the key of the scanned one (`RowsOfScannedContent`).
- An answer given without a compiler is `ready`, so it is kept, and reported again
  after the compiler has been installed (`NoStaleFailure`, edits off).
- Ownership of a root is checked when the configuration is loaded and not again
  before it is claimed or deleted (`ForeignFilesKept` with `UserRaces = TRUE`).
- `cache clear`, interrupted after the marker is gone, leaves a directory that every
  command refuses (`ClaimedStaysOwned`). So do a disabled cache and `init --create-dirs`
  when the cache path is around the output root: the path is made and never marked
  (`AcceptedAgain` with such `Settings`).
- Nothing relates the two roots: clearing a cache path around the reports
  deletes them, and, being around `.codeseam/runtime`, the lock files in use
  (`ClearKeepsTheRest`); publishing over a cache path named like an artifact directory
  deletes the cache (`CacheSurvives`).
- The ID of a finding includes which draft it comes from, the cluster's or that of the
  group promoted out of it. When both name the same functions, the verdicts choose, and the
  ID changes with an answer of the provider although the code is the same (`TargetIdIsStable`).
- The metrics of a promoted group look for divergent call targets among its clone
  pairs only. Two functions that are joined by a third can be told to be merged although
  the provider bound the same call to different targets in them (`DivergenceStopsEdits`).
- A cluster that is covered by several disjoint promoted groups has no cap; it can become
  one recommended edit over all of them and subsume each (`PromotedGroupVisible`).
- A block of two functions can be of a pair that is also to be consolidated
  (`BlocksSpareClones`).
- An exclude `src/[id]/**` is a directory to `--explain-files` and a character class to
  `analyze`, which then analyses the files the first called excluded (`ExplainAgrees` with
  `Options <- MCBracketOptions`). An exclude `**/__*` prunes every directory, because
  the matcher probes a directory with an invented file `__dir__` (`OnlyMatchedSkipped` with
  `Options <- MCDunderOptions`).
- In `h = wrap(h())` the walk clears `h` before it sees the call, since it yields the targets
  first; `python/callsites.py:67` says "in evaluation order". `CallsCounted` and
  `EvidenceReal` except these calls and those in ECMAScript defaults, which are not visited.
- A local name shadows a factory only if it is plain and holds no result of one
  (`callables.py:108`); line 105 says "unless a local name shadows it". After `make = make()`
  the call `make()()` is reported as an immediate call of the factory, though it calls what the
  kept result returns; so it is after `make = build()`, and `self.make()()` is after any
  value given to `self.make`. The same goes for such results when they are cached, piped,
  registered or kept and called again (`EvidenceUnshadowed` as an invariant of
  `MCCallsiteWalk.cfg`). `EvidenceReal` exempts the evidence of these names and no other.

Read in the code while modelling, without a property of their own: `test_*.py` is also matched against
the whole path, so a Python file below a root directory `test_support` is a test though its
name does not match (`docs/methodology.md:37`); the abstraction risks classify a path again
without the conventions of its language (`analysis/relations/risks.py:172`), so that
`users.spec.py` is a test to them alone; the layer of a shallow path is its file
name; `@x.setter` is no property accessor to the Python roles; the ECMAScript classifier
looks through `await` in arguments and the Python one does not; two equal tables of one
module are recommended for an edit although `docs/methodology.md:146` speaks of "more than
one module"; which of two equally long common subsequences an alignment takes depends
on the side, and with it the `operator` delta, which `EitherOrder` therefore leaves out.

### Fairness

`analysis_run` assumes weak fairness of the next step of each
process, with failures allowed but not required. The code runs these steps without
waiting for anything but the two flocks, and `flock` wakes a waiter when the owner
unlocks. A process may start no command at all. `semantic_enrichment` assumes
weak fairness of the run's own steps, the deadline among them, and none of the
worker: it may never read, never answer, never end. The other modules state safety only:
their commands are loops over finite data.

## 4. Proofs

TLAPS proves, for any sets of processes, entries, keys, files, contents and any
bounds:

- `AnalysisRunProofs`: types, `MutualExclusion`, `ReportsWhole`,
  `UnpublishedLeavesReports`, `StoreOpenExists`, `PublishesOwnRun`,
  `CacheOnlyGrows`. The inductive invariant ties each flock to the program
  counter of its owner (`LockInv`), so that only one process is between the
  locks; then describes what `.staging` holds at each stage (`StagedBy`) and how
  far a publication has come (`PublishedBy`), which is what makes the last rename
  of a publication produce a whole set. Without `StagedBy` a leftover of a killed
  debug run could be published; the removal of an old `.staging` in `Stage` is the
  step that excludes it. `Implements` is the refinement: every step of `AnalysisRun` is a
  step of `SerialCommands` or changes nothing there.
- `FileCacheProofs`: types, `CacheSound`, `DiagnosedNotStored`, `ResultSound`
  without further assumptions, and `ScanCurrent` and the refinement of
  `UncachedAnalysis` when `Clock = "fine"`. The invariant says that a manifest
  entry can bear the stamp of the file only while it has its content (`Dated`):
  stamps only grow, and the stat is taken before the read, so an edit between them
  leaves an entry that never matches again. Prefetched signatures are those of
  the scanned content (`Fetched`), and a file is scanned and analysed once per run
  (`Ahead`).
- `RelationDetailProofs`: types, `NothingMixed` and `OneDetailPerRun` whatever is edited
  while a run hydrates and compares, and `UnracedExact`. The invariant says that each row,
  each memo entry and each row still to be stored is of the content it is keyed by
  (`TablesBelong`, `MemoBelongs`) and what a run holds at each stage (`Stages`). For the
  third, `Unraced` says that nothing kept lacks detail as long as no edit fell into
  a run: that is what the degraded row of `relation_detail_degraded` breaks.
- `SemanticEnrichmentProofs`: types, `RowsAnswer`, `RequiredAnswered`,
  `WorkerContained` and `FailureLeavesNoTrace` whatever the worker writes, and
  `FactsOfThisRun` if nobody edits during a run or exchanges the compiler. The invariant
  relates the result in hand to the request of the run (`answered` and `settled`
  hold either a failure or an accepted answer), and the rows of the connection
  to those committed.
- `StorageRootsProofs`: types, and `ForeignFilesKept` if the user writes only between
  commands, for any tree and any configurations. The invariant has two parts: foreign
  files exist and have no marker above them, and while a command runs none of them
  is in its roots. The second is established by the ownership check of `load_config`
  (`AcceptedIsFree`) and makes the markers of `claim_storage_root` harmless; without
  the first the check could accept a marked directory around a foreign file.
  `AcceptedAgain` holds for the same user if the configurations are `AllSeparate`: of
  each, a root outside the project's own storage is neither around the directory of its
  locks nor around its other root. The invariant (`Settled`) says that what an idle program
  has accepted it still accepts, and that while a command runs its roots are absent or
  its own, marked before it writes into them, except where `rmtree` takes the cache
  apart (`RootsKept`).
- `RepositorySelectionProofs`: types, `ExcludedStaysOut`, `DoctorForetells` and
  `CompleteMeansCovered`, for any sites, globs, layers and options. The invariant says that an
  answer in hand is what the command computes from the disk as it is now (`AnalysisKnown`,
  `ForetoldKnown`); the rest is about operators: more patterns match more paths
  (`MoreMatch`), no layer merged after `.codeseamignore` has excludes of its own
  (`IgnoredMerged`, from `LayersAssumption`), and one file with a diagnostic that is not
  harmless gives a reason (`NotedIsIncomplete`). `ExplainAgrees` and `OnlyMatchedSkipped` are
  not true of every glob: the first is proved from `GlobsNotSpelled` (no directory is
  spelled like a glob that is in use), the second from it and `ProbeIsAnyName` (a glob
  that matches the invented file `__dir__` in a directory matches any file there). Both are
  conditions on the settings and the disk; section 3 has the two excludes that break them.
- `CallsiteWalkProofs`: `ScopesLexical`, for files of any length and depth in either
  language. The property holds between two statements only, so the invariant says how far
  the walk is behind the statements. It reads the stack from the bottom, where each open
  body is one step and its end another (`Stacked`); what is above the innermost body is one
  of six phases: before an assignment, before a definition, in the middle of a statement, before
  a body, after a body, at the end. In the middle of a statement a name has its value
  already unless a step that writes it is still on the stack, in which case the lowest
  such step decides (`Pending`), and a result that is still to be kept has the number of the
  kept results and of the steps up to its own (`WillHold`). The outer scopes agree with the outer
  bodies all along (`Levels`). `CallsCounted` and `EvidenceReal` need a second invariant,
  `Evident`: the calls counted so far and those in the steps on the stack (`Unseen`) are together
  no more than the statements made, and with those in a blind place no fewer (`Counting`); what
  the steps on the stack will tell is true, and all that is certain is told or on the stack
  (`Telling`); the results that an assignment will keep are the next ones (`Promised`). A step
  that puts the parts of a node in its place moves the calls that are left to see without
  losing or doubling one (`Moved`, a bijection), and the names that lose their result before
  a call is seen are those the last statement writes (`Hides`, `Rebinds`). What the tracker
  reports is compared with `found` and `mistaken` together (`Reported`): the names that it takes
  for a factory are those that are one and the mistaken ones (`Believed`). So the theorem says that
  all evidence is real but that of mistaken names, and that none which is real is missed
  outside a blind place.
- `FindingsProofs`: for any functions, bodies, layouts, policies, candidates and answers,
  and any number of edits, new constants and answers. The invariant (`Analysed`) says no
  more than that targets and report are what the code computes from the layout, the
  constants, the bodies and the answers as they are; the work is in the operators. Sorted
  lists and selections are defined by counting, so that what they keep follows from facts about
  cardinalities (`Sorted`, `Kept`, `ListIn`).
  - `EveryTargetRepresented` and that no finding is repeated: each stage leaves every target
    to one over all its functions and blocks that ranks at least as high (`Represents`), a
    relation that composes: removal of repeats, subsumption, ranking. The filter of IDs drops
    nothing further, because an ID is made of the locations that deduplication told apart.
  - An edit joins equal constants only, the first half of `ConstantsAgree`: the risk of a group
    of other values or names closes a gate of every edit, and no cap turns another verdict
    into one.
  - `EditsSpareRequiredSurface`: the roles of a function follow from its declaration and body,
    the metrics of every draft count them (`Surveyed`), a rule of the caps is met, and none of
    the rules that lower a verdict leaves an edit.
  - `DoubtAddsNoEdit` compares the analyses before and after an answer. A doubt only raises the
    risk of a draft (`Doubted`); every gate and bound of an edit that holds with it holds without
    (`Eased`); the same cap applies; each draft has its counterpart in the other list
    (`Counterpart`), and what the report keeps instead of the counterpart covers the edit. Drafts
    of blocks and of constants name no function as a whole.
  - `DivergentClonesStay`: the promoted group of two clones has every clone pair of its functions
    (`Closed`), so the group counts the pair whose call has two targets, and so does its
    cluster; both are a risk above a recommended edit. There remains an edit proposed by
    another cluster over both functions: if the clusters are apart, it relates none of its
    functions and has nothing to propose. `DivergentClonesSplit` takes that as a condition on the state
    (`ClustersApart`), `DivergentClonesKept` as one on the candidates of the layouts
    (`CandidatesApart`); both take `DivergenceIsCautious`, a condition on two numbers of the
    policies. Of other policies the property is false: with a floor of zero, TLC finds an edit
    of two clones that diverge.

Assumptions on the constants are the `ASSUME`s of the modules: special values
are not data, the orders enumerate their sets, and what the adapters hand to the walk
is a call, an assignment, a function or a class (`CallsAssumption`, `StatementsAssumption`)
that lists each call in it once, a call itself last (`MadeAssumption`). Of the findings:
policies are natural numbers that have the fields the arguments name (`PolicyAssumption`,
`FieldsAssumption`), functions and runs of statements are finitely many, functions and
constants numbered apart, every two bodies have a comparison (`FindingsAssumption`), a
comparison that names a type of clone is of some kind, and a cluster is over functions, two
different ones in each candidate pair (`LayoutsAssumption`).
TLC evaluates them in every run, and in the `MC` modules also the five hypotheses that
single theorems have: `AllSeparate`, `GlobsNotSpelled`, `ProbeIsAnyName`,
`DivergenceIsCautious`, `CandidatesApart`.

`StoreOpenExists`, `PublishesOwnRun`, `CacheOnlyGrows`, `DiagnosedNotStored`, `ResultSound`,
`ScanCurrent`, `RequiredAnswered`, `WorkerContained`, `FactsOfThisRun`, that no finding is
repeated (`NoFindingRepeated`) and the types of these modules are proved and not
model-checked by a run of the table.

Only model-checked: `LocksAreFreed` and `RunEnds` (liveness is beyond the prover).
`DuplicatesReported` and the second half of `ConstantsAgree` say that something is reported, which
depends on the numbers of the policies, the limits of the candidate lists and the layouts: they
hold of the default settings and not of all. The properties of `BodyComparison` and
`CloneReport` rest on recursive operators over trees: what a recursion computes for every
input takes an induction that the prover cannot instantiate.

## 5. Not modelled

What a parser computes: extraction of signatures, features, trees and literals from source
text is data here (`Facts`, `Signatures`, `forms`, `Literals`). Of the similarity, the branch
that compares the texts of bodies without trees (`analysis/relations/similarity.py:74`). Of
clusters, IDs and hashes, the texts of claims, and comparisons with trees that could not be
read (these are in `RelationDetail`). Of findings: confidence and strength labels,
visibility, texts, subclusters inside a finding, the confidences of policy constants, and which
blocks repeat inside a function. Of call sites: lambdas, the walrus operator, hoisting,
names of a class body seen by its methods, `make = make()` in ECMAScript (the name is
cleared and no record kept), and the lines of the evidence. Of selection: symbolic links to
files inside, Git's global ignore file, settings that only pass through. Inventory and
repository facts, report building, serializers and terminal output format what is
already computed; the order of artifact writes is part of `AnalysisRun`.

Decoding errors of cache rows count as misses in the
code and are left out. The blob memo of `PersistentCache` is invalidated by every
write to its key, so it equals the table. Argument parsing, progress output and profiling
counters take part in no property. SQLite itself is assumed to be atomic; `flock` to
be released with its process.

## 6. Plan

Done: the concurrent core, storage, selection, the call sites and the findings with their
proofs, and every pure stage from the settings to the report. Next, in this order:

1. `DuplicatesReported` and the rest of `ConstantsAgree`, from conditions on the policies and
   on the limits of the candidate lists that the default settings meet.
2. A proof of `ClaimedStaysOwned` without interruptions, and a composition of `AnalysisRun`
   and `FileCache` that replaces the assumption of one run at a time by the locks.
3. Blocks that repeat inside a function, with their extraction, and the tables of the inventory.
