------------------------ MODULE RepositorySelection ------------------------
(***************************************************************************)
(* Which files a command analyses, from the settings, the globs and Git;   *)
(* what analyze --explain-files and doctor say of it beforehand, and how   *)
(* complete the run calls itself afterwards.                               *)
(*                                                                         *)
(* Source: adapters/repository/filesystem.py, cli/commands/analyze.py,     *)
(* pipeline/doctor.py, pipeline/completeness.py, analysis/repository.      *)
(* What the run does with the files, and its caches, is FileCache.         *)
(***************************************************************************)
EXTENDS Configuration, Completeness

CONSTANTS
  Sites,       \* where files may be: paths in the repository
  Contents,    \* Contents[site]: what may be there
  Analysed,    \* sites with the suffix of an analysis language
  Unsupported, \* sites with the suffix of another source language
  Layers,      \* Layers[l]: what the layer l (toml, project, env) may say
  Ignores,     \* what .codeseamignore may list
  GitIgnores,  \* what Git may ignore: [dirs, files]
  Options,     \* options of a command line: [include, exclude, mode]
  MaxDeviations

ASSUME SitesAssumption ==
  /\ Sites \subseteq Seq(Texts) \ {<<>>} /\ IsFiniteSet(Sites)
  /\ Analysed \subseteq Sites /\ Unsupported \subseteq Sites \ Analysed

(* A file parses (with functions, or empty), has syntax errors, is beyond    *)
(* the parser, holds a NUL byte, may not be read, or is a link to nowhere or *)
(* out of the repository.                                                    *)
Kinds == {"absent", "source", "empty", "syntax_errors", "unparsable", "binary", "unreadable",
          "dangling", "outside"}

(* ENV_SETTINGS of config.py has no setting of the selection but the root.   *)
ASSUME LayersAssumption ==
  /\ \A site \in Sites : Contents[site] \subseteq Kinds
  /\ \A layer \in Layers["env"] : DOMAIN layer \subseteq {"root", "enabled"}

(* Values of the right form: paths for roots, sets of patterns for globs.    *)
ASSUME FormsAssumption ==
  /\ \A name \in {"toml", "project", "env"} : \A layer \in Layers[name] :
       /\ "root" \in DOMAIN layer => layer.root \in {Wrong, Outside} \/ layer.root \in Seq(Texts)
       /\ \A key \in (DOMAIN layer) \cap {"include", "exclude"} : layer[key] = Wrong \/ layer[key] \subseteq Patterns
  /\ BuiltinExcludes \cup (UNION Ignores) \subseteq Patterns
  /\ \A options \in Options : options.include \cup options.exclude \subseteq Patterns

VARIABLES
  disk,        \* files, configuration layers, Git's view, and whether Node is there
  analysis,    \* the last analysis, and the last thing that --explain-files or
  foretold     \* doctor said, if nothing changed on disk since
vars == <<disk, analysis, foretold>>

Nothing == [outcome |-> "none"]

(***************************************************************************)
(* The walk.                                                               *)
(***************************************************************************)
Present(files, root) == {site \in Sites : files[site] # "absent" /\ Below(site, root) /\ site # root}
Relative(site, root) == SubSeq(site, Len(root) + 1, Len(site))
Parents(path) == Prefixes(path) \ {<<>>, path}

(* git ls-files lists paths below the root it is asked in.                   *)
GitBelow(paths, root) == {Relative(path, root) : path \in {p \in paths : IsStrictPrefix(root, p)}}
GitIgnored(git, path, include_file) ==
  \/ include_file /\ path \in git.files
  \/ \E directory \in git.dirs : Below(path, directory)
GitView(git, root) == [dirs |-> GitBelow(git.dirs, root), files |-> GitBelow(git.files, root)]

ExcludedDir(matcher, git, path) == MatchesDir(matcher, path) \/ GitIgnored(git, path, FALSE)
WalkedGitDirs(files, root, matcher, git) ==
  {site \in Present(files, root) :
     /\ \A parent \in Parents(Relative(site, root)) : ~ExcludedDir(matcher, git, parent)
     /\ files[site] # "outside" /\ ~Matches(matcher, Relative(site, root))}
WalkedFromRepository(files, root, matcher, git) ==
  {site \in WalkedGitDirs(files, root, matcher, git) :
     ~Matches(matcher, site) /\ ~GitIgnored(git, Relative(site, root), TRUE)}
Walked(files, root, matcher, git) ==
  {site \in Present(files, root) :
     /\ \A parent \in Parents(Relative(site, root)) : ~ExcludedDir(matcher, git, parent)
     /\ files[site] # "outside"
     /\ ~Matches(matcher, Relative(site, root))
     /\ ~GitIgnored(git, Relative(site, root), TRUE)}
Included(files, config, git) ==
  {site \in Walked(files, config.root, Matcher(BuiltinExcludes \cup config.exclude),
                   GitView(git, config.root)) :
     Matches(Matcher(config.include), Relative(site, config.root))}

(* _record_for: every file is stat'ed, and one to analyse is read.           *)
Raises(files, included) ==
  \E site \in included :
    files[site] = "dangling" \/ (site \in Analysed /\ files[site] = "unreadable")
Records(files, included) == {site \in included : ~(site \in Analysed /\ files[site] = "binary")}
Selected(files, included) == Records(files, included) \cap Analysed

(***************************************************************************)
(* analyze --explain-files walks again, pattern by pattern.                *)
(***************************************************************************)
ExplainedDir(excludes, git, path) ==
  \/ MatchesAny(path, excludes) \/ MatchesAny(Append(path, "__dir__"), excludes)
  \/ GitIgnored(git, path, FALSE)
Group(files, site, path, config, excludes, git) ==
  IF \E parent \in Parents(path) : ExplainedDir(excludes, git, parent)
  THEN IF files[site] = "outside" THEN "uncounted" ELSE "excluded"
  ELSE IF files[site] = "outside" THEN "external symlinks"
  ELSE IF MatchesAny(path, excludes) \/ GitIgnored(git, path, TRUE) THEN "excluded"
  ELSE IF ~MatchesAny(path, config.include) THEN "not included"
  ELSE IF files[site] \in {"binary", "unreadable", "dangling"} THEN "binary files"
  ELSE IF site \in Analysed THEN "analysed" ELSE "non-analysis files"
Groups(files, config, git) ==
  [site \in Present(files, config.root) |->
     Group(files, site, Relative(site, config.root), config,
           BuiltinExcludes \cup config.exclude, GitView(git, config.root))]

(***************************************************************************)
(* The commands. Between two edits, what a command says of the files does  *)
(* not change: one analysis, and one question before it, are enough.       *)
(***************************************************************************)
IncludedOf(config) == Included(disk.files, config, disk.git)

(* What an adapter reports of a file, and of one that was edited after the   *)
(* scan recorded its hash.                                                   *)
Diagnostics(kind, changed) ==
  IF changed THEN {"source_changed"}
  ELSE CASE kind = "syntax_errors" -> {"tree_sitter_parse_error"}
         [] kind = "unparsable" -> {"tree_sitter_parse_error", "no_functions_recovered"}
         [] OTHER -> {}

(* run_completeness: counts come from the scan and from what was extracted.  *)
CompletenessInputs(included, changed, requested, answered) ==
  LET selected == Selected(disk.files, included)
      noted == {f \in selected : Diagnostics(disk.files[f], f \in changed) # {}}
  IN [source_files |-> Cardinality(selected),
      diagnostics |-> [f \in noted |-> Diagnostics(disk.files[f], f \in changed)],
      unsupported |-> Cardinality(Records(disk.files, included) \cap Unsupported),
      function_count |->
        Cardinality({f \in selected \ changed : disk.files[f] \in {"source", "syntax_errors"}}),
      semantic_requested |-> requested, semantic_answered |-> answered]

(* The provider is chosen from trust and from Node on the PATH; required     *)
(* mode stops a run whose requests are not all answered.                     *)
Provider(config) == config.trust /\ disk.node
Stops(config, requests, answered) ==
  config.mode = "required" /\ answered < requests
Run(options, config, included, changed, requests, answered) ==
  LET inputs == CompletenessInputs(included, changed, requests > 0, answered) IN
  IF Raises(disk.files, included) THEN [outcome |-> "internal error", options |-> options]
  ELSE IF Stops(config, requests, answered)
    THEN [outcome |-> "config error", options |-> options, error |-> "semantics"]
  ELSE [outcome |-> "done", options |-> options, config |-> config, included |-> included, changed |-> changed,
        selected |-> Selected(disk.files, included), inputs |-> inputs,
        coverage |-> Coverage(inputs), semantic_method |-> SemanticMethod(inputs)]

(* One request per project with candidates; at most MaxRequests.             *)
MaxRequests == 2
Analyze(options) ==
  LET config == Config(disk, options)
      included == IncludedOf(config)
  IN
  /\ analysis = Nothing
  /\ IF ConfigError(disk, options) # "none"
     THEN analysis' = [outcome |-> "config error", options |-> options,
                       error |-> ConfigError(disk, options)]
     ELSE \E changed \in SUBSET Selected(disk.files, included),
             requests \in IF config.mode = "off" THEN {0} ELSE 0..MaxRequests :
          \E answered \in IF Provider(config) THEN 0..requests ELSE {0} :
            analysis' = Run(options, config, included, changed, requests, answered)
  /\ UNCHANGED <<disk, foretold>>

Count(groups, counted) == Cardinality({site \in DOMAIN groups : groups[site] \in counted})
SkipGroups == {"excluded", "external symlinks", "not included", "binary files", "non-analysis files"}
ExplainFiles(options) ==
  LET groups == Groups(disk.files, Config(disk, options), disk.git) IN
  /\ analysis = Nothing
  /\ foretold' =
       IF ConfigError(disk, options) # "none"
       THEN [outcome |-> "config error", options |-> options]
       ELSE [outcome |-> "explained", options |-> options,
             analysed |-> Count(groups, {"analysed"}), skipped |-> Count(groups, SkipGroups)]
  /\ UNCHANGED <<disk, analysis>>

(* doctor: the settings, then the selection, then the provider. It has no    *)
(* options, and lets an error of the file system out.                        *)
NoOptions == [include |-> {}, exclude |-> {}, mode |-> None]
SemanticChecksTrustOnly(config) ==
  IF config.mode = "off" THEN "info" ELSE IF config.trust THEN "ok" ELSE "warn"
SemanticChecks(config) ==
  IF config.mode = "off" THEN "info"
  ELSE IF config.trust /\ disk.node THEN "ok"
  ELSE IF config.mode = "required" THEN "fail" ELSE "warn"
Doctor ==
  LET config == Config(disk, NoOptions)
      included == IncludedOf(config)
  IN
  /\ analysis = Nothing
  /\ foretold' =
       IF ConfigError(disk, NoOptions) # "none" THEN [outcome |-> "failed"]
       ELSE IF Raises(disk.files, included) THEN [outcome |-> "internal error"]
       ELSE [outcome |-> IF SemanticChecks(config) = "fail" THEN "failed" ELSE "passed",
             files |-> Cardinality(Selected(disk.files, included))]
  /\ UNCHANGED <<disk, analysis>>

(* At most MaxDeviations things are there or differ from their defaults.     *)
Silent == [key \in {} |-> Wrong]
Deviations(d) ==
  Cardinality({site \in Sites : d.files[site] # "absent"})
  + Cardinality({layer \in {"toml", "project", "env"} : DOMAIN d[layer] # {}})
  + Cardinality({x \in {"ignore", "git", "node"} :
      CASE x = "ignore" -> d.ignore # {} [] x = "git" -> d.git.dirs \cup d.git.files # {} [] OTHER -> d.node})

(* Somebody edits: a file, a layer, an ignore file, or installs Node. What    *)
(* was said of the disk is forgotten.                                        *)
Edit(edited) ==
  /\ edited # disk /\ Deviations(edited) <= MaxDeviations
  /\ disk' = edited
  /\ analysis' = Nothing /\ foretold' = Nothing
EditFile == \E site \in Sites : \E kind \in Contents[site] : Edit([disk EXCEPT !.files[site] = kind])
EditLayer ==
  \E layer \in {"toml", "project", "env"} : \E said \in Layers[layer] :
    Edit([disk EXCEPT ![layer] = said])
EditIgnore == \E ignore \in Ignores : Edit([disk EXCEPT !.ignore = ignore])
EditGit == \E git \in GitIgnores : Edit([disk EXCEPT !.git = git])
InstallNode == \E node \in BOOLEAN : Edit([disk EXCEPT !.node = node])

Init ==
  /\ disk = [files |-> [site \in Sites |-> "absent"], toml |-> Silent, project |-> Silent, env |-> Silent,
             ignore |-> {}, git |-> [dirs |-> {}, files |-> {}], node |-> FALSE]
  /\ analysis = Nothing /\ foretold = Nothing
Next ==
  \/ EditFile \/ EditLayer \/ EditIgnore \/ EditGit \/ InstallNode
  \/ \E options \in Options : Analyze(options) \/ ExplainFiles(options)
  \/ Doctor
Spec == Init /\ [][Next]_vars

(***************************************************************************)
(* Where the two matchers agree. They differ on a path that spells a glob   *)
(* in front of a final /**, and the walk asks of a directory whether        *)
(* __dir__ in it is excluded: neither makes a difference in an instance     *)
(* with the two conditions.                                                 *)
(***************************************************************************)
(* What the layers, .codeseamignore and the options may say.                 *)
Said(layer, key) == IF key \in DOMAIN layer THEN IF layer[key] = Wrong THEN {} ELSE layer[key] ELSE {}
FileLayers == Layers["toml"] \cup Layers["project"]
InUse ==
  BuiltinExcludes \cup {All} \cup (UNION Ignores)
    \cup (UNION {Said(layer, "include") \cup Said(layer, "exclude") : layer \in FileLayers})
    \cup (UNION {options.include \cup options.exclude : options \in Options})

Parts(site) == {SubSeq(site, i, j) : i \in 1..Len(site), j \in 1..Len(site)}

(* No pattern with a glob before its final /** is spelled in the path.       *)
NotSpelled(path, patterns) ==
  \A p \in patterns : Tree(p) /\ Below(path, Front(p)) => Literal(Front(p))

(* No site, seen from any directory, spells a glob of a pattern in use.      *)
GlobsNotSpelled ==
  \A site \in Sites : \A path \in Parts(site) :
    NotSpelled(path, InUse) /\ NotSpelled(Append(path, "__dir__"), InUse)

(* A text of a pattern in use that accepts the name __dir__ accepts any name. *)
ProbeIsAnyName ==
  \A p \in InUse : \A i \in DOMAIN p : "__dir__" \in Accepts[p[i]] =>
    \A site \in Sites : \A j \in DOMAIN site : site[j] \in Accepts[p[i]]

(***************************************************************************)
(* Properties.                                                             *)
(***************************************************************************)
(* The disk holds what may be there, and a command's answer is about it.      *)
TypeOK ==
  /\ disk.files \in [Sites -> Kinds] /\ \A site \in Sites : disk.files[site] \in Contents[site] \cup {"absent"}
  /\ \A layer \in {"toml", "project", "env"} : disk[layer] \in Layers[layer] \cup {Silent}
  /\ disk.ignore \in Ignores \cup {{}} /\ disk.node \in BOOLEAN
  /\ analysis.outcome \in {"none", "done", "config error", "internal error"}
  /\ analysis.outcome = "done" => analysis.selected \subseteq Analysed
  /\ foretold.outcome \in {"none", "explained", "passed", "failed", "config error", "internal error"}

(* --explain-files counts the files that analyze, with the same options,     *)
(* analyses, and fails on the same configurations: two walks, one with the    *)
(* compiled matcher and one pattern by pattern (select_files and             *)
(* explain_file_selection).                                                  *)
ExplainAgrees ==
  (analysis.outcome # "none" /\ foretold.outcome \in {"explained", "config error"}
     /\ analysis.options = foretold.options)
  => IF foretold.outcome = "config error" THEN analysis.outcome = "config error"
     ELSE IF analysis.outcome = "done"
     THEN foretold.analysed = Cardinality(analysis.selected)
     ELSE analysis.outcome = "internal error" \/ analysis.error = "semantics"

(* A file that could be analysed is skipped only because it, or a directory  *)
(* that it is in, matches an exclude or is ignored by Git, or because no     *)
(* include matches it (select_files prunes whole directories).               *)
OnlyMatchedSkipped ==
  analysis.outcome = "done" =>
    \A site \in (Present(disk.files, analysis.config.root) \cap Analysed) \ analysis.selected :
      LET path == Relative(site, analysis.config.root)
          above == Prefixes(path) \ {<<>>}
      IN \/ disk.files[site] \in {"outside", "binary"}
         \/ \E up \in above : MatchesAny(up, BuiltinExcludes \cup analysis.config.exclude)
         \/ GitIgnored(GitView(disk.git, analysis.config.root), path, TRUE)
         \/ ~MatchesAny(path, analysis.config.include)

(* Whatever the other layers say, a file that .codeseamignore or --exclude   *)
(* names, or a directory of it, is never analysed (the layers of load_config *)
(* and the second load for --exclude).                                       *)
ExcludedStaysOut ==
  analysis.outcome = "done" =>
    \A site \in analysis.selected : \A up \in Prefixes(Relative(site, analysis.config.root)) \ {<<>>} :
      ~Matches(Matcher(disk.ignore \cup analysis.options.exclude), up)

(* When doctor finds no failure, analyze stops neither at the settings nor   *)
(* at a file, and analyses as many files as doctor counted; required mode     *)
(* may then stop it only because a worker that is there does not answer.     *)
DoctorForetells ==
  (foretold.outcome = "passed" /\ analysis.outcome # "none" /\ analysis.options = NoOptions)
  => \/ analysis.outcome = "done" /\ Cardinality(analysis.selected) = foretold.files
     \/ analysis.outcome = "config error" /\ analysis.error = "semantics" /\ disk.node

(* A run that calls itself complete parsed every source file that is         *)
(* included, as it was scanned, and asked for no semantic facts in vain       *)
(* (completeness_summary; a file with a NUL byte is no source file).         *)
CompleteMeansCovered ==
  (analysis.outcome = "done" /\ analysis.coverage = "complete") =>
    /\ \A site \in analysis.included \cap (Analysed \cup Unsupported) :
         site \notin analysis.changed /\ disk.files[site] \in {"source", "empty", "binary"}
    /\ analysis.semantic_method # "unavailable"

(* One more file that changes during the run never makes it more complete.    *)
Rank(coverage) == CASE coverage = "complete" -> 2 [] coverage = "partial" -> 1 [] OTHER -> 0
WorseNeverBetter ==
  analysis.outcome = "done" =>
    \A site \in analysis.selected \ analysis.changed :
      Rank(Coverage(CompletenessInputs(analysis.included, analysis.changed \cup {site},
                                       analysis.inputs.semantic_requested,
                                       analysis.inputs.semantic_answered)))
        <= Rank(analysis.coverage)
=============================================================================
