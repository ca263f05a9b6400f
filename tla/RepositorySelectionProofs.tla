---------------------- MODULE RepositorySelectionProofs ----------------------
(***************************************************************************)
(* What excludes, doctor and completeness promise, for any sites, globs,   *)
(* settings and command lines.                                             *)
(***************************************************************************)
EXTENDS RepositorySelection, SequenceTheorems, FiniteSetTheorems, WellFoundedInduction, TLAPS

(* What the disk may be.                                                    *)
Disks ==
  [files : [Sites -> Kinds],
   toml : Layers["toml"] \cup {Silent}, project : Layers["project"] \cup {Silent},
   env : Layers["env"] \cup {Silent},
   ignore : Ignores \cup {{}}, git : GitIgnores \cup {[dirs |-> {}, files |-> {}]},
   node : BOOLEAN]

(* An answer is about the disk as it is: every edit forgets it.             *)
AnalysedBy(options) ==
  LET config == Config(disk, options)
      included == IncludedOf(config)
  IN  IF ConfigError(disk, options) # "none"
      THEN analysis = [outcome |-> "config error", options |-> options,
                       error |-> ConfigError(disk, options)]
      ELSE \E changed \in SUBSET Selected(disk.files, included), requests \in Nat, answered \in Nat :
             analysis = Run(options, config, included, changed, requests, answered)

AnalysisKnown == analysis = Nothing \/ \E options \in Options : AnalysedBy(options)

DoctorPasses ==
  LET config == Config(disk, NoOptions) IN
  /\ ConfigError(disk, NoOptions) = "none" /\ ~Raises(disk.files, IncludedOf(config))
  /\ SemanticChecks(config) # "fail"
DoctorCounts == Cardinality(Selected(disk.files, IncludedOf(Config(disk, NoOptions))))

ForetoldKnown ==
  /\ foretold.outcome \in {"none", "explained", "passed", "failed", "config error", "internal error"}
  /\ foretold.outcome = "passed" => DoctorPasses /\ foretold.files = DoctorCounts

Placed == \A site \in Sites : disk.files[site] \in Contents[site] \cup {"absent"}

IInv == disk \in Disks /\ Placed /\ AnalysisKnown /\ ForetoldKnown

-----------------------------------------------------------------------------
(* The invariant.                                                           *)

(* The initial states satisfy it.                                           *)
LEMMA InitEstablishes == Init => IInv
<1> SUFFICES ASSUME Init PROVE IInv
  OBVIOUS
<1>1. disk \in Disks
  BY DEF Init, Disks, Kinds
<1>2. AnalysisKnown /\ Placed
  BY DEF Init, AnalysisKnown, Placed
<1>3. ForetoldKnown
  BY DEF Init, ForetoldKnown, Nothing
<1> QED BY <1>1, <1>2, <1>3 DEF IInv

(* An edit of one thing leaves the others as they are, and every answer is  *)
(* forgotten.                                                               *)
LEMMA EditsKeep ==
  ASSUME IInv, EditFile \/ EditLayer \/ EditIgnore \/ EditGit \/ InstallNode
  PROVE  IInv'
<1>1. disk' \in Disks
  <2>1. CASE EditFile
    <3>1. PICK site \in Sites : \E kind \in Contents[site] : Edit([disk EXCEPT !.files[site] = kind])
      BY <2>1 DEF EditFile
    <3>2. PICK kind \in Contents[site] : Edit([disk EXCEPT !.files[site] = kind])
      BY <3>1
    <3>3. kind \in Kinds
      BY LayersAssumption
    <3>4. [disk.files EXCEPT ![site] = kind] \in [Sites -> Kinds]
      BY <3>3 DEF IInv, Disks
    <3>5. disk' = [disk EXCEPT !.files = [disk.files EXCEPT ![site] = kind]]
      BY <3>2 DEF Edit, IInv, Disks
    <3> QED BY <3>4, <3>5 DEF IInv, Disks
  <2>2. CASE EditLayer
    <3>1. PICK layer \in {"toml", "project", "env"} :
            \E said \in Layers[layer] : Edit([disk EXCEPT ![layer] = said])
      BY <2>2 DEF EditLayer
    <3>2. CASE layer = "toml"
      BY <3>1, <3>2 DEF IInv, Edit, Disks
    <3>3. CASE layer = "project"
      BY <3>1, <3>3 DEF IInv, Edit, Disks
    <3>4. CASE layer = "env"
      BY <3>1, <3>4 DEF IInv, Edit, Disks
    <3> QED BY <3>1, <3>2, <3>3, <3>4
  <2>3. CASE EditIgnore \/ EditGit \/ InstallNode
    BY <2>3 DEF IInv, EditIgnore, EditGit, InstallNode, Edit, Disks
  <2> QED BY <2>1, <2>2, <2>3
<1>2. analysis' = Nothing /\ foretold' = Nothing
  BY DEF EditFile, EditLayer, EditIgnore, EditGit, InstallNode, Edit
<1>3. Placed'
  <2>1. CASE EditFile
    <3>1. PICK site \in Sites : \E kind \in Contents[site] : Edit([disk EXCEPT !.files[site] = kind])
      BY <2>1 DEF EditFile
    <3>2. PICK kind \in Contents[site] : Edit([disk EXCEPT !.files[site] = kind])
      BY <3>1
    <3>3. disk'.files = [disk.files EXCEPT ![site] = kind]
      BY <3>2 DEF Edit, IInv, Disks
    <3> QED BY <3>3 DEF IInv, Disks, Placed
  <2>2. CASE EditLayer
    BY <2>2 DEF EditLayer, Edit, IInv, Disks, Placed
  <2>3. CASE EditIgnore \/ EditGit \/ InstallNode
    BY <2>3 DEF IInv, EditIgnore, EditGit, InstallNode, Edit, Disks, Placed
  <2> QED BY <2>1, <2>2, <2>3
<1> QED BY <1>1, <1>2, <1>3 DEF IInv, AnalysisKnown, ForetoldKnown, Nothing

(* While the disk stays as it is, so does what there is to say of it.       *)
LEMMA SameDisk ==
  ASSUME disk' = disk
  PROVE  /\ \A config : IncludedOf(config)' = IncludedOf(config)
         /\ \A options, config, included, changed, requests, answered :
              Run(options, config, included, changed, requests, answered)'
                = Run(options, config, included, changed, requests, answered)
         /\ (DoctorPasses' <=> DoctorPasses) /\ DoctorCounts' = DoctorCounts
  BY DEF IncludedOf, Run, CompletenessInputs, SemanticChecks, DoctorPasses, DoctorCounts

(* A run of analyze answers about the disk.                                 *)
LEMMA AnalyzeKeeps ==
  ASSUME IInv, NEW options \in Options, Analyze(options)
  PROVE  IInv'
<1> DEFINE config == Config(disk, options)
           included == IncludedOf(config)
<1>1. disk' = disk /\ foretold' = foretold
  BY DEF Analyze
<1>2. AnalysedBy(options)'
  <2>1. CASE ConfigError(disk, options) # "none"
    <3>1. analysis' = [outcome |-> "config error", options |-> options,
                       error |-> ConfigError(disk, options)]
      BY <2>1 DEF Analyze
    <3> QED BY <1>1, <2>1, <3>1 DEF AnalysedBy
  <2>2. CASE ConfigError(disk, options) = "none"
    <3>1. PICK changed \in SUBSET Selected(disk.files, included),
               requests \in IF config.mode = "off" THEN {0} ELSE 0..MaxRequests :
            \E answered \in IF Provider(config) THEN 0..requests ELSE {0} :
              analysis' = Run(options, config, included, changed, requests, answered)
      BY <2>2 DEF Analyze
    <3>2. PICK answered \in IF Provider(config) THEN 0..requests ELSE {0} :
            analysis' = Run(options, config, included, changed, requests, answered)
      BY <3>1
    <3>3. requests \in Nat /\ answered \in Nat
      BY DEF MaxRequests
    <3>4. \E c \in SUBSET Selected(disk.files, included), r \in Nat, a \in Nat :
            analysis' = Run(options, config, included, c, r, a)
      BY <3>2, <3>3
    <3>5. included' = included /\ config' = config
      BY <1>1, SameDisk
    <3>6. \E c \in SUBSET Selected(disk.files, included)', r \in Nat, a \in Nat :
            analysis' = Run(options, config, included, c, r, a)'
      BY <1>1, <3>4, <3>5, SameDisk
    <3> QED BY <1>1, <2>2, <3>6 DEF AnalysedBy
  <2> QED BY <2>1, <2>2
<1>3. ForetoldKnown'
  BY <1>1, SameDisk DEF IInv, ForetoldKnown
<1> QED BY <1>1, <1>2, <1>3 DEF IInv, AnalysisKnown, Placed

(* So do the commands that foretell one.                                    *)
LEMMA ForetellKeeps ==
  ASSUME IInv, Doctor \/ \E options \in Options : ExplainFiles(options)
  PROVE  IInv'
<1>1. disk' = disk /\ analysis' = analysis /\ analysis = Nothing
  BY DEF Doctor, ExplainFiles
<1>2. ForetoldKnown'
  <2>1. CASE Doctor
    <3>1. CASE ConfigError(disk, NoOptions) # "none"
      <4>1. foretold' = [outcome |-> "failed"]
        BY <2>1, <3>1 DEF Doctor
      <4> QED BY <4>1 DEF ForetoldKnown
    <3>2. CASE ConfigError(disk, NoOptions) = "none"
               /\ Raises(disk.files, IncludedOf(Config(disk, NoOptions)))
      <4>1. foretold' = [outcome |-> "internal error"]
        BY <2>1, <3>2 DEF Doctor
      <4> QED BY <4>1 DEF ForetoldKnown
    <3>3. CASE ConfigError(disk, NoOptions) = "none"
               /\ ~Raises(disk.files, IncludedOf(Config(disk, NoOptions)))
      <4>1. foretold' =
              [outcome |-> IF SemanticChecks(Config(disk, NoOptions)) = "fail" THEN "failed" ELSE "passed",
               files |-> DoctorCounts]
        BY <2>1, <3>3 DEF Doctor, DoctorCounts
      <4>2. foretold'.outcome = "passed" => DoctorPasses /\ foretold'.files = DoctorCounts
        BY <3>3, <4>1 DEF DoctorPasses
      <4>3. foretold'.outcome \in {"passed", "failed"}
        BY <4>1
      <4> QED BY <1>1, <4>2, <4>3, SameDisk DEF ForetoldKnown
    <3> QED BY <3>1, <3>2, <3>3
  <2>2. CASE \E options \in Options : ExplainFiles(options)
    <3>1. PICK options \in Options : ExplainFiles(options)
      BY <2>2
    <3>2. CASE ConfigError(disk, options) # "none"
      <4>1. foretold' = [outcome |-> "config error", options |-> options]
        BY <3>1, <3>2 DEF ExplainFiles
      <4> QED BY <4>1 DEF ForetoldKnown
    <3>3. CASE ConfigError(disk, options) = "none"
      <4>1. \E analysed, skipped :
              foretold' = [outcome |-> "explained", options |-> options,
                           analysed |-> analysed, skipped |-> skipped]
        BY <3>1, <3>3, Zenon DEF ExplainFiles
      <4> QED BY <4>1 DEF ForetoldKnown
    <3> QED BY <3>2, <3>3
  <2> QED BY <2>1, <2>2
<1> QED BY <1>1, <1>2 DEF IInv, AnalysisKnown, Nothing, Placed

(* Nothing happens.                                                         *)
LEMMA StutterKeeps == IInv /\ UNCHANGED vars => IInv'
<1> SUFFICES ASSUME IInv, UNCHANGED vars PROVE IInv'
  OBVIOUS
<1>1. disk' = disk /\ analysis' = analysis /\ foretold' = foretold
  BY DEF vars
<1>2. \A options : AnalysedBy(options)' <=> AnalysedBy(options)
  BY <1>1, SameDisk DEF AnalysedBy
<1>3. ForetoldKnown'
  BY <1>1, SameDisk DEF IInv, ForetoldKnown
<1> QED BY <1>1, <1>2, <1>3 DEF IInv, AnalysisKnown, Nothing, Placed

(* Every step keeps the invariant.                                          *)
LEMMA NextKeeps == IInv /\ [Next]_vars => IInv'
<1> SUFFICES ASSUME IInv, [Next]_vars PROVE IInv'
  OBVIOUS
<1>1. CASE EditFile \/ EditLayer \/ EditIgnore \/ EditGit \/ InstallNode
  BY <1>1, EditsKeep
<1>2. CASE \E options \in Options : Analyze(options)
  BY <1>2, AnalyzeKeeps
<1>3. CASE Doctor \/ \E options \in Options : ExplainFiles(options)
  BY <1>3, ForetellKeeps
<1>4. CASE UNCHANGED vars
  BY <1>4, StutterKeeps
<1> QED BY <1>1, <1>2, <1>3, <1>4 DEF Next

(* The invariant holds in every reachable state.                            *)
THEOREM Invariance == Spec => []IInv
<1> QED BY InitEstablishes, NextKeeps, PTL DEF Spec

-----------------------------------------------------------------------------
(* Answers.                                                                 *)

(* Every answer says what it is the answer to.                              *)
LEMMA RunOptions ==
  \A options, config, included, changed, requests, answered :
    Run(options, config, included, changed, requests, answered).options = options
<1> SUFFICES ASSUME NEW options, NEW config, NEW included, NEW changed, NEW requests, NEW answered
             PROVE  Run(options, config, included, changed, requests, answered).options = options
  OBVIOUS
<1>1. CASE Raises(disk.files, included)
  BY <1>1 DEF Run
<1>2. CASE ~Raises(disk.files, included) /\ Stops(config, requests, answered)
  BY <1>2 DEF Run
<1>3. CASE ~Raises(disk.files, included) /\ ~Stops(config, requests, answered)
  BY <1>3 DEF Run
<1> QED BY <1>1, <1>2, <1>3

(* The options of an answer are those of the command.                       *)
LEMMA AnsweredOptions ==
  ASSUME NEW options, AnalysedBy(options)
  PROVE  analysis.options = options
<1>1. CASE ConfigError(disk, options) # "none"
  <2>1. analysis = [outcome |-> "config error", options |-> options, error |-> ConfigError(disk, options)]
    BY <1>1 DEF AnalysedBy
  <2> QED BY <2>1
<1>2. CASE ConfigError(disk, options) = "none"
  <2>1. PICK c, r, a :
          analysis = Run(options, Config(disk, options), IncludedOf(Config(disk, options)), c, r, a)
    BY <1>2 DEF AnalysedBy
  <2> QED BY <2>1, RunOptions
<1> QED BY <1>1, <1>2

(* A run stops in required mode, or is done.                                *)
LEMMA RunOutcomes ==
  ASSUME NEW options, NEW config, NEW included, NEW changed, NEW requests, NEW answered,
         ~Raises(disk.files, included),
         analysis = Run(options, config, included, changed, requests, answered)
  PROVE  /\ ~Stops(config, requests, answered) =>
              analysis.outcome = "done" /\ analysis.selected = Selected(disk.files, included)
         /\ Stops(config, requests, answered) =>
              analysis.outcome = "config error" /\ analysis.error = "semantics"
  BY DEF Run

(* A run that is done says which settings and files it is of.               *)
LEMMA DoneIsRun ==
  ASSUME IInv, analysis.outcome = "done"
  PROVE  \E options \in Options :
           LET config == Config(disk, options)
               included == IncludedOf(config)
           IN  /\ ~Raises(disk.files, included) /\ ConfigError(disk, options) = "none"
               /\ analysis.options = options /\ analysis.config = config
               /\ analysis.included = included /\ analysis.selected = Selected(disk.files, included)
               /\ \E changed \in SUBSET Selected(disk.files, included), requests \in Nat, answered \in Nat :
                    LET inputs == CompletenessInputs(included, changed, requests > 0, answered) IN
                    /\ analysis.changed = changed
                    /\ analysis.coverage = Coverage(inputs)
                    /\ analysis.semantic_method = SemanticMethod(inputs)
<1>1. PICK options \in Options : AnalysedBy(options)
  BY DEF IInv, AnalysisKnown, Nothing
<1> DEFINE config == Config(disk, options)
           included == IncludedOf(config)
<1>2. ConfigError(disk, options) = "none"
  <2> SUFFICES ASSUME ConfigError(disk, options) # "none" PROVE FALSE
    OBVIOUS
  <2>1. analysis = [outcome |-> "config error", options |-> options, error |-> ConfigError(disk, options)]
    BY <1>1 DEF AnalysedBy
  <2> QED BY <2>1
<1>3. PICK changed \in SUBSET Selected(disk.files, included), requests \in Nat, answered \in Nat :
        analysis = Run(options, config, included, changed, requests, answered)
  BY <1>1, <1>2 DEF AnalysedBy
<1> DEFINE inputs == CompletenessInputs(included, changed, requests > 0, answered)
<1> HIDE DEF config, included, inputs
<1>4. ~Raises(disk.files, included) /\ ~Stops(config, requests, answered)
  BY <1>3 DEF Run
<1>5. analysis =
        [outcome |-> "done", options |-> options, config |-> config, included |-> included,
         changed |-> changed, selected |-> Selected(disk.files, included), inputs |-> inputs,
         coverage |-> Coverage(inputs), semantic_method |-> SemanticMethod(inputs)]
  BY <1>3, <1>4 DEF Run, inputs
<1> QED BY <1>2, <1>4, <1>5 DEF config, included, inputs

(* The disk holds what may be there, and an answer has one of its outcomes. *)
LEMMA TypeHolds == IInv => TypeOK
<1> SUFFICES ASSUME IInv PROVE TypeOK
  OBVIOUS
<1>1. /\ disk.files \in [Sites -> Kinds]
      /\ \A site \in Sites : disk.files[site] \in Contents[site] \cup {"absent"}
      /\ disk.ignore \in Ignores \cup {{}} /\ disk.node \in BOOLEAN
  BY DEF IInv, Disks, Placed
<1>2. \A layer \in {"toml", "project", "env"} : disk[layer] \in Layers[layer] \cup {Silent}
  BY DEF IInv, Disks
<1>3. foretold.outcome \in {"none", "explained", "passed", "failed", "config error", "internal error"}
  BY DEF IInv, ForetoldKnown
<1>4. analysis.outcome \in {"none", "done", "config error", "internal error"}
  <2>1. CASE analysis = Nothing
    BY <2>1 DEF Nothing
  <2>2. ASSUME NEW options \in Options, AnalysedBy(options)
        PROVE  analysis.outcome \in {"none", "done", "config error", "internal error"}
    <3>1. CASE ConfigError(disk, options) # "none"
      <4>1. analysis = [outcome |-> "config error", options |-> options, error |-> ConfigError(disk, options)]
        BY <2>2, <3>1 DEF AnalysedBy
      <4> QED BY <4>1
    <3>2. CASE ConfigError(disk, options) = "none"
      <4>1. PICK c, r, a :
              analysis = Run(options, Config(disk, options), IncludedOf(Config(disk, options)), c, r, a)
        BY <2>2, <3>2 DEF AnalysedBy
      <4> QED BY <4>1 DEF Run
    <3> QED BY <3>1, <3>2
  <2> QED BY <2>1, <2>2 DEF IInv, AnalysisKnown
<1>5. analysis.outcome = "done" => analysis.selected \subseteq Analysed
  BY DoneIsRun DEF Selected
<1> QED BY <1>1, <1>2, <1>3, <1>4, <1>5 DEF TypeOK

(* The disk holds what may be there, and a command's answer is about it.    *)
THEOREM TypeCorrect == Spec => []TypeOK
<1> QED BY Invariance, TypeHolds, PTL

-----------------------------------------------------------------------------
(* Excludes.                                                                *)

(* What some patterns match, more patterns match.                           *)
LEMMA MoreMatch ==
  ASSUME NEW fewer, NEW more, fewer \subseteq more, NEW path, Matches(Matcher(fewer), path)
  PROVE  Matches(Matcher(more), path)
<1> DEFINE few == Matcher(fewer)
           all == Matcher(more)
<1>1. /\ few.match_all => all.match_all
      /\ few.exact \subseteq all.exact
  BY DEF Matcher
<1>2. few.dir_prefixes \subseteq all.dir_prefixes
  BY DEF Matcher
<1>3. few.basename_exact \subseteq all.basename_exact
  BY DEF Matcher
<1>4. few.basename_patterns \subseteq all.basename_patterns
  BY DEF Matcher
<1>5. few.path_patterns \subseteq all.path_patterns
  BY DEF Matcher
<1> HIDE DEF few, all
<1>6. Matches(few, path)
  BY DEF few
<1>7. Matches(all, path)
  BY <1>1, <1>2, <1>3, <1>4, <1>5, <1>6 DEF Matches
<1> QED BY <1>7 DEF all

(* The excludes in force have those of .codeseamignore, if no layer that is *)
(* merged after them has excludes of its own.                               *)
LEMMA IgnoredMerged ==
  ASSUME NEW d \in Disks, NEW cli, "exclude" \notin DOMAIN cli
  PROVE  d.ignore \subseteq Merged(d, cli).exclude
<1> DEFINE below == Merge(Merge(Defaults, d.toml), d.project)
           ignoring == WithIgnored(below, d.ignore)
<1>1. "exclude" \notin DOMAIN d.env
  BY LayersAssumption DEF Disks, Silent
<1>2. DOMAIN below = Keys /\ "exclude" \in Keys
  BY DEF Merge, Keys
<1>3. ignoring["exclude"] = below["exclude"] \cup d.ignore
  BY <1>2 DEF WithIgnored
<1>4. Merge(ignoring, d.env)["exclude"] = ignoring["exclude"]
  BY <1>1, <1>2 DEF Merge
<1>5. Merged(d, cli)["exclude"] = Merge(ignoring, d.env)["exclude"]
  BY <1>2 DEF Merge, Merged
<1> QED BY <1>3, <1>4, <1>5

(* So have they those of --exclude.                                         *)
LEMMA ExcludesInForce ==
  ASSUME NEW d \in Disks, NEW options
  PROVE  d.ignore \cup options.exclude \subseteq Config(d, options).exclude
<1> DEFINE overrides == Overrides(options)
           cli == WithExcludes(d, options)
<1>1. "exclude" \notin DOMAIN overrides
  BY DEF Overrides
<1>2. CASE options.exclude = {}
  <2>1. cli = overrides
    BY <1>2 DEF WithExcludes
  <2> QED BY <1>1, <1>2, <2>1, IgnoredMerged DEF Config
<1>3. CASE options.exclude # {}
  <2>1. "exclude" \in DOMAIN cli /\ cli["exclude"] = Merged(d, overrides).exclude \cup options.exclude
    BY <1>3 DEF WithExcludes
  <2>2. Merged(d, cli)["exclude"] = cli["exclude"]
    BY <2>1 DEF Merged, Merge, Keys
  <2> QED BY <1>1, <2>1, <2>2, IgnoredMerged DEF Config
<1> QED BY <1>2, <1>3

(* No file is analysed that an exclude names, or a directory of it.         *)
LEMMA ExcludedHolds == IInv => ExcludedStaysOut
<1> SUFFICES ASSUME IInv, analysis.outcome = "done",
                    NEW site \in analysis.selected,
                    NEW up \in Prefixes(Relative(site, analysis.config.root)) \ {<<>>}
             PROVE  ~Matches(Matcher(disk.ignore \cup analysis.options.exclude), up)
  BY DEF ExcludedStaysOut
<1>1. PICK options \in Options :
        /\ analysis.options = options /\ analysis.config = Config(disk, options)
        /\ analysis.selected = Selected(disk.files, IncludedOf(Config(disk, options)))
  BY DoneIsRun
<1> DEFINE config == Config(disk, options)
           excludes == BuiltinExcludes \cup config.exclude
           path == Relative(site, config.root)
<1>2. site \in Walked(disk.files, config.root, Matcher(excludes), GitView(disk.git, config.root))
  BY <1>1 DEF Selected, Records, IncludedOf, Included
<1>3. /\ \A parent \in Parents(path) : ~ExcludedDir(Matcher(excludes), GitView(disk.git, config.root), parent)
      /\ ~Matches(Matcher(excludes), path)
  BY <1>2 DEF Walked
<1>4. up = path \/ up \in Parents(path)
  BY <1>1 DEF Parents
<1>5. ~Matches(Matcher(excludes), up)
  BY <1>3, <1>4 DEF ExcludedDir, MatchesDir
<1>6. disk.ignore \cup options.exclude \subseteq excludes
  BY ExcludesInForce DEF IInv
<1> QED BY <1>1, <1>5, <1>6, MoreMatch

(* Whatever the other layers say, a file that .codeseamignore or --exclude  *)
(* names, or a directory of it, is never analysed (load_config,             *)
(* select_files).                                                           *)
THEOREM ExcludesHold == Spec => []ExcludedStaysOut
<1> QED BY Invariance, ExcludedHolds, PTL

-----------------------------------------------------------------------------
(* Doctor.                                                                  *)

(* The files that doctor counts are those that analyze would select; where  *)
(* required mode stops analyze, doctor has found Node.                      *)
LEMMA DoctorHolds == IInv => DoctorForetells
<1> SUFFICES ASSUME IInv, foretold.outcome = "passed", analysis.outcome # "none",
                    analysis.options = NoOptions
             PROVE  \/ analysis.outcome = "done" /\ Cardinality(analysis.selected) = foretold.files
                    \/ analysis.outcome = "config error" /\ analysis.error = "semantics" /\ disk.node
  BY DEF DoctorForetells
<1> DEFINE config == Config(disk, NoOptions)
           included == IncludedOf(config)
<1>1. /\ ConfigError(disk, NoOptions) = "none" /\ ~Raises(disk.files, included)
      /\ SemanticChecks(config) # "fail"
      /\ foretold.files = Cardinality(Selected(disk.files, included))
  BY DEF IInv, ForetoldKnown, DoctorPasses, DoctorCounts
<1>2. PICK options \in Options : AnalysedBy(options)
  BY DEF IInv, AnalysisKnown, Nothing
<1>3. options = NoOptions
  <2>1. analysis.options = options
    BY <1>2, AnsweredOptions
  <2> QED BY <2>1
<1>4. PICK changed, requests, answered :
        analysis = Run(NoOptions, config, included, changed, requests, answered)
  BY <1>1, <1>2, <1>3 DEF AnalysedBy
<1>5. /\ ~Stops(config, requests, answered) =>
           analysis.outcome = "done" /\ analysis.selected = Selected(disk.files, included)
      /\ Stops(config, requests, answered) =>
           analysis.outcome = "config error" /\ analysis.error = "semantics"
  BY <1>1, <1>4, RunOutcomes
<1>6. Stops(config, requests, answered) => disk.node
  BY <1>1 DEF Stops, SemanticChecks
<1> QED BY <1>1, <1>5, <1>6

(* When doctor finds no failure, analyze stops neither at the settings nor  *)
(* at a file, and analyses the files that doctor counted (DoctorForetells). *)
THEOREM DoctorTruthful == Spec => []DoctorForetells
<1> QED BY Invariance, DoctorHolds, PTL

-----------------------------------------------------------------------------
(* Completeness.                                                            *)

(* A run with a file that it could not take whole, or that changed, is not  *)
(* complete.                                                                *)
LEMMA NotedIsIncomplete ==
  ASSUME NEW inputs, IsFiniteSet(DOMAIN inputs.diagnostics), NEW file \in DOMAIN inputs.diagnostics,
         FileOutcome(inputs.diagnostics[file]) # "analysed"
  PROVE  Coverage(inputs) # "complete"
<1> DEFINE reason == FileOutcome(inputs.diagnostics[file])
           alike == {f \in DOMAIN inputs.diagnostics : FileOutcome(inputs.diagnostics[f]) = reason}
<1>1. reason \in {"failed", "partial", "changed"}
  BY DEF FileOutcome
<1>2. IsFiniteSet(alike) /\ file \in alike
  BY FS_Subset
<1>3. Cardinality(alike) \in Nat /\ Cardinality(alike) # 0
  BY <1>2, FS_CardinalityType, FS_EmptySet
<1>4. Files(inputs)[reason] = Cardinality(alike)
  BY <1>1 DEF Files, Outcomes
<1> HIDE DEF reason, alike
<1>5. Files(inputs)[reason] > 0
  BY <1>3, <1>4
<1>6. reason \in Reasons(inputs)
  BY <1>1, <1>5 DEF Reasons
<1> QED BY <1>6 DEF Coverage

(* A complete run left nothing out.                                         *)
LEMMA CoverageHolds == IInv => CompleteMeansCovered
<1> SUFFICES ASSUME IInv, analysis.outcome = "done", analysis.coverage = "complete"
             PROVE  /\ \A site \in analysis.included \cap (Analysed \cup Unsupported) :
                         site \notin analysis.changed /\ disk.files[site] \in {"source", "empty", "binary"}
                    /\ analysis.semantic_method # "unavailable"
  BY DEF CompleteMeansCovered
<1>1. PICK options \in Options :
        LET included == IncludedOf(Config(disk, options)) IN
        /\ ~Raises(disk.files, included)
        /\ analysis.included = included
        /\ \E changed \in SUBSET Selected(disk.files, included), requests \in Nat, answered \in Nat :
             LET inputs == CompletenessInputs(included, changed, requests > 0, answered) IN
             /\ analysis.changed = changed
             /\ analysis.coverage = Coverage(inputs)
             /\ analysis.semantic_method = SemanticMethod(inputs)
  BY DoneIsRun
<1> DEFINE included == IncludedOf(Config(disk, options))
           selected == Selected(disk.files, included)
<1>2. PICK changed \in SUBSET selected, requests \in Nat, answered \in Nat :
        LET inputs == CompletenessInputs(included, changed, requests > 0, answered) IN
        /\ analysis.changed = changed
        /\ analysis.coverage = Coverage(inputs)
        /\ analysis.semantic_method = SemanticMethod(inputs)
  BY <1>1
<1> DEFINE inputs == CompletenessInputs(included, changed, requests > 0, answered)
           noted == {f \in selected : Diagnostics(disk.files[f], f \in changed) # {}}
<1>3. /\ DOMAIN inputs.diagnostics = noted
      /\ \A f \in noted : inputs.diagnostics[f] = Diagnostics(disk.files[f], f \in changed)
      /\ inputs.unsupported = Cardinality(Records(disk.files, included) \cap Unsupported)
      /\ inputs.semantic_requested = (requests > 0) /\ inputs.semantic_answered = answered
  BY DEF CompletenessInputs
<1>4. included \subseteq Sites /\ \A f \in included : disk.files[f] \notin {"absent", "outside"}
  BY DEF IncludedOf, Included, Walked, Present
<1>5. selected \subseteq included /\ selected \subseteq Analysed
  BY DEF Selected, Records
<1>6. IsFiniteSet(noted)
  BY <1>4, <1>5, SitesAssumption, FS_Subset
<1>7. Reasons(inputs) = {}
  BY <1>2 DEF Coverage
<1>8. ASSUME NEW f \in noted PROVE FileOutcome(Diagnostics(disk.files[f], f \in changed)) = "analysed"
  BY <1>2, <1>3, <1>6, NotedIsIncomplete
<1>9. Records(disk.files, included) \cap Unsupported = {}
  <2>1. IsFiniteSet(Records(disk.files, included) \cap Unsupported)
    BY <1>4, SitesAssumption, FS_Subset DEF Records
  <2>2. ~(inputs.unsupported > 0)
    BY <1>7 DEF Reasons
  <2> QED BY <1>3, <2>1, <2>2, FS_CardinalityType, FS_EmptySet
<1>10. ASSUME NEW site \in included \cap (Analysed \cup Unsupported)
       PROVE  site \notin changed /\ disk.files[site] \in {"source", "empty", "binary"}
  <2>1. site \in Analysed
    BY <1>9, SitesAssumption DEF Records
  <2>2. disk.files[site] \in Kinds \ {"absent", "outside", "dangling", "unreadable"}
    BY <1>1, <1>4, <2>1 DEF IInv, Disks, Raises
  <2>3. CASE disk.files[site] = "binary"
    BY <1>2, <2>1, <2>3 DEF Selected, Records
  <2>4. CASE disk.files[site] # "binary"
    <3>1. site \in selected
      BY <2>1, <2>4 DEF Selected, Records
    <3>2. site \notin changed
      BY <1>8, <3>1 DEF Diagnostics, FileOutcome
    <3>3. disk.files[site] \notin {"syntax_errors", "unparsable"}
      BY <1>8, <3>1, <3>2 DEF Diagnostics, FileOutcome
    <3> QED BY <2>2, <2>4, <3>2, <3>3 DEF Kinds
  <2> QED BY <2>3, <2>4
<1>11. analysis.semantic_method # "unavailable"
  <2>1. ~(inputs.semantic_requested /\ inputs.semantic_answered = 0)
    BY <1>7 DEF Reasons
  <2> QED BY <1>2, <1>3, <2>1 DEF SemanticMethod
<1> QED BY <1>1, <1>2, <1>10, <1>11

(* A run that calls itself complete parsed every source file that is        *)
(* included, as it was scanned, and asked for no semantic facts in vain     *)
(* (completeness_summary).                                                  *)
THEOREM CompleteIsCovered == Spec => []CompleteMeansCovered
<1> QED BY Invariance, CoverageHolds, PTL

-----------------------------------------------------------------------------
(* The two matchers.                                                        *)

(* What the compiled matcher does with one pattern.                         *)
MatchesCompiled(path, p) ==
  \/ p = All
  \/ Plain(p) /\ path = p
  \/ NameAnywhere(p) /\ Name(path) = Name(p)
  \/ Plain(p) /\ Len(p) = 1 /\ Name(path) = Name(p)
  \/ Directory(p) /\ Below(path, Front(p))
  \/ Open(p) /\ Anywhere(p) /\ FnMatchName(Name(path), Tail(p))
  \/ Open(p) /\ Len(p) = 1 /\ FnMatchName(Name(path), p)
  \/ Open(p) /\ FnMatch(path, p)

(* The compiled matcher matches what one of its patterns matches.           *)
LEMMA Compiled ==
  ASSUME NEW patterns, NEW path
  PROVE  Matches(Matcher(patterns), path) <=> \E p \in patterns : MatchesCompiled(path, p)
<1>1. ASSUME Matches(Matcher(patterns), path) PROVE \E p \in patterns : MatchesCompiled(path, p)
  BY <1>1 DEF Matches, Matcher, MatchesCompiled
<1>2. ASSUME NEW p \in patterns, MatchesCompiled(path, p) PROVE Matches(Matcher(patterns), path)
  <2>1. CASE p = All
    BY <2>1 DEF Matches, Matcher
  <2>2. CASE Plain(p) /\ path = p
    BY <2>2 DEF Matches, Matcher
  <2>3. CASE p # All /\ (NameAnywhere(p) \/ (Plain(p) /\ Len(p) = 1)) /\ Name(path) = Name(p)
    BY <2>3 DEF Matches, Matcher
  <2>4. CASE Directory(p) /\ Below(path, Front(p))
    BY <2>4 DEF Matches, Matcher
  <2>5. CASE Open(p) /\ Anywhere(p) /\ FnMatchName(Name(path), Tail(p))
    BY <2>5 DEF Matches, Matcher
  <2>6. CASE Open(p) /\ Len(p) = 1 /\ FnMatchName(Name(path), p)
    <3>1. ~Anywhere(p)
      BY <2>6 DEF Anywhere
    <3>2. p \in Matcher(patterns).basename_patterns
      BY <2>6, <3>1 DEF Matcher
    <3>. QED BY <2>6, <3>2 DEF Matches
  <2>7. CASE Open(p) /\ FnMatch(path, p)
    BY <2>7 DEF Matches, Matcher
  <2>. QED BY <1>2, <2>1, <2>2, <2>3, <2>4, <2>5, <2>6, <2>7 DEF MatchesCompiled
<1>. QED BY <1>1, <1>2

(* Prefixes, by their elements.                                             *)
LEMMA BelowMeans ==
  ASSUME NEW path \in Seq(Texts), NEW front \in Seq(Texts)
  PROVE  Below(path, front) <=>
           Len(front) <= Len(path) /\ \A i \in 1..Len(front) : path[i] = front[i]
BY DEF Below, IsPrefix

(* Where the texts of a pattern end, in a path that fnmatch accepts.        *)
Stopping(path, p, stop) ==
  \A i \in 1..Len(p) :
    LET start == IF i = 1 THEN 0 ELSE stop[i - 1] IN
    /\ IF p[i] \in Spanning THEN stop[i] > start ELSE stop[i] = start + 1
    /\ path[stop[i]] \in Accepts[p[i]]

(* A match says where in the path each text of the pattern stops.           *)
LEMMA FnMatchStops ==
  ASSUME NEW path, NEW p, FnMatch(path, p)
  PROVE  \E stop \in [1..Len(p) -> 1..Len(path)] : stop[Len(p)] = Len(path) /\ Stopping(path, p, stop)
BY DEF FnMatch, Stopping

(* The texts at the start of a pattern that are no globs match one name     *)
(* each, their own.                                                         *)
LEMMA LiteralStart ==
  ASSUME NEW path \in Seq(Texts), NEW p \in Patterns, NEW k \in 0..Len(p),
         \A i \in 1..k : p[i] \notin Globs,
         NEW stop \in [1..Len(p) -> 1..Len(path)], Stopping(path, p, stop)
  PROVE  \A i \in 1..k : stop[i] = i /\ path[i] = p[i]
<1>. DEFINE T == {i \in 1..k : stop[i] # i}
<1>. USE DEF Stopping
<1>1. T = {}
  <2>. SUFFICES ASSUME T # {} PROVE FALSE
    OBVIOUS
  <2>1. PICK i \in T : \A j \in T : ~(j < i)
    <3>1. T \subseteq Nat
      OBVIOUS
    <3>. HIDE DEF T
    <3>2. PICK i \in T : \A j \in T : <<j, i>> \notin OpToRel(<, Nat)
      BY <3>1, NatLessThanWellFounded, WFMin
    <3>. QED BY <3>1, <3>2 DEF OpToRel
  <2>2. i \in 1..k /\ stop[i] # i /\ p[i] \notin Globs /\ i \in 1..Len(p)
    OBVIOUS
  <2>3. p[i] \notin Spanning
    BY <2>2, TextsAssumption
  <2>4. CASE i = 1
    BY <2>2, <2>3, <2>4
  <2>5. CASE i # 1
    <3>1. i - 1 \in 1..k /\ i - 1 < i
      BY <2>2, <2>5
    <3>2. stop[i - 1] = i - 1
      BY <2>1, <3>1
    <3>. QED BY <2>2, <2>3, <2>5, <3>2
  <2>. QED BY <2>4, <2>5
<1>2. ASSUME NEW i \in 1..k PROVE stop[i] = i /\ path[i] = p[i]
  <2>1. stop[i] = i
    BY <1>1
  <2>2. p[i] \in Texts \ Globs /\ i \in 1..Len(p)
    BY DEF Patterns
  <2>3. path[stop[i]] \in Accepts[p[i]] /\ Accepts[p[i]] = {p[i]}
    BY <2>2, TextsAssumption
  <2>. QED BY <2>1, <2>3
<1>. QED BY <1>2

(* Two patterns in one: a pattern without globs before its last text.       *)
LEMMA LiteralMatches ==
  ASSUME NEW path \in Seq(Texts), NEW p \in Patterns, FnMatch(path, p)
  PROVE  /\ Literal(p) => path = p
         /\ Len(p) > 1 /\ Literal(Front(p)) => Below(path, Front(p))
         /\ Len(path) > 0 /\ Name(path) \in Accepts[Name(p)]
<1>1. PICK stop \in [1..Len(p) -> 1..Len(path)] :
        stop[Len(p)] = Len(path) /\ Stopping(path, p, stop)
  BY FnMatchStops
<1>2. Len(p) \in Nat \ {0} /\ Len(path) \in Nat /\ p \in Seq(Texts)
  BY DEF Patterns
<1>3. ASSUME Literal(p) PROVE path = p
  <2>1. \A i \in 1..Len(p) : stop[i] = i /\ path[i] = p[i]
    BY <1>1, <1>2, <1>3, LiteralStart DEF Literal
  <2>2. Len(path) = Len(p)
    BY <1>1, <1>2, <2>1
  <2>. QED BY <1>2, <2>1, <2>2
<1>4. ASSUME Len(p) > 1, Literal(Front(p)) PROVE Below(path, Front(p))
  <2>. DEFINE k == Len(p) - 1
  <2>1. k \in 0..Len(p) /\ k \in 1..Len(p) /\ k + 1 = Len(p)
    BY <1>2, <1>4
  <2>2. Front(p) \in Seq(Texts) /\ Len(Front(p)) = k /\ \A i \in 1..k : Front(p)[i] = p[i]
    BY <1>2, <1>4 DEF Front
  <2>3. \A i \in 1..k : p[i] \notin Globs
    BY <1>4, <2>2 DEF Literal
  <2>4. \A i \in 1..k : stop[i] = i /\ path[i] = p[i]
    BY <1>1, <2>1, <2>3, LiteralStart
  <2>5. k <= Len(path)
    BY <1>1, <1>2, <2>1, <2>4
  <2>. HIDE DEF k
  <2>. QED BY <2>2, <2>4, <2>5, BelowMeans
<1>5. Len(path) > 0 /\ Name(path) \in Accepts[Name(p)]
  BY <1>1, <1>2 DEF Name, Last, Stopping
<1>. QED BY <1>3, <1>4, <1>5

(* The other way round for a pattern without globs.                         *)
LEMMA MatchesItself ==
  ASSUME NEW p \in Patterns, Literal(p)
  PROVE  FnMatch(p, p)
<1>. DEFINE stop == [i \in 1..Len(p) |-> i]
<1>1. Len(p) \in Nat \ {0} /\ p \in Seq(Texts)
  BY DEF Patterns
<1>2. stop \in [1..Len(p) -> 1..Len(p)] /\ stop[Len(p)] = Len(p)
  BY <1>1
<1>3. ASSUME NEW i \in 1..Len(p)
      PROVE  LET start == IF i = 1 THEN 0 ELSE stop[i - 1] IN
             /\ IF p[i] \in Spanning THEN stop[i] > start ELSE stop[i] = start + 1
             /\ p[stop[i]] \in Accepts[p[i]]
  <2>1. p[i] \in Texts \ Globs /\ p[i] \notin Spanning /\ Accepts[p[i]] = {p[i]}
    BY <1>1, TextsAssumption DEF Literal
  <2>2. i # 1 => i - 1 \in 1..Len(p)
    OBVIOUS
  <2>. QED BY <1>1, <2>1, <2>2
<1>. QED BY <1>2, <1>3 DEF FnMatch

(* The second of two texts.                                                 *)
LEMMA TailOfTwo ==
  ASSUME NEW p \in Seq(Texts), Len(p) = 2
  PROVE  /\ Tail(p) \in Seq(Texts) /\ Len(Tail(p)) = 1 /\ Tail(p)[1] = p[2] /\ p[2] \in Texts
         /\ 1 \in DOMAIN Tail(p)
<1>1. Tail(p) \in Seq(Texts)
  OBVIOUS
<1>2. Len(Tail(p)) = 1 /\ Tail(p)[1] = p[2]
  OBVIOUS
<1>3. p[2] \in Texts
  OBVIOUS
<1>a. \A n : n = 1 => 1 \in 1..n
  OBVIOUS
<1>4. 1 \in 1..Len(Tail(p))
  BY <1>2, <1>a, Zenon
<1>5. DOMAIN Tail(p) = 1..Len(Tail(p))
  BY <1>1
<1>. QED BY <1>1, <1>2, <1>3, <1>4, <1>5

(* The name of a pattern that names a file in any directory.                *)
LEMMA NameAnywhereText ==
  ASSUME NEW p \in Seq(Texts), NameAnywhere(p)
  PROVE  /\ Len(p) = 2 /\ Len(Tail(p)) = 1 /\ Tail(p)[1] = p[2] /\ Name(p) = p[2]
         /\ p[2] \in Texts \ Globs /\ Accepts[p[2]] = {p[2]}
<1>1. Len(p) = 2 /\ Literal(Tail(p))
  BY DEF NameAnywhere
<1>3. Len(Tail(p)) = 1 /\ Tail(p)[1] = p[2] /\ p[2] \in Texts /\ 1 \in DOMAIN Tail(p)
  BY <1>1, TailOfTwo
<1>5. p[2] \notin Globs
  BY <1>1, <1>3 DEF Literal
<1>6. Name(p) = p[2]
  BY <1>1 DEF Name, Last
<1>. QED BY <1>1, <1>3, <1>5, <1>6, TextsAssumption

(* Only a pattern of one text is matched with a name.                       *)
LEMMA LongIsNoName ==
  ASSUME NEW p \in Seq(Texts), Len(p) > 1, NEW name
  PROVE  ~FnMatchName(name, p)
<1>. SUFFICES ASSUME FnMatchName(name, p) PROVE FALSE
  OBVIOUS
<1>1. Len(p) = 1
  BY DEF FnMatchName
<1>. QED BY <1>1

(* One pattern that the compiled matcher matches is matched one by one.     *)
LEMMA CompiledIsGlob ==
  ASSUME NEW path \in Seq(Texts), NEW p \in Patterns, MatchesCompiled(path, p)
  PROVE  MatchesGlob(path, p)
<1>1. Len(p) \in Nat \ {0} /\ p \in Seq(Texts)
  BY DEF Patterns
<1>2. CASE p = All
  BY <1>2 DEF MatchesGlob
<1>3. CASE Plain(p) /\ path = p
  BY <1>3, MatchesItself DEF MatchesGlob, Plain
<1>4. CASE NameAnywhere(p) /\ Name(path) = Name(p)
  <2>1. FnMatchName(Name(path), Tail(p))
    BY <1>1, <1>4, NameAnywhereText DEF FnMatchName
  <2>. QED BY <1>4, <2>1 DEF MatchesGlob, NameAnywhere
<1>5. CASE Plain(p) /\ Len(p) = 1 /\ Name(path) = Name(p)
  <2>1. p[1] \in Texts \ Globs /\ Name(p) = p[1]
    BY <1>1, <1>5 DEF Plain, Literal, Name, Last
  <2>2. Accepts[p[1]] = {p[1]}
    BY <2>1, TextsAssumption
  <2>. QED BY <1>5, <2>1, <2>2 DEF MatchesGlob, FnMatchName
<1>6. CASE Directory(p) /\ Below(path, Front(p))
  BY <1>6 DEF MatchesGlob, Directory
<1>7. CASE Open(p) /\ Anywhere(p) /\ FnMatchName(Name(path), Tail(p))
  BY <1>7 DEF MatchesGlob
<1>8. CASE Open(p) /\ (FnMatch(path, p) \/ FnMatchName(Name(path), p))
  BY <1>8 DEF MatchesGlob
<1>. QED BY <1>2, <1>3, <1>4, <1>5, <1>6, <1>7, <1>8 DEF MatchesCompiled

(* A pattern that is matched one by one is matched by the compiled matcher, *)
(* unless it has a glob before its final /** and the path begins with it    *)
(* as it is written.                                                        *)
LEMMA GlobIsCompiled ==
  ASSUME NEW path \in Seq(Texts), NEW p \in Patterns, MatchesGlob(path, p),
         Tree(p) /\ Below(path, Front(p)) => Literal(Front(p))
  PROVE  MatchesCompiled(path, p)
<1>1. Len(p) \in Nat \ {0} /\ p \in Seq(Texts)
  BY DEF Patterns
<1>2. CASE p = All
  BY <1>2 DEF MatchesCompiled
<1>3. CASE NameAnywhere(p)
  <2>1. /\ Len(p) = 2 /\ Len(Tail(p)) = 1 /\ Tail(p)[1] = p[2] /\ Name(p) = p[2]
        /\ p[2] \in Texts \ Globs /\ Accepts[p[2]] = {p[2]}
    BY <1>1, <1>3, NameAnywhereText
  <2>4. ~Tree(p) /\ ~FnMatchName(Name(path), p)
    <3>1. p[Len(p)] # "**" /\ Len(p) > 1
      BY <2>1, TextsAssumption
    <3>. QED BY <1>1, <3>1, LongIsNoName DEF Tree
  <2>5. FnMatchName(Name(path), Tail(p)) => Name(path) = Name(p)
    BY <2>1 DEF FnMatchName
  <2>6. FnMatch(path, p) => Name(path) = Name(p)
    BY <2>1, LiteralMatches
  <2>7. p # All
    BY <2>1, TextsAssumption DEF All
  <2>. QED BY <1>3, <2>4, <2>5, <2>6, <2>7 DEF MatchesGlob, MatchesCompiled
<1>4. CASE Directory(p)
  <2>1. Len(p) > 1 /\ Literal(Front(p)) /\ ~Anywhere(p)
    BY <1>4 DEF Directory, Tree
  <2>2. FnMatch(path, p) => Below(path, Front(p))
    BY <2>1, LiteralMatches
  <2>3. ~FnMatchName(Name(path), p)
    BY <1>1, <2>1, LongIsNoName
  <2>. QED BY <1>2, <1>4, <2>1, <2>2, <2>3 DEF MatchesGlob, MatchesCompiled
<1>5. CASE Plain(p)
  <2>1. Literal(p) /\ ~Anywhere(p)
    BY <1>5 DEF Plain
  <2>2. ~Tree(p)
    BY <1>1, <2>1, TextsAssumption DEF Tree, Literal
  <2>3. FnMatch(path, p) => path = p
    BY <2>1, LiteralMatches
  <2>4. ASSUME FnMatchName(Name(path), p) PROVE Len(p) = 1 /\ Name(path) = Name(p)
    <3>1. Len(p) = 1 /\ p[1] \in Texts \ Globs /\ Name(p) = p[1]
      BY <1>1, <2>1, <2>4 DEF FnMatchName, Literal, Name, Last
    <3>2. Accepts[p[1]] = {p[1]}
      BY <3>1, TextsAssumption
    <3>. QED BY <2>4, <3>1, <3>2 DEF FnMatchName
  <2>. QED BY <1>2, <1>5, <2>1, <2>2, <2>3, <2>4 DEF MatchesGlob, MatchesCompiled
<1>6. CASE Open(p)
  <2>1. ~(Tree(p) /\ Below(path, Front(p)) /\ ~Anywhere(p))
    BY <1>6 DEF Open, Directory
  <2>2. ASSUME Tree(p), Below(path, Front(p)), Anywhere(p) PROVE FALSE
    <3>1. Front(p) \in Seq(Texts) /\ Len(Front(p)) = Len(p) - 1 /\ Front(p)[1] = p[1] /\ Len(p) > 1
      BY <1>1, <2>2 DEF Front, Tree
    <3>2. p[1] \in Globs
      BY <2>2, TextsAssumption DEF Anywhere
    <3>3. ~Literal(Front(p))
      BY <3>1, <3>2 DEF Literal
    <3>. QED BY <2>2, <3>3
  <2>3. FnMatchName(Name(path), p) => Len(p) = 1
    BY DEF FnMatchName
  <2>. QED BY <1>2, <1>6, <2>1, <2>2, <2>3 DEF MatchesGlob, MatchesCompiled
<1>. QED BY <1>2, <1>3, <1>4, <1>5, <1>6 DEF Open

(* Where no glob before a final /** is spelled, the two matchers agree.      *)
LEMMA MatchersAgree ==
  ASSUME NEW patterns \in SUBSET Patterns, NEW path \in Seq(Texts), NotSpelled(path, patterns)
  PROVE  Matches(Matcher(patterns), path) <=> MatchesAny(path, patterns)
<1>1. ASSUME NEW p \in patterns PROVE MatchesCompiled(path, p) <=> MatchesGlob(path, p)
  BY CompiledIsGlob, GlobIsCompiled DEF NotSpelled
<1>2. Matches(Matcher(patterns), path) <=> \E p \in patterns : MatchesCompiled(path, p)
  BY Compiled
<1>. QED BY <1>1, <1>2 DEF MatchesAny

-----------------------------------------------------------------------------
(* The paths and the patterns that are compared.                            *)

(* Of every file, the path and its prefixes.                                *)
LEMMA PathsInUse ==
  ASSUME NEW site \in Sites, NEW root \in Seq(Texts), Below(site, root), site # root
  PROVE  /\ Relative(site, root) \in Seq(Texts) \ {<<>>}
         /\ \A up \in Prefixes(Relative(site, root)) \ {<<>>} :
              /\ up \in Seq(Texts) \ {<<>>} /\ up \in Parts(site)
              /\ Append(up, "__dir__") \in Seq(Texts)
<1>. DEFINE n == Len(root)
            path == Relative(site, root)
<1>1. site \in Seq(Texts) /\ Len(site) \in Nat /\ n \in Nat
  BY SitesAssumption
<1>2. n <= Len(site) /\ \A i \in 1..n : site[i] = root[i]
  BY <1>1, BelowMeans
<1>3. n < Len(site)
  <2>. SUFFICES ASSUME n = Len(site) PROVE FALSE
    BY <1>1, <1>2
  <2>. QED BY <1>1, <1>2
<1>4. path \in Seq(Texts) /\ Len(path) = Len(site) - n /\ \A i \in 1..Len(path) : path[i] = site[n + i]
  BY <1>1, <1>3 DEF Relative
<1>5. path # <<>>
  BY <1>1, <1>3, <1>4
<1>. HIDE DEF path
<1>6. ASSUME NEW up \in Prefixes(path) \ {<<>>}
      PROVE  up \in Seq(Texts) \ {<<>>} /\ up \in Parts(site) /\ Append(up, "__dir__") \in Seq(Texts)
  <2>1. PICK l \in 0..Len(path) : up = SubSeq(path, 1, l)
    BY DEF Prefixes
  <2>2. l # 0
    BY <2>1
  <2>3. up \in Seq(Texts) /\ Len(up) = l /\ \A i \in 1..l : up[i] = path[i]
    BY <1>4, <2>1
  <2>. DEFINE part == SubSeq(site, n + 1, n + l)
  <2>4. n + 1 \in 1..Len(site) /\ n + l \in 1..Len(site) /\ l \in Nat
    BY <1>1, <1>3, <1>4, <2>1, <2>2
  <2>5. part \in Seq(Texts) /\ Len(part) = l /\ \A i \in 1..l : part[i] = site[n + i]
    BY <1>1, <2>4
  <2>6. part \in Parts(site)
    BY <2>4 DEF Parts
  <2>. HIDE DEF part
  <2>7. up = part
    <3>1. \A i \in 1..Len(up) : up[i] = part[i]
      BY <1>4, <2>1, <2>3, <2>5
    <3>. QED BY <2>3, <2>5, <3>1, SeqEqual
  <2>8. Append(up, "__dir__") \in Seq(Texts)
    BY <2>3, TextsAssumption
  <2>. QED BY <2>3, <2>6, <2>7, <2>8
<1>. QED BY <1>4, <1>5, <1>6 DEF path

(* Everything that the settings may say is in use.                          *)
LEMMA InUsePatterns ==
  /\ InUse \subseteq Patterns /\ BuiltinExcludes \subseteq InUse /\ {All} \subseteq InUse
  /\ \A ignore \in Ignores : ignore \subseteq InUse
  /\ \A layer \in FileLayers, key \in {"include", "exclude"} : Said(layer, key) \subseteq InUse
  /\ \A options \in Options : options.include \cup options.exclude \subseteq InUse
<1>. DEFINE ignored == UNION Ignores
            layered == UNION {Said(layer, "include") \cup Said(layer, "exclude") : layer \in FileLayers}
            given == UNION {options.include \cup options.exclude : options \in Options}
<1>1. InUse = BuiltinExcludes \cup {All} \cup ignored \cup layered \cup given
  BY DEF InUse
<1>2. {All} \subseteq Patterns
  BY TextsAssumption DEF All, Patterns
<1>3. ASSUME NEW layer \in FileLayers, NEW key \in {"include", "exclude"} PROVE Said(layer, key) \subseteq Patterns
  <2>1. PICK name \in {"toml", "project", "env"} : layer \in Layers[name]
    BY DEF FileLayers
  <2>2. key \in DOMAIN layer => layer[key] = Wrong \/ layer[key] \subseteq Patterns
    BY <2>1, FormsAssumption
  <2>. QED BY <2>2 DEF Said
<1>4. /\ layered \subseteq Patterns
      /\ \A layer \in FileLayers : Said(layer, "include") \cup Said(layer, "exclude") \subseteq layered
  BY <1>3, Zenon
<1>5. ASSUME NEW options \in Options PROVE options.include \cup options.exclude \subseteq Patterns
  BY FormsAssumption
<1>6. given \subseteq Patterns /\ \A options \in Options : options.include \cup options.exclude \subseteq given
  BY <1>5, Zenon
<1>7. BuiltinExcludes \subseteq Patterns /\ ignored \subseteq Patterns
  BY FormsAssumption
<1>8. \A ignore \in Ignores : ignore \subseteq ignored
  BY Zenon
<1>. HIDE DEF ignored, layered, given
<1>9. InUse \subseteq Patterns
  BY <1>1, <1>2, <1>4, <1>6, <1>7
<1>10. BuiltinExcludes \subseteq InUse /\ {All} \subseteq InUse /\ ignored \subseteq InUse /\ layered \subseteq InUse /\ given \subseteq InUse
  BY <1>1
<1>11. \A ignore \in Ignores : ignore \subseteq InUse
  BY <1>8, <1>10
<1>12. \A layer \in FileLayers, key \in {"include", "exclude"} : Said(layer, key) \subseteq InUse
  <2>. SUFFICES ASSUME NEW layer \in FileLayers PROVE Said(layer, "include") \cup Said(layer, "exclude") \subseteq InUse
    OBVIOUS
  <2>. QED BY <1>4, <1>10
<1>13. \A options \in Options : options.include \cup options.exclude \subseteq InUse
  <2>. SUFFICES ASSUME NEW options \in Options PROVE options.include \cup options.exclude \subseteq InUse
    OBVIOUS
  <2>1. options.include \cup options.exclude \subseteq given
    BY <1>6
  <2>. QED BY <1>10, <2>1
<1>. QED BY <1>9, <1>10, <1>11, <1>12, <1>13

(* A configuration without errors has no wrong value in it.                 *)
LEMMA LoadedIsChecked ==
  ASSUME NEW d, NEW cli, LoadError(d, cli) = "none"
  PROVE  /\ Checked(d.toml) /\ Checked(d.project) /\ Checked(d.env) /\ Checked(cli)
         /\ Merged(d, cli).root # Outside
<1>. DEFINE layers == <<d.toml, d.project, d.env, cli>>
            sources == <<"codeseam.toml", ".codeseam/codeseam.toml", "environment", "cli">>
            wrong == {i \in DOMAIN layers : ~Checked(layers[i])}
            first == CHOOSE i \in wrong : \A j \in wrong : i <= j
<1>1. LayerError(d, cli) = "none"
  BY DEF LoadError
<1>2. LayerError(d, cli) = IF wrong = {} THEN "none" ELSE sources[first]
  BY DEF LayerError
<1>3. DOMAIN layers = 1..4 /\ layers[1] = d.toml /\ layers[2] = d.project /\ layers[3] = d.env /\ layers[4] = cli
  OBVIOUS
<1>4. wrong \subseteq 1..4
  BY <1>3
<1>5. wrong = {}
  <2>. SUFFICES ASSUME wrong # {} PROVE FALSE
    OBVIOUS
  <2>. HIDE DEF wrong
  <2>b. \A j \in wrong : j = 1 \/ j = 2 \/ j = 3 \/ j = 4
    BY <1>4
  <2>c. PICK k : k \in wrong
    OBVIOUS
  <2>a. 1 \in wrong \/ 2 \in wrong \/ 3 \in wrong \/ 4 \in wrong
    BY <2>b, <2>c
  <2>1. \E i \in wrong : \A j \in wrong : i <= j
    BY <2>a, <2>b
  <2>2. first \in 1..4
    BY <1>4, <2>1
  <2>. HIDE DEF first
  <2>3. sources[first] # "none"
    BY <2>2
  <2>. QED BY <1>1, <1>2, <2>3
<1>6. Checked(layers[1]) /\ Checked(layers[2]) /\ Checked(layers[3]) /\ Checked(layers[4])
  BY <1>3, <1>5
<1>7. Merged(d, cli).root # Outside
  BY <1>1 DEF LoadError
<1>. QED BY <1>3, <1>6, <1>7

(* What the files and the environment say is in use, unless the command     *)
(* line replaces it.                                                        *)
LEMMA MergedInUse ==
  ASSUME NEW d \in Disks, NEW cli, LoadError(d, cli) = "none", "root" \notin DOMAIN cli
  PROVE  /\ "exclude" \notin DOMAIN cli => Merged(d, cli).exclude \subseteq InUse
         /\ "exclude" \in DOMAIN cli => Merged(d, cli).exclude = cli.exclude
         /\ "include" \notin DOMAIN cli => Merged(d, cli).include \subseteq InUse
         /\ "include" \in DOMAIN cli => Merged(d, cli).include = cli.include
         /\ Merged(d, cli).root \in Seq(Texts)
<1>. DEFINE toml == Merge(Defaults, d.toml)
            project == Merge(toml, d.project)
            ignored == WithIgnored(project, d.ignore)
            env == Merge(ignored, d.env)
            merged == Merge(env, cli)
<1>1. Checked(d.toml) /\ Checked(d.project) /\ Checked(d.env) /\ merged.root # Outside
  BY LoadedIsChecked DEF Merged
<1>2. /\ d.toml \in Layers["toml"] \cup {Silent} /\ d.project \in Layers["project"] \cup {Silent}
      /\ d.env \in Layers["env"] \cup {Silent} /\ d.ignore \in Ignores \cup {{}}
  BY DEF Disks
<1>3. DOMAIN d.env \subseteq {"root", "enabled"}
  BY <1>2, LayersAssumption DEF Silent
<1>4. ASSUME NEW layer \in FileLayers \cup {Silent}, Checked(layer), NEW key \in (DOMAIN layer) \cap {"include", "exclude"}
      PROVE  layer[key] \subseteq InUse
  <2>1. layer \in FileLayers /\ layer[key] # Wrong
    BY <1>4 DEF Checked, Silent
  <2>2. layer[key] = Said(layer, key)
    BY <2>1 DEF Said
  <2>. QED BY <2>1, <2>2, InUsePatterns
<1>5. ASSUME NEW key \in {"include", "exclude"}, NEW settings, settings[key] \subseteq InUse,
             NEW layer \in FileLayers \cup {Silent}, Checked(layer)
      PROVE  Merge(settings, layer)[key] \subseteq InUse
  BY <1>4, <1>5 DEF Merge, Keys
<1>6. Defaults["include"] \subseteq InUse /\ Defaults["exclude"] \subseteq InUse
  BY InUsePatterns DEF Defaults
<1>7. project["include"] \subseteq InUse /\ project["exclude"] \subseteq InUse
  BY <1>1, <1>2, <1>5, <1>6 DEF FileLayers
<1>8. ignored["include"] = project["include"] /\ ignored["exclude"] = project["exclude"] \cup d.ignore
      /\ ignored["root"] = project["root"]
  BY DEF WithIgnored, Merge, Keys
<1>9. d.ignore \subseteq InUse
  BY <1>2, InUsePatterns
<1>10. env["include"] \subseteq InUse /\ env["exclude"] \subseteq InUse
  BY <1>3, <1>7, <1>8, <1>9 DEF Merge, Keys
<1>11. merged.root \in Seq(Texts)
  <2>1. ASSUME NEW name \in {"toml", "project", "env"}, NEW layer \in Layers[name] \cup {Silent}, Checked(layer),
               "root" \in DOMAIN layer
        PROVE  layer["root"] \in Seq(Texts) \cup {Outside}
    <3>1. layer \in Layers[name]
      BY <2>1 DEF Silent
    <3>2. layer["root"] # Wrong
      BY <2>1 DEF Checked
    <3>. QED BY <2>1, <3>1, <3>2, FormsAssumption
  <2>2. Defaults["root"] \in Seq(Texts)
    BY DEF Defaults
  <2>3. toml["root"] \in Seq(Texts) \cup {Outside}
    BY <1>1, <1>2, <2>1, <2>2 DEF Merge, Keys
  <2>. HIDE DEF toml
  <2>4. project["root"] \in Seq(Texts) \cup {Outside}
    BY <1>1, <1>2, <2>1, <2>3 DEF Merge, Keys
  <2>. HIDE DEF project
  <2>5. env["root"] \in Seq(Texts) \cup {Outside}
    BY <1>1, <1>2, <1>8, <2>1, <2>4 DEF Merge, Keys
  <2>. HIDE DEF env
  <2>6. merged["root"] = env["root"]
    BY DEF Merge, Keys
  <2>. QED BY <1>1, <2>5, <2>6
<1>. HIDE DEF env
<1>12. Merged(d, cli) = merged
  BY DEF Merged, env
<1>. QED BY <1>10, <1>11, <1>12 DEF Merge, Keys

(* So with the options of a command line.                                   *)
LEMMA SettingsInUse ==
  ASSUME NEW d \in Disks, NEW options \in Options, ConfigError(d, options) = "none"
  PROVE  /\ Config(d, options).exclude \subseteq InUse /\ Config(d, options).include \subseteq InUse
         /\ Config(d, options).root \in Seq(Texts)
<1>. DEFINE overrides == Overrides(options)
            cli == WithExcludes(d, options)
<1>1. DOMAIN overrides \subseteq {"include", "mode"} /\ ("include" \in DOMAIN overrides => overrides["include"] = options.include)
  BY DEF Overrides
<1>2. options.include \subseteq InUse /\ options.exclude \subseteq InUse
  BY InUsePatterns
<1>3. LoadError(d, cli) = "none"
  BY DEF ConfigError
<1>4. CASE options.exclude = {}
  <2>1. cli = overrides
    BY <1>4 DEF WithExcludes
  <2>. QED BY <1>1, <1>2, <1>3, <2>1, MergedInUse DEF Config
<1>5. CASE options.exclude # {}
  <2>1. /\ DOMAIN cli = (DOMAIN overrides) \cup {"exclude"}
        /\ cli["exclude"] = Merged(d, overrides).exclude \cup options.exclude
        /\ "include" \in DOMAIN overrides => cli["include"] = overrides["include"]
    BY <1>5 DEF WithExcludes
  <2>2. LoadError(d, overrides) = "none"
    BY <1>5 DEF ConfigError
  <2>3. Merged(d, overrides).exclude \subseteq InUse
    BY <1>1, <2>2, MergedInUse
  <2>4. cli["exclude"] \subseteq InUse
    BY <1>2, <2>1, <2>3
  <2>. HIDE DEF cli
  <2>5. "root" \notin DOMAIN cli /\ "exclude" \in DOMAIN cli
    BY <1>1, <2>1
  <2>6. /\ Merged(d, cli).exclude = cli["exclude"] /\ Merged(d, cli).root \in Seq(Texts)
        /\ "include" \notin DOMAIN cli => Merged(d, cli).include \subseteq InUse
        /\ "include" \in DOMAIN cli => Merged(d, cli).include = cli["include"]
    BY <1>3, <2>5, MergedInUse
  <2>7. Config(d, options) = Merged(d, cli)
    BY DEF Config, cli
  <2>. QED BY <1>1, <1>2, <2>1, <2>4, <2>6, <2>7
<1>. QED BY <1>4, <1>5

-----------------------------------------------------------------------------
(* The two walks.                                                           *)

(* What both walks ask of a path below the root, and of its directories.    *)
LEMMA SameQuestions ==
  ASSUME GlobsNotSpelled, NEW site \in Sites, NEW root \in Seq(Texts), Below(site, root), site # root,
         NEW patterns \in SUBSET InUse, NEW git
  PROVE  /\ Matches(Matcher(patterns), Relative(site, root)) <=> MatchesAny(Relative(site, root), patterns)
         /\ \A parent \in Parents(Relative(site, root)) :
              ExcludedDir(Matcher(patterns), git, parent) <=> ExplainedDir(patterns, git, parent)
<1>. DEFINE path == Relative(site, root)
<1>1. path \in Seq(Texts) \ {<<>>}
  BY PathsInUse
<1>2. ASSUME NEW up \in Prefixes(path) \ {<<>>}
      PROVE  /\ Matches(Matcher(patterns), up) <=> MatchesAny(up, patterns)
             /\ Matches(Matcher(patterns), Append(up, "__dir__")) <=> MatchesAny(Append(up, "__dir__"), patterns)
  <2>1. up \in Seq(Texts) /\ up \in Parts(site) /\ Append(up, "__dir__") \in Seq(Texts)
    BY PathsInUse
  <2>2. NotSpelled(up, patterns) /\ NotSpelled(Append(up, "__dir__"), patterns)
    BY <2>1 DEF GlobsNotSpelled, NotSpelled
  <2>3. patterns \in SUBSET Patterns
    BY InUsePatterns
  <2>. QED BY <2>1, <2>2, <2>3, MatchersAgree
<1>3. path \in Prefixes(path)
  <2>1. path = SubSeq(path, 1, Len(path)) /\ Len(path) \in 0..Len(path)
    BY <1>1
  <2>. QED BY <2>1 DEF Prefixes
<1>. HIDE DEF path
<1>4. Matches(Matcher(patterns), path) <=> MatchesAny(path, patterns)
  BY <1>1, <1>2, <1>3
<1>5. ASSUME NEW parent \in Parents(path)
      PROVE  ExcludedDir(Matcher(patterns), git, parent) <=> ExplainedDir(patterns, git, parent)
  <2>1. parent \in Prefixes(path) \ {<<>>}
    BY DEF Parents
  <2>. QED BY <2>1, <1>2 DEF ExcludedDir, ExplainedDir, MatchesDir
<1>. QED BY <1>4, <1>5 DEF path

(* Unless reading a file fails, the files explained as analysed are those   *)
(* that a run analyses.                                                     *)
LEMMA SameFiles ==
  ASSUME GlobsNotSpelled, NEW d \in Disks, NEW options \in Options, ConfigError(d, options) = "none",
         ~Raises(d.files, Included(d.files, Config(d, options), d.git))
  PROVE  LET groups == Groups(d.files, Config(d, options), d.git)
         IN  {site \in DOMAIN groups : groups[site] \in {"analysed"}}
               = Selected(d.files, Included(d.files, Config(d, options), d.git))
<1>. DEFINE config == Config(d, options)
            included == Included(d.files, config, d.git)
            groups == Groups(d.files, config, d.git)
            excludes == BuiltinExcludes \cup config.exclude
            git == GitView(d.git, config.root)
<1>1. excludes \in SUBSET InUse /\ config.include \in SUBSET InUse /\ config.root \in Seq(Texts)
  BY SettingsInUse, InUsePatterns
<1>. HIDE DEF config
<1>2. DOMAIN groups = Present(d.files, config.root)
  BY DEF Groups
<1>3. ASSUME NEW site \in Present(d.files, config.root)
      PROVE  groups[site] = "analysed" <=> site \in Selected(d.files, included)
  <2>. DEFINE path == Relative(site, config.root)
  <2>1. site \in Sites /\ Below(site, config.root) /\ site # config.root
    BY DEF Present
  <2>2. /\ Matches(Matcher(excludes), path) <=> MatchesAny(path, excludes)
        /\ \A parent \in Parents(path) : ExcludedDir(Matcher(excludes), git, parent) <=> ExplainedDir(excludes, git, parent)
        /\ Matches(Matcher(config.include), path) <=> MatchesAny(path, config.include)
    BY <1>1, <2>1, SameQuestions
  <2>3. site \in included <=>
          /\ \A parent \in Parents(path) : ~ExplainedDir(excludes, git, parent)
          /\ d.files[site] # "outside" /\ ~MatchesAny(path, excludes) /\ ~GitIgnored(git, path, TRUE)
          /\ MatchesAny(path, config.include)
    BY <2>2 DEF Included, Walked
  <2>4. site \in included =>
          d.files[site] # "dangling" /\ ~(site \in Analysed /\ d.files[site] = "unreadable")
    BY DEF Raises, config
  <2>5. groups[site] = Group(d.files, site, path, config, excludes, git)
    BY DEF Groups
  <2>. HIDE DEF path, groups, included, excludes, git
  <2>6. groups[site] = "analysed" <=>
          /\ ~\E parent \in Parents(path) : ExplainedDir(excludes, git, parent)
          /\ d.files[site] # "outside" /\ ~(MatchesAny(path, excludes) \/ GitIgnored(git, path, TRUE))
          /\ MatchesAny(path, config.include)
          /\ d.files[site] \notin {"binary", "unreadable", "dangling"} /\ site \in Analysed
    BY <2>5 DEF Group
  <2>7. site \in Selected(d.files, included) <=> site \in included /\ site \in Analysed /\ d.files[site] # "binary"
    BY DEF Selected, Records
  <2>. QED BY <2>3, <2>4, <2>6, <2>7
<1>4. Selected(d.files, included) \subseteq Present(d.files, config.root)
  BY DEF Selected, Records, Included, Walked
<1>. HIDE DEF groups, included
<1>5. {site \in DOMAIN groups : groups[site] \in {"analysed"}} = Selected(d.files, included)
  BY <1>2, <1>3, <1>4
<1>. QED BY <1>5 DEF config, groups, included

-----------------------------------------------------------------------------
(* What --explain-files says.                                               *)

(* It is about the disk as it is, too.                                      *)
ExplainKnown ==
  /\ foretold.outcome = "config error" => ConfigError(disk, foretold.options) # "none"
  /\ foretold.outcome = "explained" =>
       /\ foretold.options \in Options /\ ConfigError(disk, foretold.options) = "none"
       /\ foretold.analysed =
            Count(Groups(disk.files, Config(disk, foretold.options), disk.git), {"analysed"})

(* No file has been explained at first.                                     *)
LEMMA ExplainInit == Init => ExplainKnown
  BY DEF Init, ExplainKnown, Nothing

(* Whatever changes the disk forgets the answer; --explain-files computes   *)
(* it.                                                                      *)
LEMMA ExplainStep == ExplainKnown /\ [Next]_vars => ExplainKnown'
<1> SUFFICES ASSUME ExplainKnown, [Next]_vars PROVE ExplainKnown'
  OBVIOUS
<1>1. CASE EditFile \/ EditLayer \/ EditIgnore \/ EditGit \/ InstallNode
  <2>1. foretold' = Nothing
    BY <1>1 DEF EditFile, EditLayer, EditIgnore, EditGit, InstallNode, Edit
  <2> QED BY <2>1 DEF ExplainKnown, Nothing
<1>2. CASE UNCHANGED <<disk, foretold>>
  BY <1>2 DEF ExplainKnown
<1>3. CASE Doctor
  <2> DEFINE found == SemanticChecks(Config(disk, NoOptions))
             count == Cardinality(Selected(disk.files, IncludedOf(Config(disk, NoOptions))))
  <2>1. \/ foretold' = [outcome |-> "failed"] \/ foretold' = [outcome |-> "internal error"]
        \/ foretold' = [outcome |-> IF found = "fail" THEN "failed" ELSE "passed", files |-> count]
    BY <1>3 DEF Doctor
  <2> HIDE DEF found, count
  <2>2. foretold'.outcome \in {"failed", "internal error", "passed"}
    <3>1. CASE foretold' = [outcome |-> "failed"]
      BY <3>1
    <3>3. CASE foretold' = [outcome |-> "internal error"]
      BY <3>3
    <3>2. CASE foretold' = [outcome |-> IF found = "fail" THEN "failed" ELSE "passed", files |-> count]
      BY <3>2
    <3> QED BY <2>1, <3>1, <3>2, <3>3
  <2> QED BY <2>2 DEF ExplainKnown
<1>4. ASSUME NEW options \in Options, ExplainFiles(options) PROVE ExplainKnown'
  <2>1. disk' = disk
    BY <1>4 DEF ExplainFiles
  <2>2. CASE ConfigError(disk, options) # "none"
    <3>1. foretold' = [outcome |-> "config error", options |-> options]
      BY <1>4, <2>2 DEF ExplainFiles
    <3> QED BY <2>1, <2>2, <3>1 DEF ExplainKnown
  <2>3. CASE ConfigError(disk, options) = "none"
    <3> DEFINE groups == Groups(disk.files, Config(disk, options), disk.git)
               analysed == Count(groups, {"analysed"})
               skipped == Count(groups, SkipGroups)
    <3>1. foretold' = [outcome |-> "explained", options |-> options, analysed |-> analysed, skipped |-> skipped]
      BY <1>4, <2>3 DEF ExplainFiles
    <3> HIDE DEF skipped
    <3>2. /\ foretold'.outcome = "explained" /\ foretold'.options = options /\ foretold'.analysed = analysed
      BY <3>1
    <3> QED BY <2>1, <2>3, <3>2 DEF ExplainKnown
  <2> QED BY <2>2, <2>3
<1>5. ASSUME NEW options \in Options, Analyze(options) PROVE UNCHANGED <<disk, foretold>>
  BY <1>5 DEF Analyze
<1> QED BY <1>1, <1>2, <1>3, <1>4, <1>5 DEF Next, vars

(* Both walks count the same files.                                         *)
LEMMA ExplainHolds ==
  ASSUME GlobsNotSpelled, IInv, ExplainKnown
  PROVE  ExplainAgrees
<1> SUFFICES ASSUME analysis.outcome # "none", foretold.outcome \in {"explained", "config error"},
                    analysis.options = foretold.options
             PROVE  IF foretold.outcome = "config error" THEN analysis.outcome = "config error"
                    ELSE IF analysis.outcome = "done"
                    THEN foretold.analysed = Cardinality(analysis.selected)
                    ELSE analysis.outcome = "internal error" \/ analysis.error = "semantics"
  BY DEF ExplainAgrees
<1>0. analysis # Nothing
  <2> SUFFICES ASSUME analysis = Nothing PROVE FALSE
    OBVIOUS
  <2>1. analysis.outcome = "none"
    BY DEF Nothing
  <2> QED BY <2>1
<1>1. PICK options \in Options : AnalysedBy(options)
  BY <1>0 DEF IInv, AnalysisKnown
<1>2. foretold.options = options
  BY <1>1, AnsweredOptions
<1>3. CASE foretold.outcome = "config error"
  <2>1. ConfigError(disk, options) # "none"
    BY <1>2, <1>3 DEF ExplainKnown
  <2>2. analysis = [outcome |-> "config error", options |-> options, error |-> ConfigError(disk, options)]
    BY <1>1, <2>1 DEF AnalysedBy
  <2>3. analysis.outcome = "config error"
    BY <2>2
  <2> QED BY <1>3, <2>3
<1>4. CASE foretold.outcome = "explained"
  <2> DEFINE config == Config(disk, options)
             included == IncludedOf(config)
             groups == Groups(disk.files, config, disk.git)
  <2>1. ConfigError(disk, options) = "none" /\ foretold.analysed = Count(groups, {"analysed"})
    BY <1>2, <1>4 DEF ExplainKnown
  <2>2. PICK changed, requests, answered :
          analysis = Run(options, config, included, changed, requests, answered)
    BY <1>1, <2>1 DEF AnalysedBy
  <2>3. CASE Raises(disk.files, included)
    <3>1. analysis = [outcome |-> "internal error", options |-> options]
      BY <2>2, <2>3 DEF Run
    <3>2. analysis.outcome = "internal error"
      BY <3>1
    <3> QED BY <1>4, <3>2
  <2>4. CASE ~Raises(disk.files, included) /\ Stops(config, requests, answered)
    <3>1. analysis.outcome = "config error" /\ analysis.error = "semantics"
      BY <2>2, <2>4, RunOutcomes
    <3> QED BY <1>4, <3>1
  <2>5. CASE ~Raises(disk.files, included) /\ ~Stops(config, requests, answered)
    <3>1. analysis.outcome = "done" /\ analysis.selected = Selected(disk.files, included)
      BY <2>2, <2>5, RunOutcomes
    <3>2. {site \in DOMAIN groups : groups[site] \in {"analysed"}} = Selected(disk.files, included)
      BY <2>1, <2>5, SameFiles DEF IInv, IncludedOf
    <3>3. foretold.analysed = Cardinality(Selected(disk.files, included))
      BY <2>1, <3>2 DEF Count
    <3> QED BY <1>4, <3>1, <3>3
  <2> QED BY <2>3, <2>4, <2>5
<1> QED BY <1>3, <1>4

(* When no path spells a glob of a pattern, --explain-files counts the      *)
(* files that analyze, with the same options, analyses, and fails on the    *)
(* same configurations: whatever the sites, patterns, layers and options    *)
(* are, the compiled matcher and the walk pattern by pattern agree          *)
(* (select_files, explain_file_selection).                                  *)
THEOREM ExplanationsAgree ==
  ASSUME GlobsNotSpelled
  PROVE  Spec => []ExplainAgrees
<1>1. IInv /\ ExplainKnown => ExplainAgrees
  BY ExplainHolds
<1> QED BY <1>1, Invariance, ExplainInit, ExplainStep, PTL DEF Spec

-----------------------------------------------------------------------------
(* What is skipped.                                                         *)

(* A pattern whose texts take __dir__ only for any name, and that matches    *)
(* the probe of a directory, matches any name in it.                         *)
LEMMA ProbeMatchesName ==
  ASSUME NEW p \in Patterns, NEW parent \in Seq(Texts), NEW name \in Texts,
         \A i \in DOMAIN p : "__dir__" \in Accepts[p[i]] => name \in Accepts[p[i]],
         MatchesCompiled(Append(parent, "__dir__"), p)
  PROVE  MatchesGlob(Append(parent, name), p)
<1>. DEFINE n == Len(parent) + 1
            probe == Append(parent, "__dir__")
            path == Append(parent, name)
<1>1. Len(p) \in Nat \ {0} /\ p \in Seq(Texts) /\ DOMAIN p = 1..Len(p)
  BY DEF Patterns
<1>2. /\ probe \in Seq(Texts) /\ Len(probe) = n /\ probe[n] = "__dir__"
      /\ path \in Seq(Texts) /\ Len(path) = n /\ path[n] = name
      /\ \A i \in 1..Len(parent) : probe[i] = parent[i] /\ path[i] = parent[i]
      /\ n \in Nat \ {0}
  BY TextsAssumption
<1>3. Name(probe) = "__dir__" /\ Name(path) = name
  BY <1>2 DEF Name, Last
<1>4. CASE name = "__dir__"
  BY <1>2, <1>4, CompiledIsGlob
<1>5. CASE name # "__dir__"
  <2>1. ASSUME NEW i \in DOMAIN p, p[i] = "__dir__" PROVE p[i] \in Globs
    <3>. SUFFICES ASSUME p[i] \notin Globs PROVE FALSE
      OBVIOUS
    <3>1. p[i] \in Texts
      BY <1>1
    <3>2. Accepts[p[i]] = {p[i]}
      BY <3>1, TextsAssumption
    <3>. QED BY <2>1, <3>2, <1>5
  <2>2. ASSUME Literal(p) PROVE \A i \in DOMAIN p : p[i] # "__dir__"
    BY <2>1, <2>2 DEF Literal
  <2>. HIDE DEF path, probe
  <2>3. CASE p = All
    BY <2>3 DEF MatchesGlob
  <2>4. ~(Plain(p) /\ (probe = p \/ Name(probe) = Name(p)))
    <3>. SUFFICES ASSUME Plain(p), probe = p \/ Name(probe) = Name(p) PROVE FALSE
      OBVIOUS
    <3>1. p[Len(p)] = "__dir__" /\ Len(p) \in DOMAIN p
      BY <1>1, <1>2, <1>3 DEF Name, Last
    <3>. QED BY <3>1, <2>2 DEF Plain
  <2>5. ~(NameAnywhere(p) /\ Name(probe) = Name(p))
    <3>. SUFFICES ASSUME NameAnywhere(p), Name(probe) = Name(p) PROVE FALSE
      OBVIOUS
    <3>1. p[2] = "__dir__" /\ p[2] \notin Globs /\ 2 \in DOMAIN p
      <4>1. Len(p) = 2 /\ Name(p) = p[2] /\ p[2] \in Texts \ Globs
        BY <1>1, NameAnywhereText
      <4>2. 2 \in DOMAIN p
        BY <1>1, <4>1
      <4>. QED BY <1>3, <4>1, <4>2
    <3>. QED BY <3>1, <2>1
  <2>6. CASE Directory(p) /\ Below(probe, Front(p))
    <3>1. Tree(p) /\ Literal(Front(p)) /\ Len(p) > 1
      BY <2>6 DEF Directory, Tree
    <3>. DEFINE front == Front(p)
    <3>2. front \in Seq(Texts) /\ Len(front) = Len(p) - 1 /\ \A i \in 1..Len(front) : front[i] = p[i]
      BY <1>1, <3>1 DEF Front
    <3>. HIDE DEF front
    <3>3. Len(front) <= n /\ \A i \in 1..Len(front) : probe[i] = front[i]
      BY <2>6, <1>2, <3>2, BelowMeans DEF front
    <3>4. ASSUME NEW i \in 1..Len(front) PROVE path[i] = front[i]
      <4>1. CASE i = n
        <5>1. front[i] = "__dir__" /\ front[i] \notin Globs /\ i \in DOMAIN p
          BY <1>1, <1>2, <3>1, <3>2, <3>3, <4>1 DEF Literal, front
        <5>2. p[i] = "__dir__" /\ p[i] \notin Globs
          BY <3>2, <5>1
        <5>. QED BY <5>1, <5>2, <2>1
      <4>2. CASE i # n
        <5>1. i \in 1..Len(parent)
          BY <1>2, <3>2, <3>3, <4>2
        <5>. QED BY <5>1, <1>2, <3>3
      <4>. QED BY <4>1, <4>2
    <3>5. Below(path, front)
      <4>1. Len(front) <= Len(path)
        BY <1>2, <3>3
      <4>. QED BY <1>2, <3>2, <3>4, <4>1, BelowMeans, Zenon
    <3>. QED BY <3>1, <3>5 DEF MatchesGlob, front, path
  <2>7. CASE Anywhere(p) /\ FnMatchName(Name(probe), Tail(p))
    <3>1. Len(p) > 1 /\ Len(Tail(p)) = 1 /\ "__dir__" \in Accepts[Tail(p)[1]]
      BY <2>7, <1>3 DEF Anywhere, FnMatchName
    <3>2. Len(p) = 2
      <4>1. Len(Tail(p)) = Len(p) - 1
        BY <1>1, <3>1
      <4>2. \A l \in Nat : l - 1 = 1 => l = 2
        OBVIOUS
      <4>. QED BY <1>1, <3>1, <4>1, <4>2
    <3>3. Tail(p)[1] = p[2] /\ 2 \in DOMAIN p
      BY <1>1, <3>2, TailOfTwo
    <3>4. FnMatchName(Name(path), Tail(p))
      <4>1. name \in Accepts[Tail(p)[1]]
        BY <3>1, <3>3
      <4>. QED BY <1>3, <3>1, <4>1, Zenon DEF FnMatchName
    <3>. QED BY <2>7, <3>4 DEF MatchesGlob, path
  <2>8. CASE FnMatchName(Name(probe), p)
    <3>1. Len(p) = 1 /\ "__dir__" \in Accepts[p[1]] /\ 1 \in DOMAIN p
      <4>1. Len(p) = 1 /\ "__dir__" \in Accepts[p[1]]
        BY <2>8, <1>3 DEF FnMatchName
      <4>2. \A l : l = 1 => 1 \in 1..l
        OBVIOUS
      <4>. QED BY <1>1, <4>1, <4>2, Zenon
    <3>. QED BY <1>3, <3>1 DEF MatchesGlob, FnMatchName, path
  <2>9. CASE FnMatch(probe, p)
    <3>1. PICK stop \in [1..Len(p) -> 1..n] : stop[Len(p)] = n /\ Stopping(probe, p, stop)
      BY <2>9, <1>2, FnMatchStops
    <3>2. ASSUME NEW i \in 1..Len(p) PROVE path[stop[i]] \in Accepts[p[i]]
      <4>1. probe[stop[i]] \in Accepts[p[i]] /\ stop[i] \in 1..n
        BY <3>1 DEF Stopping
      <4>2. CASE stop[i] = n
        BY <1>1, <1>2, <4>1, <4>2
      <4>3. CASE stop[i] # n
        <5>1. stop[i] \in 1..Len(parent)
          BY <1>2, <4>1, <4>3
        <5>. QED BY <1>2, <4>1, <5>1
      <4>. QED BY <4>2, <4>3
    <3>3. Stopping(path, p, stop)
      BY <3>1, <3>2 DEF Stopping
    <3>4. FnMatch(path, p)
      <4>1. stop \in [1..Len(p) -> 1..Len(path)] /\ stop[Len(p)] = Len(path)
        BY <3>1, <1>2
      <4>. QED BY <3>3, <4>1, Zenon DEF FnMatch, Stopping
    <3>. QED BY <3>4 DEF MatchesGlob, path
  <2>. QED BY <2>3, <2>4, <2>5, <2>6, <2>7, <2>8, <2>9 DEF MatchesCompiled, path, probe
<1>. QED BY <1>4, <1>5

(* The next directory, or the file itself, is one of the prefixes.          *)
LEMMA NextBelow ==
  ASSUME NEW path \in Seq(Texts) \ {<<>>}, NEW parent \in Parents(path)
  PROVE  /\ parent \in Prefixes(path) \ {<<>>} /\ path \in Prefixes(path) \ {<<>>}
         /\ Below(path, parent)
         /\ \E i \in DOMAIN path : Append(parent, path[i]) \in Prefixes(path) \ {<<>>}
<1>1. PICK l \in 0..Len(path) : parent = SubSeq(path, 1, l)
  BY DEF Parents, Prefixes
<1>2. Len(path) \in Nat /\ path = SubSeq(path, 1, Len(path)) /\ Len(path) \in 0..Len(path)
  OBVIOUS
<1>3. l # Len(path) /\ parent # <<>> /\ parent # path
  BY <1>1, <1>2 DEF Parents
<1>4. l + 1 \in 1..Len(path) /\ l + 1 \in 0..Len(path) /\ l \in Nat
  <2>1. \A n \in Nat : \A k \in 0..n : k # n => k + 1 \in 1..n /\ k + 1 \in 0..n /\ k \in Nat
    OBVIOUS
  <2>. QED BY <1>1, <1>2, <1>3, <2>1, Zenon
<1>5. parent \in Seq(Texts) /\ Len(parent) = l /\ \A i \in 1..l : parent[i] = path[i]
  <2>. DEFINE start == SubSeq(path, 1, l)
  <2>1. start \in Seq(Texts) /\ Len(start) = l /\ \A i \in 1..l : start[i] = path[i]
    BY <1>2, <1>4
  <2>. QED BY <1>1, <2>1, Zenon
<1>6. Append(parent, path[l + 1]) = SubSeq(path, 1, l + 1)
  <2>. DEFINE longer == SubSeq(path, 1, l + 1)
              added == Append(parent, path[l + 1])
  <2>1. longer \in Seq(Texts) /\ Len(longer) = l + 1 /\ \A i \in 1..(l + 1) : longer[i] = path[i]
    BY <1>4
  <2>2. added \in Seq(Texts) /\ Len(added) = l + 1 /\ added[l + 1] = path[l + 1]
        /\ \A i \in 1..l : added[i] = path[i]
    BY <1>4, <1>5
  <2>. HIDE DEF longer, added
  <2>3. \A i \in 1..(l + 1) : longer[i] = added[i]
    BY <1>4, <2>1, <2>2
  <2>4. longer = added
    BY <2>1, <2>2, <2>3
  <2>. QED BY <2>4 DEF longer, added
<1>7. Append(parent, path[l + 1]) # <<>>
  <2>1. Len(Append(parent, path[l + 1])) = l + 1 /\ Len(<<>>) = 0
    BY <1>4, <1>5
  <2>2. l + 1 # 0
    BY <1>4
  <2>. QED BY <2>1, <2>2, Zenon
<1>8. Below(path, parent)
  BY <1>4, <1>5, BelowMeans
<1>9. Append(parent, path[l + 1]) \in Prefixes(path) \ {<<>>}
  BY <1>4, <1>6, <1>7 DEF Prefixes
<1>10. path \in Prefixes(path) \ {<<>>}
  BY <1>2 DEF Prefixes
<1>. QED BY <1>3, <1>4, <1>8, <1>9, <1>10 DEF Parents

(* Below is transitive.                                                     *)
LEMMA FurtherBelow ==
  ASSUME NEW path \in Seq(Texts), NEW parent \in Seq(Texts), NEW directory, Below(parent, directory), Below(path, parent)
  PROVE  Below(path, directory)
<1>1. Len(parent) \in Nat /\ Len(path) \in Nat /\ Len(directory) \in Nat
  OBVIOUS
<1>. QED BY <1>1 DEF Below, IsPrefix

(* A directory that the walk leaves out is left out for a reason that its   *)
(* files have, too.                                                         *)
LEMMA PrunedIsMatched ==
  ASSUME ProbeIsAnyName, NEW site \in Sites, NEW root \in Seq(Texts), Below(site, root), site # root,
         NEW patterns \in SUBSET InUse, NEW git,
         NEW parent \in Parents(Relative(site, root)), ExcludedDir(Matcher(patterns), git, parent)
  PROVE  \/ \E up \in Prefixes(Relative(site, root)) \ {<<>>} : MatchesAny(up, patterns)
         \/ GitIgnored(git, Relative(site, root), TRUE)
<1>. DEFINE path == Relative(site, root)
<1>1. path \in Seq(Texts) \ {<<>>} /\ \A up \in Prefixes(path) \ {<<>>} : up \in Seq(Texts) \ {<<>>}
  BY PathsInUse
<1>2. \A i \in DOMAIN path : \E j \in DOMAIN site : path[i] = site[j]
  <2>1. site \in Seq(Texts) /\ Len(site) \in Nat /\ Len(root) \in Nat
    BY SitesAssumption
  <2>. QED BY <2>1 DEF Relative
<1>. HIDE DEF path
<1>3. parent \in Parents(path)
  BY DEF path
<1>4. parent \in Seq(Texts) /\ Below(path, parent) /\ parent \in Prefixes(path) \ {<<>>}
  BY <1>1, <1>3, NextBelow
<1>5. InUse \subseteq Patterns
  BY InUsePatterns
<1>6. CASE GitIgnored(git, parent, FALSE)
  <2>1. PICK directory \in git.dirs : Below(parent, directory)
    BY <1>6 DEF GitIgnored
  <2>2. Below(path, directory)
    BY <1>1, <1>4, <2>1, FurtherBelow
  <2>. QED BY <2>1, <2>2 DEF GitIgnored, path
<1>7. CASE Matches(Matcher(patterns), parent)
  <2>1. PICK p \in patterns : MatchesCompiled(parent, p)
    BY <1>7, Compiled
  <2>2. MatchesGlob(parent, p)
    BY <1>4, <1>5, <2>1, CompiledIsGlob
  <2>. QED BY <1>4, <2>2 DEF MatchesAny, path
<1>8. CASE Matches(Matcher(patterns), Append(parent, "__dir__"))
  <2>1. PICK p \in patterns : MatchesCompiled(Append(parent, "__dir__"), p)
    BY <1>8, Compiled
  <2>2. PICK i \in DOMAIN path : Append(parent, path[i]) \in Prefixes(path) \ {<<>>}
    BY <1>1, <1>3, NextBelow
  <2>3. path[i] \in Texts
    BY <1>1, <2>2
  <2>4. \A k \in DOMAIN p : "__dir__" \in Accepts[p[k]] => path[i] \in Accepts[p[k]]
    <3>1. PICK j \in DOMAIN site : path[i] = site[j]
      BY <1>2, <2>2
    <3>. QED BY <3>1 DEF ProbeIsAnyName
  <2>5. MatchesGlob(Append(parent, path[i]), p)
    BY <1>4, <1>5, <2>1, <2>3, <2>4, ProbeMatchesName
  <2>. QED BY <2>2, <2>5 DEF MatchesAny, path
<1>. QED BY <1>6, <1>7, <1>8 DEF ExcludedDir, MatchesDir

(* A file that could be analysed and is not has one of the four reasons.    *)
LEMMA SkippedHolds ==
  ASSUME GlobsNotSpelled, ProbeIsAnyName, IInv
  PROVE  OnlyMatchedSkipped
<1>1. SUFFICES ASSUME analysis.outcome = "done",
                      NEW site \in (Present(disk.files, analysis.config.root) \cap Analysed) \ analysis.selected
               PROVE  LET path == Relative(site, analysis.config.root)
                          above == Prefixes(path) \ {<<>>}
                      IN \/ disk.files[site] \in {"outside", "binary"}
                         \/ \E up \in above : MatchesAny(up, BuiltinExcludes \cup analysis.config.exclude)
                         \/ GitIgnored(GitView(disk.git, analysis.config.root), path, TRUE)
                         \/ ~MatchesAny(path, analysis.config.include)
  BY DEF OnlyMatchedSkipped
<1>2. PICK options \in Options :
        /\ ConfigError(disk, options) = "none"
        /\ analysis.config = Config(disk, options)
        /\ analysis.selected = Selected(disk.files, IncludedOf(Config(disk, options)))
  BY <1>1, DoneIsRun
<1>. DEFINE config == Config(disk, options)
            root == config.root
            path == Relative(site, root)
            excludes == BuiltinExcludes \cup config.exclude
            git == GitView(disk.git, root)
            included == IncludedOf(config)
<1>3. excludes \in SUBSET InUse /\ config.include \in SUBSET InUse /\ root \in Seq(Texts)
  BY <1>2, SettingsInUse, InUsePatterns DEF IInv
<1>. HIDE DEF config
<1>4. /\ site \in Present(disk.files, root) /\ site \in Analysed /\ site \notin Selected(disk.files, included)
      /\ site \in Sites /\ Below(site, root) /\ site # root
  BY <1>1, <1>2 DEF Present, config
<1>5. path \in Seq(Texts) \ {<<>>} /\ path \in Prefixes(path) \ {<<>>}
  <2>1. path \in Seq(Texts) \ {<<>>}
    BY <1>3, <1>4, PathsInUse
  <2>2. path = SubSeq(path, 1, Len(path)) /\ Len(path) \in 0..Len(path)
    BY <2>1
  <2>. QED BY <2>1, <2>2 DEF Prefixes
<1>6. Matches(Matcher(excludes), path) => MatchesAny(path, excludes)
  BY <1>3, <1>4, SameQuestions
<1>7. MatchesAny(path, config.include) => Matches(Matcher(config.include), path)
  BY <1>3, <1>4, SameQuestions
<1>8. ASSUME NEW parent \in Parents(path), ExcludedDir(Matcher(excludes), git, parent)
      PROVE  \/ \E up \in Prefixes(path) \ {<<>>} : MatchesAny(up, excludes)
             \/ GitIgnored(git, path, TRUE)
  BY <1>3, <1>4, <1>8, PrunedIsMatched
<1>. HIDE DEF path, excludes, git
<1>9. site \notin included \/ disk.files[site] = "binary"
  BY <1>4 DEF Selected, Records
<1>10. site \notin included =>
         \/ \E parent \in Parents(path) : ExcludedDir(Matcher(excludes), git, parent)
         \/ disk.files[site] = "outside"
         \/ Matches(Matcher(excludes), path) \/ GitIgnored(git, path, TRUE)
         \/ ~Matches(Matcher(config.include), path)
  BY <1>4 DEF IncludedOf, Included, Walked, path, excludes, git
<1>11. \/ disk.files[site] \in {"outside", "binary"}
       \/ \E up \in Prefixes(path) \ {<<>>} : MatchesAny(up, excludes)
       \/ GitIgnored(git, path, TRUE)
       \/ ~MatchesAny(path, config.include)
  BY <1>5, <1>6, <1>7, <1>8, <1>9, <1>10
<1>. QED BY <1>2, <1>11 DEF config, path, excludes, git

(* When no path spells a glob of a pattern, and no pattern picks out the    *)
(* name __dir__, a file of an analysis language is skipped only because it  *)
(* or a directory that it is in matches an exclude or is ignored by Git, or *)
(* because no include matches it: pruning whole directories loses no file   *)
(* (select_files, GlobMatcher.matches_dir).                                 *)
THEOREM SkippedForCause ==
  ASSUME GlobsNotSpelled, ProbeIsAnyName
  PROVE  Spec => []OnlyMatchedSkipped
<1>1. IInv => OnlyMatchedSkipped
  BY SkippedHolds
<1> QED BY <1>1, Invariance, PTL
=============================================================================
