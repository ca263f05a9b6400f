--------------------------- MODULE Configuration ---------------------------
(***************************************************************************)
(* The globs of selection.include, selection.exclude and .codeseamignore:  *)
(* the compiled matcher that selects the files of a run, and the           *)
(* one-pattern matcher that explains a selection. And the settings of a    *)
(* command, which hold them: defaults, the two configuration files,        *)
(* .codeseamignore, the environment and the command line, each checked     *)
(* before it is merged over the ones before it.                            *)
(*                                                                         *)
(* Source: platform/files.py, config.py, platform/dicts.py,                *)
(* cli/commands/analyze.py. A path is the sequence of its names and a      *)
(* pattern the sequence of the texts between its slashes. The check of     *)
(* the storage roots at the end of config.py is part of StorageRoots.      *)
(***************************************************************************)
EXTENDS Naturals, SequencesExt

(* Globs.                                                                    *)

CONSTANTS
  Texts,     \* texts in use in patterns
  Globs,     \* those with a character of GLOB_CHARS
  Spanning,  \* those that begin with *: in a path, fnmatch lets them take
             \* whole directories before the name they end in
  Accepts    \* Accepts[text]: the names that fnmatch accepts for it

ASSUME TextsAssumption ==
  /\ {"**", "*", "__dir__"} \subseteq Texts /\ {"**", "*"} \subseteq Spanning
  /\ Spanning \subseteq Globs /\ Globs \subseteq Texts
  /\ DOMAIN Accepts = Texts
  /\ \A text \in Texts \ Globs : Accepts[text] = {text}

Patterns == Seq(Texts) \ {<<>>}
All == <<"**", "*">>
Name(path) == Last(path)
Literal(pattern) == \A i \in DOMAIN pattern : pattern[i] \notin Globs
Below(path, prefix) == IsPrefix(prefix, path)

(* fnmatch on a whole path: * also matches slashes. stop[i] is the place in  *)
(* the path where the i-th text of the pattern ends.                         *)
FnMatch(path, pattern) ==
  \E stop \in [1..Len(pattern) -> 1..Len(path)] :
    /\ stop[Len(pattern)] = Len(path)
    /\ \A i \in 1..Len(pattern) :
         LET start == IF i = 1 THEN 0 ELSE stop[i - 1] IN
         /\ IF pattern[i] \in Spanning THEN stop[i] > start ELSE stop[i] = start + 1
         /\ path[stop[i]] \in Accepts[pattern[i]]
FnMatchName(name, pattern) == Len(pattern) = 1 /\ name \in Accepts[pattern[1]]

Anywhere(pattern) == Len(pattern) > 1 /\ pattern[1] = "**"
Tree(pattern) == Len(pattern) > 1 /\ pattern[Len(pattern)] = "**"

(* matches_glob: one pattern, read again for every path. The directory in    *)
(* front of a final /** is compared as it is written.                        *)
MatchesGlob(path, pattern) ==
  \/ pattern = All
  \/ Anywhere(pattern) /\ FnMatchName(Name(path), Tail(pattern))
  \/ Tree(pattern) /\ Below(path, Front(pattern))
  \/ FnMatch(path, pattern)
  \/ FnMatchName(Name(path), pattern)
MatchesAny(path, patterns) == \E pattern \in patterns : MatchesGlob(path, pattern)

(* GlobMatcher.from_patterns: each pattern falls in one class.               *)
NameAnywhere(pattern) == Anywhere(pattern) /\ Len(pattern) = 2 /\ Literal(Tail(pattern))
Directory(pattern) == ~Anywhere(pattern) /\ Tree(pattern) /\ Literal(Front(pattern))
Plain(pattern) == ~Anywhere(pattern) /\ ~Directory(pattern) /\ Literal(pattern)
Open(pattern) == pattern # All /\ ~NameAnywhere(pattern) /\ ~Directory(pattern) /\ ~Plain(pattern)
Matcher(patterns) ==
  [match_all |-> All \in patterns,
   exact |-> {p \in patterns : Plain(p)},
   dir_prefixes |-> {Front(p) : p \in {q \in patterns : Directory(q)}},
   basename_exact |-> {Name(p) : p \in {q \in patterns \ {All} : NameAnywhere(q) \/ (Plain(q) /\ Len(q) = 1)}},
   basename_patterns |-> {Tail(p) : p \in {q \in patterns : Open(q) /\ Anywhere(q)}}
                           \cup {p \in patterns : Open(p) /\ ~Anywhere(p) /\ Len(p) = 1},
   path_patterns |-> {p \in patterns : Open(p)}]

Matches(matcher, path) ==
  \/ matcher.match_all
  \/ path \in matcher.exact
  \/ Name(path) \in matcher.basename_exact
  \/ \E prefix \in matcher.dir_prefixes : Below(path, prefix)
  \/ \E pattern \in matcher.basename_patterns : FnMatchName(Name(path), pattern)
  \/ \E pattern \in matcher.path_patterns : FnMatch(path, pattern)
MatchesDir(matcher, path) == Matches(matcher, path) \/ Matches(matcher, Append(path, "__dir__"))

(* Settings.                                                                 *)

CONSTANTS
  Wrong,    \* a value that a setting does not accept
  Outside,  \* a project.repo_root outside of the repository
  None      \* an option that is not given

ASSUME ValuesAssumption == Outside # Wrong

Keys == {"include", "exclude", "mode", "trust", "root", "enabled"}
Defaults ==
  [include |-> {All}, exclude |-> {}, mode |-> "off", trust |-> FALSE, root |-> <<>>, enabled |-> TRUE]
BuiltinExcludes ==
  {<<".codeseam", "**">>, <<"node_modules", "**">>, <<"fixtures", "**">>, <<"**", "fixtures", "**">>}

(* A layer is a function over the settings it has.                           *)
Checked(layer) == \A key \in DOMAIN layer : layer[key] # Wrong
Merge(settings, layer) ==
  [key \in Keys |-> IF key \in DOMAIN layer THEN layer[key] ELSE settings[key]]
WithIgnored(settings, ignored) == [settings EXCEPT !.exclude = @ \cup ignored]

MergedIgnoreFirst(disk, cli) ==
  Merge(Merge(Merge(WithIgnored(Merge(Defaults, disk.toml), disk.ignore), disk.project), disk.env), cli)
Merged(disk, cli) ==
  Merge(Merge(WithIgnored(Merge(Merge(Defaults, disk.toml), disk.project), disk.ignore), disk.env), cli)

(* load_config: what it raises, first of all the layer that is wrong.        *)
LayerError(disk, cli) ==
  LET layers == <<disk.toml, disk.project, disk.env, cli>>
      sources == <<"codeseam.toml", ".codeseam/codeseam.toml", "environment", "cli">>
      wrong == {i \in DOMAIN layers : ~Checked(layers[i])}
  IN IF wrong = {} THEN "none" ELSE sources[CHOOSE i \in wrong : \A j \in wrong : i <= j]
LoadError(disk, cli) ==
  IF LayerError(disk, cli) # "none" THEN LayerError(disk, cli)
  ELSE IF Merged(disk, cli).root = Outside THEN "project.repo_root"
  ELSE IF Merged(disk, cli).mode = "required" /\ ~Merged(disk, cli).trust THEN "semantics.mode"
  ELSE "none"

(* _config_from_args: the options of the command line as a layer. --exclude   *)
(* adds to the excludes of a configuration that is loaded for it first.      *)
Overrides(options) ==
  [key \in {k \in {"include", "mode"} :
             IF k = "include" THEN options.include # {} ELSE options.mode # None} |-> options[key]]
WithExcludes(disk, options) ==
  LET overrides == Overrides(options) IN
  IF options.exclude = {} THEN overrides
  ELSE [key \in (DOMAIN overrides) \cup {"exclude"} |->
          IF key = "exclude" THEN Merged(disk, overrides).exclude \cup options.exclude
          ELSE overrides[key]]
ConfigError(disk, options) ==
  IF options.exclude # {} /\ LoadError(disk, Overrides(options)) # "none"
  THEN LoadError(disk, Overrides(options))
  ELSE LoadError(disk, WithExcludes(disk, options))
Config(disk, options) == Merged(disk, WithExcludes(disk, options))
=============================================================================
