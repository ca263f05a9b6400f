----------------------- MODULE MCRepositorySelection -----------------------
(* A repository with a source directory, a generated one inside it, a route  *)
(* directory whose name is in brackets, fixtures, a file in a language       *)
(* without an adapter, and a link.                                           *)
EXTENDS RepositorySelection

MCTexts ==
  {"**", "*", "*.py", "__*", "[id]", "__dir__", "src", "gen", "fixtures", "node_modules", ".codeseam",
   "a.py", "b.ts", "p.ts", "f.py", "l.py", "c.go"}
MCGlobs == {"**", "*", "*.py", "__*", "[id]"}
MCSpanning == {"**", "*", "*.py"}
MCAccepts ==
  [text \in MCTexts |->
     CASE text \in {"**", "*"} -> MCTexts
       [] text = "*.py" -> {"*.py", "a.py", "f.py", "l.py"}
       [] text = "__*" -> {"__*", "__dir__"}
       [] text = "[id]" -> {}
       [] OTHER -> {text}]

A == <<"src", "a.py">>
B == <<"src", "gen", "b.ts">>
P == <<"src", "[id]", "p.ts">>
F == <<"fixtures", "f.py">>
L == <<"l.py">>
C == <<"c.go">>
MCSites == {A, B, P, F, L, C}
MCContents ==
  [site \in MCSites |->
     CASE site = A -> {"absent", "source", "syntax_errors", "unreadable"}
       [] site = B -> {"absent", "source", "binary", "unparsable"}
       [] site = L -> {"absent", "outside", "dangling"}
       [] site = P -> {"absent", "source", "empty"}
       [] OTHER -> {"absent", "source"}]
MCAnalysed == {A, B, P, F, L}
MCUnsupported == {C}
MCLayers ==
  [layer \in {"toml", "project", "env"} |->
     CASE layer = "toml" -> {Silent, [exclude |-> {<<"src", "gen", "**">>}], [include |-> {<<"*.py">>}],
                             [mode |-> "required", trust |-> TRUE], [exclude |-> Wrong]}
       [] layer = "project" -> {Silent, [exclude |-> {<<"**", "a.py">>}], [mode |-> "required"],
                                [root |-> Outside]}
       [] OTHER -> {Silent, [root |-> <<"src">>], [enabled |-> Wrong]}]
MCIgnores == {{}, {<<"gen", "**">>}, {<<"**", "gen">>}, {<<"src", "*">>}}
MCGitIgnores == {[dirs |-> {}, files |-> {}], [dirs |-> {<<"src", "gen">>}, files |-> {}],
                 [dirs |-> {}, files |-> {A}]}
MCOptions ==
  {NoOptions, [NoOptions EXCEPT !.exclude = {<<"p.ts">>}],
   [NoOptions EXCEPT !.include = {<<"src", "**">>}, !.mode = "auto"]}

(* Options that an instance with either of the conditions does not have.     *)
MCBracketOptions == {[NoOptions EXCEPT !.exclude = {<<"src", "[id]", "**">>}]}
MCDunderOptions == {[NoOptions EXCEPT !.exclude = {<<"**", "__*">>}]}

(* What the proofs about the two matchers take for granted.                  *)
ASSUME MatchersAssumption == GlobsNotSpelled /\ ProbeIsAnyName
=============================================================================
