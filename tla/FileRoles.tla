----------------------------- MODULE FileRoles -----------------------------
(***************************************************************************)
(* What the path of a file says: its role, which the scan decides once,    *)
(* whether the abstraction risks take it for a test, its architectural     *)
(* layer, and whether it looks asynchronous.                               *)
(*                                                                         *)
(* Source: analysis/repository/classification.py, the tests_matcher.py of  *)
(* the language adapters, analysis/relations/risks.py and                  *)
(* analysis/semantic_roles.py.                                             *)
(*                                                                         *)
(* A name is the sequence of its words, in lower case, and of the          *)
(* characters that join them; a path is the names of its directories, the  *)
(* name of its file without the suffix, and the suffix.                    *)
(***************************************************************************)
EXTENDS Naturals, SequencesExt

CONSTANTS
  PytestPaths,  \* testpaths of the pytest configuration, each a sequence of names
  PytestWords   \* for each pattern w_*.py of its python_files, the word w

Word(word) == [words |-> <<word>>, joints |-> <<>>]
Joined(first, joint, second) == [words |-> <<first, second>>, joints |-> <<joint>>]
PathOf(directories, name, suffix) ==
  [directories |-> directories, name |-> name, suffix |-> suffix]

Begins(name, word, joint) ==
  Len(name.words) > 1 /\ name.words[1] = word /\ name.joints[1] = joint
Ends(name, joint, word) ==
  Len(name.words) > 1 /\ Last(name.words) = word /\ Last(name.joints) = joint
Under(path, markers) == ToSet(path.directories) \cap markers # {}
WordsOfPath(path) == UNION {ToSet(n.words) : n \in ToSet(path.directories) \cup {path.name}}

-----------------------------------------------------------------------------
(* Conventions for test files.                                              *)

(* fnmatch reads a pattern w_*.py against the whole path too.               *)
MatchesPrefix(path, word) ==
  Begins(path.name, word, "_") \/ (path.directories # <<>> /\ Begins(path.directories[1], word, "_"))

PythonTestPath(path) ==
  /\ path.suffix = "py"
  /\ \/ \E root \in {<<Word("test")>>, <<Word("tests")>>} \cup PytestPaths :
          IsPrefix(root, path.directories)
     \/ \E word \in {"test"} \cup PytestWords : MatchesPrefix(path, word)
     \/ Ends(path.name, "_", "test") \/ Ends(path.name, "_", "tests")
     \/ path.name \in {Word("tests"), Word("conftest")}

EcmascriptTestPath(path) ==
  /\ path.suffix \in {"js", "jsx", "mjs", "cjs", "ts", "tsx", "mts", "cts"}
  /\ \/ \E joint \in {".", "-"}, word \in {"test", "spec"} : Ends(path.name, joint, word)
     \/ Under(path, {Word("spec"), Word("specs")})

(* The words before the first dot are the stem.                             *)
SharedTestName(name) ==
  LET dots == {i \in DOMAIN name.joints : name.joints[i] = "."}
      length == IF dots = {} THEN Len(name.words) ELSE CHOOSE i \in dots : \A j \in dots : i <= j
      stem == [words |-> SubSeq(name.words, 1, length), joints |-> SubSeq(name.joints, 1, length - 1)]
  IN  \/ Begins(stem, "test", "_") \/ Ends(stem, "_", "test") \/ Ends(stem, "_", "tests")
      \/ \E i \in dots : /\ name.words[i + 1] \in {"test", "spec"}
                         /\ i + 1 \in DOMAIN name.joints => i + 1 \in dots

-----------------------------------------------------------------------------
(* The role of a file.                                                      *)

TestMarkers ==
  {Word("test"), Word("tests"), Word("testing"), Word("__tests__"),
   Joined("integration", "-", "test"), Joined("integration", "-", "tests"),
   Joined("integration", "_", "test"), Joined("integration", "_", "tests")}
FixtureMarkers == {Word("fixture"), Word("fixtures"), Word("golden"), Word("snapshots")}
GeneratedMarkers == {Word("generated"), Word("gen")}
VendorMarkers ==
  {Word("vendor"), Joined("third", "_", "party"), Joined("third", "-", "party"),
   Joined("node", "_", "modules"), Joined("", ".", "yarn")}
BuildMarkers == {Word("dist"), Joined("", ".", "next"), Joined("", ".", "nuxt")}

(* conventions: the language whose conventions are asked, or "shared".      *)
LooksLikeTest(path, conventions) ==
  \/ Under(path, TestMarkers)
  \/ CASE conventions = "python" -> PythonTestPath(path)
       [] conventions = "ecmascript" -> EcmascriptTestPath(path)
       [] conventions = "shared" -> SharedTestName(path.name)

ClassifyPath(path, conventions) ==
  LET fixture == Under(path, FixtureMarkers)
      test == fixture \/ LooksLikeTest(path, conventions)
      checks == <<<<Under(path, VendorMarkers), "vendor">>,
                  <<Under(path, BuildMarkers), "build_output">>,
                  <<Under(path, GeneratedMarkers) \/ "generated" \in ToSet(path.name.words),
                    "generated">>,
                  <<fixture, "fixture">>, <<test, "test">>, <<TRUE, "source">>>>
  IN  [role |-> SelectSeq(checks, LAMBDA check : check[1])[1][2], is_test |-> test]

ScanRole(path, language) == ClassifyPath(path, language).role

(* The risks do not know the conventions of the language.                   *)
IsTestMember(path, role) ==
  role \in {"test", "tests", "unit_test", "integration_test"} \/ ClassifyPath(path, "shared").is_test

-----------------------------------------------------------------------------
(* Layers and asynchronous paths.                                           *)

LayerPrefix(parts, fallback) == IF Len(parts) < 2 THEN <<fallback>> ELSE SubSeq(parts, 1, 2)
LayerPath(path) ==
  LET parts == Append(path.directories, [path.name EXCEPT !.words = Append(@, path.suffix)])
      root == parts[1]
  IN  IF root \in {Word("test"), Word("tests")} THEN <<Word("tests")>>
      ELSE IF root \in {Word("src"), Word("lib"), Word("source")} THEN LayerPrefix(Tail(parts), root)
      ELSE LayerPrefix(parts, root)

(* asyncpg stands for the other words that begin with async.                *)
AsyncWords == {"async", "asyncio", "asynchronous", "asyncpg"}
AsyncPath(path) == WordsOfPath(path) \cap AsyncWords # {}

=============================================================================
