----------------------------- MODULE MCFindings -----------------------------
(* Four functions, the default settings, and layouts that put the same code  *)
(* into helpers, methods, tests, protocols, interfaces, components and two   *)
(* languages.                                                                *)
EXTENDS Findings, DefaultPolicies

MCMember == 1..4

MCAsked == {1, 2}

MCRuns == [setup |-> [lines |-> 9, statements |-> 4]]

Read(root, attributes) ==
  [is |-> "read", root |-> root, attributes |-> attributes, index |-> {}]
Call(callee, arguments) == [is |-> "call", callee |-> callee, arguments |-> arguments]
Form(statements) ==
  [statements |-> statements, elements |-> FALSE, hook |-> FALSE, keys |-> FALSE,
   registers |-> FALSE]

(* Several statements; return CACHE[key]; a call of another object; ...; a    *)
(* view with elements and a hook; a table with keys.                          *)
Steps == [i \in 1..5 |-> [is |-> "if"]]
Several == Form(Steps)
Lookup ==
  Form(<<[is |-> "return", value |-> [Read("CACHE", <<>>) EXCEPT !.index = {Read("key", <<>>)}]]>>)
Forward ==
  Form(<<[is |-> "return",
          value |-> [is |-> "await",
                     of |-> Call(Read("self", <<"client", "fetch">>), {Read("key", <<>>)})]]>>)
Stub == Form(<<[is |-> "expression", value |-> [is |-> "constant", what |-> "ellipsis"]]>>)
View == [Several EXCEPT !.elements = TRUE, !.hook = TRUE]
Keyed == [Several EXCEPT !.keys = TRUE]

(* load; load with other literals; a longer function with the same setup and *)
(* another tail, closer to variant, and a block it repeats; one statement.   *)
MCBodies ==
  [load |-> [lines |-> 14, local |-> <<>>], variant |-> [lines |-> 14, local |-> <<>>],
   longer |-> [lines |-> 30, local |-> <<[kind |-> "guard", lines |-> 6, statements |-> 3,
                                          parts |-> {"guard1", "guard2"}]>>],
   small |-> [lines |-> 2, local |-> <<>>]]

Same(refactorability, stable) ==
  [kind |-> "body_parameterized", clone_type |-> "type_2_parameterized", hash |-> TRUE,
   basis |-> {"same_signature_shape", "normalized_body_identity", "anti_unification_template"},
   tree |-> 10000, relatedness |-> 9800, refactorability |-> refactorability, cost |-> 500,
   risk |-> 0, confidence |-> 9800, stable |-> stable, holes |-> 0, hole_size |-> 0,
   deltas |-> {}, runs |-> {}]

Skeleton ==
  [kind |-> "same_skeleton_different_literals", clone_type |-> "type_2_parameterized",
   hash |-> FALSE,
   basis |-> {"same_signature_shape", "body_structure_similarity", "anti_unification_template"},
   tree |-> 10000, relatedness |-> 9300, refactorability |-> 8000, cost |-> 1500, risk |-> 400,
   confidence |-> 9114, stable |-> 5, holes |-> 2, hole_size |-> 1,
   deltas |-> {"LITERAL_VALUE_DELTA"}, runs |-> {}]

NearMiss ==
  [kind |-> "common_prefix_divergent_tail", clone_type |-> "type_3_near_miss", hash |-> FALSE,
   basis |-> {"same_signature_shape", "statement_sequence_alignment"},
   tree |-> 8400, relatedness |-> 8200, refactorability |-> 6500, cost |-> 3000, risk |-> 2600,
   confidence |-> 7134, stable |-> 5, holes |-> 2, hole_size |-> 4,
   deltas |-> {"CONTROL_FLOW_DELTA"}, runs |-> {"setup"}]

Prefix ==
  [kind |-> "common_prefix_divergent_tail", clone_type |-> "type_3_near_miss", hash |-> FALSE,
   basis |-> {"same_signature_shape", "statement_sequence_alignment"},
   tree |-> 7200, relatedness |-> 6500, refactorability |-> 5500, cost |-> 4000, risk |-> 3200,
   confidence |-> 5460, stable |-> 4, holes |-> 3, hole_size |-> 6,
   deltas |-> {"CONTROL_FLOW_DELTA", "LOOP_DELTA"}, runs |-> {"setup"}]

Apart ==
  [kind |-> "none", clone_type |-> "signature_signal_only", hash |-> FALSE, basis |-> {},
   tree |-> 1000, relatedness |-> 2000, refactorability |-> 1000, cost |-> 5000, risk |-> 5000,
   confidence |-> 1500, stable |-> 0, holes |-> 4, hole_size |-> 9, deltas |-> {},
   runs |-> {}]

MCCompare ==
  [p \in (DOMAIN MCBodies) \X (DOMAIN MCBodies) |->
     IF p[1] = p[2] THEN (IF p[1] = "small" THEN Same(7000, 1) ELSE Same(9200, 5))
     ELSE IF "small" \in {p[1], p[2]} THEN Apart
     ELSE IF "longer" \in {p[1], p[2]}
     THEN (IF "variant" \in {p[1], p[2]} THEN NearMiss ELSE Prefix)
     ELSE Skeleton]

Answer == [resolved |-> TRUE, ownership_ambiguous |-> FALSE, declaration_only |-> FALSE,
           overload_group_id |-> "", call_targets |-> {}]

MCAnswers ==
  [unresolved |-> [Answer EXCEPT !.resolved = FALSE],
   here |-> [Answer EXCEPT !.call_targets = {[token |-> "open", identity |-> "local"]}],
   there |-> [Answer EXCEPT !.call_targets = {[token |-> "open", identity |-> "library"]}]]

File(directory, name) ==
  [path |-> PathOf(<<Word(directory)>>, name, "py"), family |-> "python"]
Script(directory, name, suffix) ==
  [path |-> PathOf(<<Word(directory)>>, name, suffix), family |-> "ecmascript"]
At(file, name) == [file |-> file, name |-> name]

Plainly(name) ==
  [name |-> name, public |-> TRUE, special |-> "none", decorators |-> {},
   syntax |-> "function_declaration", modifiers |-> {}, wording |-> "plain",
   returns |-> "plain", overload |-> FALSE]
PlainFunctions(at) == [m \in MCMember |-> Plainly(at[m].name)]

Shape(members, candidates) ==
  [members |-> members, candidates |-> candidates, kinds |-> {"signature_shape_cluster"},
   scope |-> "same_language", language_count |-> 1, adapter_count |-> 1,
   extraction |-> "high", risks |-> {}]

AllPairs == <<<<1, 2>>, <<1, 3>>, <<1, 4>>, <<2, 3>>, <<2, 4>>, <<3, 4>>>>

Item(is) == [is |-> is, simple |-> TRUE]

MCSymbols ==
  [RANK_ORDER |-> [policy |-> TRUE, normalized |-> "rank order"],
   ORDER_OF |-> [policy |-> TRUE, normalized |-> "order of"],
   RANKS |-> [policy |-> FALSE, normalized |-> "ranks"]]

(* A table; a version of it with one more entry; one entry of it; the same    *)
(* keys as a tuple; a table with a computed value.                            *)
MCLiterals ==
  [table |-> [kind |-> "Dict", items |-> <<Item("a:1"), Item("b:2")>>, lines |-> 8],
   longer |-> [kind |-> "Dict", items |-> <<Item("a:1"), Item("b:2"), Item("c:3")>>, lines |-> 8],
   single |-> [kind |-> "Dict", items |-> <<Item("a:1")>>, lines |-> 4],
   other |-> [kind |-> "Dict", items |-> <<Item("a:5"), Item("b:2"), Item("c:3")>>, lines |-> 8],
   keys |-> [kind |-> "Tuple", items |-> <<Item("a"), Item("b")>>, lines |-> 3],
   computed |-> [kind |-> "Dict", items |-> <<Item("a:1"), [is |-> "b:f", simple |-> FALSE]>>,
                 lines |-> 8]]

Ranks == Definition("RANK_ORDER", "table", TRUE)
MoreRanks == Definition("RANK_ORDER", "longer", TRUE)
NoConstants == [c \in {} |-> Ranks]

MCDefinitions ==
  {Ranks, MoreRanks, Definition("RANK_ORDER", "other", TRUE), Definition("ORDER_OF", "table", TRUE),
   Definition("RANK_ORDER", "computed", TRUE), Definition("RANKS", "table", TRUE)}

Helper ==
  [load |-> Several, variant |-> Several, longer |-> Form(Steps \o Steps), small |-> Lookup]

Layout(files, at, alike, clusters) ==
  [files |-> files, at |-> at, declared |-> PlainFunctions(at), alike |-> alike,
   clusters |-> clusters, constants |-> NoConstants, forms |-> [m \in MCMember |-> Helper],
   starts |-> DOMAIN Helper, edited |-> MCMember, redefined |-> {}]

(* Helpers of one package, two of them with one name; two copies of a table  *)
(* of settings.                                                              *)
Helpers ==
  [Layout([a |-> File("pkg", Word("a")), b |-> File("pkg", Word("b")),
           c |-> File("pkg", Word("c")), d |-> File("lib", Word("d"))],
          (1 :> At("a", "load")) @@ (2 :> At("b", "load")) @@ (3 :> At("c", "load_all"))
            @@ (4 :> At("d", "read")) @@ (5 :> At("a", "LIMITS")) @@ (6 :> At("b", "LIMITS")),
          {{1, 3}, {2, 3}},
          <<Shape({1, 2, 3, 4}, AllPairs)>>)
   EXCEPT !.constants = (5 :> Ranks) @@ (6 :> Ranks)]

(* Two functions of one name in one file; a signature cluster over several   *)
(* layers and a content cluster.                                             *)
Homonyms ==
  Layout([a |-> File("pkg", Word("a")), b |-> File("app", Word("b"))],
         (1 :> At("a", "parse")) @@ (2 :> At("b", "read")) @@ (3 :> At("b", "read"))
           @@ (4 :> At("b", "scan")),
         {},
         <<[Shape({1, 2, 3}, <<<<1, 2>>, <<1, 3>>, <<2, 3>>>>)
              EXCEPT !.risks = {"many_parameters", "vocabulary_mismatch", "layer_mismatch"}],
           [Shape({3, 4}, <<<<3, 4>>>>) EXCEPT !.kinds = {"content_similarity"}]>>)

(* Two helpers and two tests; one of them in a file of tests by its name.    *)
Tests ==
  Layout([a |-> File("pkg", Word("a")), t |-> File("tests", Word("t")),
          u |-> File("pkg", Joined("a", "_", "test"))],
         (1 :> At("a", "load")) @@ (2 :> At("a", "load_all")) @@ (3 :> At("t", "test_load"))
           @@ (4 :> At("u", "test_load_all")),
         {{1, 2}, {3, 4}},
         <<[Shape({1, 2, 3, 4}, AllPairs) EXCEPT !.risks = {"test_semantics_mismatch"}]>>)

(* Accessors of a protocol, and a function with its asynchronous mirror.      *)
Surfaces ==
  LET at == (1 :> At("a", "size")) @@ (2 :> At("c", "size"))
              @@ (3 :> At("a", "fetch")) @@ (4 :> At("b", "fetch"))
      accessor == [Plainly("size") EXCEPT !.decorators = {<<"functools", "cached_property">>}]
  IN  [Layout([a |-> File("pkg", Word("a")), b |-> File("asyncio", Word("b")),
               c |-> File("pkg", Word("c"))],
              at, {}, <<Shape({1, 2, 3, 4}, AllPairs)>>)
       EXCEPT !.declared = (1 :> accessor) @@ (2 :> accessor) @@ PlainFunctions(at)]

(* Three functions and one of another language with the same signature; less *)
(* certain extraction; another table of settings under each name.            *)
Languages ==
  [Layout([a |-> File("pkg", Word("a")), b |-> File("pkg", Word("b")),
           c |-> Script("web", Word("c"), "ts")],
          (1 :> At("a", "load")) @@ (2 :> At("a", "fetch")) @@ (3 :> At("b", "load"))
            @@ (4 :> At("c", "load")) @@ (5 :> At("a", "LIMITS")) @@ (6 :> At("b", "LIMITS")),
          {{1, 2}},
          <<[Shape({1, 2, 3}, <<<<1, 2>>, <<1, 3>>, <<2, 3>>>>) EXCEPT !.extraction = "low"],
            [Shape({1, 2, 3, 4}, <<>>) EXCEPT !.kinds = {}, !.scope = "cross_language",
               !.language_count = 2, !.adapter_count = 2, !.extraction = "low"]>>)
   EXCEPT !.constants = (5 :> Ranks) @@ (6 :> MoreRanks)]

(* An overload and its implementation, a method of a protocol in a package    *)
(* and in its example, any of which may be a stub or forward its call.        *)
Interfaces ==
  LET at == (1 :> At("a", "fetch")) @@ (2 :> At("a", "fetch")) @@ (3 :> At("b", "__enter__"))
              @@ (4 :> At("e", "__enter__"))
      overload == [Plainly("fetch") EXCEPT !.decorators = {<<"typing", "overload">>}]
      enter == [Plainly("__enter__") EXCEPT !.public = FALSE, !.special = "context_manager_protocol"]
  IN  [Layout([a |-> File("pkg", Word("a")), b |-> File("pkg", Word("b")),
               e |-> File("examples", Word("e"))],
              at, {}, <<Shape({1, 2, 3, 4}, AllPairs)>>)
       EXCEPT !.declared = (1 :> overload) @@ (2 :> Plainly("fetch")) @@ (3 :> enter) @@ (4 :> enter),
              !.forms = [m \in MCMember |-> [load |-> Several, longer |-> Form(Steps \o Steps),
                                              small |-> IF m \in {1, 4} THEN Stub ELSE Forward]],
              !.starts = {"load", "small"}]

(* Components that share a hook, and a function of each kind a framework asks *)
(* for; the signature of one without a body.                                  *)
Components ==
  LET at == (1 :> At("p", "Panel")) @@ (2 :> At("q", "Panel")) @@ (3 :> At("p", "usePanel"))
              @@ (4 :> At("q", "registerPanel"))
      Kind(name, wording) == [Plainly(name) EXCEPT !.wording = wording]
  IN  [Layout([p |-> Script("web", Word("panel"), "tsx"), q |-> Script("web", Word("side"), "tsx")],
              at, {}, <<Shape({1, 2, 3, 4}, AllPairs)>>)
       EXCEPT !.declared = (1 :> Kind("Panel", "component")) @@ (2 :> Kind("Panel", "component"))
                             @@ (3 :> Kind("usePanel", "hook"))
                             @@ (4 :> Kind("registerPanel", "registry")),
              !.forms = [m \in MCMember |-> [load |-> View, variant |-> Keyed, longer |-> Several]],
              !.starts = {"load", "variant"}]

(* Methods of classes: two constructors, a small predicate, and the abstract  *)
(* method it may implement; a declaration file beside them.                   *)
Classes ==
  LET at == (1 :> At("c", "constructor")) @@ (2 :> At("d", "constructor"))
              @@ (3 :> At("c", "isReady")) @@ (4 :> At("d", "isReady"))
      Method(name, wording) ==
        [Plainly(name) EXCEPT !.syntax = "method_definition", !.wording = wording]
  IN  [Layout([c |-> Script("web", Word("c"), "ts"), d |-> Script("web", Word("d"), "ts")],
              at, {{1, 2}}, <<Shape({1, 2, 3, 4}, <<<<1, 2>>, <<1, 3>>, <<2, 3>>>>)>>)
       EXCEPT !.declared = (1 :> Method("constructor", "constructor"))
                             @@ (2 :> Method("constructor", "constructor"))
                             @@ (3 :> Method("isReady", "predicate"))
                             @@ (4 :> [Method("isReady", "predicate") EXCEPT
                                         !.syntax = "abstract_method_signature",
                                         !.modifiers = {"abstract"}]),
              !.forms = (4 :> [small |-> Form(<<>>)])
                          @@ [m \in 1..3 |-> [load |-> Several, small |-> IF m = 3 THEN Lookup ELSE Forward]],
              !.starts = {"small"}]

(* Four statements of three modules that may each define a constant.          *)
Tables ==
  [Layout([a |-> File("pkg", Word("a")), b |-> File("pkg", Word("b")), c |-> File("lib", Word("c"))],
          (1 :> At("a", "load")) @@ (2 :> At("a", "fetch")) @@ (3 :> At("b", "load"))
            @@ (4 :> At("c", "load")) @@ (5 :> At("a", "first")) @@ (6 :> At("a", "second"))
            @@ (7 :> At("b", "first")) @@ (8 :> At("c", "first")),
          {}, <<>>)
   EXCEPT !.constants = [c \in 5..8 |-> Ranks],
          !.starts = {"small"}, !.edited = {}, !.redefined = 5..8]

MCLayouts ==
  {Helpers, Homonyms, Tests, Surfaces, Languages, Interfaces, Components, Classes, Tables}

(* The settings and the layouts are as DivergentClonesKept takes them.        *)
ASSUME ApartAssumption == DivergenceIsCautious /\ CandidatesApart
=============================================================================
