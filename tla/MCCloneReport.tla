--------------------------- MODULE MCCloneReport ---------------------------
(***************************************************************************)
(* Fourteen functions, of which a few are present at once:                 *)
(*   a1, a2, a3   copies, the third under another signature shape          *)
(*   near         a copy with another call at its end                      *)
(*   early        a function that only begins as they do                   *)
(*   twice        one that repeats itself, and begins as early does        *)
(*   late         a function that shares four statements with them         *)
(*   t1, t2       tests that share the same four statements                *)
(*   big1, big2   one-statement copies with large trees                    *)
(*   wrap, prim   a wrapper that normalizes its argument, its primitive    *)
(*   other        a function of another language, in the shape of a1       *)
(***************************************************************************)
EXTENDS CloneReport

Leaf(label) == Tree(label, <<>>)
Call(callee) == Tree("Call", <<Leaf(callee), Leaf("ARG0")>>)

MCOperatorLabels == {"op:Not"}
MCArgumentRoles  == {"ARG0", "ARG1"}

Token(kind, detail) == [kind |-> kind, detail |-> detail]

Statement(tree, token, key, calls, returns, control, raises) ==
  [tree |-> tree, token |-> token, key |-> key, normalized |-> key, calls |-> calls,
   returns |-> returns, control |-> control, literals |-> {}, uses |-> {key}, graph |-> {key},
   reads |-> {"ARG0"}, raises |-> raises, lines |-> 2]

Assigning(callee) ==
  Statement(Tree("Assign", <<Call(callee)>>), Token("ASSIGN", "CALL"), "k_" \o callee,
            <<callee>>, <<>>, <<>>, FALSE)

Calling(callee) ==
  Statement(Tree("Expr", <<Call(callee)>>), Token("CALL", callee), "k_" \o callee,
            <<callee>>, <<>>, <<>>, FALSE)

Returning(callee, tree) ==
  Statement(tree, Token("RETURN", "ARG0"), "k_return_" \o callee, <<callee>>, <<"value">>, <<>>,
            FALSE)

Large == Tree("Return", <<Tree("Dict", [i \in 1..20 |-> Leaf("ARG0")])>>)

MCFacts ==
  [check  |-> Statement(Tree("If", <<Leaf("ARG0"), Leaf("Raise")>>), Token("IF", ""), "k_check",
                        <<>>, <<>>, <<"IF">>, TRUE),
   open   |-> Assigning("open"),
   parse  |-> Assigning("parse"),
   log    |-> Calling("log"),
   send   |-> Calling("send"),
   expect |-> Calling("expect"),
   done   |-> Returning("finish", Tree("Return", <<Call("finish")>>)),
   saved  |-> Returning("save", Tree("Return", <<Call("save")>>)),
   large  |-> Returning("build", Large),
   plain  |-> [Returning("query", Tree("Return", <<Call("query")>>))
                 EXCEPT !.calls = <<"query">>],
   strip  |-> [Returning("strip", Tree("Return", <<Tree("Call", <<Leaf("query"), Call("str")>>)>>))
                 EXCEPT !.calls = <<"str", "query">>]]

Block == <<"check", "open", "parse", "log">>

MCBodies ==
  [a1 |-> Append(Block, "done"), a2 |-> Append(Block, "done"), a3 |-> Append(Block, "done"),
   near  |-> Append(Block, "saved"),
   early |-> <<"check", "open", "parse", "check", "open">>,
   twice |-> <<"check", "open", "parse", "check", "open", "parse", "check">>,
   late  |-> <<"send">> \o Block,
   t1    |-> Append(Block, "expect"),
   t2    |-> <<"expect">> \o Block,
   big1  |-> <<"large">>, big2 |-> <<"large">>,
   wrap  |-> <<"strip">>, prim |-> <<"plain">>,
   other |-> Append(Block, "done")]

MCFunctions == DOMAIN MCBodies

Calls == {"open", "parse", "log", "send", "expect", "finish", "save", "build", "query", "strip",
          "str"}

MCCallParts == [call \in Calls |-> [target |-> call, callee |-> call]]

Signature(file, name, shape) ==
  [file |-> file, line |-> 10, name |-> name, shape |-> shape,
   unknown |-> shape = "unknown", scope |-> "app", public |-> FALSE, language |-> "python",
   family |-> "python", factory |-> FALSE, callsites |-> {}, caveats |-> {},
   parameters |-> <<"ANY">>, returnType |-> "ANY", defaults |-> {}, transforms |-> {}]

MCSignatures ==
  [a1    |-> Signature(1, <<"load", "user">>, "unknown"),
   a2    |-> Signature(2, <<"load", "order">>, "unknown"),
   a3    |-> Signature(3, <<"load", "user">>, "typed"),
   near  |-> Signature(4, <<"load", "user">>, "typed"),
   early |-> Signature(5, <<"load", "order">>, "typed"),
   twice |-> Signature(14, <<"build", "order">>, "typed"),
   late  |-> Signature(6, <<"fetch", "user">>, "free"),
   t1    |-> Signature(7, <<"test", "user">>, "unknown"),
   t2    |-> Signature(8, <<"test", "order">>, "unknown"),
   big1  |-> Signature(9, <<"build", "user">>, "unknown"),
   big2  |-> Signature(10, <<"make", "order">>, "unknown"),
   wrap  |-> [Signature(11, <<"find", "user">>, "of_str")
                EXCEPT !.parameters = <<"str">>, !.returnType = "User", !.transforms = {"str"}],
   prim  |-> [Signature(12, <<"find", "user">>, "of_id")
                EXCEPT !.parameters = <<"Id">>, !.returnType = "User"],
   other |-> [Signature(13, <<"load", "user">>, "unknown")
                EXCEPT !.language = "typescript", !.family = "ecmascript"]]

In(directory, word) == PathOf(<<Word("src"), Word("app"), Word(directory)>>, Word(word), "py")

(* One file of another layer, tests by their directory and by their name, and *)
(* one file, that of prim, which only the risks take for a test.              *)
MCPaths ==
  <<In("core", "a"), In("core", "b"), In("core", "c"), In("core", "d"), In("core", "e"),
    In("service", "fetch"),
    PathOf(<<Word("tests")>>, Word("users"), "py"),
    PathOf(<<Word("web"), Word("app")>>, Joined("test", "_", "orders"), "py"),
    PathOf(<<Word("web"), Word("app")>>, Joined("timeout", "_", "x"), "py"),
    PathOf(<<Word("web"), Word("app")>>, Word("urls"), "py"),
    PathOf(<<Word("web"), Word("app")>>, Word("users"), "py"),
    PathOf(<<Word("web"), Word("app")>>, Joined("users", ".", "spec"), "py"),
    PathOf(<<Word("web"), Word("app")>>, Word("view"), "ts"),
    PathOf(<<Word("web"), Word("app")>>, Word("work"), "py")>>
MCStopTokens     == {"load", "test", "make"}
MCBoundaryTokens == {"fetch", "timeout"}

MCLimits ==
  [statements |-> 6, nodes |-> 20, bucketMembers |-> 3, candidatePairs |-> 3, relationPairs |-> 3,
   duplicatePairs |-> 2, actions |-> 5, rareFunctions |-> 4, neighbours |-> 2,
   componentMembers |-> 3, splitMembers |-> 4, broadMembers |-> 2, broadTestMembers |-> 3,
   wrapperBucket |-> 3, wrapperClusters |-> 1, windowFunctions |-> 4]

MCWordLength ==
  [w \in {"load", "fetch", "test", "build", "make", "find", "user", "order"} |->
     IF w \in {"fetch", "build", "order"} THEN 5 ELSE 4]

MCNameRatio ==
  [pair \in {{Signature1.name, Signature2.name}:
               Signature1 \in {MCSignatures[f]: f \in MCFunctions},
               Signature2 \in {MCSignatures[f]: f \in MCFunctions}} |-> 6000]

=============================================================================
