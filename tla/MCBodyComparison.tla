-------------------------- MODULE MCBodyComparison --------------------------
(***************************************************************************)
(* Bodies of two statements against bodies of three, made of a guard, the  *)
(* guard negated, and a call with one of two literals.                     *)
(***************************************************************************)
EXTENDS BodyComparison

Leaf(label) == Tree(label, <<>>)

MCOperatorLabels == {"op:Not"}
MCArgumentRoles  == {"ARG0", "ARG1"}

Statement(tree, token, key, normalized, calls, returns, control, literals, uses) ==
  [tree |-> tree, token |-> token, key |-> key, normalized |-> normalized, calls |-> calls,
   returns |-> returns, control |-> control, literals |-> literals, uses |-> uses,
   lines |-> 1, graph |-> uses, reads |-> IF uses = {} THEN {} ELSE {"ARG0"}, raises |-> FALSE]

Token(kind, detail) == [kind |-> kind, detail |-> detail]

Guard(test) == Tree("If", <<test, Leaf("Return")>>)
Emit(literal) == Tree("Expr", <<Tree("Call", <<Leaf("emit"), Leaf(literal)>>)>>)

MCFacts ==
  [guard    |-> Statement(Guard(Leaf("ARG0")), Token("IF", ""), "k_guard", "h_guard",
                          <<>>, <<"none">>, <<"IF">>, {}, {"test"}),
   guardNot |-> Statement(Guard(Tree("UnaryOp", <<Leaf("op:Not"), Leaf("ARG0")>>)),
                          Token("IF", ""), "k_guardNot", "h_guardNot",
                          <<>>, <<"none">>, <<"IF">>, {}, {"test"}),
   emitA    |-> Statement(Emit("a"), Token("CALL", "emit"), "k_emit", "h_emitA",
                          <<"emit">>, <<>>, <<>>, {"a"}, {}),
   emitB    |-> Statement(Emit("b"), Token("CALL", "emit"), "k_emit", "h_emitB",
                          <<"emit">>, <<>>, <<>>, {"b"}, {})]

MCStatements == {"guard", "guardNot", "emitA", "emitB"}

MCOperatorTwins == {{"guard", "guardNot"}}

MCMaxStatements == [left |-> 3, right |-> 2]

Signature(name, scope) ==
  [file |-> 1, line |-> IF scope = "app" THEN 10 ELSE 50, caveats |-> {},
   callsites |-> {}, family |-> "python", unknown |-> FALSE, factory |-> FALSE,
   name |-> name, role |-> "source", scope |-> scope, public |-> TRUE, language |-> "python",
   shape |-> "fn(ANY)->ANY", parameters |-> <<"ANY">>, returnType |-> "ANY",
   defaults |-> {}, transforms |-> {}]

MCSignatures == [left  |-> Signature(<<"load", "user">>, "app"),
                 right |-> Signature(<<"load", "order">>, "jobs")]

MCWordLength == [w \in {"load", "user", "order"} |-> IF w = "order" THEN 5 ELSE 4]
MCNameRatio  == [pair \in {{<<"load", "user">>, <<"load", "order">>}} |-> 7000]

=============================================================================
