-------------------------- MODULE FunctionFeatures --------------------------
(***************************************************************************)
(* The features of a function, put together from its signature and from    *)
(* what the adapters extract from each statement of its body.              *)
(*                                                                         *)
(* A signature is a record of the features that the body does not decide:  *)
(*   file, line    where it stands: files are numbered in the order of     *)
(*                 their paths, lines are numbers of two digits            *)
(*   name, role, scope, public, language, family, shape, parameters,       *)
(*   returnType, defaults, transforms    as in FunctionPairs               *)
(*   unknown       whether its shape is fn(UNKNOWN...)->UNKNOWN            *)
(*   factory       whether its return type is callable                     *)
(*   callsites     the kinds of use that its results are put to            *)
(*   caveats       what the adapter warns about                            *)
(***************************************************************************)
EXTENDS FunctionPairs

CONSTANT Facts       \* what is extracted from each statement

\* The same function, worked out for its whole domain: TLC applies @@ at once,
\* and evaluates a function constructor at every use.
Tabulated(f) == f @@ <<>>

Each(facts, Field(_)) == [i \in DOMAIN facts |-> Field(facts[i])]

All(facts, Field(_)) == UNION {Field(facts[i]): i \in DOMAIN facts}

FactsOf(body) == [i \in DOMAIN body |-> Facts[body[i]]]

TreeOf(facts) == Tree("Module", Each(facts, LAMBDA s: s.tree))

BodyTree(body) == TreeOf(FactsOf(body))

\* The first and the last line of a statement, counted from the first line of
\* its function.
SpanOf(facts, i) ==
  LET Between(before) == [first |-> before + 1, last |-> before + facts[i].lines]
  IN Between(SumOf(Each(SubSeq(facts, 1, i - 1), LAMBDA s: s.lines)))

\* _signature_features: the features of a function with these statements.
FunctionWith(signature, facts) ==
  [file |-> signature.file, line |-> signature.line, family |-> signature.family,
   name |-> signature.name, role |-> signature.role, scope |-> signature.scope,
   public |-> signature.public, language |-> signature.language, shape |-> signature.shape,
   unknown |-> signature.unknown, factory |-> signature.factory,
   callsites |-> signature.callsites, caveats |-> signature.caveats,
   parameters |-> signature.parameters, returnType |-> signature.returnType,
   defaults |-> signature.defaults, transforms |-> signature.transforms,
   errors     |-> [caveats |-> signature.caveats, tries |-> 0,
                   raises  |-> Cardinality({i \in DOMAIN facts: facts[i].raises})],
   bodyHash   |-> IF facts = <<>> THEN NoHash ELSE Each(facts, LAMBDA s: s.normalized),
   tree       |-> TreeOf(facts),
   nodes      |-> 1 + SizeOf(Each(facts, LAMBDA s: s.tree)),
   statements |-> Each(facts, LAMBDA s: s.token),
   keys       |-> Each(facts, LAMBDA s: s.key),
   spans      |-> [i \in DOMAIN facts |-> SpanOf(facts, i)],
   calls      |-> FlattenSeq(Each(facts, LAMBDA s: s.calls)),
   returns    |-> FlattenSeq(Each(facts, LAMBDA s: s.returns)),
   control    |-> FlattenSeq(Each(facts, LAMBDA s: s.control)),
   literals   |-> All(facts, LAMBDA s: s.literals),
   receivers  |-> {},
   graph      |-> All(facts, LAMBDA s: s.graph),
   uses       |-> [ARG0 |-> All(facts, LAMBDA s: s.uses)],
   reads      |-> {[index |-> i - 1, roles |-> facts[i].reads]: i \in DOMAIN facts},
   lines      |-> SumOf(Each(facts, LAMBDA s: s.lines))]

FunctionOf(signature, body) == FunctionWith(signature, FactsOf(body))

=============================================================================
