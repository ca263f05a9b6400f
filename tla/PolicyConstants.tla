--------------------------- MODULE PolicyConstants ---------------------------
(***************************************************************************)
(* The constants modules of one language define, and the groups they form: *)
(* identical copies, copies that drifted apart, and one literal scattered  *)
(* under several names.                                                    *)
(*                                                                         *)
(* Source: adapters/languages/python/policy_constants.py (what is a        *)
(* constant) and analysis/clusters/policy_constants.py (the groups).       *)
(*                                                                         *)
(* A place is a statement of a module's body, at.file its file; C gives    *)
(* the definition at each place. Left out: the confidence of a group and   *)
(* of its action, which are shown and decide nothing.                      *)
(***************************************************************************)
EXTENDS Integers, SequencesExt

CONSTANTS
  Symbols,         \* [symbol |-> [policy, normalized]]; policy: upper case with an underscore
  Literals,        \* [literal |-> [kind, items, lines]]; an item: [is, simple]
  DriftMinOverlap  \* drift_min_overlap, in units of 0.0001

(* A definition: what a statement assigns, and to which single name; a       *)
(* statement with several targets defines no constant.                       *)
Definition(symbol, literal, single) ==
  [symbol |-> symbol, literal |-> literal, single |-> single]

-----------------------------------------------------------------------------
(* Extraction: an upper-case name with an underscore, and a dictionary,      *)
(* list, tuple or set of at least two simple literals, the keys and the      *)
(* values of a dictionary each counted.                                      *)

Structured == {"Dict", "List", "Tuple", "Set"}

ItemCount(literal) == (IF literal.kind = "Dict" THEN 2 ELSE 1) * Len(literal.items)

IsPolicyConstant(definition) ==
  LET literal == Literals[definition.literal]
  IN  /\ definition.single
      /\ Symbols[definition.symbol].policy
      /\ literal.kind \in Structured
      /\ ItemCount(literal) >= 2
      /\ \A item \in ToSet(literal.items) : item.simple

ConstantsOf(C) == {c \in DOMAIN C : IsPolicyConstant(C[c])}

NormalizedSymbol(definition) == Symbols[definition.symbol].normalized
LiteralKind(definition) == Literals[definition.literal].kind
LiteralItems(definition) == {item.is : item \in ToSet(Literals[definition.literal].items)}

\* Items in their order: a set written in another order is another shape.
LiteralShape(definition) ==
  <<LiteralKind(definition), Literals[definition.literal].items>>

-----------------------------------------------------------------------------
(* Groups of two or more constants with one key.                            *)

(* Mutant: the values of equal names are not compared.                       *)
NameAndKind(definition) == <<NormalizedSymbol(definition), LiteralKind(definition)>>

IdenticalKey(definition) == <<NormalizedSymbol(definition), LiteralShape(definition)>>
DriftKey(definition) == <<NormalizedSymbol(definition), LiteralKind(definition)>>
ScatteredKey(definition) == LiteralShape(definition)

GroupsBy(C, Key(_)) ==
  {members \in {{x \in ConstantsOf(C) : Key(C[x]) = Key(C[y])} : y \in ConstantsOf(C)} :
     Cardinality(members) > 1}

(* The items all variants share over the smallest variant; nothing unless    *)
(* the literals differ, and not in one file only.                            *)
DriftOverlap(C, at, members) ==
  LET variants == {LiteralItems(C[m]) : m \in members}
      shared == {item \in UNION variants : \A variant \in variants : item \in variant}
  IN  IF \/ Cardinality({LiteralShape(C[m]) : m \in members}) < 2
         \/ Cardinality({at[m].file : m \in members}) < 2
      THEN 0
      ELSE (Cardinality(shared) * 10000) \div Max({1, Min({Cardinality(v) : v \in variants})})

IdenticalGroups(C) == GroupsBy(C, IdenticalKey)

DriftedGroups(C, at) ==
  {members \in GroupsBy(C, DriftKey) : DriftOverlap(C, at, members) >= DriftMinOverlap}

ScatteredGroups(C) ==
  {members \in GroupsBy(C, ScatteredKey) :
     Cardinality({NormalizedSymbol(C[m]) : m \in members}) > 1}

(* The clusters in the order they are reported; the groups of one match by   *)
(* their first constant, where the code takes the text of their key.         *)
PolicyConstantClusters(C, at) ==
  LET Each(match, groups) ==
        [i \in 1..Cardinality(groups) |->
           [match |-> match,
            members |-> CHOOSE g \in groups :
                          Cardinality({h \in groups : Min(h) <= Min(g)}) = i]]
  IN  Each("identical", IdenticalGroups(C)) \o Each("drifted", DriftedGroups(C, at))
        \o Each("scattered", ScatteredGroups(C))

ConstantLines(C, members) == MapThenSumSet(LAMBDA m : Literals[C[m].literal].lines, members)
=============================================================================
