----------------------------- MODULE BodyTrees -----------------------------
(***************************************************************************)
(* Ordered body trees and how Codeseam measures two of them against each   *)
(* other: the top-down edit distance, the distance of function bodies in   *)
(* which identical statements may move, and the holes left when two trees  *)
(* are unified.  A tree is a label with a sequence of subtrees.            *)
(***************************************************************************)
EXTENDS Naturals, SequencesExt, FiniteSetsExt

CONSTANT OperatorLabels      \* the labels that begin with `op:'

Tree(label, children) == [label |-> label, children |-> children]

SumOf(numbers) == FoldLeft(LAMBDA total, n: total + n, 0, numbers)

RECURSIVE TreeSize(_)
TreeSize(tree) == 1 + SumOf([i \in DOMAIN tree.children |-> TreeSize(tree.children[i])])

SizeOf(trees) == SumOf([i \in DOMAIN trees |-> TreeSize(trees[i])])

Differs(left, right) == IF left = right THEN 0 ELSE 1

-----------------------------------------------------------------------------
(***************************************************************************)
(* The table of ordered_tree_edit_distance, one row per child on the left. *)
(* Entry k + 1 of a row is the price of turning the children seen so far   *)
(* into the first k children on the right.                                 *)
(***************************************************************************)
FirstRow(others) == [k \in 1..(Len(others) + 1) |-> SizeOf(SubSeq(others, 1, k - 1))]

\* Mutant: a child of the left side is never dropped.
NextRowWithoutDrops(previous, size, others, aligned) ==
  FoldLeft(LAMBDA current, k:
             Append(current, Min({current[k] + TreeSize(others[k]), previous[k] + aligned[k]})),
           <<previous[1] + size>>, [k \in DOMAIN others |-> k])

NextRow(previous, size, others, aligned) ==
  FoldLeft(LAMBDA current, k:
             Append(current, Min({previous[k + 1] + size,
                                  current[k] + TreeSize(others[k]),
                                  previous[k] + aligned[k]})),
           <<previous[1] + size>>, [k \in DOMAIN others |-> k])

RECURSIVE TreeDistance(_, _)
TreeDistance(left, right) ==
  Differs(left.label, right.label) +
  Last(FoldLeft(LAMBDA row, child:
                  NextRow(row, TreeSize(child), right.children,
                          [k \in DOMAIN right.children |->
                             TreeDistance(child, right.children[k])]),
                FirstRow(right.children), left.children))

\* The statements of `trees' that no equal statement of `others' pairs up with:
\* the first occurrences pair, whatever their places.
Unpaired(trees, others) ==
  FoldLeft(LAMBDA state, tree:
             IF tree \in ToSet(state.others)
             THEN [state EXCEPT !.others = RemoveFirst(@, tree)]
             ELSE [state EXCEPT !.unmatched = Append(@, tree)],
           [unmatched |-> <<>>, others |-> others], trees)

BodyRemainder(left, right) == Unpaired(left.children, right.children)

RemainderDistance(remainder) ==
  TreeDistance(Tree("", remainder.unmatched), Tree("", remainder.others))

BodyDistance(left, right) ==
  Differs(left.label, right.label) + RemainderDistance(BodyRemainder(left, right))

-----------------------------------------------------------------------------
(***************************************************************************)
(* Shapes and operators of a body, each kept in no particular order: the   *)
(* code sorts them.                                                        *)
(***************************************************************************)
RECURSIVE TreeShape(_)
TreeShape(tree) == <<Len(tree.children)>> \o
                   FlattenSeq([i \in DOMAIN tree.children |-> TreeShape(tree.children[i])])

BodySkeleton(tree) == ToBag([i \in DOMAIN tree.children |-> TreeShape(tree.children[i])])

RECURSIVE LabelsOf(_)
LabelsOf(tree) == <<tree.label>> \o
                  FlattenSeq([i \in DOMAIN tree.children |-> LabelsOf(tree.children[i])])

OperatorsIn(trees) ==
  ToBag(SelectSeq(FlattenSeq([i \in DOMAIN trees |-> LabelsOf(trees[i])]),
                  LAMBDA label: label \in OperatorLabels))

BodyOperators(tree) == OperatorsIn(<<tree>>)

-----------------------------------------------------------------------------
(***************************************************************************)
(* The matches of a longest common subsequence, as _lcs_matches walks its  *)
(* table: past an item of the left side when that loses nothing, else past *)
(* one of the right side.                                                  *)
(***************************************************************************)
RECURSIVE LcsLength(_, _)
LcsLength(left, right) ==
  IF left = <<>> \/ right = <<>> THEN 0
  ELSE IF Head(left) = Head(right) THEN 1 + LcsLength(Tail(left), Tail(right))
  ELSE Max({LcsLength(Tail(left), right), LcsLength(left, Tail(right))})

RECURSIVE MatchesFrom(_, _, _, _)
MatchesFrom(left, right, row, col) ==
  LET LeftTail(k)  == SubSeq(left, k, Len(left))
      RightTail(k) == SubSeq(right, k, Len(right))
  IN IF row > Len(left) \/ col > Len(right) THEN <<>>
     ELSE IF left[row] = right[col]
          THEN <<<<row, col>>>> \o MatchesFrom(left, right, row + 1, col + 1)
     ELSE IF LcsLength(LeftTail(row + 1), RightTail(col))
               >= LcsLength(LeftTail(row), RightTail(col + 1))
          THEN MatchesFrom(left, right, row + 1, col)
          ELSE MatchesFrom(left, right, row, col + 1)

LcsMatches(left, right) == MatchesFrom(left, right, 1, 1)

RunBetween(from, to) == [i \in 1..(to - from - 1) |-> from + i]

RunsBetween(starts, ends) ==
  [g \in DOMAIN ends |-> <<RunBetween(starts[g][1], ends[g][1]),
                           RunBetween(starts[g][2], ends[g][2])>>]

\* The unmatched runs before each match and after the last one, as pairs of
\* index sequences.
Gaps(matches, leftCount, rightCount) ==
  RunsBetween(<<<<0, 0>>>> \o matches, Append(matches, <<leftCount + 1, rightCount + 1>>))

-----------------------------------------------------------------------------
(***************************************************************************)
(* anti_unify_trees: the nodes two trees share from the root down, and the *)
(* holes where they part.  A hole is the pair of runs of subtrees left on  *)
(* the two sides.                                                          *)
(***************************************************************************)
Hole(left, right) == [left |-> left, right |-> right]
NoHole == Hole(<<>>, <<>>)

At(indexes, items) == [i \in DOMAIN indexes |-> items[indexes[i]]]

HolesIn(gaps, left, right) ==
  SelectSeq([g \in DOMAIN gaps |-> Hole(At(gaps[g][1], left), At(gaps[g][2], right))],
            LAMBDA hole: hole # NoHole)

RootLabels(trees) == [i \in DOMAIN trees |-> trees[i].label]

Gathered(holes, below) ==
  [stable |-> 1 + SumOf([m \in DOMAIN below |-> below[m].stable]),
   holes  |-> holes \o FlattenSeq([m \in DOMAIN below |-> below[m].holes])]

RECURSIVE UnifyTrees(_, _)
UnifyTrees(left, right) ==
  LET Matched(matches) ==
        Gathered(HolesIn(Gaps(matches, Len(left.children), Len(right.children)),
                         left.children, right.children),
                 [m \in DOMAIN matches |-> UnifyTrees(left.children[matches[m][1]],
                                                      right.children[matches[m][2]])])
  IN IF left.label # right.label
     THEN [stable |-> 0, holes |-> <<Hole(<<left>>, <<right>>)>>]
     ELSE Matched(LcsMatches(RootLabels(left.children), RootLabels(right.children)))

IsOperator(tree) == tree.label \in OperatorLabels

\* Operator leaves dropped, and a node that wrapped one operand with an operator
\* (`not x') replaced by the operand.
Unwrapped(tree, operands) ==
  IF Len(operands) = 1 /\ \E child \in ToSet(tree.children): IsOperator(child)
  THEN operands[1]
  ELSE Tree(tree.label, operands)

RECURSIVE WithoutOperators(_)
WithoutOperators(trees) ==
  LET Stripped(operands) ==
        [i \in DOMAIN operands |-> Unwrapped(operands[i], WithoutOperators(operands[i].children))]
  IN Stripped(SelectSeq(trees, LAMBDA tree: ~ IsOperator(tree)))

\* Mutant: an operator added or removed is not an operator changed.
OperatorSubstituted(left, right) ==
  \E hole \in ToSet(UnifyTrees(left, right).holes):
    /\ OperatorsIn(hole.left) # OperatorsIn(hole.right)
    /\ DOMAIN OperatorsIn(hole.left) # {} /\ DOMAIN OperatorsIn(hole.right) # {}
    /\ WithoutOperators(hole.left) = WithoutOperators(hole.right)

OperatorChanged(left, right) ==
  \E hole \in ToSet(UnifyTrees(left, right).holes):
    /\ OperatorsIn(hole.left) # OperatorsIn(hole.right)
    /\ WithoutOperators(hole.left) = WithoutOperators(hole.right)

-----------------------------------------------------------------------------
(***************************************************************************)
(* What the distance is meant to be: the fewest nodes to insert, delete or *)
(* relabel, over every way to align the children in order.                 *)
(***************************************************************************)
Alignments(n, m) ==
  { pairs \in SUBSET ((1..n) \X (1..m)):
      \A p, q \in pairs: (p[1] < q[1]) <=> (p[2] < q[2]) }

RECURSIVE LeastEdits(_, _)
LeastEdits(left, right) ==
  LET l == left.children
      r == right.children
      Cost(pairs) ==
        MapThenSumSet(LAMBDA p: LeastEdits(l[p[1]], r[p[2]]), pairs)
        + MapThenSumSet(LAMBDA i: TreeSize(l[i]), DOMAIN l \ {p[1]: p \in pairs})
        + MapThenSumSet(LAMBDA j: TreeSize(r[j]), DOMAIN r \ {p[2]: p \in pairs})
  IN Differs(left.label, right.label) + Min({Cost(pairs): pairs \in Alignments(Len(l), Len(r))})

=============================================================================
