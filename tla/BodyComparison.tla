--------------------------- MODULE BodyComparison ---------------------------
(***************************************************************************)
(* Two functions that are edited a statement at a time while Codeseam      *)
(* compares them.  What is checked is that the comparison follows the      *)
(* edits: distances, skeletons, deltas and the relation never say          *)
(* something the edits do not support.                                     *)
(***************************************************************************)
EXTENDS FunctionFeatures

CONSTANTS
  Statements,        \* the statements that bodies are made of
  OperatorTwins,     \* pairs of statements that differ in one operator only
  Signatures,        \* the part of each side's features that its body does not decide
  MaxStatements      \* bound: statements in the body of each side

VARIABLE bodies      \* the two bodies

Sides == {"left", "right"}

Other(side) == CHOOSE s \in Sides: s # side

TypeOK ==
  /\ DOMAIN bodies = Sides
  /\ \A side \in Sides: bodies[side] \in BoundedSeq(Statements, MaxStatements[side])

Function(side) == FunctionOf(Signatures[side], bodies[side])

Left  == Function("left")
Right == Function("right")

-----------------------------------------------------------------------------
Init == bodies = [side \in Sides |-> <<>>]

InsertStatement(side, i, s) ==
  /\ Len(bodies[side]) < MaxStatements[side]
  /\ bodies' = [bodies EXCEPT ![side] = InsertAt(@, i, s)]

RemoveStatement(side, i) ==
  bodies' = [bodies EXCEPT ![side] = RemoveAt(@, i)]

ReplaceStatement(side, i, s) ==
  /\ s # bodies[side][i]
  /\ bodies' = [bodies EXCEPT ![side] = ReplaceAt(@, i, s)]

MoveStatement(side, i, j) ==
  /\ i # j
  /\ bodies' = [bodies EXCEPT ![side] = InsertAt(RemoveAt(@, i), j, @[i])]

Next ==
  \E side \in Sides:
    \/ \E i \in 1..(Len(bodies[side]) + 1), s \in Statements: InsertStatement(side, i, s)
    \/ \E i \in DOMAIN bodies[side]:
         \/ RemoveStatement(side, i)
         \/ \E s \in Statements: ReplaceStatement(side, i, s)
         \/ \E j \in DOMAIN bodies[side]: MoveStatement(side, i, j)

Spec == Init /\ [][Next]_bodies

-----------------------------------------------------------------------------
(***************************************************************************)
(* Properties                                                              *)
(***************************************************************************)
\* The distance of two body trees is the least number of nodes to insert, delete
\* or relabel over every alignment of children in order; the distance of two
\* bodies is the same from either side, never counts a statement twice, and is
\* zero exactly when the bodies hold the same statements in some order.
MeasuredExactly ==
  LET distance == BodyDistance(Left.tree, Right.tree)
      paired   == BagOverlap(ToBag(Left.tree.children), ToBag(Right.tree.children))
  IN /\ TreeDistance(Left.tree, Right.tree) = LeastEdits(Left.tree, Right.tree)
     /\ distance = BodyDistance(Right.tree, Left.tree)
     /\ distance <= SizeOf(BodyRemainder(Left.tree, Right.tree).unmatched)
                    + SizeOf(BodyRemainder(Left.tree, Right.tree).others)
     /\ Len(BodyRemainder(Left.tree, Right.tree).unmatched)
          = Len(bodies.left) - BagCardinality(paired)
     /\ (distance = 0) <=> (ToBag(Left.tree.children) = ToBag(Right.tree.children))

OneMore(shorter, longer, s) ==
  \E i \in DOMAIN longer: longer[i] = s /\ RemoveAt(longer, i) = shorter

DistanceOf(pair) == BodyDistance(BodyTree(pair.left), BodyTree(pair.right))

\* Inserting or removing one statement moves the distance of two bodies by no
\* more than the size of that statement, however the other statements then pair
\* up out of order.
EditsMoveDistance ==
  [][\A side \in Sides, s \in Statements:
       (OneMore(bodies[side], bodies'[side], s) \/ OneMore(bodies'[side], bodies[side], s))
       => LET Within(before, after, size) == after <= before + size /\ before <= after + size
          IN Within(DistanceOf(bodies), DistanceOf(bodies'), TreeSize(Facts[s].tree))]_bodies

KeptOn(holes, Side(_)) == FlattenSeq([h \in DOMAIN holes |-> Side(holes[h])])

\* The skeleton of two functions accounts for every statement of both exactly
\* once: the stable ones are those both have, wherever they stand, and no
\* statement left in a hole on one side is still to be found in a hole on the
\* other.  The tree skeleton accounts for every node of both trees.
SkeletonCovers ==
  LET leftKeys  == AlignedStatements(Left)
      rightKeys == AlignedStatements(Right)
      skeleton  == AntiUnify(Left.statements, Right.statements, leftKeys, rightKeys)
      leftKept  == KeptOn(skeleton.holes, LAMBDA hole: hole.left)
      rightKept == KeptOn(skeleton.holes, LAMBDA hole: hole.right)
      trees     == UnifyTrees(Left.tree, Right.tree)
  IN /\ skeleton.stable = BagCardinality(BagOverlap(ToBag(leftKeys), ToBag(rightKeys)))
     /\ Len(leftKeys)  = skeleton.stable + Len(leftKept)
     /\ Len(rightKeys) = skeleton.stable + Len(rightKept)
     /\ ToSet(At(leftKept, leftKeys)) \cap ToSet(At(rightKept, rightKeys)) = {}
     /\ Len(skeleton.template) = skeleton.stable + Len(skeleton.holes)
     /\ TreeSize(Left.tree) =
          trees.stable + SizeOf(KeptOn(trees.holes, LAMBDA hole: hole.left))
     /\ TreeSize(Right.tree) =
          trees.stable + SizeOf(KeptOn(trees.holes, LAMBDA hole: hole.right))

\* The gate before the tree measurement only saves work: the relation is the one
\* that measuring the trees would have given.
NoRelationLost ==
  LET sequence == CompareSequences(Left, Right)
  IN RelationPair(Left, Right) =
       IF TreeEditDecision(Left, Right, CheapScores(Left, Right, sequence),
                           Normalizes(Left, Right)) = "product_limit"
       THEN RelationPair(Left, Right)
       ELSE Measured(Left, Right, CheapScores(Left, Right, sequence), MeasureTrees(Left, Right),
                     sequence, Normalizes(Left, Right))

\* A change of operator is never missed: two functions that differ in one
\* operator of one statement are related, if at all, with an operator delta, and
\* are never taken for the same skeleton with other literals or callees.
OperatorChangeSeen ==
  \A i \in DOMAIN bodies.left:
    ( /\ Len(bodies.right) = Len(bodies.left)
      /\ RemoveAt(bodies.left, i) = RemoveAt(bodies.right, i)
      /\ {bodies.left[i], bodies.right[i]} \in OperatorTwins )
    => LET pair == RelationPair(Left, Right)
       IN pair # NoRelation =>
            /\ "operator" \in pair.deltas
            /\ pair.kind \notin {"body_identical", "body_parameterized",
                                 "same_skeleton_different_literals",
                                 "same_skeleton_different_callees"}

\* The kind of a relation, its strength and its differences do not depend on which
\* function comes first.  The operator difference does: which of two equally long
\* common subsequences the unification takes depends on the side.
EitherOrder ==
  LET Agree(pair, other) ==
        /\ (pair = NoRelation) = (other = NoRelation)
        /\ pair # NoRelation => /\ pair.kind = other.kind
                                /\ pair.relatedness = other.relatedness
                                /\ pair.skeleton.stable = other.skeleton.stable
                                /\ pair.deltas \ {"operator"} = other.deltas \ {"operator"}
  IN Agree(RelationPair(Left, Right), RelationPair(Right, Left))

=============================================================================
