------------------------- MODULE StatementAlignment -------------------------
(***************************************************************************)
(* The alignment of two statement sequences: what two functions share from *)
(* the front, from the back and in order, and the skeleton they unify to.  *)
(* A statement token is a record of its kind (ASSIGN, RETURN, ...) and its *)
(* detail; a statement key is the content it is aligned by.                *)
(*                                                                         *)
(* Scores are whole numbers of ten-thousandths, as the code rounds to four *)
(* decimals.                                                               *)
(***************************************************************************)
EXTENDS BodyTrees, Integers, Bags

CONSTANT ArgumentRoles       \* ARG0, ARG1, ...: the names of the parameters

One == 10000

\* round(weight * part / whole, 4), the weight in ten-thousandths.
Share(weight, part, whole) == (2 * weight * part + whole) \div (2 * whole)

Ratio(part, whole) == Share(One, part, whole)

Jaccard(left, right) ==
  IF left = {} \/ right = {} THEN 0
  ELSE Ratio(Cardinality(left \cap right), Cardinality(left \cup right))

BagOverlap(left, right) ==
  LET shared == BagToSet(left) \cap BagToSet(right)
  IN [e \in shared |-> Min({left[e], right[e]})]

\* Mutant: only the occurrences of the first side count.
CounterOverlapOfFirst(left, right) ==
  IF BagCardinality(left) = 0 THEN 0
  ELSE Ratio(BagCardinality(BagOverlap(left, right)), BagCardinality(left))

\* counter_jaccard: shared occurrences over the occurrences of either side.
CounterJaccard(left, right) ==
  LET shared == BagCardinality(BagOverlap(left, right))
      all    == BagCardinality(left) + BagCardinality(right) - shared
  IN IF all = 0 THEN 0 ELSE Ratio(shared, all)

CommonPrefix(left, right) ==
  Max({n \in 0..Min({Len(left), Len(right)}): SubSeq(left, 1, n) = SubSeq(right, 1, n)})

\* The common suffix, kept clear of a common prefix already counted.
CommonSuffix(left, right, prefix) ==
  CommonPrefix(Reverse(SubSeq(left, prefix + 1, Len(left))),
               Reverse(SubSeq(right, prefix + 1, Len(right))))

InsertedBlockPosition(prefix, suffix) ==
  CASE prefix > 0 /\ suffix = 0 -> "tail"
    [] suffix > 0 /\ prefix = 0 -> "head"
    [] prefix > 0 /\ suffix > 0 -> "middle"
    [] OTHER -> "none"

-----------------------------------------------------------------------------
\* Mutant: a moved statement uses up no budget.
SplitMovedFreely(gaps, keys, budget) ==
  [g \in DOMAIN gaps |->
     [moved |-> SelectSeq(gaps[g], LAMBDA i: BagIn(keys[i], budget)),
      kept  |-> SelectSeq(gaps[g], LAMBDA i: ~ BagIn(keys[i], budget))]]

\* _split_moved over every gap of one side: a statement whose key is still in
\* the budget moved, any other is kept in the gap's hole.
SplitMoved(gaps, keys, budget) ==
  LET Split(state, i) ==
        IF BagIn(keys[i], state.budget)
        THEN [state EXCEPT !.budget = @ (-) SetToBag({keys[i]}), !.moved = Append(@, i)]
        ELSE [state EXCEPT !.kept = Append(@, i)]
      Closed(done, earlier) == [budget |-> done.budget,
                              gaps   |-> Append(earlier, [moved |-> done.moved, kept |-> done.kept])]
      SplitGap(state, gap) ==
        Closed(FoldLeft(Split, [budget |-> state.budget, moved |-> <<>>, kept |-> <<>>], gap),
               state.gaps)
  IN FoldLeft(SplitGap, [budget |-> budget, gaps |-> <<>>], gaps).gaps

KeysIn(gaps, keys) ==
  LET indexes == FlattenSeq(gaps) IN ToBag([i \in DOMAIN indexes |-> keys[indexes[i]]])

ArgumentsIn(tokens) == {token.detail: token \in ToSet(tokens)} \cap ArgumentRoles

HoleSize(hole) == Max({Len(hole.left), Len(hole.right)})

HoleSizeVariance(holes) ==
  IF holes = <<>> THEN "none"
  ELSE IF \A h \in DOMAIN holes:
            /\ Len(holes[h].left) <= Len(holes[h].right) + 1
            /\ Len(holes[h].right) <= Len(holes[h].left) + 1
       THEN "low" ELSE "high"

Stable(token) == [kind |-> "STABLE_STATEMENT", token |-> token]
HoleItem(h)   == [kind |-> "HOLE", hole |-> h]

LeftGaps(gaps)  == [g \in DOMAIN gaps |-> gaps[g][1]]
RightGaps(gaps) == [g \in DOMAIN gaps |-> gaps[g][2]]

\* The keys found in gaps of both sides: these statements moved.
MovedKeys(gaps, leftKeys, rightKeys) ==
  BagOverlap(KeysIn(LeftGaps(gaps), leftKeys), KeysIn(RightGaps(gaps), rightKeys))

\* The holes and the template, gap by gap: what moved is stable, what is left of
\* a gap becomes a hole, and the matched statement ends it.
SkeletonOfGaps(left, matches, fromLeft, fromRight) ==
  LET AllStable(indexes) == [i \in DOMAIN indexes |-> Stable(left[indexes[i]])]
      Matched(g) == IF g \in DOMAIN matches THEN <<Stable(left[matches[g][1]])>> ELSE <<>>
      Extend(skeleton, g) ==
        IF fromLeft[g].kept = <<>> /\ fromRight[g].kept = <<>>
        THEN [skeleton EXCEPT !.template = @ \o AllStable(fromLeft[g].moved) \o Matched(g)]
        ELSE [holes    |-> Append(skeleton.holes, Hole(fromLeft[g].kept, fromRight[g].kept)),
              template |-> skeleton.template \o AllStable(fromLeft[g].moved)
                           \o <<HoleItem(Len(skeleton.holes) + 1)>> \o Matched(g)]
  IN FoldLeft(Extend, [holes |-> <<>>, template |-> <<>>], [g \in DOMAIN fromLeft |-> g])

MeasuredSkeleton(left, right, leftKeys, rightKeys, built, stable, longest, prefix) ==
  [template    |-> built.template,
   holes       |-> built.holes,
   stable      |-> stable,
   stableRatio |-> Ratio(stable, longest),
   prefix      |-> prefix,
   suffix      |-> CommonSuffix(leftKeys, rightKeys, prefix),
   prefixRatio |-> Ratio(prefix, longest),
   maxHoleSize |-> Max({0} \cup {HoleSize(built.holes[h]): h \in DOMAIN built.holes}),
   variance    |-> HoleSizeVariance(built.holes),
   argumentFlow |-> \E h \in DOMAIN built.holes:
                      ArgumentsIn(At(built.holes[h].left, left))
                        \cap ArgumentsIn(At(built.holes[h].right, right)) # {}]

\* anti_unify_sequences.  Statements found in gaps of both sides moved: they are
\* stable, and only what is left of a gap becomes a hole.
AntiUnify(left, right, leftKeys, rightKeys) ==
  LET WithMoved(matches, gaps, moved) ==
        MeasuredSkeleton(left, right, leftKeys, rightKeys,
                         SkeletonOfGaps(left, matches,
                                        SplitMoved(LeftGaps(gaps), leftKeys, moved),
                                        SplitMoved(RightGaps(gaps), rightKeys, moved)),
                         Len(matches) + BagCardinality(moved),
                         Max({Len(left), Len(right), 1}),
                         CommonPrefix(leftKeys, rightKeys))
      WithGaps(matches, gaps) ==
        WithMoved(matches, gaps, MovedKeys(gaps, leftKeys, rightKeys))
      WithMatches(matches) == WithGaps(matches, Gaps(matches, Len(left), Len(right)))
  IN WithMatches(LcsMatches(leftKeys, rightKeys))

-----------------------------------------------------------------------------
\* The arguments read at or after the common prefix; `reads' pairs a statement's
\* index, counted from 0, with the arguments it reads.
TailReads(reads, prefix) == UNION {read.roles: read \in {r \in reads: r.index >= prefix}}

\* sequence_alignment_features over the aligned statements of two functions.
AlignSequences(left, right, leftReads, rightReads) ==
  LET lcs    == LcsLength(left, right)
      prefix == CommonPrefix(left, right)
      suffix == CommonSuffix(left, right, 0)
  IN [lcs        |-> lcs,
      prefix     |-> prefix,
      suffix     |-> suffix,
      insertedBlocks |-> IF lcs > 0 /\ Len(left) # Len(right) THEN 1 ELSE 0,
      position   |-> InsertedBlockPosition(prefix, suffix),
      tailFlow   |-> TailReads(leftReads, prefix) \cap TailReads(rightReads, prefix) # {},
      longest    |-> Max({Len(left), Len(right), 1}),
      similarity |-> Ratio(lcs, Max({Len(left), Len(right), 1}))]

=============================================================================
