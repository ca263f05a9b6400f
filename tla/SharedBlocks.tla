---------------------------- MODULE SharedBlocks ----------------------------
(***************************************************************************)
(* Partial clones: runs of statements that otherwise different functions   *)
(* share.  Windows of a few statement keys are indexed, a match of two     *)
(* rare windows is extended as far as it goes, and the runs that one set   *)
(* of functions shares make one block.                                     *)
(*                                                                         *)
(* An occurrence is a run of statements of one function: its member, its   *)
(* first statement and its length.                                         *)
(***************************************************************************)
EXTENDS PairSelection

BlockStatements   == 4
DistinctInBlock   == 3
BlockLines        == 8

KeysFrom(f, start, length) == SubSeq(Features[f].keys, start, start + length - 1)

Occurrence(f, start, length) == [member |-> f, start |-> start, length |-> length]

LineCount(occurrence) ==
  LET spans == Features[occurrence.member].spans
  IN spans[occurrence.start + occurrence.length - 1].last - spans[occurrence.start].first + 1

\* A leading docstring or directive is skipped: its key matches every other one.
FirstCode(f) ==
  IF Features[f].statements[1] = [kind |-> "EXPR", detail |-> ""] THEN 2 ELSE 1

CodeStatements(f) == Len(Features[f].keys) - FirstCode(f) + 1

-----------------------------------------------------------------------------
(***************************************************************************)
(* Windows and the runs they extend to.                                    *)
(***************************************************************************)
BlockGroups(code) ==
  LET long == {f \in code: Len(Features[f].keys) >= BlockStatements}
      Side(f) == <<Features[f].family, IsTest(f)>>
  IN {{f \in long: Side(f) = side}: side \in {Side(f): f \in long}}

\* Mutant: the last window of a function is left out.
WindowStartsBeforeLast(f) == FirstCode(f)..(Len(Features[f].keys) - BlockStatements)

WindowStarts(f) == FirstCode(f)..(Len(Features[f].keys) - BlockStatements + 1)

Window(f, start) == KeysFrom(f, start, BlockStatements)

WindowsOf(f) == {Window(f, start): start \in WindowStarts(f)}

IsRareWindow(group, window) ==
  /\ Cardinality({f \in group: window \in WindowsOf(f)}) \in 2..Limits.windowFunctions
  /\ Cardinality(ToSet(window)) >= DistinctInBlock

\* The longest run of equal keys through statement i of f and statement j of g.
MaximalRun(f, i, g, j) ==
  LET left  == Features[f].keys
      right == Features[g].keys
      back  == Max({n \in 0..Min({i - FirstCode(f), j - FirstCode(g)}):
                      KeysFrom(f, i - n, n) = KeysFrom(g, j - n, n)})
      From(a, b) ==
        LET length == CommonPrefix(SubSeq(left, a, Len(left)), SubSeq(right, b, Len(right)))
        IN [left |-> Occurrence(f, a, length), right |-> Occurrence(g, b, length)]
  IN From(i - back, j - back)

IsWholeFunction(run) ==
  /\ run.left.length = CodeStatements(run.left.member)
  /\ run.left.length = CodeStatements(run.right.member)

\* The windows that two functions share, whoever else has them.
Matches(p) ==
  {[window |-> Window(p[1], match[1]), run |-> MaximalRun(p[1], match[1], p[2], match[2])]:
     match \in {m \in WindowStarts(p[1]) \X WindowStarts(p[2]):
                  Window(p[1], m[1]) = Window(p[2], m[2])}}

RareRuns(group, rare) ==
  {match.run: match \in {m \in UNION {Matches(p): p \in PairsIn(group)}:
                           m.window \in rare /\ ~ IsWholeFunction(m.run)}}

RunsOf(group) ==
  RareRuns(group, {window \in UNION {WindowsOf(f): f \in group}: IsRareWindow(group, window)})

-----------------------------------------------------------------------------
(***************************************************************************)
(* shared_blocks                                                           *)
(***************************************************************************)
RunKeys(run) == KeysFrom(run.left.member, run.left.start, run.left.length)

Reportable(run, related) ==
  /\ <<run.left.member, run.right.member>> \notin related
  /\ LineCount(run.left) >= BlockLines
  /\ LineCount(run.right) >= BlockLines

\* The occurrences of each run of keys, whichever group they were found in.
OccurrencesByKeys(runs) ==
  {UNION {{run.left, run.right}: run \in {r \in runs: RunKeys(r) = keys}}:
     keys \in {RunKeys(r): r \in runs}}

BlockMembers(occurrences) == {occurrence.member: occurrence \in occurrences}

Overlap(a, b) ==
  /\ a.member = b.member
  /\ a.start < b.start + b.length /\ b.start < a.start + a.length

LongestFirst(occurrences) ==
  LET Key(o) == <<-o.length, Place[o.member], o.start>>
      Rank(o) == Cardinality({other \in occurrences: Earlier(Key(other), Key(o))})
  IN [i \in 1..Cardinality(occurrences) |-> CHOOSE o \in occurrences: Rank(o) = i - 1]

WithoutOverlaps(occurrences) ==
  FoldLeft(LAMBDA kept, o: IF \E other \in kept: Overlap(other, o) THEN kept ELSE kept \cup {o},
           {}, LongestFirst(occurrences))

\* Everything that one set of functions shares is one block.
BlocksOf(found) ==
  {WithoutOverlaps(UNION {f \in found: BlockMembers(f) = members}):
     members \in {BlockMembers(f): f \in found}}

SharedBlocksOf(code, related) ==
  BlocksOf(OccurrencesByKeys(
    {run \in UNION {RunsOf(group): group \in BlockGroups(code)}: Reportable(run, related)}))

=============================================================================
