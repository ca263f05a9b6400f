--------------------------- MODULE FindingsProofs ---------------------------
(***************************************************************************)
(* Theorems about Findings: no target is lost between the assessment and   *)
(* the report, and the report repeats none; an edit joins equal constants  *)
(* only; no edit is of code that is repeated on purpose, nor of two clones *)
(* that diverge; no doubt about code makes an edit of it.                  *)
(*                                                                         *)
(* Lists are sorted by counting what precedes each place, so their lemmas  *)
(* are about counting. On them rest, in the order of the code: the removal *)
(* of repeats and of subsumed targets, the ranking and the first target of *)
(* each ID (Represents); the IDs; the verdict on a draft; the pairs of a   *)
(* cluster and their groups (ListIn); the roles of a function; the caps    *)
(* that roles put on a verdict; what the metrics of a draft are of         *)
(* (Surveyed); the list of drafts (Proper). The invariant Analysed says    *)
(* that targets and report are those of the code and the answers as they   *)
(* are. Two parts follow: two analyses of the same code, every gate of     *)
(* every edit, draft by draft (Doubted, Eased, Counterpart); and clones    *)
(* whose same call has two targets, in each draft over them (Split).       *)
(***************************************************************************)
EXTENDS Findings, FiniteSetTheorems, WellFoundedInduction, TLAPS
-----------------------------------------------------------------------------
(* Counting. The elements of a finite set in a total order are numbered by   *)
(* how many come no later.                                                   *)

UpTo(D, Le, k) == {j \in D : <<j, k>> \in Le}
RankIn(D, Le) == [k \in D |-> Cardinality(UpTo(D, Le, k))]

Total(D, Le) ==
  /\ \A j \in D : <<j, j>> \in Le
  /\ \A j, k \in D : <<j, k>> \in Le \/ <<k, j>> \in Le
  /\ \A j, k \in D : <<j, k>> \in Le /\ <<k, j>> \in Le => j = k
  /\ \A i, j, k \in D : <<i, j>> \in Le /\ <<j, k>> \in Le => <<i, k>> \in Le

(* The number of an element is one of a list as long as the set, and what    *)
(* comes later has a higher one.                                             *)
LEMMA RankRange ==
  ASSUME NEW D, IsFiniteSet(D), NEW Le, Total(D, Le), NEW k \in D
  PROVE  /\ RankIn(D, Le)[k] \in 1..Cardinality(D)
         /\ \A j \in D : <<j, k>> \in Le /\ j # k => RankIn(D, Le)[j] < RankIn(D, Le)[k]
<1>. DEFINE U(i) == UpTo(D, Le, i)
<1>1. \A i \in D : /\ U(i) \subseteq D /\ i \in U(i)
                   /\ IsFiniteSet(U(i)) /\ Cardinality(U(i)) \in Nat
                   /\ Cardinality(U(i)) <= Cardinality(D) /\ Cardinality(U(i)) # 0
  <2>. SUFFICES ASSUME NEW i \in D
                PROVE  /\ U(i) \subseteq D /\ i \in U(i)
                       /\ IsFiniteSet(U(i)) /\ Cardinality(U(i)) \in Nat
                       /\ Cardinality(U(i)) <= Cardinality(D) /\ Cardinality(U(i)) # 0
    OBVIOUS
  <2>1. U(i) \in SUBSET D /\ i \in U(i)
    BY DEF UpTo, Total
  <2>2. IsFiniteSet(U(i)) /\ Cardinality(U(i)) <= Cardinality(D)
    BY <2>1, FS_Subset
  <2>3. Cardinality(U(i)) \in Nat
    BY <2>2, FS_CardinalityType
  <2>4. Cardinality(U(i)) # 0
    BY <2>1, <2>2, FS_EmptySet, Zenon
  <2>. QED BY <2>1, <2>2, <2>3, <2>4
<1>2. Cardinality(D) \in Nat
  BY FS_CardinalityType
<1>3. RankIn(D, Le)[k] \in 1..Cardinality(D)
  BY <1>1, <1>2 DEF RankIn
<1>4. ASSUME NEW j \in D, <<j, k>> \in Le, j # k
      PROVE  RankIn(D, Le)[j] < RankIn(D, Le)[k]
  <2>1. U(j) \subseteq U(k)
    BY <1>4 DEF UpTo, Total
  <2>2. k \notin U(j) /\ k \in U(k)
    BY <1>4 DEF UpTo, Total
  <2>3. Cardinality(U(j)) <= Cardinality(U(k)) /\ Cardinality(U(k)) # Cardinality(U(j))
    <3>1. U(j) \in SUBSET U(k) /\ IsFiniteSet(U(k)) /\ U(j) # U(k)
      BY <1>1, <2>1, <2>2
    <3>. HIDE DEF U
    <3>. QED BY <3>1, FS_Subset
  <2>4. Cardinality(U(j)) \in Nat /\ Cardinality(U(k)) \in Nat
    BY <1>1
  <2>. QED BY <2>3, <2>4 DEF RankIn
<1>. QED BY <1>3, <1>4

(* Every number is that of one element, and of one only.                      *)
Numbered(D, Le) ==
  /\ Cardinality(D) \in Nat
  /\ \A k \in D : RankIn(D, Le)[k] \in 1..Cardinality(D)
  /\ \A j, k \in D : j # k => RankIn(D, Le)[j] # RankIn(D, Le)[k]
  /\ \A i \in 1..Cardinality(D) : \E k \in D : RankIn(D, Le)[k] = i

LEMMA RankNumbers ==
  ASSUME NEW D, IsFiniteSet(D), NEW Le, Total(D, Le)
  PROVE  Numbered(D, Le)
<1>. DEFINE n == Cardinality(D)
            rank == RankIn(D, Le)
<1>1. n \in Nat
  BY FS_CardinalityType
<1>2. \A k \in D : rank[k] \in 1..n
  BY RankRange
<1>3. \A j, k \in D : rank[j] = rank[k] => j = k
  <2>. SUFFICES ASSUME NEW j \in D, NEW k \in D, j # k PROVE rank[j] # rank[k]
    OBVIOUS
  <2>1. <<j, k>> \in Le \/ <<k, j>> \in Le
    BY DEF Total
  <2>2. rank[j] < rank[k] \/ rank[k] < rank[j]
    BY <2>1, RankRange
  <2>3. rank[j] \in Int /\ rank[k] \in Int
    BY <1>2
  <2>. HIDE DEF rank
  <2>. QED BY <2>2, <2>3
<1>4. rank \in Injection(D, 1..n)
  <2>1. rank = [k \in D |-> rank[k]]
    BY DEF RankIn
  <2>. HIDE DEF rank, n
  <2>2. rank \in [D -> 1..n]
    BY <2>1, <1>2
  <2>. QED BY <2>1, <2>2, <1>3 DEF Injection, IsInjective
<1>5. IsFiniteSet(1..n) /\ Cardinality(1..n) = n
  <2>. HIDE DEF n
  <2>1. 1 \in Int /\ n \in Int
    BY <1>1
  <2>. QED BY <2>1, <1>1, FS_Interval
<1>6. rank \in Surjection(D, 1..n)
  <2>1. Cardinality(D) = Cardinality(1..n)
    BY <1>5
  <2>. HIDE DEF rank, n
  <2>. QED BY <1>4, <1>5, <2>1, FS_Injection
<1>7. \A i \in 1..n : \E k \in D : rank[k] = i
  <2>. HIDE DEF rank, n
  <2>. QED BY <1>6 DEF Surjection
<1>. QED BY <1>1, <1>2, <1>3, <1>7 DEF Numbered

(* A set of numbers in ascending order.                                      *)
AscendingOf(order, S) ==
  /\ Cardinality(S) \in Nat
  /\ DOMAIN order = 1..Cardinality(S)
  /\ \A i \in 1..Cardinality(S) : order[i] \in S
  /\ \A i, j \in 1..Cardinality(S) : i < j => order[i] < order[j]
  /\ \A k \in S : \E i \in 1..Cardinality(S) : order[i] = k

LEMMA AscendingList ==
  ASSUME NEW S \in SUBSET Nat, IsFiniteSet(S)
  PROVE  AscendingOf(Ascending(S), S)
<1>. DEFINE Le == {p \in S \X S : p[1] <= p[2]}
            n == Cardinality(S)
            rank == RankIn(S, Le)
            Nth(i) == CHOOSE k \in S : rank[k] = i
<1>1. Total(S, Le)
  <2>1. \A j, k \in S : <<j, k>> \in Le <=> j <= k
    OBVIOUS
  <2>2. \A j \in S : j \in Int
    OBVIOUS
  <2>. HIDE DEF Le
  <2>. QED BY <2>1, <2>2 DEF Total
<1>2. \A k \in S : rank[k] = Cardinality({j \in S : j <= k})
  <2>. SUFFICES ASSUME NEW k \in S PROVE UpTo(S, Le, k) = {j \in S : j <= k}
    BY DEF RankIn
  <2>. QED BY DEF UpTo
<1>3. Numbered(S, Le)
  <2>. HIDE DEF Le
  <2>. QED BY <1>1, RankNumbers
<1>4. \A j, k \in S : j < k => rank[j] < rank[k]
  <2>1. \A j, k \in S : j < k => <<j, k>> \in Le /\ j # k
    OBVIOUS
  <2>. HIDE DEF Le
  <2>. QED BY <1>1, <2>1, RankRange
<1>5. /\ n \in Nat
      /\ \A k \in S : rank[k] \in 1..n
      /\ \A j, k \in S : j # k => rank[j] # rank[k]
      /\ \A i \in 1..n : \E k \in S : rank[k] = i
  <2>. HIDE DEF Le
  <2>. QED BY <1>3 DEF Numbered
<1>6. Ascending(S) = [i \in 1..n |-> Nth(i)]
  <2>. DEFINE Mth(i) == CHOOSE k \in S : Cardinality({j \in S : j <= k}) = i
  <2>1. \A i : Nth(i) = Mth(i)
    <3>. TAKE i
    <3>1. \A k \in S : rank[k] = i <=> Cardinality({j \in S : j <= k}) = i
      BY <1>2
    <3>. HIDE DEF rank, Le
    <3>. QED BY <3>1, Zenon
  <2>2. Ascending(S) = [i \in 1..n |-> Mth(i)]
    BY DEF Ascending
  <2>. HIDE DEF Mth, Nth, n
  <2>. QED BY <2>1, <2>2
<1>. HIDE DEF Le, rank
<1>7. \A i \in 1..n : Nth(i) \in S /\ rank[Nth(i)] = i
  <2>. SUFFICES ASSUME NEW i \in 1..n PROVE Nth(i) \in S /\ rank[Nth(i)] = i
    OBVIOUS
  <2>1. \E k \in S : rank[k] = i
    BY <1>5
  <2>. HIDE DEF n
  <2>. QED BY <2>1
<1>. HIDE DEF Nth
<1>8. \A i \in 1..n : Ascending(S)[i] \in S /\ rank[Ascending(S)[i]] = i
  BY <1>6, <1>7
<1>9. \A i, j \in 1..n : i < j => Ascending(S)[i] < Ascending(S)[j]
  <2>. SUFFICES ASSUME NEW i \in 1..n, NEW j \in 1..n, i < j, ~(Ascending(S)[i] < Ascending(S)[j])
                PROVE  FALSE
    OBVIOUS
  <2>. DEFINE x == Ascending(S)[i]
              y == Ascending(S)[j]
  <2>1. x \in S /\ y \in S /\ rank[x] = i /\ rank[y] = j /\ x \in Nat /\ y \in Nat
    BY <1>8
  <2>2. ~(x < y)
    OBVIOUS
  <2>. HIDE DEF x, y
  <2>3. y < x \/ x = y
    BY <2>1, <2>2
  <2>4. rank[y] < rank[x] \/ rank[x] = rank[y]
    BY <2>1, <2>3, <1>4
  <2>. QED BY <2>1, <2>4, <1>5
<1>10. \A k \in S : Ascending(S)[rank[k]] = k /\ rank[k] \in 1..n
  <2>. SUFFICES ASSUME NEW k \in S PROVE Ascending(S)[rank[k]] = k
    BY <1>5
  <2>. DEFINE i == rank[k]
  <2>1. i \in 1..n /\ rank[k] = i
    BY <1>5
  <2>. HIDE DEF i
  <2>. QED BY <2>1, <1>8, <1>5
<1>11. DOMAIN Ascending(S) = 1..n
  BY <1>6
<1>. QED BY <1>5, <1>8, <1>9, <1>10, <1>11 DEF AscendingOf

(* The items at some places of a list: each of these places once, and        *)
(* nothing else.                                                             *)
Keeps(kept, items, places) ==
  \E m \in Nat :
    /\ DOMAIN kept = 1..m
    /\ \A i \in 1..m : \E k \in places : kept[i] = items[k]
    /\ \A k \in places : \E i \in 1..m : kept[i] = items[k]
    /\ \A i, j \in 1..m : i # j =>
         \E k, q \in places : k # q /\ kept[i] = items[k] /\ kept[j] = items[q]

LEMMA KeptList ==
  ASSUME NEW places \in SUBSET Nat, IsFiniteSet(places), NEW items
  PROVE  Keeps(Kept(items, places), items, places)
<1>. DEFINE order == Ascending(places)
            m == Cardinality(places)
            kept == Kept(items, places)
<1>1. AscendingOf(order, places)
  BY AscendingList
<1>2. /\ m \in Nat
      /\ DOMAIN order = 1..m
      /\ \A i \in 1..m : order[i] \in places
      /\ \A i, j \in 1..m : i < j => order[i] < order[j]
      /\ \A k \in places : \E i \in 1..m : order[i] = k
  <2>. HIDE DEF order
  <2>. QED BY <1>1 DEF AscendingOf
<1>3. kept = [i \in DOMAIN order |-> items[order[i]]]
  BY DEF Kept
<1>. HIDE DEF order, m, kept
<1>4. DOMAIN kept = 1..m /\ \A i \in 1..m : kept[i] = items[order[i]]
  BY <1>2, <1>3
<1>5. \A i \in 1..m : \E k \in places : kept[i] = items[k]
  BY <1>2, <1>4
<1>6. \A k \in places : \E i \in 1..m : kept[i] = items[k]
  BY <1>2, <1>4
<1>7. ASSUME NEW i \in 1..m, NEW j \in 1..m, i # j
      PROVE  \E k, q \in places : k # q /\ kept[i] = items[k] /\ kept[j] = items[q]
  <2>1. order[i] \in Nat /\ order[j] \in Nat
    BY <1>2
  <2>2. order[i] # order[j]
    <3>1. i < j \/ j < i
      BY <1>2, <1>7
    <3>. QED BY <3>1, <2>1, <1>2
  <2>. QED BY <2>2, <1>2, <1>4
<1>. QED BY <1>2, <1>4, <1>5, <1>6, <1>7 DEF Keeps, kept

(* The same items in another order.                                          *)
Rearranges(sorted, items, n) ==
  /\ DOMAIN sorted = 1..n
  /\ \A i \in 1..n : \E k \in 1..n : sorted[i] = items[k]
  /\ \A k \in 1..n : \E i \in 1..n : sorted[i] = items[k]
  /\ \A i, j \in 1..n : i # j =>
       \E k, q \in 1..n : k # q /\ sorted[i] = items[k] /\ sorted[j] = items[q]

Arranged(items, n, Le) ==
  [i \in 1..n |-> items[CHOOSE k \in 1..n : RankIn(1..n, Le)[k] = i]]

LEMMA ArrangedRearranges ==
  ASSUME NEW n \in Nat, NEW items, NEW Le, Total(1..n, Le)
  PROVE  Rearranges(Arranged(items, n, Le), items, n)
<1>. DEFINE sorted == Arranged(items, n, Le)
            D == 1..n
            rank == RankIn(D, Le)
            Nth(i) == CHOOSE k \in D : rank[k] = i
<1>1. IsFiniteSet(D) /\ Cardinality(D) = n
  <2>1. 1 \in Int /\ n \in Int
    OBVIOUS
  <2>. QED BY <2>1, FS_Interval
<1>2. Numbered(D, Le)
  <2>. HIDE DEF D
  <2>1. Total(D, Le)
    BY DEF D
  <2>. QED BY <1>1, <2>1, RankNumbers
<1>3. /\ \A k \in D : rank[k] \in 1..n
      /\ \A j, k \in D : j # k => rank[j] # rank[k]
      /\ \A i \in 1..n : \E k \in D : rank[k] = i
  <2>. HIDE DEF D
  <2>. QED BY <1>1, <1>2 DEF Numbered
<1>4. sorted = [i \in D |-> items[Nth(i)]]
  BY DEF Arranged
<1>. HIDE DEF rank, sorted
<1>5. \A i \in D : Nth(i) \in D /\ rank[Nth(i)] = i
  <2>. SUFFICES ASSUME NEW i \in D PROVE Nth(i) \in D /\ rank[Nth(i)] = i
    OBVIOUS
  <2>1. \E k \in D : rank[k] = i
    BY <1>3
  <2>. HIDE DEF D
  <2>. QED BY <2>1
<1>. HIDE DEF Nth
<1>6. DOMAIN sorted = D /\ \A i \in D : sorted[i] = items[Nth(i)]
  BY <1>4
<1>7. \A i \in D : \E k \in D : sorted[i] = items[k]
  BY <1>5, <1>6
<1>8. ASSUME NEW k \in D PROVE \E i \in D : sorted[i] = items[k]
  <2>1. rank[k] \in D /\ Nth(rank[k]) \in D /\ rank[Nth(rank[k])] = rank[k]
    BY <1>3, <1>5
  <2>2. Nth(rank[k]) = k
    BY <2>1, <1>3
  <2>. QED BY <2>1, <2>2, <1>6
<1>9. ASSUME NEW i \in D, NEW j \in D, i # j
      PROVE  \E k, q \in D : k # q /\ sorted[i] = items[k] /\ sorted[j] = items[q]
  <2>1. Nth(i) \in D /\ Nth(j) \in D /\ Nth(i) # Nth(j)
    BY <1>5, <1>9
  <2>2. sorted[i] = items[Nth(i)] /\ sorted[j] = items[Nth(j)]
    BY <1>6
  <2>. HIDE DEF D
  <2>. QED BY <2>1, <2>2, Zenon
<1>. QED BY <1>6, <1>7, <1>8, <1>9, Zenon DEF Rearranges, sorted

(* A nonempty finite set in a total order has a first element.               *)
LEMMA FirstExists ==
  ASSUME NEW D, IsFiniteSet(D), D # {}, NEW Le, Total(D, Le)
  PROVE  \E j \in D : \A k \in D : <<j, k>> \in Le
<1>. DEFINE rank == RankIn(D, Le)
<1>1. Numbered(D, Le)
  BY RankNumbers
<1>2. /\ Cardinality(D) \in Nat
      /\ \A k \in D : rank[k] \in 1..Cardinality(D)
      /\ \A i \in 1..Cardinality(D) : \E k \in D : rank[k] = i
  BY <1>1 DEF Numbered
<1>3. \A j, k \in D : <<j, k>> \in Le /\ j # k => rank[j] < rank[k]
  BY RankRange
<1>4. PICK d \in D : TRUE
  OBVIOUS
<1>. HIDE DEF rank
<1>5. rank[d] \in 1..Cardinality(D)
  BY <1>2
<1>6. 1 \in 1..Cardinality(D)
  BY <1>2, <1>5
<1>7. PICK j \in D : rank[j] = 1
  BY <1>2, <1>6
<1>8. ASSUME NEW k \in D PROVE <<j, k>> \in Le
  <2>1. CASE k = j
    BY <2>1 DEF Total
  <2>2. CASE k # j
    <3>1. <<j, k>> \in Le \/ <<k, j>> \in Le
      BY DEF Total
    <3>2. <<k, j>> \in Le => rank[k] < 1
      BY <2>2, <1>3, <1>7
    <3>3. rank[k] \in 1..Cardinality(D)
      BY <1>2
    <3>4. ~(rank[k] < 1)
      BY <3>3, <1>2
    <3>. QED BY <3>1, <3>2, <3>4
  <2>. QED BY <2>1, <2>2
<1>. QED BY <1>8

LEMMA TotalOfPart ==
  ASSUME NEW D, NEW Le, Total(D, Le), NEW P \in SUBSET D
  PROVE  Total(P, Le)
<1>1. \A x \in P : x \in D
  OBVIOUS
<1>. QED BY <1>1 DEF Total

(* Numbered things in the order of three numbers of each, and of their place *)
(* when these are equal.                                                     *)
ByThree(a, b, c, j, k) ==
  \/ a[j] < a[k]
  \/ /\ a[j] = a[k]
     /\ \/ b[j] < b[k]
        \/ b[j] = b[k] /\ (c[j] < c[k] \/ (c[j] = c[k] /\ j <= k))

LEMMA ThreeTotal ==
  ASSUME NEW n \in Nat, NEW a, NEW b, NEW c,
         \A i \in 1..n : a[i] \in Int /\ b[i] \in Int /\ c[i] \in Int,
         NEW Le, \A j, k \in 1..n : <<j, k>> \in Le <=> ByThree(a, b, c, j, k)
  PROVE  Total(1..n, Le)
<1>1. \A j \in 1..n : <<j, j>> \in Le
  BY DEF ByThree
<1>2. ASSUME NEW j \in 1..n, NEW k \in 1..n
      PROVE  /\ <<j, k>> \in Le \/ <<k, j>> \in Le
             /\ <<j, k>> \in Le /\ <<k, j>> \in Le => j = k
  <2>1. /\ a[j] \in Int /\ b[j] \in Int /\ c[j] \in Int /\ j \in Int
        /\ a[k] \in Int /\ b[k] \in Int /\ c[k] \in Int /\ k \in Int
    OBVIOUS
  <2>2. ByThree(a, b, c, j, k) \/ ByThree(a, b, c, k, j)
    BY <2>1 DEF ByThree
  <2>3. ByThree(a, b, c, j, k) /\ ByThree(a, b, c, k, j) => j = k
    BY <2>1 DEF ByThree
  <2>. QED BY <2>2, <2>3
<1>4. \A i, j, k \in 1..n : <<i, j>> \in Le /\ <<j, k>> \in Le => <<i, k>> \in Le
  <2>. SUFFICES ASSUME NEW i \in 1..n, NEW j \in 1..n, NEW k \in 1..n,
                       <<i, j>> \in Le, <<j, k>> \in Le
                PROVE  <<i, k>> \in Le
    OBVIOUS
  <2>1. ByThree(a, b, c, i, j) /\ ByThree(a, b, c, j, k)
    OBVIOUS
  <2>2. ByThree(a, b, c, i, k)
    BY <2>1 DEF ByThree
  <2>. QED BY <2>2
<1>. QED BY <1>1, <1>2, <1>4 DEF Total

-----------------------------------------------------------------------------
(* The report of a list of targets.                                         *)

(* A target that can be ranked.                                              *)
Rated(t) ==
  /\ TierRank(t.tier) \in Int
  /\ t.score \in Int
  /\ TitleRank(t.title) \in Int

RatedList(found, n) ==
  /\ n \in Nat
  /\ DOMAIN found = 1..n
  /\ \A i \in 1..n : Rated(found[i])

LEMMA StrongerInOrder ==
  ASSUME NEW t, Rated(t), NEW u, Rated(u)
  PROVE  Stronger(t, u) <=>
           \/ TierRank(t.tier) < TierRank(u.tier)
           \/ /\ TierRank(t.tier) = TierRank(u.tier)
              /\ \/ u.score < t.score
                 \/ u.score = t.score /\ TitleRank(t.title) < TitleRank(u.title)
<1>. DEFINE s == SortKey(t)
            r == SortKey(u)
            a == TierRank(t.tier)
            b == t.score
            c == TitleRank(t.title)
            d == TierRank(u.tier)
            e == u.score
            f == TitleRank(u.title)
<1>1. s = <<a, -b, c>> /\ r = <<d, -e, f>>
  BY DEF SortKey
<1>2. /\ a \in Int /\ b \in Int /\ c \in Int
      /\ d \in Int /\ e \in Int /\ f \in Int
  BY DEF Rated
<1>3. Stronger(t, u) <=> Precedes(s, r)
  BY DEF Stronger
<1>. HIDE DEF s, r, a, b, c, d, e, f
<1>4. DOMAIN s = {1, 2, 3} /\ s[1] = a /\ s[2] = -b /\ s[3] = c
        /\ r[1] = d /\ r[2] = -e /\ r[3] = f
  BY <1>1
<1>5. Precedes(s, r) <=> \E i \in {1, 2, 3} : s[i] < r[i] /\ \A j \in 1..i - 1 : s[j] = r[j]
  BY <1>4 DEF Precedes
<1>6. /\ 1..1 - 1 = {}
      /\ 1..2 - 1 = {1}
      /\ 1..3 - 1 = {1, 2}
  OBVIOUS
<1>7. Precedes(s, r) <=> \/ s[1] < r[1]
                         \/ s[2] < r[2] /\ s[1] = r[1]
                         \/ s[3] < r[3] /\ s[1] = r[1] /\ s[2] = r[2]
  BY <1>5, <1>6
<1>8. Precedes(s, r) <=> \/ a < d
                         \/ a = d /\ (e < b \/ (e = b /\ c < f))
  BY <1>7, <1>4, <1>2
<1>. QED BY <1>3, <1>8 DEF a, b, c, d, e, f

(* The order of a list of targets: the stronger first, then in their order.  *)
Order(found, n) ==
  {p \in (1..n) \X (1..n) : \/ Stronger(found[p[1]], found[p[2]])
                            \/ p[1] <= p[2] /\ ~Stronger(found[p[2]], found[p[1]])}

LEMMA OrderTotal ==
  ASSUME NEW n, NEW found, RatedList(found, n)
  PROVE  Total(1..n, Order(found, n))
<1>. DEFINE a == [i \in 1..n |-> TierRank(found[i].tier)]
            b == [i \in 1..n |-> -found[i].score]
            c == [i \in 1..n |-> TitleRank(found[i].title)]
            Le == Order(found, n)
<1>1. n \in Nat /\ \A i \in 1..n : Rated(found[i])
  BY DEF RatedList
<1>2. \A i \in 1..n : a[i] \in Int /\ b[i] \in Int /\ c[i] \in Int
  BY <1>1 DEF Rated
<1>3. ASSUME NEW j \in 1..n, NEW k \in 1..n
      PROVE  <<j, k>> \in Le <=> ByThree(a, b, c, j, k)
  <2>. DEFINE t == found[j]
              u == found[k]
  <2>1. Rated(t) /\ Rated(u)
    BY <1>1
  <2>2. <<j, k>> \in Le <=> Stronger(t, u) \/ (j <= k /\ ~Stronger(u, t))
    BY DEF Order
  <2>3. /\ a[j] = TierRank(t.tier) /\ a[k] = TierRank(u.tier)
        /\ b[j] = -t.score /\ b[k] = -u.score
        /\ c[j] = TitleRank(t.title) /\ c[k] = TitleRank(u.title)
    OBVIOUS
  <2>4. t.score \in Int /\ u.score \in Int
    BY <2>1 DEF Rated
  <2>. HIDE DEF a, b, c, t, u, Le
  <2>5. Stronger(t, u) <=>
           \/ a[j] < a[k]
           \/ a[j] = a[k] /\ (b[j] < b[k] \/ (b[j] = b[k] /\ c[j] < c[k]))
    BY <2>1, <2>3, <2>4, StrongerInOrder
  <2>6. Stronger(u, t) <=>
           \/ a[k] < a[j]
           \/ a[k] = a[j] /\ (b[k] < b[j] \/ (b[k] = b[j] /\ c[k] < c[j]))
    BY <2>1, <2>3, <2>4, StrongerInOrder
  <2>7. ByThree(a, b, c, j, k) <=>
          \/ a[j] < a[k]
          \/ /\ a[j] = a[k]
             /\ \/ b[j] < b[k]
                \/ b[j] = b[k] /\ (c[j] < c[k] \/ (c[j] = c[k] /\ j <= k))
    BY DEF ByThree
  <2>8. /\ a[j] \in Int /\ b[j] \in Int /\ c[j] \in Int
        /\ a[k] \in Int /\ b[k] \in Int /\ c[k] \in Int
    BY <1>2
  <2>. QED BY <2>2, <2>5, <2>6, <2>7, <2>8
<1>. HIDE DEF a, b, c, Le
<1>4. Total(1..n, Le)
  BY <1>1, <1>2, <1>3, ThreeTotal
<1>. QED BY <1>4 DEF Le

(* One list of targets represents another: it is made of its targets, and    *)
(* each target of the other has one over all its locations that ranks at     *)
(* least as high by tier.                                                    *)
Represents(kept, m, found, n) ==
  /\ RatedList(kept, m)
  /\ \A i \in 1..m : \E k \in 1..n : kept[i] = found[k]
  /\ \A k \in 1..n : \E i \in 1..m : /\ found[k].locations \subseteq kept[i].locations
                                     /\ TierRank(kept[i].tier) <= TierRank(found[k].tier)

(* No two targets of a list are over the same locations.                     *)
Distinct(found, n) ==
  \A i, j \in 1..n : i # j => found[i].locations # found[j].locations

LEMMA RepresentsTransitive ==
  ASSUME NEW a, NEW l, NEW b, NEW m, NEW c, NEW n, RatedList(c, n),
         Represents(b, m, c, n), Represents(a, l, b, m)
  PROVE  Represents(a, l, c, n)
<1>1. RatedList(a, l) /\ RatedList(b, m)
  BY DEF Represents
<1>2. \A i \in 1..l : \E k \in 1..n : a[i] = c[k]
  BY DEF Represents
<1>3. ASSUME NEW k \in 1..n
      PROVE  \E i \in 1..l : /\ c[k].locations \subseteq a[i].locations
                             /\ TierRank(a[i].tier) <= TierRank(c[k].tier)
  <2>1. PICK j \in 1..m : /\ c[k].locations \subseteq b[j].locations
                          /\ TierRank(b[j].tier) <= TierRank(c[k].tier)
    BY DEF Represents
  <2>2. PICK i \in 1..l : /\ b[j].locations \subseteq a[i].locations
                          /\ TierRank(a[i].tier) <= TierRank(b[j].tier)
    BY DEF Represents
  <2>3. /\ TierRank(a[i].tier) \in Int /\ TierRank(b[j].tier) \in Int
        /\ TierRank(c[k].tier) \in Int
    BY <1>1 DEF RatedList, Rated
  <2>4. TierRank(a[i].tier) <= TierRank(c[k].tier)
    BY <2>1, <2>2, <2>3
  <2>5. c[k].locations \subseteq a[i].locations
    BY <2>1, <2>2
  <2>. QED BY <2>4, <2>5
<1>. QED BY <1>1, <1>2, <1>3 DEF Represents

LEMMA LeastNumber ==
  ASSUME NEW S \in SUBSET Nat, IsFiniteSet(S), S # {}
  PROVE  \E j \in S : \A k \in S : j <= k
<1>. DEFINE Le == {p \in S \X S : p[1] <= p[2]}
<1>1. \A j, k \in S : <<j, k>> \in Le <=> j <= k
  OBVIOUS
<1>2. \A j \in S : j \in Int
  OBVIOUS
<1>. HIDE DEF Le
<1>3. Total(S, Le)
  BY <1>1, <1>2 DEF Total
<1>. QED BY <1>1, <1>3, FirstExists

(* Of repeats the strongest is kept.                                         *)
LEMMA DedupeRepresents ==
  ASSUME NEW n, NEW found, RatedList(found, n)
  PROVE  \E m \in Nat : /\ Represents(DedupeEquivalent(found), m, found, n)
                        /\ Distinct(DedupeEquivalent(found), m)
<1>. DEFINE D == DOMAIN found
            Over(i) == {j \in D : found[j].locations = found[i].locations}
            IsBest(i, j) == \A k \in Over(i) : /\ ~Stronger(found[k], found[j])
                                               /\ k < j => Stronger(found[j], found[k])
            Best(i) == CHOOSE j \in Over(i) : IsBest(i, j)
            best == [i \in D |-> found[Best(i)]]
            firsts == {i \in D : \A j \in Over(i) : i <= j}
            kept == Kept(best, firsts)
            Le == Order(found, n)
<1>1. n \in Nat /\ D = 1..n /\ \A i \in D : Rated(found[i])
  BY DEF RatedList
<1>2. IsFiniteSet(D)
  <2>1. 1 \in Int /\ n \in Int
    BY <1>1
  <2>. QED BY <1>1, <2>1, FS_Interval
<1>3. DedupeEquivalent(found) = kept
  BY DEF DedupeEquivalent
<1>4. Total(D, Le)
  BY <1>1, OrderTotal
<1>5. \A j, k \in D : <<j, k>> \in Le <=>
                        Stronger(found[j], found[k]) \/ (j <= k /\ ~Stronger(found[k], found[j]))
  BY <1>1 DEF Order
<1>6. \A j, k \in D : Stronger(found[j], found[k]) => ~Stronger(found[k], found[j])
  <2>. SUFFICES ASSUME NEW j \in D, NEW k \in D, Stronger(found[j], found[k])
                PROVE  ~Stronger(found[k], found[j])
    OBVIOUS
  <2>1. Rated(found[j]) /\ Rated(found[k])
    BY <1>1
  <2>. QED BY <2>1, StrongerInOrder DEF Rated
<1>7. \A j, k \in D : ~Stronger(found[k], found[j]) =>
                        TierRank(found[j].tier) <= TierRank(found[k].tier)
  <2>. SUFFICES ASSUME NEW j \in D, NEW k \in D, ~Stronger(found[k], found[j])
                PROVE  TierRank(found[j].tier) <= TierRank(found[k].tier)
    OBVIOUS
  <2>1. Rated(found[j]) /\ Rated(found[k])
    BY <1>1
  <2>. QED BY <2>1, StrongerInOrder DEF Rated
<1>8. \A i \in D : /\ Over(i) \in SUBSET D /\ i \in Over(i)
                   /\ IsFiniteSet(Over(i)) /\ Over(i) # {}
  BY <1>2, FS_Subset
<1>. HIDE DEF D, Le, Over
<1>9. ASSUME NEW i \in D PROVE \E j \in Over(i) : IsBest(i, j)
  <2>1. Total(Over(i), Le)
    BY <1>4, <1>8, TotalOfPart
  <2>2. PICK j \in Over(i) : \A k \in Over(i) : <<j, k>> \in Le
    BY <1>8, <2>1, FirstExists
  <2>3. ASSUME NEW k \in Over(i)
        PROVE  ~Stronger(found[k], found[j]) /\ (k < j => Stronger(found[j], found[k]))
    <3>1. j \in D /\ k \in D
      BY <1>8
    <3>2. Stronger(found[j], found[k]) \/ (j <= k /\ ~Stronger(found[k], found[j]))
      BY <3>1, <2>2, <1>5
    <3>3. j \in Nat /\ k \in Nat
      BY <3>1, <1>1
    <3>. QED BY <3>1, <3>2, <3>3, <1>6
  <2>. QED BY <2>3
<1>10. \A i \in D : Best(i) \in Over(i) /\ IsBest(i, Best(i))
  <2>. HIDE DEF IsBest
  <2>. QED BY <1>9
<1>11. \A i \in D, k \in D : k \in Over(i) =>
          /\ Best(i) \in D
          /\ found[Best(i)].locations = found[k].locations
          /\ TierRank(found[Best(i)].tier) <= TierRank(found[k].tier)
  <2>. SUFFICES ASSUME NEW i \in D, NEW k \in D, k \in Over(i)
                PROVE  /\ Best(i) \in D
                       /\ found[Best(i)].locations = found[k].locations
                       /\ TierRank(found[Best(i)].tier) <= TierRank(found[k].tier)
    OBVIOUS
  <2>. DEFINE b == Best(i)
  <2>1. b \in Over(i) /\ IsBest(i, b)
    BY <1>10
  <2>. HIDE DEF b
  <2>2. b \in D /\ ~Stronger(found[k], found[b])
    BY <2>1, <1>8
  <2>3. found[b].locations = found[k].locations
    BY <2>1 DEF Over
  <2>4. TierRank(found[b].tier) <= TierRank(found[k].tier)
    BY <2>2, <1>7
  <2>. QED BY <2>2, <2>3, <2>4 DEF b
<1>. HIDE DEF Best, best, firsts
<1>12. firsts \in SUBSET Nat /\ IsFiniteSet(firsts) /\ firsts \subseteq D
  <2>1. firsts \in SUBSET D
    BY DEF firsts
  <2>2. IsFiniteSet(firsts)
    BY <2>1, <1>2, FS_Subset
  <2>3. \A i \in D : i \in Nat
    BY <1>1
  <2>. QED BY <2>1, <2>2, <2>3
<1>13. Keeps(kept, best, firsts)
  BY <1>12, KeptList
<1>14. PICK m \in Nat :
          /\ DOMAIN kept = 1..m
          /\ \A i \in 1..m : \E k \in firsts : kept[i] = best[k]
          /\ \A k \in firsts : \E i \in 1..m : kept[i] = best[k]
          /\ \A i, j \in 1..m : i # j =>
               \E k, q \in firsts : k # q /\ kept[i] = best[k] /\ kept[j] = best[q]
  <2>. HIDE DEF kept
  <2>. QED BY <1>13 DEF Keeps
<1>. HIDE DEF kept
<1>15. \A k \in D : best[k] = found[Best(k)]
  BY DEF best
<1>16. ASSUME NEW i \in 1..m PROVE \E k \in D : kept[i] = found[k]
  <2>1. PICK k \in firsts : kept[i] = best[k]
    BY <1>14
  <2>2. k \in D /\ k \in Over(k)
    BY <1>8, <1>12
  <2>3. Best(k) \in D /\ kept[i] = found[Best(k)]
    BY <2>1, <2>2, <1>11, <1>15
  <2>. QED BY <2>3
<1>17. \A i \in 1..m : Rated(kept[i])
  BY <1>16, <1>1
<1>18. ASSUME NEW k \in D
       PROVE  \E i \in 1..m : /\ found[k].locations \subseteq kept[i].locations
                              /\ TierRank(kept[i].tier) <= TierRank(found[k].tier)
  <2>1. Over(k) \in SUBSET Nat /\ IsFiniteSet(Over(k)) /\ Over(k) # {}
    BY <1>1, <1>8
  <2>2. PICK q \in Over(k) : \A j \in Over(k) : q <= j
    BY <2>1, LeastNumber
  <2>3. q \in D /\ Over(q) = Over(k)
    BY DEF Over
  <2>4. q \in firsts
    BY <2>2, <2>3 DEF firsts
  <2>5. PICK i \in 1..m : kept[i] = best[q]
    BY <2>4, <1>14
  <2>6. k \in Over(q)
    BY <2>3, <1>8
  <2>7. /\ found[Best(q)].locations = found[k].locations
        /\ TierRank(found[Best(q)].tier) <= TierRank(found[k].tier)
    BY <2>3, <2>6, <1>11
  <2>8. kept[i] = found[Best(q)]
    BY <2>3, <2>5, <1>15
  <2>. QED BY <2>7, <2>8
<1>19. Represents(kept, m, found, n)
  BY <1>1, <1>14, <1>16, <1>17, <1>18 DEF Represents, RatedList
<1>20. ASSUME NEW i \in 1..m, NEW j \in 1..m, i # j, kept[i].locations = kept[j].locations
       PROVE  FALSE
  <2>1. PICK k \in firsts, q \in firsts : k # q /\ kept[i] = best[k] /\ kept[j] = best[q]
    BY <1>14, <1>20
  <2>2. k \in D /\ q \in D
    BY <1>12
  <2>3. /\ found[Best(k)].locations = found[k].locations
        /\ found[Best(q)].locations = found[q].locations
    BY <2>2, <1>8, <1>11
  <2>4. found[k].locations = found[q].locations
    BY <1>20, <2>1, <2>2, <2>3, <1>15
  <2>5. q \in Over(k) /\ k \in Over(q)
    BY <2>2, <2>4 DEF Over
  <2>6. k <= q /\ q <= k
    BY <2>5 DEF firsts
  <2>7. k \in Nat /\ q \in Nat
    BY <2>2, <1>1
  <2>. QED BY <2>1, <2>6, <2>7
<1>21. Distinct(kept, m)
  BY <1>20 DEF Distinct
<1>. QED BY <1>3, <1>14, <1>19, <1>21

(* What another target subsumes is dropped only while a target over more     *)
(* locations stays: of those that subsume it, one over the most.             *)
LEMMA DropRepresents ==
  ASSUME NEW n, NEW found, RatedList(found, n), Distinct(found, n)
  PROVE  \E m \in Nat : /\ Represents(DropSubsumed(found), m, found, n)
                        /\ Distinct(DropSubsumed(found), m)
<1>. DEFINE D == DOMAIN found
            places == {i \in D : ~\E u \in ToSet(found) : Subsumes(u, found[i])}
            kept == Kept(found, places)
            Inside(j) == {k \in D : found[k].locations \subseteq found[j].locations}
            size == [j \in D |-> Cardinality(Inside(j))]
            Over(i) == {j \in D : /\ found[i].locations \subseteq found[j].locations
                                  /\ TierRank(found[j].tier) <= TierRank(found[i].tier)}
<1>1. n \in Nat /\ D = 1..n /\ \A i \in D : Rated(found[i])
  BY DEF RatedList
<1>2. IsFiniteSet(D)
  <2>1. 1 \in Int /\ n \in Int
    BY <1>1
  <2>. QED BY <1>1, <2>1, FS_Interval
<1>3. DropSubsumed(found) = kept
  BY DEF DropSubsumed
<1>4. \A i \in D : (\E u \in ToSet(found) : Subsumes(u, found[i])) =>
                    \E k \in D : Subsumes(found[k], found[i])
  BY DEF ToSet
<1>5. \A i \in D : TierRank(found[i].tier) \in Int
  BY <1>1 DEF Rated
<1>6. \A j \in D : Inside(j) \in SUBSET D /\ j \in Inside(j)
  OBVIOUS
<1>7. \A i \in D : Over(i) \in SUBSET D /\ i \in Over(i)
  BY <1>5
<1>. HIDE DEF D, Inside, Over
<1>8. \A j \in D : IsFiniteSet(Inside(j)) /\ size[j] \in Nat
  <2>. SUFFICES ASSUME NEW j \in D PROVE IsFiniteSet(Inside(j)) /\ size[j] \in Nat
    OBVIOUS
  <2>1. IsFiniteSet(Inside(j))
    BY <1>2, <1>6, FS_Subset
  <2>. QED BY <2>1, FS_CardinalityType
<1>9. \A j, k \in D : Subsumes(found[k], found[j]) => size[j] < size[k]
  <2>. SUFFICES ASSUME NEW j \in D, NEW k \in D, Subsumes(found[k], found[j])
                PROVE  size[j] < size[k]
    OBVIOUS
  <2>1. /\ found[j].locations \subseteq found[k].locations
        /\ found[j].locations # found[k].locations
    BY DEF Subsumes
  <2>2. Inside(j) \in SUBSET Inside(k)
    BY <2>1 DEF Inside
  <2>3. k \in Inside(k) /\ k \notin Inside(j)
    BY <1>6, <2>1 DEF Inside
  <2>4. IsFiniteSet(Inside(k)) /\ size[j] \in Nat /\ size[k] \in Nat
    BY <1>8
  <2>5. Cardinality(Inside(j)) <= Cardinality(Inside(k))
          /\ Cardinality(Inside(j)) # Cardinality(Inside(k))
    BY <2>2, <2>3, <2>4, FS_Subset
  <2>. QED BY <2>4, <2>5
<1>. HIDE DEF size
<1>10. ASSUME NEW i \in D
       PROVE  \E j \in places : j \in Over(i)
  <2>. DEFINE sizes == {size[j] : j \in Over(i)}
              Le == {p \in Over(i) \X Over(i) : \/ size[p[2]] < size[p[1]]
                                                \/ size[p[1]] = size[p[2]] /\ p[1] <= p[2]}
  <2>1. IsFiniteSet(Over(i)) /\ Over(i) # {}
    BY <1>2, <1>7, FS_Subset
  <2>2. \A j, k \in Over(i) : <<j, k>> \in Le <=>
            size[k] < size[j] \/ (size[j] = size[k] /\ j <= k)
    OBVIOUS
  <2>3. \A j \in Over(i) : size[j] \in Nat /\ j \in Nat
    BY <1>1, <1>7, <1>8
  <2>. HIDE DEF Le
  <2>4. Total(Over(i), Le)
    BY <2>2, <2>3 DEF Total
  <2>5. PICK j \in Over(i) : \A k \in Over(i) : <<j, k>> \in Le
    BY <2>1, <2>4, FirstExists
  <2>6. ASSUME NEW k \in D, Subsumes(found[k], found[j]) PROVE FALSE
    <3>1. j \in D
      BY <1>7
    <3>2. size[j] < size[k]
      BY <2>6, <3>1, <1>9
    <3>3. /\ found[i].locations \subseteq found[j].locations
          /\ TierRank(found[j].tier) <= TierRank(found[i].tier)
      BY DEF Over
    <3>4. /\ found[j].locations \subseteq found[k].locations
          /\ TierRank(found[k].tier) <= TierRank(found[j].tier)
      BY <2>6 DEF Subsumes
    <3>5. TierRank(found[k].tier) <= TierRank(found[i].tier)
      BY <3>1, <3>3, <3>4, <1>5
    <3>6. k \in Over(i)
      BY <3>3, <3>4, <3>5 DEF Over
    <3>7. size[k] < size[j] \/ size[j] = size[k]
      BY <3>6, <2>5, <2>2
    <3>. QED BY <3>2, <3>6, <3>7, <2>3
  <2>7. j \in places
    BY <2>6, <1>4, <1>7
  <2>. QED BY <2>7
<1>. HIDE DEF places
<1>11. places \in SUBSET Nat /\ IsFiniteSet(places) /\ places \subseteq D
  <2>1. places \in SUBSET D
    BY DEF places
  <2>2. IsFiniteSet(places)
    BY <2>1, <1>2, FS_Subset
  <2>3. \A i \in D : i \in Nat
    BY <1>1
  <2>. QED BY <2>1, <2>2, <2>3
<1>12. Keeps(kept, found, places)
  BY <1>11, KeptList
<1>13. PICK m \in Nat :
          /\ DOMAIN kept = 1..m
          /\ \A i \in 1..m : \E k \in places : kept[i] = found[k]
          /\ \A k \in places : \E i \in 1..m : kept[i] = found[k]
          /\ \A i, j \in 1..m : i # j =>
               \E k, q \in places : k # q /\ kept[i] = found[k] /\ kept[j] = found[q]
  <2>. HIDE DEF kept
  <2>. QED BY <1>12 DEF Keeps
<1>. HIDE DEF kept
<1>14. \A i \in 1..m : \E k \in D : kept[i] = found[k]
  BY <1>11, <1>13
<1>15. \A i \in 1..m : Rated(kept[i])
  BY <1>14, <1>1
<1>16. ASSUME NEW k \in D
       PROVE  \E i \in 1..m : /\ found[k].locations \subseteq kept[i].locations
                              /\ TierRank(kept[i].tier) <= TierRank(found[k].tier)
  <2>1. PICK j \in places : j \in Over(k)
    BY <1>10
  <2>2. PICK i \in 1..m : kept[i] = found[j]
    BY <1>13
  <2>. QED BY <2>1, <2>2 DEF Over
<1>17. Represents(kept, m, found, n)
  BY <1>1, <1>13, <1>14, <1>15, <1>16 DEF Represents, RatedList
<1>18. ASSUME NEW i \in 1..m, NEW j \in 1..m, i # j
       PROVE  kept[i].locations # kept[j].locations
  <2>1. PICK k \in places, q \in places : k # q /\ kept[i] = found[k] /\ kept[j] = found[q]
    BY <1>13, <1>18
  <2>2. k \in 1..n /\ q \in 1..n
    BY <1>1, <1>11
  <2>. QED BY <2>1, <2>2 DEF Distinct
<1>19. Distinct(kept, m)
  BY <1>18 DEF Distinct
<1>. QED BY <1>3, <1>13, <1>17, <1>19

(* A rearranged list represents the list.                                    *)
LEMMA RearrangedRepresents ==
  ASSUME NEW n, NEW found, RatedList(found, n), Distinct(found, n),
         NEW sorted, Rearranges(sorted, found, n)
  PROVE  Represents(sorted, n, found, n) /\ Distinct(sorted, n)
<1>1. /\ n \in Nat
      /\ DOMAIN sorted = 1..n
      /\ \A i \in 1..n : \E k \in 1..n : sorted[i] = found[k]
      /\ \A k \in 1..n : \E i \in 1..n : sorted[i] = found[k]
      /\ \A i, j \in 1..n : i # j =>
           \E k, q \in 1..n : k # q /\ sorted[i] = found[k] /\ sorted[j] = found[q]
  BY DEF Rearranges, RatedList
<1>2. \A i \in 1..n : Rated(found[i])
  BY DEF RatedList
<1>3. \A i \in 1..n : Rated(sorted[i])
  BY <1>1, <1>2
<1>4. ASSUME NEW k \in 1..n
      PROVE  \E i \in 1..n : /\ found[k].locations \subseteq sorted[i].locations
                             /\ TierRank(sorted[i].tier) <= TierRank(found[k].tier)
  <2>1. PICK i \in 1..n : sorted[i] = found[k]
    BY <1>1
  <2>2. TierRank(found[k].tier) \in Int
    BY <1>2 DEF Rated
  <2>. QED BY <2>1, <2>2
<1>5. Represents(sorted, n, found, n)
  BY <1>1, <1>3, <1>4 DEF Represents, RatedList
<1>6. ASSUME NEW i \in 1..n, NEW j \in 1..n, i # j
      PROVE  sorted[i].locations # sorted[j].locations
  <2>1. PICK k \in 1..n, q \in 1..n : k # q /\ sorted[i] = found[k] /\ sorted[j] = found[q]
    BY <1>1, <1>6
  <2>. QED BY <2>1 DEF Distinct
<1>. QED BY <1>5, <1>6 DEF Distinct

LEMMA RankedRepresents ==
  ASSUME NEW n, NEW found, RatedList(found, n), Distinct(found, n)
  PROVE  Represents(Ranked(found), n, found, n) /\ Distinct(Ranked(found), n)
<1>. DEFINE D == 1..n
            Le == Order(found, n)
            Ahead(j, k) == \/ Stronger(found[j], found[k])
                           \/ j <= k /\ ~Stronger(found[k], found[j])
            place == [k \in D |-> Cardinality({j \in D : Ahead(j, k)})]
            Nth(i) == CHOOSE k \in D : place[k] = i
            rank == RankIn(D, Le)
<1>1. n \in Nat /\ DOMAIN found = D
  BY DEF RatedList
<1>2. Ranked(found) = [i \in D |-> found[Nth(i)]]
  BY <1>1 DEF Ranked, Sorted
<1>3. place = rank
  <2>1. \A k \in D : UpTo(D, Le, k) = {j \in D : Ahead(j, k)}
    BY DEF UpTo, Order
  <2>. QED BY <2>1 DEF RankIn
<1>4. Ranked(found) = [i \in D |-> found[CHOOSE k \in D : rank[k] = i]]
  <2>. HIDE DEF place, rank
  <2>. QED BY <1>2, <1>3
<1>5. Total(1..n, Le)
  BY OrderTotal
<1>6. Ranked(found) = Arranged(found, n, Le)
  BY <1>4 DEF Arranged
<1>7. Rearranges(Ranked(found), found, n)
  <2>. HIDE DEF Le
  <2>. QED BY <1>1, <1>5, <1>6, ArrangedRearranges
<1>. QED BY <1>7, RearrangedRepresents

(* The IDs of targets over different locations differ.                       *)
Identified(found, n) ==
  \A i, j \in 1..n : found[i].id = found[j].id => found[i].locations = found[j].locations

(* When the IDs tell all targets apart, none of them drops out of the report.*)
LEMMA SurfaceRepresents ==
  ASSUME NEW n, NEW found, RatedList(found, n), Distinct(found, n), Identified(found, n)
  PROVE  \E m \in Nat : /\ Represents(SurfaceFindings(found), m, found, n)
                        /\ Distinct(SurfaceFindings(found), m)
<1>. DEFINE places == {i \in DOMAIN found : \A j \in 1..i - 1 : found[j].id # found[i].id}
            kept == Kept(found, places)
<1>1. n \in Nat /\ DOMAIN found = 1..n /\ \A i \in 1..n : Rated(found[i])
  BY DEF RatedList
<1>2. SurfaceFindings(found) = kept
  BY DEF SurfaceFindings
<1>3. ASSUME NEW i \in 1..n, NEW j \in 1..i - 1 PROVE found[j].id # found[i].id
  <2>1. j \in 1..n /\ i # j
    BY <1>1
  <2>. QED BY <2>1 DEF Distinct, Identified
<1>4. places = 1..n
  BY <1>1, <1>3
<1>5. IsFiniteSet(1..n)
  <2>1. 1 \in Int /\ n \in Int
    BY <1>1
  <2>. QED BY <1>1, <2>1, FS_Interval
<1>. HIDE DEF places
<1>6. places \in SUBSET Nat /\ IsFiniteSet(places)
  BY <1>1, <1>4, <1>5
<1>7. Keeps(kept, found, places)
  BY <1>6, KeptList
<1>8. PICK m \in Nat :
          /\ DOMAIN kept = 1..m
          /\ \A i \in 1..m : \E k \in places : kept[i] = found[k]
          /\ \A k \in places : \E i \in 1..m : kept[i] = found[k]
          /\ \A i, j \in 1..m : i # j =>
               \E k, q \in places : k # q /\ kept[i] = found[k] /\ kept[j] = found[q]
  <2>. HIDE DEF kept
  <2>. QED BY <1>7 DEF Keeps
<1>. HIDE DEF kept
<1>9. \A i \in 1..m : \E k \in 1..n : kept[i] = found[k]
  BY <1>4, <1>8
<1>10. \A i \in 1..m : Rated(kept[i])
  BY <1>1, <1>9
<1>11. ASSUME NEW k \in 1..n
       PROVE  \E i \in 1..m : /\ found[k].locations \subseteq kept[i].locations
                              /\ TierRank(kept[i].tier) <= TierRank(found[k].tier)
  <2>1. PICK i \in 1..m : kept[i] = found[k]
    BY <1>4, <1>8
  <2>2. TierRank(found[k].tier) \in Int
    BY <1>1 DEF Rated
  <2>. QED BY <2>1, <2>2
<1>12. Represents(kept, m, found, n)
  BY <1>8, <1>9, <1>10, <1>11 DEF Represents, RatedList
<1>13. ASSUME NEW i \in 1..m, NEW j \in 1..m, i # j
       PROVE  kept[i].locations # kept[j].locations
  <2>1. PICK k \in 1..n, q \in 1..n : k # q /\ kept[i] = found[k] /\ kept[j] = found[q]
    BY <1>4, <1>8, <1>13
  <2>. QED BY <2>1 DEF Distinct
<1>. QED BY <1>2, <1>8, <1>12, <1>13 DEF Distinct

(* The report of identified targets represents them and repeats none.        *)
LEMMA ReportRepresents ==
  ASSUME NEW n, NEW found, RatedList(found, n), Identified(found, n)
  PROVE  \E m \in Nat : Represents(Report(found), m, found, n) /\ Distinct(Report(found), m)
<1>. DEFINE once == DedupeEquivalent(found)
            whole == DropSubsumed(once)
            ranked == Ranked(whole)
<1>1. PICK a \in Nat : Represents(once, a, found, n) /\ Distinct(once, a)
  BY DedupeRepresents
<1>2. RatedList(once, a)
  BY <1>1 DEF Represents
<1>. HIDE DEF once
<1>3. PICK b \in Nat : Represents(whole, b, once, a) /\ Distinct(whole, b)
  BY <1>1, <1>2, DropRepresents
<1>4. RatedList(whole, b)
  BY <1>3 DEF Represents
<1>5. Represents(whole, b, found, n)
  <2>. HIDE DEF whole
  <2>. QED BY <1>1, <1>3, RepresentsTransitive
<1>. HIDE DEF whole
<1>6. Represents(ranked, b, whole, b) /\ Distinct(ranked, b)
  BY <1>3, <1>4, RankedRepresents
<1>7. RatedList(ranked, b)
  BY <1>6 DEF Represents
<1>8. Represents(ranked, b, found, n)
  <2>. HIDE DEF ranked
  <2>. QED BY <1>5, <1>6, RepresentsTransitive
<1>. HIDE DEF ranked
<1>9. Identified(ranked, b)
  <2>1. \A i \in 1..b : \E k \in 1..n : ranked[i] = found[k]
    BY <1>8 DEF Represents
  <2>2. ASSUME NEW i \in 1..b, NEW j \in 1..b, ranked[i].id = ranked[j].id
        PROVE  ranked[i].locations = ranked[j].locations
    <3>1. PICK k \in 1..n : ranked[i] = found[k]
      BY <2>1
    <3>2. PICK q \in 1..n : ranked[j] = found[q]
      BY <2>1
    <3>. QED BY <2>2, <3>1, <3>2 DEF Identified
  <2>. QED BY <2>2 DEF Identified
<1>10. PICK m \in Nat : /\ Represents(SurfaceFindings(ranked), m, ranked, b)
                        /\ Distinct(SurfaceFindings(ranked), m)
  BY <1>6, <1>7, <1>9, SurfaceRepresents
<1>11. Report(found) = SurfaceFindings(ranked)
  BY DEF Report, ranked, whole, once
<1>12. Represents(SurfaceFindings(ranked), m, found, n)
  <2>. DEFINE surfaced == SurfaceFindings(ranked)
  <2>1. Represents(surfaced, m, ranked, b)
    BY <1>10
  <2>. HIDE DEF surfaced
  <2>2. Represents(surfaced, m, found, n)
    BY <2>1, <1>8, RepresentsTransitive
  <2>. QED BY <2>2 DEF surfaced
<1>. QED BY <1>10, <1>11, <1>12

-----------------------------------------------------------------------------
(* The IDs of the targets.                                                   *)

PartOf(l, t, loc, line) ==
  [file |-> l.at[loc[1]].file, name |-> l.at[loc[1]].name, source |-> t.source,
   kind |-> t.kind, line |-> line]

LEMMA IdentityParts ==
  ASSUME NEW l, NEW t
  PROVE  /\ Identity(l, t, TRUE) = {PartOf(l, t, loc, {loc}) : loc \in t.locations}
         /\ Identity(l, t, FALSE) = {PartOf(l, t, loc, {}) : loc \in t.locations}
BY DEF Identity, If, PartOf

(* An ID with places names the locations of its target.                      *)
LEMMA PositionalIdentity ==
  ASSUME NEW l, NEW t, NEW u, Identity(l, t, TRUE) = Identity(l, u, TRUE),
         NEW loc \in t.locations
  PROVE  loc \in u.locations
<1>. DEFINE P(v, x) == PartOf(l, v, x, {x})
<1>1. /\ Identity(l, t, TRUE) = {P(t, x) : x \in t.locations}
      /\ Identity(l, u, TRUE) = {P(u, x) : x \in u.locations}
  BY IdentityParts
<1>2. PICK other \in u.locations : P(t, loc) = P(u, other)
  <2>. HIDE DEF P
  <2>1. P(t, loc) \in {P(u, x) : x \in u.locations}
    BY <1>1
  <2>. QED BY <2>1
<1>3. PartOf(l, t, loc, {loc}).line = {loc} /\ PartOf(l, u, other, {other}).line = {other}
  BY DEF PartOf
<1>4. {loc} = {other}
  BY <1>2, <1>3
<1>. QED BY <1>4

(* An ID with places is none without, unless there are no locations.         *)
LEMMA MixedIdentity ==
  ASSUME NEW l, NEW t, NEW u, Identity(l, t, TRUE) = Identity(l, u, FALSE)
  PROVE  t.locations = {} /\ u.locations = {}
<1>. DEFINE P(x) == PartOf(l, t, x, {x})
            Q(x) == PartOf(l, u, x, {})
<1>1. {P(x) : x \in t.locations} = {Q(x) : x \in u.locations}
  BY IdentityParts
<1>2. \A x, y : P(x) # Q(y)
  <2>. SUFFICES ASSUME NEW x, NEW y, P(x) = Q(y) PROVE FALSE
    OBVIOUS
  <2>1. P(x).line = {x} /\ Q(y).line = {}
    BY DEF PartOf
  <2>. QED BY <2>1
<1>. HIDE DEF P, Q
<1>3. \A x \in t.locations : \E y \in u.locations : P(x) = Q(y)
  BY <1>1
<1>4. \A y \in u.locations : \E x \in t.locations : P(x) = Q(y)
  BY <1>1
<1>. QED BY <1>2, <1>3, <1>4

(* Names tell a target apart from those over other locations, or the IDs     *)
(* name its locations.                                                       *)
LEMMA UniqueIdentities ==
  ASSUME NEW n \in Nat, NEW found, DOMAIN found = 1..n, NEW l,
         NEW drafts,
         \A i \in 1..n : found[i] = AssessedTarget(drafts[i], Assess(drafts[i]))
  PROVE  /\ DOMAIN WithUniqueIdentities(l, found) = 1..n
         /\ \A i \in 1..n :
              /\ WithUniqueIdentities(l, found)[i].locations = drafts[i].locations
              /\ WithUniqueIdentities(l, found)[i].tier = Assess(drafts[i]).tier
              /\ WithUniqueIdentities(l, found)[i].score = Assess(drafts[i]).score
              /\ WithUniqueIdentities(l, found)[i].title = drafts[i].title
              /\ WithUniqueIdentities(l, found)[i].source = drafts[i].source
              /\ WithUniqueIdentities(l, found)[i].status = Assess(drafts[i]).status
              /\ WithUniqueIdentities(l, found)[i].action = Assess(drafts[i]).action
         /\ Identified(WithUniqueIdentities(l, found), n)
<1>. DEFINE Collides(t) == \E u \in ToSet(found) :
                              /\ Identity(l, u, FALSE) = Identity(l, t, FALSE)
                              /\ u.locations # t.locations
            id(i) == Identity(l, found[i], Collides(found[i]))
            unique == [i \in DOMAIN found |-> [found[i] EXCEPT !.id = id(i)]]
<1>1. WithUniqueIdentities(l, found) = unique
  BY DEF WithUniqueIdentities
<1>2. \A i \in 1..n : IF Collides(found[i]) THEN id(i) = Identity(l, found[i], TRUE)
                      ELSE id(i) = Identity(l, found[i], FALSE)
  <2>. SUFFICES ASSUME NEW i \in 1..n
                PROVE  IF Collides(found[i]) THEN id(i) = Identity(l, found[i], TRUE)
                       ELSE id(i) = Identity(l, found[i], FALSE)
    OBVIOUS
  <2>. HIDE DEF Collides
  <2>. QED BY DEF Identity, If
<1>3. \A i, j \in 1..n : /\ Identity(l, found[i], FALSE) = Identity(l, found[j], FALSE)
                         /\ ~Collides(found[i])
                         => found[i].locations = found[j].locations
  BY DEF ToSet
<1>. HIDE DEF Collides, id
<1>4. \A i \in 1..n : /\ found[i].locations = drafts[i].locations
                      /\ found[i].tier = Assess(drafts[i]).tier
                      /\ found[i].score = Assess(drafts[i]).score
                      /\ found[i].title = drafts[i].title
                      /\ found[i].source = drafts[i].source
                      /\ found[i].status = Assess(drafts[i]).status
                      /\ found[i].action = Assess(drafts[i]).action
  BY DEF AssessedTarget
<1>5. \A i \in 1..n : /\ unique[i].locations = found[i].locations
                      /\ unique[i].tier = found[i].tier
                      /\ unique[i].score = found[i].score
                      /\ unique[i].title = found[i].title
                      /\ unique[i].source = found[i].source
                      /\ unique[i].status = found[i].status
                      /\ unique[i].action = found[i].action
                      /\ unique[i].id = id(i)
  <2>. SUFFICES ASSUME NEW i \in 1..n
                PROVE  /\ unique[i].locations = found[i].locations
                       /\ unique[i].tier = found[i].tier
                       /\ unique[i].score = found[i].score
                       /\ unique[i].title = found[i].title
                       /\ unique[i].source = found[i].source
                       /\ unique[i].status = found[i].status
                       /\ unique[i].action = found[i].action
                       /\ unique[i].id = id(i)
    OBVIOUS
  <2>1. unique[i] = [found[i] EXCEPT !.id = id(i)]
    OBVIOUS
  <2>2. found[i] = AssessedTarget(drafts[i], Assess(drafts[i]))
    OBVIOUS
  <2>. HIDE DEF unique
  <2>. QED BY <2>1, <2>2 DEF AssessedTarget
<1>6. DOMAIN unique = 1..n
  OBVIOUS
<1>. HIDE DEF unique
<1>7. ASSUME NEW i \in 1..n, NEW j \in 1..n, id(i) = id(j)
      PROVE  found[i].locations = found[j].locations
  <2>1. CASE ~Collides(found[i]) /\ ~Collides(found[j])
    BY <1>2, <1>3, <1>7, <2>1
  <2>2. CASE Collides(found[i]) /\ Collides(found[j])
    <3>1. Identity(l, found[i], TRUE) = Identity(l, found[j], TRUE)
      BY <1>2, <1>7, <2>2
    <3>2. \A loc \in found[i].locations : loc \in found[j].locations
      BY <3>1, PositionalIdentity
    <3>3. \A loc \in found[j].locations : loc \in found[i].locations
      BY <3>1, PositionalIdentity
    <3>. QED BY <3>2, <3>3
  <2>3. \A p, q \in 1..n : Identity(l, found[p], TRUE) = Identity(l, found[q], FALSE) =>
                             found[p].locations = found[q].locations
    BY MixedIdentity
  <2>4. CASE Collides(found[i]) /\ ~Collides(found[j])
    BY <1>2, <1>7, <2>3, <2>4
  <2>5. CASE ~Collides(found[i]) /\ Collides(found[j])
    BY <1>2, <1>7, <2>3, <2>5
  <2>. QED BY <2>1, <2>2, <2>4, <2>5
<1>8. Identified(unique, n)
  BY <1>5, <1>7 DEF Identified
<1>. QED BY <1>1, <1>4, <1>5, <1>6, <1>8

-----------------------------------------------------------------------------
(* The verdict on a draft, whatever its metrics: a tier of the report, and a *)
(* score that is a number.                                                   *)

LEMMA ClampInt ==
  \A x : Clamp(x) \in Int
<1>1. \A x : Clamp(x) \in 0..One
  BY DEF Clamp, One
<1>2. \A n \in 0..One : n \in Int
  BY DEF One
<1>. QED BY <1>1, <1>2

LEMMA MulInt ==
  ASSUME NEW x \in Int, NEW y \in Int
  PROVE  Mul(x, y) \in Int
BY DEF Mul, One

LEMMA ScoresInt ==
  ASSUME NEW draft
  PROVE  /\ Scores(draft).detection.score \in Int
         /\ Scores(draft).payoff.score \in Int
         /\ Scores(draft).risk.score \in Int
         /\ Scores(draft).fit.cost \in Int
<1>1. \A x : Clamp(x) \in Int
  BY ClampInt
<1>2. \A m, evidence : Detection(m, evidence).score \in Int
  BY <1>1 DEF Detection
<1>3. Payoff(draft).score \in Int
  <2>1. \A roles : Exposure(roles).cap \in Int
    BY PolicyAssumption, FieldsAssumption DEF Exposure, One
  <2>. QED BY <1>1, <2>1 DEF Payoff, Smaller
<1>4. \A m, risks : Risk(m, risks).score \in Int
  BY <1>1 DEF Risk
<1>5. \A m, evidence : Fit(m, evidence).cost \in Int
  BY <1>1 DEF Fit
<1>. QED BY <1>2, <1>3, <1>4, <1>5 DEF Scores

LEMMA ReviewScoreInt ==
  ASSUME NEW action, action.score \in Int, NEW draft
  PROVE  ReviewScore(action, Scores(draft)) \in Int
<1>. DEFINE s == Scores(draft)
<1>1. /\ s.detection.score \in Int /\ s.payoff.score \in Int
      /\ s.risk.score \in Int /\ s.fit.cost \in Int
  BY ScoresInt
<1>. HIDE DEF s
<1>2. Larger(s.risk.score, s.fit.cost) \in Int
  BY <1>1 DEF Larger
<1>3. Mul(Mul(s.detection.score, s.payoff.score), Larger(s.risk.score, s.fit.cost)) \in Int
  BY <1>1, <1>2, MulInt
<1>4. AssessmentPolicy.review_candidate_threshold \in Int
  BY PolicyAssumption, FieldsAssumption
<1>5. Larger(AssessmentPolicy.review_candidate_threshold, action.score) \in Int
  BY <1>4 DEF Larger
<1>6. ReviewScore(action, s) \in Int
  BY <1>3, <1>5 DEF ReviewScore
<1>. QED BY <1>6 DEF s

Levels == {"recommended_edit", "review_candidate", "maintenance_note", "observation",
           "do_not_refactor"}

LEMMA CapLevels ==
  ASSUME NEW m
  PROVE  SemanticCap(m).level \in Levels
<1>. DEFINE rules == CapRules(m)
            applying == {i \in DOMAIN rules : rules[i].holds}
<1>1. SurfaceCap(m).level \in Levels /\ ApiSurfaceCap(m).level \in Levels
  BY DEF SurfaceCap, ApiSurfaceCap, Cap, Levels
<1>2. DOMAIN rules = 1..13
  BY DEF CapRules
<1>3. /\ rules[1].cap.level \in Levels /\ rules[2].cap.level \in Levels
      /\ rules[3].cap.level \in Levels /\ rules[4].cap.level \in Levels
      /\ rules[5].cap.level \in Levels /\ rules[6].cap.level \in Levels
      /\ rules[7].cap.level \in Levels /\ rules[8].cap.level \in Levels
      /\ rules[9].cap.level \in Levels /\ rules[10].cap.level \in Levels
      /\ rules[11].cap.level \in Levels /\ rules[12].cap.level \in Levels
      /\ rules[13].cap.level \in Levels
  BY <1>1 DEF CapRules, Cap, Levels
<1>4. SemanticCap(m) = IF applying = {} THEN Cap("recommended_edit") ELSE rules[Min(applying)].cap
  BY DEF SemanticCap
<1>5. applying \in SUBSET (1..13)
  BY <1>2
<1>. HIDE DEF rules, applying
<1>6. CASE applying = {}
  <2>1. SemanticCap(m) = Cap("recommended_edit")
    BY <1>4, <1>6
  <2>2. Cap("recommended_edit").level = "recommended_edit"
    BY DEF Cap
  <2>3. SemanticCap(m).level = "recommended_edit"
    BY <2>1, <2>2
  <2>. QED BY <2>3 DEF Levels
<1>7. CASE applying # {}
  <2>1. Min(applying) \in 1..13
    <3>1. IsFiniteSet(1..13)
      <4>. DEFINE last == 13
      <4>1. 1 \in Int /\ last \in Int
        OBVIOUS
      <4>. HIDE DEF last
      <4>2. IsFiniteSet(1..last)
        BY <4>1, FS_Interval, Zenon
      <4>. QED BY <4>2, Zenon DEF last
    <3>2. IsFiniteSet(applying)
      BY <3>1, <1>5, FS_Subset
    <3>3. applying \in SUBSET Nat
      BY <1>5
    <3>4. \E j \in applying : \A k \in applying : j <= k
      BY <3>2, <3>3, <1>7, LeastNumber
    <3>. QED BY <3>4, <1>5 DEF Min
  <2>2. \A i \in 1..13 : rules[i].cap.level \in Levels
    BY <1>3
  <2>. QED BY <1>4, <1>7, <2>1, <2>2
<1>. QED BY <1>6, <1>7

LEMMA TierListed ==
  /\ ToSet(Tiers) = {"recommended_edit", "review_candidate", "maintenance_note", "observation"}
  /\ \A tier \in ToSet(Tiers) : TierRank(tier) \in 1..4
<1>1. ToSet(Tiers) = {"recommended_edit", "review_candidate", "maintenance_note", "observation"}
  BY DEF ToSet, Tiers
<1>2. ASSUME NEW tier \in ToSet(Tiers) PROVE TierRank(tier) \in 1..4
  <2>1. \E i \in DOMAIN Tiers : Tiers[i] = tier
    BY DEF ToSet
  <2>2. DOMAIN Tiers = 1..4
    BY DEF Tiers
  <2>. QED BY <2>1, <2>2 DEF TierRank
<1>. QED BY <1>1, <1>2

LEMMA AssessedTier ==
  ASSUME NEW draft
  PROVE  Assess(draft).tier \in ToSet(Tiers) /\ Assess(draft).score \in Int
<1>. DEFINE m == draft.metrics
            s == Scores(draft)
            action == RecommendAction(EffectiveActions(draft), draft.summary, m, s)
            tier == ReviewTier(action, s)
            cap == SemanticCap(m)
            surface == ApplyCap(tier, action.kind, ActionStatus(action), cap)
<1>1. Assess(draft) = Verdict(surface, action, s)
  BY DEF Assess, AssessWith, Decide
<1>2. Assess(draft).tier = surface.tier /\ Assess(draft).score = ReviewScore(action, s)
  BY <1>1 DEF Verdict
<1>3. tier \in ToSet(Tiers)
  <2>. HIDE DEF action, s
  <2>. QED BY TierListed DEF ReviewTier
<1>4. cap.level \in Levels
  BY CapLevels
<1>5. action.score \in Int
  <2>1. \A kind : RecommendationScore(kind, s) \in Int
    BY ClampInt DEF RecommendationScore
  <2>. HIDE DEF s
  <2>. QED BY <2>1 DEF RecommendAction
<1>6. surface.tier = CappedTier(tier, cap.level)
  <2>. HIDE DEF action, s, tier, cap
  <2>. QED BY DEF ApplyCap
<1>7. CappedTier(tier, cap.level) \in ToSet(Tiers)
  <2>. HIDE DEF action, s, tier, cap
  <2>. QED BY <1>3, <1>4, TierListed DEF CappedTier, Levels
<1>8. ReviewScore(action, s) \in Int
  <2>. HIDE DEF action
  <2>. QED BY <1>5, ReviewScoreInt
<1>. QED BY <1>2, <1>6, <1>7, <1>8

-----------------------------------------------------------------------------
(* Finite sets as lists.                                                     *)

LEMMA FiniteImage ==
  ASSUME NEW S, IsFiniteSet(S), NEW f, f = [x \in S |-> f[x]]
  PROVE  IsFiniteSet({f[x] : x \in S})
<1>. DEFINE T == {f[x] : x \in S}
<1>1. f \in Surjection(S, T)
  BY DEF Surjection
<1>. HIDE DEF T
<1>2. IsFiniteSet(T)
  BY <1>1, FS_Surjection
<1>. QED BY <1>2 DEF T

LEMMA SetToSeqList ==
  ASSUME NEW S, IsFiniteSet(S)
  PROVE  /\ Cardinality(S) \in Nat
         /\ DOMAIN SetToSeq(S) = 1..Cardinality(S)
         /\ \A i \in 1..Cardinality(S) : SetToSeq(S)[i] \in S
<1>. DEFINE n == Cardinality(S)
<1>1. n \in Nat
  BY FS_CardinalityType
<1>2. ExistsBijection(1..n, S)
  <2>1. PICK k \in Nat : ExistsBijection(1..k, S)
    BY FS_NatBijection
  <2>2. n = k
    BY <2>1, FS_CountingElements
  <2>. QED BY <2>1, <2>2
<1>3. \E f \in [1..n -> S] : IsInjective(f)
  <2>. HIDE DEF n
  <2>. QED BY <1>2 DEF ExistsBijection, Bijection, Injection
<1>4. SetToSeq(S) \in [1..n -> S]
  <2>. HIDE DEF n
  <2>1. SetToSeq(S) = CHOOSE f \in [1..n -> S] : IsInjective(f)
    BY DEF SetToSeq, n
  <2>. QED BY <2>1, <1>3, Zenon
<1>. QED BY <1>1, <1>4


-----------------------------------------------------------------------------
(* Lists of pairs: what is kept and sorted of a list is of the list.         *)

ListIn(s, S) == \E n \in Nat : DOMAIN s = 1..n /\ \A i \in 1..n : s[i] \in S

ByFour(a, b, c, d, j, k) ==
  \/ a[j] < a[k]
  \/ /\ a[j] = a[k]
     /\ \/ b[j] < b[k]
        \/ /\ b[j] = b[k]
           /\ \/ c[j] < c[k]
              \/ c[j] = c[k] /\ (d[j] < d[k] \/ (d[j] = d[k] /\ j <= k))

LEMMA FourTotal ==
  ASSUME NEW n \in Nat, NEW a, NEW b, NEW c, NEW d,
         \A i \in 1..n : a[i] \in Int /\ b[i] \in Int /\ c[i] \in Int /\ d[i] \in Int,
         NEW Le, \A j, k \in 1..n : <<j, k>> \in Le <=> ByFour(a, b, c, d, j, k)
  PROVE  Total(1..n, Le)
<1>1. \A j \in 1..n : <<j, j>> \in Le
  BY DEF ByFour
<1>2. ASSUME NEW j \in 1..n, NEW k \in 1..n
      PROVE  /\ <<j, k>> \in Le \/ <<k, j>> \in Le
             /\ <<j, k>> \in Le /\ <<k, j>> \in Le => j = k
  <2>1. /\ a[j] \in Int /\ b[j] \in Int /\ c[j] \in Int /\ d[j] \in Int /\ j \in Int
        /\ a[k] \in Int /\ b[k] \in Int /\ c[k] \in Int /\ d[k] \in Int /\ k \in Int
    OBVIOUS
  <2>2. ByFour(a, b, c, d, j, k) \/ ByFour(a, b, c, d, k, j)
    BY <2>1 DEF ByFour
  <2>3. ByFour(a, b, c, d, j, k) /\ ByFour(a, b, c, d, k, j) => j = k
    BY <2>1 DEF ByFour
  <2>. QED BY <2>2, <2>3
<1>3. \A i, j, k \in 1..n : <<i, j>> \in Le /\ <<j, k>> \in Le => <<i, k>> \in Le
  <2>. SUFFICES ASSUME NEW i \in 1..n, NEW j \in 1..n, NEW k \in 1..n,
                       <<i, j>> \in Le, <<j, k>> \in Le
                PROVE  <<i, k>> \in Le
    OBVIOUS
  <2>1. ByFour(a, b, c, d, i, j) /\ ByFour(a, b, c, d, j, k)
    OBVIOUS
  <2>2. /\ a[i] \in Int /\ b[i] \in Int /\ c[i] \in Int /\ d[i] \in Int /\ i \in Int
        /\ a[j] \in Int /\ b[j] \in Int /\ c[j] \in Int /\ d[j] \in Int /\ j \in Int
        /\ a[k] \in Int /\ b[k] \in Int /\ c[k] \in Int /\ d[k] \in Int /\ k \in Int
    OBVIOUS
  <2>3. ByFour(a, b, c, d, i, k)
    BY <2>1, <2>2 DEF ByFour
  <2>. QED BY <2>3
<1>. QED BY <1>1, <1>2, <1>3 DEF Total

LEMMA PrecedesFour ==
  ASSUME NEW s, NEW t, DOMAIN s = {1, 2, 3, 4}
  PROVE  Precedes(s, t) <=>
           \/ s[1] < t[1]
           \/ s[1] = t[1] /\ s[2] < t[2]
           \/ s[1] = t[1] /\ s[2] = t[2] /\ s[3] < t[3]
           \/ s[1] = t[1] /\ s[2] = t[2] /\ s[3] = t[3] /\ s[4] < t[4]
<1>1. Precedes(s, t) <=> \E i \in {1, 2, 3, 4} : s[i] < t[i] /\ \A j \in 1..i - 1 : s[j] = t[j]
  BY DEF Precedes
<1>2. /\ 1..1 - 1 = {} /\ 1..2 - 1 = {1}
      /\ 1..3 - 1 = {1, 2} /\ 1..4 - 1 = {1, 2, 3}
  OBVIOUS
<1>. QED BY <1>1, <1>2

LEMMA PrecedesTwo ==
  ASSUME NEW s, NEW t, DOMAIN s = {1, 2}
  PROVE  Precedes(s, t) <=> s[1] < t[1] \/ (s[1] = t[1] /\ s[2] < t[2])
<1>1. Precedes(s, t) <=> \E i \in {1, 2} : s[i] < t[i] /\ \A j \in 1..i - 1 : s[j] = t[j]
  BY DEF Precedes
<1>2. 1..1 - 1 = {} /\ 1..2 - 1 = {1}
  OBVIOUS
<1>. QED BY <1>1, <1>2

LEMMA KeptIn ==
  ASSUME NEW items, NEW S, ListIn(items, S), NEW places \in SUBSET DOMAIN items
  PROVE  /\ ListIn(Kept(items, places), S)
         /\ \A k \in places :
              \E i \in DOMAIN Kept(items, places) : Kept(items, places)[i] = items[k]
         /\ \A i \in DOMAIN Kept(items, places) :
              \E k \in places : Kept(items, places)[i] = items[k]
<1>1. PICK n \in Nat : DOMAIN items = 1..n /\ \A i \in 1..n : items[i] \in S
  BY DEF ListIn
<1>2. places \in SUBSET Nat /\ IsFiniteSet(places)
  <2>1. 1 \in Int /\ n \in Int
    OBVIOUS
  <2>2. IsFiniteSet(1..n)
    BY <2>1, FS_Interval
  <2>3. places \in SUBSET (1..n)
    BY <1>1
  <2>. QED BY <2>2, <2>3, FS_Subset
<1>. DEFINE kept == Kept(items, places)
<1>3. Keeps(kept, items, places)
  BY <1>2, KeptList
<1>. HIDE DEF kept
<1>4. PICK m \in Nat : /\ DOMAIN kept = 1..m
                       /\ \A i \in 1..m : \E k \in places : kept[i] = items[k]
                       /\ \A k \in places : \E i \in 1..m : kept[i] = items[k]
  BY <1>3 DEF Keeps
<1>5. ListIn(kept, S)
  BY <1>1, <1>4 DEF ListIn
<1>. QED BY <1>4, <1>5 DEF kept

LEMMA FirstIn ==
  ASSUME NEW s, NEW S, ListIn(s, S), NEW n \in Nat
  PROVE  ListIn(First(s, n), S)
<1>1. PICK m \in Nat : DOMAIN s = 1..m /\ \A i \in 1..m : s[i] \in S
  BY DEF ListIn
<1>2. Len(s) = m
  BY <1>1
<1>. DEFINE k == Smaller(n, Len(s))
<1>3. k \in Nat /\ k <= m
  BY <1>2 DEF Smaller
<1>4. First(s, n) = SubSeq(s, 1, k)
  BY DEF First
<1>. HIDE DEF k
<1>5. DOMAIN SubSeq(s, 1, k) = 1..k /\ \A i \in 1..k : SubSeq(s, 1, k)[i] = s[i]
  BY <1>3
<1>. QED BY <1>1, <1>3, <1>4, <1>5 DEF ListIn

(* Every item of the one list is in the other.                               *)
Covers(s, items, n) == \A k \in 1..n : \E i \in DOMAIN s : s[i] = items[k]

(* A list sorted by four numbers of each of its items.                       *)
LEMMA ArrangedIn ==
  ASSUME NEW n \in Nat, NEW items, NEW S, \A i \in 1..n : items[i] \in S,
         NEW a, NEW b, NEW c, NEW d,
         \A i \in 1..n : a[i] \in Int /\ b[i] \in Int /\ c[i] \in Int /\ d[i] \in Int,
         NEW Le, \A j, k \in 1..n : <<j, k>> \in Le <=> ByFour(a, b, c, d, j, k)
  PROVE  ListIn(Arranged(items, n, Le), S) /\ Covers(Arranged(items, n, Le), items, n)
<1>. DEFINE arranged == Arranged(items, n, Le)
<1>1. Total(1..n, Le)
  BY FourTotal
<1>2. Rearranges(arranged, items, n)
  BY <1>1, ArrangedRearranges
<1>. HIDE DEF arranged
<1>3. /\ DOMAIN arranged = 1..n
      /\ \A i \in 1..n : \E k \in 1..n : arranged[i] = items[k]
      /\ \A k \in 1..n : \E i \in 1..n : arranged[i] = items[k]
  BY <1>2 DEF Rearranges
<1>4. ListIn(arranged, S)
  BY <1>3 DEF ListIn
<1>5. Covers(arranged, items, n)
  BY <1>3 DEF Covers
<1>. QED BY <1>4, <1>5 DEF arranged

(* Pairs of functions that can be sorted.                                    *)
Sortable(p) ==
  /\ p.left \in Int /\ p.right \in Int
  /\ p.is.relatedness \in Int /\ p.is.refactorability \in Int

LEMMA RelatedSorted ==
  ASSUME NEW n \in Nat, NEW items, DOMAIN items = 1..n,
         NEW S, \A i \in 1..n : items[i] \in S, \A p \in S : Sortable(p)
  PROVE  ListIn(Sorted(items, Related), S)
<1>. DEFINE D == 1..n
            a == [i \in D |-> -items[i].is.relatedness]
            b == [i \in D |-> -items[i].is.refactorability]
            c == [i \in D |-> items[i].left]
            d == [i \in D |-> items[i].right]
            Ahead(j, k) == \/ Related(items[j], items[k])
                           \/ j <= k /\ ~Related(items[k], items[j])
            Le == {q \in D \X D : Ahead(q[1], q[2])}
            place == [k \in D |-> Cardinality({j \in D : Ahead(j, k)})]
            sorted == Sorted(items, Related)
<1>1. \A i \in D : Sortable(items[i])
  OBVIOUS
<1>2. \A i \in D : a[i] \in Int /\ b[i] \in Int /\ c[i] \in Int /\ d[i] \in Int
  BY <1>1 DEF Sortable
<1>3. sorted = [i \in D |-> items[CHOOSE k \in D : place[k] = i]]
  BY DEF Sorted
<1>4. place = RankIn(D, Le)
  <2>1. \A k \in D : UpTo(D, Le, k) = {j \in D : Ahead(j, k)}
    BY DEF UpTo
  <2>. QED BY <2>1 DEF RankIn
<1>5. ASSUME NEW j \in D, NEW k \in D
      PROVE  Related(items[j], items[k]) <=>
               \/ a[j] < a[k]
               \/ /\ a[j] = a[k]
                  /\ \/ b[j] < b[k]
                     \/ b[j] = b[k] /\ (c[j] < c[k] \/ (c[j] = c[k] /\ d[j] < d[k]))
  <2>1. Related(items[j], items[k])
          <=> Precedes(<<a[j], b[j], c[j], d[j]>>, <<a[k], b[k], c[k], d[k]>>)
    BY DEF Related
  <2>2. /\ a[j] \in Int /\ b[j] \in Int /\ c[j] \in Int /\ d[j] \in Int
        /\ a[k] \in Int /\ b[k] \in Int /\ c[k] \in Int /\ d[k] \in Int
    BY <1>2
  <2>. DEFINE s == <<a[j], b[j], c[j], d[j]>>
              t == <<a[k], b[k], c[k], d[k]>>
  <2>3. /\ DOMAIN s = {1, 2, 3, 4}
        /\ s[1] = a[j] /\ s[2] = b[j] /\ s[3] = c[j] /\ s[4] = d[j]
        /\ t[1] = a[k] /\ t[2] = b[k] /\ t[3] = c[k] /\ t[4] = d[k]
    OBVIOUS
  <2>4. Related(items[j], items[k]) <=> Precedes(s, t)
    BY <2>1
  <2>. HIDE DEF s, t
  <2>5. Precedes(s, t) <=>
           \/ s[1] < t[1]
           \/ s[1] = t[1] /\ s[2] < t[2]
           \/ s[1] = t[1] /\ s[2] = t[2] /\ s[3] < t[3]
           \/ s[1] = t[1] /\ s[2] = t[2] /\ s[3] = t[3] /\ s[4] < t[4]
    BY <2>3, PrecedesFour
  <2>. QED BY <2>2, <2>3, <2>4, <2>5
<1>6. ASSUME NEW j \in D, NEW k \in D
      PROVE  <<j, k>> \in Le <=> ByFour(a, b, c, d, j, k)
  <2>1. <<j, k>> \in Le
          <=> Related(items[j], items[k]) \/ (j <= k /\ ~Related(items[k], items[j]))
    OBVIOUS
  <2>2. /\ a[j] \in Int /\ b[j] \in Int /\ c[j] \in Int /\ d[j] \in Int
        /\ a[k] \in Int /\ b[k] \in Int /\ c[k] \in Int /\ d[k] \in Int
    BY <1>2
  <2>3. ByFour(a, b, c, d, j, k) <=>
          \/ a[j] < a[k]
          \/ /\ a[j] = a[k]
             /\ \/ b[j] < b[k]
                \/ /\ b[j] = b[k]
                   /\ \/ c[j] < c[k]
                      \/ c[j] = c[k] /\ (d[j] < d[k] \/ (d[j] = d[k] /\ j <= k))
    BY DEF ByFour
  <2>. HIDE DEF a, b, c, d, Le
  <2>. QED BY <1>5, <2>1, <2>2, <2>3
<1>7. sorted = Arranged(items, n, Le)
  <2>. DEFINE rank == RankIn(D, Le)
  <2>1. place = rank
    BY <1>4
  <2>2. sorted = [i \in D |-> items[CHOOSE k \in D : rank[k] = i]]
    <3>. HIDE DEF place, rank
    <3>. QED BY <1>3, <2>1
  <2>. QED BY <2>2 DEF Arranged
<1>. HIDE DEF a, b, c, d, Le, sorted
<1>8. ListIn(Arranged(items, n, Le), S)
  BY <1>2, <1>6, ArrangedIn
<1>. QED BY <1>7, <1>8 DEF sorted

(* A list sorted by two numbers of each of its items.                        *)
AheadOf(x, y, j, k) ==
  \/ Precedes(<<x[j], y[j]>>, <<x[k], y[k]>>)
  \/ j <= k /\ ~Precedes(<<x[k], y[k]>>, <<x[j], y[j]>>)

ByTwo(items, n, x, y) ==
  LET place == [k \in 1..n |-> Cardinality({j \in 1..n : AheadOf(x, y, j, k)})]
  IN  [i \in 1..n |-> items[CHOOSE k \in 1..n : place[k] = i]]

LEMMA TwoSorted ==
  ASSUME NEW n \in Nat, NEW items, NEW S, \A i \in 1..n : items[i] \in S,
         NEW x, NEW y, \A i \in 1..n : x[i] \in Int /\ y[i] \in Int
  PROVE  ListIn(ByTwo(items, n, x, y), S) /\ Covers(ByTwo(items, n, x, y), items, n)
<1>. DEFINE D == 1..n
            zero == [i \in D |-> 0]
            Le == {q \in D \X D : AheadOf(x, y, q[1], q[2])}
            place == [k \in D |-> Cardinality({j \in D : AheadOf(x, y, j, k)})]
            sorted == ByTwo(items, n, x, y)
<1>1. \A i \in D : x[i] \in Int /\ y[i] \in Int /\ zero[i] \in Int
  OBVIOUS
<1>2. ASSUME NEW j \in D, NEW k \in D
      PROVE  Precedes(<<x[j], y[j]>>, <<x[k], y[k]>>)
               <=> x[j] < x[k] \/ (x[j] = x[k] /\ y[j] < y[k])
  <2>. DEFINE s == <<x[j], y[j]>>
              t == <<x[k], y[k]>>
  <2>1. DOMAIN s = {1, 2} /\ s[1] = x[j] /\ s[2] = y[j] /\ t[1] = x[k] /\ t[2] = y[k]
    OBVIOUS
  <2>. HIDE DEF s, t
  <2>2. Precedes(s, t) <=> s[1] < t[1] \/ (s[1] = t[1] /\ s[2] < t[2])
    BY <2>1, PrecedesTwo
  <2>3. Precedes(s, t) <=> x[j] < x[k] \/ (x[j] = x[k] /\ y[j] < y[k])
    BY <2>1, <2>2
  <2>. QED BY <2>3 DEF s, t
<1>3. ASSUME NEW j \in D, NEW k \in D
      PROVE  <<j, k>> \in Le <=> ByFour(x, y, zero, zero, j, k)
  <2>1. <<j, k>> \in Le <=> AheadOf(x, y, j, k)
    OBVIOUS
  <2>2. AheadOf(x, y, j, k) <=>
          \/ x[j] < x[k] \/ (x[j] = x[k] /\ y[j] < y[k])
          \/ j <= k /\ ~(x[k] < x[j] \/ (x[k] = x[j] /\ y[k] < y[j]))
    BY <1>2 DEF AheadOf
  <2>3. /\ x[j] \in Int /\ y[j] \in Int /\ x[k] \in Int /\ y[k] \in Int
        /\ zero[j] = 0 /\ zero[k] = 0
    OBVIOUS
  <2>4. ByFour(x, y, zero, zero, j, k) <=>
          \/ x[j] < x[k]
          \/ /\ x[j] = x[k]
             /\ \/ y[j] < y[k]
                \/ /\ y[j] = y[k]
                   /\ \/ zero[j] < zero[k]
                      \/ zero[j] = zero[k] /\ (zero[j] < zero[k] \/ (zero[j] = zero[k] /\ j <= k))
    BY DEF ByFour
  <2>. HIDE DEF zero, Le
  <2>. QED BY <2>1, <2>2, <2>3, <2>4
<1>4. place = RankIn(D, Le)
  <2>1. \A k \in D : UpTo(D, Le, k) = {j \in D : AheadOf(x, y, j, k)}
    BY DEF UpTo
  <2>. QED BY <2>1 DEF RankIn
<1>5. sorted = Arranged(items, n, Le)
  <2>. DEFINE rank == RankIn(D, Le)
  <2>1. place = rank
    BY <1>4
  <2>2. sorted = [i \in D |-> items[CHOOSE k \in D : place[k] = i]]
    BY DEF ByTwo
  <2>3. sorted = [i \in D |-> items[CHOOSE k \in D : rank[k] = i]]
    <3>. HIDE DEF place, rank
    <3>. QED BY <2>1, <2>2
  <2>. QED BY <2>3 DEF Arranged
<1>. HIDE DEF zero, Le, sorted
<1>6. ListIn(Arranged(items, n, Le), S) /\ Covers(Arranged(items, n, Le), items, n)
  BY <1>1, <1>3, ArrangedIn
<1>. QED BY <1>5, <1>6 DEF sorted

(* Pairs sorted by the locations of their functions.                         *)
LEMMA LocationSorted ==
  ASSUME NEW n \in Nat, NEW items, DOMAIN items = 1..n,
         NEW S, \A i \in 1..n : items[i] \in S,
         \A i \in 1..n : items[i].left \in Int /\ items[i].right \in Int
  PROVE  ListIn(Sorted(items, ByLocation), S) /\ Covers(Sorted(items, ByLocation), items, n)
<1>. DEFINE D == 1..n
            x == [i \in D |-> items[i].left]
            y == [i \in D |-> items[i].right]
            Ahead(j, k) == \/ ByLocation(items[j], items[k])
                           \/ j <= k /\ ~ByLocation(items[k], items[j])
            place == [k \in D |-> Cardinality({j \in D : Ahead(j, k)})]
            sorted == Sorted(items, ByLocation)
            Placed(p) == [i \in D |-> items[CHOOSE k \in D : p[k] = i]]
<1>1. sorted = Placed(place)
  BY DEF Sorted
<1>2. \A j, k \in D : Ahead(j, k) <=> AheadOf(x, y, j, k)
  BY DEF AheadOf, ByLocation
<1>3. \A k \in D : {j \in D : Ahead(j, k)} = {j \in D : AheadOf(x, y, j, k)}
  <2>. HIDE DEF Ahead
  <2>. QED BY <1>2
<1>4. sorted = ByTwo(items, n, x, y)
  <2>. DEFINE counted == [k \in D |-> Cardinality({j \in D : AheadOf(x, y, j, k)})]
  <2>1. place = counted
    <3>. HIDE DEF Ahead
    <3>. QED BY <1>3
  <2>2. ByTwo(items, n, x, y) = Placed(counted)
    BY DEF ByTwo
  <2>. HIDE DEF place, counted, Placed, sorted
  <2>. QED BY <1>1, <2>1, <2>2
<1>5. \A i \in D : x[i] \in Int /\ y[i] \in Int
  OBVIOUS
<1>. HIDE DEF x, y, sorted
<1>6. ListIn(ByTwo(items, n, x, y), S) /\ Covers(ByTwo(items, n, x, y), items, n)
  BY <1>5, TwoSorted
<1>. QED BY <1>4, <1>6 DEF sorted

-----------------------------------------------------------------------------
(* The pairs of a cluster and their groups are of two of its functions.      *)

ClusterOver(c) ==
  /\ c.members \subseteq Member /\ c.members # {}
  /\ IsFiniteSet(c.risks) /\ IsList(c.candidates)
  /\ \A p \in ToSet(c.candidates) : p \in c.members \X c.members /\ p[1] < p[2]

PairsOf(l, code, c) == {Pair(l, code, q[1], q[2]) : q \in ToSet(c.candidates)}

LEMMA PairsWithin ==
  ASSUME NEW l, NEW code, \A m \in Member : code[m] \in DOMAIN Bodies,
         NEW c, ClusterOver(c), NEW p \in PairsOf(l, code, c)
  PROVE  /\ p.left \in c.members /\ p.right \in c.members /\ p.left # p.right
         /\ Sortable(p)
<1>1. PICK q \in ToSet(c.candidates) : p = Pair(l, code, q[1], q[2])
  BY DEF PairsOf
<1>. DEFINE x == q[1]
            y == q[2]
<1>2. x \in c.members /\ y \in c.members /\ x < y /\ x \in Member /\ y \in Member
  BY <1>1 DEF ClusterOver
<1>3. x \in Nat /\ y \in Nat
  BY <1>2, FindingsAssumption
<1>4. p.left = x /\ p.right = y /\ p.is = Compare[<<code[x], code[y]>>]
  <2>. HIDE DEF x, y
  <2>1. p = Pair(l, code, x, y)
    BY <1>1 DEF x, y
  <2>. QED BY <2>1 DEF Pair
<1>5. <<code[x], code[y]>> \in DOMAIN Compare
  BY <1>2, FindingsAssumption
<1>6. p.is.relatedness \in Nat /\ p.is.refactorability \in Nat
  BY <1>4, <1>5, LayoutsAssumption
<1>. HIDE DEF x, y
<1>. QED BY <1>2, <1>3, <1>4, <1>6 DEF Sortable

LEMMA ListHas ==
  ASSUME NEW s, NEW S, ListIn(s, S)
  PROVE  /\ ToSet(s) \subseteq S
         /\ \E n \in Nat : DOMAIN s = 1..n
         /\ IsFiniteSet(ToSet(s))
<1>1. PICK n \in Nat : DOMAIN s = 1..n /\ \A i \in 1..n : s[i] \in S
  BY DEF ListIn
<1>2. ToSet(s) \subseteq S
  BY <1>1 DEF ToSet
<1>3. IsFiniteSet(ToSet(s))
  <2>1. 1 \in Int /\ n \in Int
    OBVIOUS
  <2>2. IsFiniteSet(1..n)
    BY <2>1, FS_Interval
  <2>. DEFINE f == [i \in 1..n |-> s[i]]
              D == 1..n
  <2>3. f = [i \in D |-> f[i]] /\ ToSet(s) = {f[i] : i \in D}
    BY <1>1 DEF ToSet
  <2>4. IsFiniteSet(D)
    BY <2>2
  <2>. HIDE DEF f, D
  <2>5. IsFiniteSet({f[i] : i \in D})
    BY <2>3, <2>4, FiniteImage
  <2>. QED BY <2>3, <2>5
<1>. QED BY <1>1, <1>2, <1>3

LEMMA RelationPairsIn ==
  ASSUME NEW l, NEW code, \A m \in Member : code[m] \in DOMAIN Bodies, NEW c, ClusterOver(c)
  PROVE  ListIn(RelationPairs(l, code, c.candidates), PairsOf(l, code, c))
<1>. DEFINE candidates == c.candidates
            S == PairsOf(l, code, c)
            pairs == [i \in DOMAIN candidates |->
                        Pair(l, code, candidates[i][1], candidates[i][2])]
            places == {i \in DOMAIN pairs :
                         pairs[i].is.relatedness >= PairPolicy.relatedness_minimum}
            related == Kept(pairs, places)
            sorted == Sorted(related, Related)
            limit == PairPolicy.relation_pair_limit
<1>1. RelationPairs(l, code, candidates) = First(sorted, limit)
  BY DEF RelationPairs, Filtered
<1>2. ListIn(pairs, S)
  <2>1. candidates \in Seq(ToSet(candidates))
    BY DEF ClusterOver, IsList
  <2>2. Len(candidates) \in Nat /\ DOMAIN candidates = 1..Len(candidates)
    BY <2>1
  <2>3. \A i \in 1..Len(candidates) : candidates[i] \in ToSet(candidates)
    BY <2>2 DEF ToSet
  <2>4. \A i \in 1..Len(candidates) : pairs[i] \in S
    BY <2>2, <2>3 DEF PairsOf
  <2>5. DOMAIN pairs = 1..Len(candidates)
    BY <2>2
  <2>. HIDE DEF pairs, S, candidates
  <2>. QED BY <2>2, <2>4, <2>5 DEF ListIn
<1>3. places \in SUBSET DOMAIN pairs
  OBVIOUS
<1>4. \A p \in S : Sortable(p)
  BY PairsWithin
<1>5. limit \in Nat
  BY FindingsAssumption
<1>. HIDE DEF pairs, places, S, limit, candidates
<1>6. ListIn(related, S)
  BY <1>2, <1>3, KeptIn
<1>. HIDE DEF related
<1>7. PICK n \in Nat : DOMAIN related = 1..n /\ \A i \in 1..n : related[i] \in S
  BY <1>6 DEF ListIn
<1>8. ListIn(sorted, S)
  BY <1>4, <1>7, RelatedSorted
<1>. HIDE DEF sorted
<1>9. ListIn(First(sorted, limit), S)
  BY <1>5, <1>8, FirstIn
<1>. QED BY <1>1, <1>9 DEF S, candidates

LEMMA DuplicatesIn ==
  ASSUME NEW l, NEW pairs, NEW S, ListIn(pairs, S)
  PROVE  /\ ListIn(StructuralDuplicates(l, pairs), S)
         /\ ToSet(StructuralDuplicates(l, pairs)) \subseteq ToSet(pairs)
<1>. DEFINE places == {i \in DOMAIN pairs : StructuralDuplicate(l, pairs[i])}
            kept == Kept(pairs, places)
            limit == StructuralPolicy.structural_pair_limit
            T == ToSet(pairs)
<1>1. StructuralDuplicates(l, pairs) = First(kept, limit)
  BY DEF StructuralDuplicates, Filtered
<1>2. places \in SUBSET DOMAIN pairs /\ limit \in Nat
  BY FindingsAssumption
<1>3. ListIn(pairs, T)
  BY DEF ListIn, ToSet
<1>. HIDE DEF places, limit, T
<1>4. ListIn(kept, S) /\ ListIn(kept, T)
  BY <1>2, <1>3, KeptIn
<1>. HIDE DEF kept
<1>5. ListIn(First(kept, limit), S) /\ ListIn(First(kept, limit), T)
  BY <1>2, <1>4, FirstIn
<1>6. ToSet(First(kept, limit)) \subseteq T
  BY <1>5, ListHas
<1>. QED BY <1>1, <1>5, <1>6 DEF T

(* A group with every pair of the functions it joins.                        *)
Closed(component, T) ==
  \A p \in T : p.left \in PairMembers(ToSet(component)) => p \in ToSet(component)

LEMMA ComponentIn ==
  ASSUME NEW pairs, NEW S, ListIn(pairs, S), \A p \in S : p.left \in Int /\ p.right \in Int,
         NEW g \in Connected(ToSet(pairs)),
         NEW component,
         component = Sorted(Kept(pairs, {i \in DOMAIN pairs : pairs[i].left \in g}), ByLocation)
  PROVE  /\ ListIn(component, ToSet(pairs)) /\ 1 \in DOMAIN component
         /\ Closed(component, ToSet(pairs))
<1>. DEFINE places == {i \in DOMAIN pairs : pairs[i].left \in g}
            kept == Kept(pairs, places)
            T == ToSet(pairs)
<1>1. component = Sorted(kept, ByLocation)
  OBVIOUS
<1>2. ListIn(pairs, T) /\ T \subseteq S
  BY DEF ListIn, ToSet
<1>3. PICK k \in DOMAIN pairs : pairs[k].left \in g
  <2>1. /\ g \cap PairMembers(T) # {}
        /\ \A p \in T : p.left \in g <=> p.right \in g
    BY DEF Connected
  <2>2. PICK p \in T : p.left \in g \/ p.right \in g
    BY <2>1 DEF PairMembers
  <2>. QED BY <2>1, <2>2 DEF ToSet
<1>4. places \in SUBSET DOMAIN pairs /\ k \in places
  BY <1>3
<1>5. \A j \in DOMAIN pairs : j \in places <=> pairs[j].left \in g
  OBVIOUS
<1>6. \A p \in T : p.left \in g <=> p.right \in g
  BY DEF Connected
<1>. HIDE DEF places
<1>7. /\ ListIn(kept, T) /\ \E i \in DOMAIN kept : kept[i] = pairs[k]
      /\ \A j \in places : \E i \in DOMAIN kept : kept[i] = pairs[j]
      /\ \A i \in DOMAIN kept : \E j \in places : kept[i] = pairs[j]
  BY <1>2, <1>4, KeptIn
<1>. HIDE DEF kept
<1>8. \A p \in T : \E j \in DOMAIN pairs : p = pairs[j]
  BY DEF ToSet
<1>. HIDE DEF T
<1>9. PICK n \in Nat : DOMAIN kept = 1..n /\ \A i \in 1..n : kept[i] \in T
  BY <1>7 DEF ListIn
<1>10. \A i \in 1..n : kept[i].left \in Int /\ kept[i].right \in Int
  BY <1>2, <1>9
<1>11. ListIn(component, T) /\ Covers(component, kept, n)
  BY <1>1, <1>9, <1>10, LocationSorted
<1>12. DOMAIN component = 1..n /\ 1 \in 1..n
  BY <1>1, <1>7, <1>9 DEF Sorted
<1>. DEFINE K == {kept[i] : i \in 1..n}
<1>13. \A p \in K : p.left \in g /\ p \in T
  BY <1>7, <1>9, <1>5, <1>4
<1>14. ListIn(kept, K)
  BY <1>9 DEF ListIn
<1>15. ListIn(component, K)
  <2>1. \A i \in 1..n : kept[i] \in K
    OBVIOUS
  <2>. HIDE DEF K
  <2>. QED BY <1>1, <1>9, <1>10, <2>1, LocationSorted
<1>16. ToSet(component) \subseteq K
  BY <1>15, ListHas
<1>. HIDE DEF K
<1>17. PairMembers(ToSet(component)) \subseteq g
  BY <1>13, <1>16, <1>6 DEF PairMembers
<1>18. ASSUME NEW p \in T, p.left \in g PROVE p \in ToSet(component)
  <2>1. PICK j \in DOMAIN pairs : p = pairs[j]
    BY <1>8
  <2>2. PICK i \in DOMAIN kept : kept[i] = p
    BY <1>7, <1>18, <1>5, <2>1
  <2>3. PICK q \in DOMAIN component : component[q] = p
    BY <1>9, <1>11, <2>2 DEF Covers
  <2>. QED BY <2>3 DEF ToSet
<1>19. Closed(component, T)
  BY <1>17, <1>18 DEF Closed
<1>. QED BY <1>11, <1>12, <1>19 DEF T

LEMMA ComponentsIn ==
  ASSUME NEW pairs, NEW S, ListIn(pairs, S), \A p \in S : p.left \in Int /\ p.right \in Int
  PROVE  \E n \in Nat : /\ DOMAIN PairComponents(pairs) = 1..n
                        /\ \A i \in 1..n : /\ ListIn(PairComponents(pairs)[i], ToSet(pairs))
                                           /\ 1 \in DOMAIN PairComponents(pairs)[i]
                                           /\ Closed(PairComponents(pairs)[i], ToSet(pairs))
<1>. DEFINE Component(g) ==
              Sorted(Kept(pairs, {i \in DOMAIN pairs : pairs[i].left \in g}), ByLocation)
            G == Connected(ToSet(pairs))
            f == [g \in G |-> Component(g)]
            C == {Component(g) : g \in G}
            items == SetToSeq(C)
            n == Cardinality(C)
            D == 1..n
            Before(c, d) == ByLocation(c[1], d[1])
            sorted == Sorted(items, Before)
            x == [i \in D |-> items[i][1].left]
            y == [i \in D |-> items[i][1].right]
<1>1. PairComponents(pairs) = sorted
  BY DEF PairComponents, Filtered
<1>2. IsFiniteSet(C)
  <2>1. G \in SUBSET SUBSET Member
    BY DEF Connected
  <2>2. IsFiniteSet(SUBSET Member)
    BY FindingsAssumption, FS_SUBSET
  <2>3. IsFiniteSet(G)
    <3>. HIDE DEF G
    <3>. QED BY <2>1, <2>2, FS_Subset
  <2>4. C = {f[g] : g \in G} /\ f = [g \in G |-> f[g]]
    OBVIOUS
  <2>. HIDE DEF G, f, C
  <2>. QED BY <2>3, <2>4, FiniteImage
<1>3. \A c \in C : ListIn(c, ToSet(pairs)) /\ 1 \in DOMAIN c /\ Closed(c, ToSet(pairs))
  <2>1. ASSUME NEW c \in C
        PROVE  ListIn(c, ToSet(pairs)) /\ 1 \in DOMAIN c /\ Closed(c, ToSet(pairs))
    <3>1. PICK g \in G : c = Component(g)
      OBVIOUS
    <3>2. g \in Connected(ToSet(pairs))
          /\ c = Sorted(Kept(pairs, {i \in DOMAIN pairs : pairs[i].left \in g}), ByLocation)
      BY <3>1
    <3>. QED BY <3>2, ComponentIn
  <2>. QED BY <2>1
<1>. HIDE DEF C
<1>4. n \in Nat /\ DOMAIN items = D /\ \A i \in D : items[i] \in C
  BY <1>2, SetToSeqList
<1>. HIDE DEF n, items
<1>5. \A i \in D : x[i] \in Int /\ y[i] \in Int
  <2>. SUFFICES ASSUME NEW i \in D
                PROVE  items[i][1].left \in Int /\ items[i][1].right \in Int
    OBVIOUS
  <2>1. ListIn(items[i], ToSet(pairs)) /\ 1 \in DOMAIN items[i]
    BY <1>3, <1>4
  <2>2. items[i][1] \in ToSet(pairs)
    BY <2>1 DEF ListIn
  <2>3. items[i][1] \in S
    BY <2>2, ListHas
  <2>. QED BY <2>3
<1>6. sorted = ByTwo(items, n, x, y)
  <2>. DEFINE Ahead(j, k) == \/ Before(items[j], items[k])
                             \/ j <= k /\ ~Before(items[k], items[j])
              place == [k \in D |-> Cardinality({j \in D : Ahead(j, k)})]
              counted == [k \in D |-> Cardinality({j \in D : AheadOf(x, y, j, k)})]
              Placed(p) == [i \in D |-> items[CHOOSE k \in D : p[k] = i]]
  <2>1. sorted = Placed(place)
    BY <1>4 DEF Sorted
  <2>2. \A j, k \in D : Ahead(j, k) <=> AheadOf(x, y, j, k)
    BY DEF AheadOf, ByLocation
  <2>3. \A k \in D : {j \in D : Ahead(j, k)} = {j \in D : AheadOf(x, y, j, k)}
    <3>. HIDE DEF Ahead
    <3>. QED BY <2>2
  <2>4. place = counted
    <3>. HIDE DEF Ahead
    <3>. QED BY <2>3
  <2>5. ByTwo(items, n, x, y) = Placed(counted)
    BY DEF ByTwo
  <2>. HIDE DEF place, counted, Placed, sorted
  <2>. QED BY <2>1, <2>4, <2>5
<1>. HIDE DEF x, y, sorted
<1>7. ListIn(ByTwo(items, n, x, y), C)
  BY <1>4, <1>5, TwoSorted
<1>8. PICK k \in Nat : DOMAIN sorted = 1..k /\ \A i \in 1..k : sorted[i] \in C
  BY <1>6, <1>7 DEF ListIn
<1>. QED BY <1>1, <1>3, <1>8

LEMMA PromotedIn ==
  ASSUME NEW l, NEW code, NEW cluster, NEW pairs, NEW S, ListIn(pairs, S),
         \A p \in S : p.left \in Int /\ p.right \in Int
  PROVE  \E n \in Nat :
           /\ DOMAIN Promoted(l, code, cluster, pairs) = 1..n
           /\ \A i \in 1..n : /\ ListIn(Promoted(l, code, cluster, pairs)[i], ToSet(pairs))
                              /\ 1 \in DOMAIN Promoted(l, code, cluster, pairs)[i]
                              /\ Closed(Promoted(l, code, cluster, pairs)[i],
                                        {p \in ToSet(pairs) : Promotable(l, code, p)})
<1>. DEFINE places == {i \in DOMAIN pairs : Promotable(l, code, pairs[i])}
            kept == Kept(pairs, places)
            T == ToSet(pairs)
            components == PairComponents(kept)
            promoted == Promoted(l, code, cluster, pairs)
            R == {p \in T : Promotable(l, code, p)}
<1>1. promoted = components \/ promoted = <<>>
  BY DEF Promoted, Filtered
<1>2. ListIn(pairs, T) /\ T \subseteq S
  BY DEF ListIn, ToSet
<1>3. places \in SUBSET DOMAIN pairs
  OBVIOUS
<1>4. \A p \in R : \E j \in places : p = pairs[j]
  BY DEF ToSet
<1>. HIDE DEF places, T
<1>5. ListIn(kept, T) /\ \A j \in places : \E i \in DOMAIN kept : kept[i] = pairs[j]
  BY <1>2, <1>3, KeptIn
<1>6. R \subseteq ToSet(kept)
  <2>. HIDE DEF kept, R
  <2>. QED BY <1>5, <1>4 DEF ToSet
<1>7. \A p \in T : p.left \in Int /\ p.right \in Int
  BY <1>2
<1>. HIDE DEF kept
<1>8. PICK n \in Nat : /\ DOMAIN components = 1..n
                       /\ \A i \in 1..n : /\ ListIn(components[i], ToSet(kept))
                                          /\ 1 \in DOMAIN components[i]
                                          /\ Closed(components[i], ToSet(kept))
  BY <1>5, <1>7, ComponentsIn
<1>9. ToSet(kept) \subseteq T
  BY <1>5, ListHas
<1>10. \A i \in 1..n : ListIn(components[i], T) /\ 1 \in DOMAIN components[i]
  BY <1>8, <1>9 DEF ListIn
<1>. HIDE DEF components, promoted, R
<1>11. \A i \in 1..n : Closed(components[i], R)
  BY <1>8, <1>6 DEF Closed
<1>12. CASE promoted = components
  BY <1>8, <1>10, <1>12, <1>11 DEF T, R, promoted
<1>13. CASE promoted = <<>>
  <2>1. DOMAIN promoted = 1..0 /\ 0 \in Nat
    BY <1>13
  <2>. QED BY <2>1 DEF promoted
<1>. QED BY <1>1, <1>12, <1>13

LEMMA GreatestNumber ==
  ASSUME NEW S \in SUBSET Nat, IsFiniteSet(S), S # {}
  PROVE  Max(S) \in S /\ \A k \in S : k <= Max(S)
<1>. DEFINE Le == {q \in S \X S : q[1] >= q[2]}
<1>1. Total(S, Le)
  <2>1. \A j, k \in S : <<j, k>> \in Le <=> j >= k
    OBVIOUS
  <2>2. \A j \in S : j \in Nat
    OBVIOUS
  <2>. HIDE DEF Le
  <2>. QED BY <2>1, <2>2 DEF Total
<1>2. PICK m \in S : \A k \in S : <<m, k>> \in Le
  <2>. HIDE DEF Le
  <2>. QED BY <1>1, FirstExists
<1>3. \A k \in S : m >= k
  BY <1>2
<1>. QED BY <1>3 DEF Max

LEMMA SmallestNumber ==
  ASSUME NEW S \in SUBSET Nat, IsFiniteSet(S), S # {}
  PROVE  Min(S) \in S /\ \A k \in S : Min(S) <= k
<1>1. \E m \in S : \A k \in S : m <= k
  BY LeastNumber
<1>. QED BY <1>1 DEF Min

(* A block is shared by some of the functions.                               *)
LEMMA SharedBlockOver ==
  ASSUME NEW l, NEW code, NEW b \in SharedBlocks(l, code)
  PROVE  /\ b.members \subseteq Member /\ b.members # {}
         /\ b.runs \subseteq DOMAIN Runs /\ b.runs # {}
<1>. DEFINE related == RelatedPairs(l, code)
            Sharers(run) == UNION {{pair[1], pair[2]} :
                      pair \in {q \in SharingPairs(l, code, run) : {q[1], q[2]} \notin related}}
            sharers == [run \in DOMAIN Runs |-> Sharers(run)]
            D == DOMAIN Runs
<1>1. PICK set \in {sharers[r] : r \in D} \ {{}} :
        b = [members |-> set, runs |-> {r \in D : sharers[r] = set}]
  BY DEF SharedBlocks
<1>2. PICK run \in D : set = sharers[run]
  BY <1>1
<1>3. SharingPairs(l, code, run) \subseteq Member \X Member
  BY DEF SharingPairs
<1>4. sharers[run] \subseteq Member
  <2>. DEFINE P == {q \in SharingPairs(l, code, run) : {q[1], q[2]} \notin related}
  <2>1. \A q \in P : q[1] \in Member /\ q[2] \in Member
    BY <1>3
  <2>2. sharers[run] = UNION {{pair[1], pair[2]} : pair \in P}
    OBVIOUS
  <2>. HIDE DEF P, sharers
  <2>. QED BY <2>1, <2>2
<1>. HIDE DEF sharers
<1>. QED BY <1>1, <1>2, <1>4

LEMMA SharedBlocksFinite ==
  ASSUME NEW l, NEW code
  PROVE  IsFiniteSet(SharedBlocks(l, code))
<1>. DEFINE S == SharedBlocks(l, code)
            related == RelatedPairs(l, code)
            Sharers(run) == UNION {{pair[1], pair[2]} :
                      pair \in {q \in SharingPairs(l, code, run) : {q[1], q[2]} \notin related}}
            sharers == [run \in DOMAIN Runs |-> Sharers(run)]
            D == DOMAIN Runs
            sets == {sharers[r] : r \in D}
            some == sets \ {{}}
            Block(set) == [members |-> set, runs |-> {r \in D : sharers[r] = set}]
            f == [set \in some |-> Block(set)]
<1>1. S = {Block(set) : set \in some}
  BY DEF SharedBlocks
<1>2. IsFiniteSet(D)
  BY FindingsAssumption
<1>3. sharers = [r \in D |-> sharers[r]]
  OBVIOUS
<1>. HIDE DEF sharers, D
<1>4. IsFiniteSet(sets)
  BY <1>2, <1>3, FiniteImage
<1>5. IsFiniteSet(some)
  <2>. HIDE DEF sets
  <2>. QED BY <1>4, FS_Subset
<1>. HIDE DEF some, Block
<1>6. f = [set \in some |-> f[set]] /\ S = {f[set] : set \in some}
  BY <1>1
<1>. HIDE DEF f, S
<1>7. IsFiniteSet(S)
  BY <1>5, <1>6, FiniteImage
<1>. QED BY <1>7 DEF S

LEMMA SharedBlocksIn ==
  ASSUME NEW l, NEW code
  PROVE  \E blocks : /\ ListIn(blocks, SharedBlocks(l, code))
                     /\ SharedBlockDrafts(l, code)
                          = [i \in DOMAIN blocks |-> SharedBlockDraft(l, code, blocks[i])]
<1>. DEFINE Key(b) == <<-Max({Runs[r].statements : r \in b.runs}), Min(b.members)>>
            S == SharedBlocks(l, code)
            Before(b, c) == Precedes(Key(b), Key(c))
            items == SetToSeq(S)
            n == Cardinality(S)
            D == 1..n
            sorted == Sorted(items, Before)
            x == [i \in D |-> -Max({Runs[r].statements : r \in items[i].runs})]
            y == [i \in D |-> Min(items[i].members)]
<1>1. SharedBlockDrafts(l, code)
        = [i \in DOMAIN sorted |-> SharedBlockDraft(l, code, sorted[i])]
  BY DEF SharedBlockDrafts
<1>2. IsFiniteSet(S)
  BY SharedBlocksFinite
<1>. HIDE DEF S
<1>3. n \in Nat /\ DOMAIN items = D /\ \A i \in D : items[i] \in S
  BY <1>2, SetToSeqList
<1>. HIDE DEF n, items
<1>4. ASSUME NEW i \in D PROVE x[i] \in Int /\ y[i] \in Int
  <2>. DEFINE b == items[i]
              R == b.runs
              M == b.members
              f == [r \in R |-> Runs[r].statements]
              statements == {Runs[r].statements : r \in R}
  <2>1. b \in SharedBlocks(l, code)
    BY <1>3 DEF S
  <2>2. /\ M \subseteq Member /\ M # {} /\ R \subseteq DOMAIN Runs /\ R # {}
    <3>. HIDE DEF b
    <3>. QED BY <2>1, SharedBlockOver
  <2>3. x[i] = -Max(statements) /\ y[i] = Min(M)
    OBVIOUS
  <2>4. statements = {f[r] : r \in R} /\ f = [r \in R |-> f[r]]
    OBVIOUS
  <2>. HIDE DEF R, M, b
  <2>5. IsFiniteSet(R) /\ IsFiniteSet(M)
    BY <2>2, FindingsAssumption, FS_Subset
  <2>6. statements \in SUBSET Nat /\ statements # {}
    BY <2>2, FindingsAssumption
  <2>. HIDE DEF f, statements, x, y
  <2>7. IsFiniteSet(statements)
    BY <2>4, <2>5, FiniteImage
  <2>8. Max(statements) \in Nat
    BY <2>6, <2>7, GreatestNumber
  <2>9. M \in SUBSET Nat
    BY <2>2, FindingsAssumption
  <2>10. Min(M) \in Nat
    BY <2>2, <2>5, <2>9, SmallestNumber
  <2>. QED BY <2>3, <2>8, <2>10
<1>5. sorted = ByTwo(items, n, x, y)
  <2>. DEFINE Ahead(j, k) == \/ Before(items[j], items[k])
                             \/ j <= k /\ ~Before(items[k], items[j])
              place == [k \in D |-> Cardinality({j \in D : Ahead(j, k)})]
              counted == [k \in D |-> Cardinality({j \in D : AheadOf(x, y, j, k)})]
              Placed(p) == [i \in D |-> items[CHOOSE k \in D : p[k] = i]]
  <2>1. sorted = Placed(place)
    BY <1>3 DEF Sorted
  <2>2. \A j, k \in D : Ahead(j, k) <=> AheadOf(x, y, j, k)
    <3>1. \A j \in D : Key(items[j]) = <<x[j], y[j]>>
      OBVIOUS
    <3>. HIDE DEF Key, x, y
    <3>. QED BY <3>1 DEF AheadOf
  <2>3. \A k \in D : {j \in D : Ahead(j, k)} = {j \in D : AheadOf(x, y, j, k)}
    <3>. HIDE DEF Ahead
    <3>. QED BY <2>2
  <2>4. place = counted
    <3>. HIDE DEF Ahead
    <3>. QED BY <2>3
  <2>5. ByTwo(items, n, x, y) = Placed(counted)
    BY DEF ByTwo
  <2>. HIDE DEF place, counted, Placed, sorted
  <2>. QED BY <2>1, <2>4, <2>5
<1>. HIDE DEF x, y, sorted
<1>6. ListIn(ByTwo(items, n, x, y), S)
  BY <1>3, <1>4, TwoSorted
<1>7. ListIn(sorted, S)
  BY <1>5, <1>6
<1>. QED BY <1>1, <1>7 DEF S

-----------------------------------------------------------------------------
(* The roles of a function, whatever its path, its declaration and its body. *)

Declared(d) ==
  /\ d.special \in {"none", "dunder", "other", "constructor"} \cup FamilyRoles.protocol
  /\ \A name \in d.decorators : IsList(name) /\ name # <<>>

ProtocolNames ==
  {"operator_overload", "descriptor_method", "attribute_access_hook", "container_protocol",
   "comparison_protocol", "context_manager_protocol", "async_protocol", "property_accessor"}

LEMMA FamiliesOf ==
  /\ FamilyRoles["test"] = {"test_code"} /\ FamilyRoles["example"] = {"example_code"}
  /\ FamilyRoles["interface_only"] = InterfaceRoles
  /\ FamilyRoles["protocol"] = ProtocolNames /\ FamilyRoles.protocol = ProtocolNames
  /\ {"adapter_forwarder", "framework_render_surface", "framework_hook",
      "command_or_registry_surface"} \subseteq FamilyRoles["api_surface"]
  /\ {"test", "example", "interface_only", "protocol", "api_surface"} \subseteq DOMAIN FamilyRoles
BY DEF FamilyRoles, ProtocolNames

LEMMA RolesUnion ==
  ASSUME NEW path, NEW role, NEW language, NEW d, NEW form, NEW lines,
         NEW R, R = SemanticRoles(path, role, language, d, form, lines),
         NEW name, name # "normal_function"
  PROVE  /\ language = "python" =>
              (name \in R <=> name \in PathRoles(path, role, language)
                              \/ name \in PythonRoles(d, form, lines))
         /\ language # "python" =>
              (name \in R <=> name \in PathRoles(path, role, language)
                              \/ name \in EcmascriptRoles(d, form, lines))
<1>. DEFINE P == PathRoles(path, role, language)
            A == PythonRoles(d, form, lines)
            B == EcmascriptRoles(d, form, lines)
            roles == P \cup IF language = "python" THEN A ELSE B
<1>1. R = IF roles = {} THEN {"normal_function"} ELSE roles
  BY DEF SemanticRoles
<1>. HIDE DEF P, A, B
<1>2. name \in R <=> name \in roles
  BY <1>1
<1>. QED BY <1>2 DEF P, A, B

LEMMA TestRole ==
  ASSUME NEW path, NEW role, NEW language, NEW d, NEW form, NEW lines, Declared(d)
  PROVE  "test_code" \in SemanticRoles(path, role, language, d, form, lines)
           <=> role \in {"test", "fixture"}
<1>. DEFINE R == SemanticRoles(path, role, language, d, form, lines)
<1>1. "test_code" \notin NameRoles(d.special)
  BY FamiliesOf DEF Declared, NameRoles, ProtocolNames
<1>2. "test_code" \notin PythonRoles(d, form, lines)
  BY <1>1 DEF PythonRoles, When
<1>3. "test_code" \notin EcmascriptRoles(d, form, lines)
  BY DEF EcmascriptRoles, SignatureRoles, When
<1>4. "test_code" \in PathRoles(path, role, language) <=> role \in {"test", "fixture"}
  BY DEF PathRoles, When
<1>. HIDE DEF R
<1>5. "test_code" \in R <=> role \in {"test", "fixture"}
  BY <1>2, <1>3, <1>4, RolesUnion DEF R
<1>. QED BY <1>5 DEF R

LEMMA ExampleRole ==
  ASSUME NEW path, NEW role, NEW language, NEW d, NEW form, NEW lines,
         Under(path, ExampleMarkers)
  PROVE  "example_code" \in SemanticRoles(path, role, language, d, form, lines)
<1>1. "example_code" \in PathRoles(path, role, language)
  BY DEF PathRoles, When
<1>. QED BY <1>1, RolesUnion

(* A decorator that ends in a known name matches it.                         *)
LEMMA LastMatches ==
  ASSUME NEW d, Declared(d), NEW known, NEW name \in d.decorators,
         <<Last(name)>> \in known
  PROVE  DecoratorsMatch(d.decorators, known)
<1>. DEFINE n == Len(name)
            k == <<Last(name)>>
<1>1. name \in Seq(ToSet(name)) /\ name # <<>>
  BY DEF Declared, IsList
<1>2. n \in Nat /\ n >= 1
  BY <1>1
<1>3. Len(k) = 1 /\ Last(name) = name[n] /\ k = <<name[n]>>
  BY DEF Last
<1>4. SubSeq(name, n, n) = <<name[n]>>
  <2>. DEFINE s == SubSeq(name, n, n)
  <2>1. s \in Seq(ToSet(name)) /\ Len(s) = 1 /\ s[1] = name[n]
    <3>1. \A i \in n..n : name[i] \in ToSet(name)
      BY <1>1, <1>2
    <3>2. n - n + 1 = 1 /\ n + 1 - 1 = n
      BY <1>2
    <3>. QED BY <1>1, <1>2, <3>1, <3>2
  <2>. HIDE DEF s, n
  <2>2. s = <<name[n]>>
    BY <2>1
  <2>. QED BY <2>2 DEF s
<1>5. n \in 1..n - Len(k) + 1 /\ SubSeq(name, n, n + Len(k) - 1) = k
  BY <1>2, <1>3, <1>4
<1>. HIDE DEF n, k
<1>6. \E i \in 1..Len(name) - Len(k) + 1 : SubSeq(name, i, i + Len(k) - 1) = k
  BY <1>5 DEF n
<1>7. k \in known
  BY DEF k
<1>. QED BY <1>6, <1>7 DEF DecoratorsMatch

LEMMA InterfaceRole ==
  ASSUME NEW path, NEW role, NEW language, NEW d, NEW form, NEW lines, Declared(d),
         IF language = "python"
         THEN \/ \E name \in d.decorators : Last(name) \in {"overload", "abstractmethod"}
              \/ StubBody(form)
         ELSE ~HasBody(d)
  PROVE  InFamily(SemanticRoles(path, role, language, d, form, lines), "interface_only")
<1>. DEFINE R == SemanticRoles(path, role, language, d, form, lines)
<1>1. {"typing_overload", "abstract_or_interface_stub", "declaration_boundary"}
        \subseteq FamilyRoles["interface_only"]
  BY FamiliesOf DEF InterfaceRoles, DeclarationRoles
<1>2. CASE language = "python"
  <2>1. CASE StubBody(form)
    <3>1. "abstract_or_interface_stub" \in PythonRoles(d, form, lines)
      BY <2>1 DEF PythonRoles, When
    <3>2. "abstract_or_interface_stub" \in R
      BY <1>2, <3>1, RolesUnion
    <3>. HIDE DEF R
    <3>. QED BY <1>1, <3>2 DEF InFamily, R
  <2>2. ASSUME NEW name \in d.decorators, Last(name) \in {"overload", "abstractmethod"}
        PROVE  InFamily(R, "interface_only")
    <3>1. CASE Last(name) = "overload"
      <4>1. <<Last(name)>> \in OverloadDecorators
        BY <3>1 DEF OverloadDecorators
      <4>2. DecoratorsMatch(d.decorators, OverloadDecorators)
        BY <4>1, LastMatches
      <4>3. "typing_overload" \in PythonRoles(d, form, lines)
        BY <4>2 DEF PythonRoles, When
      <4>4. "typing_overload" \in R
        BY <1>2, <4>3, RolesUnion
      <4>. HIDE DEF R
      <4>. QED BY <1>1, <4>4 DEF InFamily
    <3>2. CASE Last(name) = "abstractmethod"
      <4>1. <<Last(name)>> \in AbstractDecorators
        BY <3>2 DEF AbstractDecorators
      <4>2. DecoratorsMatch(d.decorators, AbstractDecorators)
        BY <4>1, LastMatches
      <4>3. "abstract_or_interface_stub" \in PythonRoles(d, form, lines)
        BY <4>2 DEF PythonRoles, When
      <4>4. "abstract_or_interface_stub" \in R
        BY <1>2, <4>3, RolesUnion
      <4>. HIDE DEF R
      <4>. QED BY <1>1, <4>4 DEF InFamily
    <3>. QED BY <2>2, <3>1, <3>2
  <2>. QED BY <1>2, <2>1, <2>2
<1>3. CASE language # "python"
  <2>1. ~HasBody(d)
    BY <1>3
  <2>2. "declaration_boundary" \in EcmascriptRoles(d, form, lines)
    BY <2>1 DEF EcmascriptRoles, SignatureRoles, When
  <2>3. "declaration_boundary" \in R
    BY <1>3, <2>2, RolesUnion
  <2>. HIDE DEF R
  <2>. QED BY <1>1, <2>3 DEF InFamily, R
<1>. QED BY <1>2, <1>3

LEMMA ProtocolRole ==
  ASSUME NEW path, NEW role, NEW language, NEW d, NEW form, NEW lines, Declared(d),
         IF language = "python"
         THEN \/ d.special \notin {"none", "dunder", "other", "constructor"}
              \/ \E name \in d.decorators : Last(name) \in {"property", "cached_property"}
         ELSE Accessor(d)
  PROVE  InFamily(SemanticRoles(path, role, language, d, form, lines), "protocol")
<1>. DEFINE R == SemanticRoles(path, role, language, d, form, lines)
<1>1. "property_accessor" \in FamilyRoles["protocol"]
  BY FamiliesOf DEF ProtocolNames
<1>2. CASE language = "python"
  <2>1. CASE d.special \notin {"none", "dunder", "other", "constructor"}
    <3>1. d.special \in ProtocolNames
      BY <2>1, FamiliesOf DEF Declared
    <3>2. d.special \in NameRoles(d.special) /\ d.special # "normal_function"
      BY <2>1, <3>1 DEF NameRoles, ProtocolNames
    <3>3. d.special \in PythonRoles(d, form, lines)
      BY <3>2 DEF PythonRoles
    <3>4. d.special \in R
      BY <1>2, <3>2, <3>3, RolesUnion
    <3>. HIDE DEF R
    <3>. QED BY <3>1, <3>4, FamiliesOf DEF InFamily, R
  <2>2. ASSUME NEW name \in d.decorators, Last(name) \in {"property", "cached_property"}
        PROVE  InFamily(R, "protocol")
    <3>1. <<Last(name)>> \in PropertyDecorators
      BY <2>2 DEF PropertyDecorators
    <3>2. DecoratorsMatch(d.decorators, PropertyDecorators)
      BY <3>1, LastMatches
    <3>3. "property_accessor" \in PythonRoles(d, form, lines)
      BY <3>2 DEF PythonRoles, When
    <3>4. "property_accessor" \in R
      BY <1>2, <3>3, RolesUnion
    <3>. HIDE DEF R
    <3>. QED BY <1>1, <3>4 DEF InFamily
  <2>. QED BY <1>2, <2>1, <2>2
<1>3. CASE language # "python"
  <2>1. "property_accessor" \in EcmascriptRoles(d, form, lines)
    BY <1>3 DEF EcmascriptRoles, When
  <2>2. "property_accessor" \in R
    BY <1>3, <2>1, RolesUnion
  <2>. HIDE DEF R
  <2>. QED BY <1>1, <2>2 DEF InFamily, R
<1>. QED BY <1>2, <1>3

LEMMA FrameworkRole ==
  ASSUME NEW path, NEW role, NEW d, NEW form, NEW lines, HasBody(d),
         CASE d.wording = "component" -> form.elements
           [] d.wording = "hook" -> form.hook
           [] d.wording = "registry" -> form.keys \/ form.registers
           [] OTHER -> FALSE
  PROVE  InFamily(SemanticRoles(path, role, "ecmascript", d, form, lines), "api_surface")
<1>. DEFINE R == SemanticRoles(path, role, "ecmascript", d, form, lines)
            E == EcmascriptRoles(d, form, lines)
<1>1. \/ d.wording = "component" /\ form.elements
      \/ d.wording = "hook" /\ form.hook
      \/ d.wording = "registry" /\ (form.keys \/ form.registers)
  OBVIOUS
<1>2. \E name \in {"framework_render_surface", "framework_hook", "command_or_registry_surface"} :
        name \in E
  <2>1. CASE d.wording = "component" /\ form.elements
    <3>1. RenderSurface(d, form)
      BY <2>1 DEF RenderSurface
    <3>. QED BY <3>1 DEF EcmascriptRoles, When
  <2>2. CASE d.wording = "hook" /\ form.hook
    BY <2>2 DEF EcmascriptRoles, When
  <2>3. CASE d.wording = "registry" /\ (form.keys \/ form.registers)
    <3>1. CommandOrRegistrySurface(d, form)
      BY <2>3 DEF CommandOrRegistrySurface
    <3>. QED BY <3>1 DEF EcmascriptRoles, When
  <2>. QED BY <1>1, <2>1, <2>2, <2>3
<1>3. PICK name \in {"framework_render_surface", "framework_hook", "command_or_registry_surface"} :
        name \in E
  BY <1>2
<1>4. name # "normal_function" /\ "ecmascript" # "python"
  BY <1>3
<1>5. name \in R
  BY <1>3, <1>4, RolesUnion
<1>. HIDE DEF R
<1>. QED BY <1>3, <1>5, FamiliesOf DEF InFamily, R

LEMMA ForwarderRole ==
  ASSUME NEW path, NEW role, NEW language, NEW d, NEW form, NEW lines,
         language = "python" \/ HasBody(d),
         DelegatesToAttribute(WholeCall(form)), lines <= SimpleForwarderMaxLines.python
  PROVE  InFamily(SemanticRoles(path, role, language, d, form, lines), "api_surface")
<1>. DEFINE R == SemanticRoles(path, role, language, d, form, lines)
<1>1. CASE language = "python"
  <2>1. "adapter_forwarder" \in PythonRoles(d, form, lines)
    BY DEF PythonRoles, When
  <2>2. "adapter_forwarder" \in R
    BY <1>1, <2>1, RolesUnion
  <2>. HIDE DEF R
  <2>. QED BY <2>2, FamiliesOf DEF InFamily, R
<1>2. CASE language # "python"
  <2>1. DelegatesToMember(WholeCall(form))
    <3>1. Len(WholeCall(form).callee.attributes) > 1
      BY DEF DelegatesToAttribute
    <3>2. WholeCall(form).callee.attributes # <<>>
      BY <3>1
    <3>. QED BY <3>2 DEF DelegatesToMember, DelegatesToAttribute
  <2>2. "adapter_forwarder" \in EcmascriptRoles(d, form, lines)
    BY <1>2, <2>1 DEF EcmascriptRoles, When
  <2>3. "adapter_forwarder" \in R
    BY <1>2, <2>2, RolesUnion
  <2>. HIDE DEF R
  <2>. QED BY <2>3, FamiliesOf DEF InFamily, R
<1>. QED BY <1>1, <1>2

(* One statement that returns a constant or a read of a name is trivial in   *)
(* both languages.                                                           *)
LEMMA OneReadTrivial ==
  ASSUME NEW form, Len(form.statements) = 1, form.statements[1].is = "return",
         NEW value, value = form.statements[1].value, Bare(value),
         value.is = "read" => \A i \in value.index : Bare(i)
  PROVE  PythonTrivialBody(form) /\ EcmascriptTrivialBody(form)
<1>1. /\ value.is \in {"constant", "read"}
      /\ value.is = "read" => value.root # "other"
      /\ value.is = "read" => \A i \in value.index : i.is # "await"
  BY DEF Bare
<1>2. Unwrapped(value) = value
  BY <1>1 DEF Unwrapped
<1>3. value.is = "read" => \A i \in value.index : Unwrapped(i) = i
  BY <1>1 DEF Unwrapped
<1>4. OneOperation(value, Itself)
  BY <1>1 DEF OneOperation, IsOperand, IsRead, Itself
<1>5. OneOperation(value, Unwrapped)
  <2>1. value.is = "read" => \A i \in value.index : Bare(Unwrapped(i))
    BY <1>3
  <2>. QED BY <1>1, <1>2, <2>1 DEF OneOperation, IsOperand, IsRead
<1>6. OneOperation(Unwrapped(value), Itself) /\ OneOperation(Unwrapped(value), Unwrapped)
  BY <1>2, <1>4, <1>5 DEF OneOperation, IsOperand, IsRead, Itself
<1>. QED BY <1>6 DEF PythonTrivialBody, EcmascriptTrivialBody

LEMMA TrivialRole ==
  ASSUME NEW path, NEW role, NEW language, NEW d, NEW form, NEW lines,
         language = "python" \/ HasBody(d),
         PythonTrivialBody(form), EcmascriptTrivialBody(form)
  PROVE  "trivial_body" \in SemanticRoles(path, role, language, d, form, lines)
<1>. DEFINE R == SemanticRoles(path, role, language, d, form, lines)
<1>1. CASE language = "python"
  <2>1. "trivial_body" \in PythonRoles(d, form, lines)
    BY DEF PythonRoles, When
  <2>. QED BY <1>1, <2>1, RolesUnion
<1>2. CASE language # "python"
  <2>1. "trivial_body" \in EcmascriptRoles(d, form, lines)
    BY <1>2 DEF EcmascriptRoles, When
  <2>. QED BY <1>2, <2>1, RolesUnion
<1>. QED BY <1>1, <1>2

(* What the functions are for, as the analysis sees it.                      *)
Formed(l, code) ==
  \A m \in Member :
    /\ Declared(l.declared[m])
    /\ RolesOf(l, code, m)
         = SemanticRoles(FileOf(l, m).path, FileOf(l, m).role, FileOf(l, m).family,
                         l.declared[m], l.forms[m][code[m]], Bodies[code[m]].lines)

LEMMA RolesSeen ==
  ASSUME Formed(layout, body), NEW m \in Member
  PROVE  LET R == RolesOf(layout, body, m)
         IN  /\ "test_code" \in R <=> FileOf(layout, m).role \in {"test", "fixture"}
             /\ Under(FileOf(layout, m).path, ExampleMarkers) => "example_code" \in R
             /\ Unimplemented(m) => InFamily(R, "interface_only")
             /\ ProtocolFunction(m) => InFamily(R, "protocol")
             /\ FrameworkFunction(m) \/ Forwarder(m) => InFamily(R, "api_surface")
             /\ OneRead(m) => "trivial_body" \in R
<1>. DEFINE R == RolesOf(layout, body, m)
            path == FileOf(layout, m).path
            role == FileOf(layout, m).role
            language == FileOf(layout, m).family
            d == layout.declared[m]
            form == layout.forms[m][body[m]]
            lines == Bodies[body[m]].lines
<1>1. Declared(d) /\ R = SemanticRoles(path, role, language, d, form, lines)
  BY DEF Formed
<1>2. FormOf(m) = form
  BY DEF FormOf
<1>3. /\ Unimplemented(m) =>
           IF language = "python"
           THEN \/ \E name \in d.decorators : Last(name) \in {"overload", "abstractmethod"}
                \/ StubBody(form)
           ELSE ~HasBody(d)
      /\ ProtocolFunction(m) =>
           IF language = "python"
           THEN \/ d.special \notin {"none", "dunder", "other", "constructor"}
                \/ \E name \in d.decorators : Last(name) \in {"property", "cached_property"}
           ELSE Accessor(d)
  BY <1>2 DEF Unimplemented, ProtocolFunction
<1>4. FrameworkFunction(m) =>
        /\ language = "ecmascript" /\ HasBody(d)
        /\ CASE d.wording = "component" -> form.elements
             [] d.wording = "hook" -> form.hook
             [] d.wording = "registry" -> form.keys \/ form.registers
             [] OTHER -> FALSE
  BY <1>2 DEF FrameworkFunction
<1>5. Forwarder(m) =>
        /\ language = "python" \/ HasBody(d)
        /\ DelegatesToAttribute(WholeCall(form)) /\ lines <= SimpleForwarderMaxLines.python
  BY <1>2 DEF Forwarder, HasCode
<1>6. OneRead(m) =>
        /\ language = "python" \/ HasBody(d)
        /\ Len(form.statements) = 1 /\ form.statements[1].is = "return"
        /\ Bare(form.statements[1].value)
        /\ form.statements[1].value.is = "read" =>
             \A i \in form.statements[1].value.index : Bare(i)
  BY <1>2 DEF OneRead, HasCode
<1>. HIDE DEF R, path, role, language, d, form, lines
<1>7. "test_code" \in R <=> role \in {"test", "fixture"}
  BY <1>1, TestRole
<1>8. Under(path, ExampleMarkers) => "example_code" \in R
  BY <1>1, ExampleRole
<1>9. Unimplemented(m) => InFamily(R, "interface_only")
  BY <1>1, <1>3, InterfaceRole
<1>10. ProtocolFunction(m) => InFamily(R, "protocol")
  BY <1>1, <1>3, ProtocolRole
<1>11. FrameworkFunction(m) => InFamily(R, "api_surface")
  BY <1>1, <1>4, FrameworkRole
<1>12. Forwarder(m) => InFamily(R, "api_surface")
  BY <1>1, <1>5, ForwarderRole
<1>13. OneRead(m) => "trivial_body" \in R
  BY <1>1, <1>6, OneReadTrivial, TrivialRole
<1>. QED BY <1>7, <1>8, <1>9, <1>10, <1>11, <1>12, <1>13 DEF R, path, role

-----------------------------------------------------------------------------
(* The caps on code that is repeated on purpose leave no edit.               *)

Lowering(cap) ==
  /\ cap.level \in {"review_candidate", "maintenance_note", "observation", "do_not_refactor"}
  /\ cap.action \in {"", "record_shared_concern"}

LEMMA LoweringCap ==
  ASSUME NEW tier, NEW kind, NEW status, NEW cap, Lowering(cap)
  PROVE  ApplyCap(tier, kind, status, cap).action \notin Edits
<1>. DEFINE verdict == ApplyCap(tier, kind, status, cap)
            capped == CappedTier(tier, cap.level)
            lowered == capped # tier
<1>1. CASE /\ cap.level = "review_candidate"
           /\ lowered \/ kind \in Edits \/ status = "recommended_edit"
  <2>1. verdict.action = IF cap.action # "" THEN cap.action
                         ELSE IF kind \in Edits THEN "record_shared_concern" ELSE kind
    BY <1>1 DEF ApplyCap
  <2>. QED BY <2>1 DEF Lowering, Edits
<1>2. CASE cap.level \in {"maintenance_note", "observation"} /\ (lowered \/ kind \in Edits)
  <2>1. verdict.action = "record_shared_concern"
    BY <1>2 DEF ApplyCap
  <2>. QED BY <2>1 DEF Edits
<1>3. CASE cap.level = "do_not_refactor"
  <2>1. verdict.action = "do_not_refactor"
    BY <1>3 DEF ApplyCap
  <2>. QED BY <2>1 DEF Edits
<1>4. CASE /\ cap.level \in {"review_candidate", "maintenance_note", "observation"}
           /\ ~lowered /\ kind \notin Edits
           /\ ~(cap.level = "review_candidate" /\ status = "recommended_edit")
  <2>1. verdict.action = kind
    BY <1>4 DEF ApplyCap
  <2>. QED BY <2>1, <1>4
<1>. QED BY <1>1, <1>2, <1>3, <1>4 DEF Lowering

LEMMA RulesLower ==
  ASSUME NEW m, NEW k \in 1..10, CapRules(m)[k].holds
  PROVE  Lowering(SemanticCap(m))
<1>. DEFINE rules == CapRules(m)
            applying == {i \in DOMAIN rules : rules[i].holds}
<1>1. Lowering(SurfaceCap(m)) /\ Lowering(ApiSurfaceCap(m))
  BY DEF SurfaceCap, ApiSurfaceCap, Cap, Lowering
<1>2. DOMAIN rules = 1..13
  BY DEF CapRules
<1>3. /\ Lowering(rules[1].cap) /\ Lowering(rules[2].cap) /\ Lowering(rules[3].cap)
      /\ Lowering(rules[4].cap) /\ Lowering(rules[5].cap) /\ Lowering(rules[6].cap)
      /\ Lowering(rules[7].cap) /\ Lowering(rules[8].cap) /\ Lowering(rules[9].cap)
      /\ Lowering(rules[10].cap)
  <2>1. /\ Lowering(Cap("maintenance_note")) /\ Lowering(Cap("observation"))
        /\ Lowering(Cap("do_not_refactor"))
        /\ Lowering([level |-> "review_candidate", action |-> "record_shared_concern"])
    BY DEF Cap, Lowering
  <2>2. /\ rules[1].cap \in {Cap("maintenance_note"), Cap("observation")}
        /\ rules[2].cap = Cap("do_not_refactor") /\ rules[3].cap = Cap("maintenance_note")
        /\ rules[4].cap = Cap("maintenance_note") /\ rules[5].cap = Cap("observation")
        /\ rules[6].cap = [level |-> "review_candidate", action |-> "record_shared_concern"]
        /\ rules[7].cap = SurfaceCap(m) /\ rules[8].cap = ApiSurfaceCap(m)
        /\ rules[9].cap = SurfaceCap(m) /\ rules[10].cap = ApiSurfaceCap(m)
    BY DEF CapRules, Cap
  <2>. QED BY <1>1, <2>1, <2>2
<1>4. SemanticCap(m) = IF applying = {} THEN Cap("recommended_edit") ELSE rules[Min(applying)].cap
  BY DEF SemanticCap
<1>5. applying \in SUBSET (1..13) /\ k \in applying
  BY <1>2
<1>. HIDE DEF rules, applying
<1>6. Min(applying) \in 1..10
  <2>. DEFINE last == 13
  <2>1. 1 \in Int /\ last \in Int
    OBVIOUS
  <2>2. applying \in SUBSET (1..last)
    BY <1>5
  <2>. HIDE DEF last
  <2>3. IsFiniteSet(applying)
    BY <2>1, <2>2, FS_Interval, FS_Subset
  <2>4. applying \in SUBSET Nat /\ applying # {}
    BY <1>5
  <2>5. Min(applying) \in applying /\ \A i \in applying : Min(applying) <= i
    <3>1. applying \in SUBSET Nat /\ IsFiniteSet(applying) /\ applying # {}
      BY <2>3, <2>4
    <3>. QED BY <3>1, SmallestNumber, Zenon
  <2>6. Min(applying) <= k /\ Min(applying) \in 1..13
    BY <1>5, <2>5
  <2>. QED BY <2>6
<1>7. \A i \in 1..10 : Lowering(rules[i].cap)
  BY <1>3
<1>. QED BY <1>4, <1>5, <1>6, <1>7

LEMMA CappedAction ==
  ASSUME NEW draft, Assess(draft).action \in Edits, NEW k \in 1..10
  PROVE  ~CapRules(draft.metrics)[k].holds
<1>. DEFINE m == draft.metrics
            s == Scores(draft)
            action == RecommendAction(EffectiveActions(draft), draft.summary, m, s)
            tier == ReviewTier(action, s)
            cap == SemanticCap(m)
            surface == ApplyCap(tier, action.kind, ActionStatus(action), cap)
<1>1. Assess(draft).action = surface.action
  BY DEF Assess, AssessWith, Decide, Verdict
<1>. HIDE DEF action, s, tier
<1>2. SUFFICES ASSUME CapRules(m)[k].holds PROVE FALSE
  OBVIOUS
<1>3. Lowering(cap)
  BY <1>2, RulesLower
<1>4. surface.action \notin Edits
  BY <1>3, LoweringCap
<1>. QED BY <1>1, <1>4

(* When the rules that matter here hold.                                     *)
LEMMA RulesOf ==
  ASSUME NEW m
  PROVE  LET g == m.guardrails IN
         /\ CapRules(m)[2].holds
              <=> Dominates(m, WithMembers(g.interface_only, MaxRoleCount(m, InterfaceRoles)))
         /\ CapRules(m)[3].holds <=> MostMembers(m, RoleCount(m, "trivial_body"))
         /\ CapRules(m)[5].holds <=> DominantDuplicates(m, g.example) \/ Dominates(m, g.example)
         /\ CapRules(m)[6].holds <=> InTests(m) /\ ~CleanTestHelper(m)
         /\ CapRules(m)[9].holds <=> Dominates(m, g.protocol)
         /\ CapRules(m)[10].holds <=> Dominates(m, g.api_surface)
BY DEF CapRules

(* The metrics of a draft that the caps read are of its functions, of some   *)
(* pairs of them, and of duplicates among these.                             *)
MetricsOf(l, code, m, members, pairs, duplicates, mirrored) ==
  /\ m.member_count = Cardinality(members)
  /\ m.guardrails = Guardrails(l, code, members, pairs, duplicates, mirrored)
  /\ m.semantic_role_counts = RoleCounts(l, code, members, mirrored)

Carriers(l, code, members, family) ==
  {x \in members : InFamily(RolesOf(l, code, x), family)}

LEMMA FamilyCounts ==
  ASSUME NEW l, NEW code, NEW members, NEW pairs, NEW duplicates, NEW mirrored, NEW m,
         MetricsOf(l, code, m, members, pairs, duplicates, mirrored)
  PROVE  /\ \A family \in {"example", "interface_only", "protocol", "test"} :
              m.guardrails[family].members = Cardinality(Carriers(l, code, members, family))
         /\ m.guardrails["api_surface"].members
              = IF mirrored THEN Cardinality(members)
                ELSE Cardinality(Carriers(l, code, members, "api_surface"))
<1>. DEFINE Number(family) ==
              IF family = "constructor" THEN 0
              ELSE IF family = "api_surface" /\ mirrored THEN Cardinality(members)
              ELSE Cardinality(Carriers(l, code, members, family))
            families == {"api_surface", "constructor", "declaration", "example",
                         "interface_only", "protocol", "test"}
<1>1. DOMAIN FamilyRoles = families
  BY DEF FamilyRoles
<1>2. \A family \in families : m.guardrails[family].members = Number(family)
  <2>1. m.guardrails = Guardrails(l, code, members, pairs, duplicates, mirrored)
    BY DEF MetricsOf
  <2>. HIDE DEF families
  <2>. QED BY <1>1, <2>1 DEF Guardrails, Carriers
<1>. QED BY <1>2

LEMMA PairCounts ==
  ASSUME NEW l, NEW code, NEW members, NEW pairs, NEW duplicates, NEW mirrored, NEW m,
         MetricsOf(l, code, m, members, pairs, duplicates, mirrored)
  PROVE  \E D \in SUBSET duplicates, R \in SUBSET pairs :
            /\ m.guardrails["test"].duplicate_pairs = Cardinality(D)
            /\ m.guardrails["test"].relation_pairs = Cardinality(R)
            /\ \A p \in D \cup R : /\ InFamily(RolesOf(l, code, p.left), "test")
                                   /\ InFamily(RolesOf(l, code, p.right), "test")
<1>. DEFINE Shares(p, family) ==
              \/ InFamily(RolesOf(l, code, p.left) \cap RolesOf(l, code, p.right), family)
              \/ family = "api_surface" /\ Mirrors(l, {p.left, p.right})
            D == {p \in duplicates : Shares(p, "test")}
            R == {p \in pairs : Shares(p, "test")}
<1>1. "test" \in DOMAIN FamilyRoles
  BY DEF FamilyRoles
<1>2. m.guardrails = Guardrails(l, code, members, pairs, duplicates, mirrored)
  BY DEF MetricsOf
<1>3. /\ m.guardrails["test"].duplicate_pairs = Cardinality(D)
      /\ m.guardrails["test"].relation_pairs = Cardinality(R)
  BY <1>1, <1>2 DEF Guardrails, CountIn
<1>4. \A p \in D \cup R : /\ InFamily(RolesOf(l, code, p.left), "test")
                          /\ InFamily(RolesOf(l, code, p.right), "test")
  BY DEF InFamily
<1>. HIDE DEF D, R
<1>5. D \in SUBSET duplicates /\ R \in SUBSET pairs
  BY DEF D, R
<1>. QED BY <1>3, <1>4, <1>5

LEMMA RoleCounted ==
  ASSUME NEW l, NEW code, NEW members, IsFiniteSet(members), NEW pairs, NEW duplicates,
         NEW mirrored, NEW m, MetricsOf(l, code, m, members, pairs, duplicates, mirrored)
  PROVE  RoleCount(m, "trivial_body")
           = Cardinality({x \in members : "trivial_body" \in RolesOf(l, code, x)})
<1>. DEFINE role == "trivial_body"
            some == {x \in members : role \in RolesOf(l, code, x)}
            values == UNION {RolesOf(l, code, x) : x \in members}
            Has(x, r) == r \in RolesOf(l, code, x)
            counts == Tally(values, members, Has)
            mirror == [sync_async_mirror |-> 1 + Count(counts, "sync_async_mirror")]
            all == IF mirrored THEN Also(mirror, counts) ELSE counts
<1>1. m.semantic_role_counts = all
  BY DEF MetricsOf, RoleCounts
<1>2. counts = [r \in values |-> Cardinality({x \in members : r \in RolesOf(l, code, x)})]
  BY DEF Tally, CountIn
<1>3. Count(counts, role) = Cardinality(some)
  <2>1. CASE role \in values
    BY <1>2, <2>1 DEF Count
  <2>2. CASE role \notin values
    <3>1. some = {}
      BY <2>2
    <3>2. Cardinality(some) = 0
      BY <3>1, FS_EmptySet
    <3>. QED BY <1>2, <2>2, <3>2 DEF Count
  <2>. QED BY <2>1, <2>2
<1>4. DOMAIN mirror = {"sync_async_mirror"}
  OBVIOUS
<1>. HIDE DEF counts, mirror, some
<1>5. Count(all, role) = Count(counts, role)
  <2>1. CASE mirrored
    <3>1. all = Also(mirror, counts)
      BY <2>1
    <3>2. role \in DOMAIN all <=> role \in DOMAIN counts
      BY <1>4, <3>1 DEF Also
    <3>3. role \in DOMAIN counts => all[role] = counts[role]
      BY <1>4, <3>1 DEF Also
    <3>. QED BY <3>2, <3>3 DEF Count
  <2>2. CASE ~mirrored
    BY <2>2
  <2>. QED BY <2>1, <2>2
<1>. QED BY <1>1, <1>3, <1>5 DEF RoleCount, some

(* More members are most of them if fewer are.                               *)
LEMMA MostGrows ==
  ASSUME NEW n \in Nat, NEW a \in Nat, NEW b \in Nat, a <= b,
         MostMembers([member_count |-> n], a), NEW m, m.member_count = n
  PROVE  MostMembers(m, b)
<1>. DEFINE ratio == SemanticRoleCapPolicy.dominant_member_ratio
            part == ratio * n
<1>1. n > 0 /\ a * One >= part
  BY DEF MostMembers, Mostly
<1>2. a * One = 10000 * a /\ b * One = 10000 * b
  BY DEF One
<1>3. b * One >= part
  <2>1. 10000 * b >= 10000 * a
    OBVIOUS
  <2>2. part \in Int
    BY PolicyAssumption, FieldsAssumption
  <2>. HIDE DEF part
  <2>. QED BY <1>1, <1>2, <2>1, <2>2
<1>. QED BY <1>1, <1>3 DEF MostMembers, Mostly

(* What no edit repeats on purpose, of a set of functions and pairs of them. *)
Most(members, some) ==
  MostMembers([member_count |-> Cardinality(members)], Cardinality(some))

Spares(members, pairs) ==
  /\ \/ TestFunctions(members) = {}
     \/ /\ TestFunctions(members) = members /\ Cardinality(members) = 2
        /\ \E p \in pairs : {p.left, p.right} = members
  /\ ~Most(members, ShownFunctions(members))
  /\ ~Most(members, {m \in members : Unimplemented(m)})
  /\ ~Most(members, {m \in members : ProtocolFunction(m)})
  /\ ~Most(members, {m \in members : FrameworkFunction(m) \/ Forwarder(m)})
  /\ ~Most(members, {m \in members : OneRead(m)})

(* A rule that asks for most of the carriers of a role holds if most of the  *)
(* functions are among them.                                                 *)
LEMMA MostCarried ==
  ASSUME NEW members, IsFiniteSet(members), NEW some, NEW carriers \in SUBSET members,
         some \subseteq carriers, Most(members, some),
         NEW m, m.member_count = Cardinality(members)
  PROVE  /\ MostMembers(m, Cardinality(carriers)) /\ MostMembers(m, Cardinality(members))
         /\ Cardinality(carriers) = 0 => \A b \in Nat : MostMembers(m, b)
<1>. DEFINE a == Cardinality(some)
            b == Cardinality(carriers)
            n == Cardinality(members)
<1>1. IsFiniteSet(carriers)
  BY FS_Subset
<1>2. IsFiniteSet(some)
  BY <1>1, FS_Subset
<1>3. a \in Nat /\ b \in Nat /\ n \in Nat
  BY <1>1, <1>2, FS_CardinalityType
<1>4. a <= b /\ b <= n
  BY <1>1, FS_Subset
<1>5. MostMembers([member_count |-> n], a) /\ m.member_count = n
  BY DEF Most
<1>. HIDE DEF a, b, n
<1>6. MostMembers(m, b) /\ MostMembers(m, n)
  <2>1. a <= n
    BY <1>3, <1>4
  <2>. QED BY <1>3, <1>4, <1>5, <2>1, MostGrows
<1>7. ASSUME b = 0, NEW c \in Nat PROVE MostMembers(m, c)
  <2>1. a <= c
    BY <1>3, <1>4, <1>7
  <2>. QED BY <1>3, <1>5, <2>1, MostGrows
<1>. QED BY <1>6, <1>7 DEF b, n

LEMMA FamiliesSpared ==
  ASSUME Formed(layout, body), NEW members \in SUBSET Member, NEW pairs, NEW duplicates,
         NEW mirrored, NEW m,
         MetricsOf(layout, body, m, members, pairs, duplicates, mirrored),
         \A k \in 1..10 : ~CapRules(m)[k].holds
  PROVE  /\ ~Most(members, ShownFunctions(members))
         /\ ~Most(members, {x \in members : Unimplemented(x)})
         /\ ~Most(members, {x \in members : ProtocolFunction(x)})
         /\ ~Most(members, {x \in members : FrameworkFunction(x) \/ Forwarder(x)})
         /\ ~Most(members, {x \in members : OneRead(x)})
<1>. DEFINE g == m.guardrails
            C(family) == Carriers(layout, body, members, family)
            trivial == {x \in members : "trivial_body" \in RolesOf(layout, body, x)}
<1>1. IsFiniteSet(members) /\ m.member_count = Cardinality(members)
  BY FindingsAssumption, FS_Subset DEF MetricsOf
<1>2. /\ ~Dominates(m, WithMembers(g.interface_only, MaxRoleCount(m, InterfaceRoles)))
      /\ ~MostMembers(m, RoleCount(m, "trivial_body"))
      /\ ~Dominates(m, g.example) /\ ~Dominates(m, g.protocol) /\ ~Dominates(m, g.api_surface)
  BY RulesOf
<1>3. /\ g.example.members = Cardinality(C("example"))
      /\ g.interface_only.members = Cardinality(C("interface_only"))
      /\ g.protocol.members = Cardinality(C("protocol"))
      /\ \/ g.api_surface.members = Cardinality(members)
         \/ g.api_surface.members = Cardinality(C("api_surface"))
  BY FamilyCounts
<1>4. RoleCount(m, "trivial_body") = Cardinality(trivial)
  BY <1>1, RoleCounted
<1>5. \A family : C(family) \in SUBSET members /\ IsFiniteSet(C(family))
  BY <1>1, FS_Subset DEF Carriers
<1>6. trivial \in SUBSET members /\ Cardinality(trivial) \in Nat
  BY <1>1, FS_Subset, FS_CardinalityType
<1>7. \A x \in members :
         /\ Under(FileOf(layout, x).path, ExampleMarkers) => x \in C("example")
         /\ Unimplemented(x) => x \in C("interface_only")
         /\ ProtocolFunction(x) => x \in C("protocol")
         /\ FrameworkFunction(x) \/ Forwarder(x) => x \in C("api_surface")
         /\ OneRead(x) => x \in trivial
  <2>1. ASSUME NEW R, "example_code" \in R PROVE InFamily(R, "example")
    BY <2>1 DEF InFamily, FamilyRoles
  <2>. QED BY <2>1, RolesSeen DEF Carriers
<1>8. \A counts : MostMembers(m, counts.members) => Dominates(m, counts)
  BY DEF Dominates
<1>9. ~Most(members, ShownFunctions(members))
  <2>1. ShownFunctions(members) \subseteq C("example")
    BY <1>7 DEF ShownFunctions
  <2>2. SUFFICES ASSUME Most(members, ShownFunctions(members)) PROVE FALSE
    OBVIOUS
  <2>. HIDE DEF C, g
  <2>3. MostMembers(m, Cardinality(C("example")))
    BY <1>1, <1>5, <2>1, <2>2, MostCarried
  <2>. QED BY <1>2, <1>3, <1>8, <2>3
<1>10. ~Most(members, {x \in members : ProtocolFunction(x)})
  <2>. DEFINE some == {x \in members : ProtocolFunction(x)}
  <2>1. some \subseteq C("protocol")
    BY <1>7
  <2>2. SUFFICES ASSUME Most(members, some) PROVE FALSE
    OBVIOUS
  <2>. HIDE DEF C, g, some
  <2>3. MostMembers(m, Cardinality(C("protocol")))
    BY <1>1, <1>5, <2>1, <2>2, MostCarried
  <2>. QED BY <1>2, <1>3, <1>8, <2>3
<1>11. ~Most(members, {x \in members : FrameworkFunction(x) \/ Forwarder(x)})
  <2>. DEFINE some == {x \in members : FrameworkFunction(x) \/ Forwarder(x)}
  <2>1. some \subseteq C("api_surface")
    BY <1>7
  <2>2. SUFFICES ASSUME Most(members, some) PROVE FALSE
    OBVIOUS
  <2>. HIDE DEF C, g, some
  <2>3. MostMembers(m, Cardinality(C("api_surface"))) /\ MostMembers(m, Cardinality(members))
    BY <1>1, <1>5, <2>1, <2>2, MostCarried
  <2>. QED BY <1>2, <1>3, <1>8, <2>3
<1>12. ~Most(members, {x \in members : OneRead(x)})
  <2>. DEFINE some == {x \in members : OneRead(x)}
  <2>1. some \subseteq trivial
    BY <1>7
  <2>2. SUFFICES ASSUME Most(members, some) PROVE FALSE
    OBVIOUS
  <2>. HIDE DEF C, g, some, trivial
  <2>3. MostMembers(m, Cardinality(trivial))
    BY <1>1, <1>6, <2>1, <2>2, MostCarried
  <2>. QED BY <1>2, <1>4, <2>3
<1>13. ~Most(members, {x \in members : Unimplemented(x)})
  <2>. DEFINE some == {x \in members : Unimplemented(x)}
              carriers == C("interface_only")
  <2>1. some \subseteq carriers
    BY <1>7
  <2>2. SUFFICES ASSUME Most(members, some) PROVE FALSE
    OBVIOUS
  <2>3. carriers \in SUBSET members /\ Cardinality(carriers) \in Nat
    BY <1>5, FS_CardinalityType
  <2>4. g.interface_only.members = Cardinality(carriers)
    BY <1>3
  <2>. HIDE DEF C, g, some, carriers
  <2>5. /\ MostMembers(m, Cardinality(carriers))
        /\ Cardinality(carriers) = 0 => \A b \in Nat : MostMembers(m, b)
    BY <1>1, <2>1, <2>2, <2>3, MostCarried
  <2>6. Cardinality(carriers) # 0
    <3>. HIDE DEF trivial
    <3>. QED BY <1>2, <1>4, <1>6, <2>5
  <2>7. WithMembers(g.interface_only, MaxRoleCount(m, InterfaceRoles)) = g.interface_only
    BY <2>3, <2>4, <2>6 DEF WithMembers
  <2>. QED BY <1>2, <1>8, <2>4, <2>5, <2>7
<1>. QED BY <1>9, <1>10, <1>11, <1>12, <1>13

(* Pairs of two of the functions each.                                       *)
Joins(pairs, members) ==
  \A p \in pairs : p.left \in members /\ p.right \in members /\ p.left # p.right

LEMMA TestsSpared ==
  ASSUME Formed(layout, body), NEW members \in SUBSET Member,
         NEW pairs, NEW duplicates, Joins(pairs \cup duplicates, members), NEW mirrored, NEW m,
         MetricsOf(layout, body, m, members, pairs, duplicates, mirrored),
         ~CapRules(m)[6].holds
  PROVE  \/ TestFunctions(members) = {}
         \/ /\ TestFunctions(members) = members /\ Cardinality(members) = 2
            /\ \E p \in pairs \cup duplicates : {p.left, p.right} = members
<1>. DEFINE tests == TestFunctions(members)
            test == m.guardrails["test"]
<1>. SUFFICES ASSUME tests # {}
              PROVE  /\ tests = members /\ Cardinality(members) = 2
                     /\ \E p \in pairs \cup duplicates : {p.left, p.right} = members
  OBVIOUS
<1>1. IsFiniteSet(members) /\ m.member_count = Cardinality(members)
  BY FindingsAssumption, FS_Subset DEF MetricsOf
<1>2. tests = Carriers(layout, body, members, "test")
  <2>1. \A R : InFamily(R, "test") <=> "test_code" \in R
    BY DEF InFamily, FamilyRoles
  <2>. QED BY <2>1, RolesSeen DEF TestFunctions, Carriers
<1>3. test.members = Cardinality(tests)
  BY <1>2, FamilyCounts
<1>4. tests \subseteq members /\ IsFiniteSet(tests)
  BY <1>1, FS_Subset DEF TestFunctions
<1>. HIDE DEF tests
<1>5. test.members > 0
  BY <1>3, <1>4, FS_EmptySet, FS_CardinalityType
<1>6. CleanTestHelper(m)
  BY <1>5, RulesOf DEF InTests
<1>7. Cardinality(members) = 2 /\ Cardinality(tests) = 2
  BY <1>1, <1>3, <1>6 DEF CleanTestHelper
<1>8. tests = members
  BY <1>1, <1>4, <1>7, FS_Subset
<1>9. \E p \in pairs \cup duplicates : {p.left, p.right} = members
  <2>1. PICK D \in SUBSET duplicates, R \in SUBSET pairs :
          test.duplicate_pairs = Cardinality(D) /\ test.relation_pairs = Cardinality(R)
    BY PairCounts
  <2>2. test.relation_pairs = 1 \/ test.duplicate_pairs = 1
    BY <1>6 DEF CleanTestHelper
  <2>3. D # {} \/ R # {}
    <3>. SUFFICES ASSUME D = {}, R = {} PROVE FALSE
      OBVIOUS
    <3>. HIDE DEF test
    <3>1. Cardinality(D) = 0 /\ Cardinality(R) = 0
      BY FS_EmptySet
    <3>. QED BY <2>1, <2>2, <3>1
  <2>4. PICK p \in pairs \cup duplicates : TRUE
    BY <2>3
  <2>. DEFINE x == p.left  y == p.right
  <2>5. x \in members /\ y \in members /\ x # y
    BY DEF Joins
  <2>. HIDE DEF x, y
  <2>6. Cardinality({x, y}) = 2
    <3>1. IsFiniteSet({x}) /\ Cardinality({x}) = 1
      BY FS_Singleton
    <3>2. y \notin {x}
      BY <2>5
    <3>. DEFINE s == {x}
    <3>. HIDE DEF s
    <3>4. IsFiniteSet(s) /\ Cardinality(s) = 1 /\ y \notin s
      BY <3>1, <3>2 DEF s
    <3>5. Cardinality(s \cup {y}) = IF y \in s THEN Cardinality(s) ELSE Cardinality(s) + 1
      BY <3>4, FS_AddElement, Zenon
    <3>6. Cardinality(s \cup {y}) = 2
      BY <3>4, <3>5
    <3>3. {x} \cup {y} = {x, y}
      OBVIOUS
    <3>. QED BY <3>3, <3>6 DEF s
  <2>7. {x, y} = members
    BY <1>1, <1>7, <2>5, <2>6, FS_Subset
  <2>. QED BY <2>7 DEF x, y
<1>. QED BY <1>7, <1>8, <1>9

LEMMA SurfaceSpared ==
  ASSUME Formed(layout, body), NEW members \in SUBSET Member,
         NEW pairs, NEW duplicates, Joins(pairs \cup duplicates, members), NEW mirrored, NEW m,
         MetricsOf(layout, body, m, members, pairs, duplicates, mirrored),
         \A k \in 1..10 : ~CapRules(m)[k].holds
  PROVE  Spares(members, pairs \cup duplicates)
<1>1. ~CapRules(m)[6].holds
  OBVIOUS
<1>2. \/ TestFunctions(members) = {}
      \/ /\ TestFunctions(members) = members /\ Cardinality(members) = 2
         /\ \E p \in pairs \cup duplicates : {p.left, p.right} = members
  BY <1>1, TestsSpared
<1>. QED BY <1>2, FamiliesSpared DEF Spares

(* A finding over nothing edits nothing.                                     *)
LEMMA NoneSpared == Spares({}, {})
<1>1. TestFunctions({}) = {} /\ ShownFunctions({}) = {}
  BY DEF TestFunctions, ShownFunctions
<1>2. \A some \in SUBSET {} : ~Most({}, some)
  <2>1. Cardinality({}) = 0
    BY FS_EmptySet
  <2>. QED BY <2>1 DEF Most, MostMembers, Mostly
<1>. QED BY <1>1, <1>2 DEF Spares

-----------------------------------------------------------------------------
(* Which functions and pairs the metrics of a draft are of.                  *)

CappedFields == {"member_count", "guardrails", "semantic_role_counts"}

LEMMA PlainFields == CappedFields \subseteq DOMAIN Plain
BY DEF Plain, CappedFields

LEMMA OfClusterFields ==
  ASSUME NEW m, CappedFields \subseteq DOMAIN m, NEW cluster, NEW members
  PROVE  /\ CappedFields \subseteq DOMAIN OfCluster(m, cluster, members)
         /\ OfCluster(m, cluster, members).member_count = Cardinality(members)
BY DEF OfCluster, CappedFields

LEMMA WithPairsFields ==
  ASSUME NEW m, CappedFields \subseteq DOMAIN m, NEW pairs, NEW duplicates
  PROVE  /\ CappedFields \subseteq DOMAIN WithPairs(m, pairs, duplicates)
         /\ WithPairs(m, pairs, duplicates).member_count = m.member_count
BY DEF WithPairs, CappedFields, CountIn, Tally

LEMMA WithRolesFields ==
  ASSUME NEW m, CappedFields \subseteq DOMAIN m, NEW l, NEW code, NEW members, NEW pairs,
         NEW duplicates, NEW mirrored, m.member_count = Cardinality(members)
  PROVE  LET r == WithRoles(m, l, code, members, pairs, duplicates, mirrored)
         IN  /\ CappedFields \subseteq DOMAIN r
             /\ MetricsOf(l, code, r, members, pairs, duplicates, mirrored)
BY DEF WithRoles, MetricsOf, CappedFields

LEMMA WithSemanticsFields ==
  ASSUME NEW m, CappedFields \subseteq DOMAIN m, NEW given, NEW members, NEW pairs
  PROVE  LET r == WithSemantics(m, given, members, pairs)
         IN  /\ CappedFields \subseteq DOMAIN r
             /\ r.member_count = m.member_count /\ r.guardrails = m.guardrails
             /\ r.semantic_role_counts = m.semantic_role_counts
BY DEF WithSemantics, CappedFields, CountIn

LEMMA BlockMetricsFields ==
  ASSUME NEW l, NEW code, NEW members, NEW lines, NEW total, NEW statements, NEW scores
  PROVE  MetricsOf(l, code, BlockMetrics(l, code, members, lines, total, statements, scores),
                   members, {}, {}, FALSE)
<1>. DEFINE r == WithRoles(Plain, l, code, members, {}, {}, FALSE)
<1>1. /\ CappedFields \subseteq DOMAIN r
      /\ r.guardrails = Guardrails(l, code, members, {}, {}, FALSE)
      /\ r.semantic_role_counts = RoleCounts(l, code, members, FALSE)
  <2>. DEFINE p == Plain
  <2>1. CappedFields \subseteq DOMAIN p
    BY PlainFields
  <2>. HIDE DEF p
  <2>2. r = WithRoles(p, l, code, members, {}, {}, FALSE)
    BY DEF p
  <2>. QED BY <2>1, <2>2 DEF WithRoles, CappedFields
<1>. HIDE DEF r
<1>. QED BY <1>1 DEF BlockMetrics, MetricsOf, CappedFields, r

(* A draft over functions says of them, and of pairs of them that the        *)
(* analysis related, what the caps read.                                     *)
Surveyed(l, code, d) ==
  \E members \in SUBSET Member, pairs \in SUBSET RelationsOf(l, code),
     duplicates \in SUBSET RelationsOf(l, code), mirrored \in BOOLEAN :
        /\ Joins(pairs \cup duplicates, members)
        /\ MetricsOf(l, code, d.metrics, members, pairs, duplicates, mirrored)
        /\ {loc[1] : loc \in d.locations} \in {members, {}}

LEMMA WholeFunctions ==
  ASSUME NEW members
  PROVE  {loc[1] : loc \in Whole(members)} = members
<1>1. \A m \in members : <<m, "whole">> \in Whole(members) /\ <<m, "whole">>[1] = m
  BY DEF Whole
<1>2. \A loc \in Whole(members) : loc[1] \in members
  BY DEF Whole
<1>. QED BY <1>1, <1>2

LEMMA PartFunctions ==
  ASSUME NEW members, NEW parts
  PROVE  {loc[1] : loc \in members \X parts} \in {members, {}}
<1>1. CASE parts = {}
  BY <1>1
<1>2. CASE parts # {}
  <2>1. PICK part \in parts : TRUE
    BY <1>2
  <2>2. \A m \in members : <<m, part>> \in members \X parts /\ <<m, part>>[1] = m
    OBVIOUS
  <2>. QED BY <2>2
<1>. QED BY <1>1, <1>2

LEMMA ClusterRelations ==
  ASSUME NEW l, NEW code, \A m \in Member : code[m] \in DOMAIN Bodies,
         NEW c \in ToSet(Clusters(l, code)), ClusterOver(c)
  PROVE  LET items == RelationPairs(l, code, c.candidates)
         IN  /\ ListIn(items, ToSet(items)) /\ ToSet(items) \subseteq RelationsOf(l, code)
             /\ \A p \in ToSet(items) :
                   /\ p.left \in c.members /\ p.right \in c.members /\ p.left # p.right
                   /\ p.left \in Int /\ p.right \in Int
<1>. DEFINE items == RelationPairs(l, code, c.candidates)
            S == PairsOf(l, code, c)
<1>1. ToSet(items) \subseteq RelationsOf(l, code)
  BY DEF RelationsOf
<1>2. \A p \in S : /\ p.left \in c.members /\ p.right \in c.members /\ p.left # p.right
                   /\ p.left \in Int /\ p.right \in Int
  BY PairsWithin DEF Sortable
<1>3. ListIn(items, S)
  BY RelationPairsIn
<1>. HIDE DEF items, S
<1>4. ListIn(items, ToSet(items))
  BY <1>3 DEF ListIn, ToSet
<1>5. ToSet(items) \subseteq S
  BY <1>3, ListHas
<1>. QED BY <1>1, <1>2, <1>4, <1>5 DEF items

LEMMA ClusterSurveyed ==
  ASSUME NEW l, NEW code, \A m \in Member : code[m] \in DOMAIN Bodies,
         NEW c \in ToSet(Clusters(l, code)), ClusterOver(c), NEW given,
         NEW items, items = RelationPairs(l, code, c.candidates),
         NEW pairs \in SUBSET ToSet(items), NEW components
  PROVE  LET d == ClusterDraft(l, code, given, c, items, pairs, components)
         IN  Surveyed(l, code, d) /\ d.source = "signature"
<1>. DEFINE draft == ClusterDraft(l, code, given, c, items, pairs, components)
            duplicates == ToSet(StructuralDuplicates(l, items))
            promoted == UNION {ToSet(component) : component \in ToSet(components)}
            members == c.members
            mirrored == Mirrors(l, members)
            kinds == c.kinds \cup If(duplicates # {}, "structural_duplicate")
            counted == OfCluster(Plain, c, members)
            measured == WithPairs(counted, pairs, duplicates)
            roled == WithRoles(measured, l, code, members, pairs, duplicates, mirrored)
            meant == WithSemantics(roled, given, members, pairs)
            metrics == [meant EXCEPT
                          !.promoted_pair_count = Cardinality(promoted),
                          !.promoted_member_count = Cardinality(PairMembers(promoted)),
                          !.pair_member_count = Cardinality(PairMembers(pairs))]
            locations == Whole(members)
            lines == LineSpan(code, members)
            title == ClusterTitle(c)
            actions == ActionCandidates(items, members)
            risks == c.risks \cup If(kinds = {"signature_shape_cluster"}, "small_commonality")
            basis == UNION {p.is.basis : p \in pairs}
            overlap == OfSignatures(kinds)
<1>1. draft = [Draft(l, metrics, locations, lines, "signature", "signature_shape", title, kinds,
                     actions)
               EXCEPT !.basis = basis, !.has_signature_overlap = overlap,
                      !.abstraction_risks = risks]
  BY DEF ClusterDraft
<1>2. MetricsOf(l, code, metrics, members, pairs, duplicates, mirrored)
  <2>1. CappedFields \subseteq DOMAIN counted /\ counted.member_count = Cardinality(members)
    <3>. DEFINE plain == Plain
    <3>1. CappedFields \subseteq DOMAIN plain
      BY PlainFields
    <3>. HIDE DEF plain
    <3>2. /\ CappedFields \subseteq DOMAIN OfCluster(plain, c, members)
          /\ OfCluster(plain, c, members).member_count = Cardinality(members)
      BY <3>1, OfClusterFields
    <3>. QED BY <3>2 DEF plain
  <2>. HIDE DEF counted, members, duplicates
  <2>2. CappedFields \subseteq DOMAIN measured /\ measured.member_count = Cardinality(members)
    BY <2>1, WithPairsFields
  <2>. HIDE DEF measured, mirrored
  <2>3. /\ CappedFields \subseteq DOMAIN roled
        /\ MetricsOf(l, code, roled, members, pairs, duplicates, mirrored)
    BY <2>2, WithRolesFields
  <2>. HIDE DEF roled
  <2>4. /\ CappedFields \subseteq DOMAIN meant
        /\ meant.member_count = roled.member_count /\ meant.guardrails = roled.guardrails
        /\ meant.semantic_role_counts = roled.semantic_role_counts
    BY <2>3, WithSemanticsFields
  <2>. HIDE DEF meant, promoted
  <2>5. /\ metrics.member_count = meant.member_count
        /\ metrics.guardrails = meant.guardrails
        /\ metrics.semantic_role_counts = meant.semantic_role_counts
    BY <2>4 DEF CappedFields
  <2>. QED BY <2>3, <2>4, <2>5 DEF MetricsOf
<1>3. draft.metrics = metrics /\ draft.locations = locations /\ draft.source = "signature"
  <2>. HIDE DEF metrics, locations, lines, title, kinds, actions, risks, basis, overlap, draft
  <2>. QED BY <1>1 DEF Draft
<1>4. /\ ToSet(items) \subseteq RelationsOf(l, code) /\ ListIn(items, ToSet(items))
      /\ \A p \in ToSet(items) : p.left \in members /\ p.right \in members /\ p.left # p.right
  BY ClusterRelations
<1>5. duplicates \subseteq ToSet(items)
  BY <1>4, DuplicatesIn
<1>6. members \in SUBSET Member /\ mirrored \in BOOLEAN
  BY DEF ClusterOver, Mirrors
<1>7. {loc[1] : loc \in draft.locations} = members
  BY <1>3, WholeFunctions
<1>. HIDE DEF duplicates, members, mirrored, metrics, draft
<1>8. Joins(pairs \cup duplicates, members)
  BY <1>4, <1>5 DEF Joins
<1>9. MetricsOf(l, code, draft.metrics, members, pairs, duplicates, mirrored)
  BY <1>2, <1>3
<1>10. pairs \in SUBSET RelationsOf(l, code) /\ duplicates \in SUBSET RelationsOf(l, code)
  BY <1>4, <1>5
<1>11. Surveyed(l, code, draft)
  BY <1>6, <1>7, <1>8, <1>9, <1>10 DEF Surveyed
<1>. QED BY <1>3, <1>11 DEF draft

LEMMA ComponentSurveyed ==
  ASSUME NEW l, NEW code, \A m \in Member : code[m] \in DOMAIN Bodies,
         NEW c \in ToSet(Clusters(l, code)), ClusterOver(c), NEW given,
         NEW items, items = RelationPairs(l, code, c.candidates),
         NEW component, ToSet(component) \subseteq ToSet(items)
  PROVE  LET d == ComponentDraft(l, code, given, c, component)
         IN  Surveyed(l, code, d) /\ d.source = "structural_pair"
<1>. DEFINE draft == ComponentDraft(l, code, given, c, component)
            pairs == ToSet(component)
            members == PairMembers(pairs)
            exact == {p \in pairs : p.is.hash}
            mirrored == Cardinality(members) = 2 /\ Mirrors(l, members)
            counted == OfCluster(Plain, c, members)
            measured == WithPairs(counted, pairs, exact)
            roled == WithRoles(measured, l, code, members, pairs, exact, mirrored)
            metrics == WithSemantics(roled, given, members, pairs)
            oneName == Cardinality({l.at[m].name : m \in members}) = 1
            locations == Whole(members)
            lines == LineSpan(code, members)
            title == IF Cardinality(pairs) = 1 \/ oneName THEN "Duplicate helper"
                     ELSE "Duplicate helpers"
            kinds == {"signature_shape_cluster"} \cup If(exact # {}, "structural_duplicate")
            actions == IF Cardinality(pairs) = 1 THEN component[1].actions
                       ELSE ActionCandidates(component, members)
            basis == UNION {p.is.basis : p \in pairs}
<1>1. draft = [Draft(l, metrics, locations, lines, "structural_pair", "structural_duplicate",
                     title, kinds, actions)
               EXCEPT !.basis = basis, !.has_signature_overlap = TRUE]
  BY DEF ComponentDraft
<1>2. MetricsOf(l, code, metrics, members, pairs, exact, mirrored)
  <2>1. CappedFields \subseteq DOMAIN counted /\ counted.member_count = Cardinality(members)
    <3>. DEFINE plain == Plain
    <3>1. CappedFields \subseteq DOMAIN plain
      BY PlainFields
    <3>. HIDE DEF plain
    <3>2. /\ CappedFields \subseteq DOMAIN OfCluster(plain, c, members)
          /\ OfCluster(plain, c, members).member_count = Cardinality(members)
      BY <3>1, OfClusterFields
    <3>. QED BY <3>2 DEF plain
  <2>. HIDE DEF counted, members, exact, pairs
  <2>2. CappedFields \subseteq DOMAIN measured /\ measured.member_count = Cardinality(members)
    BY <2>1, WithPairsFields
  <2>. HIDE DEF measured, mirrored
  <2>3. /\ CappedFields \subseteq DOMAIN roled
        /\ MetricsOf(l, code, roled, members, pairs, exact, mirrored)
    BY <2>2, WithRolesFields
  <2>. HIDE DEF roled
  <2>4. /\ CappedFields \subseteq DOMAIN metrics
        /\ metrics.member_count = roled.member_count /\ metrics.guardrails = roled.guardrails
        /\ metrics.semantic_role_counts = roled.semantic_role_counts
    BY <2>3, WithSemanticsFields
  <2>. HIDE DEF metrics
  <2>. QED BY <2>3, <2>4 DEF MetricsOf
<1>3. draft.metrics = metrics /\ draft.locations = locations /\ draft.source = "structural_pair"
  <2>. HIDE DEF metrics, locations, lines, title, kinds, actions, basis, draft
  <2>. QED BY <1>1 DEF Draft
<1>4. /\ pairs \subseteq ToSet(items) /\ ToSet(items) \subseteq RelationsOf(l, code)
      /\ \A p \in ToSet(items) : p.left \in c.members /\ p.right \in c.members /\ p.left # p.right
  BY ClusterRelations
<1>5. exact \subseteq pairs /\ mirrored \in BOOLEAN
  OBVIOUS
<1>6. {loc[1] : loc \in draft.locations} = members
  BY <1>3, WholeFunctions
<1>. HIDE DEF exact, mirrored, metrics, draft, pairs
<1>7. members \in SUBSET Member
  BY <1>4 DEF ClusterOver, PairMembers
<1>8. Joins(pairs \cup exact, members)
  BY <1>4, <1>5 DEF Joins, PairMembers
<1>. HIDE DEF members
<1>9. MetricsOf(l, code, draft.metrics, members, pairs, exact, mirrored)
  BY <1>2, <1>3
<1>10. pairs \in SUBSET RelationsOf(l, code) /\ exact \in SUBSET RelationsOf(l, code)
  BY <1>4, <1>5
<1>11. Surveyed(l, code, draft)
  BY <1>5, <1>6, <1>7, <1>8, <1>9, <1>10 DEF Surveyed
<1>. QED BY <1>3, <1>11 DEF draft

(* A block has no pairs.                                                     *)
LEMMA BlockSurveyed ==
  ASSUME NEW l, NEW code, NEW members \in SUBSET Member, NEW d,
         MetricsOf(l, code, d.metrics, members, {}, {}, FALSE),
         NEW parts, d.locations = members \X parts
  PROVE  Surveyed(l, code, d)
<1>1. {loc[1] : loc \in d.locations} \in {members, {}}
  BY PartFunctions
<1>2. Joins({} \cup {}, members)
  BY DEF Joins
<1>3. {} \in SUBSET RelationsOf(l, code)
  OBVIOUS
<1>. QED BY <1>1, <1>2, <1>3 DEF Surveyed

LEMMA LocalBlockSurveyed ==
  ASSUME NEW l, NEW code, NEW m \in Member, NEW block
  PROVE  LET d == LocalBlockDraft(l, code, m, block)
         IN  Surveyed(l, code, d) /\ d.source = "intra_function_duplicate"
<1>. DEFINE draft == LocalBlockDraft(l, code, m, block)
            lines == {block.lines}
            total == block.lines * Cardinality(block.parts)
            statements == {block.statements}
            scores == [confidence |-> 9000, refactorability |-> 8500, risk |-> 400]
            metrics == BlockMetrics(l, code, {m}, lines, total, statements, scores)
            locations == {m} \X block.parts
            kind == block.kind
            actions == <<Propose("extract_small_helper", {"intra_function_duplicate_block"},
                                 {"INTRA_FUNCTION_DUPLICATE_BLOCK"})>>
<1>1. draft = Draft(l, metrics, locations, total, "intra_function_duplicate", kind,
                    "Repeated local block", {"intra_function_duplicate"}, actions)
  BY DEF LocalBlockDraft
<1>2. MetricsOf(l, code, metrics, {m}, {}, {}, FALSE)
  <2>. HIDE DEF lines, total, statements, scores
  <2>. QED BY BlockMetricsFields
<1>3. /\ draft.metrics = metrics /\ draft.locations = locations
      /\ draft.source = "intra_function_duplicate"
  <2>. HIDE DEF metrics, locations, total, kind, actions, draft
  <2>. QED BY <1>1 DEF Draft
<1>. HIDE DEF metrics, draft
<1>4. MetricsOf(l, code, draft.metrics, {m}, {}, {}, FALSE)
  BY <1>2, <1>3
<1>5. draft.locations = {m} \X block.parts /\ {m} \in SUBSET Member
  BY <1>3
<1>6. Surveyed(l, code, draft)
  BY <1>4, <1>5, BlockSurveyed
<1>. QED BY <1>3, <1>6 DEF draft

LEMMA SharedBlockSurveyed ==
  ASSUME NEW l, NEW code, NEW block \in SharedBlocks(l, code)
  PROVE  LET d == SharedBlockDraft(l, code, block)
         IN  Surveyed(l, code, d) /\ d.source = "shared_block"
<1>. DEFINE draft == SharedBlockDraft(l, code, block)
            statements == {Runs[r].statements : r \in block.runs}
            lines == {Runs[r].lines : r \in block.runs}
            total == MapThenSumSet(LAMBDA r : Runs[r].lines, block.runs)
                       * Cardinality(block.members)
            scores == [confidence |-> 8500, refactorability |-> 8000, risk |-> 1000]
            metrics == BlockMetrics(l, code, block.members, lines, total, statements, scores)
            locations == block.members \X block.runs
            actions == <<Propose("extract_small_helper", {"shared_block"}, {"SHARED_BLOCK"})>>
<1>1. draft = Draft(l, metrics, locations, total, "shared_block", "duplicate_block",
                    "Shared block", {"shared_block"}, actions)
  BY DEF SharedBlockDraft
<1>2. MetricsOf(l, code, metrics, block.members, {}, {}, FALSE)
  <2>. HIDE DEF lines, total, statements, scores
  <2>. QED BY BlockMetricsFields
<1>3. /\ draft.metrics = metrics /\ draft.locations = locations
      /\ draft.source = "shared_block"
  <2>. HIDE DEF metrics, locations, total, actions, draft
  <2>. QED BY <1>1 DEF Draft
<1>. HIDE DEF metrics, draft
<1>4. MetricsOf(l, code, draft.metrics, block.members, {}, {}, FALSE)
  BY <1>2, <1>3
<1>5. draft.locations = block.members \X block.runs /\ block.members \in SUBSET Member
  BY <1>3, SharedBlockOver
<1>6. Surveyed(l, code, draft)
  BY <1>4, <1>5, BlockSurveyed
<1>. QED BY <1>3, <1>6 DEF draft

-----------------------------------------------------------------------------
(* Lists of drafts.                                                          *)

(* The groups of constants in the findings, as far as they matter here: what *)
(* counts as identical is a group of equal constants.                        *)
ConstantGroup(defined, group) ==
  /\ group.match \in {"identical", "drifted", "scattered"}
  /\ group.members \subseteq ConstantsOf(defined)
  /\ group.match = "identical" => group.members \in IdenticalGroups(defined)

(* A list of drafts, each under one of the titles and either of one of the   *)
(* groups of constants or of functions and pairs that the analysis related.  *)
Proper(l, defined, code, d) ==
  /\ d.title \in ToSet(Titles)
  /\ d.source = "policy_literal" =>
       \E group : ConstantGroup(defined, group) /\ d = ConstantDraft(l, defined, group)
  /\ d.source # "policy_literal" => Surveyed(l, code, d)
ProperList(l, defined, code, s) == \E S : s \in Seq(S) /\ \A d \in S : Proper(l, defined, code, d)

LEMMA ProperListMade ==
  ASSUME NEW l, NEW defined, NEW code, NEW n \in Nat, NEW s, s = [i \in 1..n |-> s[i]],
         \A i \in 1..n : Proper(l, defined, code, s[i])
  PROVE  ProperList(l, defined, code, s)
<1>. DEFINE S == {s[i] : i \in 1..n}
<1>1. s \in Seq(S)
  OBVIOUS
<1>2. \A d \in S : Proper(l, defined, code, d)
  OBVIOUS
<1>. HIDE DEF S
<1>. QED BY <1>1, <1>2 DEF ProperList

LEMMA ProperListHas ==
  ASSUME NEW l, NEW defined, NEW code, NEW s, ProperList(l, defined, code, s)
  PROVE  /\ Len(s) \in Nat
         /\ DOMAIN s = 1..Len(s)
         /\ \A i \in 1..Len(s) : Proper(l, defined, code, s[i])
<1>1. PICK S : s \in Seq(S) /\ \A d \in S : Proper(l, defined, code, d)
  BY DEF ProperList
<1>2. Len(s) \in Nat /\ DOMAIN s = 1..Len(s) /\ \A i \in 1..Len(s) : s[i] \in S
  BY <1>1
<1>. QED BY <1>1, <1>2

LEMMA ProperConcat ==
  ASSUME NEW l, NEW defined, NEW code, NEW s, ProperList(l, defined, code, s),
         NEW t, ProperList(l, defined, code, t)
  PROVE  ProperList(l, defined, code, s \o t)
<1>1. PICK S : s \in Seq(S) /\ \A d \in S : Proper(l, defined, code, d)
  BY DEF ProperList
<1>2. PICK T : t \in Seq(T) /\ \A d \in T : Proper(l, defined, code, d)
  BY DEF ProperList
<1>3. s \in Seq(S \cup T) /\ t \in Seq(S \cup T)
  BY <1>1, <1>2
<1>4. s \o t \in Seq(S \cup T)
  BY <1>3
<1>5. \A d \in S \cup T : Proper(l, defined, code, d)
  BY <1>1, <1>2
<1>. QED BY <1>4, <1>5 DEF ProperList

(* What holds of 1 and of each number after one it holds of.                 *)
LEMMA CountUp ==
  ASSUME NEW n \in Nat, NEW Good, 1 \in Good, \A m \in 2..n : m - 1 \in Good => m \in Good
  PROVE  1..n \subseteq Good
<1>. SUFFICES ASSUME NEW b \in 1..n, b \notin Good PROVE FALSE
  OBVIOUS
<1>. DEFINE bad == {m \in 1..n : m \notin Good}
<1>1. b \in bad /\ bad \in SUBSET (1..n) /\ bad \in SUBSET Nat
  OBVIOUS
<1>2. IsFiniteSet(bad)
  <2>1. 1 \in Int /\ n \in Int
    OBVIOUS
  <2>2. IsFiniteSet(1..n)
    BY <2>1, FS_Interval
  <2>. HIDE DEF bad
  <2>. QED BY <1>1, <2>2, FS_Subset
<1>3. PICK m \in bad : \A k \in bad : m <= k
  <2>. HIDE DEF bad
  <2>. QED BY <1>1, <1>2, LeastNumber
<1>4. m \in 2..n
  OBVIOUS
<1>5. m - 1 \in 1..n /\ m - 1 \notin bad
  BY <1>3, <1>4
<1>. QED BY <1>4, <1>5

LEMMA ConcatHas ==
  ASSUME NEW S, NEW s \in Seq(S), NEW t \in Seq(S)
  PROVE  s \o t \in Seq(S) /\ ToSet(s \o t) = ToSet(s) \cup ToSet(t)
<1>1. /\ Len(s) \in Nat /\ DOMAIN s = 1..Len(s) /\ Len(t) \in Nat /\ DOMAIN t = 1..Len(t)
      /\ DOMAIN (s \o t) = 1..(Len(s) + Len(t))
      /\ \A i \in 1..Len(s) : (s \o t)[i] = s[i]
      /\ \A i \in 1..Len(t) : (s \o t)[Len(s) + i] = t[i]
  OBVIOUS
<1>2. ToSet(s \o t) \subseteq ToSet(s) \cup ToSet(t)
  <2>. SUFFICES ASSUME NEW i \in 1..(Len(s) + Len(t))
                PROVE  (s \o t)[i] \in ToSet(s) \cup ToSet(t)
    BY <1>1 DEF ToSet
  <2>1. CASE i <= Len(s)
    BY <1>1, <2>1 DEF ToSet
  <2>2. CASE i > Len(s)
    <3>1. i - Len(s) \in 1..Len(t) /\ i = Len(s) + (i - Len(s))
      BY <1>1, <2>2
    <3>2. (s \o t)[i] = t[i - Len(s)]
      BY <1>1, <3>1
    <3>. QED BY <1>1, <3>1, <3>2 DEF ToSet
  <2>. QED BY <1>1, <2>1, <2>2
<1>3. ToSet(s) \subseteq ToSet(s \o t)
  <2>1. \A i \in 1..Len(s) : i \in 1..(Len(s) + Len(t))
    BY <1>1
  <2>. QED BY <1>1, <2>1 DEF ToSet
<1>4. ToSet(t) \subseteq ToSet(s \o t)
  <2>1. \A i \in 1..Len(t) : Len(s) + i \in 1..(Len(s) + Len(t))
    BY <1>1
  <2>. QED BY <1>1, <2>1 DEF ToSet
<1>. QED BY <1>2, <1>3, <1>4

(* The lists of a list, one after the other.                                 *)
LEMMA FlattenHas ==
  ASSUME NEW S, NEW n \in Nat, NEW seqs, seqs = [i \in 1..n |-> seqs[i]],
         \A i \in 1..n : seqs[i] \in Seq(S)
  PROVE  /\ FlattenSeq(seqs) \in Seq(S)
         /\ ToSet(FlattenSeq(seqs)) = UNION {ToSet(seqs[i]) : i \in 1..n}
<1>. DEFINE Body(f, i) == IF i = 1 THEN seqs[i] ELSE f[i-1] \o seqs[i]
            IsFlat(f, m) == f = [i \in 1..m |-> Body(f, i)]
            flat == CHOOSE f : IsFlat(f, n)
<1>1. Len(seqs) = n
  <2>. DEFINE T == {seqs[i] : i \in 1..n}
  <2>1. seqs \in Seq(T)
    OBVIOUS
  <2>. QED BY <2>1
<1>2. CASE n = 0
  <2>1. FlattenSeq(seqs) = seqs
    BY <1>1, <1>2 DEF FlattenSeq
  <2>2. seqs = <<>> /\ 1..n = {}
    BY <1>2
  <2>3. <<>> \in Seq(S) /\ ToSet(<<>>) = {} /\ UNION {ToSet(seqs[i]) : i \in {}} = {}
    BY DEF ToSet
  <2>. QED BY <2>1, <2>2, <2>3
<1>3. CASE n # 0
  <2>1. FlattenSeq(seqs) = flat[n]
    <3>1. FlattenSeq(seqs) = (CHOOSE f : f = [i \in 1..Len(seqs) |->
                                IF i = 1 THEN seqs[i] ELSE f[i-1] \o seqs[i]])[Len(seqs)]
      BY <1>1, <1>3 DEF FlattenSeq
    <3>. QED BY <3>1, <1>1
  <2>2. \A m \in 1..n : \E f : IsFlat(f, m)
    <3>. DEFINE Good == {m \in 1..n : \E f : IsFlat(f, m)}
    <3>1. \E f : IsFlat(f, 1)
      <4>. DEFINE f == [i \in 1..1 |-> seqs[1]]
      <4>1. f = [i \in 1..1 |-> Body(f, i)]
        OBVIOUS
      <4>. QED BY <4>1
    <3>2. ASSUME NEW m \in 2..n, \E f : IsFlat(f, m - 1) PROVE \E f : IsFlat(f, m)
      <4>1. PICK g : IsFlat(g, m - 1)
        BY <3>2
      <4>. DEFINE f == [i \in 1..m |-> IF i < m THEN g[i] ELSE g[m-1] \o seqs[m]]
      <4>2. \A i \in 1..m-1 : g[i] = Body(g, i)
        BY <4>1
      <4>3. \A i \in 1..m : f[i] = IF i < m THEN g[i] ELSE g[m-1] \o seqs[m]
        OBVIOUS
      <4>. HIDE DEF f
      <4>4. \A i \in 1..m : f[i] = Body(f, i)
        <5>. SUFFICES ASSUME NEW i \in 1..m PROVE f[i] = Body(f, i)
          OBVIOUS
        <5>1. CASE i = m
          <6>1. m - 1 \in 1..m /\ m \in 1..m /\ m - 1 < m /\ ~(m < m) /\ m # 1
            OBVIOUS
          <6>2. f[m-1] = g[m-1] /\ f[m] = g[m-1] \o seqs[m]
            BY <4>3, <6>1
          <6>. QED BY <6>1, <6>2, <5>1
        <5>2. CASE i < m /\ i # 1
          <6>1. i \in 1..m-1 /\ i - 1 \in 1..m /\ i - 1 < m
            BY <5>2
          <6>2. f[i] = g[i] /\ f[i-1] = g[i-1]
            BY <4>3, <6>1, <5>2
          <6>3. g[i] = g[i-1] \o seqs[i]
            BY <4>2, <6>1, <5>2
          <6>. QED BY <6>2, <6>3, <5>2
        <5>3. CASE i < m /\ i = 1
          <6>1. i \in 1..m-1
            BY <5>3
          <6>2. f[i] = g[i] /\ g[i] = seqs[i]
            BY <4>2, <4>3, <6>1, <5>3
          <6>. QED BY <6>2, <5>3
        <5>. QED BY <5>1, <5>2, <5>3
      <4>5. f = [i \in 1..m |-> f[i]]
        BY DEF f
      <4>6. IsFlat(f, m)
        <5>. HIDE DEF Body
        <5>. QED BY <4>4, <4>5
      <4>. QED BY <4>6
    <3>. HIDE DEF IsFlat
    <3>3. 1 \in Good
      BY <1>3, <3>1
    <3>4. \A m \in 2..n : m - 1 \in Good => m \in Good
      BY <3>2
    <3>. HIDE DEF Good
    <3>5. 1..n \subseteq Good
      BY <3>3, <3>4, CountUp
    <3>. QED BY <3>5 DEF Good
  <2>3. IsFlat(flat, n)
    <3>1. n \in 1..n
      BY <1>3
    <3>2. \E f : IsFlat(f, n)
      BY <2>2, <3>1
    <3>. HIDE DEF IsFlat
    <3>. QED BY <3>2
  <2>. HIDE DEF flat
  <2>4. \A i \in 1..n : flat[i] = Body(flat, i)
    BY <2>3
  <2>. HIDE DEF IsFlat
  <2>. DEFINE Part(m) == UNION {ToSet(seqs[i]) : i \in 1..m}
              Good == {m \in 1..n : flat[m] \in Seq(S) /\ ToSet(flat[m]) = Part(m)}
  <2>5. 1 \in Good
    <3>1. 1..1 = {1} /\ 1 \in 1..n
      BY <1>3
    <3>2. Part(1) = ToSet(seqs[1])
      BY <3>1
    <3>. QED BY <2>4, <3>1, <3>2
  <2>6. ASSUME NEW m \in 2..n, m - 1 \in Good PROVE m \in Good
    <3>1. m \in 1..n /\ m # 1 /\ 1..m = (1..m-1) \cup {m}
      OBVIOUS
    <3>2. flat[m] = flat[m-1] \o seqs[m]
      BY <2>4, <3>1
    <3>3. seqs[m] \in Seq(S) /\ flat[m-1] \in Seq(S) /\ ToSet(flat[m-1]) = Part(m-1)
      BY <2>6, <3>1
    <3>4. Part(m) = Part(m-1) \cup ToSet(seqs[m])
      BY <3>1
    <3>. HIDE DEF Part
    <3>. DEFINE s == flat[m-1]
                t == seqs[m]
    <3>5. s \in Seq(S) /\ t \in Seq(S) /\ ToSet(s) = Part(m-1) /\ flat[m] = s \o t
      BY <3>2, <3>3
    <3>. HIDE DEF s
    <3>6. s \o t \in Seq(S) /\ ToSet(s \o t) = ToSet(s) \cup ToSet(t)
      BY <3>5, ConcatHas
    <3>. QED BY <3>1, <3>4, <3>5, <3>6
  <2>. HIDE DEF Good
  <2>7. 1..n \subseteq Good
    BY <2>5, <2>6, CountUp
  <2>8. n \in 1..n
    BY <1>3
  <2>. QED BY <2>1, <2>7, <2>8 DEF Good
<1>. QED BY <1>2, <1>3


LEMMA ProperFlatten ==
  ASSUME NEW l, NEW defined, NEW code, NEW n \in Nat, NEW seqs,
         seqs = [i \in 1..n |-> seqs[i]],
         \A i \in 1..n : ProperList(l, defined, code, seqs[i])
  PROVE  ProperList(l, defined, code, FlattenSeq(seqs))
<1>. DEFINE T == UNION {ToSet(seqs[i]) : i \in 1..n}
<1>1. \A i \in 1..n : /\ seqs[i] \in Seq(ToSet(seqs[i]))
                      /\ \A d \in ToSet(seqs[i]) : Proper(l, defined, code, d)
  <2>. SUFFICES ASSUME NEW s, ProperList(l, defined, code, s)
                PROVE  s \in Seq(ToSet(s)) /\ \A d \in ToSet(s) : Proper(l, defined, code, d)
    OBVIOUS
  <2>1. PICK S : s \in Seq(S) /\ \A d \in S : Proper(l, defined, code, d)
    BY DEF ProperList
  <2>2. Len(s) \in Nat /\ s = [i \in 1..Len(s) |-> s[i]]
    BY <2>1
  <2>. DEFINE k == Len(s)
  <2>. HIDE DEF k
  <2>3. k \in Nat /\ s = [i \in 1..k |-> s[i]] /\ \A i \in 1..k : s[i] \in ToSet(s)
    BY <2>2 DEF k, ToSet
  <2>4. s \in Seq(ToSet(s))
    BY <2>3
  <2>5. ToSet(s) \subseteq S
    BY <2>1 DEF ToSet
  <2>. QED BY <2>1, <2>4, <2>5
<1>2. \A i \in 1..n : seqs[i] \in Seq(T)
  <2>. SUFFICES ASSUME NEW i \in 1..n PROVE seqs[i] \in Seq(T)
    OBVIOUS
  <2>. DEFINE s == seqs[i]
              S == ToSet(s)
  <2>1. s \in Seq(S) /\ S \subseteq T
    BY <1>1
  <2>. HIDE DEF s, S, T
  <2>2. s \in Seq(T)
    BY <2>1
  <2>. QED BY <2>2 DEF s
<1>3. \A d \in T : Proper(l, defined, code, d)
  BY <1>1
<1>. HIDE DEF T
<1>4. FlattenSeq(seqs) \in Seq(T)
  BY <1>2, FlattenHas
<1>. QED BY <1>3, <1>4 DEF ProperList

-----------------------------------------------------------------------------
(* The drafts of a repository.                                               *)

Analysable(l, defined, code) ==
  /\ IsList(l.clusters) /\ IsFiniteSet(DOMAIN defined)
  /\ DOMAIN defined \subseteq Nat /\ Member \cap DOMAIN defined = {}
  /\ \A m \in Member : code[m] \in DOMAIN Bodies
  /\ \A c \in ToSet(l.clusters) : ClusterOver(c)

LEMMA TitlesListed ==
  /\ {"Argument-normalization wrapper", "Cross-language analogous signature shape",
      "Drifted policy constant", "Duplicate helper", "Duplicate helpers",
      "Duplicated policy constant", "Repeated local block",
      "Same-family analogous signature shape", "Scattered policy literal",
      "Shared block", "Shared signature shape", "Similar implementations"} \subseteq ToSet(Titles)
  /\ \A title \in ToSet(Titles) : TitleRank(title) \in 1..12
<1>1. DOMAIN Titles = 1..12
  BY DEF Titles
<1>2. ASSUME NEW title \in ToSet(Titles) PROVE TitleRank(title) \in 1..12
  <2>1. \E i \in DOMAIN Titles : Titles[i] = title
    BY DEF ToSet
  <2>. QED BY <2>1, <1>1 DEF TitleRank
<1>3. /\ Titles[1] = "Argument-normalization wrapper"
      /\ Titles[2] = "Cross-language analogous signature shape"
      /\ Titles[3] = "Drifted policy constant" /\ Titles[4] = "Duplicate helper"
      /\ Titles[5] = "Duplicate helpers" /\ Titles[6] = "Duplicated policy constant"
      /\ Titles[7] = "Repeated local block"
      /\ Titles[8] = "Same-family analogous signature shape"
      /\ Titles[9] = "Scattered policy literal" /\ Titles[10] = "Shared block"
      /\ Titles[11] = "Shared signature shape" /\ Titles[12] = "Similar implementations"
  BY DEF Titles
<1>4. \A i \in 1..12 : Titles[i] \in ToSet(Titles)
  BY <1>1 DEF ToSet
<1>5. /\ Titles[1] \in ToSet(Titles) /\ Titles[2] \in ToSet(Titles)
      /\ Titles[3] \in ToSet(Titles) /\ Titles[4] \in ToSet(Titles)
      /\ Titles[5] \in ToSet(Titles) /\ Titles[6] \in ToSet(Titles)
      /\ Titles[7] \in ToSet(Titles) /\ Titles[8] \in ToSet(Titles)
      /\ Titles[9] \in ToSet(Titles) /\ Titles[10] \in ToSet(Titles)
      /\ Titles[11] \in ToSet(Titles) /\ Titles[12] \in ToSet(Titles)
  BY <1>4
<1>. QED BY <1>2, <1>3, <1>5

LEMMA DraftTitles ==
  /\ \A l, code, given, cluster, items, pairs, components :
        ClusterDraft(l, code, given, cluster, items, pairs, components).title \in ToSet(Titles)
  /\ \A l, code, given, cluster, component :
        ComponentDraft(l, code, given, cluster, component).title \in ToSet(Titles)
  /\ \A l, code, m, block : LocalBlockDraft(l, code, m, block).title \in ToSet(Titles)
  /\ \A l, code, block : SharedBlockDraft(l, code, block).title \in ToSet(Titles)
<1>1. ASSUME NEW l, NEW code, NEW given, NEW cluster, NEW items, NEW pairs, NEW components
      PROVE  ClusterDraft(l, code, given, cluster, items, pairs, components).title
               \in ToSet(Titles)
  <2>1. ClusterDraft(l, code, given, cluster, items, pairs, components).title
          = ClusterTitle(cluster)
    BY DEF ClusterDraft, Draft
  <2>2. ClusterTitle(cluster) \in ToSet(Titles)
    BY TitlesListed DEF ClusterTitle
  <2>. QED BY <2>1, <2>2
<1>2. ASSUME NEW l, NEW code, NEW given, NEW cluster, NEW component
      PROVE  ComponentDraft(l, code, given, cluster, component).title \in ToSet(Titles)
  <2>1. ComponentDraft(l, code, given, cluster, component).title
          \in {"Duplicate helper", "Duplicate helpers"}
    BY DEF ComponentDraft, Draft
  <2>. QED BY <2>1, TitlesListed
<1>3. ASSUME NEW l, NEW code, NEW m, NEW block
      PROVE  LocalBlockDraft(l, code, m, block).title \in ToSet(Titles)
  <2>1. LocalBlockDraft(l, code, m, block).title = "Repeated local block"
    BY DEF LocalBlockDraft, Draft
  <2>. QED BY <2>1, TitlesListed
<1>4. ASSUME NEW l, NEW code, NEW block
      PROVE  SharedBlockDraft(l, code, block).title \in ToSet(Titles)
  <2>1. SharedBlockDraft(l, code, block).title = "Shared block"
    BY DEF SharedBlockDraft, Draft
  <2>. QED BY <2>1, TitlesListed
<1>. QED BY <1>1, <1>2, <1>3, <1>4

LEMMA ConstantDraftProper ==
  ASSUME NEW l, NEW defined, NEW code, NEW group, ConstantGroup(defined, group)
  PROVE  Proper(l, defined, code, ConstantDraft(l, defined, group))
<1>1. /\ ConstantDraft(l, defined, group).title = ConstantTitle[group.match]
      /\ ConstantDraft(l, defined, group).source = "policy_literal"
  BY DEF ConstantDraft, Draft
<1>2. ConstantTitle[group.match] \in {"Duplicated policy constant", "Drifted policy constant",
                                      "Scattered policy literal"}
  <2>1. /\ ConstantTitle["identical"] = "Duplicated policy constant"
        /\ ConstantTitle["drifted"] = "Drifted policy constant"
        /\ ConstantTitle["scattered"] = "Scattered policy literal"
    BY DEF ConstantTitle
  <2>. QED BY <2>1 DEF ConstantGroup
<1>. QED BY <1>1, <1>2, TitlesListed DEF Proper

(* Disjoint sets of numbers are in the order of their least ones.            *)
LEMMA NthSet ==
  ASSUME NEW sets, IsFiniteSet(sets), NEW i \in 1..Cardinality(sets),
         \A g \in sets : g \in SUBSET Nat /\ IsFiniteSet(g) /\ g # {},
         \A g, h \in sets : g # h => g \cap h = {}
  PROVE  \E g \in sets : Cardinality({h \in sets : Min(h) <= Min(g)}) = i
<1>1. ASSUME NEW g \in sets PROVE Min(g) \in g /\ Min(g) \in Nat
  <2>1. \E x \in g : \A y \in g : x <= y
    BY LeastNumber
  <2>. QED BY <2>1 DEF Min
<1>2. \A g, h \in sets : Min(g) = Min(h) => g = h
  BY <1>1
<1>. DEFINE least == [g \in sets |-> Min(g)]
            Le == {p \in sets \X sets : least[p[1]] <= least[p[2]]}
<1>3. /\ \A g \in sets : least[g] \in Nat
      /\ \A g, h \in sets : least[g] = least[h] => g = h
  BY <1>1, <1>2
<1>4. \A g, h \in sets : <<h, g>> \in Le <=> least[h] <= least[g]
  OBVIOUS
<1>5. \A g \in sets : least[g] = Min(g)
  OBVIOUS
<1>. HIDE DEF least, Le
<1>6. Total(sets, Le)
  BY <1>3, <1>4 DEF Total
<1>7. Numbered(sets, Le)
  BY <1>6, RankNumbers
<1>8. PICK g \in sets : RankIn(sets, Le)[g] = i
  BY <1>7 DEF Numbered
<1>9. UpTo(sets, Le, g) = {h \in sets : Min(h) <= Min(g)}
  BY <1>4, <1>5 DEF UpTo
<1>. QED BY <1>8, <1>9 DEF RankIn

LEMMA GroupsApart ==
  ASSUME NEW C, NEW at,
         NEW groups \in {IdenticalGroups(C), DriftedGroups(C, at), ScatteredGroups(C)}
  PROVE  /\ \A g \in groups : g # {} /\ g \subseteq ConstantsOf(C)
         /\ \A g, h \in groups : g # h => g \cap h = {}
<1>1. CASE groups = IdenticalGroups(C)
  <2>. DEFINE Of(y) == {x \in ConstantsOf(C) : IdenticalKey(C[x]) = IdenticalKey(C[y])}
  <2>1. \A g \in groups : \E y \in ConstantsOf(C) : g = Of(y)
    BY <1>1 DEF IdenticalGroups, GroupsBy
  <2>2. /\ \A y \in ConstantsOf(C) : y \in Of(y) /\ Of(y) \subseteq ConstantsOf(C)
        /\ \A y, z \in ConstantsOf(C) : Of(y) # Of(z) => Of(y) \cap Of(z) = {}
    OBVIOUS
  <2>. HIDE DEF Of
  <2>. QED BY <2>1, <2>2
<1>2. CASE groups = DriftedGroups(C, at)
  <2>. DEFINE Of(y) == {x \in ConstantsOf(C) : DriftKey(C[x]) = DriftKey(C[y])}
  <2>1. \A g \in groups : \E y \in ConstantsOf(C) : g = Of(y)
    BY <1>2 DEF DriftedGroups, GroupsBy
  <2>2. /\ \A y \in ConstantsOf(C) : y \in Of(y) /\ Of(y) \subseteq ConstantsOf(C)
        /\ \A y, z \in ConstantsOf(C) : Of(y) # Of(z) => Of(y) \cap Of(z) = {}
    OBVIOUS
  <2>. HIDE DEF Of
  <2>. QED BY <2>1, <2>2
<1>3. CASE groups = ScatteredGroups(C)
  <2>. DEFINE Of(y) == {x \in ConstantsOf(C) : ScatteredKey(C[x]) = ScatteredKey(C[y])}
  <2>1. \A g \in groups : \E y \in ConstantsOf(C) : g = Of(y)
    BY <1>3 DEF ScatteredGroups, GroupsBy
  <2>2. /\ \A y \in ConstantsOf(C) : y \in Of(y) /\ Of(y) \subseteq ConstantsOf(C)
        /\ \A y, z \in ConstantsOf(C) : Of(y) # Of(z) => Of(y) \cap Of(z) = {}
    OBVIOUS
  <2>. HIDE DEF Of
  <2>. QED BY <2>1, <2>2
<1>. QED BY <1>1, <1>2, <1>3

LEMMA ConstantDraftsProper ==
  ASSUME NEW l, NEW defined, NEW code, Analysable(l, defined, code), NEW clusters,
         clusters = PolicyConstantClusters(defined, l.at)
  PROVE  ProperList(l, defined, code,
                    [i \in DOMAIN clusters |-> ConstantDraft(l, defined, clusters[i])])
<1>. DEFINE C == defined
            IsMatched(group) == ConstantGroup(defined, group)
            Matched(s) == \E S : s \in Seq(S) /\ \A g \in S : IsMatched(g)
            Nth(groups, i) == CHOOSE g \in groups :
                                Cardinality({h \in groups : Min(h) <= Min(g)}) = i
            Each(match, groups) ==
              [i \in 1..Cardinality(groups) |-> [match |-> match, members |-> Nth(groups, i)]]
<1>0. ConstantsOf(C) \in SUBSET Nat /\ IsFiniteSet(ConstantsOf(C))
  BY FS_Subset DEF ConstantsOf, Analysable
<1>1. IsFiniteSet(SUBSET ConstantsOf(C))
  <2>1. ConstantsOf(C) \in SUBSET DOMAIN C /\ IsFiniteSet(DOMAIN C)
    BY DEF ConstantsOf, Analysable
  <2>. QED BY <2>1, FS_Subset, FS_SUBSET
<1>2. /\ IdenticalGroups(C) \in SUBSET SUBSET ConstantsOf(C)
      /\ DriftedGroups(C, l.at) \in SUBSET SUBSET ConstantsOf(C)
      /\ ScatteredGroups(C) \in SUBSET SUBSET ConstantsOf(C)
  BY DEF IdenticalGroups, DriftedGroups, ScatteredGroups, GroupsBy
<1>3. ASSUME NEW groups \in {IdenticalGroups(C), DriftedGroups(C, l.at), ScatteredGroups(C)},
             NEW match, match \in {"identical", "drifted", "scattered"},
             match = "identical" => groups = IdenticalGroups(C)
      PROVE  Matched(Each(match, groups))
  <2>. DEFINE n == Cardinality(groups)
              s == Each(match, groups)
              S == {s[i] : i \in 1..n}
  <2>0. groups \in SUBSET SUBSET ConstantsOf(C) /\ IsFiniteSet(groups)
    BY <1>1, <1>2, FS_Subset
  <2>1. n \in Nat
    BY <2>0, FS_CardinalityType
  <2>2. \A i \in 1..n : s[i].match = match
    OBVIOUS
  <2>3. s = [i \in 1..n |-> s[i]]
    OBVIOUS
  <2>. HIDE DEF s, n
  <2>4. s \in Seq(S)
    BY <2>1, <2>3
  <2>5. ASSUME NEW i \in 1..n PROVE s[i].members \in groups
    <3>. DEFINE Precede(g) == {h \in groups : Min(h) <= Min(g)}
    <3>1. \A g \in groups : g \in SUBSET Nat /\ IsFiniteSet(g) /\ g # {}
      BY <1>0, GroupsApart, FS_Subset
    <3>2. \A g, h \in groups : g # h => g \cap h = {}
      BY GroupsApart
    <3>3. IsFiniteSet(groups)
      BY <2>0
    <3>4. \E g \in groups : Cardinality(Precede(g)) = i
      BY <3>1, <3>2, <3>3, NthSet DEF n
    <3>5. s[i].members = CHOOSE g \in groups : Cardinality(Precede(g)) = i
      BY DEF s, n
    <3>. HIDE DEF Precede
    <3>. QED BY <3>4, <3>5
  <2>6. \A i \in 1..n : IsMatched(s[i])
    <3>1. \A i \in 1..n : s[i].members \subseteq ConstantsOf(C)
      BY <2>0, <2>5
    <3>. QED BY <1>3, <2>2, <2>5, <3>1 DEF ConstantGroup
  <2>7. \A g \in S : IsMatched(g)
    BY <2>6
  <2>. HIDE DEF S, IsMatched
  <2>. QED BY <2>4, <2>7 DEF s
<1>. DEFINE a == Each("identical", IdenticalGroups(C))
            b == Each("drifted", DriftedGroups(C, l.at))
            c == Each("scattered", ScatteredGroups(C))
<1>4. clusters = a \o b \o c
  BY DEF PolicyConstantClusters
<1>. HIDE DEF Each, IsMatched
<1>5. Matched(a) /\ Matched(b) /\ Matched(c)
  <2>. HIDE DEF Matched
  <2>. QED BY <1>2, <1>3
<1>6. PICK S : a \in Seq(S) /\ \A g \in S : IsMatched(g)
  BY <1>5
<1>7. PICK T : b \in Seq(T) /\ \A g \in T : IsMatched(g)
  BY <1>5
<1>8. PICK U : c \in Seq(U) /\ \A g \in U : IsMatched(g)
  BY <1>5
<1>. HIDE DEF a, b, c
<1>. DEFINE V == S \cup T \cup U
<1>9. clusters \in Seq(V)
  BY <1>4, <1>6, <1>7, <1>8
<1>10. \A g \in V : IsMatched(g)
  BY <1>6, <1>7, <1>8
<1>. HIDE DEF V
<1>11. Len(clusters) \in Nat /\ DOMAIN clusters = 1..Len(clusters)
         /\ \A i \in 1..Len(clusters) : clusters[i] \in V
  BY <1>9
<1>. DEFINE n == Len(clusters)
            drafts == [i \in DOMAIN clusters |-> ConstantDraft(l, defined, clusters[i])]
<1>12. drafts = [i \in 1..n |-> drafts[i]]
  BY <1>11
<1>13. \A i \in 1..n : Proper(l, defined, code, drafts[i])
  <2>. SUFFICES ASSUME NEW i \in 1..n PROVE Proper(l, defined, code, drafts[i])
    OBVIOUS
  <2>1. drafts[i] = ConstantDraft(l, defined, clusters[i]) /\ IsMatched(clusters[i])
    BY <1>10, <1>11
  <2>. QED BY <2>1, ConstantDraftProper DEF IsMatched
<1>. HIDE DEF n, drafts
<1>14. ProperList(l, defined, code, drafts)
  BY <1>11, <1>12, <1>13, ProperListMade DEF n
<1>. QED BY <1>14 DEF drafts

LEMMA SignatureDraftsProper ==
  ASSUME NEW l, NEW defined, NEW code, \A m \in Member : code[m] \in DOMAIN Bodies, NEW given,
         NEW cluster \in ToSet(Clusters(l, code)), ClusterOver(cluster)
  PROVE  ProperList(l, defined, code, SignatureDrafts(l, code, given, cluster))
<1>. DEFINE items == RelationPairs(l, code, cluster.candidates)
            places == {i \in DOMAIN items : items[i].kind # "none"}
            kept == Kept(items, places)
            components == Promoted(l, code, cluster, kept)
            pairs == ToSet(kept)
            first == ClusterDraft(l, code, given, cluster, items, pairs, components)
            others == [i \in DOMAIN components |->
                         ComponentDraft(l, code, given, cluster, components[i])]
<1>1. SignatureDrafts(l, code, given, cluster) = <<first>> \o others
  BY DEF SignatureDrafts, Filtered
<1>2. /\ ListIn(items, ToSet(items))
      /\ \A p \in ToSet(items) : p.left \in Int /\ p.right \in Int
  BY ClusterRelations
<1>3. ListIn(kept, ToSet(items))
  <2>. DEFINE T == ToSet(items)
  <2>1. places \in SUBSET DOMAIN items
    OBVIOUS
  <2>. HIDE DEF T, places, items
  <2>. QED BY <1>2, <2>1, KeptIn DEF T
<1>4. pairs \subseteq ToSet(items)
  <2>. HIDE DEF items, places
  <2>. QED BY <1>3, ListHas
<1>5. \E n \in Nat : /\ DOMAIN components = 1..n
                     /\ \A i \in 1..n : ListIn(components[i], pairs)
  <2>. HIDE DEF items, kept
  <2>. QED BY <1>2, <1>3, PromotedIn
<1>6. Proper(l, defined, code, first)
  <2>. DEFINE related == RelationPairs(l, code, cluster.candidates)
  <2>1. related = items
    OBVIOUS
  <2>2. first.title \in ToSet(Titles)
    BY DraftTitles
  <2>3. Surveyed(l, code, first) /\ first.source = "signature"
    <3>1. items = RelationPairs(l, code, cluster.candidates) /\ pairs \in SUBSET ToSet(items)
      BY <1>4
    <3>. HIDE DEF items, pairs, components
    <3>. QED BY <3>1, ClusterSurveyed
  <2>. HIDE DEF first
  <2>. QED BY <2>2, <2>3 DEF Proper
<1>7. ProperList(l, defined, code, <<first>>)
  <2>. HIDE DEF first
  <2>. DEFINE s == <<first>>
  <2>1. 1 \in Nat /\ s = [i \in 1..1 |-> s[i]] /\ \A i \in 1..1 : Proper(l, defined, code, s[i])
    BY <1>6
  <2>. HIDE DEF s
  <2>2. ProperList(l, defined, code, s)
    BY <2>1, ProperListMade
  <2>. QED BY <2>2 DEF s
<1>8. ASSUME NEW component, ToSet(component) \subseteq ToSet(items)
      PROVE  Proper(l, defined, code, ComponentDraft(l, code, given, cluster, component))
  <2>. DEFINE d == ComponentDraft(l, code, given, cluster, component)
  <2>1. d.title \in ToSet(Titles)
    BY DraftTitles
  <2>2. Surveyed(l, code, d) /\ d.source = "structural_pair"
    <3>1. items = RelationPairs(l, code, cluster.candidates)
      OBVIOUS
    <3>. HIDE DEF items
    <3>. QED BY <1>8, <3>1, ComponentSurveyed
  <2>. HIDE DEF d
  <2>3. Proper(l, defined, code, d)
    BY <2>1, <2>2 DEF Proper
  <2>. QED BY <2>3 DEF d
<1>9. ProperList(l, defined, code, others)
  <2>. HIDE DEF components, pairs, items
  <2>1. PICK n \in Nat : DOMAIN components = 1..n /\ \A i \in 1..n : ListIn(components[i], pairs)
    BY <1>5
  <2>2. \A i \in 1..n : ToSet(components[i]) \subseteq ToSet(items)
    BY <1>4, <2>1, ListHas
  <2>3. others = [i \in 1..n |-> others[i]]
    BY <2>1
  <2>4. \A i \in 1..n : Proper(l, defined, code, others[i])
    BY <1>8, <2>1, <2>2
  <2>. HIDE DEF others
  <2>. QED BY <2>3, <2>4, ProperListMade
<1>. HIDE DEF first, others
<1>. QED BY <1>1, <1>7, <1>9, ProperConcat

LEMMA ClustersIn ==
  ASSUME NEW l, NEW defined, NEW code, Analysable(l, defined, code)
  PROVE  /\ ListIn(Clusters(l, code), ToSet(l.clusters))
         /\ \A c \in ToSet(Clusters(l, code)) : ClusterOver(c)
<1>. DEFINE places == {i \in DOMAIN l.clusters :
                         \/ "content_similarity" \notin l.clusters[i].kinds
                         \/ RelationPairs(l, code, l.clusters[i].candidates) # <<>>}
            n == Len(l.clusters)
            S == ToSet(l.clusters)
<1>1. ListIn(l.clusters, S)
  <2>1. n \in Nat /\ DOMAIN l.clusters = 1..n
    BY DEF Analysable, IsList
  <2>2. \A i \in 1..n : l.clusters[i] \in S
    BY <2>1 DEF ToSet
  <2>. HIDE DEF n, S
  <2>. QED BY <2>1, <2>2 DEF ListIn
<1>2. places \in SUBSET DOMAIN l.clusters
  OBVIOUS
<1>3. Clusters(l, code) = Kept(l.clusters, places)
  BY DEF Clusters
<1>. HIDE DEF places, S
<1>4. ListIn(Clusters(l, code), S)
  BY <1>1, <1>2, <1>3, KeptIn
<1>5. ToSet(Clusters(l, code)) \subseteq S
  BY <1>4, ListHas
<1>. QED BY <1>4, <1>5 DEF Analysable, S

LEMMA ClusterDraftsProper ==
  ASSUME NEW l, NEW defined, NEW code, Analysable(l, defined, code), NEW given, NEW clusters,
         clusters = Clusters(l, code)
  PROVE  ProperList(l, defined, code, FlattenSeq([i \in DOMAIN clusters |->
                                  SignatureDrafts(l, code, given, clusters[i])]))
<1>. DEFINE lists == [i \in DOMAIN clusters |-> SignatureDrafts(l, code, given, clusters[i])]
<1>1. PICK n \in Nat : DOMAIN clusters = 1..n
  BY ClustersIn, ListHas
<1>2. lists = [i \in 1..n |-> lists[i]]
  BY <1>1
<1>3. \A i \in 1..n : ProperList(l, defined, code, lists[i])
  <2>1. \A m \in Member : code[m] \in DOMAIN Bodies
    BY DEF Analysable
  <2>2. \A i \in 1..n : clusters[i] \in ToSet(Clusters(l, code)) /\ ClusterOver(clusters[i])
    BY <1>1, ClustersIn DEF ToSet
  <2>3. \A i \in 1..n : ProperList(l, defined, code, SignatureDrafts(l, code, given, clusters[i]))
    BY <2>1, <2>2, SignatureDraftsProper
  <2>. QED BY <1>1, <2>3
<1>. HIDE DEF lists
<1>4. ProperList(l, defined, code, FlattenSeq(lists))
  BY <1>2, <1>3, ProperFlatten
<1>. QED BY <1>4 DEF lists

LEMMA LocalBlockDraftsProper ==
  ASSUME NEW l, NEW defined, NEW code, Analysable(l, defined, code), NEW m \in Member, NEW blocks,
         blocks = Bodies[code[m]].local
  PROVE  ProperList(l, defined, code,
                    [i \in DOMAIN blocks |-> LocalBlockDraft(l, code, m, blocks[i])])
<1>. DEFINE drafts == [i \in DOMAIN blocks |-> LocalBlockDraft(l, code, m, blocks[i])]
            n == Len(blocks)
<1>1. IsList(blocks)
  BY FindingsAssumption DEF Analysable
<1>2. n \in Nat /\ DOMAIN blocks = 1..n
  BY <1>1 DEF IsList
<1>3. drafts = [i \in 1..n |-> drafts[i]]
  BY <1>2
<1>4. ASSUME NEW block PROVE Proper(l, defined, code, LocalBlockDraft(l, code, m, block))
  <2>. DEFINE d == LocalBlockDraft(l, code, m, block)
  <2>1. d.title \in ToSet(Titles)
    BY DraftTitles
  <2>2. Surveyed(l, code, d) /\ d.source = "intra_function_duplicate"
    BY LocalBlockSurveyed
  <2>. HIDE DEF d
  <2>3. Proper(l, defined, code, d)
    BY <2>1, <2>2 DEF Proper
  <2>. QED BY <2>3 DEF d
<1>5. \A i \in 1..n : Proper(l, defined, code, drafts[i])
  BY <1>2, <1>4
<1>. HIDE DEF drafts, n
<1>6. ProperList(l, defined, code, drafts)
  BY <1>2, <1>3, <1>5, ProperListMade
<1>. QED BY <1>6 DEF drafts

LEMMA SharedBlockDraftsProper ==
  ASSUME NEW l, NEW defined, NEW code
  PROVE  ProperList(l, defined, code, SharedBlockDrafts(l, code))
<1>. DEFINE S == SharedBlocks(l, code)
<1>1. PICK blocks : /\ ListIn(blocks, S)
                    /\ SharedBlockDrafts(l, code)
                         = [i \in DOMAIN blocks |-> SharedBlockDraft(l, code, blocks[i])]
  BY SharedBlocksIn
<1>2. PICK n \in Nat : DOMAIN blocks = 1..n /\ \A i \in 1..n : blocks[i] \in S
  BY <1>1 DEF ListIn
<1>3. ASSUME NEW block \in S PROVE Proper(l, defined, code, SharedBlockDraft(l, code, block))
  <2>. DEFINE d == SharedBlockDraft(l, code, block)
  <2>1. d.title \in ToSet(Titles)
    BY DraftTitles
  <2>2. Surveyed(l, code, d) /\ d.source = "shared_block"
    BY SharedBlockSurveyed
  <2>. HIDE DEF d
  <2>3. Proper(l, defined, code, d)
    BY <2>1, <2>2 DEF Proper
  <2>. QED BY <2>3 DEF d
<1>. HIDE DEF S
<1>. DEFINE drafts == [i \in DOMAIN blocks |-> SharedBlockDraft(l, code, blocks[i])]
<1>4. drafts = [i \in 1..n |-> drafts[i]]
  BY <1>2
<1>5. \A i \in 1..n : Proper(l, defined, code, drafts[i])
  BY <1>2, <1>3
<1>. HIDE DEF drafts
<1>6. ProperList(l, defined, code, drafts)
  BY <1>4, <1>5, ProperListMade
<1>. QED BY <1>1, <1>6 DEF drafts

LEMMA DraftsProper ==
  ASSUME NEW l, NEW defined, NEW code, Analysable(l, defined, code), NEW given
  PROVE  ProperList(l, defined, code, Drafts(l, defined, code, given))
<1>. DEFINE groups == PolicyConstantClusters(defined, l.at)
            clusters == Clusters(l, code)
            order == Ascending(Member)
            Blocks(m) == Bodies[code[m]].local
            Local(m) == [i \in DOMAIN Blocks(m) |-> LocalBlockDraft(l, code, m, Blocks(m)[i])]
            locals == [i \in DOMAIN order |-> Local(order[i])]
            a == [i \in DOMAIN groups |-> ConstantDraft(l, defined, groups[i])]
            b == FlattenSeq([i \in DOMAIN clusters |->
                               SignatureDrafts(l, code, given, clusters[i])])
            c == FlattenSeq(locals)
            d == SharedBlockDrafts(l, code)
<1>1. Drafts(l, defined, code, given) = a \o b \o c \o d
  BY DEF Drafts
<1>2. ProperList(l, defined, code, a)
  <2>. HIDE DEF groups
  <2>1. groups = PolicyConstantClusters(defined, l.at)
    BY DEF groups
  <2>. QED BY <2>1, ConstantDraftsProper
<1>3. ProperList(l, defined, code, b)
  <2>. HIDE DEF clusters
  <2>1. clusters = Clusters(l, code)
    BY DEF clusters
  <2>. QED BY <2>1, ClusterDraftsProper
<1>4. ProperList(l, defined, code, c)
  <2>1. AscendingOf(order, Member)
    BY FindingsAssumption, AscendingList
  <2>2. PICK n \in Nat : DOMAIN order = 1..n /\ \A i \in 1..n : order[i] \in Member
    <3>. HIDE DEF order
    <3>. QED BY <2>1 DEF AscendingOf
  <2>. HIDE DEF order
  <2>3. locals = [i \in 1..n |-> locals[i]] /\ \A i \in 1..n : locals[i] = Local(order[i])
    BY <2>2
  <2>4. \A m \in Member : ProperList(l, defined, code, Local(m))
    <3>. SUFFICES ASSUME NEW m \in Member PROVE ProperList(l, defined, code, Local(m))
      OBVIOUS
    <3>. DEFINE blocks == Blocks(m)
    <3>1. blocks = Bodies[code[m]].local
      OBVIOUS
    <3>. HIDE DEF blocks, Blocks
    <3>2. ProperList(l, defined, code,
                     [i \in DOMAIN blocks |-> LocalBlockDraft(l, code, m, blocks[i])])
      BY <3>1, LocalBlockDraftsProper
    <3>. QED BY <3>2 DEF blocks
  <2>. HIDE DEF locals, Local
  <2>5. \A i \in 1..n : ProperList(l, defined, code, locals[i])
    BY <2>2, <2>3, <2>4
  <2>6. locals = [i \in 1..n |-> locals[i]]
    BY <2>3
  <2>. QED BY <2>5, <2>6, ProperFlatten
<1>5. ProperList(l, defined, code, d)
  BY SharedBlockDraftsProper
<1>. HIDE DEF a, b, c, d
<1>6. ProperList(l, defined, code, a \o b)
  BY <1>2, <1>3, ProperConcat
<1>7. ProperList(l, defined, code, a \o b \o c)
  BY <1>4, <1>6, ProperConcat
<1>8. ProperList(l, defined, code, a \o b \o c \o d)
  BY <1>5, <1>7, ProperConcat
<1>. QED BY <1>1, <1>8

(* The targets can be ranked, and have IDs of their own.                     *)
LEMMA AssessedRated ==
  ASSUME NEW l, NEW defined, NEW code, Analysable(l, defined, code), NEW given
  PROVE  \E n \in Nat : /\ RatedList(Assessed(l, defined, code, given), n)
                        /\ Identified(Assessed(l, defined, code, given), n)
<1>. DEFINE drafts == Drafts(l, defined, code, given)
            n == Len(drafts)
            found == [i \in DOMAIN drafts |-> AssessedTarget(drafts[i], Assess(drafts[i]))]
            unique == WithUniqueIdentities(l, found)
<1>1. Assessed(l, defined, code, given) = unique
  BY DEF Assessed, AssessedTargets
<1>2. ProperList(l, defined, code, drafts)
  BY DraftsProper
<1>. HIDE DEF drafts
<1>3. n \in Nat /\ DOMAIN drafts = 1..n /\ \A i \in 1..n : Proper(l, defined, code, drafts[i])
  BY <1>2, ProperListHas
<1>. HIDE DEF n
<1>4. DOMAIN found = 1..n
        /\ \A i \in 1..n : found[i] = AssessedTarget(drafts[i], Assess(drafts[i]))
  BY <1>3
<1>. HIDE DEF found
<1>5. /\ DOMAIN unique = 1..n
      /\ \A i \in 1..n : /\ unique[i].tier = Assess(drafts[i]).tier
                         /\ unique[i].score = Assess(drafts[i]).score
                         /\ unique[i].title = drafts[i].title
      /\ Identified(unique, n)
  BY <1>3, <1>4, UniqueIdentities
<1>. HIDE DEF unique
<1>6. ASSUME NEW i \in 1..n PROVE Rated(unique[i])
  <2>1. unique[i].tier \in ToSet(Tiers) /\ unique[i].score \in Int
    BY <1>5, AssessedTier
  <2>2. unique[i].title \in ToSet(Titles)
    BY <1>3, <1>5 DEF Proper
  <2>3. TierRank(unique[i].tier) \in Int
    BY <2>1, TierListed
  <2>. DEFINE title == unique[i].title
  <2>. HIDE DEF title
  <2>4. title \in ToSet(Titles)
    BY <2>2 DEF title
  <2>5. TitleRank(title) \in 1..12
    BY <2>4, TitlesListed, Zenon
  <2>6. TitleRank(title) \in Int
    BY <2>5
  <2>. QED BY <2>1, <2>3, <2>6 DEF Rated, title
<1>. QED BY <1>1, <1>3, <1>5, <1>6 DEF RatedList

-----------------------------------------------------------------------------
(* The invariant: the last analysis was one of the code as it is.            *)

Analysed ==
  /\ \E l \in Layouts : layout = Extracted(l) /\ DOMAIN constants = DOMAIN l.constants
  /\ body \in [Member -> DOMAIN Bodies]
  /\ \A m \in Member : body[m] \in DOMAIN layout.forms[m]
  /\ answer \in [Member -> DOMAIN Answers \cup {"none"}]
  /\ targets = Assessed(layout, constants, body, answer)
  /\ report = Report(targets)

LEMMA ExtractedFields ==
  ASSUME NEW l
  PROVE  /\ Extracted(l).clusters = l.clusters /\ Extracted(l).forms = l.forms
         /\ Extracted(l).starts = l.starts
<1>1. \E files, roles : Extracted(l) =
        [files |-> files, at |-> l.at, declared |-> l.declared, alike |-> l.alike,
         clusters |-> l.clusters, forms |-> l.forms,
         edited |-> l.edited, redefined |-> l.redefined, starts |-> l.starts,
         roles |-> roles]
  BY Zenon DEF Extracted
<1>. QED BY <1>1

LEMMA AnalysedAnalysable ==
  Analysed => Analysable(layout, constants, body)
<1>. SUFFICES ASSUME Analysed PROVE Analysable(layout, constants, body)
  OBVIOUS
<1>1. PICK l \in Layouts : layout = Extracted(l) /\ DOMAIN constants = DOMAIN l.constants
  BY DEF Analysed
<1>2. layout.clusters = l.clusters
  BY <1>1, ExtractedFields
<1>3. /\ IsList(l.clusters) /\ IsFiniteSet(DOMAIN l.constants)
      /\ DOMAIN l.constants \subseteq Nat /\ Member \cap DOMAIN l.constants = {}
  BY FindingsAssumption
<1>4. \A m \in Member : body[m] \in DOMAIN Bodies
  BY DEF Analysed
<1>5. \A c \in ToSet(l.clusters) : ClusterOver(c)
  BY LayoutsAssumption DEF ClusterOver
<1>. QED BY <1>1, <1>2, <1>3, <1>4, <1>5 DEF Analysable

LEMMA InitAnalysed == Init => Analysed
<1>. SUFFICES ASSUME Init PROVE Analysed
  OBVIOUS
<1>1. PICK l \in Layouts : layout = Extracted(l) /\ constants = l.constants
  BY DEF Init
<1>2. PICK b \in layout.starts : body = [m \in Member |-> b]
  BY DEF Init
<1>3. layout.forms = l.forms /\ layout.starts = l.starts
  BY <1>1, ExtractedFields
<1>4. \A m \in Member : b \in DOMAIN layout.forms[m] /\ b \in DOMAIN Bodies
  <2>1. \A m \in Member : /\ l.starts \subseteq DOMAIN l.forms[m]
                          /\ DOMAIN l.forms[m] \subseteq DOMAIN Bodies
    BY FindingsAssumption
  <2>. QED BY <1>3, <2>1
<1>5. body \in [Member -> DOMAIN Bodies] /\ \A m \in Member : body[m] \in DOMAIN layout.forms[m]
  BY <1>2, <1>4
<1>6. answer \in [Member -> DOMAIN Answers \cup {"none"}]
  BY DEF Init, NoAnswers
<1>7. targets = Assessed(layout, constants, body, answer) /\ report = Report(targets)
  BY DEF Init
<1>8. \E k \in Layouts : layout = Extracted(k) /\ DOMAIN constants = DOMAIN k.constants
  BY <1>1
<1>. QED BY <1>5, <1>6, <1>7, <1>8 DEF Analysed

LEMMA NextAnalysed == Analysed /\ [Next]_vars => Analysed'
<1>. SUFFICES ASSUME Analysed, [Next]_vars PROVE Analysed'
  OBVIOUS
<1>1. PICK l \in Layouts : layout = Extracted(l) /\ DOMAIN constants = DOMAIN l.constants
  BY DEF Analysed
<1>2. /\ body \in [Member -> DOMAIN Bodies]
      /\ \A m \in Member : body[m] \in DOMAIN layout.forms[m]
      /\ answer \in [Member -> DOMAIN Answers \cup {"none"}]
  BY DEF Analysed
<1>3. ASSUME NEW m \in Member, NEW b \in DOMAIN Bodies, Edit(m, b) PROVE Analysed'
  <2>1. /\ layout' = layout /\ constants' = constants /\ answer' = answer
        /\ body' = [body EXCEPT ![m] = b]
    BY <1>3 DEF Edit
  <2>2. b \in DOMAIN layout.forms[m]
    BY <1>3 DEF Edit
  <2>3. targets' = Assessed(layout', constants', body', answer') /\ report' = Report(targets')
    BY <1>3, <2>1 DEF Edit, Analyse
  <2>4. /\ body' \in [Member -> DOMAIN Bodies]
        /\ \A x \in Member : body'[x] \in DOMAIN layout'.forms[x]
    BY <1>2, <2>1, <2>2
  <2>. QED BY <1>1, <1>2, <2>1, <2>3, <2>4 DEF Analysed
<1>4. ASSUME NEW c \in layout.redefined, NEW d \in Definitions, Redefine(c, d) PROVE Analysed'
  <2>1. /\ layout' = layout /\ body' = body /\ answer' = answer
        /\ constants' = [constants EXCEPT ![c] = d]
    BY <1>4 DEF Redefine
  <2>2. targets' = Assessed(layout', constants', body', answer') /\ report' = Report(targets')
    BY <1>4, <2>1 DEF Redefine, Analyse
  <2>3. DOMAIN constants' = DOMAIN l.constants
    BY <1>1, <2>1
  <2>. QED BY <1>1, <1>2, <2>1, <2>2, <2>3 DEF Analysed
<1>5. ASSUME NEW m \in Asked, NEW a \in DOMAIN Answers, Enrich(m, a) PROVE Analysed'
  <2>1. /\ layout' = layout /\ constants' = constants /\ body' = body
        /\ answer' = [answer EXCEPT ![m] = a]
    BY <1>5 DEF Enrich
  <2>2. targets' = Assessed(layout', constants', body', answer') /\ report' = Report(targets')
    BY <1>5, <2>1 DEF Enrich, Analyse
  <2>3. answer' \in [Member -> DOMAIN Answers \cup {"none"}]
    BY <1>2, <2>1
  <2>. QED BY <1>1, <1>2, <2>1, <2>2, <2>3 DEF Analysed
<1>6. CASE UNCHANGED vars
  BY <1>6 DEF Analysed, vars
<1>. QED BY <1>3, <1>4, <1>5, <1>6 DEF Next

(* The last analysis lost no target and repeated none.                       *)
LEMMA AnalysedReport ==
  Analysed => \E n, m \in Nat : /\ Represents(report, m, targets, n)
                                /\ DOMAIN targets = 1..n
                                /\ Distinct(report, m)
<1>. SUFFICES ASSUME Analysed
              PROVE  \E n, m \in Nat : /\ Represents(report, m, targets, n)
                                       /\ DOMAIN targets = 1..n
                                       /\ Distinct(report, m)
  OBVIOUS
<1>1. Analysable(layout, constants, body)
  BY AnalysedAnalysable
<1>2. targets = Assessed(layout, constants, body, answer) /\ report = Report(targets)
  BY DEF Analysed
<1>3. PICK n \in Nat : RatedList(targets, n) /\ Identified(targets, n)
  <2>. DEFINE found == Assessed(layout, constants, body, answer)
  <2>1. \E n \in Nat : RatedList(found, n) /\ Identified(found, n)
    BY <1>1, AssessedRated
  <2>. QED BY <2>1, <1>2
<1>4. PICK m \in Nat : Represents(Report(targets), m, targets, n) /\ Distinct(Report(targets), m)
  BY <1>3, ReportRepresents
<1>5. DOMAIN targets = 1..n
  BY <1>3 DEF RatedList
<1>. QED BY <1>2, <1>4, <1>5

LEMMA AnalysedRepresents == Analysed => EveryTargetRepresented
<1>. SUFFICES ASSUME Analysed, NEW t \in ToSet(targets)
              PROVE  \E f \in ToSet(report) : /\ t.locations \subseteq f.locations
                                              /\ TierRank(f.tier) <= TierRank(t.tier)
  BY DEF EveryTargetRepresented
<1>1. PICK n \in Nat, m \in Nat : Represents(report, m, targets, n) /\ DOMAIN targets = 1..n
  BY AnalysedReport
<1>2. PICK k \in 1..n : t = targets[k]
  BY <1>1 DEF ToSet
<1>3. PICK i \in 1..m : /\ targets[k].locations \subseteq report[i].locations
                        /\ TierRank(report[i].tier) <= TierRank(targets[k].tier)
  BY <1>1 DEF Represents
<1>4. report[i] \in ToSet(report)
  BY <1>1 DEF ToSet, Represents, RatedList
<1>. QED BY <1>2, <1>3, <1>4

(* Every target of an analysis is in the report or covered by a finding over *)
(* all its functions and blocks that ranks at least as high: neither the     *)
(* removal of repeats and subsumed targets nor that of repeated IDs loses one *)
(* (analysis/assessment/findings.py, analysis/surfacing.py, identity.py).    *)
THEOREM TargetsRepresented == Spec => []EveryTargetRepresented
<1>1. Init => Analysed
  BY InitAnalysed
<1>2. Analysed /\ [Next]_vars => Analysed'
  BY NextAnalysed
<1>3. Analysed => EveryTargetRepresented
  BY AnalysedRepresents
<1>. QED BY <1>1, <1>2, <1>3, PTL DEF Spec

(* A report names the same functions and blocks once.                        *)
NoneRepeated ==
  \A i, j \in DOMAIN report : i # j => report[i].locations # report[j].locations

(* No two findings of a report are over the same functions and blocks, and   *)
(* each is one of the assessed targets as it was (findings.py,               *)
(* _dedupe_equivalent).                                                      *)
THEOREM NoFindingRepeated == Spec => [](NoneRepeated /\ ToSet(report) \subseteq ToSet(targets))
<1>1. Init => Analysed
  BY InitAnalysed
<1>2. Analysed /\ [Next]_vars => Analysed'
  BY NextAnalysed
<1>3. Analysed => NoneRepeated /\ ToSet(report) \subseteq ToSet(targets)
  <2>. SUFFICES ASSUME Analysed PROVE NoneRepeated /\ ToSet(report) \subseteq ToSet(targets)
    OBVIOUS
  <2>1. PICK n \in Nat, m \in Nat : /\ Represents(report, m, targets, n)
                                    /\ DOMAIN targets = 1..n
                                    /\ Distinct(report, m)
    BY AnalysedReport
  <2>2. DOMAIN report = 1..m /\ \A i \in 1..m : \E k \in 1..n : report[i] = targets[k]
    BY <2>1 DEF Represents, RatedList
  <2>3. NoneRepeated
    BY <2>1, <2>2 DEF NoneRepeated, Distinct
  <2>4. ToSet(report) \subseteq ToSet(targets)
    BY <2>1, <2>2 DEF ToSet
  <2>. QED BY <2>3, <2>4
<1>. QED BY <1>1, <1>2, <1>3, PTL DEF Spec

-----------------------------------------------------------------------------
(* A divergent group of constants is never a recommended edit.               *)

LEMMA AlsoFails ==
  ASSUME NEW first, NEW gates, NEW gate, gate \in Failed(gates), gate \notin DOMAIN first
  PROVE  gate \in Failed(Also(first, gates))
<1>1. gate \in DOMAIN gates /\ ~gates[gate]
  BY DEF Failed
<1>2. gate \in DOMAIN Also(first, gates) /\ Also(first, gates)[gate] = gates[gate]
  BY <1>1 DEF Also
<1>. QED BY <1>1, <1>2, Zenon DEF Failed

LEMMA ConsolidateRiskGate ==
  ASSUME NEW m, NEW evidence, NEW risk, NEW fit,
         ~(risk.score <= ActionGates.low_clone_risk)
  PROVE  "low_semantic_risk" \in Failed(ConsolidateGates(m, risk, fit))
<1>. DEFINE gates == ConsolidateGates(m, risk, fit)
<1>1. "low_semantic_risk" \in DOMAIN gates
  BY Zenon DEF ConsolidateGates
<1>2. gates["low_semantic_risk"] = (risk.score <= ActionGates.low_clone_risk)
  BY Zenon DEF ConsolidateGates
<1>. HIDE DEF gates
<1>3. "low_semantic_risk" \in Failed(gates)
  BY <1>1, <1>2, Zenon DEF Failed
<1>. QED BY <1>3 DEF gates

LEMMA IntroduceRiskGate ==
  ASSUME NEW m, NEW evidence, NEW risk, NEW fit,
         ~(risk.score <= ActionGates.low_introduction_risk)
  PROVE  "low_semantic_risk" \in Failed(IntroduceGates(m, evidence, risk, fit))
<1>. DEFINE gates == IntroduceGates(m, evidence, risk, fit)
<1>1. "low_semantic_risk" \in DOMAIN gates
  BY Zenon DEF IntroduceGates
<1>2. gates["low_semantic_risk"] = (risk.score <= ActionGates.low_introduction_risk)
  BY Zenon DEF IntroduceGates
<1>. HIDE DEF gates
<1>3. "low_semantic_risk" \in Failed(gates)
  BY <1>1, <1>2, Zenon DEF Failed
<1>. QED BY <1>3 DEF gates

LEMMA ReuseStatedGate ==
  ASSUME NEW m, NEW evidence, NEW risk, NEW fit
  PROVE  "simple_argument_transform" \in Failed(ReuseGates(m, evidence, {}, risk, fit))
<1>. DEFINE gates == ReuseGates(m, evidence, {}, risk, fit)
<1>1. "simple_argument_transform" \in DOMAIN gates
  BY Zenon DEF ReuseGates
<1>2. gates["simple_argument_transform"] = ("simple_argument_transform" \in {})
  BY Zenon DEF ReuseGates
<1>. HIDE DEF gates
<1>3. "simple_argument_transform" \in Failed(gates)
  BY <1>1, <1>2, Zenon DEF Failed
<1>. QED BY <1>3 DEF gates

LEMMA ExtractRiskGate ==
  ASSUME NEW m, NEW evidence, NEW risk, NEW fit, ~(risk.score <= ActionGates.low_helper_risk)
  PROVE  "low_semantic_risk" \in Failed(ExtractGates(m, evidence, {}, risk, fit))
<1>. DEFINE local == m.duplicate_block_count > 0
         first == IF local THEN [intra_function_duplicate_block |-> TRUE] ELSE <<>>
         gates == [substantial_local_duplicate_block |-> local => SubstantialBlock(m),
            argument_normalization_detected |-> local \/ NormalizesArguments(m, evidence),
            same_downstream_operation |->
              local \/ "shared_operation_after_argument_normalization" \in {},
            small_common_body |-> m.max_body_line_count \in 1..ActionGates.max_small_helper_lines,
            low_public_api_cost |-> fit.cost <= ActionGates.low_public_api_cost,
            low_semantic_risk |-> risk.score <= ActionGates.low_helper_risk]
<1>1. ExtractGates(m, evidence, {}, risk, fit) = Also(first, gates)
  BY Zenon DEF ExtractGates
<1>2. "low_semantic_risk" \in DOMAIN gates
  BY Zenon
<1>3. gates["low_semantic_risk"] = (risk.score <= ActionGates.low_helper_risk)
  BY Zenon
<1>4. "low_semantic_risk" \notin DOMAIN first
  <2>. HIDE DEF local
  <2>. QED OBVIOUS
<1>. HIDE DEF gates, first
<1>5. "low_semantic_risk" \in Failed(gates)
  BY <1>2, <1>3, Zenon DEF Failed
<1>. QED BY <1>1, <1>4, <1>5, AlsoFails

(* The gates of an action are its own and those before them.                 *)
LEMMA OwnGates ==
  ASSUME NEW action \in Edits, NEW m, NEW s, NEW own, NEW gate \in Failed(own),
         gate \notin {"relation_detected", "maintenance_payoff"},
         \/ action = "consolidate_clone" /\ own = ConsolidateGates(m, s.risk, s.fit)
         \/ action = "extract_small_helper" /\ own = ExtractGates(m, s.evidence, {}, s.risk, s.fit)
         \/ action = "reuse_existing_helper" /\ own = ReuseGates(m, s.evidence, {}, s.risk, s.fit)
         \/ action = "introduce_abstraction" /\ own = IntroduceGates(m, s.evidence, s.risk, s.fit)
  PROVE  Failed(Gates(action, m, s, {})) # {}
<1>. DEFINE consolidate == ConsolidateGates(m, s.risk, s.fit)
            extract == ExtractGates(m, s.evidence, {}, s.risk, s.fit)
            reuse == ReuseGates(m, s.evidence, {}, s.risk, s.fit)
            introduce == IntroduceGates(m, s.evidence, s.risk, s.fit)
            note == [concern_only |-> s.detection.score > 0]
            edit == action \in Edits
            chosen == CASE action = "consolidate_clone" -> consolidate
                        [] action = "extract_small_helper" -> extract
                        [] action = "reuse_existing_helper" -> reuse
                        [] action = "introduce_abstraction" -> introduce
                        [] action \in Notes -> note
                        [] OTHER -> <<>>
            detected == [relation_detected |->
                     s.detection.score >= AssessmentPolicy.detection_relation_threshold]
            payoff == [maintenance_payoff |->
                   \/ s.payoff.score >= AssessmentPolicy.review_candidate_threshold
                   \/ SubstantialBlock(m)
                   \/ action = "consolidate_clone" /\ EditableSkeleton(m)]
            before == IF edit \/ action \in Notes THEN detected ELSE <<>>
            worth == IF edit THEN payoff ELSE <<>>
<1>1. Gates(action, m, s, {}) = Also(before, Also(worth, chosen))
  BY Zenon DEF Gates
<1>2. DOMAIN detected = {"relation_detected"} /\ DOMAIN payoff = {"maintenance_payoff"}
  OBVIOUS
<1>3. chosen = own
  <2>1. \/ action = "consolidate_clone" /\ own = consolidate
        \/ action = "extract_small_helper" /\ own = extract
        \/ action = "reuse_existing_helper" /\ own = reuse
        \/ action = "introduce_abstraction" /\ own = introduce
    BY Zenon DEF consolidate, extract, reuse, introduce
  <2>. HIDE DEF edit, detected, payoff, before, worth
  <2>. HIDE DEF consolidate, extract, reuse, introduce, note
  <2>2. CASE action = "consolidate_clone" /\ own = consolidate
    BY <2>2 DEF Notes
  <2>3. CASE action = "extract_small_helper" /\ own = extract
    BY <2>3 DEF Notes
  <2>4. CASE action = "reuse_existing_helper" /\ own = reuse
    BY <2>4 DEF Notes
  <2>5. CASE action = "introduce_abstraction" /\ own = introduce
    BY <2>5 DEF Notes
  <2>. QED BY <2>1, <2>2, <2>3, <2>4, <2>5
<1>. HIDE DEF detected, payoff, chosen
<1>4. gate \notin DOMAIN before /\ gate \notin DOMAIN worth
  BY <1>2
<1>. HIDE DEF before, worth
<1>5. gate \in Failed(Also(worth, own))
  BY <1>4, AlsoFails
<1>6. gate \in Failed(Also(before, Also(worth, own)))
  BY <1>4, <1>5, AlsoFails
<1>. QED BY <1>1, <1>3, <1>6

(* Each edit has a gate that a risk above LOW_CLONE_RISK closes or, to reuse *)
(* a helper, one that takes a precondition the relations state.              *)
LEMMA RiskClosesEdits ==
  ASSUME NEW action \in Edits, NEW m, NEW s, s.risk.score = 3500
  PROVE  Failed(Gates(action, m, s, {})) # {}
<1>1. /\ ~(s.risk.score <= ActionGates.low_clone_risk)
      /\ ~(s.risk.score <= ActionGates.low_helper_risk)
      /\ ~(s.risk.score <= ActionGates.low_introduction_risk)
  BY DEF ActionGates
<1>2. "low_semantic_risk" \in Failed(ConsolidateGates(m, s.risk, s.fit))
  BY <1>1, ConsolidateRiskGate
<1>3. "low_semantic_risk" \in Failed(ExtractGates(m, s.evidence, {}, s.risk, s.fit))
  BY <1>1, ExtractRiskGate
<1>4. "simple_argument_transform" \in Failed(ReuseGates(m, s.evidence, {}, s.risk, s.fit))
  BY ReuseStatedGate
<1>5. "low_semantic_risk" \in Failed(IntroduceGates(m, s.evidence, s.risk, s.fit))
  BY <1>1, IntroduceRiskGate
<1>6. "low_semantic_risk" \notin {"relation_detected", "maintenance_payoff"}
      /\ "simple_argument_transform" \notin {"relation_detected", "maintenance_payoff"}
  OBVIOUS
<1>7. CASE action = "consolidate_clone"
  BY <1>2, <1>6, <1>7, OwnGates
<1>8. CASE action = "extract_small_helper"
  BY <1>3, <1>6, <1>8, OwnGates
<1>9. CASE action = "reuse_existing_helper"
  BY <1>4, <1>6, <1>9, OwnGates
<1>10. CASE action = "introduce_abstraction"
  BY <1>5, <1>6, <1>10, OwnGates
<1>. QED BY <1>7, <1>8, <1>9, <1>10 DEF Edits

(* A status other than that of an edit stays one under any cap.              *)
LEMMA CapAddsNoEdit ==
  ASSUME NEW tier, NEW kind, NEW status, status # "recommended_edit", NEW cap
  PROVE  ApplyCap(tier, kind, status, cap).status # "recommended_edit"
BY DEF ApplyCap

LEMMA OnlyRecommendedEdits ==
  ASSUME NEW action, action.kind \notin Edits \/ action.status # "recommended"
  PROVE  ActionStatus(action) # "recommended_edit"
BY DEF ActionStatus, Notes, Edits

LEMMA ClosedEditStatus ==
  ASSUME NEW action, NEW score, NEW failed, failed # {}, NEW m, NEW s
  PROVE  Status(action, score, failed, m, s) # "recommended"
BY DEF Status

(* What is asked for without preconditions, at a risk of 3500, is no edit    *)
(* that is recommended.                                                      *)
LEMMA RiskyAction ==
  ASSUME NEW actions, NEW fallback, NEW m, NEW s, s.risk.score = 3500,
         \A a \in ToSet(actions) : a.preconditions = {}
  PROVE  LET action == RecommendAction(actions, fallback, m, s)
         IN  action.kind \notin Edits \/ action.status # "recommended"
<1>. DEFINE summary == IF HasActions(Summary(actions)) THEN Summary(actions) ELSE fallback
            requested == PrimaryAction(summary)
            given == UNION {a.preconditions : a \in {b \in ToSet(actions) : b.kind = requested}}
            gates == Gates(requested, m, s, given)
            action == FallbackAction(requested, s.detection, Failed(gates))
            failed == IF action = requested THEN Failed(gates)
                      ELSE Failed(Gates(action, m, s, {}))
            score == RecommendationScore(action, s)
            status == Status(action, score, failed, m, s)
<1>1. RecommendAction(actions, fallback, m, s) =
        [kind |-> action, passed |-> Passed(gates), failed |-> Failed(gates), score |-> score,
         status |-> status]
  BY DEF RecommendAction
<1>2. given = {}
  <2>. HIDE DEF requested
  <2>. QED OBVIOUS
<1>3. ASSUME action \in Edits PROVE status # "recommended"
  <2>1. Failed(Gates(action, m, s, {})) # {}
    <3>. HIDE DEF action
    <3>. QED BY <1>3, RiskClosesEdits
  <2>2. action = requested => gates = Gates(action, m, s, {})
    <3>. HIDE DEF requested, given, action
    <3>. QED BY <1>2
  <2>3. failed # {}
    <3>. HIDE DEF gates, action, requested
    <3>. QED BY <2>1, <2>2
  <2>. HIDE DEF failed
  <2>. QED BY <2>3, ClosedEditStatus
<1>. HIDE DEF action, status, score, gates
<1>. QED BY <1>1, <1>3

(* The risk of a divergent group.                                            *)
LEMMA DivergentRisk ==
  ASSUME NEW m, NEW risks, m.lead_risk_score = 3500, m.semantic_evidence = NoSemantics
  PROVE  Risk(m, risks).score = 3500
<1>1. ProviderRisk(m.semantic_evidence) = 0
  BY DEF ProviderRisk, NoSemantics, Larger, Smaller, One
<1>2. (IF m.lead_risk_score > 0 THEN m.lead_risk_score
       ELSE Smaller(One, (Cardinality(risks) + (IF m.cluster_scope = "same_language" THEN 0 ELSE 1))
                          * RiskUnit)) = 3500
  OBVIOUS
<1>. DEFINE relation == IF m.lead_risk_score > 0 THEN m.lead_risk_score
       ELSE Smaller(One, (Cardinality(risks) + (IF m.cluster_scope = "same_language" THEN 0 ELSE 1))
                          * RiskUnit)
            score == Larger(relation, ProviderRisk(m.semantic_evidence))
<1>3. Risk(m, risks).score = Clamp(score)
  BY DEF Risk
<1>. HIDE DEF relation
<1>4. score = 3500
  BY <1>1, <1>2 DEF Larger, relation
<1>. QED BY <1>3, <1>4 DEF Clamp, One

DivergentMetrics(group) ==
  [Plain EXCEPT !.member_count = Cardinality(group.members),
                !.policy_constant_duplicate_count = 1,
                !.structural_relation_pair_count = 1, !.same_role_relation_count = 1,
                !.lead_relatedness_score = One, !.lead_refactorability_score = 9200,
                !.lead_confidence_score = 9800, !.lead_risk_score = 3500]

DivergentAction(group) ==
  [Propose("introduce_abstraction", {}, {group.match}) EXCEPT !.status = "conditional"]

LEMMA DivergentFields ==
  ASSUME NEW group
  PROVE  /\ DivergentMetrics(group).lead_risk_score = 3500
         /\ DivergentMetrics(group).semantic_evidence = NoSemantics
         /\ DivergentMetrics(group).cluster_scope = "same_language"
         /\ DivergentAction(group).preconditions = {}
BY DEF DivergentMetrics, DivergentAction, Propose, Plain

(* The verdict on a group of constants of other values or of other names.    *)
LEMMA DivergentStatus ==
  ASSUME NEW l, NEW defined, NEW group, group.match \in {"drifted", "scattered"}
  PROVE  Assess(ConstantDraft(l, defined, group)).status # "recommended_edit"
<1>. DEFINE d == ConstantDraft(l, defined, group)
            m == d.metrics
            s == Scores(d)
            action == RecommendAction(EffectiveActions(d), d.summary, m, s)
            surface == ApplyCap(ReviewTier(action, s), action.kind, ActionStatus(action),
                                SemanticCap(m))
<1>1. d.metrics = DivergentMetrics(group) /\ d.actions = <<DivergentAction(group)>>
  <2>. DEFINE identical == group.match = "identical"
              metrics == [Plain EXCEPT
                    !.member_count = Cardinality(group.members),
                    !.policy_constant_duplicate_count = 1,
                    !.structural_relation_pair_count = 1, !.same_role_relation_count = 1,
                    !.lead_relatedness_score = One, !.lead_refactorability_score = 9200,
                    !.lead_confidence_score = 9800,
                    !.lead_risk_score = IF identical THEN 400 ELSE 3500]
              proposed == Propose("introduce_abstraction", {}, {group.match})
              actions == <<IF identical THEN proposed
                           ELSE [proposed EXCEPT !.status = "conditional"]>>
              whole == Whole(group.members)
              lines == ConstantLines(defined, group.members)
              title == ConstantTitle[group.match]
  <2>1. d = Draft(l, metrics, whole, lines, "policy_literal", "policy_constant", title,
                  {"policy_constant_duplicate"}, actions)
    BY DEF ConstantDraft
  <2>2. ~identical
    OBVIOUS
  <2>. HIDE DEF identical
  <2>3. metrics = DivergentMetrics(group)
    BY <2>2 DEF DivergentMetrics
  <2>4. actions = <<DivergentAction(group)>>
    BY <2>2 DEF DivergentAction
  <2>. HIDE DEF d, metrics, actions, whole, lines, title
  <2>5. d.metrics = metrics /\ d.actions = actions
    BY <2>1 DEF Draft
  <2>. QED BY <2>3, <2>4, <2>5
<1>2. s.risk.score = 3500
  <2>1. s.risk = Risk(m, EffectiveRisks(d))
    BY Zenon DEF Scores
  <2>. DEFINE x == d.metrics
              risks == EffectiveRisks(d)
  <2>2. x.lead_risk_score = 3500 /\ x.semantic_evidence = NoSemantics
    BY <1>1, DivergentFields
  <2>. HIDE DEF x, risks
  <2>3. Risk(x, risks).score = 3500
    BY <2>2, DivergentRisk
  <2>. QED BY <2>1, <2>3 DEF x, risks
<1>3. \A a \in ToSet(EffectiveActions(d)) : a.preconditions = {}
  <2>1. EffectiveActions(d) = <<DivergentAction(group)>>
    <3>1. d.metrics.cluster_scope = "same_language"
      BY <1>1, DivergentFields
    <3>2. EffectiveActions(d) = d.actions
      BY <3>1, Zenon DEF EffectiveActions
    <3>. QED BY <1>1, <3>2
  <2>2. ToSet(EffectiveActions(d)) = {DivergentAction(group)}
    BY <2>1 DEF ToSet
  <2>. QED BY <2>2, DivergentFields
<1>4. action.kind \notin Edits \/ action.status # "recommended"
  <2>. HIDE DEF m, s
  <2>. QED BY <1>2, <1>3, RiskyAction
<1>5. surface.status # "recommended_edit"
  <2>. HIDE DEF action, m, s
  <2>. QED BY <1>4, OnlyRecommendedEdits, CapAddsNoEdit
<1>6. Assess(d).status = surface.status
  <2>. HIDE DEF surface
  <2>1. Assess(d) = Verdict(surface, action, s)
    BY Zenon DEF Assess, AssessWith, Decide, surface
  <2>. QED BY <2>1 DEF Verdict
<1>. QED BY <1>5, <1>6 DEF d

LEMMA ConstantLocations ==
  ASSUME NEW l, NEW defined, NEW group
  PROVE  ConstantDraft(l, defined, group).locations = Whole(group.members)
<1>. DEFINE members == Whole(group.members)
            identical == group.match = "identical"
            metrics == [Plain EXCEPT
                  !.member_count = Cardinality(group.members),
                  !.policy_constant_duplicate_count = 1,
                  !.structural_relation_pair_count = 1, !.same_role_relation_count = 1,
                  !.lead_relatedness_score = One, !.lead_refactorability_score = 9200,
                  !.lead_confidence_score = 9800,
                  !.lead_risk_score = IF identical THEN 400 ELSE 3500]
            action == Propose("introduce_abstraction", {}, {group.match})
            actions == <<IF identical THEN action
                         ELSE [action EXCEPT !.status = "conditional"]>>
            lines == ConstantLines(defined, group.members)
            title == ConstantTitle[group.match]
<1>1. ConstantDraft(l, defined, group)
        = Draft(l, metrics, members, lines, "policy_literal", "policy_constant", title,
                {"policy_constant_duplicate"}, actions)
  BY DEF ConstantDraft
<1>. HIDE DEF members, metrics, actions, lines, title
<1>2. ConstantDraft(l, defined, group).locations = members
  BY <1>1 DEF Draft
<1>. QED BY <1>2 DEF members

(* An assessed target of constants is over one group of them, and its status *)
(* is that of the verdict on the group.                                      *)
LEMMA ConstantTarget ==
  ASSUME NEW l, NEW defined, NEW code, Analysable(l, defined, code), NEW given,
         NEW t \in ToSet(Assessed(l, defined, code, given)), t.source = "policy_literal"
  PROVE  \E group : /\ ConstantGroup(defined, group)
                    /\ t.locations = Whole(group.members)
                    /\ t.status = Assess(ConstantDraft(l, defined, group)).status
<1>. DEFINE drafts == Drafts(l, defined, code, given)
            n == Len(drafts)
            found == [i \in DOMAIN drafts |-> AssessedTarget(drafts[i], Assess(drafts[i]))]
            unique == WithUniqueIdentities(l, found)
<1>1. Assessed(l, defined, code, given) = unique
  BY DEF Assessed, AssessedTargets
<1>2. ProperList(l, defined, code, drafts)
  BY DraftsProper
<1>. HIDE DEF drafts
<1>3. n \in Nat /\ DOMAIN drafts = 1..n /\ \A i \in 1..n : Proper(l, defined, code, drafts[i])
  BY <1>2, ProperListHas
<1>. HIDE DEF n
<1>4. DOMAIN found = 1..n
        /\ \A i \in 1..n : found[i] = AssessedTarget(drafts[i], Assess(drafts[i]))
  BY <1>3
<1>. HIDE DEF found
<1>5. /\ DOMAIN unique = 1..n
      /\ \A i \in 1..n : /\ unique[i].locations = drafts[i].locations
                         /\ unique[i].source = drafts[i].source
                         /\ unique[i].status = Assess(drafts[i]).status
  BY <1>3, <1>4, UniqueIdentities
<1>. HIDE DEF unique
<1>6. PICK i \in 1..n : t = unique[i]
  BY <1>1, <1>5 DEF ToSet
<1>7. drafts[i].source = "policy_literal"
  BY <1>5, <1>6
<1>8. PICK group : ConstantGroup(defined, group) /\ drafts[i] = ConstantDraft(l, defined, group)
  BY <1>3, <1>7 DEF Proper
<1>9. ConstantDraft(l, defined, group).locations = Whole(group.members)
  BY ConstantLocations
<1>. QED BY <1>5, <1>6, <1>8, <1>9

(* The constants of an identical group have one name and one literal.        *)
LEMMA IdenticalEqual ==
  ASSUME NEW C, NEW group \in IdenticalGroups(C), NEW x \in group, NEW y \in group
  PROVE  NormalizedSymbol(C[x]) = NormalizedSymbol(C[y]) /\ LiteralShape(C[x]) = LiteralShape(C[y])
<1>1. PICK z \in ConstantsOf(C) :
        group = {w \in ConstantsOf(C) : IdenticalKey(C[w]) = IdenticalKey(C[z])}
  BY DEF IdenticalGroups, GroupsBy
<1>2. IdenticalKey(C[x]) = IdenticalKey(C[y])
  BY <1>1
<1>. QED BY <1>2 DEF IdenticalKey

LEMMA AnalysedEdits == Analysed => EditsJoinEqual
<1>. SUFFICES ASSUME Analysed, NEW f \in ConstantEdits, NEW x \in Functions(f),
                     NEW y \in Functions(f)
              PROVE  SameConstant(x, y)
  BY DEF EditsJoinEqual
<1>1. f \in ToSet(targets)
  <2>1. PICK n \in Nat, m \in Nat : Represents(report, m, targets, n) /\ DOMAIN targets = 1..n
    BY AnalysedReport
  <2>2. DOMAIN report = 1..m /\ \A i \in 1..m : \E k \in 1..n : report[i] = targets[k]
    BY <2>1 DEF Represents, RatedList
  <2>3. f \in ToSet(report)
    BY DEF ConstantEdits
  <2>. QED BY <2>1, <2>2, <2>3 DEF ToSet
<1>2. f.source = "policy_literal" /\ f.status = "recommended_edit"
  BY DEF ConstantEdits
<1>3. targets = Assessed(layout, constants, body, answer)
  BY DEF Analysed
<1>4. PICK group : /\ ConstantGroup(constants, group)
                   /\ f.locations = Whole(group.members)
                   /\ f.status = Assess(ConstantDraft(layout, constants, group)).status
  <2>1. Analysable(layout, constants, body)
    BY AnalysedAnalysable
  <2>2. f \in ToSet(Assessed(layout, constants, body, answer))
    BY <1>1, <1>3
  <2>. QED BY <1>2, <2>1, <2>2, ConstantTarget
<1>5. group.match = "identical"
  <2>1. group.match \in {"identical", "drifted", "scattered"}
    BY <1>4 DEF ConstantGroup
  <2>2. Assess(ConstantDraft(layout, constants, group)).status = "recommended_edit"
    BY <1>2, <1>4
  <2>. QED BY <2>1, <2>2, DivergentStatus
<1>6. group.members \in IdenticalGroups(constants)
  BY <1>4, <1>5 DEF ConstantGroup
<1>7. x \in group.members /\ y \in group.members
  BY <1>4 DEF Functions, Whole
<1>. QED BY <1>6, <1>7, IdenticalEqual DEF SameConstant

(* An edit of constants joins only those of one name and one value, whatever *)
(* the settings, the files and the other definitions: the risk given to a    *)
(* group of other values or names closes a gate of every edit, and no cap    *)
(* turns a verdict back into an edit (analysis/findings/policy_drafts.py,   *)
(* POLICY_CONSTANT_DIVERGENT_RISK: "recorded for review, never edited").     *)
THEOREM ConstantEditsJoinEqual == Spec => []EditsJoinEqual
<1>1. Init => Analysed
  BY InitAnalysed
<1>2. Analysed /\ [Next]_vars => Analysed'
  BY NextAnalysed
<1>3. Analysed => EditsJoinEqual
  BY AnalysedEdits
<1>. QED BY <1>1, <1>2, <1>3, PTL DEF Spec

-----------------------------------------------------------------------------
(* Edits and required surface.                                               *)

(* What extraction says of a function is what its code says.                 *)
Roled(x, code, m) ==
  RolesOf(x, code, m)
    = SemanticRoles(FileOf(x, m).path, FileOf(x, m).role, FileOf(x, m).family,
                    x.declared[m], x.forms[m][code[m]], Bodies[code[m]].lines)

LEMMA ExtractedFormed ==
  ASSUME NEW l, NEW x, x = Extracted(l),
         NEW code, NEW m \in Member, code[m] \in DOMAIN l.forms[m]
  PROVE  x.declared = l.declared /\ Roled(x, code, m)
<1>. DEFINE files == [f \in DOMAIN l.files |-> FileRecord(l.files[f])]
            file == files[l.at[m].file]
            Roles(k, b) ==
              SemanticRoles(files[l.at[k].file].path, files[l.at[k].file].role,
                            files[l.at[k].file].family, l.declared[k], l.forms[k][b],
                            Bodies[b].lines)
            roles == [k \in Member |-> [b \in DOMAIN l.forms[k] |-> Roles(k, b)]]
<1>1. Extracted(l)
        = [files |-> files, at |-> l.at, declared |-> l.declared, alike |-> l.alike,
           clusters |-> l.clusters, forms |-> l.forms,
           edited |-> l.edited, redefined |-> l.redefined, starts |-> l.starts,
           roles |-> roles]
  BY Zenon DEF Extracted
<1>2. roles[m][code[m]] = Roles(m, code[m])
  OBVIOUS
<1>. HIDE DEF files, roles
<1>3. /\ x.files = files /\ x.at = l.at /\ x.declared = l.declared /\ x.forms = l.forms
      /\ x.roles = roles
  BY <1>1
<1>4. FileOf(x, m) = file /\ RolesOf(x, code, m) = roles[m][code[m]]
  BY <1>3 DEF FileOf, RolesOf
<1>. QED BY <1>2, <1>3, <1>4 DEF Roled

LEMMA AnalysedFormed ==
  Analysed => Formed(layout, body)
<1>. SUFFICES ASSUME Analysed PROVE Formed(layout, body)
  OBVIOUS
<1>1. PICK l \in Layouts : layout = Extracted(l)
  BY DEF Analysed
<1>2. \A m \in Member : body[m] \in DOMAIN layout.forms[m]
  BY DEF Analysed
<1>3. layout.forms = l.forms
  BY <1>1, ExtractedFields
<1>. DEFINE x == layout
            code == body
<1>4. x = Extracted(l)
  BY <1>1
<1>5. \A m \in Member : code[m] \in DOMAIN l.forms[m]
  BY <1>2, <1>3
<1>. HIDE DEF x, code
<1>6. \A m \in Member : x.declared = l.declared /\ Roled(x, code, m)
  BY <1>4, <1>5, ExtractedFormed
<1>7. \A m \in Member : Declared(l.declared[m])
  BY LayoutsAssumption DEF Declared, ProtocolNames
<1>8. Formed(x, code)
  BY <1>6, <1>7 DEF Formed, Roled
<1>. QED BY <1>8 DEF x, code

(* An edit of functions names functions that the metrics of its draft are    *)
(* of, and no cap applies to these.                                          *)
LEMMA EditedFunctions ==
  ASSUME NEW l, NEW defined, NEW code, Analysable(l, defined, code), NEW given,
         NEW t \in ToSet(Assessed(l, defined, code, given)), t.source # "policy_literal",
         t.action \in Edits
  PROVE  \E m : /\ \E d : Surveyed(l, code, d) /\ d.metrics = m /\ d.locations = t.locations
                /\ \A k \in 1..10 : ~CapRules(m)[k].holds
<1>. DEFINE drafts == Drafts(l, defined, code, given)
            n == Len(drafts)
            found == [i \in DOMAIN drafts |-> AssessedTarget(drafts[i], Assess(drafts[i]))]
            unique == WithUniqueIdentities(l, found)
<1>1. Assessed(l, defined, code, given) = unique
  BY DEF Assessed, AssessedTargets
<1>2. ProperList(l, defined, code, drafts)
  BY DraftsProper
<1>. HIDE DEF drafts
<1>3. n \in Nat /\ DOMAIN drafts = 1..n /\ \A i \in 1..n : Proper(l, defined, code, drafts[i])
  BY <1>2, ProperListHas
<1>. HIDE DEF n
<1>4. DOMAIN found = 1..n
        /\ \A i \in 1..n : found[i] = AssessedTarget(drafts[i], Assess(drafts[i]))
  BY <1>3
<1>. HIDE DEF found
<1>5. /\ DOMAIN unique = 1..n
      /\ \A i \in 1..n : /\ unique[i].locations = drafts[i].locations
                         /\ unique[i].source = drafts[i].source
                         /\ unique[i].action = Assess(drafts[i]).action
  BY <1>3, <1>4, UniqueIdentities
<1>. HIDE DEF unique
<1>6. PICK i \in 1..n : t = unique[i]
  BY <1>1, <1>5 DEF ToSet
<1>. DEFINE d == drafts[i]
<1>7. Surveyed(l, code, d) /\ d.locations = t.locations
  BY <1>3, <1>5, <1>6 DEF Proper
<1>8. Assess(d).action \in Edits
  BY <1>5, <1>6
<1>. HIDE DEF d
<1>9. \A k \in 1..10 : ~CapRules(d.metrics)[k].holds
  BY <1>8, CappedAction
<1>. QED BY <1>7, <1>9

LEMMA AnalysedSpares == Analysed => EditsSpareRequiredSurface
<1>. SUFFICES ASSUME Analysed,
                     NEW f \in ToSet(report), f.source # "policy_literal", f.action \in Edits
              PROVE  Spares(Functions(f), RelationsOf(layout, body))
  BY Zenon DEF EditsSpareRequiredSurface, Spares, Most
<1>1. f \in ToSet(targets)
  <2>1. PICK n \in Nat, m \in Nat : Represents(report, m, targets, n) /\ DOMAIN targets = 1..n
    BY AnalysedReport
  <2>2. DOMAIN report = 1..m /\ \A i \in 1..m : \E k \in 1..n : report[i] = targets[k]
    BY <2>1 DEF Represents, RatedList
  <2>. QED BY <2>1, <2>2 DEF ToSet
<1>2. f \in ToSet(Assessed(layout, constants, body, answer)) /\ Analysable(layout, constants, body)
  BY <1>1, AnalysedAnalysable DEF Analysed
<1>3. PICK d : /\ Surveyed(layout, body, d) /\ d.locations = f.locations
               /\ \A k \in 1..10 : ~CapRules(d.metrics)[k].holds
  BY <1>2, EditedFunctions
<1>4. PICK members \in SUBSET Member, pairs \in SUBSET RelationsOf(layout, body),
           duplicates \in SUBSET RelationsOf(layout, body), mirrored \in BOOLEAN :
             /\ Joins(pairs \cup duplicates, members)
             /\ MetricsOf(layout, body, d.metrics, members, pairs, duplicates, mirrored)
             /\ {loc[1] : loc \in d.locations} \in {members, {}}
  BY <1>3 DEF Surveyed
<1>5. Functions(f) = members \/ Functions(f) = {}
  BY <1>3, <1>4 DEF Functions
<1>6. Formed(layout, body)
  BY AnalysedFormed
<1>7. Spares(members, pairs \cup duplicates)
  BY <1>3, <1>4, <1>6, SurfaceSpared
<1>8. Spares(members, RelationsOf(layout, body))
  BY <1>4, <1>7 DEF Spares
<1>9. Spares({}, RelationsOf(layout, body))
  BY NoneSpared DEF Spares
<1>. QED BY <1>5, <1>8, <1>9

(* No report asks to edit what tests, protocols, frameworks and examples     *)
(* repeat on purpose, nor declarations without code, nor bodies too small to *)
(* share, whatever the settings, the code, the clusters and the answers of   *)
(* the provider: the roles of each function follow from its declaration and  *)
(* its body, the metrics of every draft count them, and a rule that they     *)
(* meet caps the verdict below any edit (semantic_roles.py,                  *)
(* semantic_caps.py).                                                        *)
THEOREM RequiredSurfaceSpared == Spec => []EditsSpareRequiredSurface
<1>1. Init => Analysed
  BY InitAnalysed
<1>2. Analysed /\ [Next]_vars => Analysed'
  BY NextAnalysed
<1>3. Analysed => EditsSpareRequiredSurface
  BY AnalysedSpares
<1>. QED BY <1>1, <1>2, <1>3, PTL DEF Spec

-----------------------------------------------------------------------------
(* Doubts. A draft with more doubts than another over the same functions:    *)
(* its risk is at least as high and nothing else of it changes (Doubted), so *)
(* each gate that it passes is passed without them, the score is no lower    *)
(* (Eased) and a recommended edit stays one.                                 *)

(* A product grows with its factors.                                         *)
LEMMA MulGrows ==
  ASSUME NEW a \in Nat, NEW b \in Int, NEW c \in Int, b <= c
  PROVE  Mul(a, b) <= Mul(a, c)
<1>1. a * b <= a * c /\ a * b \in Int /\ a * c \in Int
  OBVIOUS
<1>. DEFINE x == a * b
            y == a * c
<1>2. x \in Int /\ y \in Int /\ x <= y
  BY <1>1
<1>3. Mul(a, b) = (x + 5000) \div 10000 /\ Mul(a, c) = (y + 5000) \div 10000
  BY DEF Mul, One
<1>. HIDE DEF x, y
<1>. QED BY <1>2, <1>3

LEMMA MulNat ==
  ASSUME NEW a \in Nat, NEW b \in Nat
  PROVE  Mul(a, b) \in Nat
<1>1. a * b \in Nat
  OBVIOUS
<1>. DEFINE x == a * b
<1>2. Mul(a, b) = (x + 5000) \div 10000
  BY DEF Mul, One
<1>. HIDE DEF x
<1>. QED BY <1>1, <1>2 DEF x

LEMMA ClampNat == \A x : Clamp(x) \in 0..One /\ Clamp(x) \in Nat
<1>1. \A x : Clamp(x) \in 0..One
  BY DEF Clamp, One
<1>2. \A n \in 0..One : n \in Nat
  BY DEF One
<1>. QED BY <1>1, <1>2

LEMMA ClampGrows ==
  ASSUME NEW x \in Int, NEW y \in Int, x <= y
  PROVE  Clamp(x) <= Clamp(y)
<1>1. /\ Clamp(x) = IF x < 0 THEN 0 ELSE IF x > 10000 THEN 10000 ELSE x
      /\ Clamp(y) = IF y < 0 THEN 0 ELSE IF y > 10000 THEN 10000 ELSE y
  <2>1. ASSUME NEW z \in Int
        PROVE  Clamp(z) = IF z < 0 THEN 0 ELSE IF z > 10000 THEN 10000 ELSE z
    <3>1. z \in 0..10000 <=> 0 <= z /\ z <= 10000
      OBVIOUS
    <3>2. Clamp(z) = IF z \in 0..One THEN z ELSE IF z < 0 THEN 0 ELSE One
      BY DEF Clamp
    <3>3. One = 10000
      BY DEF One
    <3>. QED BY <3>1, <3>2, <3>3
  <2>. QED BY <2>1
<1>. QED BY <1>1

LEMMA BandGrows ==
  ASSUME NEW x \in Int, NEW y \in Int, x <= y, NEW high \in Nat, NEW medium \in Nat,
         Band(y, high, medium) \in {"none", "low"}
  PROVE  Band(x, high, medium) \in {"none", "low"}
BY DEF Band

-----------------------------------------------------------------------------
(* Two readings of one draft that differ in the facts of the provider only:  *)
(* the second has every doubt of the first, and neither binds two functions. *)

MetricFields ==
  {"member_count", "cluster_scope", "language_count", "adapter_count",
   "min_extraction_confidence", "policy_constant_duplicate_count", "duplicate_block_count",
   "duplicate_block_line_count", "max_body_line_count", "min_body_line_count",
   "min_stable_statement_count", "structural_duplicate_pair_count",
   "structural_relation_pair_count", "guardrail_relation_pair_count", "body_hash_match_count",
   "same_role_relation_count", "same_directory_relation_count", "promoted_pair_count",
   "promoted_member_count", "pair_member_count", "relation_kind_counts", "delta_kind_counts",
   "lead_tree_similarity", "lead_relatedness_score", "lead_refactorability_score",
   "lead_abstraction_cost_score", "lead_risk_score", "lead_confidence_score",
   "lead_stable_statement_count", "lead_hole_count", "lead_hole_size",
   "semantic_role_counts", "guardrails"}

SameMetrics(m, o) ==
  /\ m.member_count = o.member_count /\ m.cluster_scope = o.cluster_scope
  /\ m.language_count = o.language_count /\ m.adapter_count = o.adapter_count
  /\ m.min_extraction_confidence = o.min_extraction_confidence
  /\ m.policy_constant_duplicate_count = o.policy_constant_duplicate_count
  /\ m.duplicate_block_count = o.duplicate_block_count
  /\ m.duplicate_block_line_count = o.duplicate_block_line_count
  /\ m.max_body_line_count = o.max_body_line_count
  /\ m.min_body_line_count = o.min_body_line_count
  /\ m.min_stable_statement_count = o.min_stable_statement_count
  /\ m.structural_duplicate_pair_count = o.structural_duplicate_pair_count
  /\ m.structural_relation_pair_count = o.structural_relation_pair_count
  /\ m.guardrail_relation_pair_count = o.guardrail_relation_pair_count
  /\ m.body_hash_match_count = o.body_hash_match_count
  /\ m.same_role_relation_count = o.same_role_relation_count
  /\ m.same_directory_relation_count = o.same_directory_relation_count
  /\ m.promoted_pair_count = o.promoted_pair_count
  /\ m.promoted_member_count = o.promoted_member_count
  /\ m.pair_member_count = o.pair_member_count
  /\ m.relation_kind_counts = o.relation_kind_counts
  /\ m.delta_kind_counts = o.delta_kind_counts
  /\ m.lead_tree_similarity = o.lead_tree_similarity
  /\ m.lead_relatedness_score = o.lead_relatedness_score
  /\ m.lead_refactorability_score = o.lead_refactorability_score
  /\ m.lead_abstraction_cost_score = o.lead_abstraction_cost_score
  /\ m.lead_risk_score = o.lead_risk_score
  /\ m.lead_confidence_score = o.lead_confidence_score
  /\ m.lead_stable_statement_count = o.lead_stable_statement_count
  /\ m.lead_hole_count = o.lead_hole_count /\ m.lead_hole_size = o.lead_hole_size
  /\ m.semantic_role_counts = o.semantic_role_counts
  /\ m.guardrails = o.guardrails

(* What a provider found of a draft that binds no two functions.             *)
Untied(e) ==
  /\ e.same_overload_group_pair_count = 0 /\ e.shared_call_target_pair_count = 0
  /\ e.unresolved_item_count \in Nat /\ e.ambiguous_ownership_count \in Nat
  /\ e.declaration_only_count \in Nat /\ e.divergent_call_target_pair_count \in Nat

(* Every doubt of the one is one of the other.                               *)
Doubts(e, f) ==
  /\ e.unresolved_item_count > 0 => f.unresolved_item_count > 0
  /\ e.ambiguous_ownership_count > 0 => f.ambiguous_ownership_count > 0
  /\ e.declaration_only_count > 0 => f.declaration_only_count > 0
  /\ e.divergent_call_target_pair_count > 0 => f.divergent_call_target_pair_count > 0

Doubted(d, o) ==
  /\ SameMetrics(d.metrics, o.metrics)
  /\ Untied(d.metrics.semantic_evidence) /\ Untied(o.metrics.semantic_evidence)
  /\ Doubts(d.metrics.semantic_evidence, o.metrics.semantic_evidence)
  /\ d.metrics.lead_risk_score \in Nat
  /\ IsFiniteSet(d.abstraction_risks)
  /\ d.evidence_kinds = o.evidence_kinds /\ d.basis = o.basis
  /\ d.has_signature_overlap = o.has_signature_overlap
  /\ d.abstraction_risks = o.abstraction_risks /\ d.line_span = o.line_span
  /\ d.files = o.files /\ d.file_roles = o.file_roles
  /\ d.actions = o.actions /\ d.summary = o.summary

LEMMA ProviderRiskGrows ==
  ASSUME NEW e, NEW f, Untied(e), Untied(f), Doubts(e, f)
  PROVE  ProviderRisk(e) <= ProviderRisk(f) /\ ProviderRisk(e) \in Nat /\ ProviderRisk(f) \in Nat
<1>1. /\ SemanticEvidencePolicy.declaration_surface_risk_unit \in Nat
      /\ SemanticEvidencePolicy.unresolved_semantics_risk_unit \in Nat
      /\ SemanticEvidencePolicy.ambiguous_ownership_risk_unit \in Nat
      /\ SemanticEvidencePolicy.divergent_call_target_risk_floor \in Nat
  BY PolicyAssumption, FieldsAssumption
<1>. DEFINE Unit(count, unit) == IF count > 0 THEN unit ELSE 0
            u == SemanticEvidencePolicy
            a == Unit(e.declaration_only_count, u.declaration_surface_risk_unit)
            b == Unit(e.unresolved_item_count, u.unresolved_semantics_risk_unit)
            c == Unit(e.ambiguous_ownership_count, u.ambiguous_ownership_risk_unit)
            d == Unit(e.divergent_call_target_pair_count, u.divergent_call_target_risk_floor)
            p == Unit(f.declaration_only_count, u.declaration_surface_risk_unit)
            q == Unit(f.unresolved_item_count, u.unresolved_semantics_risk_unit)
            r == Unit(f.ambiguous_ownership_count, u.ambiguous_ownership_risk_unit)
            s == Unit(f.divergent_call_target_pair_count, u.divergent_call_target_risk_floor)
<1>2. a \in Nat /\ p \in Nat /\ a <= p
  BY <1>1 DEF Untied, Doubts
<1>3. b \in Nat /\ q \in Nat /\ b <= q
  BY <1>1 DEF Untied, Doubts
<1>4. c \in Nat /\ r \in Nat /\ c <= r
  BY <1>1 DEF Untied, Doubts
<1>5. d \in Nat /\ s \in Nat /\ d <= s
  BY <1>1 DEF Untied, Doubts
<1>6. /\ ProviderRisk(e) = Smaller(One, Larger(a + b + c, d))
      /\ ProviderRisk(f) = Smaller(One, Larger(p + q + r, s))
  BY DEF ProviderRisk
<1>. HIDE DEF a, b, c, d, p, q, r, s
<1>. QED BY <1>2, <1>3, <1>4, <1>5, <1>6 DEF Smaller, Larger, One

(* A doubt raises the risk.                                                  *)
LEMMA RiskGrows ==
  ASSUME NEW m, NEW o, SameMetrics(m, o), m.lead_risk_score \in Nat,
         Untied(m.semantic_evidence), Untied(o.semantic_evidence),
         Doubts(m.semantic_evidence, o.semantic_evidence),
         NEW risks, IsFiniteSet(risks)
  PROVE  /\ Risk(m, risks).score <= Risk(o, risks).score
         /\ Risk(m, risks).score \in 0..One /\ Risk(o, risks).score \in 0..One
         /\ Risk(o, risks).band \in {"none", "low"} => Risk(m, risks).band \in {"none", "low"}
<1>. DEFINE units == Cardinality(risks) + (IF m.cluster_scope = "same_language" THEN 0 ELSE 1)
            relation == IF m.lead_risk_score > 0 THEN m.lead_risk_score
                        ELSE Smaller(One, units * RiskUnit)
            x == Larger(relation, ProviderRisk(m.semantic_evidence))
            y == Larger(relation, ProviderRisk(o.semantic_evidence))
            high == AssessmentPolicy.risk_block_threshold
            medium == AssessmentPolicy.risk_cautious_threshold
<1>1. units \in Nat
  BY FS_CardinalityType
<1>. HIDE DEF units
<1>2. relation \in Nat
  BY <1>1 DEF Smaller, One, RiskUnit
<1>. DEFINE p == ProviderRisk(m.semantic_evidence)
            q == ProviderRisk(o.semantic_evidence)
<1>3. p <= q /\ p \in Nat /\ q \in Nat
  BY ProviderRiskGrows
<1>. HIDE DEF p, q, relation
<1>4. x \in Int /\ y \in Int /\ x <= y
  BY <1>2, <1>3 DEF Larger, p, q
<1>5. Risk(m, risks) = [score |-> Clamp(x), band |-> Band(x, high, medium)]
  BY DEF Risk, relation, units
<1>6. Risk(o, risks) = [score |-> Clamp(y), band |-> Band(y, high, medium)]
  BY DEF Risk, relation, units, SameMetrics
<1>7. high \in Nat /\ medium \in Nat
  BY PolicyAssumption, FieldsAssumption
<1>. HIDE DEF x, y, high, medium
<1>8. Clamp(x) <= Clamp(y) /\ Clamp(x) \in 0..One /\ Clamp(y) \in 0..One
  BY <1>4, ClampGrows, ClampNat
<1>9. Band(y, high, medium) \in {"none", "low"} => Band(x, high, medium) \in {"none", "low"}
  BY <1>4, <1>7, BandGrows
<1>. QED BY <1>5, <1>6, <1>8, <1>9

(* The evidence of a doubt: no score but that of the risk reads it.          *)
DoubtClasses ==
  {"semantic_declaration_surface", "semantic_unresolved", "semantic_ambiguous_ownership"}

LEMMA SameEvidence ==
  ASSUME NEW d, NEW o, Doubted(d, o), NEW class, class \notin DoubtClasses
  PROVE  class \in EvidenceClasses(d) <=> class \in EvidenceClasses(o)
<1>1. /\ d.metrics.duplicate_block_count = o.metrics.duplicate_block_count
      /\ d.evidence_kinds = o.evidence_kinds /\ d.basis = o.basis
      /\ d.has_signature_overlap = o.has_signature_overlap
  BY DEF Doubted, SameMetrics
<1>2. /\ ~(d.metrics.semantic_evidence.shared_call_target_pair_count > 0)
      /\ ~(d.metrics.semantic_evidence.same_overload_group_pair_count > 0)
      /\ ~(o.metrics.semantic_evidence.shared_call_target_pair_count > 0)
      /\ ~(o.metrics.semantic_evidence.same_overload_group_pair_count > 0)
  BY DEF Doubted, Untied
<1>. DEFINE Of(x) ==
       {BasisClass[label] : label \in x.basis \cap DOMAIN BasisClass}
<1>3. Of(d) = Of(o)
  BY <1>1
<1>. HIDE DEF Of
<1>. QED BY <1>1, <1>2, <1>3 DEF EvidenceClasses, If, DoubtClasses, Of

LEMMA SameMeasures ==
  ASSUME NEW m, NEW o, SameMetrics(m, o)
  PROVE  /\ EditableSkeleton(m) <=> EditableSkeleton(o)
         /\ CleanClone(m) <=> CleanClone(o)
         /\ ExactEvidence(m) <=> ExactEvidence(o)
         /\ SubstantialBlock(m) <=> SubstantialBlock(o)
         /\ MixedRoles(m) <=> MixedRoles(o)
         /\ \A kinds : HasKind(m, kinds) <=> HasKind(o, kinds)
         /\ RelationCommonality(m) = RelationCommonality(o)
         /\ RelationQuality(m) = RelationQuality(o)
<1>1. \A kinds : HasKind(m, kinds) <=> HasKind(o, kinds)
  BY DEF HasKind, SameMetrics
<1>2. EditableSkeleton(m) <=> EditableSkeleton(o)
  BY <1>1 DEF EditableSkeleton, SameMetrics
<1>3. CleanClone(m) <=> CleanClone(o)
  BY <1>1, <1>2 DEF CleanClone, SameMetrics
<1>4. ExactEvidence(m) <=> ExactEvidence(o)
  BY DEF ExactEvidence, SameMetrics
<1>5. SubstantialBlock(m) <=> SubstantialBlock(o)
  BY DEF SubstantialBlock, SameMetrics
<1>6. MixedRoles(m) <=> MixedRoles(o)
  BY DEF MixedRoles, SameMetrics
<1>7. RelationCommonality(m) = RelationCommonality(o)
  BY DEF RelationCommonality, SameMetrics
<1>8. RelationQuality(m) = RelationQuality(o)
  BY DEF RelationQuality, SameMetrics
<1>. QED BY <1>1, <1>2, <1>3, <1>4, <1>5, <1>6, <1>7, <1>8

LEMMA SameDetection ==
  ASSUME NEW m, NEW o, SameMetrics(m, o), NEW e, NEW f,
         \A class : class \notin DoubtClasses => (class \in e <=> class \in f)
  PROVE  Detection(m, e) = Detection(o, f)
<1>1. StructuralSupport \cap e = StructuralSupport \cap f
  BY DEF StructuralSupport, DoubtClasses
<1>2. RelationConfidence(m, e) = RelationConfidence(o, f)
  BY <1>1 DEF RelationConfidence, SameMetrics
<1>. DEFINE three == {"call_fingerprint_overlap", "parameter_use_similarity",
                      "local_dataflow_similarity"}
<1>3. three \cap e = three \cap f
  BY DEF DoubtClasses
<1>4. WrapperConfidence(e) = WrapperConfidence(f)
  BY <1>3 DEF WrapperConfidence
<1>5. "argument_normalization_wrapper" \in e <=> "argument_normalization_wrapper" \in f
  BY DEF DoubtClasses
<1>. QED BY <1>2, <1>4, <1>5 DEF Detection, SameMetrics

LEMMA SameFit ==
  ASSUME NEW m, NEW o, SameMetrics(m, o),
         Untied(m.semantic_evidence), Untied(o.semantic_evidence), NEW e, NEW f,
         \A class : class \notin DoubtClasses => (class \in e <=> class \in f)
  PROVE  Fit(m, e) = Fit(o, f) /\ (HolesMeasured(m, e) <=> HolesMeasured(o, f))
<1>1. ~SharedImplementation(m) /\ ~SharedImplementation(o)
  BY DEF SharedImplementation, Untied
<1>2. HolesMeasured(m, e) <=> HolesMeasured(o, f)
  BY DEF HolesMeasured, SameMetrics, DoubtClasses
<1>3. /\ EditableSkeleton(m) <=> EditableSkeleton(o)
      /\ ExactEvidence(m) <=> ExactEvidence(o)
      /\ RelationCommonality(m) = RelationCommonality(o)
  BY SameMeasures
<1>4. Commonality(m) = Commonality(o)
  <2>. DEFINE Anchor(condition, value) == IF condition THEN value ELSE 0
              Values(x) ==
                {x.lead_refactorability_score,
                 Anchor(x.body_hash_match_count > 0, FitPolicy.body_hash_commonality),
                 Anchor(x.duplicate_block_count + x.structural_duplicate_pair_count > 0,
                        FitPolicy.structural_duplicate_commonality),
                 Anchor(x.policy_constant_duplicate_count > 0,
                        FitPolicy.policy_constant_commonality),
                 RelationCommonality(x),
                 Anchor(x.member_count >= FitPolicy.recurrence_starts_at_members,
                        FitPolicy.signature_only_commonality)}
              Stable(x) == Ramp(x.lead_stable_statement_count,
                                FitPolicy.stable_region_medium_at - 1,
                                FitPolicy.stable_region_high_at)
              Of(x, base) ==
                LET boosted == IF SharedImplementation(x)
                               THEN Clamp(base + FitPolicy.semantic_shared_implementation_boost)
                               ELSE base
                IN  IF ExactEvidence(x) THEN Clamp(Larger(boosted, Stable(x)))
                    ELSE IF x.structural_relation_pair_count > 0
                    THEN Clamp(Mul(boosted, Larger(FitPolicy.weak_region_multiplier, Stable(x))))
                    ELSE Clamp(boosted)
  <2>1. \A x : Commonality(x) = Of(x, Max(Values(x)))
    BY DEF Commonality
  <2>2. Values(m) = Values(o)
    BY <1>3 DEF SameMetrics
  <2>3. Stable(m) = Stable(o)
    BY DEF SameMetrics
  <2>. HIDE DEF Values, Stable
  <2>4. \A base : Of(m, base) = Of(o, base)
    BY <1>1, <1>3, <2>3 DEF SameMetrics
  <2>. HIDE DEF Of
  <2>. QED BY <2>1, <2>2, <2>4
<1>5. Simplicity(m, e) = Simplicity(o, f)
  BY <1>2, <1>3 DEF Simplicity, SameMetrics
<1>6. FitCap(m) = FitCap(o)
  BY <1>3 DEF FitCap, SameMetrics
<1>7. Clamp(m.lead_abstraction_cost_score) = Clamp(o.lead_abstraction_cost_score)
  BY DEF SameMetrics
<1>8. Fit(m, e) = Fit(o, f)
  <2>. DEFINE Scored(common, simple, cap, cost) ==
                LET raw == Mul(Mul(common, Larger(1500, simple)), Larger(2000, One - cost))
                    score == Clamp(Smaller(raw, cap))
                IN  [score |-> score, cost |-> cost,
                     band |-> Band(score, AssessmentPolicy.fit_high_threshold,
                                   AssessmentPolicy.fit_medium_threshold)]
  <2>1. /\ Fit(m, e) = Scored(Commonality(m), Simplicity(m, e), FitCap(m),
                              Clamp(m.lead_abstraction_cost_score))
        /\ Fit(o, f) = Scored(Commonality(o), Simplicity(o, f), FitCap(o),
                              Clamp(o.lead_abstraction_cost_score))
    BY DEF Fit
  <2>. HIDE DEF Scored
  <2>. QED BY <1>4, <1>5, <1>6, <1>7, <2>1
<1>. QED BY <1>2, <1>8

LEMMA SamePayoff ==
  ASSUME NEW d, NEW o, Doubted(d, o)
  PROVE  Payoff(d) = Payoff(o) /\ EffectiveRisks(d) = EffectiveRisks(o)
         /\ EffectiveActions(d) = EffectiveActions(o)
<1>1. SameMetrics(d.metrics, o.metrics) /\ d.line_span = o.line_span /\ d.files = o.files
      /\ d.file_roles = o.file_roles /\ d.abstraction_risks = o.abstraction_risks
      /\ d.actions = o.actions
  BY DEF Doubted
<1>. DEFINE m == d.metrics
            p == o.metrics
<1>2. RelationQuality(m) = RelationQuality(p)
  BY <1>1, SameMeasures
<1>3. /\ m.member_count = p.member_count /\ m.duplicate_block_count = p.duplicate_block_count
      /\ m.duplicate_block_line_count = p.duplicate_block_line_count
      /\ m.lead_confidence_score = p.lead_confidence_score
      /\ m.lead_refactorability_score = p.lead_refactorability_score
      /\ m.cluster_scope = p.cluster_scope
  BY <1>1 DEF SameMetrics
<1>. HIDE DEF m, p
<1>4. Payoff(d) = Payoff(o)
  BY <1>1, <1>2, <1>3, Zenon DEF Payoff, m, p
<1>5. EffectiveRisks(d) = EffectiveRisks(o)
  <2>1. /\ d.metrics.lead_confidence_score = o.metrics.lead_confidence_score
        /\ d.metrics.lead_refactorability_score = o.metrics.lead_refactorability_score
    BY <1>3 DEF m, p
  <2>. QED BY <1>1, <2>1 DEF EffectiveRisks
<1>6. EffectiveActions(d) = EffectiveActions(o)
  BY <1>1, <1>3, Zenon DEF EffectiveActions, m, p
<1>. QED BY <1>4, <1>5, <1>6

LEMMA SomeApplying ==
  ASSUME NEW applying \in SUBSET (1..13), applying # {}
  PROVE  Min(applying) \in 1..13
<1>1. IsFiniteSet(1..13)
  <2>. DEFINE last == 13
  <2>1. 1 \in Int /\ last \in Int
    OBVIOUS
  <2>. HIDE DEF last
  <2>2. IsFiniteSet(1..last)
    BY <2>1, FS_Interval, Zenon
  <2>. QED BY <2>2, Zenon DEF last
<1>2. IsFiniteSet(applying)
  BY <1>1, FS_Subset
<1>3. applying \in SUBSET Nat
  OBVIOUS
<1>4. \E j \in applying : \A k \in applying : j <= k
  BY <1>2, <1>3, LeastNumber
<1>. QED BY <1>4 DEF Min

(* No cap reads what the provider said.                                      *)
LEMMA SameCap ==
  ASSUME NEW m, NEW o, SameMetrics(m, o)
  PROVE  SemanticCap(m) = SemanticCap(o)
<1>1. /\ \A role : RoleCount(m, role) = RoleCount(o, role)
      /\ \A n : MostMembers(m, n) <=> MostMembers(o, n)
  BY DEF RoleCount, MostMembers, SameMetrics
<1>2. \A roles : MaxRoleCount(m, roles) = MaxRoleCount(o, roles)
  BY <1>1 DEF MaxRoleCount
<1>3. /\ \A counts : Dominates(m, counts) <=> Dominates(o, counts)
      /\ \A counts : DominantDuplicates(m, counts) <=> DominantDuplicates(o, counts)
  BY <1>1 DEF Dominates, DominantDuplicates, SameMetrics
<1>4. SurfaceCap(m) = SurfaceCap(o)
  BY DEF SurfaceCap, SubstantialSharedLogic, SameMetrics
<1>5. ApiSurfaceCap(m) = ApiSurfaceCap(o)
  BY <1>1, <1>4 DEF ApiSurfaceCap
<1>6. BroadParent(m) <=> BroadParent(o)
  BY <1>1 DEF BroadParent, SameMetrics
<1>7. InTests(m) <=> InTests(o)
  BY <1>3 DEF InTests, SameMetrics
<1>8. CleanTestHelper(m) <=> CleanTestHelper(o)
  BY SameMeasures DEF CleanTestHelper, SameMetrics
<1>9. m.guardrails = o.guardrails /\ m.member_count = o.member_count
      /\ m.max_body_line_count = o.max_body_line_count
  BY DEF SameMetrics
<1>10. \A k \in 1..13 : /\ CapRules(m)[k].holds <=> CapRules(o)[k].holds
                        /\ CapRules(m)[k].cap = CapRules(o)[k].cap
  <2>. DEFINE Same(k) == /\ CapRules(m)[k].holds <=> CapRules(o)[k].holds
                         /\ CapRules(m)[k].cap = CapRules(o)[k].cap
  <2>1. /\ CapRules(m)[1].holds <=> CapRules(o)[1].holds
        /\ CapRules(m)[1].cap = CapRules(o)[1].cap
    BY <1>2, <1>3, <1>9 DEF CapRules
  <2>2. Same(2) /\ Same(3) /\ Same(4)
    BY <1>1, <1>2, <1>3, <1>6, <1>9 DEF CapRules
  <2>3. Same(5) /\ Same(6)
    BY <1>3, <1>7, <1>8, <1>9 DEF CapRules
  <2>4. Same(7) /\ Same(8) /\ Same(9) /\ Same(10)
    BY <1>3, <1>4, <1>5, <1>9 DEF CapRules
  <2>5. Same(11) /\ Same(12) /\ Same(13)
    BY <1>1, <1>3, <1>9 DEF CapRules
  <2>6. Same(1)
    BY <2>1
  <2>. HIDE DEF Same
  <2>7. \A k \in 1..13 : Same(k)
    BY <2>2, <2>3, <2>4, <2>5, <2>6
  <2>. QED BY <2>7 DEF Same
<1>. DEFINE x == CapRules(m)
            y == CapRules(o)
<1>11. DOMAIN x = 1..13 /\ DOMAIN y = 1..13
  BY DEF CapRules
<1>. DEFINE a == {i \in DOMAIN x : x[i].holds}
            b == {i \in DOMAIN y : y[i].holds}
<1>12. /\ SemanticCap(m) = IF a = {} THEN Cap("recommended_edit") ELSE x[Min(a)].cap
       /\ SemanticCap(o) = IF b = {} THEN Cap("recommended_edit") ELSE y[Min(b)].cap
  BY DEF SemanticCap
<1>13. \A k \in 1..13 : (x[k].holds <=> y[k].holds) /\ x[k].cap = y[k].cap
  BY <1>10
<1>. HIDE DEF x, y
<1>14. a = b /\ a \in SUBSET (1..13)
  BY <1>11, <1>13
<1>. HIDE DEF a, b
<1>15. a # {} => Min(a) \in 1..13
  BY <1>14, SomeApplying
<1>. QED BY <1>12, <1>13, <1>14, <1>15

-----------------------------------------------------------------------------
(* Gates that a doubt closes were open before it.                            *)

Eases(g, h) == DOMAIN g = DOMAIN h /\ \A gate \in DOMAIN h : h[gate] => g[gate]

LEMMA AlsoEases ==
  ASSUME NEW first, NEW other, Eases(first, other), NEW g, NEW h, Eases(g, h)
  PROVE  Eases(Also(first, g), Also(other, h))
<1>1. /\ DOMAIN first = DOMAIN other /\ DOMAIN g = DOMAIN h
      /\ \A gate \in DOMAIN other : other[gate] => first[gate]
      /\ \A gate \in DOMAIN h : h[gate] => g[gate]
  BY Zenon DEF Eases
<1>2. /\ DOMAIN Also(first, g) = DOMAIN first \cup DOMAIN g
      /\ DOMAIN Also(other, h) = DOMAIN other \cup DOMAIN h
  BY DEF Also
<1>3. ASSUME NEW gate \in DOMAIN Also(other, h), Also(other, h)[gate]
      PROVE  Also(first, g)[gate]
  <2>1. CASE gate \in DOMAIN other
    <3>1. Also(other, h)[gate] = other[gate] /\ Also(first, g)[gate] = first[gate]
      BY <1>1, <1>2, <2>1 DEF Also
    <3>. QED BY <1>1, <1>3, <2>1, <3>1, Zenon
  <2>2. CASE gate \notin DOMAIN other
    <3>1. gate \in DOMAIN h
      BY <1>2, <2>2
    <3>2. Also(other, h)[gate] = h[gate] /\ Also(first, g)[gate] = g[gate]
      BY <1>1, <1>2, <2>2, <3>1 DEF Also
    <3>. QED BY <1>1, <1>3, <3>1, <3>2, Zenon
  <2>. QED BY <2>1, <2>2
<1>4. DOMAIN Also(first, g) = DOMAIN Also(other, h)
  BY <1>1, <1>2
<1>. QED BY <1>3, <1>4, Zenon DEF Eases

LEMMA EasedPass ==
  ASSUME NEW g, NEW h, Eases(g, h), Failed(h) = {}
  PROVE  Failed(g) = {} /\ Passed(g) = Passed(h)
<1>1. \A gate \in DOMAIN h : h[gate]
  BY Zenon DEF Failed
<1>2. DOMAIN g = DOMAIN h /\ \A gate \in DOMAIN h : g[gate]
  BY <1>1, Zenon DEF Eases
<1>. QED BY <1>1, <1>2, Zenon DEF Failed, Passed

(* The scores of a draft before a doubt and after.                           *)
Eased(s, t) ==
  /\ s.detection = t.detection /\ s.fit = t.fit /\ s.payoff = t.payoff
  /\ s.detection.score \in Nat /\ s.fit.score \in Nat /\ s.payoff.score \in Nat
  /\ s.fit.cost \in 0..One
  /\ s.risk.score \in 0..One /\ t.risk.score \in 0..One
  /\ s.risk.score <= t.risk.score
  /\ t.risk.band \in {"none", "low"} => s.risk.band \in {"none", "low"}
  /\ \A class : class \notin DoubtClasses => (class \in s.evidence <=> class \in t.evidence)

LEMMA ScoresEased ==
  ASSUME NEW d, NEW o, Doubted(d, o)
  PROVE  Eased(Scores(d), Scores(o))
<1>. DEFINE m == d.metrics
            p == o.metrics
            e == EvidenceClasses(d)
            f == EvidenceClasses(o)
            risks == EffectiveRisks(d)
<1>1. /\ SameMetrics(m, p) /\ Untied(m.semantic_evidence) /\ Untied(p.semantic_evidence)
      /\ Doubts(m.semantic_evidence, p.semantic_evidence) /\ m.lead_risk_score \in Nat
      /\ IsFiniteSet(d.abstraction_risks)
  BY DEF Doubted
<1>2. \A class : class \notin DoubtClasses => (class \in e <=> class \in f)
  BY SameEvidence
<1>3. Payoff(d) = Payoff(o) /\ EffectiveRisks(d) = EffectiveRisks(o)
  BY SamePayoff
<1>4. IsFiniteSet(risks)
  BY <1>1, FS_Subset DEF EffectiveRisks
<1>5. /\ Scores(d) = [evidence |-> e, detection |-> Detection(m, e), fit |-> Fit(m, e),
                      risk |-> Risk(m, risks), payoff |-> Payoff(d)]
      /\ Scores(o) = [evidence |-> f, detection |-> Detection(p, f), fit |-> Fit(p, f),
                      risk |-> Risk(p, risks), payoff |-> Payoff(o)]
  BY <1>3, Zenon DEF Scores
<1>. HIDE DEF m, p, e, f, risks
<1>6. Detection(m, e) = Detection(p, f)
  BY <1>1, <1>2, SameDetection
<1>7. Fit(m, e) = Fit(p, f)
  BY <1>1, <1>2, SameFit
<1>8. /\ Risk(m, risks).score <= Risk(p, risks).score
      /\ Risk(m, risks).score \in 0..One /\ Risk(p, risks).score \in 0..One
      /\ Risk(p, risks).band \in {"none", "low"} => Risk(m, risks).band \in {"none", "low"}
  BY <1>1, <1>4, RiskGrows
<1>9. Detection(m, e).score \in Nat
  BY ClampNat DEF Detection
<1>10. Fit(m, e).score \in Nat /\ Fit(m, e).cost \in 0..One
  BY ClampNat DEF Fit
<1>11. Payoff(d).score \in Nat
  <2>1. \A roles : Exposure(roles).cap \in Nat
    BY PolicyAssumption, FieldsAssumption DEF Exposure, One
  <2>. QED BY <2>1, ClampNat DEF Payoff, Smaller
<1>. QED BY <1>2, <1>3, <1>5, <1>6, <1>7, <1>8, <1>9, <1>10, <1>11 DEF Eased

LEMMA RiskLimits ==
  ASSUME NEW s, NEW t, Eased(s, t)
  PROVE  /\ \A n \in Nat : /\ t.risk.score <= n => s.risk.score <= n
                           /\ t.risk.score < n => s.risk.score < n
         /\ ActionGates.low_clone_risk \in Nat /\ ActionGates.low_helper_risk \in Nat
         /\ ActionGates.low_introduction_risk \in Nat
         /\ AssessmentPolicy.risk_block_threshold \in Nat
         /\ AssessmentPolicy.risk_cautious_threshold \in Nat
         /\ AssessmentPolicy.recommended_edit_threshold \in Nat
         /\ AssessmentPolicy.review_candidate_threshold \in Nat
<1>. DEFINE x == s.risk.score
            y == t.risk.score
<1>1. x \in Int /\ y \in Int /\ x <= y
  <2>1. x \in 0..One /\ y \in 0..One /\ x <= y
    BY Zenon DEF Eased
  <2>. HIDE DEF x, y
  <2>. QED BY <2>1 DEF One
<1>2. /\ ActionGates.low_clone_risk \in Nat /\ ActionGates.low_helper_risk \in Nat
      /\ ActionGates.low_introduction_risk \in Nat
  BY DEF ActionGates
<1>3. /\ AssessmentPolicy.risk_block_threshold \in Nat
      /\ AssessmentPolicy.risk_cautious_threshold \in Nat
      /\ AssessmentPolicy.recommended_edit_threshold \in Nat
      /\ AssessmentPolicy.review_candidate_threshold \in Nat
  <2>1. \A field \in DOMAIN AssessmentPolicy : AssessmentPolicy[field] \in Nat
    BY PolicyAssumption
  <2>. QED BY <2>1, FieldsAssumption
<1>. HIDE DEF x, y
<1>4. \A n \in Nat : (y <= n => x <= n) /\ (y < n => x < n)
  BY <1>1
<1>. QED BY <1>2, <1>3, <1>4 DEF x, y

LEMMA ConsolidateEases ==
  ASSUME NEW m, NEW o, SameMetrics(m, o), NEW s, NEW t, Eased(s, t)
  PROVE  Eases(ConsolidateGates(m, s.risk, s.fit), ConsolidateGates(o, t.risk, t.fit))
<1>. DEFINE g == ConsolidateGates(m, s.risk, s.fit)
            h == ConsolidateGates(o, t.risk, t.fit)
<1>1. /\ CleanClone(m) <=> CleanClone(o)
      /\ MixedRoles(m) <=> MixedRoles(o)
  BY SameMeasures
<1>2. /\ s.fit.cost = t.fit.cost
      /\ t.risk.score <= ActionGates.low_clone_risk => s.risk.score <= ActionGates.low_clone_risk
  BY RiskLimits DEF Eased
<1>3. /\ m.body_hash_match_count = o.body_hash_match_count
      /\ m.lead_tree_similarity = o.lead_tree_similarity
  BY DEF SameMetrics
<1>. DEFINE names == {"clean_clone_relation", "body_hash_or_near_identical_tree",
                      "low_semantic_risk", "low_abstraction_cost", "same_role_semantics"}
<1>4. DOMAIN g = names /\ DOMAIN h = names
  <2>1. \A x, risk, fit : DOMAIN ConsolidateGates(x, risk, fit) = names
    BY DEF ConsolidateGates
  <2>. QED BY <2>1
<1>5. /\ g["clean_clone_relation"] <=> CleanClone(m)
      /\ h["clean_clone_relation"] <=> CleanClone(o)
  BY Zenon DEF ConsolidateGates
<1>6. /\ g["body_hash_or_near_identical_tree"] =
           (\/ m.body_hash_match_count > 0
            \/ m.lead_tree_similarity >= ActionGates.near_identical_tree_similarity)
      /\ h["body_hash_or_near_identical_tree"] =
           (\/ o.body_hash_match_count > 0
            \/ o.lead_tree_similarity >= ActionGates.near_identical_tree_similarity)
  BY Zenon DEF ConsolidateGates
<1>7. /\ g["low_semantic_risk"] = (s.risk.score <= ActionGates.low_clone_risk)
      /\ h["low_semantic_risk"] = (t.risk.score <= ActionGates.low_clone_risk)
  BY Zenon DEF ConsolidateGates
<1>8. /\ g["low_abstraction_cost"] = (s.fit.cost <= ActionGates.clean_clone_cost)
      /\ h["low_abstraction_cost"] = (t.fit.cost <= ActionGates.clean_clone_cost)
  BY Zenon DEF ConsolidateGates
<1>9. /\ g["same_role_semantics"] <=> ~MixedRoles(m)
      /\ h["same_role_semantics"] <=> ~MixedRoles(o)
  BY Zenon DEF ConsolidateGates
<1>. HIDE DEF g, h
<1>10. \A gate \in names : h[gate] => g[gate]
  <2>1. h["clean_clone_relation"] => g["clean_clone_relation"]
    BY <1>1, <1>5
  <2>2. h["body_hash_or_near_identical_tree"] => g["body_hash_or_near_identical_tree"]
    BY <1>3, <1>6, Zenon
  <2>3. h["low_semantic_risk"] => g["low_semantic_risk"]
    BY <1>2, <1>7, Zenon
  <2>4. h["low_abstraction_cost"] => g["low_abstraction_cost"]
    BY <1>2, <1>8, Zenon
  <2>5. h["same_role_semantics"] => g["same_role_semantics"]
    BY <1>1, <1>9
  <2>. QED BY <2>1, <2>2, <2>3, <2>4, <2>5, Zenon
<1>. HIDE DEF names
<1>11. Eases(g, h)
  BY <1>4, <1>10, Zenon DEF Eases
<1>. QED BY <1>11 DEF g, h

LEMMA SameNormalizes ==
  ASSUME NEW m, NEW o, SameMetrics(m, o), NEW s, NEW t, Eased(s, t)
  PROVE  NormalizesArguments(m, s.evidence) <=> NormalizesArguments(o, t.evidence)
<1>1. "argument_normalization_wrapper" \in s.evidence
        <=> "argument_normalization_wrapper" \in t.evidence
  BY DEF Eased, DoubtClasses
<1>2. HasKind(m, {"argument_normalization_wrapper"})
        <=> HasKind(o, {"argument_normalization_wrapper"})
  BY SameMeasures
<1>. QED BY <1>1, <1>2 DEF NormalizesArguments

(* Each kind of edit: its gates after a doubt, and without it.               *)
LEMMA ExtractEases ==
  ASSUME NEW m, NEW o, SameMetrics(m, o), NEW s, NEW t, Eased(s, t), NEW given
  PROVE  Eases(ExtractGates(m, s.evidence, given, s.risk, s.fit),
               ExtractGates(o, t.evidence, given, t.risk, t.fit))
<1>. DEFINE local(x) == x.duplicate_block_count > 0
            first(x) == IF local(x) THEN [intra_function_duplicate_block |-> TRUE] ELSE <<>>
            own(x, r) ==
              [substantial_local_duplicate_block |-> local(x) => SubstantialBlock(x),
               argument_normalization_detected |->
                 local(x) \/ NormalizesArguments(x, r.evidence),
               same_downstream_operation |->
                 local(x) \/ "shared_operation_after_argument_normalization" \in given,
               small_common_body |->
                 x.max_body_line_count \in 1..ActionGates.max_small_helper_lines,
               low_public_api_cost |-> r.fit.cost <= ActionGates.low_public_api_cost,
               low_semantic_risk |-> r.risk.score <= ActionGates.low_helper_risk]
            names == {"substantial_local_duplicate_block", "argument_normalization_detected",
                      "same_downstream_operation", "small_common_body", "low_public_api_cost",
                      "low_semantic_risk"}
            g == own(m, s)
            h == own(o, t)
<1>1. /\ ExtractGates(m, s.evidence, given, s.risk, s.fit) = Also(first(m), g)
      /\ ExtractGates(o, t.evidence, given, t.risk, t.fit) = Also(first(o), h)
  BY Zenon DEF ExtractGates
<1>2. /\ local(m) <=> local(o)
      /\ m.max_body_line_count = o.max_body_line_count
  BY DEF SameMetrics
<1>3. /\ SubstantialBlock(m) <=> SubstantialBlock(o)
      /\ NormalizesArguments(m, s.evidence) <=> NormalizesArguments(o, t.evidence)
  BY SameMeasures, SameNormalizes
<1>4. /\ s.fit.cost = t.fit.cost
      /\ t.risk.score <= ActionGates.low_helper_risk => s.risk.score <= ActionGates.low_helper_risk
  BY RiskLimits DEF Eased
<1>5. Eases(first(m), first(o))
  <2>1. first(m) = first(o)
    <3>. HIDE DEF local
    <3>. QED BY <1>2
  <2>. QED BY <2>1 DEF Eases
<1>6. DOMAIN g = names /\ DOMAIN h = names
  OBVIOUS
<1>7. /\ g["substantial_local_duplicate_block"] <=> (local(m) => SubstantialBlock(m))
      /\ h["substantial_local_duplicate_block"] <=> (local(o) => SubstantialBlock(o))
  BY Zenon
<1>8. /\ g["argument_normalization_detected"] <=>
           (local(m) \/ NormalizesArguments(m, s.evidence))
      /\ h["argument_normalization_detected"] <=>
           (local(o) \/ NormalizesArguments(o, t.evidence))
  BY Zenon
<1>9. /\ g["same_downstream_operation"] <=>
           (local(m) \/ "shared_operation_after_argument_normalization" \in given)
      /\ h["same_downstream_operation"] <=>
           (local(o) \/ "shared_operation_after_argument_normalization" \in given)
  BY Zenon
<1>10. /\ g["small_common_body"] <=>
            m.max_body_line_count \in 1..ActionGates.max_small_helper_lines
       /\ h["small_common_body"] <=>
            o.max_body_line_count \in 1..ActionGates.max_small_helper_lines
  BY Zenon
<1>11. /\ g["low_public_api_cost"] <=> s.fit.cost <= ActionGates.low_public_api_cost
       /\ h["low_public_api_cost"] <=> t.fit.cost <= ActionGates.low_public_api_cost
  BY Zenon
<1>12. /\ g["low_semantic_risk"] <=> s.risk.score <= ActionGates.low_helper_risk
       /\ h["low_semantic_risk"] <=> t.risk.score <= ActionGates.low_helper_risk
  BY Zenon
<1>. HIDE DEF g, h, local, first
<1>13. \A gate \in names : h[gate] => g[gate]
  <2>1. h["substantial_local_duplicate_block"] => g["substantial_local_duplicate_block"]
    BY <1>2, <1>3, <1>7
  <2>2. h["argument_normalization_detected"] => g["argument_normalization_detected"]
    BY <1>2, <1>3, <1>8
  <2>3. h["same_downstream_operation"] => g["same_downstream_operation"]
    BY <1>2, <1>9
  <2>4. h["small_common_body"] => g["small_common_body"]
    BY <1>2, <1>10, Zenon
  <2>5. h["low_public_api_cost"] => g["low_public_api_cost"]
    BY <1>4, <1>11, Zenon
  <2>6. h["low_semantic_risk"] => g["low_semantic_risk"]
    BY <1>4, <1>12, Zenon
  <2>. QED BY <2>1, <2>2, <2>3, <2>4, <2>5, <2>6, Zenon
<1>. HIDE DEF names
<1>14. Eases(g, h)
  BY <1>6, <1>13, Zenon DEF Eases
<1>15. Eases(Also(first(m), g), Also(first(o), h))
  BY <1>5, <1>14, AlsoEases
<1>. QED BY <1>1, <1>15

LEMMA ReuseEases ==
  ASSUME NEW m, NEW o, SameMetrics(m, o), NEW s, NEW t, Eased(s, t), NEW given
  PROVE  Eases(ReuseGates(m, s.evidence, given, s.risk, s.fit),
               ReuseGates(o, t.evidence, given, t.risk, t.fit))
<1>. DEFINE g == ReuseGates(m, s.evidence, given, s.risk, s.fit)
            h == ReuseGates(o, t.evidence, given, t.risk, t.fit)
            names == {"argument_normalization_detected", "same_downstream_operation",
                      "simple_argument_transform", "existing_helper_boundary",
                      "reviewable_semantic_risk", "bounded_abstraction_cost"}
<1>1. NormalizesArguments(m, s.evidence) <=> NormalizesArguments(o, t.evidence)
  BY SameNormalizes
<1>2. /\ s.fit.cost = t.fit.cost
      /\ t.risk.score < AssessmentPolicy.risk_block_threshold =>
           s.risk.score < AssessmentPolicy.risk_block_threshold
  <2>1. AssessmentPolicy.risk_block_threshold \in Nat
    BY RiskLimits
  <2>2. s.fit.cost = t.fit.cost
    BY DEF Eased
  <2>3. \A n \in Nat : t.risk.score < n => s.risk.score < n
    BY RiskLimits
  <2>. QED BY <2>1, <2>2, <2>3, Zenon
<1>3. DOMAIN g = names /\ DOMAIN h = names
  <2>1. \A x, e, risk, fit : DOMAIN ReuseGates(x, e, given, risk, fit) = names
    BY DEF ReuseGates
  <2>. HIDE DEF names
  <2>. QED BY <2>1, Zenon
<1>4. /\ g["argument_normalization_detected"] <=> NormalizesArguments(m, s.evidence)
      /\ h["argument_normalization_detected"] <=> NormalizesArguments(o, t.evidence)
  BY Zenon DEF ReuseGates
<1>5. g["same_downstream_operation"] = h["same_downstream_operation"]
  BY Zenon DEF ReuseGates
<1>6. g["simple_argument_transform"] = h["simple_argument_transform"]
  BY Zenon DEF ReuseGates
<1>7. g["existing_helper_boundary"] = h["existing_helper_boundary"]
  BY Zenon DEF ReuseGates
<1>8. /\ g["reviewable_semantic_risk"] = (s.risk.score < AssessmentPolicy.risk_block_threshold)
      /\ h["reviewable_semantic_risk"] = (t.risk.score < AssessmentPolicy.risk_block_threshold)
  BY Zenon DEF ReuseGates
<1>9. /\ g["bounded_abstraction_cost"] = (s.fit.cost < AssessmentPolicy.cost_block_threshold)
      /\ h["bounded_abstraction_cost"] = (t.fit.cost < AssessmentPolicy.cost_block_threshold)
  BY Zenon DEF ReuseGates
<1>. HIDE DEF g, h
<1>10. \A gate \in names : h[gate] => g[gate]
  <2>1. h["argument_normalization_detected"] => g["argument_normalization_detected"]
    BY <1>1, <1>4
  <2>2. h["same_downstream_operation"] => g["same_downstream_operation"]
    BY <1>5, Zenon
  <2>3. h["simple_argument_transform"] => g["simple_argument_transform"]
    BY <1>6, Zenon
  <2>4. h["existing_helper_boundary"] => g["existing_helper_boundary"]
    BY <1>7, Zenon
  <2>5. h["reviewable_semantic_risk"] => g["reviewable_semantic_risk"]
    BY <1>2, <1>8, Zenon
  <2>6. h["bounded_abstraction_cost"] => g["bounded_abstraction_cost"]
    BY <1>2, <1>9, Zenon
  <2>. QED BY <2>1, <2>2, <2>3, <2>4, <2>5, <2>6, Zenon
<1>. HIDE DEF names
<1>11. Eases(g, h)
  BY <1>3, <1>10, Zenon DEF Eases
<1>. QED BY <1>11 DEF g, h

LEMMA IntroduceEases ==
  ASSUME NEW m, NEW o, SameMetrics(m, o), NEW s, NEW t, Eased(s, t),
         Untied(m.semantic_evidence), Untied(o.semantic_evidence)
  PROVE  Eases(IntroduceGates(m, s.evidence, s.risk, s.fit),
               IntroduceGates(o, t.evidence, t.risk, t.fit))
<1>. DEFINE constant(x) == x.policy_constant_duplicate_count > 0
            measured(x, r) == constant(x) \/ HolesMeasured(x, r.evidence)
            own(x, r) ==
              [stable_common_region |->
                 constant(x) \/ x.lead_stable_statement_count >= ActionGates.min_common_region_size,
               low_hole_count |->
                 measured(x, r) /\ x.lead_hole_count <= ActionGates.max_introduction_holes,
               low_hole_complexity |->
                 measured(x, r) /\ x.lead_hole_size <= ActionGates.max_low_complexity_hole_size,
               low_branch_delta |-> Count(x.delta_kind_counts, "branch_delta") <= 1,
               low_semantic_risk |-> r.risk.score <= ActionGates.low_introduction_risk,
               bounded_abstraction_cost |-> r.fit.cost <= ActionGates.max_introduction_cost,
               clear_boundary_owner |->
                 \/ constant(x)
                 \/ /\ x.language_count <= 1 /\ x.adapter_count <= 1
                    /\ x.cluster_scope = "same_language"]
            names == {"stable_common_region", "low_hole_count", "low_hole_complexity",
                      "low_branch_delta", "low_semantic_risk", "bounded_abstraction_cost",
                      "clear_boundary_owner"}
            g == own(m, s)
            h == own(o, t)
<1>1. /\ IntroduceGates(m, s.evidence, s.risk, s.fit) = g
      /\ IntroduceGates(o, t.evidence, t.risk, t.fit) = h
  BY Zenon DEF IntroduceGates
<1>2. HolesMeasured(m, s.evidence) <=> HolesMeasured(o, t.evidence)
  BY SameFit DEF Eased
<1>3. /\ s.fit.cost = t.fit.cost
      /\ t.risk.score <= ActionGates.low_introduction_risk =>
           s.risk.score <= ActionGates.low_introduction_risk
  BY RiskLimits DEF Eased
<1>4. /\ constant(m) <=> constant(o)
      /\ m.lead_stable_statement_count = o.lead_stable_statement_count
      /\ m.lead_hole_count = o.lead_hole_count /\ m.lead_hole_size = o.lead_hole_size
      /\ m.delta_kind_counts = o.delta_kind_counts
      /\ m.language_count = o.language_count /\ m.adapter_count = o.adapter_count
      /\ m.cluster_scope = o.cluster_scope
  BY DEF SameMetrics
<1>5. DOMAIN g = names /\ DOMAIN h = names
  <2>1. \A x, r : DOMAIN own(x, r) = names
    <3>. HIDE DEF constant, measured
    <3>. QED OBVIOUS
  <2>. QED BY <2>1
<1>6. \A x, r : /\ own(x, r)["stable_common_region"] <=>
                     (\/ constant(x)
                      \/ x.lead_stable_statement_count >= ActionGates.min_common_region_size)
                /\ own(x, r)["low_hole_count"] <=>
                     (measured(x, r) /\ x.lead_hole_count <= ActionGates.max_introduction_holes)
                /\ own(x, r)["low_hole_complexity"] <=>
                     /\ measured(x, r)
                     /\ x.lead_hole_size <= ActionGates.max_low_complexity_hole_size
  <2>. HIDE DEF constant, measured, g, h, names
  <2>. QED BY Zenon
<1>7. \A x, r : /\ own(x, r)["low_branch_delta"] <=> Count(x.delta_kind_counts, "branch_delta") <= 1
                /\ own(x, r)["low_semantic_risk"] <=>
                     r.risk.score <= ActionGates.low_introduction_risk
                /\ own(x, r)["bounded_abstraction_cost"] <=>
                     r.fit.cost <= ActionGates.max_introduction_cost
                /\ own(x, r)["clear_boundary_owner"] <=>
                     (\/ constant(x)
                      \/ /\ x.language_count <= 1 /\ x.adapter_count <= 1
                         /\ x.cluster_scope = "same_language")
  <2>. HIDE DEF constant, measured, g, h, names
  <2>. QED BY Zenon
<1>8. measured(m, s) <=> measured(o, t)
  <2>. HIDE DEF constant
  <2>. QED BY <1>2, <1>4
<1>. HIDE DEF constant, measured, own
<1>9. \A gate \in names : h[gate] => g[gate]
  <2>1. h["stable_common_region"] => g["stable_common_region"]
    BY <1>4, <1>6
  <2>2. h["low_hole_count"] => g["low_hole_count"]
    BY <1>4, <1>6, <1>8
  <2>3. h["low_hole_complexity"] => g["low_hole_complexity"]
    BY <1>4, <1>6, <1>8
  <2>4. h["low_branch_delta"] => g["low_branch_delta"]
    BY <1>4, <1>7
  <2>5. h["low_semantic_risk"] => g["low_semantic_risk"]
    BY <1>3, <1>7
  <2>6. h["bounded_abstraction_cost"] => g["bounded_abstraction_cost"]
    BY <1>3, <1>7
  <2>7. h["clear_boundary_owner"] => g["clear_boundary_owner"]
    BY <1>4, <1>7
  <2>. HIDE DEF g, h
  <2>. QED BY <2>1, <2>2, <2>3, <2>4, <2>5, <2>6, <2>7, Zenon
<1>. HIDE DEF g, h, names
<1>10. Eases(g, h)
  BY <1>5, <1>9, Zenon DEF Eases
<1>. QED BY <1>1, <1>10

(* The gates of an edit ease: none that was closed before a doubt is open    *)
(* after it.                                                                 *)
LEMMA GatesEase ==
  ASSUME NEW action \in Edits, NEW m, NEW o, SameMetrics(m, o), NEW s, NEW t, Eased(s, t),
         Untied(m.semantic_evidence), Untied(o.semantic_evidence), NEW given
  PROVE  Eases(Gates(action, m, s, given), Gates(action, o, t, given))
<1>. DEFINE consolidate(x, r) == ConsolidateGates(x, r.risk, r.fit)
            extract(x, r) == ExtractGates(x, r.evidence, given, r.risk, r.fit)
            reuse(x, r) == ReuseGates(x, r.evidence, given, r.risk, r.fit)
            introduce(x, r) == IntroduceGates(x, r.evidence, r.risk, r.fit)
            note(r) == [concern_only |-> r.detection.score > 0]
            edit == action \in Edits
            chosen(x, r) ==
              CASE action = "consolidate_clone" -> consolidate(x, r)
                [] action = "extract_small_helper" -> extract(x, r)
                [] action = "reuse_existing_helper" -> reuse(x, r)
                [] action = "introduce_abstraction" -> introduce(x, r)
                [] action \in Notes -> note(r)
                [] OTHER -> <<>>
            detected(r) == [relation_detected |->
                     r.detection.score >= AssessmentPolicy.detection_relation_threshold]
            payoff(x, r) == [maintenance_payoff |->
                   \/ r.payoff.score >= AssessmentPolicy.review_candidate_threshold
                   \/ SubstantialBlock(x)
                   \/ action = "consolidate_clone" /\ EditableSkeleton(x)]
            before(r) == IF edit \/ action \in Notes THEN detected(r) ELSE <<>>
            worth(x, r) == IF edit THEN payoff(x, r) ELSE <<>>
<1>1. /\ Gates(action, m, s, given) = Also(before(s), Also(worth(m, s), chosen(m, s)))
      /\ Gates(action, o, t, given) = Also(before(t), Also(worth(o, t), chosen(o, t)))
  BY Zenon DEF Gates
<1>2. before(s) = before(t)
  <2>1. s.detection = t.detection
    BY DEF Eased
  <2>2. detected(s) = detected(t)
    BY <2>1, Zenon
  <2>. HIDE DEF detected, edit
  <2>. QED BY <2>2
<1>3. worth(m, s) = worth(o, t)
  <2>1. /\ s.payoff = t.payoff
        /\ SubstantialBlock(m) <=> SubstantialBlock(o)
        /\ EditableSkeleton(m) <=> EditableSkeleton(o)
    BY SameMeasures DEF Eased
  <2>2. payoff(m, s) = payoff(o, t)
    BY <2>1
  <2>. HIDE DEF payoff, edit
  <2>. QED BY <2>2
<1>4. Eases(chosen(m, s), chosen(o, t))
  <2>1. Eases(consolidate(m, s), consolidate(o, t))
    BY ConsolidateEases
  <2>2. Eases(extract(m, s), extract(o, t))
    BY ExtractEases
  <2>3. Eases(reuse(m, s), reuse(o, t))
    BY ReuseEases
  <2>4. Eases(introduce(m, s), introduce(o, t))
    BY IntroduceEases
  <2>. HIDE DEF consolidate, extract, reuse, introduce, note
  <2>5. CASE action = "consolidate_clone"
    <3>1. chosen(m, s) = consolidate(m, s) /\ chosen(o, t) = consolidate(o, t)
      BY <2>5 DEF Notes
    <3>. QED BY <2>1, <3>1, Zenon
  <2>6. CASE action = "extract_small_helper"
    <3>1. chosen(m, s) = extract(m, s) /\ chosen(o, t) = extract(o, t)
      BY <2>6 DEF Notes
    <3>. QED BY <2>2, <3>1, Zenon
  <2>7. CASE action = "reuse_existing_helper"
    <3>1. chosen(m, s) = reuse(m, s) /\ chosen(o, t) = reuse(o, t)
      BY <2>7 DEF Notes
    <3>. QED BY <2>3, <3>1, Zenon
  <2>8. CASE action = "introduce_abstraction"
    <3>1. chosen(m, s) = introduce(m, s) /\ chosen(o, t) = introduce(o, t)
      BY <2>8 DEF Notes
    <3>. QED BY <2>4, <3>1, Zenon
  <2>. QED BY <2>5, <2>6, <2>7, <2>8 DEF Edits
<1>. HIDE DEF before, worth, chosen
<1>5. Eases(before(s), before(t)) /\ Eases(worth(m, s), worth(o, t))
  BY <1>2, <1>3, Zenon DEF Eases
<1>6. Eases(Also(worth(m, s), chosen(m, s)), Also(worth(o, t), chosen(o, t)))
  BY <1>4, <1>5, AlsoEases
<1>7. Eases(Also(before(s), Also(worth(m, s), chosen(m, s))),
            Also(before(t), Also(worth(o, t), chosen(o, t))))
  BY <1>5, <1>6, AlsoEases
<1>. QED BY <1>1, <1>7

LEMMA FallbackKeeps ==
  ASSUME NEW action, NEW detection, NEW failed,
         FallbackAction(action, detection, failed) \in Edits
  PROVE  FallbackAction(action, detection, failed) = action
BY DEF FallbackAction, Edits

LEMMA FallbackNone ==
  ASSUME NEW action, NEW detection
  PROVE  FallbackAction(action, detection, {}) = action
BY DEF FallbackAction

(* The worth of an edit falls with a doubt.                                  *)
LEMMA ScoreFalls ==
  ASSUME NEW action, NEW s, NEW t, Eased(s, t)
  PROVE  /\ RecommendationScore(action, t) <= RecommendationScore(action, s)
         /\ RecommendationScore(action, s) \in Int /\ RecommendationScore(action, t) \in Int
<1>. DEFINE base == Mul(s.detection.score, s.fit.score)
            pay == s.payoff.score
            cost == s.fit.cost
            x == s.risk.score
            y == t.risk.score
            left == One - Larger(x, cost)
            right == One - Larger(y, cost)
            high == Mul(base, Mul(pay, left))
            low == Mul(base, Mul(pay, right))
<1>1. /\ s.detection.score \in Nat /\ s.fit.score \in Nat /\ pay \in Nat
      /\ cost \in 0..One /\ x \in 0..One /\ y \in 0..One /\ x <= y
      /\ s.detection = t.detection /\ s.fit = t.fit /\ s.payoff = t.payoff
  BY Zenon DEF Eased
<1>2. /\ RecommendationScore(action, s) = IF action \notin Edits THEN 0 ELSE Clamp(high)
      /\ RecommendationScore(action, t) = IF action \notin Edits THEN 0 ELSE Clamp(low)
  BY <1>1, Zenon DEF RecommendationScore
<1>3. base \in Nat
  BY <1>1, MulNat
<1>. HIDE DEF base, pay, cost, x, y
<1>4. left \in Nat /\ right \in Nat /\ right <= left
  <2>1. cost \in 0..10000 /\ x \in 0..10000 /\ y \in 0..10000 /\ x <= y
    BY <1>1 DEF One
  <2>2. /\ left = 10000 - (IF x > cost THEN x ELSE cost)
        /\ right = 10000 - (IF y > cost THEN y ELSE cost)
    BY DEF Larger, One
  <2>. HIDE DEF left, right
  <2>. QED BY <2>1, <2>2
<1>. HIDE DEF left, right
<1>5. Mul(pay, right) <= Mul(pay, left) /\ Mul(pay, right) \in Nat /\ Mul(pay, left) \in Nat
  <2>1. pay \in Nat /\ left \in Int /\ right \in Int
    BY <1>1, <1>4
  <2>. QED BY <1>4, <2>1, MulGrows, MulNat
<1>6. low <= high /\ low \in Nat /\ high \in Nat
  <2>. DEFINE x1 == Mul(pay, left)
              y1 == Mul(pay, right)
  <2>1. x1 \in Nat /\ y1 \in Nat /\ x1 \in Int /\ y1 \in Int /\ y1 <= x1
    BY <1>5
  <2>. HIDE DEF x1, y1
  <2>2. Mul(base, y1) <= Mul(base, x1) /\ Mul(base, y1) \in Nat /\ Mul(base, x1) \in Nat
    BY <1>3, <2>1, MulGrows, MulNat
  <2>. QED BY <2>2 DEF x1, y1
<1>. HIDE DEF low, high
<1>7. Clamp(low) <= Clamp(high) /\ Clamp(low) \in Nat /\ Clamp(high) \in Nat
  BY <1>6, ClampGrows, ClampNat
<1>. QED BY <1>2, <1>7

LEMMA StillRecommended ==
  ASSUME NEW action, NEW m, NEW o, SameMetrics(m, o), NEW s, NEW t, Eased(s, t),
         NEW high \in Int, NEW low \in Int, low <= high,
         Recommended(action, low, o, t)
  PROVE  Recommended(action, high, m, s)
<1>1. /\ EditableSkeleton(m) <=> EditableSkeleton(o)
      /\ SubstantialBlock(m) <=> SubstantialBlock(o)
  BY SameMeasures
<1>2. m.policy_constant_duplicate_count = o.policy_constant_duplicate_count
      /\ s.fit.cost = t.fit.cost
  BY DEF SameMetrics, Eased
<1>3. /\ t.risk.score <= ActionGates.low_introduction_risk =>
           s.risk.score <= ActionGates.low_introduction_risk
      /\ t.risk.score <= ActionGates.low_helper_risk =>
           s.risk.score <= ActionGates.low_helper_risk
  BY RiskLimits
<1>4. t.risk.score < AssessmentPolicy.risk_cautious_threshold =>
        s.risk.score < AssessmentPolicy.risk_cautious_threshold
  BY RiskLimits
<1>5. \A limit \in Nat : low >= limit => high >= limit
  OBVIOUS
<1>6. /\ AssessmentPolicy.review_candidate_threshold \in Nat
      /\ AssessmentPolicy.recommended_edit_threshold \in Nat
  BY RiskLimits
<1>7. /\ low >= AssessmentPolicy.review_candidate_threshold =>
           high >= AssessmentPolicy.review_candidate_threshold
      /\ low >= AssessmentPolicy.recommended_edit_threshold =>
           high >= AssessmentPolicy.recommended_edit_threshold
  BY <1>5, <1>6
<1>. QED BY <1>1, <1>2, <1>3, <1>4, <1>7, Zenon DEF Recommended

LEMMA StatusEased ==
  ASSUME NEW action \in Edits, NEW m, NEW o, SameMetrics(m, o), NEW s, NEW t, Eased(s, t),
         NEW high \in Int, NEW low \in Int, low <= high, NEW failed,
         Status(action, low, failed, o, t) = "recommended"
  PROVE  failed = {} /\ Status(action, high, {}, m, s) = "recommended"
<1>1. /\ action # "do_not_refactor"
      /\ ~(t.risk.score >= AssessmentPolicy.risk_block_threshold)
      /\ ~(t.fit.cost >= AssessmentPolicy.cost_block_threshold)
      /\ failed = {} /\ Recommended(action, low, o, t)
  BY DEF Status
<1>2. Recommended(action, high, m, s)
  BY <1>1, StillRecommended
<1>3. ~(s.risk.score >= AssessmentPolicy.risk_block_threshold)
  <2>. DEFINE limit == AssessmentPolicy.risk_block_threshold
              x == s.risk.score
              y == t.risk.score
  <2>1. limit \in Nat
    BY RiskLimits
  <2>2. x \in Int /\ y \in Int
    <3>1. x \in 0..One /\ y \in 0..One
      BY Zenon DEF Eased
    <3>. HIDE DEF x, y
    <3>. QED BY <3>1 DEF One
  <2>3. y < limit => x < limit
    BY <2>1, RiskLimits
  <2>4. ~(y >= limit)
    BY <1>1
  <2>. HIDE DEF limit, x, y
  <2>5. ~(x >= limit)
    BY <2>1, <2>2, <2>3, <2>4
  <2>. QED BY <2>5 DEF x, limit
<1>4. s.fit.cost = t.fit.cost
  BY DEF Eased
<1>. QED BY <1>1, <1>2, <1>3, <1>4, Zenon DEF Status

(* An edit recommended in spite of a doubt was recommended before it.        *)
LEMMA ActionEased ==
  ASSUME NEW actions, NEW fallback, NEW m, NEW o, SameMetrics(m, o), NEW s, NEW t, Eased(s, t),
         Untied(m.semantic_evidence), Untied(o.semantic_evidence),
         RecommendAction(actions, fallback, o, t).kind \in Edits,
         RecommendAction(actions, fallback, o, t).status = "recommended"
  PROVE  LET a == RecommendAction(actions, fallback, m, s)
             b == RecommendAction(actions, fallback, o, t)
         IN  /\ a.kind = b.kind /\ a.passed = b.passed /\ a.status = "recommended"
             /\ a.score \in Int /\ b.score \in Int /\ b.score <= a.score
<1>. DEFINE summary == IF HasActions(Summary(actions)) THEN Summary(actions) ELSE fallback
            requested == PrimaryAction(summary)
            given == UNION {a.preconditions : a \in {b \in ToSet(actions) : b.kind = requested}}
            gates(x, r) == Gates(requested, x, r, given)
            action(x, r) == FallbackAction(requested, r.detection, Failed(gates(x, r)))
            failed(x, r) == IF action(x, r) = requested THEN Failed(gates(x, r))
                            ELSE Failed(Gates(action(x, r), x, r, {}))
            score(x, r) == RecommendationScore(action(x, r), r)
            status(x, r) == Status(action(x, r), score(x, r), failed(x, r), x, r)
<1>1. \A x, r : RecommendAction(actions, fallback, x, r) =
        [kind |-> action(x, r), passed |-> Passed(gates(x, r)), failed |-> Failed(gates(x, r)),
         score |-> score(x, r), status |-> status(x, r)]
  BY DEF RecommendAction
<1>. HIDE DEF gates, action, failed, score, status, requested, given
<1>2. \A x, r : LET b == RecommendAction(actions, fallback, x, r)
                IN  /\ b.kind = action(x, r) /\ b.passed = Passed(gates(x, r))
                    /\ b.score = score(x, r) /\ b.status = status(x, r)
  BY <1>1
<1>3. action(o, t) \in Edits /\ status(o, t) = "recommended"
  BY <1>2
<1>4. action(o, t) = requested /\ requested \in Edits
  BY <1>3, FallbackKeeps DEF action
<1>5. failed(o, t) = Failed(gates(o, t))
  BY <1>4 DEF failed
<1>6. score(o, t) = RecommendationScore(requested, t)
  BY <1>4 DEF score
<1>. DEFINE high == RecommendationScore(requested, s)
            low == RecommendationScore(requested, t)
<1>7. high \in Int /\ low \in Int /\ low <= high
  BY ScoreFalls
<1>8. Status(requested, low, Failed(gates(o, t)), o, t) = "recommended"
  BY <1>3, <1>4, <1>5, <1>6 DEF status
<1>. HIDE DEF high, low
<1>9. Failed(gates(o, t)) = {} /\ Status(requested, high, {}, m, s) = "recommended"
  BY <1>4, <1>7, <1>8, StatusEased
<1>10. Eases(gates(m, s), gates(o, t))
  BY <1>4, GatesEase DEF gates
<1>11. Failed(gates(m, s)) = {} /\ Passed(gates(m, s)) = Passed(gates(o, t))
  BY <1>9, <1>10, EasedPass
<1>12. action(m, s) = requested
  BY <1>11, FallbackNone DEF action
<1>13. failed(m, s) = {} /\ score(m, s) = high
  BY <1>11, <1>12 DEF failed, score, high
<1>14. status(m, s) = "recommended"
  BY <1>9, <1>12, <1>13 DEF status
<1>15. score(o, t) = low
  BY <1>6 DEF low
<1>. QED BY <1>2, <1>4, <1>7, <1>11, <1>12, <1>13, <1>14, <1>15

LEMMA EditEased ==
  ASSUME NEW a, NEW b, NEW s, NEW t, Eased(s, t), RecommendedEdit(b, t),
         a.kind = b.kind, a.passed = b.passed, a.status = "recommended",
         a.score \in Int, b.score \in Int, b.score <= a.score
  PROVE  RecommendedEdit(a, s)
<1>1. IsCleanClone(a) <=> IsCleanClone(b)
  BY DEF IsCleanClone
<1>2. /\ s.detection = t.detection /\ s.fit = t.fit /\ s.payoff = t.payoff
      /\ t.risk.band \in {"none", "low"} => s.risk.band \in {"none", "low"}
  BY Zenon DEF Eased
<1>3. b.score >= AssessmentPolicy.recommended_edit_threshold =>
        a.score >= AssessmentPolicy.recommended_edit_threshold
  <2>1. \A limit \in Nat : b.score >= limit => a.score >= limit
    OBVIOUS
  <2>2. AssessmentPolicy.recommended_edit_threshold \in Nat
    BY RiskLimits
  <2>. QED BY <2>1, <2>2, Zenon
<1>. QED BY <1>1, <1>2, <1>3, Zenon DEF RecommendedEdit

LEMMA EditTier ==
  ASSUME NEW action, NEW s
  PROVE  ReviewTier(action, s) = "recommended_edit" <=> RecommendedEdit(action, s)
BY DEF ReviewTier

(* A cap raises no tier.                                                     *)
LEMMA CapOfEdit ==
  ASSUME NEW tier \in ToSet(Tiers), NEW level,
         CappedTier(tier, level) = "recommended_edit"
  PROVE  tier = "recommended_edit"
<1>1. /\ TierRank("recommended_edit") = 1
      /\ \A other \in ToSet(Tiers) : TierRank(other) \in Nat /\ TierRank(other) >= 1
  <2>1. ToSet(Tiers) = {"recommended_edit", "review_candidate", "maintenance_note", "observation"}
    BY DEF Tiers, ToSet
  <2>2. /\ TierRank("recommended_edit") = 1 /\ TierRank("review_candidate") = 2
        /\ TierRank("maintenance_note") = 3 /\ TierRank("observation") = 4
    BY DEF TierRank, Tiers
  <2>. QED BY <2>1, <2>2
<1>. QED BY <1>1 DEF CappedTier

(* The verdict on a draft: its tier is that of its scores, under its cap.    *)
LEMMA TierCapped ==
  ASSUME NEW draft
  PROVE  LET s == Scores(draft)
             action == RecommendAction(EffectiveActions(draft), draft.summary, draft.metrics, s)
         IN  /\ Assess(draft).tier
                  = CappedTier(ReviewTier(action, s), SemanticCap(draft.metrics).level)
             /\ ReviewTier(action, s) \in ToSet(Tiers)
<1>. DEFINE m == draft.metrics
            s == Scores(draft)
            action == RecommendAction(EffectiveActions(draft), draft.summary, m, s)
            tier == ReviewTier(action, s)
            cap == SemanticCap(m)
            surface == ApplyCap(tier, action.kind, ActionStatus(action), cap)
<1>1. Assess(draft) = Verdict(surface, action, s)
  BY DEF Assess, AssessWith, Decide
<1>2. Assess(draft).tier = surface.tier
  BY <1>1 DEF Verdict
<1>3. tier \in ToSet(Tiers)
  <2>. HIDE DEF action, s
  <2>. QED BY TierListed DEF ReviewTier
<1>4. surface.tier = CappedTier(tier, cap.level)
  <2>1. cap.level \in Levels
    BY CapLevels
  <2>. HIDE DEF action, s, tier, cap
  <2>. QED BY <2>1 DEF ApplyCap
<1>. QED BY <1>2, <1>3, <1>4

(* A draft that is a recommended edit in spite of a doubt is one without it. *)
LEMMA DoubtedEdit ==
  ASSUME NEW d, NEW o, Doubted(d, o), Assess(o).tier = "recommended_edit"
  PROVE  Assess(d).tier = "recommended_edit"
<1>. DEFINE m == d.metrics
            p == o.metrics
            s == Scores(d)
            t == Scores(o)
            actions == EffectiveActions(o)
            fallback == o.summary
            a == RecommendAction(actions, fallback, m, s)
            b == RecommendAction(actions, fallback, p, t)
            level == SemanticCap(p).level
<1>1. /\ EffectiveActions(d) = actions /\ d.summary = fallback
      /\ SemanticCap(m) = SemanticCap(p)
  BY SamePayoff, SameCap DEF Doubted
<1>2. /\ SameMetrics(m, p) /\ Untied(m.semantic_evidence) /\ Untied(p.semantic_evidence)
  BY DEF Doubted
<1>3. Eased(s, t)
  BY ScoresEased
<1>4. /\ Assess(o).tier = CappedTier(ReviewTier(b, t), level)
      /\ ReviewTier(b, t) \in ToSet(Tiers)
  BY TierCapped
<1>5. /\ Assess(d).tier = CappedTier(ReviewTier(a, s), level)
      /\ ReviewTier(a, s) \in ToSet(Tiers)
  BY <1>1, TierCapped
<1>. HIDE DEF m, p, s, t, actions, fallback, a, b, level
<1>6. ReviewTier(b, t) = "recommended_edit"
  BY <1>4, CapOfEdit
<1>7. RecommendedEdit(b, t)
  BY <1>6, EditTier
<1>8. b.kind \in Edits /\ b.status = "recommended"
  BY <1>7, Zenon DEF RecommendedEdit
<1>9. /\ a.kind = b.kind /\ a.passed = b.passed /\ a.status = "recommended"
      /\ a.score \in Int /\ b.score \in Int /\ b.score <= a.score
  BY <1>2, <1>3, <1>8, ActionEased DEF a, b
<1>10. RecommendedEdit(a, s)
  BY <1>3, <1>7, <1>9, EditEased
<1>11. ReviewTier(a, s) = "recommended_edit"
  BY <1>10, EditTier
<1>. QED BY <1>4, <1>5, <1>6, <1>11

-----------------------------------------------------------------------------
(* The pair that gives a draft its scores is one of its pairs.               *)

LEMMA PrecedesFive ==
  ASSUME NEW s, NEW t, DOMAIN s = {1, 2, 3, 4, 5}
  PROVE  Precedes(s, t) <=>
           \/ s[1] < t[1]
           \/ s[1] = t[1] /\ s[2] < t[2]
           \/ s[1] = t[1] /\ s[2] = t[2] /\ s[3] < t[3]
           \/ s[1] = t[1] /\ s[2] = t[2] /\ s[3] = t[3] /\ s[4] < t[4]
           \/ /\ s[1] = t[1] /\ s[2] = t[2] /\ s[3] = t[3] /\ s[4] = t[4]
              /\ s[5] < t[5]
<1>1. Precedes(s, t) <=> \E i \in {1, 2, 3, 4, 5} : s[i] < t[i] /\ \A j \in 1..i - 1 : s[j] = t[j]
  BY DEF Precedes
<1>2. /\ 1..1 - 1 = {} /\ 1..2 - 1 = {1}
      /\ 1..3 - 1 = {1, 2} /\ 1..4 - 1 = {1, 2, 3} /\ 1..5 - 1 = {1, 2, 3, 4}
  OBVIOUS
<1>. QED BY <1>1, <1>2

Five(s) ==
  /\ DOMAIN s = {1, 2, 3, 4, 5}
  /\ s[1] \in Int /\ s[2] \in Int /\ s[3] \in Int /\ s[4] \in Int /\ s[5] \in Int

LEMMA FiveTotal ==
  ASSUME NEW D, NEW key, \A p \in D : Five(key[p]),
         \A p, q \in D : key[p][4] = key[q][4] /\ key[p][5] = key[q][5] => p = q,
         NEW Le, \A p, q \in D : <<p, q>> \in Le <=> p = q \/ Precedes(key[p], key[q])
  PROVE  Total(D, Le)
<1>1. \A s, t : Five(s) =>
        (Precedes(s, t) <=>
           \/ s[1] < t[1]
           \/ s[1] = t[1] /\ s[2] < t[2]
           \/ s[1] = t[1] /\ s[2] = t[2] /\ s[3] < t[3]
           \/ s[1] = t[1] /\ s[2] = t[2] /\ s[3] = t[3] /\ s[4] < t[4]
           \/ /\ s[1] = t[1] /\ s[2] = t[2] /\ s[3] = t[3] /\ s[4] = t[4]
              /\ s[5] < t[5])
  BY PrecedesFive DEF Five
<1>2. \A s, t, u : Five(s) /\ Five(t) /\ Five(u) =>
        /\ ~Precedes(s, s)
        /\ Precedes(s, t) => ~Precedes(t, s)
        /\ Precedes(s, t) \/ Precedes(t, s) \/ (s[4] = t[4] /\ s[5] = t[5])
        /\ Precedes(s, t) /\ Precedes(t, u) => Precedes(s, u)
  <2>. SUFFICES ASSUME NEW s, NEW t, NEW u, Five(s), Five(t), Five(u)
                PROVE  /\ ~Precedes(s, s)
                       /\ Precedes(s, t) => ~Precedes(t, s)
                       /\ Precedes(s, t) \/ Precedes(t, s) \/ (s[4] = t[4] /\ s[5] = t[5])
                       /\ Precedes(s, t) /\ Precedes(t, u) => Precedes(s, u)
    OBVIOUS
  <2>1. /\ s[1] \in Int /\ s[2] \in Int /\ s[3] \in Int /\ s[4] \in Int /\ s[5] \in Int
        /\ t[1] \in Int /\ t[2] \in Int /\ t[3] \in Int /\ t[4] \in Int /\ t[5] \in Int
        /\ u[1] \in Int /\ u[2] \in Int /\ u[3] \in Int /\ u[4] \in Int /\ u[5] \in Int
    BY DEF Five
  <2>2. ~Precedes(s, s)
    BY <1>1, <2>1
  <2>3. Precedes(s, t) => ~Precedes(t, s)
    BY <1>1, <2>1
  <2>4. Precedes(s, t) \/ Precedes(t, s) \/ (s[4] = t[4] /\ s[5] = t[5])
    BY <1>1, <2>1
  <2>5. Precedes(s, t) /\ Precedes(t, u) => Precedes(s, u)
    BY <1>1, <2>1
  <2>. QED BY <2>2, <2>3, <2>4, <2>5
<1>3. \A p \in D : <<p, p>> \in Le
  OBVIOUS
<1>4. ASSUME NEW p \in D, NEW q \in D
      PROVE  /\ <<p, q>> \in Le \/ <<q, p>> \in Le
             /\ <<p, q>> \in Le /\ <<q, p>> \in Le => p = q
  <2>1. Five(key[p]) /\ Five(key[q])
    OBVIOUS
  <2>. DEFINE s == key[p]
              t == key[q]
  <2>2. s[4] = t[4] /\ s[5] = t[5] => p = q
    OBVIOUS
  <2>3. /\ <<p, q>> \in Le <=> p = q \/ Precedes(s, t)
        /\ <<q, p>> \in Le <=> p = q \/ Precedes(t, s)
    OBVIOUS
  <2>. HIDE DEF s, t
  <2>4. Five(s) /\ Five(t)
    BY <2>1 DEF s, t
  <2>. QED BY <1>2, <2>2, <2>3, <2>4
<1>5. ASSUME NEW p \in D, NEW q \in D, NEW r \in D, <<p, q>> \in Le, <<q, r>> \in Le
      PROVE  <<p, r>> \in Le
  <2>1. Five(key[p]) /\ Five(key[q]) /\ Five(key[r])
    OBVIOUS
  <2>2. (p = q \/ Precedes(key[p], key[q])) /\ (q = r \/ Precedes(key[q], key[r]))
    BY <1>5
  <2>3. Precedes(key[p], key[q]) /\ Precedes(key[q], key[r]) => Precedes(key[p], key[r])
    BY <1>2, <2>1
  <2>. QED BY <2>2, <2>3
<1>. QED BY <1>3, <1>4, <1>5 DEF Total

(* A pair of functions by its numbers.                                       *)
Scored(p) ==
  /\ p.is.confidence \in Nat /\ p.is.relatedness \in Nat /\ p.is.refactorability \in Nat
  /\ p.left \in Nat /\ p.right \in Nat /\ p.is.risk \in Nat

LEMMA LeadPairIn ==
  ASSUME NEW pairs, IsFiniteSet(pairs), pairs # {}, \A p \in pairs : Scored(p),
         \A p, q \in pairs : p.left = q.left /\ p.right = q.right => p = q
  PROVE  LeadPair(pairs) \in pairs
<1>. DEFINE Key(p) == <<-p.is.confidence, -p.is.relatedness, -p.is.refactorability,
                        p.left, p.right>>
            key == [p \in pairs |-> Key(p)]
            Le == {e \in pairs \X pairs : e[1] = e[2] \/ Precedes(key[e[1]], key[e[2]])}
<1>1. \A p \in pairs : Five(key[p]) /\ key[p][4] = p.left /\ key[p][5] = p.right
  <2>. SUFFICES ASSUME NEW p \in pairs
                PROVE  Five(Key(p)) /\ Key(p)[4] = p.left /\ Key(p)[5] = p.right
    BY Zenon
  <2>1. /\ p.is.confidence \in Nat /\ p.is.relatedness \in Nat /\ p.is.refactorability \in Nat
        /\ p.left \in Nat /\ p.right \in Nat
    BY DEF Scored
  <2>. QED BY <2>1 DEF Five
<1>2. LeadPair(pairs) = CHOOSE p \in pairs : \A q \in pairs : q = p \/ Precedes(Key(p), Key(q))
  BY DEF LeadPair
<1>3. \A p, q \in pairs : <<p, q>> \in Le <=> p = q \/ Precedes(key[p], key[q])
  <2>. HIDE DEF key
  <2>. QED OBVIOUS
<1>4. \A p \in pairs : key[p] = Key(p)
  BY Zenon
<1>. HIDE DEF Key, key, Le
<1>5. Total(pairs, Le)
  BY <1>1, <1>3, FiveTotal
<1>6. \E p \in pairs : \A q \in pairs : <<p, q>> \in Le
  BY <1>5, FirstExists
<1>7. \E p \in pairs : \A q \in pairs : q = p \/ Precedes(Key(p), Key(q))
  BY <1>3, <1>4, <1>6
<1>. QED BY <1>2, <1>7

-----------------------------------------------------------------------------
(* What a provider found of a draft.                                         *)

EvidenceOf(given, members, pairs) ==
  LET answered == {x \in members : given[x] # "none"}
      both == {p \in pairs : p.left \in answered /\ p.right \in answered}
      Item(x) == Answers[given[x]]
  IN  [unresolved_item_count |-> Cardinality({x \in answered : ~Item(x).resolved}),
       ambiguous_ownership_count |-> Cardinality({x \in answered : Item(x).ownership_ambiguous}),
       declaration_only_count |-> Cardinality({x \in answered : Item(x).declaration_only}),
       same_overload_group_pair_count |->
         Cardinality({p \in both : SameOverload(Item(p.left), Item(p.right))}),
       shared_call_target_pair_count |->
         Cardinality({p \in both : SharedTarget(Item(p.left), Item(p.right))}),
       divergent_call_target_pair_count |->
         Cardinality({p \in both : DivergentTarget(Item(p.left), Item(p.right))})]

Answered(m, evidence) == [m EXCEPT !.semantic_evidence = evidence]

LEMMA SemanticsOf ==
  ASSUME NEW m, NEW given, NEW members, NEW pairs
  PROVE  WithSemantics(m, given, members, pairs) =
           Answered(m, EvidenceOf(given, members, pairs))
BY Zenon DEF WithSemantics, Answered, EvidenceOf, CountIn

LEMMA EvidenceUntied ==
  ASSUME NEW given, ~Ties(given), NEW members \in SUBSET Member, NEW pairs, IsFiniteSet(pairs),
         Joins(pairs, members)
  PROVE  Untied(EvidenceOf(given, members, pairs))
<1>. DEFINE answered == {x \in members : given[x] # "none"}
            both == {p \in pairs : p.left \in answered /\ p.right \in answered}
            Item(x) == Answers[given[x]]
            unresolved == {x \in answered : ~Item(x).resolved}
            ambiguous == {x \in answered : Item(x).ownership_ambiguous}
            declared == {x \in answered : Item(x).declaration_only}
            overloads == {p \in both : SameOverload(Item(p.left), Item(p.right))}
            shared == {p \in both : SharedTarget(Item(p.left), Item(p.right))}
            divergent == {p \in both : DivergentTarget(Item(p.left), Item(p.right))}
            e == EvidenceOf(given, members, pairs)
<1>1. /\ unresolved \in SUBSET members /\ ambiguous \in SUBSET members
      /\ declared \in SUBSET members /\ divergent \in SUBSET pairs
  OBVIOUS
<1>2. \A p \in both : /\ p.left \in Member /\ p.right \in Member /\ p.left # p.right
                      /\ given[p.left] # "none" /\ given[p.right] # "none"
  BY DEF Joins
<1>3. overloads = {} /\ shared = {}
  <2>. HIDE DEF both
  <2>. QED BY <1>2 DEF Ties
<1>4. e = [unresolved_item_count |-> Cardinality(unresolved),
           ambiguous_ownership_count |-> Cardinality(ambiguous),
           declaration_only_count |-> Cardinality(declared),
           same_overload_group_pair_count |-> Cardinality(overloads),
           shared_call_target_pair_count |-> Cardinality(shared),
           divergent_call_target_pair_count |-> Cardinality(divergent)]
  BY Zenon DEF EvidenceOf
<1>5. IsFiniteSet(members)
  BY FindingsAssumption, FS_Subset
<1>. HIDE DEF unresolved, ambiguous, declared, overloads, shared, divergent, e
<1>6. /\ Cardinality(unresolved) \in Nat /\ Cardinality(ambiguous) \in Nat
      /\ Cardinality(declared) \in Nat /\ Cardinality(divergent) \in Nat
  BY <1>1, <1>5, FS_Subset, FS_CardinalityType
<1>7. Cardinality(overloads) = 0 /\ Cardinality(shared) = 0
  BY <1>3, FS_EmptySet
<1>8. Untied(e)
  BY <1>4, <1>6, <1>7 DEF Untied
<1>. QED BY <1>8 DEF e

LEMMA MoreCounted ==
  ASSUME NEW B, IsFiniteSet(B), NEW A \in SUBSET B, Cardinality(A) > 0
  PROVE  Cardinality(B) > 0
<1>1. IsFiniteSet(A) /\ Cardinality(A) <= Cardinality(B)
  BY FS_Subset
<1>2. Cardinality(A) \in Nat /\ Cardinality(B) \in Nat
  BY <1>1, FS_CardinalityType
<1>. QED BY <1>1, <1>2

(* Nothing answered is answered anew.                                        *)
Later(given, then) == \A x \in Member : given[x] # "none" => then[x] = given[x]

LEMMA EvidenceDoubts ==
  ASSUME NEW given, NEW then, Later(given, then), NEW members \in SUBSET Member,
         NEW pairs, IsFiniteSet(pairs), Joins(pairs, members)
  PROVE  Doubts(EvidenceOf(given, members, pairs), EvidenceOf(then, members, pairs))
<1>. DEFINE answered(g) == {x \in members : g[x] # "none"}
            both(g) == {p \in pairs : p.left \in answered(g) /\ p.right \in answered(g)}
            Item(g, x) == Answers[g[x]]
            unresolved(g) == {x \in answered(g) : ~Item(g, x).resolved}
            ambiguous(g) == {x \in answered(g) : Item(g, x).ownership_ambiguous}
            declared(g) == {x \in answered(g) : Item(g, x).declaration_only}
            overloads(g) == {p \in both(g) : SameOverload(Item(g, p.left), Item(g, p.right))}
            shared(g) == {p \in both(g) : SharedTarget(Item(g, p.left), Item(g, p.right))}
            divergent(g) == {p \in both(g) : DivergentTarget(Item(g, p.left), Item(g, p.right))}
            E(g) == EvidenceOf(g, members, pairs)
<1>1. \A g : E(g) = [unresolved_item_count |-> Cardinality(unresolved(g)),
                     ambiguous_ownership_count |-> Cardinality(ambiguous(g)),
                     declaration_only_count |-> Cardinality(declared(g)),
                     same_overload_group_pair_count |-> Cardinality(overloads(g)),
                     shared_call_target_pair_count |-> Cardinality(shared(g)),
                     divergent_call_target_pair_count |-> Cardinality(divergent(g))]
  BY Zenon DEF EvidenceOf
<1>2. \A g : /\ unresolved(g) \in SUBSET members /\ ambiguous(g) \in SUBSET members
             /\ declared(g) \in SUBSET members /\ divergent(g) \in SUBSET pairs
  OBVIOUS
<1>3. /\ \A x \in answered(given) : x \in answered(then) /\ Item(then, x) = Item(given, x)
      /\ answered(given) \subseteq answered(then)
  BY DEF Later
<1>4. both(given) \subseteq both(then)
  <2>. HIDE DEF answered
  <2>. QED BY <1>3
<1>5. \A p \in both(given) : /\ Item(then, p.left) = Item(given, p.left)
                             /\ Item(then, p.right) = Item(given, p.right)
  <2>. HIDE DEF answered, Item
  <2>. QED BY <1>3
<1>6. /\ unresolved(given) \in SUBSET unresolved(then)
      /\ ambiguous(given) \in SUBSET ambiguous(then)
      /\ declared(given) \in SUBSET declared(then)
  <2>. HIDE DEF answered, Item
  <2>. QED BY <1>3
<1>7. divergent(given) \in SUBSET divergent(then)
  <2>. HIDE DEF both, Item
  <2>. QED BY <1>4, <1>5
<1>8. IsFiniteSet(members)
  BY FindingsAssumption, FS_Subset
<1>. HIDE DEF unresolved, ambiguous, declared, overloads, shared, divergent, E
<1>9. /\ IsFiniteSet(unresolved(then)) /\ IsFiniteSet(ambiguous(then))
      /\ IsFiniteSet(declared(then)) /\ IsFiniteSet(divergent(then))
  BY <1>2, <1>8, FS_Subset
<1>10. /\ Cardinality(unresolved(given)) > 0 => Cardinality(unresolved(then)) > 0
       /\ Cardinality(ambiguous(given)) > 0 => Cardinality(ambiguous(then)) > 0
       /\ Cardinality(declared(given)) > 0 => Cardinality(declared(then)) > 0
       /\ Cardinality(divergent(given)) > 0 => Cardinality(divergent(then)) > 0
  BY <1>6, <1>7, <1>9, MoreCounted
<1>11. Doubts(E(given), E(then))
  BY <1>1, <1>10 DEF Doubts
<1>. QED BY <1>11 DEF E

-----------------------------------------------------------------------------
(* The drafts of a cluster after an answer and before it (Counterpart).      *)

AllFields == MetricFields \cup {"semantic_evidence"}

LEMMA PlainAll == AllFields \subseteq DOMAIN Plain /\ Plain.lead_risk_score = 0
BY DEF Plain, AllFields, MetricFields

LEMMA CountedAll ==
  ASSUME NEW m, AllFields \subseteq DOMAIN m, NEW cluster, NEW members
  PROVE  /\ AllFields \subseteq DOMAIN OfCluster(m, cluster, members)
         /\ OfCluster(m, cluster, members).lead_risk_score = m.lead_risk_score
<1>1. "lead_risk_score" \in DOMAIN m
  BY DEF AllFields, MetricFields
<1>2. /\ DOMAIN OfCluster(m, cluster, members) = DOMAIN m
      /\ OfCluster(m, cluster, members).lead_risk_score = m.lead_risk_score
  BY <1>1 DEF OfCluster
<1>. QED BY <1>2

LEMMA MeasuredAll ==
  ASSUME NEW m, AllFields \subseteq DOMAIN m, NEW pairs, NEW duplicates
  PROVE  /\ AllFields \subseteq DOMAIN WithPairs(m, pairs, duplicates)
         /\ WithPairs(m, pairs, duplicates).lead_risk_score =
              IF pairs = {} THEN m.lead_risk_score ELSE LeadPair(pairs).is.risk
<1>1. "lead_risk_score" \in DOMAIN m
  BY DEF AllFields, MetricFields
<1>2. DOMAIN WithPairs(m, pairs, duplicates) = DOMAIN m
  BY DEF WithPairs, CountIn, Tally
<1>3. WithPairs(m, pairs, duplicates).lead_risk_score =
        IF pairs = {} THEN m.lead_risk_score ELSE LeadPair(pairs).is.risk
  BY <1>1 DEF WithPairs, CountIn, Tally
<1>. QED BY <1>2, <1>3

LEMMA RoledAll ==
  ASSUME NEW m, AllFields \subseteq DOMAIN m, NEW l, NEW code, NEW members, NEW pairs,
         NEW duplicates, NEW mirrored
  PROVE  LET r == WithRoles(m, l, code, members, pairs, duplicates, mirrored)
         IN  AllFields \subseteq DOMAIN r /\ r.lead_risk_score = m.lead_risk_score
<1>1. "lead_risk_score" \in DOMAIN m
  BY DEF AllFields, MetricFields
<1>. QED BY <1>1 DEF WithRoles

Promoting(m, x, y, z) ==
  [m EXCEPT !.promoted_pair_count = x, !.promoted_member_count = y, !.pair_member_count = z]

LEMMA SameMade ==
  ASSUME NEW r, AllFields \subseteq DOMAIN r, NEW e, NEW f, NEW x, NEW y, NEW z
  PROVE  LET m == Answered(r, e)
             o == Answered(r, f)
             n == Promoting(m, x, y, z)
             p == Promoting(o, x, y, z)
         IN  /\ SameMetrics(m, o) /\ m.semantic_evidence = e /\ o.semantic_evidence = f
             /\ m.lead_risk_score = r.lead_risk_score
             /\ SameMetrics(n, p) /\ n.semantic_evidence = e /\ p.semantic_evidence = f
             /\ n.lead_risk_score = r.lead_risk_score
<1>. DEFINE m == Answered(r, e)
            o == Answered(r, f)
            n == Promoting(m, x, y, z)
            p == Promoting(o, x, y, z)
            D == DOMAIN r
<1>1. /\ DOMAIN m = D /\ DOMAIN o = D
      /\ \A field \in D \ {"semantic_evidence"} : m[field] = r[field] /\ o[field] = r[field]
      /\ "semantic_evidence" \in D => m["semantic_evidence"] = e /\ o["semantic_evidence"] = f
  BY DEF Answered
<1>. HIDE DEF m, o
<1>2. "semantic_evidence" \in D
  BY DEF AllFields
<1>3. m.semantic_evidence = e /\ o.semantic_evidence = f
  BY <1>1, <1>2, Zenon
<1>4. \A field \in MetricFields : m[field] = r[field] /\ o[field] = r[field]
  <2>1. \A field \in MetricFields : field \in D \ {"semantic_evidence"}
    BY DEF AllFields, MetricFields
  <2>. HIDE DEF D
  <2>. QED BY <1>1, <2>1
<1>5. /\ \A field \in D \ {"promoted_pair_count", "promoted_member_count", "pair_member_count"} :
           n[field] = m[field] /\ p[field] = o[field]
      /\ \A field \in {"promoted_pair_count", "promoted_member_count", "pair_member_count"} :
           field \in D => n[field] = p[field]
  BY <1>1 DEF Promoting
<1>. HIDE DEF n, p
<1>6. n.semantic_evidence = e /\ p.semantic_evidence = f
  <2>1. "semantic_evidence" \in
          D \ {"promoted_pair_count", "promoted_member_count", "pair_member_count"}
    BY <1>2
  <2>. HIDE DEF D
  <2>. QED BY <1>3, <1>5, <2>1
<1>7. \A field \in MetricFields : n[field] = p[field]
  <2>. SUFFICES ASSUME NEW field \in MetricFields PROVE n[field] = p[field]
    OBVIOUS
  <2>1. field \in D
    BY DEF AllFields
  <2>2. m[field] = o[field]
    BY <1>4
  <2>. HIDE DEF D
  <2>. QED BY <1>5, <2>1, <2>2, Zenon
<1>8. n.lead_risk_score = r.lead_risk_score /\ m.lead_risk_score = r.lead_risk_score
  <2>1. /\ "lead_risk_score" \in MetricFields
        /\ "lead_risk_score" \in
             D \ {"promoted_pair_count", "promoted_member_count", "pair_member_count"}
    BY DEF AllFields, MetricFields
  <2>. HIDE DEF D
  <2>. QED BY <1>4, <1>5, <2>1
<1>9. SameMetrics(m, o)
  <2>1. \A field \in MetricFields : m[field] = o[field]
    BY <1>4
  <2>. QED BY <2>1 DEF SameMetrics, MetricFields
<1>10. SameMetrics(n, p)
  BY <1>7 DEF SameMetrics, MetricFields
<1>. QED BY <1>3, <1>6, <1>8, <1>9, <1>10 DEF m, o, n, p

(* The pairs of a cluster by their numbers: the functions they join tell     *)
(* them apart.                                                               *)
LEMMA PairsScored ==
  ASSUME NEW l, NEW code, \A m \in Member : code[m] \in DOMAIN Bodies,
         NEW c, ClusterOver(c)
  PROVE  /\ \A p \in PairsOf(l, code, c) : Scored(p)
         /\ \A p, q \in PairsOf(l, code, c) : p.left = q.left /\ p.right = q.right => p = q
<1>1. ASSUME NEW p \in PairsOf(l, code, c)
      PROVE  Scored(p) /\ p = Pair(l, code, p.left, p.right)
  <2>1. PICK q \in ToSet(c.candidates) : p = Pair(l, code, q[1], q[2])
    BY DEF PairsOf
  <2>. DEFINE x == q[1]
              y == q[2]
  <2>2. x \in Member /\ y \in Member
    BY <2>1 DEF ClusterOver
  <2>3. x \in Nat /\ y \in Nat
    BY <2>2, FindingsAssumption
  <2>4. p.left = x /\ p.right = y /\ p.is = Compare[<<code[x], code[y]>>] /\ p = Pair(l, code, x, y)
    <3>. HIDE DEF x, y
    <3>1. p = Pair(l, code, x, y)
      BY <2>1 DEF x, y
    <3>. QED BY <3>1 DEF Pair
  <2>5. <<code[x], code[y]>> \in DOMAIN Compare
    BY <2>2, FindingsAssumption
  <2>6. /\ p.is.relatedness \in Nat /\ p.is.refactorability \in Nat
        /\ p.is.confidence \in Nat /\ p.is.risk \in Nat
    BY <2>4, <2>5, LayoutsAssumption
  <2>. HIDE DEF x, y
  <2>. QED BY <2>3, <2>4, <2>6 DEF Scored
<1>. QED BY <1>1

(* Two drafts over the same pairs of the same functions, after some answers  *)
(* and after others.                                                         *)
Redrawn(d, o, given, then, members, pairs) ==
  /\ SameMetrics(d.metrics, o.metrics)
  /\ d.metrics.semantic_evidence = EvidenceOf(given, members, pairs)
  /\ o.metrics.semantic_evidence = EvidenceOf(then, members, pairs)
  /\ members \in SUBSET Member /\ IsFiniteSet(pairs) /\ Joins(pairs, members)
  /\ d.metrics.lead_risk_score \in Nat
  /\ IsFiniteSet(d.abstraction_risks)
  /\ d.evidence_kinds = o.evidence_kinds /\ d.basis = o.basis
  /\ d.has_signature_overlap = o.has_signature_overlap
  /\ d.abstraction_risks = o.abstraction_risks /\ d.line_span = o.line_span
  /\ d.files = o.files /\ d.file_roles = o.file_roles
  /\ d.actions = o.actions /\ d.summary = o.summary /\ d.summary = Summary(d.actions)
  /\ d.locations = o.locations /\ d.locations = Whole(members)
  /\ d.source = o.source /\ d.source \in {"signature", "structural_pair"}

LEMMA ClusterRedrawn ==
  ASSUME NEW l, NEW code, \A m \in Member : code[m] \in DOMAIN Bodies,
         NEW c, ClusterOver(c), NEW given, NEW then,
         NEW items, NEW pairs \in SUBSET PairsOf(l, code, c), IsFiniteSet(pairs),
         NEW components
  PROVE  /\ Redrawn(ClusterDraft(l, code, given, c, items, pairs, components),
                    ClusterDraft(l, code, then, c, items, pairs, components),
                    given, then, c.members, pairs)
         /\ ClusterDraft(l, code, given, c, items, pairs, components).actions
              = ActionCandidates(items, c.members)
<1>. DEFINE duplicates == ToSet(StructuralDuplicates(l, items))
            promoted == UNION {ToSet(component) : component \in ToSet(components)}
            members == c.members
            mirrored == Mirrors(l, members)
            kinds == c.kinds \cup If(duplicates # {}, "structural_duplicate")
            counted == OfCluster(Plain, c, members)
            measured == WithPairs(counted, pairs, duplicates)
            roled == WithRoles(measured, l, code, members, pairs, duplicates, mirrored)
            x == Cardinality(promoted)
            y == Cardinality(PairMembers(promoted))
            z == Cardinality(PairMembers(pairs))
            metrics(g) == Promoting(Answered(roled, EvidenceOf(g, members, pairs)), x, y, z)
            locations == Whole(members)
            lines == LineSpan(code, members)
            title == ClusterTitle(c)
            actions == ActionCandidates(items, members)
            risks == c.risks \cup If(kinds = {"signature_shape_cluster"}, "small_commonality")
            basis == UNION {p.is.basis : p \in pairs}
            overlap == OfSignatures(kinds)
            draft(g) == ClusterDraft(l, code, g, c, items, pairs, components)
<1>1. \A g : draft(g) =
        [Draft(l, metrics(g), locations, lines, "signature", "signature_shape", title, kinds,
               actions)
         EXCEPT !.basis = basis, !.has_signature_overlap = overlap, !.abstraction_risks = risks]
  <2>1. \A g : WithSemantics(roled, g, members, pairs) =
                 Answered(roled, EvidenceOf(g, members, pairs))
    <3>. HIDE DEF roled
    <3>. QED BY SemanticsOf
  <2>2. \A g : draft(g) =
          [Draft(l, Promoting(WithSemantics(roled, g, members, pairs), x, y, z),
                 locations, lines, "signature", "signature_shape", title, kinds, actions)
           EXCEPT !.basis = basis, !.has_signature_overlap = overlap,
                  !.abstraction_risks = risks]
    BY DEF ClusterDraft, Promoting
  <2>. HIDE DEF draft, roled
  <2>. QED BY <2>1, <2>2
<1>2. AllFields \subseteq DOMAIN roled /\ roled.lead_risk_score \in Nat
  <2>. DEFINE plain == Plain
  <2>1. AllFields \subseteq DOMAIN plain /\ plain.lead_risk_score = 0
    BY PlainAll
  <2>. HIDE DEF plain, members, duplicates, mirrored
  <2>2. AllFields \subseteq DOMAIN counted /\ counted.lead_risk_score = 0
    <3>1. counted = OfCluster(plain, c, members)
      BY DEF plain
    <3>. HIDE DEF counted
    <3>. QED BY <2>1, <3>1, CountedAll
  <2>. HIDE DEF counted
  <2>3. /\ AllFields \subseteq DOMAIN measured
        /\ measured.lead_risk_score = IF pairs = {} THEN 0 ELSE LeadPair(pairs).is.risk
    BY <2>2, MeasuredAll
  <2>4. pairs # {} => LeadPair(pairs).is.risk \in Nat
    <3>1. /\ \A p \in pairs : Scored(p)
          /\ \A p, q \in pairs : p.left = q.left /\ p.right = q.right => p = q
      BY PairsScored
    <3>2. pairs # {} => LeadPair(pairs) \in pairs
      BY <3>1, LeadPairIn
    <3>. QED BY <3>1, <3>2 DEF Scored
  <2>. HIDE DEF measured
  <2>5. AllFields \subseteq DOMAIN roled /\ roled.lead_risk_score = measured.lead_risk_score
    BY <2>3, RoledAll
  <2>. QED BY <2>3, <2>4, <2>5
<1>3. members \in SUBSET Member /\ Joins(pairs, members) /\ IsFiniteSet(c.risks)
  <2>1. \A p \in pairs : p.left \in members /\ p.right \in members /\ p.left # p.right
    BY PairsWithin
  <2>. QED BY <2>1 DEF ClusterOver, Joins
<1>4. IsFiniteSet(risks)
  <2>1. IsFiniteSet(If(kinds = {"signature_shape_cluster"}, "small_commonality"))
    <3>. HIDE DEF kinds
    <3>. QED BY FS_EmptySet, FS_Singleton DEF If
  <2>. HIDE DEF kinds
  <2>. QED BY <1>3, <2>1, FS_Union
<1>. HIDE DEF duplicates, promoted, members, mirrored, kinds, counted, measured, roled, x, y, z
<1>5. /\ SameMetrics(metrics(given), metrics(then))
      /\ metrics(given).semantic_evidence = EvidenceOf(given, members, pairs)
      /\ metrics(then).semantic_evidence = EvidenceOf(then, members, pairs)
      /\ metrics(given).lead_risk_score = roled.lead_risk_score
  BY <1>2, SameMade
<1>. HIDE DEF metrics, locations, lines, title, actions, risks, basis, overlap, draft
<1>6. \A g : /\ draft(g).metrics = metrics(g) /\ draft(g).evidence_kinds = kinds
             /\ draft(g).basis = basis /\ draft(g).has_signature_overlap = overlap
             /\ draft(g).abstraction_risks = risks /\ draft(g).line_span = lines
             /\ draft(g).actions = actions /\ draft(g).summary = Summary(actions)
             /\ draft(g).locations = locations /\ draft(g).source = "signature"
             /\ draft(g).files = FilesOf(l, {loc[1] : loc \in locations})
             /\ draft(g).file_roles =
                  {l.files[f].role : f \in FilesOf(l, {loc[1] : loc \in locations})}
  BY <1>1 DEF Draft
<1>7. locations = Whole(members)
  BY DEF locations
<1>8. Redrawn(draft(given), draft(then), given, then, members, pairs)
  BY <1>2, <1>3, <1>4, <1>5, <1>6, <1>7, Zenon DEF Redrawn
<1>9. draft(given).actions = ActionCandidates(items, members)
  BY <1>6 DEF actions
<1>. QED BY <1>8, <1>9, Zenon DEF draft, members

LEMMA ComponentRedrawn ==
  ASSUME NEW l, NEW code, \A m \in Member : code[m] \in DOMAIN Bodies,
         NEW c, ClusterOver(c), NEW given, NEW then,
         NEW component, ToSet(component) \in SUBSET PairsOf(l, code, c),
         IsFiniteSet(ToSet(component))
  PROVE  Redrawn(ComponentDraft(l, code, given, c, component),
                 ComponentDraft(l, code, then, c, component),
                 given, then, PairMembers(ToSet(component)), ToSet(component))
<1>. DEFINE pairs == ToSet(component)
            members == PairMembers(pairs)
            exact == {p \in pairs : p.is.hash}
            mirrored == Cardinality(members) = 2 /\ Mirrors(l, members)
            counted == OfCluster(Plain, c, members)
            measured == WithPairs(counted, pairs, exact)
            roled == WithRoles(measured, l, code, members, pairs, exact, mirrored)
            metrics(g) == Answered(roled, EvidenceOf(g, members, pairs))
            oneName == Cardinality({l.at[m].name : m \in members}) = 1
            locations == Whole(members)
            lines == LineSpan(code, members)
            title == IF Cardinality(pairs) = 1 \/ oneName THEN "Duplicate helper"
                     ELSE "Duplicate helpers"
            kinds == {"signature_shape_cluster"} \cup If(exact # {}, "structural_duplicate")
            actions == IF Cardinality(pairs) = 1 THEN component[1].actions
                       ELSE ActionCandidates(component, members)
            basis == UNION {p.is.basis : p \in pairs}
            draft(g) == ComponentDraft(l, code, g, c, component)
<1>1. \A g : draft(g) =
        [Draft(l, metrics(g), locations, lines, "structural_pair", "structural_duplicate",
               title, kinds, actions)
         EXCEPT !.basis = basis, !.has_signature_overlap = TRUE]
  <2>1. \A g : WithSemantics(roled, g, members, pairs) = metrics(g)
    <3>. HIDE DEF roled, members, pairs
    <3>. QED BY SemanticsOf
  <2>2. \A g : draft(g) =
          [Draft(l, WithSemantics(roled, g, members, pairs), locations, lines,
                 "structural_pair", "structural_duplicate", title, kinds, actions)
           EXCEPT !.basis = basis, !.has_signature_overlap = TRUE]
    BY DEF ComponentDraft
  <2>. HIDE DEF draft, roled, metrics, members, pairs
  <2>. QED BY <2>1, <2>2
<1>2. AllFields \subseteq DOMAIN roled /\ roled.lead_risk_score \in Nat
  <2>. DEFINE plain == Plain
  <2>1. AllFields \subseteq DOMAIN plain /\ plain.lead_risk_score = 0
    BY PlainAll
  <2>. HIDE DEF plain, members, exact, mirrored
  <2>2. AllFields \subseteq DOMAIN counted /\ counted.lead_risk_score = 0
    <3>1. counted = OfCluster(plain, c, members)
      BY DEF plain
    <3>. HIDE DEF counted
    <3>. QED BY <2>1, <3>1, CountedAll
  <2>4. pairs # {} => LeadPair(pairs).is.risk \in Nat
    <3>1. /\ \A p \in pairs : Scored(p)
          /\ \A p, q \in pairs : p.left = q.left /\ p.right = q.right => p = q
      BY PairsScored
    <3>. HIDE DEF pairs
    <3>2. IsFiniteSet(pairs)
      BY DEF pairs
    <3>3. pairs # {} => LeadPair(pairs) \in pairs
      BY <3>1, <3>2, LeadPairIn
    <3>. QED BY <3>1, <3>3 DEF Scored
  <2>. HIDE DEF counted, pairs
  <2>3. /\ AllFields \subseteq DOMAIN measured
        /\ measured.lead_risk_score = IF pairs = {} THEN 0 ELSE LeadPair(pairs).is.risk
    BY <2>2, MeasuredAll
  <2>. HIDE DEF measured
  <2>5. AllFields \subseteq DOMAIN roled /\ roled.lead_risk_score = measured.lead_risk_score
    BY <2>3, RoledAll
  <2>. QED BY <2>3, <2>4, <2>5
<1>3. members \in SUBSET Member /\ Joins(pairs, members) /\ IsFiniteSet(pairs)
  <2>1. \A p \in pairs : /\ p.left \in c.members /\ p.right \in c.members
                         /\ p.left # p.right
    BY PairsWithin
  <2>2. c.members \subseteq Member /\ IsFiniteSet(pairs)
    BY DEF ClusterOver
  <2>. HIDE DEF pairs
  <2>3. members \in SUBSET Member
    BY <2>1, <2>2 DEF PairMembers
  <2>4. Joins(pairs, members)
    BY <2>1 DEF Joins, PairMembers
  <2>. QED BY <2>2, <2>3, <2>4
<1>. HIDE DEF pairs, members, exact, mirrored, kinds, counted, measured, roled
<1>4. /\ SameMetrics(metrics(given), metrics(then))
      /\ metrics(given).semantic_evidence = EvidenceOf(given, members, pairs)
      /\ metrics(then).semantic_evidence = EvidenceOf(then, members, pairs)
      /\ metrics(given).lead_risk_score = roled.lead_risk_score
  BY <1>2, SameMade
<1>5. IsFiniteSet({})
  BY FS_EmptySet
<1>. HIDE DEF metrics, locations, lines, title, actions, basis, draft
<1>6. \A g : /\ draft(g).metrics = metrics(g) /\ draft(g).evidence_kinds = kinds
             /\ draft(g).basis = basis /\ draft(g).has_signature_overlap = TRUE
             /\ draft(g).abstraction_risks = {} /\ draft(g).line_span = lines
             /\ draft(g).actions = actions /\ draft(g).summary = Summary(actions)
             /\ draft(g).locations = locations /\ draft(g).source = "structural_pair"
             /\ draft(g).files = FilesOf(l, {loc[1] : loc \in locations})
             /\ draft(g).file_roles =
                  {l.files[f].role : f \in FilesOf(l, {loc[1] : loc \in locations})}
  BY <1>1 DEF Draft
<1>7. locations = Whole(members)
  BY DEF locations
<1>8. Redrawn(draft(given), draft(then), given, then, members, pairs)
  BY <1>2, <1>3, <1>4, <1>5, <1>6, <1>7, Zenon DEF Redrawn
<1>. QED BY <1>8, Zenon DEF draft, members, pairs

(* Two drafts over the same functions, one after more answers: the second    *)
(* has every doubt of the first.                                             *)
Counterpart(d, o) ==
  /\ Doubted(d, o) /\ d.locations = o.locations /\ d.source = o.source
  /\ d.source \in {"signature", "structural_pair"}

LEMMA RedrawnDoubted ==
  ASSUME NEW d, NEW o, NEW given, NEW then, Later(given, then), ~Ties(then),
         NEW members, NEW pairs, Redrawn(d, o, given, then, members, pairs)
  PROVE  Counterpart(d, o)
<1>1. members \in SUBSET Member /\ IsFiniteSet(pairs) /\ Joins(pairs, members)
  BY Zenon DEF Redrawn
<1>2. ~Ties(given)
  BY DEF Ties, Later
<1>. DEFINE e == EvidenceOf(given, members, pairs)
            f == EvidenceOf(then, members, pairs)
<1>3. Untied(e) /\ Untied(f) /\ Doubts(e, f)
  BY <1>1, <1>2, EvidenceUntied, EvidenceDoubts
<1>4. d.metrics.semantic_evidence = e /\ o.metrics.semantic_evidence = f
  BY Zenon DEF Redrawn
<1>. HIDE DEF e, f
<1>5. Doubted(d, o)
  BY <1>3, <1>4, Zenon DEF Redrawn, Doubted
<1>. QED BY <1>5, Zenon DEF Redrawn, Counterpart

-----------------------------------------------------------------------------
(* The drafts of functions among those of a repository.                      *)

(* A draft over functions: it names one of them as a whole.                  *)
OfWhole(d) == \E m \in Member : <<m, "whole">> \in d.locations

LEMMA DraftLocations ==
  /\ \A l, code, given, c, items, pairs, components :
        ClusterDraft(l, code, given, c, items, pairs, components).locations = Whole(c.members)
  /\ \A l, code, given, c, component :
        ComponentDraft(l, code, given, c, component).locations
          = Whole(PairMembers(ToSet(component)))
<1>1. ASSUME NEW l, NEW code, NEW given, NEW c, NEW items, NEW pairs, NEW components
      PROVE  ClusterDraft(l, code, given, c, items, pairs, components).locations
               = Whole(c.members)
  BY DEF ClusterDraft, Draft
<1>2. ASSUME NEW l, NEW code, NEW given, NEW c, NEW component
      PROVE  ComponentDraft(l, code, given, c, component).locations
               = Whole(PairMembers(ToSet(component)))
  BY DEF ComponentDraft, Draft
<1>. QED BY <1>1, <1>2

(* The pairs of a cluster that matched a relation kind, and the groups of    *)
(* clones promoted out of it.                                                *)
MatchedPairs(l, code, c) ==
  LET items == RelationPairs(l, code, c.candidates)
  IN  Kept(items, {i \in DOMAIN items : items[i].kind # "none"})

CloneGroups(l, code, c) == Promoted(l, code, c, MatchedPairs(l, code, c))

LEMMA MatchedPairsIn ==
  ASSUME NEW l, NEW code, \A m \in Member : code[m] \in DOMAIN Bodies, NEW c, ClusterOver(c)
  PROVE  /\ ListIn(RelationPairs(l, code, c.candidates), PairsOf(l, code, c))
         /\ ListIn(MatchedPairs(l, code, c), PairsOf(l, code, c))
         /\ IsFiniteSet(ToSet(MatchedPairs(l, code, c)))
         /\ ToSet(MatchedPairs(l, code, c)) \in SUBSET PairsOf(l, code, c)
         /\ ToSet(MatchedPairs(l, code, c)) \subseteq ToSet(RelationPairs(l, code, c.candidates))
         /\ \A p \in ToSet(RelationPairs(l, code, c.candidates)) :
              p.kind # "none" => p \in ToSet(MatchedPairs(l, code, c))
         /\ \A p \in PairsOf(l, code, c) : /\ p.left \in Int /\ p.right \in Int
                                           /\ p.left \in c.members /\ p.right \in c.members
<1>. DEFINE items == RelationPairs(l, code, c.candidates)
            places == {i \in DOMAIN items : items[i].kind # "none"}
            kept == Kept(items, places)
            S == PairsOf(l, code, c)
<1>1. MatchedPairs(l, code, c) = kept
  BY DEF MatchedPairs
<1>2. /\ ListIn(items, S)
      /\ \A p \in S : /\ p.left \in Int /\ p.right \in Int
                      /\ p.left \in c.members /\ p.right \in c.members
  BY RelationPairsIn, PairsWithin DEF Sortable
<1>. HIDE DEF items, S
<1>3. places \in SUBSET DOMAIN items
  OBVIOUS
<1>4. \A p \in ToSet(items) : p.kind # "none" => \E k \in places : p = items[k]
  BY DEF ToSet
<1>. HIDE DEF places
<1>5. ListIn(kept, S) /\ \A k \in places : \E i \in DOMAIN kept : kept[i] = items[k]
  BY <1>2, <1>3, KeptIn
<1>. HIDE DEF kept
<1>6. \A p \in ToSet(items) : p.kind # "none" => p \in ToSet(kept)
  BY <1>4, <1>5 DEF ToSet
<1>7. ToSet(kept) \subseteq S /\ IsFiniteSet(ToSet(kept))
  BY <1>5, ListHas
<1>8. ToSet(kept) \subseteq ToSet(items)
  <2>1. ListIn(items, ToSet(items))
    BY <1>2 DEF ListIn, ToSet
  <2>2. ListIn(kept, ToSet(items))
    BY <1>3, <2>1, KeptIn DEF kept
  <2>. QED BY <2>2, ListHas
<1>. QED BY <1>1, <1>2, <1>5, <1>6, <1>7, <1>8 DEF items, S

(* The drafts of a cluster: its own and one of each group.                   *)
OwnDraft(l, code, given, c) ==
  ClusterDraft(l, code, given, c, RelationPairs(l, code, c.candidates),
               ToSet(MatchedPairs(l, code, c)), CloneGroups(l, code, c))

GroupDraft(l, code, given, c, i) ==
  ComponentDraft(l, code, given, c, CloneGroups(l, code, c)[i])

LEMMA SignatureDraftsHas ==
  ASSUME NEW l, NEW code, \A m \in Member : code[m] \in DOMAIN Bodies, NEW c, ClusterOver(c)
  PROVE  \E n \in Nat :
           /\ \A i \in 1..n :
                /\ ListIn(CloneGroups(l, code, c)[i], ToSet(MatchedPairs(l, code, c)))
                /\ 1 \in DOMAIN CloneGroups(l, code, c)[i]
                /\ Closed(CloneGroups(l, code, c)[i],
                          {p \in ToSet(MatchedPairs(l, code, c)) : Promotable(l, code, p)})
           /\ \A g : ToSet(SignatureDrafts(l, code, g, c)) =
                       {OwnDraft(l, code, g, c)} \cup {GroupDraft(l, code, g, c, i) : i \in 1..n}
<1>. DEFINE items == RelationPairs(l, code, c.candidates)
            kept == MatchedPairs(l, code, c)
            components == CloneGroups(l, code, c)
            first(g) == OwnDraft(l, code, g, c)
            other(g, i) == GroupDraft(l, code, g, c, i)
            others(g) == [i \in DOMAIN components |-> other(g, i)]
<1>1. \A g : SignatureDrafts(l, code, g, c) = <<first(g)>> \o others(g)
  BY DEF SignatureDrafts, Filtered, OwnDraft, GroupDraft, MatchedPairs, CloneGroups
<1>2. PICK n \in Nat :
        /\ DOMAIN components = 1..n
        /\ \A i \in 1..n : /\ ListIn(components[i], ToSet(kept))
                           /\ 1 \in DOMAIN components[i]
                           /\ Closed(components[i], {p \in ToSet(kept) : Promotable(l, code, p)})
  <2>. HIDE DEF kept
  <2>1. components = Promoted(l, code, c, kept)
    BY DEF CloneGroups, kept
  <2>2. ListIn(kept, PairsOf(l, code, c))
        /\ \A p \in PairsOf(l, code, c) : p.left \in Int /\ p.right \in Int
    BY MatchedPairsIn DEF kept
  <2>. QED BY <2>1, <2>2, PromotedIn
<1>3. ASSUME NEW g
      PROVE  ToSet(SignatureDrafts(l, code, g, c)) = {first(g)} \cup {other(g, i) : i \in 1..n}
  <2>. DEFINE s == <<first(g)>>
              t == others(g)
              T == {first(g)} \cup {other(g, i) : i \in 1..n}
  <2>1. DOMAIN t = 1..n /\ t = [i \in 1..n |-> t[i]] /\ \A i \in 1..n : t[i] = other(g, i)
    BY <1>2
  <2>. HIDE DEF components, items, first, other, others
  <2>2. s \in Seq(T) /\ ToSet(s) = {first(g)}
    BY DEF ToSet
  <2>. HIDE DEF t
  <2>3. t \in Seq(T) /\ ToSet(t) = {other(g, i) : i \in 1..n}
    BY <2>1 DEF ToSet
  <2>. HIDE DEF s, T
  <2>4. ToSet(s \o t) = ToSet(s) \cup ToSet(t)
    BY <2>2, <2>3, ConcatHas
  <2>5. SignatureDrafts(l, code, g, c) = s \o t
    BY <1>1 DEF s, t
  <2>. QED BY <2>2, <2>3, <2>4, <2>5
<1>. QED BY <1>2, <1>3

(* Each draft of a cluster after more answers has its counterpart before.    *)
LEMMA SignatureDoubted ==
  ASSUME NEW l, NEW code, \A m \in Member : code[m] \in DOMAIN Bodies,
         NEW c \in ToSet(Clusters(l, code)), ClusterOver(c),
         NEW given, NEW then, Later(given, then), ~Ties(then),
         NEW o \in ToSet(SignatureDrafts(l, code, then, c))
  PROVE  \E d \in ToSet(SignatureDrafts(l, code, given, c)) : Counterpart(d, o) /\ OfWhole(d)
<1>. DEFINE items == RelationPairs(l, code, c.candidates)
            kept == MatchedPairs(l, code, c)
            components == CloneGroups(l, code, c)
            pairs == ToSet(kept)
            first(g) == OwnDraft(l, code, g, c)
            other(g, i) == GroupDraft(l, code, g, c, i)
            S == PairsOf(l, code, c)
<1>1. /\ pairs \in SUBSET S /\ IsFiniteSet(pairs)
      /\ \A p \in S : p.left \in c.members
  BY MatchedPairsIn
<1>2. PICK n \in Nat :
        /\ \A i \in 1..n :
             /\ ListIn(components[i], pairs)
             /\ 1 \in DOMAIN components[i]
             /\ Closed(components[i], {p \in pairs : Promotable(l, code, p)})
        /\ \A g : ToSet(SignatureDrafts(l, code, g, c))
                    = {first(g)} \cup {other(g, i) : i \in 1..n}
  BY SignatureDraftsHas
<1>3. Counterpart(first(given), first(then)) /\ OfWhole(first(given))
  <2>1. \A g : first(g) = ClusterDraft(l, code, g, c, items, pairs, components)
    BY DEF OwnDraft
  <2>2. PICK m \in c.members : m \in Member
    BY DEF ClusterOver
  <2>. HIDE DEF items, pairs, components, first, S
  <2>3. first(given).locations = Whole(c.members)
    BY <2>1, DraftLocations
  <2>4. OfWhole(first(given))
    BY <2>2, <2>3 DEF OfWhole, Whole
  <2>5. Counterpart(first(given), first(then))
    BY <1>1, <2>1, ClusterRedrawn, RedrawnDoubted DEF S
  <2>. QED BY <2>4, <2>5
<1>4. ASSUME NEW i \in 1..n
      PROVE  Counterpart(other(given, i), other(then, i)) /\ OfWhole(other(given, i))
  <2>. DEFINE component == components[i]
  <2>1. ListIn(component, pairs) /\ 1 \in DOMAIN component
    BY <1>2
  <2>2. \A g : other(g, i) = ComponentDraft(l, code, g, c, component)
    BY DEF GroupDraft
  <2>. HIDE DEF components, pairs, S, component, other
  <2>3. /\ ToSet(component) \subseteq pairs /\ IsFiniteSet(ToSet(component))
        /\ component[1] \in ToSet(component)
    BY <2>1, ListHas DEF ToSet
  <2>4. ToSet(component) \in SUBSET PairsOf(l, code, c)
    BY <1>1, <2>3 DEF S
  <2>5. other(given, i).locations = Whole(PairMembers(ToSet(component)))
    BY <2>2, DraftLocations
  <2>6. component[1].left \in Member /\ component[1].left \in PairMembers(ToSet(component))
    <3>1. component[1].left \in c.members
      BY <1>1, <2>3
    <3>. QED BY <2>3, <3>1 DEF ClusterOver, PairMembers
  <2>7. OfWhole(other(given, i))
    BY <2>5, <2>6 DEF OfWhole, Whole
  <2>8. Counterpart(other(given, i), other(then, i))
    BY <2>2, <2>3, <2>4, ComponentRedrawn, RedrawnDoubted
  <2>. QED BY <2>7, <2>8
<1>. HIDE DEF first, other
<1>. QED BY <1>2, <1>3, <1>4

(* The drafts of clusters: they do not depend on the constants.              *)
FunctionDrafts(l, code, given) ==
  LET clusters == Clusters(l, code)
  IN  FlattenSeq([i \in DOMAIN clusters |-> SignatureDrafts(l, code, given, clusters[i])])

LEMMA FunctionDraftsHas ==
  ASSUME NEW l, NEW defined, NEW code, Analysable(l, defined, code), NEW given
  PROVE  ToSet(FunctionDrafts(l, code, given))
           = UNION {ToSet(SignatureDrafts(l, code, given, c)) : c \in ToSet(Clusters(l, code))}
<1>. DEFINE clusters == Clusters(l, code)
            lists == [i \in DOMAIN clusters |-> SignatureDrafts(l, code, given, clusters[i])]
            S == UNION {ToSet(lists[i]) : i \in DOMAIN clusters}
<1>1. PICK n \in Nat : DOMAIN clusters = 1..n
  BY ClustersIn, ListHas
<1>2. lists = [i \in 1..n |-> lists[i]]
  BY <1>1
<1>3. \A i \in 1..n : lists[i] = SignatureDrafts(l, code, given, clusters[i])
  BY <1>1
<1>4. ASSUME NEW i \in 1..n PROVE lists[i] \in Seq(S)
  <2>1. \A m \in Member : code[m] \in DOMAIN Bodies
    BY DEF Analysable
  <2>2. clusters[i] \in ToSet(Clusters(l, code)) /\ ClusterOver(clusters[i])
    BY <1>1, ClustersIn DEF ToSet
  <2>3. ProperList(l, defined, code, SignatureDrafts(l, code, given, clusters[i]))
    BY <2>1, <2>2, SignatureDraftsProper
  <2>. DEFINE s == lists[i]
  <2>4. PICK T : s \in Seq(T)
    BY <1>3, <2>3 DEF ProperList
  <2>5. ToSet(s) \subseteq S
    BY <1>1
  <2>. HIDE DEF s, S
  <2>6. Len(s) \in Nat /\ DOMAIN s = 1..Len(s) /\ s = [k \in 1..Len(s) |-> s[k]]
    BY <2>4
  <2>7. \A k \in 1..Len(s) : s[k] \in S
    BY <2>5, <2>6 DEF ToSet
  <2>8. s \in Seq(S)
    BY <2>6, <2>7
  <2>. QED BY <2>8 DEF s
<1>5. ToSet(FlattenSeq(lists)) = UNION {ToSet(lists[i]) : i \in 1..n}
  <2>. HIDE DEF lists, S
  <2>. QED BY <1>2, <1>4, FlattenHas
<1>6. FunctionDrafts(l, code, given) = FlattenSeq(lists)
  BY DEF FunctionDrafts
<1>. DEFINE Of(c) == ToSet(SignatureDrafts(l, code, given, c))
<1>7. \A i \in 1..n : ToSet(lists[i]) = Of(clusters[i])
  BY <1>3
<1>8. ToSet(Clusters(l, code)) = {clusters[i] : i \in 1..n}
  BY <1>1 DEF ToSet
<1>9. UNION {ToSet(lists[i]) : i \in 1..n} = UNION {Of(c) : c \in ToSet(Clusters(l, code))}
  <2>. HIDE DEF Of, lists, clusters
  <2>. QED BY <1>7, <1>8
<1>. HIDE DEF lists
<1>. QED BY <1>5, <1>6, <1>9

(* The other drafts: of parts of functions or of constants.                  *)
Elsewhere(d) == d.source \notin {"signature", "structural_pair"} /\ ~OfWhole(d)

LEMMA ConstantsElsewhere ==
  ASSUME NEW l, NEW defined, NEW code, Analysable(l, defined, code), NEW group
  PROVE  ConstantDraft(l, defined, group).source = "policy_literal"
         /\ (ConstantGroup(defined, group) => Elsewhere(ConstantDraft(l, defined, group)))
<1>. DEFINE d == ConstantDraft(l, defined, group)
<1>1. d.source = "policy_literal"
  BY DEF ConstantDraft, Draft
<1>2. d.locations = Whole(group.members)
  BY ConstantLocations
<1>. HIDE DEF d
<1>3. ASSUME ConstantGroup(defined, group) PROVE ~OfWhole(d)
  <2>1. group.members \cap Member = {}
    BY <1>3 DEF ConstantGroup, ConstantsOf, Analysable
  <2>. QED BY <1>2, <2>1 DEF OfWhole, Whole
<1>4. ConstantGroup(defined, group) => Elsewhere(d)
  BY <1>1, <1>3 DEF Elsewhere
<1>. QED BY <1>1, <1>4 DEF d

LEMMA LocalBlockElsewhere ==
  ASSUME NEW l, NEW code, NEW m \in Member, code[m] \in DOMAIN Bodies,
         NEW block \in ToSet(Bodies[code[m]].local)
  PROVE  Elsewhere(LocalBlockDraft(l, code, m, block))
<1>. DEFINE d == LocalBlockDraft(l, code, m, block)
<1>1. d.source = "intra_function_duplicate" /\ d.locations = {m} \X block.parts
  BY DEF LocalBlockDraft, Draft
<1>2. "whole" \notin block.parts
  BY LayoutsAssumption
<1>. HIDE DEF d
<1>3. Elsewhere(d)
  BY <1>1, <1>2 DEF Elsewhere, OfWhole
<1>. QED BY <1>3 DEF d

LEMMA SharedBlockElsewhere ==
  ASSUME NEW l, NEW code, NEW block \in SharedBlocks(l, code)
  PROVE  Elsewhere(SharedBlockDraft(l, code, block))
<1>. DEFINE d == SharedBlockDraft(l, code, block)
<1>1. d.source = "shared_block" /\ d.locations = block.members \X block.runs
  BY DEF SharedBlockDraft, Draft
<1>2. "whole" \notin block.runs
  BY SharedBlockOver, LayoutsAssumption
<1>. HIDE DEF d
<1>3. Elsewhere(d)
  BY <1>1, <1>2 DEF Elsewhere, OfWhole
<1>. QED BY <1>3 DEF d

(* The drafts of functions are those of clusters.                            *)
LEMMA DraftsSplit ==
  ASSUME NEW l, NEW defined, NEW code, Analysable(l, defined, code), NEW given
  PROVE  /\ ToSet(FunctionDrafts(l, code, given)) \subseteq ToSet(Drafts(l, defined, code, given))
         /\ \A d \in ToSet(Drafts(l, defined, code, given)) :
              d \in ToSet(FunctionDrafts(l, code, given)) \/ Elsewhere(d)
<1>. DEFINE groups == PolicyConstantClusters(defined, l.at)
            order == Ascending(Member)
            Blocks(m) == Bodies[code[m]].local
            Local(m) == [i \in DOMAIN Blocks(m) |-> LocalBlockDraft(l, code, m, Blocks(m)[i])]
            locals == [i \in DOMAIN order |-> Local(order[i])]
            a == [i \in DOMAIN groups |-> ConstantDraft(l, defined, groups[i])]
            b == FunctionDrafts(l, code, given)
            c == FlattenSeq(locals)
            d == SharedBlockDrafts(l, code)
<1>1. Drafts(l, defined, code, given) = a \o b \o c \o d
  BY DEF Drafts, FunctionDrafts
<1>2. ProperList(l, defined, code, a) /\ \A x \in ToSet(a) : Elsewhere(x)
  <2>. HIDE DEF groups
  <2>1. groups = PolicyConstantClusters(defined, l.at)
    BY DEF groups
  <2>2. ProperList(l, defined, code, a)
    BY <2>1, ConstantDraftsProper
  <2>3. ASSUME NEW x \in ToSet(a) PROVE Elsewhere(x)
    <3>1. PICK group : x = ConstantDraft(l, defined, group)
      BY DEF ToSet
    <3>2. x.source = "policy_literal"
      BY <3>1, ConstantsElsewhere
    <3>3. Proper(l, defined, code, x)
      <4>. HIDE DEF a
      <4>1. /\ Len(a) \in Nat /\ DOMAIN a = 1..Len(a)
            /\ \A i \in 1..Len(a) : Proper(l, defined, code, a[i])
        BY <2>2, ProperListHas
      <4>. QED BY <4>1 DEF ToSet
    <3>. QED BY <3>2, <3>3, ConstantsElsewhere DEF Proper
  <2>. QED BY <2>2, <2>3
<1>3. ProperList(l, defined, code, b)
  <2>. DEFINE clusters == Clusters(l, code)
  <2>. HIDE DEF clusters
  <2>1. clusters = Clusters(l, code)
    BY DEF clusters
  <2>2. ProperList(l, defined, code, FlattenSeq([i \in DOMAIN clusters |->
                                       SignatureDrafts(l, code, given, clusters[i])]))
    BY <2>1, ClusterDraftsProper
  <2>. QED BY <2>1, <2>2 DEF FunctionDrafts
<1>4. ProperList(l, defined, code, c) /\ \A x \in ToSet(c) : Elsewhere(x)
  <2>1. AscendingOf(order, Member)
    BY FindingsAssumption, AscendingList
  <2>2. PICK n \in Nat : DOMAIN order = 1..n /\ \A i \in 1..n : order[i] \in Member
    <3>. HIDE DEF order
    <3>. QED BY <2>1 DEF AscendingOf
  <2>. HIDE DEF order
  <2>3. locals = [i \in 1..n |-> locals[i]] /\ \A i \in 1..n : locals[i] = Local(order[i])
    BY <2>2
  <2>4. \A m \in Member : /\ ProperList(l, defined, code, Local(m))
                          /\ \A x \in ToSet(Local(m)) : Elsewhere(x)
    <3>. SUFFICES ASSUME NEW m \in Member
                  PROVE  /\ ProperList(l, defined, code, Local(m))
                         /\ \A x \in ToSet(Local(m)) : Elsewhere(x)
      OBVIOUS
    <3>. DEFINE blocks == Blocks(m)
    <3>1. blocks = Bodies[code[m]].local
      OBVIOUS
    <3>2. code[m] \in DOMAIN Bodies
      BY DEF Analysable
    <3>3. \A x \in ToSet(Local(m)) : \E block \in ToSet(blocks) :
             x = LocalBlockDraft(l, code, m, block)
      BY DEF ToSet
    <3>4. \A x \in ToSet(Local(m)) : Elsewhere(x)
      <4>. HIDE DEF Local, blocks, Blocks
      <4>. QED BY <3>1, <3>2, <3>3, LocalBlockElsewhere
    <3>. HIDE DEF blocks, Blocks
    <3>5. ProperList(l, defined, code,
                     [i \in DOMAIN blocks |-> LocalBlockDraft(l, code, m, blocks[i])])
      BY <3>1, LocalBlockDraftsProper
    <3>. QED BY <3>4, <3>5 DEF blocks
  <2>. HIDE DEF locals, Local
  <2>5. \A i \in 1..n : /\ ProperList(l, defined, code, locals[i])
                        /\ \A x \in ToSet(locals[i]) : Elsewhere(x)
    BY <2>2, <2>3, <2>4
  <2>6. locals = [i \in 1..n |-> locals[i]]
    BY <2>3
  <2>7. ProperList(l, defined, code, c)
    BY <2>5, <2>6, ProperFlatten
  <2>8. \A x \in ToSet(c) : Elsewhere(x)
    <3>. DEFINE S == UNION {ToSet(locals[i]) : i \in 1..n}
    <3>1. \A i \in 1..n : locals[i] \in Seq(S)
      <4>. SUFFICES ASSUME NEW i \in 1..n PROVE locals[i] \in Seq(S)
        OBVIOUS
      <4>. DEFINE s == locals[i]
      <4>1. PICK T : s \in Seq(T)
        BY <2>5 DEF ProperList
      <4>2. ToSet(s) \subseteq S
        OBVIOUS
      <4>. HIDE DEF s, S
      <4>3. Len(s) \in Nat /\ DOMAIN s = 1..Len(s) /\ s = [k \in 1..Len(s) |-> s[k]]
        BY <4>1
      <4>4. \A k \in 1..Len(s) : s[k] \in S
        BY <4>2, <4>3 DEF ToSet
      <4>5. s \in Seq(S)
        BY <4>3, <4>4
      <4>. QED BY <4>5 DEF s
    <3>2. \A x \in S : Elsewhere(x)
      BY <2>5
    <3>. HIDE DEF S
    <3>3. ToSet(c) = UNION {ToSet(locals[i]) : i \in 1..n}
      BY <2>6, <3>1, FlattenHas
    <3>. QED BY <3>2, <3>3 DEF S
  <2>. QED BY <2>7, <2>8
<1>5. ProperList(l, defined, code, d) /\ \A x \in ToSet(d) : Elsewhere(x)
  <2>1. PICK blocks : /\ ListIn(blocks, SharedBlocks(l, code))
                      /\ d = [i \in DOMAIN blocks |-> SharedBlockDraft(l, code, blocks[i])]
    BY SharedBlocksIn
  <2>2. ASSUME NEW x \in ToSet(d) PROVE Elsewhere(x)
    <3>1. PICK i \in DOMAIN blocks : x = SharedBlockDraft(l, code, blocks[i])
      <4>. HIDE DEF d
      <4>. QED BY <2>1 DEF ToSet
    <3>2. blocks[i] \in SharedBlocks(l, code)
      BY <2>1 DEF ListIn
    <3>. QED BY <3>1, <3>2, SharedBlockElsewhere
  <2>. QED BY <2>2, SharedBlockDraftsProper
<1>. HIDE DEF a, b, c, d
<1>6. ToSet(a \o b \o c \o d) = ToSet(a) \cup ToSet(b) \cup ToSet(c) \cup ToSet(d)
  <2>1. PICK A : a \in Seq(A)
    BY <1>2 DEF ProperList
  <2>2. PICK B : b \in Seq(B)
    BY <1>3 DEF ProperList
  <2>3. PICK C : c \in Seq(C)
    BY <1>4 DEF ProperList
  <2>4. PICK D : d \in Seq(D)
    BY <1>5 DEF ProperList
  <2>. DEFINE S == A \cup B \cup C \cup D
  <2>5. a \in Seq(S) /\ b \in Seq(S) /\ c \in Seq(S) /\ d \in Seq(S)
    BY <2>1, <2>2, <2>3, <2>4
  <2>. HIDE DEF S
  <2>. DEFINE x == a \o b
              y == x \o c
  <2>6. x \in Seq(S) /\ ToSet(x) = ToSet(a) \cup ToSet(b)
    BY <2>5, ConcatHas
  <2>. HIDE DEF x
  <2>7. y \in Seq(S) /\ ToSet(y) = ToSet(x) \cup ToSet(c)
    BY <2>5, <2>6, ConcatHas
  <2>. HIDE DEF y
  <2>8. ToSet(y \o d) = ToSet(y) \cup ToSet(d)
    BY <2>5, <2>7, ConcatHas
  <2>9. ToSet(y \o d) = ToSet(a) \cup ToSet(b) \cup ToSet(c) \cup ToSet(d)
    BY <2>6, <2>7, <2>8
  <2>. QED BY <2>9 DEF x, y
<1>7. ToSet(b) = ToSet(FunctionDrafts(l, code, given))
  BY DEF b
<1>8. ToSet(Drafts(l, defined, code, given)) = ToSet(a \o b \o c \o d)
  BY <1>1
<1>. QED BY <1>2, <1>4, <1>5, <1>6, <1>7, <1>8

-----------------------------------------------------------------------------
(* Reports after an answer and before it.                                    *)

(* Each draft of functions after it is of a cluster, as is its counterpart.  *)
LEMMA FunctionsDoubted ==
  ASSUME NEW l, NEW code, NEW defined, Analysable(l, defined, code),
         NEW after, Analysable(l, after, code),
         NEW given, NEW then, Later(given, then), ~Ties(then),
         NEW o \in ToSet(Drafts(l, after, code, then)),
         o.source \in {"signature", "structural_pair"}
  PROVE  \E d \in ToSet(Drafts(l, defined, code, given)) : Counterpart(d, o) /\ OfWhole(d)
<1>1. o \in ToSet(FunctionDrafts(l, code, then))
  BY DraftsSplit DEF Elsewhere
<1>2. PICK c \in ToSet(Clusters(l, code)) : o \in ToSet(SignatureDrafts(l, code, then, c))
  BY <1>1, FunctionDraftsHas
<1>3. ClusterOver(c) /\ \A m \in Member : code[m] \in DOMAIN Bodies
  BY ClustersIn DEF Analysable
<1>4. PICK d \in ToSet(SignatureDrafts(l, code, given, c)) : Counterpart(d, o) /\ OfWhole(d)
  BY <1>2, <1>3, SignatureDoubted
<1>5. d \in ToSet(FunctionDrafts(l, code, given))
  BY <1>4, FunctionDraftsHas
<1>. QED BY <1>4, <1>5, DraftsSplit

(* What names a function as a whole is a draft of functions.                 *)
LEMMA WholeSource ==
  ASSUME NEW l, NEW code, NEW defined, Analysable(l, defined, code), NEW given, ~Ties(given),
         NEW d \in ToSet(Drafts(l, defined, code, given)), OfWhole(d)
  PROVE  d.source \in {"signature", "structural_pair"}
<1>1. d \in ToSet(FunctionDrafts(l, code, given))
  BY DraftsSplit DEF Elsewhere
<1>2. PICK c \in ToSet(Clusters(l, code)) : d \in ToSet(SignatureDrafts(l, code, given, c))
  BY <1>1, FunctionDraftsHas
<1>3. ClusterOver(c) /\ \A m \in Member : code[m] \in DOMAIN Bodies
  BY ClustersIn DEF Analysable
<1>4. Later(given, given)
  BY DEF Later
<1>5. \E o \in ToSet(SignatureDrafts(l, code, given, c)) : Counterpart(o, d) /\ OfWhole(o)
  BY <1>2, <1>3, <1>4, SignatureDoubted
<1>. QED BY <1>5 DEF Counterpart

(* Targets and drafts.                                                       *)
LEMMA TargetsOfDrafts ==
  ASSUME NEW l, NEW code, NEW defined, Analysable(l, defined, code), NEW given
  PROVE  /\ \A t \in ToSet(Assessed(l, defined, code, given)) :
              \E d \in ToSet(Drafts(l, defined, code, given)) :
                 t.locations = d.locations /\ t.source = d.source /\ t.tier = Assess(d).tier
         /\ \A d \in ToSet(Drafts(l, defined, code, given)) :
              \E t \in ToSet(Assessed(l, defined, code, given)) :
                 t.locations = d.locations /\ t.source = d.source /\ t.tier = Assess(d).tier
<1>. DEFINE drafts == Drafts(l, defined, code, given)
            n == Len(drafts)
            found == [i \in DOMAIN drafts |-> AssessedTarget(drafts[i], Assess(drafts[i]))]
            unique == WithUniqueIdentities(l, found)
<1>1. Assessed(l, defined, code, given) = unique
  BY DEF Assessed, AssessedTargets
<1>2. ProperList(l, defined, code, drafts)
  BY DraftsProper
<1>. HIDE DEF drafts
<1>3. n \in Nat /\ DOMAIN drafts = 1..n
  BY <1>2, ProperListHas
<1>. HIDE DEF n
<1>4. DOMAIN found = 1..n
        /\ \A i \in 1..n : found[i] = AssessedTarget(drafts[i], Assess(drafts[i]))
  BY <1>3
<1>. HIDE DEF found
<1>5. /\ DOMAIN unique = 1..n
      /\ \A i \in 1..n : /\ unique[i].locations = drafts[i].locations
                         /\ unique[i].source = drafts[i].source
                         /\ unique[i].tier = Assess(drafts[i]).tier
  BY <1>3, <1>4, UniqueIdentities
<1>. HIDE DEF unique
<1>6. /\ ToSet(unique) = {unique[i] : i \in 1..n} /\ ToSet(drafts) = {drafts[i] : i \in 1..n}
  BY <1>3, <1>5 DEF ToSet
<1>7. /\ \A t \in ToSet(unique) : \E d \in ToSet(drafts) :
           t.locations = d.locations /\ t.source = d.source /\ t.tier = Assess(d).tier
      /\ \A d \in ToSet(drafts) : \E t \in ToSet(unique) :
           t.locations = d.locations /\ t.source = d.source /\ t.tier = Assess(d).tier
  BY <1>5, <1>6
<1>. QED BY <1>1, <1>7 DEF drafts

(* The report of an analysis is made of its targets and represents each.     *)
LEMMA ReportOf ==
  ASSUME NEW l, NEW code, NEW defined, Analysable(l, defined, code), NEW given, NEW found,
         found = Assessed(l, defined, code, given)
  PROVE  /\ ToSet(Report(found)) \subseteq ToSet(found)
         /\ \A t \in ToSet(found) : \E f \in ToSet(Report(found)) :
              /\ t.locations \subseteq f.locations
              /\ t.tier = "recommended_edit" => f.tier = "recommended_edit"
<1>. DEFINE kept == Report(found)
<1>1. PICK n \in Nat : RatedList(found, n) /\ Identified(found, n)
  BY AssessedRated
<1>2. PICK m \in Nat : Represents(kept, m, found, n)
  BY <1>1, ReportRepresents
<1>. HIDE DEF kept
<1>3. /\ DOMAIN kept = 1..m /\ DOMAIN found = 1..n
      /\ \A i \in 1..m : \E k \in 1..n : kept[i] = found[k]
  BY <1>1, <1>2 DEF Represents, RatedList
<1>4. ToSet(kept) \subseteq ToSet(found)
  BY <1>3 DEF ToSet
<1>5. ASSUME NEW t \in ToSet(found)
      PROVE  \E f \in ToSet(kept) : /\ t.locations \subseteq f.locations
                                    /\ TierRank(f.tier) <= TierRank(t.tier)
  <2>1. PICK k \in 1..n : t = found[k]
    BY <1>3 DEF ToSet
  <2>2. PICK i \in 1..m : /\ found[k].locations \subseteq kept[i].locations
                          /\ TierRank(kept[i].tier) <= TierRank(found[k].tier)
    BY <1>2 DEF Represents
  <2>. QED BY <1>3, <2>1, <2>2 DEF ToSet
<1>6. \A t \in ToSet(found) : t.tier \in ToSet(Tiers)
  <2>1. \A t \in ToSet(found) : \E d : t.tier = Assess(d).tier
    BY TargetsOfDrafts
  <2>. QED BY <2>1, AssessedTier
<1>7. \A a, b \in ToSet(Tiers) :
        TierRank(a) <= TierRank(b) /\ b = "recommended_edit" => a = "recommended_edit"
  <2>1. ToSet(Tiers) = {"recommended_edit", "review_candidate", "maintenance_note", "observation"}
    BY DEF Tiers, ToSet
  <2>2. /\ TierRank("recommended_edit") = 1 /\ TierRank("review_candidate") = 2
        /\ TierRank("maintenance_note") = 3 /\ TierRank("observation") = 4
    BY DEF TierRank, Tiers
  <2>. QED BY <2>1, <2>2
<1>8. ASSUME NEW t \in ToSet(found)
      PROVE  \E f \in ToSet(kept) :
               /\ t.locations \subseteq f.locations
               /\ t.tier = "recommended_edit" => f.tier = "recommended_edit"
  <2>1. PICK f \in ToSet(kept) : /\ t.locations \subseteq f.locations
                                 /\ TierRank(f.tier) <= TierRank(t.tier)
    BY <1>5
  <2>2. f \in ToSet(found)
    BY <1>4
  <2>. QED BY <1>6, <1>7, <2>1, <2>2
<1>. QED BY <1>4, <1>8 DEF kept

(* Each edit of functions recommended after more doubts is part of one       *)
(* recommended before them.                                                  *)
LEMMA EditsDoubted ==
  ASSUME NEW l, NEW code, NEW defined, Analysable(l, defined, code),
         NEW after, Analysable(l, after, code),
         NEW given, NEW then, Later(given, then), ~Ties(then),
         NEW g \in ToSet(Report(Assessed(l, after, code, then))), RecommendsEdit(g)
  PROVE  \E f \in ToSet(Report(Assessed(l, defined, code, given))) :
            RecommendsEdit(f) /\ g.locations \subseteq f.locations
<1>. DEFINE found == Assessed(l, after, code, then)
            base == Assessed(l, defined, code, given)
<1>1. g \in ToSet(found)
  BY ReportOf
<1>2. PICK o \in ToSet(Drafts(l, after, code, then)) :
        g.locations = o.locations /\ g.source = o.source /\ g.tier = Assess(o).tier
  BY <1>1, TargetsOfDrafts
<1>3. o.source \in {"signature", "structural_pair"} /\ Assess(o).tier = "recommended_edit"
  BY <1>2 DEF RecommendsEdit, OfFunctions
<1>4. PICK d \in ToSet(Drafts(l, defined, code, given)) : Counterpart(d, o) /\ OfWhole(d)
  BY <1>3, FunctionsDoubted
<1>5. Assess(d).tier = "recommended_edit" /\ d.locations = o.locations
  BY <1>3, <1>4, DoubtedEdit DEF Counterpart
<1>6. PICK t \in ToSet(base) : t.locations = d.locations /\ t.tier = "recommended_edit"
  BY <1>5, TargetsOfDrafts
<1>7. PICK f \in ToSet(Report(base)) :
        t.locations \subseteq f.locations /\ f.tier = "recommended_edit"
  BY <1>6, ReportOf
<1>8. f \in ToSet(base)
  BY <1>7, ReportOf
<1>9. PICK e \in ToSet(Drafts(l, defined, code, given)) :
        f.locations = e.locations /\ f.source = e.source
  BY <1>8, TargetsOfDrafts
<1>10. OfWhole(e)
  BY <1>4, <1>6, <1>7, <1>9 DEF OfWhole
<1>11. ~Ties(given)
  BY DEF Ties, Later
<1>12. e.source \in {"signature", "structural_pair"}
  BY <1>10, <1>11, WholeSource
<1>13. RecommendsEdit(f)
  BY <1>7, <1>9, <1>12 DEF RecommendsEdit, OfFunctions
<1>14. g.locations \subseteq f.locations
  BY <1>2, <1>5, <1>6, <1>7
<1>. QED BY <1>7, <1>13, <1>14

(* A step that leaves the code alone forgets no answer.                      *)
LEMMA StepsLater ==
  ASSUME Analysed, [Next]_vars, body' = body
  PROVE  /\ layout' = layout /\ DOMAIN constants' = DOMAIN constants
         /\ Later(answer, answer')
<1>1. /\ body \in [Member -> DOMAIN Bodies] /\ answer \in [Member -> DOMAIN Answers \cup {"none"}]
  BY DEF Analysed
<1>2. ASSUME NEW m \in Member, NEW b \in DOMAIN Bodies, Edit(m, b) PROVE FALSE
  <2>1. b # body[m] /\ body' = [body EXCEPT ![m] = b]
    BY <1>2 DEF Edit
  <2>. QED BY <1>1, <2>1
<1>3. ASSUME NEW c \in layout.redefined, NEW d \in Definitions, Redefine(c, d)
      PROVE  /\ layout' = layout /\ DOMAIN constants' = DOMAIN constants
             /\ Later(answer, answer')
  <2>1. /\ layout' = layout /\ answer' = answer /\ constants' = [constants EXCEPT ![c] = d]
    BY <1>3 DEF Redefine
  <2>. QED BY <2>1 DEF Later
<1>4. ASSUME NEW m \in Asked, NEW a \in DOMAIN Answers, Enrich(m, a)
      PROVE  /\ layout' = layout /\ DOMAIN constants' = DOMAIN constants
             /\ Later(answer, answer')
  <2>1. /\ layout' = layout /\ constants' = constants /\ answer[m] = "none"
        /\ answer' = [answer EXCEPT ![m] = a]
    BY <1>4 DEF Enrich
  <2>2. \A x \in Member : x # m => answer'[x] = answer[x]
    BY <1>1, <2>1
  <2>. QED BY <2>1, <2>2 DEF Later
<1>5. CASE UNCHANGED vars
  BY <1>5 DEF vars, Later
<1>. QED BY <1>2, <1>3, <1>4, <1>5 DEF Next

(* What DoubtAddsNoEdit says of a step.                                      *)
Spared == body' = body /\ ~Ties(answer') =>
            \A g \in {h \in ToSet(report') : RecommendsEdit(h)} :
               \E f \in ToSet(report) : RecommendsEdit(f) /\ g.locations \subseteq f.locations

LEMMA AnalysedSpared == Analysed /\ [Next]_vars => Spared
<1>. SUFFICES ASSUME Analysed, [Next]_vars, body' = body, ~Ties(answer'),
                     NEW g \in ToSet(report'), RecommendsEdit(g)
              PROVE  \E f \in ToSet(report) :
                        RecommendsEdit(f) /\ g.locations \subseteq f.locations
  BY DEF Spared
<1>1. /\ layout' = layout /\ DOMAIN constants' = DOMAIN constants /\ Later(answer, answer')
  BY StepsLater
<1>2. Analysed'
  BY NextAnalysed
<1>3. report = Report(Assessed(layout, constants, body, answer))
  BY DEF Analysed
<1>4. report' = Report(Assessed(layout, constants', body, answer'))
  <2>1. /\ targets' = Assessed(layout', constants', body', answer')
        /\ report' = Report(targets')
    BY <1>2 DEF Analysed
  <2>. QED BY <1>1, <2>1
<1>5. Analysable(layout, constants, body)
  BY AnalysedAnalysable
<1>. DEFINE after == constants'
            then == answer'
            now == report'
<1>6. /\ DOMAIN after = DOMAIN constants /\ Later(answer, then) /\ ~Ties(then)
      /\ now = Report(Assessed(layout, after, body, then)) /\ g \in ToSet(now)
  BY <1>1, <1>4
<1>. HIDE DEF after, then, now
<1>7. Analysable(layout, after, body)
  BY <1>5, <1>6 DEF Analysable
<1>8. \E f \in ToSet(Report(Assessed(layout, constants, body, answer))) :
         RecommendsEdit(f) /\ g.locations \subseteq f.locations
  BY <1>5, <1>6, <1>7, EditsDoubted
<1>. QED BY <1>3, <1>8

(* While the code stays as it is, no answer that ties no two functions       *)
(* together turns code into a recommended edit, whatever the policies and    *)
(* the clusters: a doubt raises the risk of a draft and nothing else, every  *)
(* gate and bound of an edit that holds with a doubt holds without it, and   *)
(* what the report then keeps of the drafts covers the edit (risk.py,        *)
(* evidence.py, fit.py).                                                     *)
THEOREM DoubtSpared == Spec => DoubtAddsNoEdit
<1>1. Init => Analysed
  BY InitAnalysed
<1>2. Analysed /\ [Next]_vars => Analysed'
  BY NextAnalysed
<1>3. Analysed /\ [Next]_vars => [Spared]_vars
  BY AnalysedSpared
<1>4. DoubtAddsNoEdit <=> [][Spared]_vars
  BY DEF DoubtAddsNoEdit, Spared
<1>. QED BY <1>1, <1>2, <1>3, <1>4, PTL DEF Spec

-----------------------------------------------------------------------------
(* A target that differs is a risk above that of any edit.                   *)

(* Two functions whose same call is bound to different targets.              *)
Split(given, p) ==
  /\ given[p.left] # "none" /\ given[p.right] # "none"
  /\ DivergentTarget(Answers[given[p.left]], Answers[given[p.right]])

LEMMA DivergenceCounted ==
  ASSUME NEW given, NEW members, NEW pairs, IsFiniteSet(pairs), Joins(pairs, members),
         NEW p \in pairs, Split(given, p)
  PROVE  EvidenceOf(given, members, pairs).divergent_call_target_pair_count > 0
<1>. DEFINE answered == {x \in members : given[x] # "none"}
            both == {q \in pairs : q.left \in answered /\ q.right \in answered}
            Item(x) == Answers[given[x]]
            divergent == {q \in both : DivergentTarget(Item(q.left), Item(q.right))}
<1>1. EvidenceOf(given, members, pairs).divergent_call_target_pair_count
        = Cardinality(divergent)
  BY DEF EvidenceOf
<1>2. p \in divergent /\ divergent \in SUBSET pairs
  BY DEF Split, Joins
<1>. HIDE DEF divergent
<1>3. IsFiniteSet(divergent)
  BY <1>2, FS_Subset
<1>4. Cardinality(divergent) \in Nat /\ Cardinality(divergent) # 0
  BY <1>2, <1>3, FS_CardinalityType, FS_EmptySet
<1>. QED BY <1>1, <1>4

LEMMA DivergentProvider ==
  ASSUME NEW e, e.divergent_call_target_pair_count > 0
  PROVE  /\ ProviderRisk(e) \in Int
         /\ Smaller(One, SemanticEvidencePolicy.divergent_call_target_risk_floor)
              <= ProviderRisk(e)
<1>1. /\ SemanticEvidencePolicy.declaration_surface_risk_unit \in Nat
      /\ SemanticEvidencePolicy.unresolved_semantics_risk_unit \in Nat
      /\ SemanticEvidencePolicy.ambiguous_ownership_risk_unit \in Nat
      /\ SemanticEvidencePolicy.divergent_call_target_risk_floor \in Nat
  BY PolicyAssumption, FieldsAssumption
<1>. DEFINE Unit(count, unit) == IF count > 0 THEN unit ELSE 0
            u == SemanticEvidencePolicy
            a == Unit(e.declaration_only_count, u.declaration_surface_risk_unit)
            b == Unit(e.unresolved_item_count, u.unresolved_semantics_risk_unit)
            c == Unit(e.ambiguous_ownership_count, u.ambiguous_ownership_risk_unit)
            floor == u.divergent_call_target_risk_floor
<1>2. a \in Nat /\ b \in Nat /\ c \in Nat /\ floor \in Nat
  BY <1>1
<1>3. ProviderRisk(e) = Smaller(One, Larger(a + b + c, floor))
  BY DEF ProviderRisk
<1>. HIDE DEF a, b, c, floor
<1>4. Smaller(One, floor) <= ProviderRisk(e) /\ ProviderRisk(e) \in Int
  BY <1>2, <1>3 DEF Smaller, Larger, One
<1>. QED BY <1>4 DEF floor

LEMMA CautiousBand ==
  ASSUME NEW x \in Int, NEW high \in Nat, NEW medium \in Nat, medium <= x
  PROVE  Band(x, high, medium) \notin {"none", "low"}
BY DEF Band

LEMMA DivergentBand ==
  ASSUME DivergenceIsCautious, NEW m, m.lead_risk_score \in Nat,
         m.semantic_evidence.divergent_call_target_pair_count > 0,
         NEW risks, IsFiniteSet(risks)
  PROVE  Risk(m, risks).band \notin {"none", "low"}
<1>. DEFINE units == Cardinality(risks) + (IF m.cluster_scope = "same_language" THEN 0 ELSE 1)
            relation == IF m.lead_risk_score > 0 THEN m.lead_risk_score
                        ELSE Smaller(One, units * RiskUnit)
            provider == ProviderRisk(m.semantic_evidence)
            x == Larger(relation, provider)
            high == AssessmentPolicy.risk_block_threshold
            medium == AssessmentPolicy.risk_cautious_threshold
            floor == Smaller(One, SemanticEvidencePolicy.divergent_call_target_risk_floor)
<1>1. units \in Nat
  BY FS_CardinalityType
<1>. HIDE DEF units
<1>2. relation \in Nat
  BY <1>1 DEF Smaller, One, RiskUnit
<1>3. provider \in Int /\ floor <= provider
  BY DivergentProvider
<1>4. medium <= floor
  BY DEF DivergenceIsCautious
<1>5. high \in Nat /\ medium \in Nat
  BY PolicyAssumption, FieldsAssumption
<1>6. floor \in Int
  <2>1. SemanticEvidencePolicy.divergent_call_target_risk_floor \in Nat
    BY PolicyAssumption, FieldsAssumption
  <2>. QED BY <2>1 DEF Smaller, One
<1>7. Risk(m, risks) = [score |-> Clamp(x), band |-> Band(x, high, medium)]
  BY DEF Risk, units
<1>. HIDE DEF relation, provider, high, medium, floor
<1>8. x \in Int /\ medium <= x
  BY <1>2, <1>3, <1>4, <1>5, <1>6 DEF Larger
<1>. HIDE DEF x
<1>9. Band(x, high, medium) \notin {"none", "low"}
  BY <1>5, <1>8, CautiousBand
<1>. QED BY <1>7, <1>9

(* No draft with a diverging pair is a recommended edit.                     *)
LEMMA DivergentNoEdit ==
  ASSUME DivergenceIsCautious, NEW d, d.metrics.lead_risk_score \in Nat,
         d.metrics.semantic_evidence.divergent_call_target_pair_count > 0,
         IsFiniteSet(d.abstraction_risks)
  PROVE  Assess(d).tier # "recommended_edit"
<1>. SUFFICES ASSUME Assess(d).tier = "recommended_edit" PROVE FALSE
  OBVIOUS
<1>. DEFINE s == Scores(d)
            action == RecommendAction(EffectiveActions(d), d.summary, d.metrics, s)
            risks == EffectiveRisks(d)
<1>1. /\ Assess(d).tier = CappedTier(ReviewTier(action, s), SemanticCap(d.metrics).level)
      /\ ReviewTier(action, s) \in ToSet(Tiers)
  BY TierCapped
<1>2. s.risk = Risk(d.metrics, risks)
  BY DEF Scores
<1>3. IsFiniteSet(risks)
  BY FS_Subset DEF EffectiveRisks
<1>. HIDE DEF s, action, risks
<1>4. RecommendedEdit(action, s)
  BY <1>1, CapOfEdit, EditTier
<1>5. s.risk.band \in {"none", "low"}
  BY <1>4, Zenon DEF RecommendedEdit
<1>6. Risk(d.metrics, risks).band \notin {"none", "low"}
  BY <1>3, DivergentBand
<1>. QED BY <1>2, <1>5, <1>6

(* A draft that proposes nothing is no edit.                                 *)
LEMMA EmptyKept ==
  ASSUME NEW items
  PROVE  Kept(items, {}) = <<>>
<1>1. Ascending({}) = <<>>
  <2>1. Cardinality({}) = 0 /\ 1..0 = {}
    BY FS_EmptySet
  <2>. QED BY <2>1 DEF Ascending
<1>2. DOMAIN Ascending({}) = {}
  BY <1>1
<1>3. Kept(items, {}) = [i \in {} |-> items[Ascending({})[i]]]
  BY <1>2 DEF Kept
<1>. QED BY <1>3

LEMMA IdleNoEdit ==
  ASSUME NEW d, d.actions = <<>>, d.summary = Summary(<<>>)
  PROVE  Assess(d).tier # "recommended_edit"
<1>. SUFFICES ASSUME Assess(d).tier = "recommended_edit" PROVE FALSE
  OBVIOUS
<1>. DEFINE s == Scores(d)
            m == d.metrics
            action == RecommendAction(EffectiveActions(d), d.summary, m, s)
            nothing == Summary(<<>>)
<1>1. Filtered(<<>>, LAMBDA a : a.status # "not_recommended") = <<>>
  <2>1. {i \in DOMAIN <<>> : <<>>[i].status # "not_recommended"} = {}
    OBVIOUS
  <2>. QED BY <2>1, EmptyKept DEF Filtered
<1>2. Filtered(<<>>, LAMBDA a : a.kind \in ReadOnlyActions) = <<>>
  <2>1. {i \in DOMAIN <<>> : <<>>[i].kind \in ReadOnlyActions} = {}
    OBVIOUS
  <2>. QED BY <2>1, EmptyKept DEF Filtered
<1>3. EffectiveActions(d) = <<>>
  BY <1>2 DEF EffectiveActions
<1>4. ToSet(<<>>) = {}
  BY DEF ToSet
<1>5. nothing.primary = "" /\ nothing.secondary = "" /\ nothing.not_recommended = {}
  <2>. DEFINE wanted == Filtered(<<>>, LAMBDA a : a.status # "not_recommended")
  <2>1. nothing = [primary |-> IF wanted = <<>> THEN "" ELSE wanted[1].kind,
                   secondary |-> IF Len(wanted) < 2 THEN "" ELSE wanted[2].kind,
                   not_recommended |->
                     {a.kind : a \in {b \in ToSet(<<>>) : b.status = "not_recommended"}}]
    BY DEF Summary, SummaryOf
  <2>2. wanted = <<>> /\ Len(<<>>) < 2
    BY <1>1
  <2>. HIDE DEF wanted, nothing
  <2>. QED BY <1>4, <2>1, <2>2
<1>6. PrimaryAction(nothing) = "observe"
  <2>. HIDE DEF nothing
  <2>. QED BY <1>5 DEF PrimaryAction
<1>7. action.kind = FallbackAction("observe", s.detection,
                      Failed(Gates("observe", m, s,
                        UNION {a.preconditions : a \in {b \in ToSet(EffectiveActions(d)) :
                                                          b.kind = "observe"}})))
  <2>1. (IF HasActions(Summary(EffectiveActions(d))) THEN Summary(EffectiveActions(d))
         ELSE d.summary) = nothing
    BY <1>3
  <2>. HIDE DEF nothing, s, m
  <2>. QED BY <1>6, <2>1, Zenon DEF RecommendAction, action
<1>8. \A detection, failed : FallbackAction("observe", detection, failed) = "observe"
  BY DEF FallbackAction
<1>9. action.kind = "observe"
  BY <1>7, <1>8
<1>10. /\ Assess(d).tier = CappedTier(ReviewTier(action, s), SemanticCap(m).level)
       /\ ReviewTier(action, s) \in ToSet(Tiers)
  BY TierCapped
<1>. HIDE DEF s, m, action
<1>11. RecommendedEdit(action, s)
  BY <1>10, CapOfEdit, EditTier
<1>12. action.kind \in Edits
  BY <1>11, Zenon DEF RecommendedEdit
<1>. QED BY <1>9, <1>12 DEF Edits

LEMMA NothingProposed ==
  ASSUME NEW items, DOMAIN items = {}, NEW members
  PROVE  ActionCandidates(items, members) = <<>>
<1>. DEFINE given == [i \in DOMAIN items |-> items[i].actions]
            proposed == FlattenSeq(given)
            places == {i \in DOMAIN proposed :
                         \A j \in 1..i - 1 : ~SameAction(proposed[i], proposed[j])}
            kept == Kept(proposed, places)
            limit == PairPolicy.action_limit
<1>1. proposed = <<>>
  <2>1. given = <<>>
    OBVIOUS
  <2>. HIDE DEF given
  <2>. QED BY <2>1 DEF FlattenSeq
<1>2. ToSet(items) = {}
  BY DEF ToSet
<1>3. ActionCandidates(items, members) = First(kept, limit)
  BY <1>2, Zenon DEF ActionCandidates
<1>4. kept = <<>>
  <2>. HIDE DEF proposed
  <2>1. places = {}
    BY <1>1
  <2>. HIDE DEF places
  <2>. QED BY <2>1, EmptyKept
<1>. HIDE DEF kept, limit
<1>5. First(<<>>, limit) = <<>>
  BY DEF First, Smaller
<1>. QED BY <1>3, <1>4, <1>5

LEMMA PromotableMatched ==
  ASSUME NEW l, NEW code, \A m \in Member : code[m] \in DOMAIN Bodies, NEW c, ClusterOver(c),
         NEW p \in PairsOf(l, code, c), Promotable(l, code, p)
  PROVE  p.kind # "none"
<1>1. PICK q \in ToSet(c.candidates) : p = Pair(l, code, q[1], q[2])
  BY DEF PairsOf
<1>. DEFINE x == q[1]
            y == q[2]
            is == Compare[<<code[x], code[y]>>]
<1>2. x \in Member /\ y \in Member
  BY <1>1 DEF ClusterOver
<1>3. <<code[x], code[y]>> \in DOMAIN Compare
  BY <1>2, FindingsAssumption
<1>4. is.clone_type \in {"type_2_parameterized", "type_3_near_miss"} => is.kind # "none"
  BY <1>3, LayoutsAssumption
<1>. HIDE DEF x, y
<1>5. p.is = is /\ p.kind = PairKind(l, x, y, is)
  BY <1>1 DEF Pair, x, y
<1>6. is.hash \/ is.kind # "none"
  BY <1>4, <1>5 DEF Promotable, ExactOrStrong
<1>. HIDE DEF is
<1>7. PairKind(l, x, y, is) # "none"
  BY <1>6 DEF PairKind
<1>. QED BY <1>5, <1>7

(* Of two clusters, one has no related pair among the functions of the other. *)
Apart(l, code, c, k) ==
  c # k => \/ ~Relates(RelationPairs(l, code, c.candidates), k.members)
           \/ ~Relates(RelationPairs(l, code, k.candidates), c.members)

(* No draft within a cluster, over two clones of it that diverge, is a       *)
(* recommended edit.                                                         *)
LEMMA DivergentDraft ==
  ASSUME DivergenceIsCautious, NEW l, NEW code, \A m \in Member : code[m] \in DOMAIN Bodies,
         NEW c, ClusterOver(c), NEW k, ClusterOver(k), Apart(l, code, c, k), NEW given,
         NEW p \in ToSet(RelationPairs(l, code, k.candidates)),
         Promotable(l, code, p), Split(given, p),
         NEW d \in ToSet(SignatureDrafts(l, code, given, c)),
         NEW members, d.locations = Whole(members),
         members \subseteq k.members, {p.left, p.right} \subseteq members
  PROVE  Assess(d).tier # "recommended_edit"
<1>. DEFINE items == RelationPairs(l, code, c.candidates)
            pairs == ToSet(MatchedPairs(l, code, c))
            S == PairsOf(l, code, c)
            components == CloneGroups(l, code, c)
            first == OwnDraft(l, code, given, c)
            other(i) == GroupDraft(l, code, given, c, i)
<1>1. /\ ListIn(items, S) /\ pairs \in SUBSET S /\ IsFiniteSet(pairs)
      /\ \A q \in ToSet(items) : q.kind # "none" => q \in pairs
      /\ pairs \subseteq ToSet(items)
      /\ \A q \in S : q.left \in c.members /\ q.right \in c.members
  BY MatchedPairsIn
<1>2. PICK n \in Nat :
        /\ \A i \in 1..n :
             /\ ListIn(components[i], pairs)
             /\ 1 \in DOMAIN components[i]
             /\ Closed(components[i], {q \in pairs : Promotable(l, code, q)})
        /\ \A g : ToSet(SignatureDrafts(l, code, g, c))
                    = {OwnDraft(l, code, g, c)} \cup {GroupDraft(l, code, g, c, i) : i \in 1..n}
  BY SignatureDraftsHas
<1>3. d = first \/ \E i \in 1..n : d = other(i)
  BY <1>2
<1>4. c = k => p \in pairs
  <2>. SUFFICES ASSUME c = k PROVE p \in pairs
    OBVIOUS
  <2>1. p \in ToSet(items) /\ p \in S
    <3>1. ToSet(items) \subseteq S
      <4>. HIDE DEF items, S
      <4>. QED BY <1>1, ListHas
    <3>. QED BY <3>1
  <2>2. p.kind # "none"
    BY <2>1, PromotableMatched
  <2>. QED BY <1>1, <2>1, <2>2
<1>5. \A x : Whole(members) = Whole(x) => members = x
  <2>. SUFFICES ASSUME NEW x, Whole(members) = Whole(x) PROVE members = x
    OBVIOUS
  <2>1. \A m : m \in members <=> <<m, "whole">> \in Whole(members)
    BY DEF Whole
  <2>2. \A m : m \in x <=> <<m, "whole">> \in Whole(x)
    BY DEF Whole
  <2>. QED BY <2>1, <2>2
<1>. HIDE DEF items, pairs, S, components
<1>6. CASE d = first
  <2>1. first = ClusterDraft(l, code, given, c, items, pairs, components)
    BY DEF OwnDraft, items, pairs, components
  <2>. HIDE DEF first
  <2>2. /\ Redrawn(d, d, given, given, c.members, pairs)
        /\ d.actions = ActionCandidates(items, c.members)
    BY <1>1, <1>6, <2>1, ClusterRedrawn DEF S
  <2>3. members = c.members
    BY <1>5, <2>2 DEF Redrawn
  <2>4. CASE c = k
    <3>1. /\ d.metrics.semantic_evidence = EvidenceOf(given, c.members, pairs)
          /\ Joins(pairs, c.members) /\ d.metrics.lead_risk_score \in Nat
          /\ IsFiniteSet(d.abstraction_risks)
      BY <2>2 DEF Redrawn
    <3>2. d.metrics.semantic_evidence.divergent_call_target_pair_count > 0
      BY <1>1, <1>4, <2>4, <3>1, DivergenceCounted
    <3>. QED BY <3>1, <3>2, DivergentNoEdit
  <2>5. CASE c # k
    <3>1. ~Relates(items, k.members)
      BY <2>3, <2>5 DEF Apart, Relates, items
    <3>2. DOMAIN items = {}
      <4>. SUFFICES ASSUME NEW i \in DOMAIN items PROVE FALSE
        OBVIOUS
      <4>1. items[i] \in S /\ items[i] \in ToSet(items)
        BY <1>1 DEF ListIn, ToSet
      <4>. QED BY <1>1, <2>3, <3>1, <4>1 DEF Relates
    <3>3. d.actions = <<>>
      BY <2>2, <3>2, NothingProposed
    <3>4. d.summary = Summary(<<>>)
      BY <2>2, <3>3 DEF Redrawn
    <3>. QED BY <3>3, <3>4, IdleNoEdit
  <2>. QED BY <2>4, <2>5
<1>7. ASSUME NEW i \in 1..n, d = other(i)
      PROVE  Assess(d).tier # "recommended_edit"
  <2>. DEFINE component == components[i]
              T == ToSet(component)
  <2>1. /\ ListIn(component, pairs) /\ 1 \in DOMAIN component
        /\ Closed(component, {q \in pairs : Promotable(l, code, q)})
    BY <1>2 DEF pairs, components
  <2>2. other(i) = ComponentDraft(l, code, given, c, component)
    BY DEF GroupDraft, components
  <2>. HIDE DEF other, component
  <2>3. T \subseteq pairs /\ IsFiniteSet(T) /\ component[1] \in T
    BY <2>1, ListHas DEF ToSet
  <2>4. Redrawn(d, d, given, given, PairMembers(T), T)
    BY <1>1, <1>7, <2>2, <2>3, ComponentRedrawn DEF S
  <2>5. members = PairMembers(T)
    BY <1>5, <2>4 DEF Redrawn
  <2>6. c = k
    <3>1. Relates(items, k.members)
      <4>1. component[1] \in ToSet(items)
        BY <1>1, <2>3
      <4>2. component[1].left \in k.members /\ component[1].right \in k.members
        BY <2>3, <2>5 DEF PairMembers
      <4>. QED BY <4>1, <4>2 DEF Relates
    <3>2. members \subseteq c.members
      BY <1>1, <2>3, <2>5 DEF PairMembers
    <3>3. Relates(RelationPairs(l, code, k.candidates), c.members)
      BY <3>2 DEF Relates
    <3>. QED BY <3>1, <3>3 DEF Apart, items
  <2>7. p \in T
    <3>1. p \in {q \in pairs : Promotable(l, code, q)}
      BY <1>4, <2>6
    <3>. QED BY <2>1, <2>5, <3>1 DEF Closed
  <2>8. /\ d.metrics.semantic_evidence = EvidenceOf(given, PairMembers(T), T)
        /\ Joins(T, PairMembers(T)) /\ d.metrics.lead_risk_score \in Nat
        /\ IsFiniteSet(d.abstraction_risks)
    BY <2>4 DEF Redrawn
  <2>. HIDE DEF T
  <2>9. d.metrics.semantic_evidence.divergent_call_target_pair_count > 0
    BY <2>3, <2>7, <2>8, DivergenceCounted
  <2>. QED BY <2>8, <2>9, DivergentNoEdit
<1>. QED BY <1>3, <1>6, <1>7

LEMMA RelatedCandidate ==
  ASSUME NEW l, NEW code, \A m \in Member : code[m] \in DOMAIN Bodies, NEW c, ClusterOver(c),
         NEW p \in ToSet(RelationPairs(l, code, c.candidates))
  PROVE  \E q \in ToSet(c.candidates) : p.left = q[1] /\ p.right = q[2]
<1>1. p \in PairsOf(l, code, c)
  BY RelationPairsIn, ListHas
<1>2. PICK q \in ToSet(c.candidates) : p = Pair(l, code, q[1], q[2])
  BY <1>1 DEF PairsOf
<1>3. p.left = q[1] /\ p.right = q[2]
  BY <1>2 DEF Pair
<1>. QED BY <1>2, <1>3

(* Each draft of a cluster is over functions.                                *)
LEMMA DraftedOver ==
  ASSUME NEW l, NEW code, \A m \in Member : code[m] \in DOMAIN Bodies, NEW c, ClusterOver(c),
         NEW given, NEW d \in ToSet(SignatureDrafts(l, code, given, c))
  PROVE  \E members : d.locations = Whole(members)
<1>1. d = OwnDraft(l, code, given, c) \/ \E i : d = GroupDraft(l, code, given, c, i)
  <2>1. PICK n \in Nat :
          /\ \A i \in 1..n :
               /\ ListIn(CloneGroups(l, code, c)[i], ToSet(MatchedPairs(l, code, c)))
               /\ 1 \in DOMAIN CloneGroups(l, code, c)[i]
               /\ Closed(CloneGroups(l, code, c)[i],
                         {p \in ToSet(MatchedPairs(l, code, c)) : Promotable(l, code, p)})
          /\ \A g : ToSet(SignatureDrafts(l, code, g, c)) =
                      {OwnDraft(l, code, g, c)} \cup {GroupDraft(l, code, g, c, i) : i \in 1..n}
    BY SignatureDraftsHas, Zenon
  <2>2. ToSet(SignatureDrafts(l, code, given, c)) =
          {OwnDraft(l, code, given, c)} \cup {GroupDraft(l, code, given, c, i) : i \in 1..n}
    BY <2>1
  <2>. QED BY <2>2
<1>2. OwnDraft(l, code, given, c).locations = Whole(c.members)
  BY DraftLocations DEF OwnDraft
<1>3. \A i : \E members : GroupDraft(l, code, given, c, i).locations = Whole(members)
  BY DraftLocations DEF GroupDraft
<1>. QED BY <1>1, <1>2, <1>3

(* Clusters whose candidates are apart are apart with every body.            *)
LEMMA AnalysedApart == Analysed /\ CandidatesApart => ClustersApart
<1>. SUFFICES ASSUME Analysed, CandidatesApart,
                     NEW c \in ToSet(Clusters(layout, body)),
                     NEW d \in ToSet(Clusters(layout, body)), c # d,
                     Relates(RelationPairs(layout, body, c.candidates), d.members),
                     Relates(RelationPairs(layout, body, d.candidates), c.members)
              PROVE  FALSE
  BY DEF ClustersApart
<1>1. PICK l \in Layouts : layout = Extracted(l)
  BY DEF Analysed
<1>2. Analysable(layout, constants, body)
  BY AnalysedAnalysable
<1>3. c \in ToSet(l.clusters) /\ d \in ToSet(l.clusters)
  <2>1. layout.clusters = l.clusters
    BY <1>1, ExtractedFields
  <2>2. ToSet(Clusters(layout, body)) \subseteq ToSet(layout.clusters)
    BY <1>2, ClustersIn, ListHas
  <2>. QED BY <2>1, <2>2
<1>4. /\ ClusterOver(c) /\ ClusterOver(d)
      /\ \A m \in Member : body[m] \in DOMAIN Bodies
  <2>1. ClusterOver(c) /\ ClusterOver(d)
    BY <1>2, ClustersIn
  <2>. QED BY <1>2, <2>1 DEF Analysable
<1>5. PICK p \in ToSet(RelationPairs(layout, body, c.candidates)) :
        {p.left, p.right} \subseteq d.members
  BY DEF Relates
<1>6. PICK q \in ToSet(c.candidates) : p.left = q[1] /\ p.right = q[2]
  BY <1>4, RelatedCandidate
<1>7. PICK r \in ToSet(RelationPairs(layout, body, d.candidates)) :
        {r.left, r.right} \subseteq c.members
  BY DEF Relates
<1>8. PICK s \in ToSet(d.candidates) : r.left = s[1] /\ r.right = s[2]
  BY <1>4, RelatedCandidate
<1>9. {q[1], q[2]} \subseteq d.members /\ {s[1], s[2]} \subseteq c.members
  BY <1>5, <1>6, <1>7, <1>8
<1>. QED BY <1>3, <1>9 DEF CandidatesApart

LEMMA AnalysedSplits ==
  DivergenceIsCautious /\ Analysed /\ ClustersApart => DivergentClonesStay
<1>. SUFFICES ASSUME DivergenceIsCautious, Analysed, ClustersApart,
                     NEW f \in ToSet(report), RecommendsEdit(f),
                     NEW k \in ToSet(Clusters(layout, body)), Functions(f) \subseteq k.members,
                     NEW p \in ToSet(RelationPairs(layout, body, k.candidates)),
                     Promotable(layout, body, p), {p.left, p.right} \subseteq Functions(f),
                     Diverge(p.left, p.right)
              PROVE  FALSE
  BY DEF DivergentClonesStay
<1>1. Analysable(layout, constants, body)
  BY AnalysedAnalysable
<1>2. \A m \in Member : body[m] \in DOMAIN Bodies
  BY <1>1 DEF Analysable
<1>3. report = Report(Assessed(layout, constants, body, answer))
  BY DEF Analysed
<1>4. f \in ToSet(Assessed(layout, constants, body, answer))
  BY <1>1, <1>3, ReportOf
<1>5. PICK d \in ToSet(Drafts(layout, constants, body, answer)) :
        f.locations = d.locations /\ f.source = d.source /\ f.tier = Assess(d).tier
  BY <1>1, <1>4, TargetsOfDrafts
<1>6. d.source \in {"signature", "structural_pair"} /\ Assess(d).tier = "recommended_edit"
  BY <1>5 DEF RecommendsEdit, OfFunctions
<1>7. d \in ToSet(FunctionDrafts(layout, body, answer))
  BY <1>1, <1>6, DraftsSplit DEF Elsewhere
<1>8. PICK c \in ToSet(Clusters(layout, body)) :
        d \in ToSet(SignatureDrafts(layout, body, answer, c))
  BY <1>1, <1>7, FunctionDraftsHas
<1>9. ClusterOver(c) /\ ClusterOver(k)
  BY <1>1, ClustersIn
<1>10. Apart(layout, body, c, k)
  BY DEF ClustersApart, Apart
<1>11. PICK members : d.locations = Whole(members)
  BY <1>2, <1>8, <1>9, DraftedOver
<1>12. Functions(f) = members
  BY <1>5, <1>11, WholeFunctions DEF Functions
<1>13. Split(answer, p)
  BY DEF Split, Diverge
<1>14. Assess(d).tier # "recommended_edit"
  BY <1>2, <1>8, <1>9, <1>10, <1>11, <1>12, <1>13, DivergentDraft
<1>. QED BY <1>6, <1>14

(* Two clones whose same call is bound to different targets are in no        *)
(* recommended edit of their cluster, in every state whose clusters are      *)
(* apart, if a target that differs is a risk above that of an edit           *)
(* (risk.py): the promoted group of the clones counts the pair, their        *)
(* cluster counts it, and a cluster over them all that does not relate them  *)
(* proposes nothing.                                                         *)
THEOREM DivergentClonesSplit ==
  DivergenceIsCautious => (Spec => [](ClustersApart => DivergentClonesStay))
<1>. SUFFICES ASSUME DivergenceIsCautious
              PROVE  Spec => [](ClustersApart => DivergentClonesStay)
  OBVIOUS
<1>1. Init => Analysed
  BY InitAnalysed
<1>2. Analysed /\ [Next]_vars => Analysed'
  BY NextAnalysed
<1>3. Analysed => (ClustersApart => DivergentClonesStay)
  BY AnalysedSplits
<1>. QED BY <1>1, <1>2, <1>3, PTL DEF Spec

(* Hence whatever the bodies, the answers and the limits, where the          *)
(* candidates of the clusters are apart.                                     *)
THEOREM DivergentClonesKept ==
  DivergenceIsCautious /\ CandidatesApart => (Spec => []DivergentClonesStay)
<1>. SUFFICES ASSUME DivergenceIsCautious, CandidatesApart
              PROVE  Spec => []DivergentClonesStay
  OBVIOUS
<1>1. Init => Analysed
  BY InitAnalysed
<1>2. Analysed /\ [Next]_vars => Analysed'
  BY NextAnalysed
<1>3. Analysed => DivergentClonesStay
  BY AnalysedApart, AnalysedSplits
<1>. QED BY <1>1, <1>2, <1>3, PTL DEF Spec
=============================================================================
