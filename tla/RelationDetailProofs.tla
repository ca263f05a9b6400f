------------------------ MODULE RelationDetailProofs ------------------------
(***************************************************************************)
(* What the rows and the comparisons of a run hold, for any files, pairs   *)
(* and contents, and any number of edits and runs.                         *)
(***************************************************************************)
EXTENDS RelationDetail, TLAPS

(* A row of the detail table, and one of the pair table, is about the       *)
(* contents in its key.                                                     *)
DetailRow(r) == r[2] = r[1][2] \/ (r[2] = Empty /\ r[1][1] \in Python)

PairRow(r) ==
  /\ r[2].left \in {r[1][2], Empty, Bare}
  /\ r[2].right \in {r[1][4], Empty, Bare}
  /\ r[2].trees \in {{}, {r[1][2], r[1][4]}}

Belongs(t) ==
  /\ \A r \in t.details : DetailRow(r)
  /\ \A r \in t.trees : r[1] = r[2]
  /\ \A r \in t.pairs : PairRow(r)

TablesBelong == Belongs(cache) /\ Belongs(db)

(* The memo and the rows to store are about the contents of the scan.       *)
MemoBelongs ==
  /\ \A r \in fresh : DetailRow(r)
  /\ \A f \in Files : hydrated[f] \in {None, scanned[f], Empty, Bare}
  /\ \A f \in members \cup pending : scanned[f] # None

(* Between runs nothing is left of one; a cluster is compared when all its  *)
(* functions have their features.                                           *)
Stages ==
  /\ step = "idle" => /\ results = {} /\ fresh = {} /\ members = {} /\ cluster = {}
                      /\ \A f \in Files : hydrated[f] = None
  /\ step \in {"cluster", "compare"} => pending = {}
  /\ Compared(cluster) \subseteq members
  /\ step = "hydrate" => /\ \A f \in Compared(cluster) : hydrated[f] # None \/ f \in pending
                         /\ \A f \in pending : hydrated[f] = None
  /\ step = "compare" => \A f \in Compared(cluster) : hydrated[f] # None

(* Without an edit during a run, nothing was ever lost.                     *)
WholeTable(t) ==
  /\ \A r \in t.details : r[2] = r[1][2]
  /\ \A r \in t.pairs : r[2] = Exact(r[1][2], r[1][4])

Unraced ==
  ~raced =>
    /\ step # "idle" => \A f \in Files : scanned[f] \in {None, disk[f]}
    /\ WholeTable(cache) /\ WholeTable(db)
    /\ \A r \in fresh : r[2] = r[1][2]
    /\ \A f \in Files : hydrated[f] \in {None, scanned[f]}
    /\ \A r \in results : r[2] = Exact(scanned[r[1][1]], scanned[r[1][2]])

IInv == TypeOK /\ TablesBelong /\ MemoBelongs /\ Stages /\ ResultsBelong /\ Unraced

-----------------------------------------------------------------------------
(* Init and steps that leave the rows alone.                                *)

(* A lookup gives the value of a row with its key, or nothing.              *)
LEMMA LookupFinds ==
  ASSUME NEW rows, NEW key
  PROVE  Lookup(rows, key) = None
           \/ \E r \in rows : r[1] = key /\ Lookup(rows, key) = r[2]
  BY DEF Lookup

(* The marks are no contents, and None is none of them.                     *)
LEMMA Marks ==
  /\ Gone \notin Versions /\ Empty \notin Versions /\ Bare \notin Versions /\ None \notin Versions
  /\ None # Gone /\ None # Empty /\ None # Bare
  BY MarksAssumption

(* The functions of the pairs of a cluster are files.                       *)
LEMMA ComparedFiles ==
  ASSUME NEW C \in SUBSET Pairs
  PROVE  /\ Compared(C) \subseteq Files
         /\ \A p \in C : /\ p = <<p[1], p[2]>> /\ p[1] \in Files /\ p[2] \in Files
                         /\ p[1] \in Compared(C) /\ p[2] \in Compared(C)
  BY FilesAssumption DEF Compared

(* The initial states satisfy the invariant.                                *)
LEMMA InitEstablishes == Init => IInv
<1> SUFFICES ASSUME Init PROVE IInv
  OBVIOUS
<1>1. TypeOK
  BY DEF Init, TypeOK, Unset, NoRows, Tables, Features, Details
<1>2. TablesBelong
  BY DEF Init, TablesBelong, Belongs, NoRows
<1>3. MemoBelongs
  BY DEF Init, MemoBelongs, Unset
<1>4. Stages
  BY DEF Init, Stages, Unset, Compared
<1>5. ResultsBelong
  BY DEF Init, ResultsBelong
<1>6. Unraced
  BY DEF Init, Unraced, WholeTable, NoRows, Unset
<1> QED BY <1>1, <1>2, <1>3, <1>4, <1>5, <1>6 DEF IInv

(* An edit during a run sets `raced'; one between runs meets no scan.       *)
LEMMA EditKeeps ==
  ASSUME IInv, NEW f \in Files, NEW v \in Versions \cup {Gone}, Edit(f, v)
  PROVE  IInv'
<1> USE DEF IInv, Edit, files, reading, comparing
<1>1. TypeOK'
  BY DEF TypeOK
<1>2. TablesBelong'
  BY DEF TablesBelong, Belongs
<1>3. MemoBelongs'
  BY DEF MemoBelongs
<1>4. Stages'
  BY DEF Stages
<1>5. ResultsBelong'
  BY DEF ResultsBelong, TreeKey
<1>6. Unraced'
  BY DEF Unraced, WholeTable, TypeOK
<1> QED BY <1>1, <1>2, <1>3, <1>4, <1>5, <1>6

(* A scan finds nothing of an earlier run but the rows.                     *)
LEMMA ScanKeeps ==
  ASSUME IInv, Scan
  PROVE  IInv'
<1> USE DEF IInv, Scan, files, reading, comparing
<1>1. TypeOK'
  BY DEF TypeOK
<1>2. TablesBelong'
  BY DEF TablesBelong, Belongs
<1>3. MemoBelongs'
  BY Marks DEF MemoBelongs, Stages, TypeOK
<1>4. Stages'
  BY DEF Stages
<1>5. ResultsBelong'
  BY DEF ResultsBelong, Stages
<1>6. Unraced'
  BY DEF Unraced, WholeTable, Stages, TypeOK
<1> QED BY <1>1, <1>2, <1>3, <1>4, <1>5, <1>6

(* The analysis of one file changes no features and no rows.                *)
LEMMA AnalyseFileKeeps ==
  ASSUME IInv, NEW f \in Files, Reuse(f) \/ Parse(f) \/ Lose(f)
  PROVE  IInv'
<1> USE DEF IInv, Reuse, Parse, Lose, files, reading, comparing
<1>1. TypeOK'
  BY DEF TypeOK, MemoBelongs
<1>2. TablesBelong'
  BY DEF TablesBelong, Belongs
<1>3. MemoBelongs'
  BY DEF MemoBelongs
<1>4. Stages'
  BY DEF Stages
<1>5. ResultsBelong'
  BY DEF ResultsBelong, TreeKey
<1>6. Unraced'
  BY DEF Unraced, WholeTable
<1> QED BY <1>1, <1>2, <1>3, <1>4, <1>5, <1>6

(* The flush of the analysis adds rows of another table.                    *)
LEMMA AnalysedKeeps ==
  ASSUME IInv, Analysed
  PROVE  IInv'
<1> USE DEF IInv, Analysed, files, reading, comparing
<1>1. /\ cache'.details = cache.details /\ cache'.trees = cache.trees
      /\ cache'.pairs = cache.pairs
  BY DEF TypeOK, Tables
<1>2. TypeOK'
  <2>1. {<<f, sources[f]>> : f \in {g \in Files : sources[g] # None}} \subseteq Files \X Versions
    BY DEF TypeOK
  <2>2. cache' \in Tables
    BY <2>1 DEF TypeOK, Tables
  <2> QED BY <2>2 DEF TypeOK
<1>3. TablesBelong'
  BY <1>1 DEF TablesBelong, Belongs
<1>4. MemoBelongs'
  BY DEF MemoBelongs
<1>5. Stages'
  BY DEF Stages
<1>6. ResultsBelong'
  BY DEF ResultsBelong, TreeKey
<1>7. Unraced'
  BY <1>1 DEF Unraced, WholeTable
<1> QED BY <1>2, <1>3, <1>4, <1>5, <1>6, <1>7

-----------------------------------------------------------------------------
(* Hydration.                                                               *)

(* The detail a cluster finds in the cache for one of its functions.        *)
LEMMA FoundDetail ==
  ASSUME IInv, NEW f \in Files, scanned[f] # None
  PROVE  LET found == Lookup(cache.details, DetailKey(f))
         IN  /\ found \in Features \cup {None}
             /\ found \in {None, scanned[f], Empty, Bare}
             /\ ~raced => found \in {None, scanned[f]}
<1> DEFINE found == Lookup(cache.details, DetailKey(f))
<1>1. CASE found = None
  BY <1>1
<1>2. CASE \E r \in cache.details : r[1] = DetailKey(f) /\ found = r[2]
  <2>1. PICK r \in cache.details : r[1] = DetailKey(f) /\ found = r[2]
    BY <1>2
  <2>2. r[2] \in Details
    BY DEF IInv, TypeOK, Tables
  <2>3. r[1][2] = scanned[f]
    BY <2>1 DEF DetailKey
  <2>4. r[2] = scanned[f] \/ r[2] = Empty
    BY <2>3 DEF IInv, TablesBelong, Belongs, DetailRow
  <2>5. ~raced => r[2] = scanned[f]
    BY <2>3 DEF IInv, Unraced, WholeTable
  <2> QED BY <2>1, <2>2, <2>4, <2>5 DEF Features
<1> QED BY <1>1, <1>2, LookupFinds

(* A cluster takes what the memo has and what the cache has.                *)
LEMMA ClusterKeeps ==
  ASSUME IInv, NEW C \in SUBSET Pairs, Cluster(C)
  PROVE  IInv'
<1> USE DEF IInv, files, reading
<1> DEFINE asked == {f \in Compared(C) : hydrated[f] = None}
           found == [f \in asked |-> Lookup(cache.details, DetailKey(f))]
<1>1. /\ step = "cluster" /\ Compared(C) \subseteq members /\ cluster' = C /\ step' = "hydrate"
      /\ hydrated' = [f \in Files |-> IF f \in asked THEN found[f] ELSE hydrated[f]]
      /\ pending' = {f \in asked : found[f] = None}
      /\ UNCHANGED <<files, runs, reading, fresh, results, cache, db>>
  BY DEF Cluster
<1>2. asked \subseteq Compared(C) /\ asked \subseteq Files /\ Compared(C) \subseteq Files
  BY ComparedFiles
<1>3. \A f \in asked : scanned[f] # None
  BY <1>1, <1>2 DEF MemoBelongs
<1>4. \A f \in asked : /\ found[f] \in Features \cup {None}
                       /\ found[f] \in {None, scanned[f], Empty, Bare}
                       /\ ~raced => found[f] \in {None, scanned[f]}
  BY <1>2, <1>3, FoundDetail
<1> HIDE DEF asked, found
<1>5. \A f \in Files : /\ hydrated'[f] = (IF f \in asked THEN found[f] ELSE hydrated[f])
  BY <1>1
<1>6. TypeOK'
  <2>1. hydrated' \in [Files -> Features \cup {None}]
    BY <1>1, <1>4 DEF TypeOK
  <2>2. pending' \subseteq Files
    BY <1>1, <1>2
  <2> QED BY <1>1, <2>1, <2>2 DEF TypeOK
<1>7. TablesBelong'
  BY <1>1 DEF TablesBelong, Belongs
<1>8. MemoBelongs'
  BY <1>1, <1>2, <1>3, <1>4, <1>5 DEF MemoBelongs
<1>9. Stages'
  <2>1. \A f \in Compared(C) : hydrated'[f] # None \/ f \in pending'
    <3> SUFFICES ASSUME NEW f \in Compared(C), hydrated'[f] = None PROVE f \in pending'
      OBVIOUS
    <3>1. CASE f \in asked
      BY <1>1, <1>2, <1>5, <3>1
    <3>2. CASE f \notin asked
      BY <1>2, <1>5, <3>2 DEF asked
    <3> QED BY <3>1, <3>2
  <2>2. \A f \in pending' : hydrated'[f] = None
    BY <1>1, <1>2, <1>5
  <2> QED BY <1>1, <2>1, <2>2 DEF Stages
<1>10. ResultsBelong'
  BY <1>1 DEF ResultsBelong, TreeKey
<1>11. Unraced'
  BY <1>1, <1>4, <1>5 DEF Unraced, WholeTable
<1> QED BY <1>6, <1>7, <1>8, <1>9, <1>10, <1>11

(* The detail of one function is read.                                      *)
LEMMA HydrateKeeps ==
  ASSUME IInv, NEW f \in Files, Hydrate(f)
  PROVE  IInv'
<1> USE DEF IInv, Hydrate, files, reading
<1>1. scanned[f] \in Versions
  BY DEF MemoBelongs, TypeOK
<1>2. \A g \in Files : hydrated'[g] = IF g = f THEN scanned[f] ELSE hydrated[g]
  BY DEF TypeOK
<1>3. TypeOK'
  BY <1>1 DEF TypeOK, DetailKey, Features, Details
<1>4. TablesBelong'
  BY DEF TablesBelong, Belongs
<1>5. MemoBelongs'
  BY <1>1, <1>2 DEF MemoBelongs, DetailRow, DetailKey
<1>6. Stages'
  BY <1>1, <1>2, Marks, ComparedFiles DEF Stages, TypeOK
<1>7. ResultsBelong'
  BY DEF ResultsBelong, TreeKey
<1>8. Unraced'
  BY <1>2 DEF Unraced, WholeTable, DetailKey
<1> QED BY <1>3, <1>4, <1>5, <1>6, <1>7, <1>8

(* A Python file that cannot be read any more has been edited in the run.   *)
LEMMA HydrateEmptyKeeps ==
  ASSUME IInv, NEW f \in Files, HydrateEmpty(f)
  PROVE  IInv'
<1> USE DEF IInv, HydrateEmpty, files, reading
<1>1. scanned[f] \in Versions
  BY DEF MemoBelongs, TypeOK
<1>2. \A g \in Files : hydrated'[g] = IF g = f THEN Empty ELSE hydrated[g]
  BY DEF TypeOK
<1>3. TypeOK'
  BY <1>1 DEF TypeOK, DetailKey, Features, Details
<1>4. TablesBelong'
  BY DEF TablesBelong, Belongs
<1>5. MemoBelongs'
  BY <1>1, <1>2 DEF MemoBelongs, DetailRow, DetailKey
<1>6. Stages'
  BY <1>1, <1>2, Marks, ComparedFiles DEF Stages, TypeOK
<1>7. ResultsBelong'
  BY DEF ResultsBelong, TreeKey
<1>8. raced
  BY <1>1, Marks DEF Unraced, Readable
<1>9. Unraced'
  BY <1>8 DEF Unraced
<1> QED BY <1>3, <1>4, <1>5, <1>6, <1>7, <1>9

(* So has an ECMAScript file.                                               *)
LEMMA HydrateBareKeeps ==
  ASSUME IInv, NEW f \in Files, HydrateBare(f)
  PROVE  IInv'
<1> USE DEF IInv, HydrateBare, files, reading
<1>1. scanned[f] \in Versions
  BY DEF MemoBelongs, TypeOK
<1>2. \A g \in Files : hydrated'[g] = IF g = f THEN Bare ELSE hydrated[g]
  BY DEF TypeOK
<1>3. TypeOK'
  BY <1>1 DEF TypeOK, Features, Details
<1>4. TablesBelong'
  BY DEF TablesBelong, Belongs
<1>5. MemoBelongs'
  BY <1>1, <1>2 DEF MemoBelongs
<1>6. Stages'
  BY <1>1, <1>2, Marks, ComparedFiles DEF Stages, TypeOK
<1>7. ResultsBelong'
  BY DEF ResultsBelong, TreeKey
<1>8. raced
  BY <1>1, Marks DEF Unraced, Readable
<1>9. Unraced'
  BY <1>8 DEF Unraced
<1> QED BY <1>3, <1>4, <1>5, <1>6, <1>7, <1>9

(* What was read is written.                                                *)
LEMMA StoreDetailsKeeps ==
  ASSUME IInv, StoreDetails
  PROVE  IInv'
<1> USE DEF IInv, StoreDetails, files, reading
<1>1. /\ cache'.details = cache.details \cup fresh /\ cache'.trees = cache.trees
      /\ cache'.pairs = cache.pairs /\ cache'.known = cache.known
  BY DEF TypeOK, Tables
<1>2. TypeOK'
  <2>1. cache' \in Tables
    BY DEF TypeOK, Tables
  <2> QED BY <2>1 DEF TypeOK
<1>3. TablesBelong'
  BY <1>1 DEF TablesBelong, Belongs, MemoBelongs
<1>4. MemoBelongs'
  BY DEF MemoBelongs
<1>5. Stages'
  BY DEF Stages
<1>6. ResultsBelong'
  BY DEF ResultsBelong, TreeKey
<1>7. Unraced'
  BY <1>1 DEF Unraced, WholeTable
<1> QED BY <1>2, <1>3, <1>4, <1>5, <1>6, <1>7

-----------------------------------------------------------------------------
(* Comparison.                                                              *)

(* The trees of a pair are measured once, and are those of the scan.        *)
LEMMA MeasuredTrees ==
  ASSUME IInv, NEW p, p[1] \in Files, p[2] \in Files, Measurable(p)
  PROVE  Measured(p) = TreeKey(p)
<1>1. CASE Lookup(cache.trees, TreeKey(p)) # None
  <2>1. PICK r \in cache.trees : r[1] = TreeKey(p) /\ Lookup(cache.trees, TreeKey(p)) = r[2]
    BY <1>1, LookupFinds
  <2>2. r[1] = r[2]
    BY DEF IInv, TablesBelong, Belongs
  <2> QED BY <1>1, <2>1, <2>2 DEF Measured
<1>2. CASE Lookup(cache.trees, TreeKey(p)) = None /\ scanned[p[1]] = scanned[p[2]]
  BY <1>2 DEF Measured
<1>3. CASE Lookup(cache.trees, TreeKey(p)) = None /\ scanned[p[1]] # scanned[p[2]]
  <2>1. hydrated[p[1]] \in Versions /\ hydrated[p[2]] \in Versions
    BY <1>3 DEF Measurable
  <2>2. hydrated[p[1]] = scanned[p[1]] /\ hydrated[p[2]] = scanned[p[2]]
    BY <2>1, Marks DEF IInv, MemoBelongs
  <2> QED BY <1>3, <2>2 DEF Measured, TreeKey
<1> QED BY <1>1, <1>2, <1>3

(* What the pairs of a cluster are compared by.                             *)
LEMMA ClusterReady ==
  ASSUME IInv, step = "compare", NEW p \in cluster
  PROVE  /\ p \in Pairs /\ p[1] \in Files /\ p[2] \in Files
         /\ scanned[p[1]] \in Versions /\ scanned[p[2]] \in Versions
         /\ hydrated[p[1]] \in {scanned[p[1]], Empty, Bare}
         /\ hydrated[p[2]] \in {scanned[p[2]], Empty, Bare}
         /\ ~raced => hydrated[p[1]] = scanned[p[1]] /\ hydrated[p[2]] = scanned[p[2]]
<1>1. /\ p \in Pairs /\ p[1] \in Files /\ p[2] \in Files
      /\ p[1] \in Compared(cluster) /\ p[2] \in Compared(cluster)
  BY ComparedFiles DEF IInv, TypeOK
<1>2. p[1] \in members /\ p[2] \in members
  BY <1>1 DEF IInv, Stages
<1>3. scanned[p[1]] \in Versions /\ scanned[p[2]] \in Versions
  BY <1>1, <1>2 DEF IInv, TypeOK, MemoBelongs
<1>4. hydrated[p[1]] # None /\ hydrated[p[2]] # None
  BY <1>1 DEF IInv, Stages
<1>5. /\ hydrated[p[1]] \in {None, scanned[p[1]], Empty, Bare}
      /\ hydrated[p[2]] \in {None, scanned[p[2]], Empty, Bare}
  BY <1>1 DEF IInv, MemoBelongs
<1>6. ~raced => /\ hydrated[p[1]] \in {None, scanned[p[1]]}
                /\ hydrated[p[2]] \in {None, scanned[p[2]]}
  BY <1>1 DEF IInv, Unraced
<1> QED BY <1>1, <1>3, <1>4, <1>5, <1>6

(* A comparison belongs to the contents of the scan, and is exact unless a  *)
(* file was edited during a run.                                            *)
LEMMA ComparisonBelongs ==
  ASSUME IInv, step = "compare", NEW p \in cluster
  PROVE  /\ Comparison(p) \in Comparisons
         /\ Comparison(p).left \in {scanned[p[1]], Empty, Bare}
         /\ Comparison(p).right \in {scanned[p[2]], Empty, Bare}
         /\ Comparison(p).trees \in {{}, TreeKey(p)}
         /\ ~raced => Comparison(p) = Exact(scanned[p[1]], scanned[p[2]])
<1> DEFINE trees == IF Measurable(p) THEN Measured(p) ELSE {}
<1>1. Comparison(p) = [trees |-> trees, left |-> hydrated[p[1]], right |-> hydrated[p[2]]]
  BY DEF Comparison
<1>2. trees \in {{}, TreeKey(p)} /\ (Measurable(p) => trees = TreeKey(p))
  BY ClusterReady, MeasuredTrees
<1> HIDE DEF trees
<1>3. TreeKey(p) \in SUBSET Versions
  BY ClusterReady DEF TreeKey
<1>4. Comparison(p) \in Comparisons
  BY <1>1, <1>2, <1>3, ClusterReady DEF Comparisons, Features, Details
<1>5. ~raced => Comparison(p) = Exact(scanned[p[1]], scanned[p[2]])
  <2> SUFFICES ASSUME ~raced PROVE Comparison(p) = Exact(scanned[p[1]], scanned[p[2]])
    OBVIOUS
  <2>1. hydrated[p[1]] = scanned[p[1]] /\ hydrated[p[2]] = scanned[p[2]]
    BY ClusterReady
  <2>2. Measurable(p)
    BY <2>1, ClusterReady DEF Measurable
  <2> QED BY <1>1, <1>2, <2>1, <2>2 DEF Exact, TreeKey
<1> QED BY <1>1, <1>2, <1>4, <1>5, ClusterReady

(* The comparison of a pair: new, or the row it has.                        *)
LEMMA ValueBelongs ==
  ASSUME IInv, step = "compare", NEW p \in cluster, NEW value,
         value = IF Lookup(cache.pairs, PairKey(p)) = None THEN Comparison(p)
                 ELSE Lookup(cache.pairs, PairKey(p))
  PROVE  /\ value \in Comparisons
         /\ value.left \in {scanned[p[1]], Empty, Bare}
         /\ value.right \in {scanned[p[2]], Empty, Bare}
         /\ value.trees \in {{}, TreeKey(p)}
         /\ ~raced => value = Exact(scanned[p[1]], scanned[p[2]])
<1>1. CASE Lookup(cache.pairs, PairKey(p)) = None
  BY <1>1, ComparisonBelongs
<1>2. CASE Lookup(cache.pairs, PairKey(p)) # None
  <2>1. PICK r \in cache.pairs : r[1] = PairKey(p) /\ value = r[2]
    BY <1>2, LookupFinds
  <2>2. r[1][2] = scanned[p[1]] /\ r[1][4] = scanned[p[2]]
    BY <2>1 DEF PairKey
  <2>3. r[2] \in Comparisons
    BY DEF IInv, TypeOK, Tables
  <2>4. PairRow(r) /\ (~raced => r[2] = Exact(r[1][2], r[1][4]))
    BY DEF IInv, TablesBelong, Belongs, Unraced, WholeTable
  <2> QED BY <2>1, <2>2, <2>3, <2>4 DEF PairRow, TreeKey
<1> QED BY <1>1, <1>2

(* The pairs of a cluster are compared, and the new comparisons stored.     *)
LEMMA CompareKeeps ==
  ASSUME IInv, Compare
  PROVE  IInv'
<1> USE DEF IInv, files, reading
<1> DEFINE missed == {p \in cluster : Lookup(cache.pairs, PairKey(p)) = None}
           value == [p \in cluster |-> IF p \in missed THEN Comparison(p)
                                       ELSE Lookup(cache.pairs, PairKey(p))]
           newPairs == {<<PairKey(p), value[p]>> : p \in missed}
           newTrees == {<<TreeKey(p), Measured(p)>> : p \in {q \in missed : Measurable(q)}}
           added == {<<p, value[p]>> : p \in cluster}
<1>1. /\ step = "compare" /\ results' = results \cup added
      /\ cache' = [cache EXCEPT !.pairs = @ \cup newPairs, !.trees = @ \cup newTrees]
      /\ step' = "cluster" /\ cluster' = {}
      /\ UNCHANGED <<files, runs, reading, pending, hydrated, fresh, db>>
  BY DEF Compare
<1>2. \A p \in cluster :
        /\ value[p] \in Comparisons
        /\ value[p].left \in {scanned[p[1]], Empty, Bare}
        /\ value[p].right \in {scanned[p[2]], Empty, Bare}
        /\ value[p].trees \in {{}, TreeKey(p)}
        /\ ~raced => value[p] = Exact(scanned[p[1]], scanned[p[2]])
  <2> SUFFICES ASSUME NEW p \in cluster
               PROVE  /\ value[p] \in Comparisons
                      /\ value[p].left \in {scanned[p[1]], Empty, Bare}
                      /\ value[p].right \in {scanned[p[2]], Empty, Bare}
                      /\ value[p].trees \in {{}, TreeKey(p)}
                      /\ ~raced => value[p] = Exact(scanned[p[1]], scanned[p[2]])
    OBVIOUS
  <2>1. value[p] = IF Lookup(cache.pairs, PairKey(p)) = None THEN Comparison(p)
                   ELSE Lookup(cache.pairs, PairKey(p))
    OBVIOUS
  <2> HIDE DEF value
  <2> QED BY <1>1, <2>1, ValueBelongs
<1> HIDE DEF value
<1>3. \A p \in cluster : PairKey(p) \in Files \X Versions \X Files \X Versions
  BY <1>1, ClusterReady DEF PairKey
<1>4. newPairs \subseteq (Files \X Versions \X Files \X Versions) \X Comparisons
  BY <1>2, <1>3
<1>5. \A r \in newPairs : PairRow(r) /\ (~raced => r[2] = Exact(r[1][2], r[1][4]))
  <2> SUFFICES ASSUME NEW p \in missed, NEW r, r = <<PairKey(p), value[p]>>
               PROVE  PairRow(r) /\ (~raced => r[2] = Exact(r[1][2], r[1][4]))
    OBVIOUS
  <2>1. r[1] = PairKey(p) /\ r[2] = value[p]
    OBVIOUS
  <2>2. r[1][2] = scanned[p[1]] /\ r[1][4] = scanned[p[2]]
    BY <2>1 DEF PairKey
  <2>3. TreeKey(p) = {r[1][2], r[1][4]}
    BY <2>2 DEF TreeKey
  <2> QED BY <1>2, <2>1, <2>2, <2>3 DEF PairRow
<1>6. \A r \in newTrees : r[1] = r[2] /\ r \in (SUBSET Versions) \X (SUBSET Versions)
  <2> SUFFICES ASSUME NEW p \in cluster, Measurable(p)
               PROVE  Measured(p) = TreeKey(p) /\ TreeKey(p) \in SUBSET Versions
    OBVIOUS
  <2> QED BY <1>1, ClusterReady, MeasuredTrees DEF TreeKey
<1>7. added \subseteq Pairs \X Comparisons
  BY <1>1, <1>2, ClusterReady
<1> HIDE DEF newPairs, newTrees
<1>8. /\ cache'.details = cache.details /\ cache'.trees = cache.trees \cup newTrees
      /\ cache'.pairs = cache.pairs \cup newPairs /\ cache'.known = cache.known
  BY <1>1 DEF TypeOK, Tables
<1>9. TypeOK'
  <2>1. cache' \in Tables
    BY <1>1, <1>4, <1>6 DEF TypeOK, Tables
  <2> QED BY <1>1, <1>7, <2>1 DEF TypeOK
<1>10. TablesBelong'
  BY <1>1, <1>5, <1>6, <1>8 DEF TablesBelong, Belongs
<1>11. MemoBelongs'
  BY <1>1 DEF MemoBelongs
<1>12. Stages'
  BY <1>1 DEF Stages, Compared
<1>13. ResultsBelong'
  BY <1>1, <1>2 DEF ResultsBelong, TreeKey
<1>14. Unraced'
  <2>1. ~raced => \A r \in results' : r[2] = Exact(scanned[r[1][1]], scanned[r[1][2]])
    BY <1>1, <1>2 DEF Unraced
  <2> QED BY <1>1, <1>5, <1>8, <2>1 DEF Unraced, WholeTable
<1> QED BY <1>9, <1>10, <1>11, <1>12, <1>13, <1>14

-----------------------------------------------------------------------------
(* The end of a run, and the theorems.                                      *)

(* Nothing of the run is left but its rows.                                 *)
LEMMA EndKeeps ==
  ASSUME IInv, Close \/ Kill
  PROVE  IInv'
<1> USE DEF IInv, Close, Kill, ForgetRun, files
<1>1. TypeOK'
  BY DEF TypeOK, Unset
<1>2. TablesBelong'
  BY DEF TablesBelong, Belongs
<1>3. MemoBelongs'
  BY DEF MemoBelongs, Unset
<1>4. Stages'
  BY DEF Stages, Unset, Compared
<1>5. ResultsBelong'
  BY DEF ResultsBelong
<1>6. Unraced'
  BY DEF Unraced, WholeTable, Unset
<1> QED BY <1>1, <1>2, <1>3, <1>4, <1>5, <1>6

(* Every step keeps the invariant.                                          *)
LEMMA NextKeeps == IInv /\ [Next]_vars => IInv'
<1> SUFFICES ASSUME IInv, [Next]_vars PROVE IInv'
  OBVIOUS
<1>1. CASE \E f \in Files, v \in Versions \cup {Gone} : Edit(f, v)
  BY <1>1, EditKeeps
<1>2. CASE Scan
  BY <1>2, ScanKeeps
<1>3. CASE \E f \in Files : Reuse(f) \/ Parse(f) \/ Lose(f)
  BY <1>3, AnalyseFileKeeps
<1>4. CASE Analysed
  BY <1>4, AnalysedKeeps
<1>5. CASE \E C \in SUBSET Pairs : Cluster(C)
  BY <1>5, ClusterKeeps
<1>6. CASE \E f \in Files : Hydrate(f) \/ HydrateEmpty(f) \/ HydrateBare(f)
  BY <1>6, HydrateKeeps, HydrateEmptyKeeps, HydrateBareKeeps
<1>7. CASE StoreDetails
  BY <1>7, StoreDetailsKeeps
<1>8. CASE Compare
  BY <1>8, CompareKeeps
<1>9. CASE Close \/ Kill
  BY <1>9, EndKeeps
<1>10. CASE UNCHANGED vars
  BY <1>10 DEF vars, files, reading, comparing, IInv, TypeOK, TablesBelong, Belongs,
               MemoBelongs, Stages, ResultsBelong, TreeKey, Unraced, WholeTable
<1> QED BY <1>1, <1>2, <1>3, <1>4, <1>5, <1>6, <1>7, <1>8, <1>9, <1>10 DEF Next

(* The invariant holds in every reachable state.                            *)
THEOREM Invariance == Spec => []IInv
<1> QED BY InitEstablishes, NextKeeps, PTL DEF Spec

(* The variables keep their types.                                          *)
THEOREM TypeCorrect == Spec => []TypeOK
<1>1. IInv => TypeOK
  BY DEF IInv
<1> QED BY <1>1, Invariance, PTL

(* No detail row, tree row or comparison mixes two versions of a file,      *)
(* whatever changes while a run hydrates and compares (signatures.py:244,   *)
(* pairs.py:142).                                                           *)
THEOREM NeverMixed == Spec => []NothingMixed
<1>1. IInv => NothingMixed
  BY DEF IInv, NothingMixed, TablesBelong, Belongs, DetailRow, DetailBelongs, TreesBelong, Rows
<1> QED BY <1>1, Invariance, PTL

(* Without an edit during a run, the comparisons of every run are those of  *)
(* a run without a cache (pairs.py:103).                                    *)
THEOREM ExactUnlessRaced == Spec => []UnracedExact
<1>1. IInv => UnracedExact
  BY DEF IInv, Unraced, UnracedExact
<1> QED BY <1>1, Invariance, PTL

(* The memo keeps what it has of a function until the run ends              *)
(* (signatures.py:196).                                                     *)
LEMMA MemoStays ==
  ASSUME IInv, Next, NEW f \in Files, hydrated[f] # None
  PROVE  hydrated'[f] \in {hydrated[f], None} /\ (hydrated'[f] = None => step' = "idle")
<1> USE DEF files, reading, comparing
<1>1. CASE \E g \in Files, v \in Versions \cup {Gone} : Edit(g, v)
  BY <1>1 DEF Edit
<1>2. CASE Scan \/ Analysed \/ StoreDetails \/ Compare
  BY <1>2 DEF Scan, Analysed, StoreDetails, Compare
<1>3. CASE \E g \in Files : Reuse(g) \/ Parse(g) \/ Lose(g)
  BY <1>3 DEF Reuse, Parse, Lose
<1>4. CASE \E C \in SUBSET Pairs : Cluster(C)
  BY <1>4 DEF Cluster
<1>5. CASE \E g \in Files : Hydrate(g) \/ HydrateEmpty(g) \/ HydrateBare(g)
  <2>1. PICK g \in Files : Hydrate(g) \/ HydrateEmpty(g) \/ HydrateBare(g)
    BY <1>5
  <2>2. g # f
    BY <2>1 DEF IInv, Stages, Hydrate, HydrateEmpty, HydrateBare
  <2> QED BY <2>1, <2>2 DEF IInv, TypeOK, Hydrate, HydrateEmpty, HydrateBare
<1>6. CASE Close \/ Kill
  BY <1>6 DEF Close, Kill, ForgetRun, Unset
<1> QED BY <1>1, <1>2, <1>3, <1>4, <1>5, <1>6 DEF Next

(* All clusters of a run compare a function with the same features.         *)
THEOREM OneDetail == Spec => OneDetailPerRun
<1> DEFINE Stays == \A f \in Files :
                     hydrated[f] # None => hydrated'[f] \in {hydrated[f], None}
                                           /\ (hydrated'[f] = None => step' = "idle")
<1>1. ASSUME IInv, Next PROVE Stays
  BY <1>1, MemoStays
<1>2. IInv /\ [Next]_vars => [Stays]_vars
  BY <1>1
<1> QED BY <1>2, Invariance, PTL DEF Spec, OneDetailPerRun

=============================================================================
