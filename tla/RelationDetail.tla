--------------------------- MODULE RelationDetail ---------------------------
(***************************************************************************)
(* From cached file analyses to compared pairs: the detail of a function   *)
(* is loaded only when a cluster compares it, long after the scan, from    *)
(* the cache or from a file that others may have changed by then.          *)
(*                                                                         *)
(* Source: pipeline/signatures.py, cache/context.py (LanguageRunCache),    *)
(* cache/relation_detail.py, cache/relations.py,                           *)
(* analysis/relations/enrichment.py and pairs.py,                          *)
(* adapters/languages/python/adapter.py and ecmascript/adapter.py.         *)
(*                                                                         *)
(* A file has one function. Its content stands for its hash, its analysis, *)
(* its detail and the shape of its body. What the file analysis stores is  *)
(* the subject of FileCache; here it is a set of known contents.           *)
(***************************************************************************)
EXTENDS Naturals

CONSTANTS
  Files,     \* the selected files
  Python,    \* those of the Python adapter; the others are ECMAScript
  Pairs,     \* the pairs <<left, right>> that a cluster may compare
  Versions,  \* contents of a file
  Gone,      \* the content of a deleted file
  Empty,     \* detail of a function whose source was not found
  Bare,      \* a signature as extracted, without detail
  None,
  MaxEdits,  \* bound: edits by others
  MaxRuns    \* bound: runs

ASSUME FilesAssumption == Python \subseteq Files /\ Pairs \subseteq Files \X Files
ASSUME MarksAssumption ==
  /\ {Gone, Empty, Bare, None} \cap Versions = {}
  /\ None \notin {Gone, Empty, Bare} /\ Gone \notin {Empty, Bare} /\ Empty # Bare
ASSUME BoundsAssumption == MaxEdits \in Nat /\ MaxRuns \in Nat

Details == Versions \cup {Empty}
Features == Details \cup {Bare}

VARIABLES
  disk,     \* disk[f]: content of the file, or Gone
  edits,    \* edits so far
  raced,    \* has a file ever been edited during a run?
  step,     \* what the run does next
  runs,     \* runs so far
  scanned,  \* scanned[f]: content the scan hashed, or None
  sources,  \* sources[f]: the verified snapshot of the run, or None
  members,  \* files whose signature the run has
  pending,  \* files to analyse, or functions to hydrate
  cluster,  \* pairs being compared
  hydrated, \* hydrated[f]: features in the memo of the run, or None
  fresh,    \* detail rows to store
  results,  \* comparisons of the run
  cache,    \* rows the open connection sees
  db        \* rows committed

files == <<disk, edits, raced>>
reading == <<scanned, sources, members>>
comparing == <<cluster, hydrated, fresh, results>>
vars == <<files, step, runs, reading, pending, comparing, cache, db>>

Unset == [f \in Files |-> None]
NoRows == [known |-> {}, details |-> {}, trees |-> {}, pairs |-> {}]

Init ==
  /\ disk \in [Files -> Versions] /\ edits = 0 /\ raced = FALSE
  /\ step = "idle" /\ runs = 0
  /\ scanned = Unset /\ sources = Unset /\ members = {} /\ pending = {}
  /\ cluster = {} /\ hydrated = Unset /\ fresh = {} /\ results = {}
  /\ cache = NoRows /\ db = NoRows

(* The value of the row <<key, value>> of a table, or None.                 *)
Lookup(rows, key) ==
  IF \E r \in rows : r[1] = key THEN (CHOOSE r \in rows : r[1] = key)[2] ELSE None

-----------------------------------------------------------------------------
(* Other programs. *)

Edit(f, v) ==
  /\ edits < MaxEdits /\ v # disk[f]
  /\ edits' = edits + 1
  /\ disk' = [disk EXCEPT ![f] = v]
  /\ raced' = (raced \/ step # "idle")
  /\ UNCHANGED <<step, runs, reading, pending, comparing, cache, db>>

-----------------------------------------------------------------------------
(* Scan and analysis of the files. *)

Scan ==
  /\ step = "idle" /\ runs < MaxRuns
  /\ runs' = runs + 1
  /\ scanned' = [f \in Files |-> IF disk[f] = Gone THEN None ELSE disk[f]]
  /\ pending' = {f \in Files : disk[f] # Gone}
  /\ step' = "analyse"
  /\ UNCHANGED <<files, sources, members, comparing, cache, db>>

(* A file whose analysis is stored is not read. *)
Reuse(f) ==
  /\ step = "analyse" /\ f \in pending
  /\ <<f, scanned[f]>> \in cache.known
  /\ members' = members \cup {f}
  /\ pending' = pending \ {f}
  /\ UNCHANGED <<files, step, runs, scanned, sources, comparing, cache, db>>

(* Otherwise it is read and verified. The bytes are the snapshot of the run. *)
Parse(f) ==
  /\ step = "analyse" /\ f \in pending
  /\ <<f, scanned[f]>> \notin cache.known
  /\ disk[f] = scanned[f]
  /\ members' = members \cup {f}
  /\ sources' = [sources EXCEPT ![f] = disk[f]]
  /\ pending' = pending \ {f}
  /\ UNCHANGED <<files, step, runs, scanned, comparing, cache, db>>

(* A file that changed after the scan has no signature in this run. *)
Lose(f) ==
  /\ step = "analyse" /\ f \in pending
  /\ <<f, scanned[f]>> \notin cache.known
  /\ disk[f] # scanned[f]
  /\ pending' = pending \ {f}
  /\ UNCHANGED <<files, step, runs, reading, comparing, cache, db>>

(* The write buffer is flushed. *)
Analysed ==
  /\ step = "analyse" /\ pending = {}
  /\ cache' = [cache EXCEPT !.known = @ \cup {<<f, sources[f]>> : f \in {g \in Files : sources[g] # None}}]
  /\ step' = "cluster"
  /\ UNCHANGED <<files, runs, reading, pending, comparing, db>>

-----------------------------------------------------------------------------
(* Hydration. *)

Compared(C) == {p[1] : p \in C} \cup {p[2] : p \in C}

(* Faulty: the key of a detail row leaves out the content of the file. *)
DetailKeyWithoutContent(f) == <<f, CHOOSE v \in Versions : TRUE>>

DetailKey(f) == <<f, scanned[f]>>

(* Faulty: the memo of the run is not consulted. *)
ClusterWithoutMemo(C) ==
  LET asked == Compared(C)
      found == [f \in asked |-> Lookup(cache.details, DetailKey(f))]
  IN  /\ step = "cluster" /\ C # {} /\ Compared(C) \subseteq members
      /\ cluster' = C
      /\ hydrated' = [f \in Files |-> IF f \in asked THEN found[f] ELSE hydrated[f]]
      /\ pending' = {f \in asked : found[f] = None}
      /\ step' = "hydrate"
      /\ UNCHANGED <<files, runs, reading, fresh, results, cache, db>>

(* A cluster asks for the features of its members. Those in the memo of the *)
(* run or in the cache are there; the others have to be read.               *)
Cluster(C) ==
  LET asked == {f \in Compared(C) : hydrated[f] = None}
      found == [f \in asked |-> Lookup(cache.details, DetailKey(f))]
  IN  /\ step = "cluster" /\ C # {} /\ Compared(C) \subseteq members
      /\ cluster' = C
      /\ hydrated' = [f \in Files |-> IF f \in asked THEN found[f] ELSE hydrated[f]]
      /\ pending' = {f \in asked : found[f] = None}
      /\ step' = "hydrate"
      /\ UNCHANGED <<files, runs, reading, fresh, results, cache, db>>

(* The run has read f before, or the file still is what the scan saw.       *)
Readable(f) == sources[f] # None \/ disk[f] = scanned[f]

(* Faulty: the content of the moment is used. *)
HydrateUnverified(f) ==
  /\ step = "hydrate" /\ f \in pending /\ disk[f] # Gone
  /\ sources' = [sources EXCEPT ![f] = disk[f]]
  /\ hydrated' = [hydrated EXCEPT ![f] = disk[f]]
  /\ fresh' = fresh \cup {<<DetailKey(f), disk[f]>>}
  /\ pending' = pending \ {f}
  /\ UNCHANGED <<files, step, runs, scanned, members, cluster, results, cache, db>>

Hydrate(f) ==
  /\ step = "hydrate" /\ f \in pending
  /\ Readable(f)
  /\ sources' = [sources EXCEPT ![f] = scanned[f]]
  /\ hydrated' = [hydrated EXCEPT ![f] = scanned[f]]
  /\ fresh' = fresh \cup {<<DetailKey(f), scanned[f]>>}
  /\ pending' = pending \ {f}
  /\ UNCHANGED <<files, step, runs, scanned, members, cluster, results, cache, db>>

(* The Python adapter takes a file it cannot read for an empty source: the  *)
(* detail of nothing, and it is stored.                                     *)
HydrateEmpty(f) ==
  /\ step = "hydrate" /\ f \in pending /\ f \in Python
  /\ ~Readable(f)
  /\ hydrated' = [hydrated EXCEPT ![f] = Empty]
  /\ fresh' = fresh \cup {<<DetailKey(f), Empty>>}
  /\ pending' = pending \ {f}
  /\ UNCHANGED <<files, step, runs, reading, cluster, results, cache, db>>

(* The ECMAScript adapter lets SourceChangedError through: the signature is *)
(* compared as extracted, and nothing is stored. (A file that is gone       *)
(* raises an error that ends the run: Close.)                               *)
HydrateBare(f) ==
  /\ step = "hydrate" /\ f \in pending /\ f \notin Python
  /\ ~Readable(f) /\ disk[f] # Gone
  /\ hydrated' = [hydrated EXCEPT ![f] = Bare]
  /\ pending' = pending \ {f}
  /\ UNCHANGED <<files, step, runs, reading, cluster, fresh, results, cache, db>>

StoreDetails ==
  /\ step = "hydrate" /\ pending = {}
  /\ cache' = [cache EXCEPT !.details = @ \cup fresh]
  /\ fresh' = {}
  /\ step' = "compare"
  /\ UNCHANGED <<files, runs, reading, pending, cluster, hydrated, results, db>>

-----------------------------------------------------------------------------
(* Comparison. *)

PairKey(p) == <<p[1], scanned[p[1]], p[2], scanned[p[2]]>>

(* The body hash comes with the signature. *)
TreeKey(p) == {scanned[p[1]], scanned[p[2]]}

(* Two body trees can be measured; equal body hashes need no tree.          *)
Measurable(p) ==
  \/ scanned[p[1]] = scanned[p[2]]
  \/ {hydrated[p[1]], hydrated[p[2]]} \subseteq Versions

Measured(p) ==
  IF Lookup(cache.trees, TreeKey(p)) # None THEN Lookup(cache.trees, TreeKey(p))
  ELSE IF scanned[p[1]] = scanned[p[2]] THEN TreeKey(p)
  ELSE {hydrated[p[1]], hydrated[p[2]]}

(* The comparison of p from the features at hand: the trees it measured, or *)
(* {} for a proxy, and the other features of both sides.                    *)
Comparison(p) ==
  [trees |-> IF Measurable(p) THEN Measured(p) ELSE {},
   left |-> hydrated[p[1]], right |-> hydrated[p[2]]]

(* The comparison of two functions with contents v and w, without a cache.  *)
Exact(v, w) == [trees |-> {v, w}, left |-> v, right |-> w]

(* Pairs without a row are compared; their rows are written, and the rows   *)
(* of the trees that were measured.                                         *)
Compare ==
  LET missed == {p \in cluster : Lookup(cache.pairs, PairKey(p)) = None}
      value == [p \in cluster |-> IF p \in missed THEN Comparison(p)
                                  ELSE Lookup(cache.pairs, PairKey(p))]
  IN  /\ step = "compare"
      /\ results' = results \cup {<<p, value[p]>> : p \in cluster}
      /\ cache' = [cache EXCEPT
           !.pairs = @ \cup {<<PairKey(p), value[p]>> : p \in missed},
           !.trees = @ \cup {<<TreeKey(p), Measured(p)>> : p \in {q \in missed : Measurable(q)}}]
      /\ step' = "cluster"
      /\ cluster' = {}
      /\ UNCHANGED <<files, runs, reading, pending, hydrated, fresh, db>>

-----------------------------------------------------------------------------
(* The end of a run. *)

ForgetRun ==
  /\ step' = "idle"
  /\ scanned' = Unset /\ sources' = Unset /\ members' = {} /\ pending' = {}
  /\ cluster' = {} /\ hydrated' = Unset /\ fresh' = {} /\ results' = {}
  /\ UNCHANGED <<files, runs>>

(* The end of the run, or an error in it: what was written is committed.    *)
Close ==
  /\ step # "idle"
  /\ db' = cache
  /\ ForgetRun
  /\ UNCHANGED cache

Kill ==
  /\ step # "idle"
  /\ cache' = db
  /\ ForgetRun
  /\ UNCHANGED db

-----------------------------------------------------------------------------
Next ==
  \/ \E f \in Files, v \in Versions \cup {Gone} : Edit(f, v)
  \/ Scan
  \/ \E f \in Files : Reuse(f) \/ Parse(f) \/ Lose(f)
  \/ Analysed
  \/ \E C \in SUBSET Pairs : Cluster(C)
  \/ \E f \in Files : Hydrate(f) \/ HydrateEmpty(f) \/ HydrateBare(f)
  \/ StoreDetails \/ Compare \/ Close \/ Kill

Spec == Init /\ [][Next]_vars

-----------------------------------------------------------------------------
Comparisons ==
  [trees : SUBSET Versions, left : Features, right : Features]
Tables ==
  [known : SUBSET (Files \X Versions),
   details : SUBSET ((Files \X Versions) \X Details),
   trees : SUBSET ((SUBSET Versions) \X (SUBSET Versions)),
   pairs : SUBSET ((Files \X Versions \X Files \X Versions) \X Comparisons)]

TypeOK ==
  /\ disk \in [Files -> Versions \cup {Gone}] /\ edits \in Nat /\ raced \in BOOLEAN
  /\ step \in {"idle", "analyse", "cluster", "hydrate", "compare"} /\ runs \in Nat
  /\ scanned \in [Files -> Versions \cup {None}]
  /\ sources \in [Files -> Versions \cup {None}]
  /\ members \subseteq Files /\ pending \subseteq Files
  /\ cluster \subseteq Pairs
  /\ hydrated \in [Files -> Features \cup {None}]
  /\ fresh \subseteq (Files \X Versions) \X Details
  /\ results \subseteq Pairs \X Comparisons
  /\ cache \in Tables /\ db \in Tables

Rows == {cache, db}

(* A detail row holds the detail of the content in its key, or of nothing;  *)
(* the latter only for a Python function (pipeline/signatures.py:246,       *)
(* "never cache detail for new content").                                   *)
DetailBelongs ==
  \A t \in Rows : \A r \in t.details :
    r[2] = r[1][2] \/ (r[2] = Empty /\ r[1][1] \in Python)

(* docs/architecture.md:149, "A cache entry is stored only for a file that  *)
(* was read without problems."                                              *)
DetailWhole == \A t \in Rows : \A r \in t.details : r[2] # Empty

(* A stored tree comparison is that of the two bodies in its key, whatever  *)
(* features were lost (pairs.py:222, "Proxies are not cached").             *)
TreesBelong == \A t \in Rows : \A r \in t.trees : r[1] = r[2]

(* A comparison never uses the detail of another content than the scanned.  *)
ResultsBelong ==
  \A r \in results :
    /\ r[2].left \in {scanned[r[1][1]], Empty, Bare}
    /\ r[2].right \in {scanned[r[1][2]], Empty, Bare}
    /\ r[2].trees \in {{}, TreeKey(r[1])}

(* Whatever changes while a run lasts, no row and no comparison mixes the   *)
(* contents of two versions of a file (signatures.py:244, pairs.py:142).    *)
NothingMixed == DetailBelongs /\ TreesBelong /\ ResultsBelong

(* As long as nobody edits a file during a run, the comparisons of every    *)
(* run, with rows of earlier runs, of failed ones and of other contents in  *)
(* the cache, are those of a run without a cache (docs/methodology.md:310). *)
UnracedExact ==
  ~raced => \A r \in results :
              r[2] = Exact(scanned[r[1][1]], scanned[r[1][2]])

(* pairs.py:103: "With a `cache`, stored results are reused and new ones    *)
(* are stored; the result is the same as without one." A run that has the   *)
(* full detail of both functions reports their exact comparison.            *)
HydratedExact ==
  \A r \in results :
    /\ hydrated[r[1][1]] = scanned[r[1][1]]
    /\ hydrated[r[1][2]] = scanned[r[1][2]]
    => r[2] = Exact(scanned[r[1][1]], scanned[r[1][2]])

(* All clusters of a run compare a function with the same features, also    *)
(* when its file changes between them (the memo of signatures.py:196).      *)
OneDetailPerRun ==
  [][\A f \in Files :
       hydrated[f] # None => hydrated'[f] \in {hydrated[f], None}
                             /\ (hydrated'[f] = None => step' = "idle")]_vars
=============================================================================
