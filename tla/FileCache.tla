----------------------------- MODULE FileCache -----------------------------
(***************************************************************************)
(* The per-file caches of an analysis run while somebody edits the files:  *)
(* the scan manifest (hash trusted while size and times are unchanged),    *)
(* the signature prefetch, the verified read before a parse, the write     *)
(* buffer that is flushed table by table, and the commit at the end.       *)
(*                                                                         *)
(* Source: adapters/repository/scan_manifest.py and filesystem.py,         *)
(* pipeline/repository.py, pipeline/file_analysis.py,                      *)
(* adapters/languages/extraction.py, cache/file_analysis.py, cache/main.py,*)
(* cache/store.py.                                                         *)
(*                                                                         *)
(* A content hash is the content itself. The analysis of content v is v,   *)
(* for each of its parts. Runs do not overlap (AnalysisRun), so there is   *)
(* one run at a time.                                                      *)
(***************************************************************************)
EXTENDS Naturals, Sequences, FiniteSets

CONSTANTS
  Files,       \* the selected files
  Order,       \* the order in which the walk visits them
  Versions,    \* contents a file may have
  Broken,      \* contents that do not parse: their analysis has a diagnostic
  PolicyFiles, \* files whose adapter extracts policy constants
  Clock,       \* "fine": an edit always changes the file times; "coarse": it may not
  MaxEdits,    \* bound: edits by others
  MaxRuns,     \* bound: runs
  Gone,        \* the content of a deleted file
  None

ASSUME FilesAssumption ==
  /\ Order \in Seq(Files)
  /\ \A f \in Files : \E i \in DOMAIN Order : Order[i] = f
  /\ \A i, j \in DOMAIN Order : Order[i] = Order[j] => i = j
ASSUME VersionsAssumption == Broken \subseteq Versions /\ {None, Gone} \cap Versions = {} /\ None # Gone
ASSUME ClockAssumption == Clock \in {"fine", "coarse"}
ASSUME BoundsAssumption == MaxEdits \in Nat /\ MaxRuns \in Nat

Signatures == {"cores", "features", "outputs"}
Tables == Signatures \cup {"functions", "policy"}
Stat == [stamp : Nat, hash : Versions]
Rows == Tables \X Files \X Versions \X Versions
Outcomes ==
  [functions : Versions \cup {None}, signatures : Versions \cup {None},
   policy : Versions \cup {None}, diagnosed : {"no", "parse", "changed", "unreadable"}]

VARIABLES
  disk,      \* disk[f]: the content of file f, or Gone
  stamp,     \* stamp[f]: its size and times, as one number
  edits,     \* edits so far
  manifest,  \* manifest[f]: the entry of scan_manifest.json, or None
  db,        \* committed rows <<table, file, hash, value>>
  step,      \* what the run does next
  runs,      \* runs so far
  at,        \* index in Order of the next file
  statted,   \* the stat taken before the file at `at` is read, or None
  current,   \* the manifest the scan builds
  scanned,   \* scanned[f]: content hash of the file record, or None
  fetched,   \* fetched[f]: prefetched signatures, or None
  result,    \* result[f]: analysis of the file, or None
  buffer,    \* rows in the CacheWriteBuffer
  stored     \* rows the open connection sees

files == <<disk, stamp, edits>>
scan == <<at, statted, current, scanned>>
analysis == <<fetched, result, buffer>>
store == <<manifest, db, stored, runs>>
vars == <<files, scan, analysis, store, step>>

Nothing == [f \in Files |-> None]

Init ==
  /\ disk \in [Files -> Versions]
  /\ stamp = [f \in Files |-> 0]
  /\ edits = 0
  /\ manifest = Nothing
  /\ db = {} /\ stored = {}
  /\ step = "idle" /\ runs = 0
  /\ at = 1 /\ statted = None
  /\ current = Nothing /\ scanned = Nothing
  /\ fetched = Nothing /\ result = Nothing /\ buffer = {}

(* The value of a table for the key of file f with hash h, or None.         *)
Lookup(rows, t, f, h) ==
  IF \E x \in Versions : <<t, f, h, x>> \in rows
    THEN CHOOSE x \in Versions : <<t, f, h, x>> \in rows
    ELSE None

(* An upsert: the new rows replace those with the same key.                 *)
Upsert(rows, new) ==
  {r \in rows : \A n \in new : <<n[1], n[2], n[3]>> # <<r[1], r[2], r[3]>>} \cup new

-----------------------------------------------------------------------------
(* Other programs. *)

Edit(f, v) ==
  /\ edits < MaxEdits /\ v # disk[f]
  /\ edits' = edits + 1
  /\ disk' = [disk EXCEPT ![f] = v]
  /\ \/ stamp' = [stamp EXCEPT ![f] = edits + 1]
     \/ Clock = "coarse" /\ UNCHANGED stamp
  /\ UNCHANGED <<scan, analysis, store, step>>

-----------------------------------------------------------------------------
(* Scan. *)

Begin ==
  /\ step = "idle" /\ runs < MaxRuns
  /\ runs' = runs + 1
  /\ step' = "scan"
  /\ UNCHANGED <<files, scan, analysis, manifest, db, stored>>

(* A manifest entry vouches for the content while size and times are equal. *)
Vouches(entry, f) == entry # None /\ entry.stamp = stamp[f]

(* A file that the walk does not find is not in the scan. *)
ScanSkip ==
  /\ step = "scan" /\ at <= Len(Order) /\ statted = None
  /\ disk[Order[at]] = Gone
  /\ at' = at + 1
  /\ UNCHANGED <<files, statted, current, scanned, analysis, store, step>>

(* The manifest knows the file: it is not read. *)
ScanHit ==
  /\ step = "scan" /\ at <= Len(Order) /\ statted = None
  /\ LET f == Order[at]
     IN  /\ disk[f] # Gone
         /\ Vouches(manifest[f], f)
         /\ scanned' = [scanned EXCEPT ![f] = manifest[f].hash]
         /\ current' = [current EXCEPT ![f] =
                          [stamp |-> stamp[f], hash |-> manifest[f].hash]]
  /\ at' = at + 1
  /\ UNCHANGED <<files, statted, analysis, store, step>>

(* The stat comes first, ... *)
ScanStat ==
  /\ step = "scan" /\ at <= Len(Order) /\ statted = None
  /\ disk[Order[at]] # Gone
  /\ ~Vouches(manifest[Order[at]], Order[at])
  /\ statted' = stamp[Order[at]]
  /\ UNCHANGED <<files, at, current, scanned, analysis, store, step>>

(* ... then the content is read and remembered under that stat. A file that *)
(* is gone by then raises (Fail).                                           *)
ScanRead ==
  /\ step = "scan" /\ statted # None
  /\ LET f == Order[at]
     IN  /\ disk[f] # Gone
         /\ scanned' = [scanned EXCEPT ![f] = disk[f]]
         /\ current' = [current EXCEPT ![f] = [stamp |-> statted, hash |-> disk[f]]]
  /\ at' = at + 1
  /\ statted' = None
  /\ UNCHANGED <<files, analysis, store, step>>

(* store_scan_manifest replaces the file; an OSError is ignored.            *)
StoreManifest ==
  /\ step = "scan" /\ at > Len(Order)
  /\ manifest' \in {manifest, current}
  /\ step' = "prefetch"
  /\ at' = 1
  /\ UNCHANGED <<files, statted, current, scanned, analysis, db, stored, runs>>

-----------------------------------------------------------------------------
(* Analysis of the files. *)

(* The signatures of a file are cached when all three of their tables are.  *)
CachedSignatures(f, h) ==
  IF \A t \in Signatures : Lookup(stored, t, f, h) # None
    THEN Lookup(stored, "cores", f, h)
    ELSE None

Prefetch ==
  /\ step = "prefetch"
  /\ fetched' = [f \in Files |-> IF scanned[f] = None THEN None
                                 ELSE CachedSignatures(f, scanned[f])]
  /\ step' = "analyse"
  /\ UNCHANGED <<files, scan, result, buffer, store>>

(* What the cache has of file f with hash h. *)
Cached(f, h) ==
  [functions |-> Lookup(stored, "functions", f, h),
   signatures |-> fetched[f],
   policy |-> IF f \in PolicyFiles THEN Lookup(stored, "policy", f, h) ELSE h,
   diagnosed |-> "no"]

(* Faulty: the policy constants are forgotten. *)
CompleteWithoutPolicy(c) == c.functions # None /\ c.signatures # None

Complete(c) == c.functions # None /\ c.signatures # None /\ c.policy # None

(* Rows for the parts of file f that the cache does not have yet. *)
NewRows(f, h, c, v) ==
  {<<"functions", f, h, v>> : x \in {c.functions} \cap {None}}
  \cup {<<t, f, h, v>> : t \in {s \in Signatures : c.signatures = None}}
  \cup {<<"policy", f, h, v>> : x \in {c.policy} \cap {None}}

Fill(part, v) == IF part = None THEN v ELSE part

(* The analysis of f joins what is cached with what content v gives. *)
Joined(c, v, diagnosed) ==
  [functions |-> Fill(c.functions, v), signatures |-> Fill(c.signatures, v),
   policy |-> Fill(c.policy, v), diagnosed |-> diagnosed]

AtFile == step = "analyse" /\ at <= Len(Order)

SkipFile ==
  /\ AtFile /\ scanned[Order[at]] = None
  /\ at' = at + 1
  /\ UNCHANGED <<files, statted, current, scanned, analysis, store, step>>

(* Every part is cached: the file is not read.                              *)
ReuseFile ==
  /\ AtFile
  /\ LET f == Order[at]
         c == Cached(f, scanned[f])
     IN  /\ scanned[f] # None /\ Complete(c)
         /\ result' = [result EXCEPT ![f] = c]
  /\ at' = at + 1
  /\ UNCHANGED <<files, statted, current, scanned, fetched, buffer, store, step>>

(* Faulty: the read does not check the hash. *)
ParseFileUnverified ==
  /\ AtFile
  /\ LET f == Order[at]
         c == Cached(f, scanned[f])
         v == disk[f]
     IN  /\ scanned[f] # None /\ ~Complete(c) /\ v # Gone /\ v \notin Broken
         /\ result' = [result EXCEPT ![f] = Joined(c, v, "no")]
         /\ buffer' = Upsert(buffer, NewRows(f, scanned[f], c, v))
  /\ at' = at + 1
  /\ UNCHANGED <<files, statted, current, scanned, fetched, store, step>>

(* verified_bytes finds the hash of the scan: the file is parsed, and the   *)
(* parts the cache does not have are buffered.                              *)
ParseFile ==
  /\ AtFile
  /\ LET f == Order[at]
         c == Cached(f, scanned[f])
         v == disk[f]
     IN  /\ scanned[f] # None /\ ~Complete(c)
         /\ v = scanned[f] /\ v \notin Broken
         /\ result' = [result EXCEPT ![f] = Joined(c, v, "no")]
         /\ buffer' = Upsert(buffer, NewRows(f, scanned[f], c, v))
  /\ at' = at + 1
  /\ UNCHANGED <<files, statted, current, scanned, fetched, store, step>>

(* The file parses with a diagnostic: nothing is stored.                    *)
DiagnoseFile ==
  /\ AtFile
  /\ LET f == Order[at]
         c == Cached(f, scanned[f])
         v == disk[f]
     IN  /\ scanned[f] # None /\ ~Complete(c)
         /\ v = scanned[f] /\ v \in Broken
         /\ result' = [result EXCEPT ![f] = Joined(c, v, "parse")]
  /\ at' = at + 1
  /\ UNCHANGED <<files, statted, current, scanned, fetched, buffer, store, step>>

(* The file changed or went away after the scan: the cached parts stay, the *)
(* others are empty, nothing is stored.                                     *)
LoseFile ==
  /\ AtFile
  /\ LET f == Order[at]
         c == Cached(f, scanned[f])
     IN  /\ scanned[f] # None /\ ~Complete(c)
         /\ disk[f] # scanned[f]
         /\ result' = [result EXCEPT ![f] =
              [c EXCEPT !.diagnosed = IF disk[f] = Gone THEN "unreadable" ELSE "changed"]]
  /\ at' = at + 1
  /\ UNCHANGED <<files, statted, current, scanned, fetched, buffer, store, step>>

-----------------------------------------------------------------------------
(* Storing. *)

FilesDone ==
  /\ step = "analyse" /\ at > Len(Order)
  /\ step' = "flush"
  /\ UNCHANGED <<files, scan, analysis, store>>

(* CacheWriteBuffer.flush writes one namespace after the other. *)
Flush(t) ==
  LET rows == {r \in buffer : r[1] = t}
  IN  /\ step = "flush" /\ rows # {}
      /\ stored' = Upsert(stored, rows)
      /\ buffer' = buffer \ rows
      /\ UNCHANGED <<files, scan, fetched, result, manifest, db, runs, step>>

FlushDone ==
  /\ step = "flush" /\ buffer = {}
  /\ step' = "report"
  /\ UNCHANGED <<files, scan, analysis, store>>

(* What is local to a run goes with it. *)
ForgetRun ==
  /\ step' = "idle"
  /\ at' = 1 /\ statted' = None
  /\ current' = Nothing /\ scanned' = Nothing
  /\ fetched' = Nothing /\ result' = Nothing /\ buffer' = {}

(* The later stages, then PersistentCache.close. An exception in any stage  *)
(* goes there too: what was flushed is committed, what was buffered is not. *)
Close ==
  /\ step # "idle"
  /\ db' = stored
  /\ ForgetRun
  /\ UNCHANGED <<files, manifest, stored, runs>>

(* SIGKILL: the transaction is rolled back. *)
Kill ==
  /\ step # "idle"
  /\ stored' = db
  /\ ForgetRun
  /\ UNCHANGED <<files, manifest, db, runs>>

-----------------------------------------------------------------------------
Next ==
  \/ \E f \in Files, v \in Versions \cup {Gone} : Edit(f, v)
  \/ Begin \/ ScanSkip \/ ScanHit \/ ScanStat \/ ScanRead \/ StoreManifest
  \/ Prefetch \/ SkipFile \/ ReuseFile \/ ParseFile \/ DiagnoseFile \/ LoseFile
  \/ FilesDone \/ (\E t \in Tables : Flush(t)) \/ FlushDone
  \/ Close \/ Kill

Spec == Init /\ [][Next]_vars

-----------------------------------------------------------------------------
TypeOK ==
  /\ disk \in [Files -> Versions \cup {Gone}]
  /\ stamp \in [Files -> Nat]
  /\ edits \in Nat
  /\ manifest \in [Files -> Stat \cup {None}]
  /\ db \subseteq Rows /\ stored \subseteq Rows /\ buffer \subseteq Rows
  /\ step \in {"idle", "scan", "prefetch", "analyse", "flush", "report"}
  /\ runs \in Nat /\ at \in Nat \ {0}
  /\ statted \in Nat \cup {None}
  /\ current \in [Files -> Stat \cup {None}]
  /\ scanned \in [Files -> Versions \cup {None}]
  /\ fetched \in [Files -> Versions \cup {None}]
  /\ result \in [Files -> Outcomes \cup {None}]

(* platform/files.py:137: a value is never cached under the hash of another *)
(* content, whatever is edited, fails or is killed in between.              *)
CacheSound == \A r \in db \cup stored \cup buffer : r[4] = r[3]

(* docs/architecture.md:149: a file that did not parse is analysed again in *)
(* the next run, so nothing of it is stored.                                *)
DiagnosedNotStored == \A r \in db \cup stored : r[3] \notin Broken

(* The parts of a file's analysis all come from the content the scan        *)
(* hashed; what is missing is missing with a diagnostic. Rows of tables     *)
(* that were flushed or committed one without the other do not mix.         *)
ResultSound ==
  \A f \in Files : result[f] # None =>
    LET r == result[f]
    IN  /\ {r.functions, r.signatures, r.policy} \subseteq {scanned[f], None}
        /\ None \in {r.functions, r.signatures, r.policy}
           => r.diagnosed \in {"changed", "unreadable"}

(* The hash a scan records, read or taken from the manifest, is that of the *)
(* content the file has at that moment.                                     *)
ScanCurrent ==
  [][\A f \in Files :
       scanned'[f] # scanned[f] /\ scanned'[f] # None => scanned'[f] = disk[f]]_vars

Uncached == INSTANCE UncachedAnalysis

(* The cached analysis implements the analysis without a cache. *)
ImplementsUncached == Uncached!Spec
=============================================================================
