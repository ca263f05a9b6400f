-------------------------- MODULE FileCacheProofs --------------------------
(***************************************************************************)
(* Proofs about FileCache, for every set of files and contents and for     *)
(* any number of edits and runs: the cached rows belong to their hash, a   *)
(* diagnosed file is never stored, the analysis of a file never mixes      *)
(* contents, and, when an edit always changes the file times, a cached     *)
(* analysis is an analysis without a cache.                                *)
(*                                                                         *)
(* None of these is inductive alone. What they rest on is that a manifest  *)
(* entry can only have the stamp of the file while it has its content      *)
(* (Dated), that prefetched signatures are those of the scanned content    *)
(* (Fetched), and that a file is scanned once and analysed once (Ahead).   *)
(***************************************************************************)
EXTENDS FileCache, TLAPS

ConstantFacts == FilesAssumption /\ VersionsAssumption /\ ClockAssumption /\ BoundsAssumption

NoBroken == \A r \in db \cup stored \cup buffer : r[3] \notin Broken

(* An entry that bears the stamp of the file has its content. *)
DatedEntry(e, f) ==
  e # None => /\ e.stamp <= stamp[f]
              /\ e.stamp = stamp[f] => e.hash = disk[f]

Dated ==
  Clock = "fine" => \A f \in Files : DatedEntry(manifest[f], f) /\ DatedEntry(current[f], f)

Stamped == \A f \in Files : stamp[f] <= edits

(* A stat that was taken is not younger than the file. *)
Statted ==
  statted # None => /\ step = "scan" /\ at <= Len(Order)
                    /\ statted <= stamp[Order[at]]

Fetched == \A f \in Files : fetched[f] # None => fetched[f] = scanned[f] /\ fetched[f] \notin Broken

(* What lies ahead of a run has not been done. *)
Ahead ==
  /\ step = "idle" => at = 1 /\ scanned = Nothing
  /\ step = "prefetch" => at = 1
  /\ step = "scan" => \A i \in DOMAIN Order : i >= at => scanned[Order[i]] = None
  /\ step \in {"idle", "scan", "prefetch"} => fetched = Nothing /\ result = Nothing
  /\ step = "analyse" => \A i \in DOMAIN Order : i >= at => result[Order[i]] = None

IInv ==
  /\ TypeOK
  /\ CacheSound
  /\ NoBroken
  /\ Dated
  /\ Stamped
  /\ Statted
  /\ Fetched
  /\ Ahead
  /\ ResultSound

USE DEF files, scan, analysis, store

-----------------------------------------------------------------------------
(* Small facts. *)

(* The file at the index of the run is one of the files. *)
LEMMA FileAt ==
  ASSUME TypeOK, at <= Len(Order)
  PROVE  Order[at] \in Files /\ at \in DOMAIN Order
  BY FilesAssumption DEF TypeOK

LEMMA LookupFacts ==
  ASSUME NEW rows, CacheSound, NoBroken, rows \subseteq db \cup stored \cup buffer,
         NEW t, NEW f, NEW h
  PROVE  /\ Lookup(rows, t, f, h) \in {h, None}
         /\ Lookup(rows, t, f, h) # None => h \notin Broken
<1>1. CASE \E x \in Versions : <<t, f, h, x>> \in rows
  <2>1. PICK x \in Versions : <<t, f, h, x>> \in rows /\ Lookup(rows, t, f, h) = x
    BY <1>1 DEF Lookup
  <2>2. <<t, f, h, x>> \in db \cup stored \cup buffer
    BY <2>1
  <2>3. x = h
    BY <2>2 DEF CacheSound
  <2>4. h \notin Broken
    BY <2>2 DEF NoBroken
  <2> QED
    BY <2>1, <2>3, <2>4
<1>2. CASE ~ \E x \in Versions : <<t, f, h, x>> \in rows
  BY <1>2 DEF Lookup
<1> QED
  BY <1>1, <1>2

(* What the cache has of a scanned file is of the scanned content, and of   *)
(* content that parses.                                                     *)
LEMMA CachedFacts ==
  ASSUME TypeOK, CacheSound, NoBroken, Fetched, NEW f \in Files, scanned[f] # None
  PROVE  LET h == scanned[f]
             c == Cached(f, h)
         IN  /\ h \in Versions /\ h # None /\ h # Gone
             /\ c = [functions |-> c.functions, signatures |-> c.signatures,
                     policy |-> c.policy, diagnosed |-> "no"]
             /\ c.functions \in {h, None}
             /\ c.signatures \in {h, None}
             /\ c.policy \in {h, None}
             /\ Complete(c) => h \notin Broken
             /\ c.functions # None => h \notin Broken
             /\ c.signatures # None => h \notin Broken
<1> DEFINE h == scanned[f]
           c == Cached(f, h)
<1>1. h \in Versions /\ h # None /\ h # Gone
  BY VersionsAssumption DEF TypeOK
<1>2. /\ Lookup(stored, "functions", f, h) \in {h, None}
      /\ Lookup(stored, "functions", f, h) # None => h \notin Broken
  BY LookupFacts
<1>3. Lookup(stored, "policy", f, h) \in {h, None}
  BY LookupFacts
<1>4. fetched[f] \in {h, None} /\ (fetched[f] # None => h \notin Broken)
  BY DEF Fetched
<1>5. c = [functions |-> Lookup(stored, "functions", f, h), signatures |-> fetched[f],
           policy |-> IF f \in PolicyFiles THEN Lookup(stored, "policy", f, h) ELSE h,
           diagnosed |-> "no"]
  BY DEF Cached
<1> HIDE DEF h, c
<1>6. /\ c.functions \in {h, None} /\ c.signatures \in {h, None} /\ c.policy \in {h, None}
      /\ c.functions # None => h \notin Broken
      /\ c.signatures # None => h \notin Broken
      /\ c = [functions |-> c.functions, signatures |-> c.signatures,
              policy |-> c.policy, diagnosed |-> "no"]
  BY <1>2, <1>3, <1>4, <1>5
<1>7. Complete(c) => h \notin Broken
  BY <1>6 DEF Complete
<1> QED
  BY <1>1, <1>6, <1>7 DEF h, c

(* Rows made of the scanned content are sound, and whole when it is joined. *)
LEMMA NewRowsFacts ==
  ASSUME NEW f \in Files, NEW v \in Versions, NEW c, NEW r \in NewRows(f, v, c, v)
  PROVE  r \in Rows /\ r[3] = v /\ r[4] = v
  BY DEF NewRows, Rows, Tables, Signatures

LEMMA JoinedFacts ==
  ASSUME NEW v, v # None, NEW c, NEW d,
         c.functions \in {v, None}, c.signatures \in {v, None}, c.policy \in {v, None}
  PROVE  Joined(c, v, d)
         = [functions |-> v, signatures |-> v, policy |-> v, diagnosed |-> d]
  BY DEF Joined, Fill

LEMMA UpsertFacts ==
  ASSUME NEW rows, NEW new
  PROVE  /\ Upsert(rows, new) \subseteq rows \cup new
  BY DEF Upsert

(* A file keeps the hash it was scanned with to the end of the run. *)
LEMMA ScanOnce ==
  ASSUME TypeOK, Ahead, step = "scan", at <= Len(Order)
  PROVE  scanned[Order[at]] = None
<1>1. at \in DOMAIN Order /\ at \in Nat
  BY FileAt DEF TypeOK
<1> QED
  BY <1>1 DEF Ahead

LEMMA AnalyseOnce ==
  ASSUME TypeOK, Ahead, AtFile
  PROVE  Order[at] \in Files /\ result[Order[at]] = None
<1>1. at \in DOMAIN Order /\ at \in Nat /\ Order[at] \in Files
  BY FileAt DEF TypeOK, AtFile
<1> QED
  BY <1>1 DEF Ahead, AtFile

-----------------------------------------------------------------------------
(* What the steps do to a result. *)

LEMMA ReuseGives ==
  ASSUME IInv, ReuseFile
  PROVE  \E f \in Files :
           /\ f = Order[at] /\ scanned[f] \in Versions \ Broken
           /\ result' = [result EXCEPT ![f] =
                [functions |-> scanned[f], signatures |-> scanned[f],
                 policy |-> scanned[f], diagnosed |-> "no"]]
<1> DEFINE f == Order[at]
           h == scanned[f]
           c == Cached(f, h)
<1>1. f \in Files
  BY AnalyseOnce DEF ReuseFile, IInv
<1>2. h # None /\ Complete(c) /\ result' = [result EXCEPT ![f] = c]
  BY DEF ReuseFile
<1>3. /\ h \in Versions \ Broken
      /\ c = [functions |-> c.functions, signatures |-> c.signatures,
              policy |-> c.policy, diagnosed |-> "no"]
      /\ c.functions \in {h, None} /\ c.signatures \in {h, None} /\ c.policy \in {h, None}
  BY <1>1, <1>2, CachedFacts DEF IInv
<1> HIDE DEF f, h, c
<1>4. c = [functions |-> h, signatures |-> h, policy |-> h, diagnosed |-> "no"]
  BY <1>2, <1>3 DEF Complete
<1> QED
  BY <1>1, <1>2, <1>3, <1>4 DEF f, h, c

LEMMA ParseGives ==
  ASSUME IInv, ParseFile \/ DiagnoseFile
  PROVE  \E f \in Files :
           /\ f = Order[at] /\ scanned[f] \in Versions
           /\ result' = [result EXCEPT ![f] =
                [functions |-> scanned[f], signatures |-> scanned[f],
                 policy |-> scanned[f],
                 diagnosed |-> IF scanned[f] \in Broken THEN "parse" ELSE "no"]]
           /\ buffer' \subseteq buffer \cup NewRows(f, scanned[f], Cached(f, scanned[f]), scanned[f])
           /\ scanned[f] \in Broken => buffer' = buffer
<1> DEFINE f == Order[at]
           h == scanned[f]
           c == Cached(f, h)
           d == IF h \in Broken THEN "parse" ELSE "no"
<1>1. f \in Files
  BY AnalyseOnce DEF ParseFile, DiagnoseFile, IInv
<1>2. h # None /\ result' = [result EXCEPT ![f] = Joined(c, h, d)]
  BY DEF ParseFile, DiagnoseFile
<1>3. \/ h \in Broken /\ buffer' = buffer
      \/ h \notin Broken /\ buffer' = Upsert(buffer, NewRows(f, h, c, h))
  BY DEF ParseFile, DiagnoseFile
<1>4. /\ h \in Versions /\ h # None
      /\ c.functions \in {h, None} /\ c.signatures \in {h, None} /\ c.policy \in {h, None}
  BY <1>1, <1>2, CachedFacts DEF IInv
<1>5. buffer' \subseteq buffer \cup NewRows(f, h, c, h)
  BY <1>3, UpsertFacts
<1> HIDE DEF f, h, c, d
<1>6. Joined(c, h, d) = [functions |-> h, signatures |-> h, policy |-> h, diagnosed |-> d]
  BY <1>4, JoinedFacts
<1>7. h \in Broken => buffer' = buffer
  BY <1>3
<1>8. result' = [result EXCEPT ![f] =
        [functions |-> h, signatures |-> h, policy |-> h, diagnosed |-> d]]
  BY <1>2, <1>6
<1> QED
  BY <1>1, <1>4, <1>5, <1>7, <1>8 DEF f, h, c, d

LEMMA LoseGives ==
  ASSUME IInv, LoseFile
  PROVE  \E f \in Files :
           /\ f = Order[at] /\ scanned[f] \in Versions /\ disk[f] # scanned[f]
           /\ \E part \in [functions : {scanned[f], None}, signatures : {scanned[f], None},
                           policy : {scanned[f], None}, diagnosed : {"changed", "unreadable"}] :
                result' = [result EXCEPT ![f] = part]
<1> DEFINE f == Order[at]
           h == scanned[f]
           c == Cached(f, h)
           d == IF disk[f] = Gone THEN "unreadable" ELSE "changed"
           part == [c EXCEPT !.diagnosed = d]
<1>1. f \in Files
  BY AnalyseOnce DEF LoseFile, IInv
<1>2. h # None /\ disk[f] # h /\ result' = [result EXCEPT ![f] = part]
  BY DEF LoseFile
<1>3. /\ h \in Versions
      /\ c = [functions |-> c.functions, signatures |-> c.signatures,
              policy |-> c.policy, diagnosed |-> "no"]
      /\ c.functions \in {h, None} /\ c.signatures \in {h, None} /\ c.policy \in {h, None}
  BY <1>1, <1>2, CachedFacts DEF IInv
<1>4. d \in {"changed", "unreadable"}
  OBVIOUS
<1> HIDE DEF f, h, c, d
<1>5. part \in [functions : {h, None}, signatures : {h, None},
                policy : {h, None}, diagnosed : {"changed", "unreadable"}]
  BY <1>3, <1>4
<1> HIDE DEF part
<1> QED
  BY <1>1, <1>2, <1>3, <1>5 DEF f, h

-----------------------------------------------------------------------------
(* The parts of the invariant. *)

LEMMA InitInv == Init => IInv
<1> SUFFICES ASSUME Init PROVE IInv
  OBVIOUS
<1> USE DEF Init, Nothing
<1>1. TypeOK
  BY BoundsAssumption DEF TypeOK
<1>2. CacheSound /\ NoBroken
  BY DEF CacheSound, NoBroken
<1>3. Dated /\ Stamped /\ Statted
  BY DEF Dated, DatedEntry, Stamped, Statted
<1>4. Fetched /\ ResultSound
  BY DEF Fetched, ResultSound
<1>5. Ahead
  BY FilesAssumption DEF Ahead
<1> QED
  BY <1>1, <1>2, <1>3, <1>4, <1>5 DEF IInv

LEMMA TypesStep ==
  ASSUME IInv, [Next]_vars
  PROVE  TypeOK'
<1>0. TypeOK
  BY DEF IInv
<1> USE DEF TypeOK
<1>1. CASE UNCHANGED vars
  BY <1>0, <1>1 DEF vars
<1>2. ASSUME NEW f \in Files, NEW v \in Versions \cup {Gone}, Edit(f, v) PROVE TypeOK'
  BY <1>0, <1>2 DEF Edit
<1>3. CASE Begin
  BY <1>0, <1>3 DEF Begin
<1>4. CASE ScanSkip
  BY <1>0, <1>4 DEF ScanSkip
<1>5. CASE ScanHit
  <2>1. Order[at] \in Files
    BY <1>0, <1>5, FileAt DEF ScanHit
  <2>2. manifest[Order[at]] \in Stat
    BY <1>0, <2>1, <1>5 DEF ScanHit, Vouches
  <2>3. manifest[Order[at]].hash \in Versions /\ stamp[Order[at]] \in Nat
    BY <1>0, <2>1, <2>2 DEF Stat
  <2>4. [stamp |-> stamp[Order[at]], hash |-> manifest[Order[at]].hash] \in Stat
    BY <2>3 DEF Stat
  <2> QED
    BY <1>0, <2>1, <2>3, <2>4, <1>5 DEF ScanHit
<1>6. CASE ScanStat
  <2>1. Order[at] \in Files
    BY <1>0, <1>6, FileAt DEF ScanStat
  <2> QED
    BY <1>0, <2>1, <1>6 DEF ScanStat
<1>7. CASE ScanRead
  <2>1. Order[at] \in Files
    BY <1>0, <1>7, FileAt DEF ScanRead, IInv, Statted
  <2>2. disk[Order[at]] \in Versions /\ statted \in Nat
    BY <1>0, <2>1, <1>7 DEF ScanRead
  <2>3. [stamp |-> statted, hash |-> disk[Order[at]]] \in Stat
    BY <2>2 DEF Stat
  <2> QED
    BY <1>0, <2>1, <2>2, <2>3, <1>7 DEF ScanRead
<1>8. CASE StoreManifest
  BY <1>0, <1>8 DEF StoreManifest
<1>9. CASE Prefetch
  <2>1. \A f \in Files : scanned[f] # None => CachedSignatures(f, scanned[f]) \in Versions \cup {None}
    BY <1>0, LookupFacts DEF CachedSignatures, IInv
  <2> QED
    BY <1>0, <2>1, <1>9 DEF Prefetch
<1>10. CASE SkipFile
  BY <1>0, <1>10 DEF SkipFile
<1>11. CASE ReuseFile
  <2>1. PICK f \in Files : result' = [result EXCEPT ![f] =
           [functions |-> scanned[f], signatures |-> scanned[f],
            policy |-> scanned[f], diagnosed |-> "no"]]
    BY <1>11, ReuseGives
  <2>2. result' \in [Files -> Outcomes \cup {None}]
    BY <1>0, <2>1 DEF Outcomes
  <2> QED
    BY <1>0, <2>2, <1>11 DEF ReuseFile
<1>12. CASE ParseFile
  <2>1. PICK f \in Files :
           /\ scanned[f] \in Versions
           /\ result' = [result EXCEPT ![f] =
                [functions |-> scanned[f], signatures |-> scanned[f], policy |-> scanned[f],
                 diagnosed |-> IF scanned[f] \in Broken THEN "parse" ELSE "no"]]
           /\ buffer' \subseteq buffer \cup NewRows(f, scanned[f], Cached(f, scanned[f]), scanned[f])
    BY <1>12, ParseGives
  <2>2. result' \in [Files -> Outcomes \cup {None}]
    BY <1>0, <2>1 DEF Outcomes
  <2>3. buffer' \subseteq Rows
    BY <1>0, <2>1, NewRowsFacts
  <2> QED
    BY <1>0, <2>2, <2>3, <1>12 DEF ParseFile
<1>13. CASE DiagnoseFile
  <2>1. PICK f \in Files :
           /\ scanned[f] \in Versions
           /\ result' = [result EXCEPT ![f] =
                [functions |-> scanned[f], signatures |-> scanned[f], policy |-> scanned[f],
                 diagnosed |-> IF scanned[f] \in Broken THEN "parse" ELSE "no"]]
    BY <1>13, ParseGives
  <2>2. result' \in [Files -> Outcomes \cup {None}]
    BY <1>0, <2>1 DEF Outcomes
  <2> QED
    BY <1>0, <2>2, <1>13 DEF DiagnoseFile
<1>14. CASE LoseFile
  <2>1. PICK f \in Files :
           /\ scanned[f] \in Versions
           /\ \E part \in [functions : {scanned[f], None}, signatures : {scanned[f], None},
                           policy : {scanned[f], None}, diagnosed : {"changed", "unreadable"}] :
                result' = [result EXCEPT ![f] = part]
    BY <1>14, LoseGives
  <2>2. result' \in [Files -> Outcomes \cup {None}]
    BY <1>0, <2>1 DEF Outcomes
  <2> QED
    BY <1>0, <2>2, <1>14 DEF LoseFile
<1>15. CASE FilesDone
  BY <1>0, <1>15 DEF FilesDone
<1>16. CASE FlushDone
  BY <1>0, <1>16 DEF FlushDone
<1>17. CASE Close
  BY <1>0, <1>17 DEF Close, ForgetRun, Nothing
<1>18. CASE Kill
  BY <1>0, <1>18 DEF Kill, ForgetRun, Nothing
<1>19. ASSUME NEW t \in Tables, Flush(t) PROVE TypeOK'
  <2>1. stored' \subseteq Rows /\ buffer' \subseteq Rows
    BY <1>0, <1>19, UpsertFacts DEF Flush
  <2> QED
    BY <1>0, <2>1, <1>19 DEF Flush
<1> QED
  BY <1>1, <1>2, <1>3, <1>4, <1>5, <1>6, <1>7, <1>8, <1>9, <1>10, <1>11, <1>12, <1>13, <1>14, <1>15, <1>16, <1>17, <1>18, <1>19 DEF Next

LEMMA RowsStep ==
  ASSUME IInv, [Next]_vars
  PROVE  CacheSound' /\ NoBroken'
<1>0. CacheSound /\ NoBroken
  BY DEF IInv
<1> DEFINE Kept == (db \cup stored \cup buffer)' \subseteq db \cup stored \cup buffer
<1>a. Kept => CacheSound' /\ NoBroken'
  BY <1>0 DEF CacheSound, NoBroken
<1>1. CASE UNCHANGED vars
  BY <1>a, <1>1 DEF vars
<1>2. ASSUME NEW f \in Files, NEW v \in Versions \cup {Gone}, Edit(f, v) PROVE CacheSound' /\ NoBroken'
  BY <1>a, <1>2 DEF Edit
<1>3. CASE Begin
  BY <1>a, <1>3 DEF Begin
<1>4. CASE ScanSkip
  BY <1>a, <1>4 DEF ScanSkip
<1>5. CASE ScanHit
  BY <1>a, <1>5 DEF ScanHit
<1>6. CASE ScanStat
  BY <1>a, <1>6 DEF ScanStat
<1>7. CASE ScanRead
  BY <1>a, <1>7 DEF ScanRead
<1>8. CASE StoreManifest
  BY <1>a, <1>8 DEF StoreManifest
<1>9. CASE Prefetch
  BY <1>a, <1>9 DEF Prefetch
<1>10. CASE SkipFile
  BY <1>a, <1>10 DEF SkipFile
<1>11. CASE ReuseFile
  BY <1>a, <1>11 DEF ReuseFile
<1>12. CASE ParseFile
  <2>1. PICK f \in Files :
           /\ scanned[f] \in Versions
           /\ buffer' \subseteq buffer \cup NewRows(f, scanned[f], Cached(f, scanned[f]), scanned[f])
           /\ scanned[f] \in Broken => buffer' = buffer
    BY <1>12, ParseGives
  <2>2. db' = db /\ stored' = stored
    BY <1>12 DEF ParseFile
  <2>3. ASSUME NEW r \in buffer' PROVE r[4] = r[3] /\ r[3] \notin Broken
    <3>1. CASE r \in buffer
      BY <1>0, <3>1 DEF CacheSound, NoBroken
    <3>2. CASE r \notin buffer
      BY <2>1, <3>2, NewRowsFacts
    <3> QED
      BY <3>1, <3>2
  <2> QED
    BY <1>0, <2>2, <2>3 DEF CacheSound, NoBroken
<1>13. CASE DiagnoseFile
  BY <1>a, <1>13 DEF DiagnoseFile
<1>14. CASE LoseFile
  BY <1>a, <1>14 DEF LoseFile
<1>15. CASE FilesDone
  BY <1>a, <1>15 DEF FilesDone
<1>16. CASE FlushDone
  BY <1>a, <1>16 DEF FlushDone
<1>17. CASE Close
  BY <1>a, <1>17 DEF Close, ForgetRun
<1>18. CASE Kill
  BY <1>a, <1>18 DEF Kill, ForgetRun
<1>19. ASSUME NEW t \in Tables, Flush(t) PROVE CacheSound' /\ NoBroken'
  <2>1. stored' \subseteq stored \cup buffer /\ buffer' \subseteq buffer /\ db' = db
    BY <1>19, UpsertFacts DEF Flush
  <2> QED
    BY <1>a, <2>1
<1> QED
  BY <1>1, <1>2, <1>3, <1>4, <1>5, <1>6, <1>7, <1>8, <1>9, <1>10, <1>11, <1>12, <1>13, <1>14, <1>15, <1>16, <1>17, <1>18, <1>19 DEF Next

LEMMA DatedStep ==
  ASSUME IInv, [Next]_vars
  PROVE  Dated' /\ Stamped' /\ Statted'
<1>0. TypeOK /\ Dated /\ Stamped /\ Statted
  BY DEF IInv
<1> USE DEF Dated, DatedEntry, Stamped, Statted
<1>1. CASE UNCHANGED vars
  BY <1>0, <1>1 DEF vars
<1>2. ASSUME NEW f \in Files, NEW v \in Versions \cup {Gone}, Edit(f, v) PROVE Dated' /\ Stamped' /\ Statted'
  <2>1. edits \in Nat /\ edits' = edits + 1 /\ step' = step /\ at' = at
        /\ statted' = statted /\ manifest' = manifest /\ current' = current
    BY <1>0, <1>2 DEF Edit, TypeOK
  <2>2. stamp' = [stamp EXCEPT ![f] = edits + 1] \/ (Clock = "coarse" /\ stamp' = stamp)
    BY <1>2 DEF Edit
  <2>3. \A g \in Files : stamp[g] \in Nat /\ stamp'[g] \in Nat /\ stamp[g] <= stamp'[g]
                        /\ stamp'[g] <= edits'
    BY <1>0, <2>1, <2>2 DEF TypeOK
  <2>4. Stamped'
    BY <2>3
  <2>5. Statted'
    <3> SUFFICES ASSUME statted # None PROVE Statted'
      BY <2>1
    <3>1. Order[at] \in Files /\ statted \in Nat /\ statted <= stamp[Order[at]]
      BY <1>0, FileAt DEF TypeOK
    <3> QED
      BY <1>0, <2>1, <2>3, <3>1
  <2>6. Dated'
    <3> SUFFICES ASSUME Clock = "fine", NEW g \in Files, NEW e \in Stat,
                        DatedEntry(e, g)
                 PROVE  DatedEntry(e, g)'
      BY <1>0, <2>1 DEF TypeOK
    <3>1. e.stamp \in Nat
      BY DEF Stat
    <3>2. CASE g = f
      <4>1. stamp'[g] = edits + 1 /\ stamp[g] <= edits /\ stamp[g] \in Nat
        BY <1>0, <2>2, <3>2 DEF TypeOK
      <4>2. e.stamp <= stamp[g] \/ e = None
        OBVIOUS
      <4> QED
        BY <2>1, <3>1, <4>1, <4>2
    <3>3. CASE g # f
      <4>1. stamp'[g] = stamp[g] /\ disk'[g] = disk[g]
        BY <1>0, <2>2, <3>3, <1>2 DEF Edit, TypeOK
      <4> QED
        BY <4>1
    <3> QED
      BY <3>2, <3>3
  <2> QED
    BY <2>4, <2>5, <2>6
<1>3. CASE Begin
  BY <1>0, <1>3 DEF Begin, AtFile
<1>4. CASE ScanSkip
  BY <1>0, <1>4 DEF ScanSkip, AtFile
<1>5. CASE ScanHit
  <2>1. Order[at] \in Files
    BY <1>0, <1>5, FileAt DEF ScanHit
  <2>2. /\ manifest[Order[at]] # None /\ manifest[Order[at]].stamp = stamp[Order[at]]
        /\ current' = [current EXCEPT ![Order[at]] =
                          [stamp |-> stamp[Order[at]], hash |-> manifest[Order[at]].hash]]
    BY <1>5 DEF ScanHit, Vouches
  <2>3. UNCHANGED <<disk, stamp, edits, manifest, statted, step>> /\ statted = None
    BY <1>5 DEF ScanHit
  <2>4. stamp[Order[at]] \in Nat
    BY <1>0, <2>1 DEF TypeOK
  <2>5. Clock = "fine" => DatedEntry(current'[Order[at]], Order[at])
    BY <1>0, <2>1, <2>2, <2>4 DEF TypeOK
  <2>6. Dated'
    BY <1>0, <2>1, <2>2, <2>3, <2>5 DEF TypeOK
  <2> QED
    BY <1>0, <2>3, <2>6
<1>6. CASE ScanStat
  <2>1. Order[at] \in Files /\ at <= Len(Order)
    BY <1>0, <1>6, FileAt DEF ScanStat
  <2>2. stamp[Order[at]] \in Nat
    BY <1>0, <2>1 DEF TypeOK
  <2> QED
    BY <1>0, <2>1, <2>2, <1>6 DEF ScanStat
<1>7. CASE ScanRead
  <2>1. Order[at] \in Files /\ statted \in Nat /\ statted <= stamp[Order[at]]
    BY <1>0, <1>7, FileAt DEF ScanRead, TypeOK
  <2>2. current' = [current EXCEPT ![Order[at]] = [stamp |-> statted, hash |-> disk[Order[at]]]]
    BY <1>7 DEF ScanRead
  <2>3. UNCHANGED <<disk, stamp, edits, manifest, step>> /\ statted' = None
    BY <1>7 DEF ScanRead
  <2>5. Clock = "fine" => DatedEntry(current'[Order[at]], Order[at])
    BY <1>0, <2>1, <2>2 DEF TypeOK
  <2>6. Dated'
    BY <1>0, <2>1, <2>2, <2>3, <2>5 DEF TypeOK
  <2> QED
    BY <1>0, <2>3, <2>6
<1>8. CASE StoreManifest
  <2>1. statted = None
    <3>1. at \in Nat /\ Len(Order) \in Nat
      BY <1>0, FilesAssumption DEF TypeOK
    <3> QED
      BY <1>0, <3>1, <1>8 DEF StoreManifest
  <2>2. UNCHANGED <<disk, stamp, edits, current, statted>> /\ manifest' \in {manifest, current}
    BY <1>8 DEF StoreManifest
  <2> QED
    BY <1>0, <2>1, <2>2
<1>9. CASE Prefetch
  BY <1>0, <1>9 DEF Prefetch, AtFile
<1>10. CASE SkipFile
  BY <1>0, <1>10 DEF SkipFile, AtFile
<1>11. CASE ReuseFile
  BY <1>0, <1>11 DEF ReuseFile, AtFile
<1>12. CASE ParseFile
  BY <1>0, <1>12 DEF ParseFile, AtFile
<1>13. CASE DiagnoseFile
  BY <1>0, <1>13 DEF DiagnoseFile, AtFile
<1>14. CASE LoseFile
  BY <1>0, <1>14 DEF LoseFile, AtFile
<1>15. CASE FilesDone
  BY <1>0, <1>15 DEF FilesDone, AtFile
<1>16. CASE FlushDone
  BY <1>0, <1>16 DEF FlushDone, AtFile
<1>17. CASE Close
  BY <1>0, <1>17 DEF Close, ForgetRun, Nothing
<1>18. CASE Kill
  BY <1>0, <1>18 DEF Kill, ForgetRun, Nothing
<1>19. ASSUME NEW t \in Tables, Flush(t) PROVE Dated' /\ Stamped' /\ Statted'
  BY <1>0, <1>19 DEF Flush
<1> QED
  BY <1>1, <1>2, <1>3, <1>4, <1>5, <1>6, <1>7, <1>8, <1>9, <1>10, <1>11, <1>12, <1>13, <1>14, <1>15, <1>16, <1>17, <1>18, <1>19 DEF Next

LEMMA FetchedStep ==
  ASSUME IInv, [Next]_vars
  PROVE  Fetched'
<1>0. TypeOK /\ CacheSound /\ NoBroken /\ Fetched /\ Ahead
  BY DEF IInv
<1> USE DEF Fetched
<1>1. CASE UNCHANGED vars
  BY <1>0, <1>1 DEF vars
<1>2. ASSUME NEW f \in Files, NEW v \in Versions \cup {Gone}, Edit(f, v) PROVE Fetched'
  BY <1>0, <1>2 DEF Edit
<1>3. CASE Begin
  BY <1>0, <1>3 DEF Begin
<1>4. CASE ScanSkip
  BY <1>0, <1>4 DEF ScanSkip
<1>5. CASE ScanHit
  <2>1. fetched = Nothing /\ fetched' = fetched
    BY <1>0, <1>5 DEF ScanHit, Ahead
  <2> QED
    BY <2>1 DEF Nothing
<1>6. CASE ScanStat
  BY <1>0, <1>6 DEF ScanStat
<1>7. CASE ScanRead
  <2>1. fetched = Nothing /\ fetched' = fetched
    BY <1>0, <1>7 DEF ScanRead, Ahead
  <2> QED
    BY <2>1 DEF Nothing
<1>8. CASE StoreManifest
  BY <1>0, <1>8 DEF StoreManifest
<1>9. CASE Prefetch
  <2>1. \A f \in Files : scanned[f] # None =>
          /\ CachedSignatures(f, scanned[f]) \in {scanned[f], None}
          /\ CachedSignatures(f, scanned[f]) # None => scanned[f] \notin Broken
    BY <1>0, LookupFacts DEF CachedSignatures
  <2> QED
    BY <1>0, <2>1, <1>9 DEF Prefetch
<1>10. CASE SkipFile
  BY <1>0, <1>10 DEF SkipFile
<1>11. CASE ReuseFile
  BY <1>0, <1>11 DEF ReuseFile
<1>12. CASE ParseFile
  BY <1>0, <1>12 DEF ParseFile
<1>13. CASE DiagnoseFile
  BY <1>0, <1>13 DEF DiagnoseFile
<1>14. CASE LoseFile
  BY <1>0, <1>14 DEF LoseFile
<1>15. CASE FilesDone
  BY <1>0, <1>15 DEF FilesDone
<1>16. CASE FlushDone
  BY <1>0, <1>16 DEF FlushDone
<1>17. CASE Close
  BY <1>17 DEF Close, ForgetRun, Nothing
<1>18. CASE Kill
  BY <1>18 DEF Kill, ForgetRun, Nothing
<1>19. ASSUME NEW t \in Tables, Flush(t) PROVE Fetched'
  BY <1>0, <1>19 DEF Flush
<1> QED
  BY <1>1, <1>2, <1>3, <1>4, <1>5, <1>6, <1>7, <1>8, <1>9, <1>10, <1>11, <1>12, <1>13, <1>14, <1>15, <1>16, <1>17, <1>18, <1>19 DEF Next

LEMMA AheadStep ==
  ASSUME IInv, [Next]_vars
  PROVE  Ahead'
<1>0. TypeOK /\ Ahead
  BY DEF IInv
<1>i. /\ at \in Nat \ {0} /\ Len(Order) \in Nat
      /\ \A i \in DOMAIN Order : i \in Nat /\ i >= 1 /\ i <= Len(Order)
  BY <1>0, FilesAssumption DEF TypeOK
<1>1. CASE UNCHANGED vars
  BY <1>0, <1>1 DEF vars, Ahead
<1>2. ASSUME NEW f \in Files, NEW v \in Versions \cup {Gone}, Edit(f, v) PROVE Ahead'
  BY <1>0, <1>i, <1>2 DEF Edit, Ahead
<1>3. CASE Begin
  <2>1. step = "idle" /\ step' = "scan" /\ UNCHANGED <<at, scanned, fetched, result>>
    BY <1>3 DEF Begin
  <2>2. \A i \in DOMAIN Order : Order[i] \in Files
    BY FilesAssumption
  <2> QED
    BY <1>0, <2>1, <2>2 DEF Ahead, Nothing
<1>4. CASE ScanSkip
  BY <1>0, <1>i, <1>4 DEF ScanSkip, Ahead
<1>5. CASE ScanHit
  <2>1. Order[at] \in Files /\ at \in DOMAIN Order /\ step = "scan" /\ step' = step /\ at' = at + 1
    BY <1>0, <1>5, FileAt DEF ScanHit, IInv, Statted
  <2>2. fetched' = fetched /\ result' = result
    BY <1>5 DEF ScanHit
  <2>3. \A f \in Files : f # Order[at] => scanned'[f] = scanned[f]
    BY <1>0, <2>1, <1>5 DEF ScanHit, TypeOK
  <2>4. ASSUME NEW i \in DOMAIN Order, i >= at + 1 PROVE scanned'[Order[i]] = None
    <3>1. Order[i] \in Files /\ Order[i] # Order[at]
      BY <1>i, <2>1, <2>4, FilesAssumption
    <3>2. scanned[Order[i]] = None
      BY <1>0, <1>i, <2>1, <2>4 DEF Ahead
    <3> QED
      BY <2>3, <3>1, <3>2
  <2> QED
    BY <1>0, <2>1, <2>2, <2>4 DEF Ahead
<1>6. CASE ScanStat
  BY <1>0, <1>i, <1>6 DEF ScanStat, Ahead
<1>7. CASE ScanRead
  <2>1. Order[at] \in Files /\ at \in DOMAIN Order /\ step = "scan" /\ step' = step /\ at' = at + 1
    BY <1>0, <1>7, FileAt DEF ScanRead, IInv, Statted
  <2>2. fetched' = fetched /\ result' = result
    BY <1>7 DEF ScanRead
  <2>3. \A f \in Files : f # Order[at] => scanned'[f] = scanned[f]
    BY <1>0, <2>1, <1>7 DEF ScanRead, TypeOK
  <2>4. ASSUME NEW i \in DOMAIN Order, i >= at + 1 PROVE scanned'[Order[i]] = None
    <3>1. Order[i] \in Files /\ Order[i] # Order[at]
      BY <1>i, <2>1, <2>4, FilesAssumption
    <3>2. scanned[Order[i]] = None
      BY <1>0, <1>i, <2>1, <2>4 DEF Ahead
    <3> QED
      BY <2>3, <3>1, <3>2
  <2> QED
    BY <1>0, <2>1, <2>2, <2>4 DEF Ahead
<1>8. CASE StoreManifest
  BY <1>0, <1>i, <1>8 DEF StoreManifest, Ahead
<1>9. CASE Prefetch
  <2>1. step = "prefetch" /\ step' = "analyse" /\ UNCHANGED <<at, scanned, result>>
    BY <1>9 DEF Prefetch
  <2>2. \A i \in DOMAIN Order : Order[i] \in Files
    BY FilesAssumption
  <2> QED
    BY <1>0, <2>1, <2>2 DEF Ahead, Nothing
<1>10. CASE SkipFile
  BY <1>0, <1>i, <1>10 DEF SkipFile, AtFile, Ahead
<1>11. CASE ReuseFile
  <2>1. Order[at] \in Files /\ at \in DOMAIN Order /\ step = "analyse" /\ step' = step /\ at' = at + 1
    BY <1>0, <1>11, FileAt DEF ReuseFile, AtFile
  <2>3. \A f \in Files : f # Order[at] => result'[f] = result[f]
    BY <1>0, <2>1, <1>11 DEF ReuseFile, TypeOK
  <2>4. ASSUME NEW i \in DOMAIN Order, i >= at + 1 PROVE result'[Order[i]] = None
    <3>1. Order[i] \in Files /\ Order[i] # Order[at]
      BY <1>i, <2>1, <2>4, FilesAssumption
    <3>2. result[Order[i]] = None
      BY <1>0, <1>i, <2>1, <2>4 DEF Ahead
    <3> QED
      BY <2>3, <3>1, <3>2
  <2> QED
    BY <1>0, <2>1, <2>4 DEF Ahead
<1>12. CASE ParseFile
  <2>1. Order[at] \in Files /\ at \in DOMAIN Order /\ step = "analyse" /\ step' = step /\ at' = at + 1
    BY <1>0, <1>12, FileAt DEF ParseFile, AtFile
  <2>3. \A f \in Files : f # Order[at] => result'[f] = result[f]
    BY <1>0, <2>1, <1>12 DEF ParseFile, TypeOK
  <2>4. ASSUME NEW i \in DOMAIN Order, i >= at + 1 PROVE result'[Order[i]] = None
    <3>1. Order[i] \in Files /\ Order[i] # Order[at]
      BY <1>i, <2>1, <2>4, FilesAssumption
    <3>2. result[Order[i]] = None
      BY <1>0, <1>i, <2>1, <2>4 DEF Ahead
    <3> QED
      BY <2>3, <3>1, <3>2
  <2> QED
    BY <1>0, <2>1, <2>4 DEF Ahead
<1>13. CASE DiagnoseFile
  <2>1. Order[at] \in Files /\ at \in DOMAIN Order /\ step = "analyse" /\ step' = step /\ at' = at + 1
    BY <1>0, <1>13, FileAt DEF DiagnoseFile, AtFile
  <2>3. \A f \in Files : f # Order[at] => result'[f] = result[f]
    BY <1>0, <2>1, <1>13 DEF DiagnoseFile, TypeOK
  <2>4. ASSUME NEW i \in DOMAIN Order, i >= at + 1 PROVE result'[Order[i]] = None
    <3>1. Order[i] \in Files /\ Order[i] # Order[at]
      BY <1>i, <2>1, <2>4, FilesAssumption
    <3>2. result[Order[i]] = None
      BY <1>0, <1>i, <2>1, <2>4 DEF Ahead
    <3> QED
      BY <2>3, <3>1, <3>2
  <2> QED
    BY <1>0, <2>1, <2>4 DEF Ahead
<1>14. CASE LoseFile
  <2>1. Order[at] \in Files /\ at \in DOMAIN Order /\ step = "analyse" /\ step' = step /\ at' = at + 1
    BY <1>0, <1>14, FileAt DEF LoseFile, AtFile
  <2>3. \A f \in Files : f # Order[at] => result'[f] = result[f]
    BY <1>0, <2>1, <1>14 DEF LoseFile, TypeOK
  <2>4. ASSUME NEW i \in DOMAIN Order, i >= at + 1 PROVE result'[Order[i]] = None
    <3>1. Order[i] \in Files /\ Order[i] # Order[at]
      BY <1>i, <2>1, <2>4, FilesAssumption
    <3>2. result[Order[i]] = None
      BY <1>0, <1>i, <2>1, <2>4 DEF Ahead
    <3> QED
      BY <2>3, <3>1, <3>2
  <2> QED
    BY <1>0, <2>1, <2>4 DEF Ahead
<1>15. CASE FilesDone
  BY <1>0, <1>i, <1>15 DEF FilesDone, Ahead
<1>16. CASE FlushDone
  BY <1>0, <1>i, <1>16 DEF FlushDone, Ahead
<1>17. CASE Close
  BY <1>17 DEF Close, ForgetRun, Ahead
<1>18. CASE Kill
  BY <1>18 DEF Kill, ForgetRun, Ahead
<1>19. ASSUME NEW t \in Tables, Flush(t) PROVE Ahead'
  BY <1>0, <1>19 DEF Flush, Ahead
<1> QED
  BY <1>1, <1>2, <1>3, <1>4, <1>5, <1>6, <1>7, <1>8, <1>9, <1>10, <1>11, <1>12, <1>13, <1>14, <1>15, <1>16, <1>17, <1>18, <1>19 DEF Next

LEMMA ResultsStep ==
  ASSUME IInv, [Next]_vars
  PROVE  ResultSound'
<1>0. TypeOK /\ Ahead /\ ResultSound
  BY DEF IInv
<1> USE DEF ResultSound
<1>1. CASE UNCHANGED vars
  BY <1>0, <1>1 DEF vars
<1>2. ASSUME NEW f \in Files, NEW v \in Versions \cup {Gone}, Edit(f, v) PROVE ResultSound'
  BY <1>0, <1>2 DEF Edit
<1>3. CASE Begin
  BY <1>0, <1>3 DEF Begin
<1>4. CASE ScanSkip
  BY <1>0, <1>4 DEF ScanSkip
<1>5. CASE ScanHit
  <2>1. result = Nothing /\ result' = result
    BY <1>0, <1>5 DEF ScanHit, Ahead
  <2> QED
    BY <2>1 DEF Nothing
<1>6. CASE ScanStat
  BY <1>0, <1>6 DEF ScanStat
<1>7. CASE ScanRead
  <2>1. result = Nothing /\ result' = result
    BY <1>0, <1>7 DEF ScanRead, Ahead
  <2> QED
    BY <2>1 DEF Nothing
<1>8. CASE StoreManifest
  BY <1>0, <1>8 DEF StoreManifest
<1>9. CASE Prefetch
  BY <1>0, <1>9 DEF Prefetch
<1>10. CASE SkipFile
  BY <1>0, <1>10 DEF SkipFile
<1>11. CASE ReuseFile
  <2>1. PICK f \in Files : result' = [result EXCEPT ![f] =
           [functions |-> scanned[f], signatures |-> scanned[f], policy |-> scanned[f],
            diagnosed |-> "no"]]
         /\ scanned[f] \in Versions
    BY <1>11, ReuseGives
  <2>2. scanned' = scanned /\ scanned[f] # None
    BY <2>1, <1>11, VersionsAssumption DEF ReuseFile
  <2>3. result'[f] = [functions |-> scanned[f], signatures |-> scanned[f],
                      policy |-> scanned[f], diagnosed |-> "no"]
        /\ \A g \in Files : g # f => result'[g] = result[g]
    BY <1>0, <2>1 DEF TypeOK
  <2> QED
    BY <1>0, <2>2, <2>3
<1>12. CASE ParseFile
  <2>1. PICK f \in Files : result' = [result EXCEPT ![f] =
           [functions |-> scanned[f], signatures |-> scanned[f], policy |-> scanned[f],
            diagnosed |-> IF scanned[f] \in Broken THEN "parse" ELSE "no"]]
         /\ scanned[f] \in Versions
    BY <1>12, ParseGives
  <2>2. scanned' = scanned /\ scanned[f] # None
    BY <2>1, <1>12, VersionsAssumption DEF ParseFile
  <2>3. result'[f] = [functions |-> scanned[f], signatures |-> scanned[f],
                      policy |-> scanned[f], diagnosed |-> IF scanned[f] \in Broken THEN "parse" ELSE "no"]
        /\ \A g \in Files : g # f => result'[g] = result[g]
    BY <1>0, <2>1 DEF TypeOK
  <2> QED
    BY <1>0, <2>2, <2>3
<1>13. CASE DiagnoseFile
  <2>1. PICK f \in Files : result' = [result EXCEPT ![f] =
           [functions |-> scanned[f], signatures |-> scanned[f], policy |-> scanned[f],
            diagnosed |-> IF scanned[f] \in Broken THEN "parse" ELSE "no"]]
         /\ scanned[f] \in Versions
    BY <1>13, ParseGives
  <2>2. scanned' = scanned /\ scanned[f] # None
    BY <2>1, <1>13, VersionsAssumption DEF DiagnoseFile
  <2>3. result'[f] = [functions |-> scanned[f], signatures |-> scanned[f],
                      policy |-> scanned[f], diagnosed |-> IF scanned[f] \in Broken THEN "parse" ELSE "no"]
        /\ \A g \in Files : g # f => result'[g] = result[g]
    BY <1>0, <2>1 DEF TypeOK
  <2> QED
    BY <1>0, <2>2, <2>3
<1>14. CASE LoseFile
  <2>1. PICK f \in Files : \E part \in [functions : {scanned[f], None},
            signatures : {scanned[f], None}, policy : {scanned[f], None},
            diagnosed : {"changed", "unreadable"}] : result' = [result EXCEPT ![f] = part]
    BY <1>14, LoseGives
  <2>2. PICK part \in [functions : {scanned[f], None}, signatures : {scanned[f], None},
                       policy : {scanned[f], None}, diagnosed : {"changed", "unreadable"}] :
          result' = [result EXCEPT ![f] = part]
    BY <2>1
  <2>3. scanned' = scanned
    BY <1>14 DEF LoseFile
  <2>4. result'[f] = part /\ \A g \in Files : g # f => result'[g] = result[g]
    BY <1>0, <2>2 DEF TypeOK
  <2> QED
    BY <1>0, <2>3, <2>4
<1>15. CASE FilesDone
  BY <1>0, <1>15 DEF FilesDone
<1>16. CASE FlushDone
  BY <1>0, <1>16 DEF FlushDone
<1>17. CASE Close
  BY <1>17 DEF Close, ForgetRun, Nothing
<1>18. CASE Kill
  BY <1>18 DEF Kill, ForgetRun, Nothing
<1>19. ASSUME NEW t \in Tables, Flush(t) PROVE ResultSound'
  BY <1>0, <1>19 DEF Flush
<1> QED
  BY <1>1, <1>2, <1>3, <1>4, <1>5, <1>6, <1>7, <1>8, <1>9, <1>10, <1>11, <1>12, <1>13, <1>14, <1>15, <1>16, <1>17, <1>18, <1>19 DEF Next

-----------------------------------------------------------------------------
(* The strengthened invariant holds in every reachable state of a run of    *)
(* the cached file analysis. *)
THEOREM Inductive == Spec => []IInv
<1>1. ASSUME IInv, [Next]_vars PROVE IInv'
  BY <1>1, TypesStep, RowsStep, DatedStep, FetchedStep, AheadStep, ResultsStep DEF IInv
<1> QED
  BY <1>1, InitInv, PTL DEF Spec

(* The variables of the cached file analysis keep their types. *)
THEOREM TypeCorrect == Spec => []TypeOK
<1>1. IInv => TypeOK
  BY DEF IInv
<1> QED
  BY <1>1, Inductive, PTL

(* No cache row holds the analysis of another content than its key names,   *)
(* whatever is edited, fails or is killed (cache/file_analysis.py,          *)
(* platform/files.py verified_bytes).                                       *)
THEOREM RowsSound == Spec => []CacheSound
<1>1. IInv => CacheSound
  BY DEF IInv
<1> QED
  BY <1>1, Inductive, PTL

(* A content that does not parse never gets a row, so its diagnostics come  *)
(* back in every run (extraction.py:104).                                   *)
THEOREM DiagnosedStayOut == Spec => []DiagnosedNotStored
<1>1. IInv => DiagnosedNotStored
  BY DEF IInv, NoBroken, DiagnosedNotStored
<1> QED
  BY <1>1, Inductive, PTL

(* The parts of one file's analysis come from one content, and a part is    *)
(* missing only with a diagnostic (extraction.py:70).                       *)
THEOREM ResultsSound == Spec => []ResultSound
<1>1. IInv => ResultSound
  BY DEF IInv
<1> QED
  BY <1>1, Inductive, PTL

(* With an entry that vouches, the manifest has the content of the file.    *)
LEMMA HitCurrent ==
  ASSUME Clock = "fine", IInv, ScanHit
  PROVE  Order[at] \in Files /\ manifest[Order[at]].hash = disk[Order[at]]
<1>1. Order[at] \in Files
  BY FileAt DEF ScanHit, IInv
<1>2. DatedEntry(manifest[Order[at]], Order[at])
  BY <1>1 DEF IInv, Dated
<1> QED
  BY <1>1, <1>2 DEF ScanHit, Vouches, DatedEntry

(* How a step changes what the scan has recorded.                           *)
LEMMA ScanSteps ==
  ASSUME Clock = "fine", IInv, [Next]_vars
  PROVE  \/ scanned' = scanned
         \/ Close \/ Kill
         \/ /\ UNCHANGED <<disk, result>>
            /\ \E f \in Files :
                 /\ scanned[f] = None /\ disk[f] # Gone
                 /\ scanned' = [scanned EXCEPT ![f] = disk[f]]
<1> DEFINE Goal ==
       \/ scanned' = scanned
       \/ Close \/ Kill
       \/ /\ UNCHANGED <<disk, result>>
          /\ \E f \in Files :
               /\ scanned[f] = None /\ disk[f] # Gone
               /\ scanned' = [scanned EXCEPT ![f] = disk[f]]
<1>1. CASE UNCHANGED vars
  BY <1>1 DEF vars
<1>2. ASSUME NEW f \in Files, NEW v \in Versions \cup {Gone}, Edit(f, v) PROVE Goal
  BY <1>2 DEF Edit
<1>3. CASE Begin
  BY <1>3 DEF Begin
<1>4. CASE ScanSkip
  BY <1>4 DEF ScanSkip
<1>5. CASE ScanHit
  <2>1. scanned[Order[at]] = None /\ disk[Order[at]] # Gone
    BY <1>5, ScanOnce DEF ScanHit, IInv
  <2> QED
    BY <2>1, <1>5, HitCurrent DEF ScanHit
<1>6. CASE ScanStat
  BY <1>6 DEF ScanStat
<1>7. CASE ScanRead
  <2>1. statted # None /\ step = "scan" /\ at <= Len(Order)
    BY <1>7 DEF ScanRead, IInv, Statted
  <2>2. Order[at] \in Files /\ scanned[Order[at]] = None
    BY <2>1, FileAt, ScanOnce DEF IInv
  <2> QED
    BY <2>2, <1>7 DEF ScanRead
<1>8. CASE StoreManifest
  BY <1>8 DEF StoreManifest
<1>9. CASE Prefetch
  BY <1>9 DEF Prefetch
<1>10. CASE SkipFile
  BY <1>10 DEF SkipFile
<1>11. CASE ReuseFile
  BY <1>11 DEF ReuseFile
<1>12. CASE ParseFile
  BY <1>12 DEF ParseFile
<1>13. CASE DiagnoseFile
  BY <1>13 DEF DiagnoseFile
<1>14. CASE LoseFile
  BY <1>14 DEF LoseFile
<1>15. CASE FilesDone
  BY <1>15 DEF FilesDone
<1>16. CASE FlushDone
  BY <1>16 DEF FlushDone
<1>17. CASE Close
  BY <1>17 DEF Close, ForgetRun
<1>18. CASE Kill
  BY <1>18 DEF Kill, ForgetRun
<1>19. ASSUME NEW t \in Tables, Flush(t) PROVE Goal
  BY <1>19 DEF Flush
<1> QED
  BY <1>1, <1>2, <1>3, <1>4, <1>5, <1>6, <1>7, <1>8, <1>9, <1>10, <1>11, <1>12, <1>13, <1>14, <1>15, <1>16, <1>17, <1>18, <1>19 DEF Next

(* The hash the scan records is the hash of the content the file then has,  *)
(* read or taken from the manifest (scan_manifest.py:36).                   *)
THEOREM ScansCurrent == ASSUME Clock = "fine" PROVE Spec => ScanCurrent
<1>1. ASSUME IInv, [Next]_vars, NEW f \in Files,
             scanned'[f] # scanned[f], scanned'[f] # None
      PROVE  scanned'[f] = disk[f]
  <2>1. scanned \in [Files -> Versions \cup {None}]
    BY <1>1 DEF IInv, TypeOK
  <2>2. scanned' # scanned /\ ~Close /\ ~Kill
    BY <1>1 DEF Close, Kill, ForgetRun, Nothing
  <2>3. PICK g \in Files : scanned' = [scanned EXCEPT ![g] = disk[g]]
    BY <1>1, <2>2, ScanSteps
  <2> QED
    BY <1>1, <2>1, <2>3
<1> DEFINE Current ==
      \A f \in Files : scanned'[f] # scanned[f] /\ scanned'[f] # None => scanned'[f] = disk[f]
<1>2. IInv /\ [Next]_vars => [Current]_vars
  BY <1>1
<1>3. ScanCurrent <=> [][Current]_vars
  BY DEF ScanCurrent
<1> HIDE DEF Current
<1> QED
  BY <1>2, <1>3, Inductive, PTL DEF Spec

-----------------------------------------------------------------------------
(* Refinement. *)

LEMMA ResultSteps ==
  ASSUME IInv, [Next]_vars, step # "idle" => step' # "idle"
  PROVE  \/ result' = result
         \/ UNCHANGED <<disk, scanned>> /\ \E f \in Files :
              /\ scanned[f] # None /\ result[f] = None
              /\ \/ result' = [result EXCEPT ![f] = Uncached!Full(scanned[f])]
                 \/ /\ disk[f] # scanned[f]
                    /\ \E part \in Uncached!Partial(scanned[f]) :
                         result' = [result EXCEPT ![f] = part]
<1> DEFINE Goal ==
         \/ result' = result
         \/ UNCHANGED <<disk, scanned>> /\ \E f \in Files :
              /\ scanned[f] # None /\ result[f] = None
              /\ \/ result' = [result EXCEPT ![f] = Uncached!Full(scanned[f])]
                 \/ /\ disk[f] # scanned[f]
                    /\ \E part \in Uncached!Partial(scanned[f]) :
                         result' = [result EXCEPT ![f] = part]
<1>1. CASE UNCHANGED vars
  BY <1>1 DEF vars
<1>2. ASSUME NEW f \in Files, NEW v \in Versions \cup {Gone}, Edit(f, v) PROVE Goal
  BY <1>2 DEF Edit
<1>3. CASE Begin
  BY <1>3 DEF Begin
<1>4. CASE ScanSkip
  BY <1>4 DEF ScanSkip
<1>5. CASE ScanHit
  BY <1>5 DEF ScanHit
<1>6. CASE ScanStat
  BY <1>6 DEF ScanStat
<1>7. CASE ScanRead
  BY <1>7 DEF ScanRead
<1>8. CASE StoreManifest
  BY <1>8 DEF StoreManifest
<1>9. CASE Prefetch
  BY <1>9 DEF Prefetch
<1>10. CASE SkipFile
  BY <1>10 DEF SkipFile
<1>11. CASE ReuseFile
  <2>1. PICK f \in Files :
           /\ f = Order[at] /\ scanned[f] \in Versions \ Broken
           /\ result' = [result EXCEPT ![f] =
                [functions |-> scanned[f], signatures |-> scanned[f], policy |-> scanned[f],
                 diagnosed |-> "no"]]
    BY <1>11, ReuseGives
  <2>2. scanned[f] # None /\ result[f] = None /\ UNCHANGED <<disk, scanned>>
    BY <2>1, <1>11, AnalyseOnce DEF ReuseFile, IInv
  <2>3. Uncached!Full(scanned[f]) =
          [functions |-> scanned[f], signatures |-> scanned[f], policy |-> scanned[f],
           diagnosed |-> "no"]
    BY <2>1 DEF Uncached!Full
  <2> QED
    BY <2>1, <2>2, <2>3
<1>12. CASE ParseFile
  <2>1. PICK f \in Files :
           /\ f = Order[at]
           /\ result' = [result EXCEPT ![f] =
                [functions |-> scanned[f], signatures |-> scanned[f], policy |-> scanned[f],
                 diagnosed |-> IF scanned[f] \in Broken THEN "parse" ELSE "no"]]
    BY <1>12, ParseGives
  <2>2. scanned[f] # None /\ result[f] = None /\ UNCHANGED <<disk, scanned>>
    BY <2>1, <1>12, AnalyseOnce DEF ParseFile, IInv
  <2> QED
    BY <2>1, <2>2 DEF Uncached!Full
<1>13. CASE DiagnoseFile
  <2>1. PICK f \in Files :
           /\ f = Order[at]
           /\ result' = [result EXCEPT ![f] =
                [functions |-> scanned[f], signatures |-> scanned[f], policy |-> scanned[f],
                 diagnosed |-> IF scanned[f] \in Broken THEN "parse" ELSE "no"]]
    BY <1>13, ParseGives
  <2>2. scanned[f] # None /\ result[f] = None /\ UNCHANGED <<disk, scanned>>
    BY <2>1, <1>13, AnalyseOnce DEF DiagnoseFile, IInv
  <2> QED
    BY <2>1, <2>2 DEF Uncached!Full
<1>14. CASE LoseFile
  <2>1. PICK f \in Files :
           /\ f = Order[at] /\ disk[f] # scanned[f]
           /\ \E part \in Uncached!Partial(scanned[f]) : result' = [result EXCEPT ![f] = part]
    BY <1>14, LoseGives DEF Uncached!Partial
  <2>2. scanned[f] # None /\ result[f] = None /\ UNCHANGED <<disk, scanned>>
    BY <2>1, <1>14, AnalyseOnce DEF LoseFile, IInv
  <2> QED
    BY <2>1, <2>2
<1>15. CASE FilesDone
  BY <1>15 DEF FilesDone
<1>16. CASE FlushDone
  BY <1>16 DEF FlushDone
<1>17. CASE Close
  BY <1>17 DEF Close, ForgetRun
<1>18. CASE Kill
  BY <1>18 DEF Kill, ForgetRun
<1>19. ASSUME NEW t \in Tables, Flush(t) PROVE Goal
  BY <1>19 DEF Flush
<1> QED
  BY <1>1, <1>2, <1>3, <1>4, <1>5, <1>6, <1>7, <1>8, <1>9, <1>10, <1>11, <1>12, <1>13, <1>14, <1>15, <1>16, <1>17, <1>18, <1>19 DEF Next

LEMMA UncachedStep ==
  ASSUME Clock = "fine", IInv, [Next]_vars
  PROVE  [Uncached!Next]_(Uncached!vars)
<1> USE DEF Uncached!Next, Uncached!vars
<1>1. CASE Close \/ Kill
  BY <1>1 DEF Close, Kill, ForgetRun, Nothing, Uncached!Finish, Uncached!NoResult
<1>2. CASE \E f \in Files, v \in Versions \cup {Gone} : Edit(f, v)
  BY <1>2 DEF Edit, Uncached!Edit
<1>3. CASE ~(Close \/ Kill) /\ ~(\E f \in Files, v \in Versions \cup {Gone} : Edit(f, v))
  <2>1. disk' = disk
    BY <1>3 DEF Next, vars, Begin, ScanSkip, ScanHit, ScanStat, ScanRead, StoreManifest,
         Prefetch, SkipFile, ReuseFile, ParseFile, DiagnoseFile, LoseFile, FilesDone,
         Flush, FlushDone
  <2>2. step # "idle" => step' # "idle"
    BY <1>3 DEF Next, vars, Begin, ScanSkip, ScanHit, ScanStat, ScanRead, StoreManifest,
         Prefetch, SkipFile, ReuseFile, ParseFile, DiagnoseFile, LoseFile, FilesDone,
         Flush, FlushDone
  <2>3. \/ scanned' = scanned
        \/ result' = result /\ \E f \in Files : Uncached!Scan(f)
    BY <1>3, <2>1, ScanSteps DEF Uncached!Scan
  <2>4. \/ result' = result
        \/ \E f \in Files : Uncached!Analyse(f)
    BY <2>1, <2>2, ResultSteps DEF Uncached!Analyse
  <2> QED
    BY <2>1, <2>3, <2>4
<1> QED
  BY <1>1, <1>2, <1>3

(* The analysis with the scan manifest, the prefetch, the write buffer and  *)
(* the row tables implements the analysis without a cache                   *)
(* (docs/methodology.md:310).                                               *)
THEOREM Implements == ASSUME Clock = "fine" PROVE Spec => ImplementsUncached
<1>1. Init => Uncached!Init
  BY DEF Init, Nothing, Uncached!Init, Uncached!NoResult
<1>2. IInv /\ [Next]_vars => [Uncached!Next]_(Uncached!vars)
  BY UncachedStep
<1> QED
  BY <1>1, <1>2, Inductive, PTL DEF Spec, ImplementsUncached, Uncached!Spec
=============================================================================
