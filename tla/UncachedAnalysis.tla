-------------------------- MODULE UncachedAnalysis --------------------------
(***************************************************************************)
(* What the per-file analysis of a run promises, cache or no cache: the    *)
(* scan sees the content a file has, and the run reports the analysis of   *)
(* exactly that content. Only a file that changed after the scan may lose  *)
(* parts of its analysis, and then it carries a diagnostic.                *)
(*                                                                         *)
(* docs/methodology.md:21, "The result of a cached run is the same as the  *)
(* result of a run without a cache."                                       *)
(***************************************************************************)
CONSTANTS Files, Versions, Broken, Gone, None

VARIABLES disk, scanned, result

vars == <<disk, scanned, result>>

(* The analysis of content v; content that does not parse is diagnosed.     *)
Full(v) ==
  [functions |-> v, signatures |-> v, policy |-> v,
   diagnosed |-> IF v \in Broken THEN "parse" ELSE "no"]

(* What may be left of it when the file changed after the scan.             *)
Partial(v) ==
  [functions : {v, None}, signatures : {v, None}, policy : {v, None},
   diagnosed : {"changed", "unreadable"}]

NoResult == [f \in Files |-> None]

Init ==
  /\ disk \in [Files -> Versions]
  /\ scanned = NoResult
  /\ result = NoResult

(* Someone edits, deletes or restores a file. *)
Edit(f) ==
  /\ disk' \in {[disk EXCEPT ![f] = v] : v \in Versions \cup {Gone}}
  /\ UNCHANGED <<scanned, result>>

Scan(f) ==
  /\ scanned[f] = None /\ disk[f] # Gone
  /\ scanned' = [scanned EXCEPT ![f] = disk[f]]
  /\ UNCHANGED <<disk, result>>

Analyse(f) ==
  /\ scanned[f] # None /\ result[f] = None
  /\ \/ result' = [result EXCEPT ![f] = Full(scanned[f])]
     \/ /\ disk[f] # scanned[f]
        /\ \E part \in Partial(scanned[f]) : result' = [result EXCEPT ![f] = part]
  /\ UNCHANGED <<disk, scanned>>

(* The run ends, fails or is killed. *)
Finish ==
  /\ scanned' = NoResult
  /\ result' = NoResult
  /\ UNCHANGED disk

Next == (\E f \in Files : Edit(f) \/ Scan(f) \/ Analyse(f)) \/ Finish

Spec == Init /\ [][Next]_vars
=============================================================================
