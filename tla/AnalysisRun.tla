---------------------------- MODULE AnalysisRun ----------------------------
(***************************************************************************)
(* The life of `codeseam analyze` and `codeseam cache clear` on one        *)
(* configuration: two flocks taken in sorted order, the storage roots, the *)
(* single staging directory inside the output root, the entry-by-entry     *)
(* publication of a finished run, the SQLite transaction of the persistent *)
(* cache, and the `finally` blocks that an exception or Ctrl-C runs.       *)
(*                                                                         *)
(* Source: pipeline/analyze.py, output/artifacts/debug.py,                 *)
(* platform/locks.py, platform/storage.py, cache/store.py,                 *)
(* cli/commands/cache.py.                                                  *)
(*                                                                         *)
(* What a run computes is not modelled here: an artifact entry is tagged   *)
(* with the run that wrote it, a cache write is a key.                     *)
(***************************************************************************)
EXTENDS Naturals, Sequences

CONSTANTS
  Analyzers,     \* processes that run `codeseam analyze`
  Clearers,      \* processes that run `codeseam cache clear`
  Public,        \* artifact entries every run writes (manifest.json, README.md, agent)
  Bundle,        \* the entry only a --debug run leaves (debug.jsonl.gz)
  Internal,      \* entries a --debug run writes and prunes (raw, context, ...)
  Directories,   \* the entries that are directories (agent, raw, context)
  WriteOrder,    \* the order in which the stages write Internal and Public
  PublishOrder,  \* every entry, sorted by name
  Keys,          \* cache keys a run may write
  MaxRuns,       \* bound: how many analyze runs are started
  None, Absent, Torn, Spoilt

Procs == Analyzers \cup Clearers
Entries == Public \cup Internal \cup {Bundle}
RunIds == [number : 1..MaxRuns, mode : {"plain", "debug"}]
Contents == RunIds \cup {Absent, Torn}

ASSUME ProcsAssumption == Analyzers \cap Clearers = {} /\ None \notin Procs
ASSUME EntriesAssumption ==
  /\ Public \cap Internal = {}
  /\ Bundle \notin Public \cup Internal
  /\ Directories \subseteq Public \cup Internal
ASSUME OrdersAssumption ==
  /\ WriteOrder \in Seq(Public \cup Internal)
  /\ \A e \in Public \cup Internal : \E i \in DOMAIN WriteOrder : WriteOrder[i] = e
  /\ PublishOrder \in Seq(Entries)
  /\ \A e \in Entries : \E i \in DOMAIN PublishOrder : PublishOrder[i] = e
  /\ \A i, j \in DOMAIN PublishOrder : PublishOrder[i] = PublishOrder[j] => i = j
ASSUME MarksAssumption ==
  /\ Absent # Torn
  /\ {Absent, Torn} \cap RunIds = {}
  /\ None \notin RunIds
ASSUME BoundAssumption == MaxRuns \in Nat

VARIABLES
  pc,        \* pc[p]: the next step of process p
  lock,      \* lock[l]: the process holding the flock of file l, or None
  run,       \* run[p]: the analyze run process p is executing, or None
  at,        \* at[p]: index of the next entry to write or to publish
  started,   \* number of analyze runs started so far
  staging,   \* staging[e]: what is in `.staging`
  reports,   \* reports[e]: what is in the output root
  store,     \* whether the cache directory exists
  db,        \* committed keys of cache.sqlite
  tx,        \* tx[p]: keys written by p and not yet committed
  failed,    \* processes whose running command hit an exception or Ctrl-C
  before,    \* history: reports when p got both locks
  publication  \* history: whether the last publication was cut short

command == <<run, started, failed>>
output == <<staging, reports>>
cache == <<store, db, tx>>
history == <<before, publication>>
vars == <<pc, lock, at, command, output, cache, history>>

Locks == {"analyze.lock", "cache.lock"}

-----------------------------------------------------------------------------
(* The steps of a command, named for what it is about to do. *)
AnalyzeSteps ==
  {"claim", "stage", "open", "work", "finalise", "remove", "rename",
   "cleanup", "close"}
Inside == AnalyzeSteps \cup {"clear"}
Steps == {"idle", "lock_analyze", "lock_cache", "unlock_cache",
          "unlock_analyze"} \cup Inside

(* From the claim of the cache root to the close of the connection a run    *)
(* relies on the cache directory.                                           *)
UsesStore(p) == pc[p] \in AnalyzeSteps \ {"claim"}

(* What the output root holds after run r was published: its own entries   *)
(* and nothing of any other run.                                           *)
Written(r, e) == IF e \in Public \/ (e = Bundle /\ r.mode = "debug") THEN r ELSE Absent

(* The report sets a finished run can publish. *)
WholeReports == {[e \in Entries |-> Written(r, e)] : r \in RunIds}

Init ==
  /\ pc = [p \in Procs |-> "idle"]
  /\ lock = [l \in Locks |-> None]
  /\ run = [p \in Procs |-> None]
  /\ at = [p \in Procs |-> 1]
  /\ started = 0
  /\ staging = [e \in Entries |-> Absent]
  /\ reports = [e \in Entries |-> Absent]
  /\ store = "missing"
  /\ db = {}
  /\ tx = [p \in Procs |-> {}]
  /\ failed = {}
  /\ before = [p \in Procs |-> [e \in Entries |-> Absent]]
  /\ publication = "whole"

goto(p, step) == pc' = [pc EXCEPT ![p] = step]

(* Process p leaves the stages: what was local to them is gone. *)
Forget(p) ==
  /\ at' = [at EXCEPT ![p] = 1]
  /\ before' = [before EXCEPT ![p] = [e \in Entries |-> Absent]]

-----------------------------------------------------------------------------
(* Locks: file_locks() enters the sorted lock paths and leaves them in     *)
(* reverse order.                                                          *)

StartAnalyze(p) ==
  /\ p \in Analyzers /\ pc[p] = "idle" /\ started < MaxRuns
  /\ started' = started + 1
  /\ \E mode \in {"plain", "debug"} :
       run' = [run EXCEPT ![p] = [number |-> started + 1, mode |-> mode]]
  /\ goto(p, "lock_analyze")
  /\ UNCHANGED <<lock, at, failed, output, cache, history>>

(* Faulty variants of an action stand before it: a `cache clear` that takes *)
(* no lock, ...                                                             *)
StartClearUnlocked(p) ==
  /\ p \in Clearers /\ pc[p] = "idle"
  /\ goto(p, "clear")
  /\ UNCHANGED <<lock, at, output, cache, history, command>>

StartClear(p) ==
  /\ p \in Clearers /\ pc[p] = "idle"
  /\ goto(p, "lock_analyze")
  /\ UNCHANGED <<lock, at, output, cache, history, command>>

LockAnalyze(p) ==
  /\ pc[p] = "lock_analyze"
  /\ lock["analyze.lock"] = None
  /\ lock' = [lock EXCEPT !["analyze.lock"] = p]
  /\ goto(p, "lock_cache")
  /\ UNCHANGED <<at, output, cache, history, command>>

LockCache(p) ==
  /\ pc[p] = "lock_cache"
  /\ lock["cache.lock"] = None
  /\ lock' = [lock EXCEPT !["cache.lock"] = p]
  /\ goto(p, IF p \in Analyzers THEN "claim" ELSE "clear")
  /\ before' = [before EXCEPT ![p] = reports]
  /\ UNCHANGED <<at, publication, output, cache, command>>

UnlockCache(p) ==
  /\ pc[p] = "unlock_cache"
  /\ lock' = [lock EXCEPT !["cache.lock"] = None]
  /\ goto(p, "unlock_analyze")
  /\ Forget(p)
  /\ UNCHANGED <<publication, output, cache, command>>

UnlockAnalyze(p) ==
  /\ pc[p] = "unlock_analyze"
  /\ lock' = [lock EXCEPT !["analyze.lock"] = None]
  /\ failed' = failed \ {p}
  /\ run' = [run EXCEPT ![p] = None]
  /\ goto(p, "idle")
  /\ UNCHANGED <<at, started, output, cache, history>>

-----------------------------------------------------------------------------
(* `codeseam analyze` *)

(* claim_storage_root of the output root and of the cache root. *)
Claim(p) ==
  /\ pc[p] = "claim"
  /\ store' = "present"
  /\ goto(p, "stage")
  /\ UNCHANGED <<lock, at, db, tx, output, history, command>>

(* ... a run that works on in the leftovers of a dead one, ... *)
StageKeepsLeftovers(p) ==
  /\ pc[p] = "stage"
  /\ at' = [at EXCEPT ![p] = 1]
  /\ goto(p, "open")
  /\ UNCHANGED <<lock, output, cache, history, command>>

(* staging_paths: whatever a dead run left in `.staging` goes away. *)
Stage(p) ==
  /\ pc[p] = "stage"
  /\ staging' = [e \in Entries |-> Absent]
  /\ at' = [at EXCEPT ![p] = 1]
  /\ goto(p, "open")
  /\ UNCHANGED <<lock, reports, cache, history, command>>

(* PersistentCache._connect, at the first use of the cache: make the        *)
(* directory and the table, commit.                                         *)
Open(p) ==
  /\ pc[p] = "open"
  /\ store' = "present"
  /\ goto(p, "work")
  /\ UNCHANGED <<lock, at, db, tx, output, history, command>>

(* ... a stage that writes into the output root, not into `.staging`, ...  *)
WriteArtifactInPlace(p) ==
  /\ pc[p] = "work" /\ at[p] <= Len(WriteOrder)
  /\ reports' = [reports EXCEPT ![WriteOrder[at[p]]] = run[p]]
  /\ at' = [at EXCEPT ![p] = @ + 1]
  /\ UNCHANGED <<pc, lock, staging, cache, history, command>>

(* A stage of the pipeline writes the next artifact; internal ones only    *)
(* under --debug.                                                          *)
WriteArtifact(p) ==
  /\ pc[p] = "work" /\ at[p] <= Len(WriteOrder)
  /\ LET e == WriteOrder[at[p]]
     IN  staging' = IF e \in Internal /\ run[p].mode = "plain"
                      THEN staging ELSE [staging EXCEPT ![e] = run[p]]
  /\ at' = [at EXCEPT ![p] = @ + 1]
  /\ UNCHANGED <<pc, lock, reports, cache, history, command>>

(* PersistentCache.set_blob / set_blobs: part of the open transaction. *)
CacheWrite(p, k) ==
  /\ pc[p] = "work" /\ k \notin tx[p]
  /\ tx' = [tx EXCEPT ![p] = @ \cup {k}]
  /\ UNCHANGED <<pc, lock, at, store, db, output, history, command>>

StagesDone(p) ==
  /\ pc[p] = "work" /\ at[p] > Len(WriteOrder)
  /\ goto(p, "finalise")
  /\ UNCHANGED <<lock, at, output, cache, history, command>>

(* write_debug_bundle_and_prune: the bundle in, the internal artifacts out. *)
Finalise(p) ==
  /\ pc[p] = "finalise"
  /\ staging' = IF run[p].mode = "plain" THEN staging
                ELSE [e \in Entries |-> IF e = Bundle THEN run[p]
                                        ELSE IF e \in Internal THEN Absent
                                        ELSE staging[e]]
  /\ at' = [at EXCEPT ![p] = 1]
  /\ goto(p, "remove")
  /\ UNCHANGED <<lock, reports, cache, history, command>>

(* ... a publication that removes an old entry only to replace it, ...     *)
RemoveOldIfReplaced(p) ==
  /\ pc[p] = "remove"
  /\ LET e == PublishOrder[at[p]]
     IN  reports' = IF staging[e] = Absent THEN reports ELSE [reports EXCEPT ![e] = Absent]
  /\ goto(p, "rename")
  /\ UNCHANGED <<lock, at, staging, cache, history, command>>

(* publish_reports: per entry, first the old one goes ... *)
RemoveOld(p) ==
  /\ pc[p] = "remove"
  /\ reports' = [reports EXCEPT ![PublishOrder[at[p]]] = Absent]
  /\ goto(p, "rename")
  /\ UNCHANGED <<lock, at, staging, cache, history, command>>

(* ... then the staged one, if the run wrote it, is renamed into place.    *)
(* The last entry ends the publication.                                    *)
RenameNew(p) ==
  /\ pc[p] = "rename"
  /\ LET e == PublishOrder[at[p]]
     IN  IF staging[e] # Absent
           THEN /\ reports' = [reports EXCEPT ![e] = staging[e]]
                /\ staging' = [staging EXCEPT ![e] = Absent]
           ELSE UNCHANGED <<output>>
  /\ IF at[p] < Len(PublishOrder)
       THEN /\ at' = [at EXCEPT ![p] = @ + 1]
            /\ goto(p, "remove")
            /\ UNCHANGED publication
       ELSE /\ goto(p, "cleanup")
            /\ publication' = "whole"
            /\ UNCHANGED at
  /\ UNCHANGED <<lock, before, cache, command>>

(* finally: shutil.rmtree(staging.root, ignore_errors=True) *)
Cleanup(p) ==
  /\ pc[p] = "cleanup"
  /\ staging' = [e \in Entries |-> Absent]
  /\ goto(p, "close")
  /\ UNCHANGED <<lock, at, reports, cache, history, command>>

(* finally: PersistentCache.close commits what the run wrote, also after a *)
(* failure.                                                                *)
Close(p) ==
  /\ pc[p] = "close"
  /\ db' = db \cup tx[p]
  /\ tx' = [tx EXCEPT ![p] = {}]
  /\ goto(p, "unlock_cache")
  /\ UNCHANGED <<lock, at, store, output, history, command>>

(* clear_persistent_cache: rmtree of the cache root, if it is there. *)
Clear(p) ==
  /\ pc[p] = "clear"
  /\ store' = "missing"
  /\ db' = {}
  /\ goto(p, "unlock_cache")
  /\ UNCHANGED <<lock, at, tx, output, history, command>>

-----------------------------------------------------------------------------
(* Failure: an exception or Ctrl-C runs the `finally` blocks of the step it *)
(* hits; SIGKILL or a power cut runs nothing, and the kernel releases the   *)
(* flocks. Either can leave a directory removal half done; what is left of  *)
(* a half-removed entry of `.staging` counts as the entry, since nothing    *)
(* reads it before the next run removes it.                                 *)

(* What an abandoned step leaves of the directory it was removing. *)
Abandon(p) ==
  /\ IF pc[p] \in {"stage", "cleanup"}
       THEN \E gone \in SUBSET Entries :
              staging' = [e \in Entries |-> IF e \in gone THEN Absent ELSE staging[e]]
       ELSE UNCHANGED staging
  /\ IF pc[p] = "remove"
       THEN LET e == PublishOrder[at[p]]
            IN  \/ UNCHANGED reports
                \/ /\ e \in Directories /\ reports[e] # Absent
                   /\ reports' = [reports EXCEPT ![e] = Torn]
       ELSE UNCHANGED reports
  /\ db' \in (IF pc[p] = "clear" THEN {db, {}} ELSE {db})
  /\ publication' = IF \/ pc[p] = "rename"
                       \/ pc[p] = "remove" /\ at[p] > 1
                       \/ reports' # reports
                      THEN "spoilt" ELSE publication

(* ... and a refused root that leaves the command without giving the locks *)
(* back.                                                                   *)
UnwindKeepsLocks(step) ==
  CASE step \in {"lock_analyze", "claim"} -> "idle"
    [] step = "lock_cache" -> "unlock_analyze"
    [] step \in {"clear", "close"} -> "unlock_cache"
    [] step \in {"stage", "cleanup"} -> "close"
    [] step \in {"open", "work", "finalise", "remove", "rename"} -> "cleanup"

(* Where the `finally` blocks take a step that raises. A failing commit     *)
(* leaves the transaction to be rolled back.                                *)
Unwind(step) ==
  CASE step = "lock_analyze" -> "idle"
    [] step = "lock_cache" -> "unlock_analyze"
    [] step \in {"claim", "clear", "close"} -> "unlock_cache"
    [] step \in {"stage", "cleanup"} -> "close"
    [] step \in {"open", "work", "finalise", "remove", "rename"} -> "cleanup"

Fail(p) ==
  /\ pc[p] \notin {"idle", "unlock_cache", "unlock_analyze"}
  /\ Abandon(p)
  /\ failed' = IF pc[p] = "lock_analyze" THEN failed ELSE failed \cup {p}
  /\ run' = IF pc[p] = "lock_analyze" THEN [run EXCEPT ![p] = None] ELSE run
  /\ tx' = IF pc[p] = "close" THEN [tx EXCEPT ![p] = {}] ELSE tx
  /\ goto(p, Unwind(pc[p]))
  /\ UNCHANGED <<lock, at, started, store, before>>

Kill(p) ==
  /\ pc[p] # "idle"
  /\ Abandon(p)
  /\ failed' = failed \ {p}
  /\ run' = [run EXCEPT ![p] = None]
  /\ tx' = [tx EXCEPT ![p] = {}]
  /\ lock' = [l \in Locks |-> IF lock[l] = p THEN None ELSE lock[l]]
  /\ goto(p, "idle")
  /\ Forget(p)
  /\ UNCHANGED <<started, store>>

-----------------------------------------------------------------------------
(* The step a running command takes when nothing goes wrong. *)
Step(p) ==
  \/ LockAnalyze(p) \/ LockCache(p) \/ UnlockCache(p) \/ UnlockAnalyze(p)
  \/ Claim(p) \/ Open(p) \/ Stage(p)
  \/ WriteArtifact(p) \/ StagesDone(p) \/ Finalise(p)
  \/ RemoveOld(p) \/ RenameNew(p)
  \/ Cleanup(p) \/ Close(p) \/ Clear(p)

(* Whatever process p can do. *)
Move(p) ==
  \/ StartAnalyze(p) \/ StartClear(p)
  \/ Step(p)
  \/ \E k \in Keys : CacheWrite(p, k)
  \/ Fail(p) \/ Kill(p)

Next == \E p \in Procs : Move(p)

Spec == Init /\ [][Next]_vars

(* A process that can take its next step takes it: the scheduler runs it,   *)
(* and the kernel grants a free flock to a waiter.                          *)
FairSpec == Spec /\ \A p \in Procs : WF_vars(Step(p))

-----------------------------------------------------------------------------
(* Types. *)
TypeOK ==
  /\ pc \in [Procs -> Steps]
  /\ lock \in [Locks -> Procs \cup {None}]
  /\ run \in [Procs -> RunIds \cup {None}]
  /\ at \in [Procs -> Nat]
  /\ started \in Nat
  /\ staging \in [Entries -> Contents]
  /\ reports \in [Entries -> Contents]
  /\ store \in {"missing", "present"}
  /\ db \subseteq Keys
  /\ tx \in [Procs -> SUBSET Keys]
  /\ failed \subseteq Procs
  /\ before \in [Procs -> [Entries -> Contents]]
  /\ publication \in {"whole", "spoilt"}

(* file_locks: whoever is inside analysis or clearing holds both flocks, so *)
(* no two commands are inside at once, whatever fails or dies in between.   *)
MutualExclusion ==
  \A p, q \in Procs : pc[p] \in Inside /\ pc[q] \in Inside => p = q

(* publish_reports over a staging root that staging_paths emptied: unless   *)
(* the last publication was cut short, what the output root shows between   *)
(* publications comes from one run, every entry of it, and nothing of an    *)
(* older or a dead run (a stale debug bundle, say).                         *)
ReportsWhole ==
  (publication = "whole" /\ \A p \in Procs : pc[p] # "rename" /\ (pc[p] = "remove" => at[p] = 1))
  => \/ reports = [e \in Entries |-> Absent]
     \/ reports \in WholeReports

(* analyze.py: "publish only a finished run". A command that has not begun  *)
(* to publish has left the reports it found as they were, however it fails. *)
UnpublishedLeavesReports ==
  \A p \in Procs :
    pc[p] \in {"claim", "stage", "open", "work", "finalise", "clear"}
    => reports = before[p]

(* A command that ended well published: its entry set replaced the old one. *)
(* While it publishes, only entries of its run appear.                      *)
PublishesOwnRun ==
  [][\A e \in Entries :
       reports'[e] \notin {reports[e], Absent, Torn}
       => \E p \in Procs : pc[p] = "rename" /\ reports'[e] = run[p]]_vars

(* cli/commands/cache.py: clearing happens under the analysis locks, so the *)
(* cache directory never disappears under a run that uses it.                 *)
StoreOpenExists == \A p \in Procs : UsesStore(p) => store = "present"

(* A failed run keeps the cache entries it stored (close in `finally`), and *)
(* only clearing removes committed entries.                                 *)
CacheOnlyGrows ==
  [][db \subseteq db' \/ \E p \in Clearers : pc[p] = "clear"]_vars

(* No command keeps a lock for ever: sorted lock order rules out two        *)
(* commands that wait for each other.                                       *)
LocksAreFreed ==
  \A p \in Procs, l \in Locks : lock[l] = p ~> lock[l] # p

-----------------------------------------------------------------------------
(* The abstract commands that this module implements. *)

(* What a reader of the output root sees, with a publication in progress    *)
(* hidden until it ends.                                                    *)
Shown ==
  LET p == lock["cache.lock"]
  IN  IF publication = "spoilt" THEN Spoilt
      ELSE IF p # None /\ pc[p] \in {"remove", "rename"} THEN before[p]
      ELSE reports

Abstract == INSTANCE SerialCommands WITH
  Commands <- Procs,
  Reports  <- WholeReports,
  NoReport <- [e \in Entries |-> Absent],
  owner    <- lock["cache.lock"],
  failing  <- lock["cache.lock"] \in failed,
  shown    <- Shown,
  stored   <- db

(* The entry-by-entry publication and the two locks implement atomic        *)
(* delivery by one command at a time.                                       *)
ImplementsSerialCommands == Abstract!Spec

(* docs/reports.md:150, "You stopped the run (Ctrl-C). The previous reports *)
(* stay."; analyze.py:127 says the same of a failure.                       *)
FailureLeavesReports ==
  \A p \in Analyzers :
    (p \in failed /\ pc[p] \in {"cleanup", "close", "unlock_cache"})
    => reports = before[p]
=============================================================================
