------------------------- MODULE AnalysisRunProofs -------------------------
(***************************************************************************)
(* Proofs about AnalysisRun for any number of processes, artifact entries, *)
(* cache keys and runs: types, mutual exclusion of the commands, the       *)
(* integrity of the published report set, and the implementation of        *)
(* SerialCommands.                                                         *)
(***************************************************************************)
EXTENDS AnalysisRun, TLAPS

(* The steps at which a process holds each flock. *)
HoldsCache == Inside \cup {"unlock_cache"}
HoldsAnalyze == HoldsCache \cup {"lock_cache", "unlock_analyze"}

(* A flock belongs to exactly the process whose step says so. *)
LockInv ==
  \A p \in Procs :
    /\ pc[p] \in HoldsAnalyze <=> lock["analyze.lock"] = p
    /\ pc[p] \in HoldsCache <=> lock["cache.lock"] = p

(* Which command a process runs, and that an analyze command has a run. *)
RoleInv ==
  \A p \in Procs :
    /\ pc[p] \in AnalyzeSteps => p \in Analyzers
    /\ pc[p] = "clear" => p \in Clearers
    /\ p \in Analyzers /\ pc[p] # "idle" => run[p] \in RunIds

(* The publication index stays inside the list of entries. *)
AtInv ==
  \A p \in Procs :
    /\ at[p] \in Nat \ {0}
    /\ pc[p] \in {"remove", "rename"} => at[p] \in DOMAIN PublishOrder

(* While a run works, `.staging` holds what this run wrote and nothing else. *)
StagedBy(p) ==
  pc[p] \in {"open", "work", "finalise"} =>
    /\ staging[Bundle] = Absent
    /\ \A e \in Internal :
         staging[e] = Absent \/ (staging[e] = run[p] /\ run[p].mode = "debug")
    /\ \A e \in Public : staging[e] \in {Absent, run[p]}
    /\ \A i \in DOMAIN WriteOrder :
         WriteOrder[i] \in Public /\ (i < at[p] \/ pc[p] = "finalise")
         => staging[WriteOrder[i]] = run[p]

(* While it publishes, the entries before the index are out, the others are *)
(* still staged.                                                            *)
PublishedBy(p) ==
  pc[p] \in {"remove", "rename"} =>
    \A i \in DOMAIN PublishOrder :
      /\ i < at[p] => reports[PublishOrder[i]] = Written(run[p], PublishOrder[i])
      /\ i >= at[p] => staging[PublishOrder[i]] = Written(run[p], PublishOrder[i])
      /\ i = at[p] /\ pc[p] = "rename" => reports[PublishOrder[i]] = Absent

(* A command that has not touched the output root finds it as it was. *)
UntouchedBy(p) ==
  \/ pc[p] \in {"claim", "open", "stage", "work", "finalise", "clear"}
  \/ pc[p] = "remove" /\ at[p] = 1
  => reports = before[p]

(* Only a command that failed is marked as failed. *)
MarkedBy(p) ==
  p \in failed
  => pc[p] \in {"cleanup", "close", "unlock_cache", "unlock_analyze"}

RunInv ==
  \A p \in Procs : StagedBy(p) /\ PublishedBy(p) /\ UntouchedBy(p) /\ MarkedBy(p)

USE DEF Locks, Steps, Inside, AnalyzeSteps

-----------------------------------------------------------------------------
(* Types. *)

LEMMA InitTypes == Init => TypeOK
  BY MarksAssumption DEF Init, TypeOK, Contents

LEMMA AbandonTypes ==
  ASSUME TypeOK, NEW p \in Procs, Abandon(p)
  PROVE  /\ staging' \in [Entries -> Contents]
         /\ reports' \in [Entries -> Contents]
         /\ db' \subseteq Keys
         /\ publication' \in {"whole", "spoilt"}
<1> USE DEF TypeOK
<1>1. staging' \in [Entries -> Contents]
  BY DEF Abandon, Contents
<1>2. reports' \in [Entries -> Contents]
  BY DEF Abandon, Contents
<1>3. db' \subseteq Keys
  BY DEF Abandon
<1>4. publication' \in {"whole", "spoilt"}
  BY DEF Abandon
<1> QED
  BY <1>1, <1>2, <1>3, <1>4

LEMMA UnwindTypes ==
  ASSUME NEW p \in Procs, TypeOK, Fail(p)
  PROVE  /\ pc[p] = "lock_analyze" => Unwind(pc[p]) = "idle"
         /\ pc[p] = "lock_cache" => Unwind(pc[p]) = "unlock_analyze"
         /\ pc[p] \in {"claim", "clear", "close"} => Unwind(pc[p]) = "unlock_cache"
         /\ pc[p] \in {"stage", "cleanup"} => Unwind(pc[p]) = "close"
         /\ pc[p] \in {"open", "work", "finalise", "remove", "rename"} => Unwind(pc[p]) = "cleanup"
         /\ pc[p] \in {"lock_analyze", "lock_cache", "claim", "open", "clear", "close",
                       "stage", "cleanup", "work", "finalise", "remove", "rename"}
  BY DEF Fail, Unwind, TypeOK

(* Every index a publishing process uses names an entry. *)
LEMMA PublishedEntry ==
  ASSUME AtInv, NEW p \in Procs, pc[p] \in {"remove", "rename"}
  PROVE  PublishOrder[at[p]] \in Entries
  BY OrdersAssumption DEF AtInv

LEMMA FirstEntry == 1 \in DOMAIN PublishOrder
<1>1. PICK i \in DOMAIN PublishOrder : PublishOrder[i] = Bundle
  BY OrdersAssumption DEF Entries
<1>2. PublishOrder \in Seq(Entries)
  BY OrdersAssumption
<1> QED
  BY <1>1, <1>2

LEMMA StepTypes ==
  ASSUME TypeOK, RoleInv, AtInv, [Next]_vars
  PROVE  TypeOK'
<1> USE DEF TypeOK, goto, command, output, cache, history
<1>1. CASE UNCHANGED vars
  BY <1>1 DEF vars
<1>2. ASSUME NEW p \in Procs, StartAnalyze(p) PROVE TypeOK'
  BY <1>2, BoundAssumption DEF StartAnalyze, RunIds
<1>3. ASSUME NEW p \in Procs, StartClear(p) PROVE TypeOK'
  BY <1>3 DEF StartClear
<1>4. ASSUME NEW p \in Procs, LockAnalyze(p) PROVE TypeOK'
  BY <1>4 DEF LockAnalyze
<1>5. ASSUME NEW p \in Procs, LockCache(p) PROVE TypeOK'
  BY <1>5 DEF LockCache
<1>6. ASSUME NEW p \in Procs, UnlockCache(p) PROVE TypeOK'
  BY <1>6 DEF UnlockCache, Forget, Contents
<1>7. ASSUME NEW p \in Procs, UnlockAnalyze(p) PROVE TypeOK'
  BY <1>7 DEF UnlockAnalyze
<1>8. ASSUME NEW p \in Procs, Claim(p) PROVE TypeOK'
  BY <1>8 DEF Claim
<1>9. ASSUME NEW p \in Procs, Open(p) PROVE TypeOK'
  BY <1>9 DEF Open
<1>10. ASSUME NEW p \in Procs, Stage(p) PROVE TypeOK'
  BY <1>10 DEF Stage, Contents
<1>11. ASSUME NEW p \in Procs, WriteArtifact(p) PROVE TypeOK'
  <2>1. staging' \in [Entries -> Contents]
    <3> DEFINE e == WriteOrder[at[p]]
    <3>1. run[p] \in Contents
      BY <1>11 DEF WriteArtifact, RoleInv, Contents
    <3>2. staging' = staging \/ staging' = [staging EXCEPT ![e] = run[p]]
      BY <1>11 DEF WriteArtifact
    <3> HIDE DEF e
    <3> QED
      BY <3>1, <3>2
  <2>2. at' \in [Procs -> Nat]
    BY <1>11 DEF WriteArtifact
  <2> QED
    BY <1>11, <2>1, <2>2 DEF WriteArtifact
<1>12. ASSUME NEW p \in Procs, NEW k \in Keys, CacheWrite(p, k) PROVE TypeOK'
  BY <1>12 DEF CacheWrite
<1>13. ASSUME NEW p \in Procs, StagesDone(p) PROVE TypeOK'
  BY <1>13 DEF StagesDone
<1>14. ASSUME NEW p \in Procs, Finalise(p) PROVE TypeOK'
  <2>1. run[p] \in RunIds
    BY <1>14 DEF Finalise, RoleInv
  <2> QED
    BY <1>14, <2>1 DEF Finalise, Contents
<1>15. ASSUME NEW p \in Procs, RemoveOld(p) PROVE TypeOK'
  <2>1. PublishOrder[at[p]] \in Entries
    BY <1>15, PublishedEntry DEF RemoveOld
  <2> QED
    BY <1>15, <2>1 DEF RemoveOld, Contents
<1>16. ASSUME NEW p \in Procs, RenameNew(p) PROVE TypeOK'
  <2> DEFINE e == PublishOrder[at[p]]
  <2>1. e \in Entries
    BY <1>16, PublishedEntry DEF RenameNew
  <2>2. \/ staging' = staging /\ reports' = reports
        \/ /\ staging' = [staging EXCEPT ![e] = Absent]
           /\ reports' = [reports EXCEPT ![e] = staging[e]]
    BY <1>16 DEF RenameNew
  <2>3. staging' \in [Entries -> Contents] /\ reports' \in [Entries -> Contents]
    <3> HIDE DEF e
    <3> QED
      BY <2>1, <2>2 DEF Contents
  <2>4. at' = [at EXCEPT ![p] = at[p] + 1] \/ at' = at
    BY <1>16 DEF RenameNew
  <2>5. at' \in [Procs -> Nat]
    BY <2>4
  <2>6. pc' \in [Procs -> Steps]
    BY <1>16 DEF RenameNew
  <2>7. publication' \in {"whole", "spoilt"}
    BY <1>16 DEF RenameNew
  <2> QED
    BY <1>16, <2>3, <2>5, <2>6, <2>7 DEF RenameNew
<1>17. ASSUME NEW p \in Procs, Cleanup(p) PROVE TypeOK'
  BY <1>17 DEF Cleanup, Contents
<1>18. ASSUME NEW p \in Procs, Close(p) PROVE TypeOK'
  BY <1>18 DEF Close
<1>19. ASSUME NEW p \in Procs, Clear(p) PROVE TypeOK'
  BY <1>19 DEF Clear
<1>20. ASSUME NEW p \in Procs, Fail(p) PROVE TypeOK'
  <2>1. Unwind(pc[p]) \in Steps
    BY <1>20, UnwindTypes
  <2>2. Abandon(p)
    BY <1>20 DEF Fail
  <2> QED
    BY <1>20, <2>1, <2>2, AbandonTypes DEF Fail
<1>21. ASSUME NEW p \in Procs, Kill(p) PROVE TypeOK'
  <2>1. Abandon(p)
    BY <1>21 DEF Kill
  <2> QED
    BY <1>21, <2>1, AbandonTypes DEF Kill, Forget, Contents
<1> QED
  BY <1>1, <1>2, <1>3, <1>4, <1>5, <1>6, <1>7, <1>8, <1>9, <1>10, <1>11, <1>12,
     <1>13, <1>14, <1>15, <1>16, <1>17, <1>18, <1>19, <1>20, <1>21
  DEF Next, Move, Step

-----------------------------------------------------------------------------
(* Locks, roles and indices. *)

(* The kernel grants a free flock only, and a process gives back what it holds. *)
LEMMA StepLocks ==
  ASSUME TypeOK, RoleInv, LockInv, [Next]_vars
  PROVE  LockInv'
<1> USE DEF TypeOK, goto, command, output, cache, history, LockInv, HoldsCache, HoldsAnalyze
<1>1. CASE UNCHANGED vars
  BY <1>1 DEF vars
<1>2. ASSUME NEW p \in Procs, StartAnalyze(p) PROVE LockInv'
  BY <1>2 DEF StartAnalyze
<1>3. ASSUME NEW p \in Procs, StartClear(p) PROVE LockInv'
  BY <1>3 DEF StartClear
<1>4. ASSUME NEW p \in Procs, LockAnalyze(p) PROVE LockInv'
  BY <1>4, ProcsAssumption DEF LockAnalyze
<1>5. ASSUME NEW p \in Procs, LockCache(p) PROVE LockInv'
  BY <1>5, ProcsAssumption DEF LockCache
<1>6. ASSUME NEW p \in Procs, UnlockCache(p) PROVE LockInv'
  BY <1>6, ProcsAssumption DEF UnlockCache
<1>7. ASSUME NEW p \in Procs, UnlockAnalyze(p) PROVE LockInv'
  BY <1>7, ProcsAssumption DEF UnlockAnalyze
<1>8. ASSUME NEW p \in Procs, Claim(p) PROVE LockInv'
  BY <1>8 DEF Claim
<1>9. ASSUME NEW p \in Procs, Open(p) PROVE LockInv'
  BY <1>9 DEF Open
<1>10. ASSUME NEW p \in Procs, Stage(p) PROVE LockInv'
  BY <1>10 DEF Stage
<1>11. ASSUME NEW p \in Procs, WriteArtifact(p) PROVE LockInv'
  BY <1>11 DEF WriteArtifact
<1>12. ASSUME NEW p \in Procs, StagesDone(p) PROVE LockInv'
  BY <1>12 DEF StagesDone
<1>13. ASSUME NEW p \in Procs, Finalise(p) PROVE LockInv'
  BY <1>13 DEF Finalise
<1>14. ASSUME NEW p \in Procs, RemoveOld(p) PROVE LockInv'
  BY <1>14 DEF RemoveOld
<1>15. ASSUME NEW p \in Procs, RenameNew(p) PROVE LockInv'
  BY <1>15 DEF RenameNew
<1>16. ASSUME NEW p \in Procs, Cleanup(p) PROVE LockInv'
  BY <1>16 DEF Cleanup
<1>17. ASSUME NEW p \in Procs, Close(p) PROVE LockInv'
  BY <1>17 DEF Close
<1>18. ASSUME NEW p \in Procs, Clear(p) PROVE LockInv'
  BY <1>18 DEF Clear
<1>19. ASSUME NEW p \in Procs, NEW k \in Keys, CacheWrite(p, k) PROVE LockInv'
  BY <1>19 DEF CacheWrite
<1>20. ASSUME NEW p \in Procs, Fail(p) PROVE LockInv'
  <2>1. pc' = [pc EXCEPT ![p] = Unwind(pc[p])] /\ lock' = lock
    BY <1>20 DEF Fail
  <2>2. Unwind(pc[p]) \in HoldsAnalyze <=> pc[p] \in HoldsAnalyze
    BY <1>20, UnwindTypes
  <2>3. Unwind(pc[p]) \in HoldsCache <=> pc[p] \in HoldsCache
    BY <1>20, UnwindTypes
  <2> QED
    BY <2>1, <2>2, <2>3
<1>21. ASSUME NEW p \in Procs, Kill(p) PROVE LockInv'
  BY <1>21, ProcsAssumption DEF Kill
<1> QED
  BY <1>1, <1>2, <1>3, <1>4, <1>5, <1>6, <1>7, <1>8, <1>9, <1>10, <1>11,
     <1>12, <1>13, <1>14, <1>15, <1>16, <1>17, <1>18, <1>19, <1>20, <1>21
  DEF Next, Move, Step

(* An analyze command never clears, a clearing command never analyses. *)
LEMMA StepRoles ==
  ASSUME TypeOK, RoleInv, [Next]_vars
  PROVE  RoleInv'
<1> USE DEF TypeOK, goto, command, output, cache, history, RoleInv
<1>1. CASE UNCHANGED vars
  BY <1>1 DEF vars
<1>2. ASSUME NEW p \in Procs, StartAnalyze(p) PROVE RoleInv'
  BY <1>2, ProcsAssumption, BoundAssumption DEF StartAnalyze, RunIds
<1>3. ASSUME NEW p \in Procs, StartClear(p) PROVE RoleInv'
  BY <1>3, ProcsAssumption DEF StartClear
<1>4. ASSUME NEW p \in Procs, LockAnalyze(p) PROVE RoleInv'
  BY <1>4 DEF LockAnalyze
<1>5. ASSUME NEW p \in Procs, LockCache(p) PROVE RoleInv'
  BY <1>5, ProcsAssumption DEF LockCache, Procs
<1>6. ASSUME NEW p \in Procs, UnlockCache(p) PROVE RoleInv'
  BY <1>6 DEF UnlockCache
<1>7. ASSUME NEW p \in Procs, UnlockAnalyze(p) PROVE RoleInv'
  BY <1>7 DEF UnlockAnalyze
<1>8. ASSUME NEW p \in Procs, Claim(p) PROVE RoleInv'
  BY <1>8 DEF Claim
<1>9. ASSUME NEW p \in Procs, Open(p) PROVE RoleInv'
  BY <1>9 DEF Open
<1>10. ASSUME NEW p \in Procs, Stage(p) PROVE RoleInv'
  BY <1>10 DEF Stage
<1>11. ASSUME NEW p \in Procs, WriteArtifact(p) PROVE RoleInv'
  BY <1>11 DEF WriteArtifact
<1>12. ASSUME NEW p \in Procs, StagesDone(p) PROVE RoleInv'
  BY <1>12 DEF StagesDone
<1>13. ASSUME NEW p \in Procs, Finalise(p) PROVE RoleInv'
  BY <1>13 DEF Finalise
<1>14. ASSUME NEW p \in Procs, RemoveOld(p) PROVE RoleInv'
  BY <1>14 DEF RemoveOld
<1>15. ASSUME NEW p \in Procs, RenameNew(p) PROVE RoleInv'
  BY <1>15 DEF RenameNew
<1>16. ASSUME NEW p \in Procs, Cleanup(p) PROVE RoleInv'
  BY <1>16 DEF Cleanup
<1>17. ASSUME NEW p \in Procs, Close(p) PROVE RoleInv'
  BY <1>17 DEF Close
<1>18. ASSUME NEW p \in Procs, Clear(p) PROVE RoleInv'
  BY <1>18 DEF Clear
<1>19. ASSUME NEW p \in Procs, NEW k \in Keys, CacheWrite(p, k) PROVE RoleInv'
  BY <1>19 DEF CacheWrite
<1>20. ASSUME NEW p \in Procs, Fail(p) PROVE RoleInv'
  BY <1>20, UnwindTypes DEF Fail
<1>21. ASSUME NEW p \in Procs, Kill(p) PROVE RoleInv'
  BY <1>21 DEF Kill
<1> QED
  BY <1>1, <1>2, <1>3, <1>4, <1>5, <1>6, <1>7, <1>8, <1>9, <1>10, <1>11,
     <1>12, <1>13, <1>14, <1>15, <1>16, <1>17, <1>18, <1>19, <1>20, <1>21
  DEF Next, Move, Step

(* The publication index. *)
LEMMA StepAt ==
  ASSUME TypeOK, AtInv, [Next]_vars
  PROVE  AtInv'
<1> USE DEF TypeOK, goto, command, output, cache, history, AtInv
<1>1. CASE UNCHANGED vars
  BY <1>1 DEF vars
<1>2. ASSUME NEW p \in Procs, StartAnalyze(p) PROVE AtInv'
  BY <1>2 DEF StartAnalyze
<1>3. ASSUME NEW p \in Procs, StartClear(p) PROVE AtInv'
  BY <1>3 DEF StartClear
<1>4. ASSUME NEW p \in Procs, LockAnalyze(p) PROVE AtInv'
  BY <1>4 DEF LockAnalyze
<1>5. ASSUME NEW p \in Procs, LockCache(p) PROVE AtInv'
  BY <1>5 DEF LockCache
<1>6. ASSUME NEW p \in Procs, UnlockCache(p) PROVE AtInv'
  BY <1>6 DEF UnlockCache, Forget
<1>7. ASSUME NEW p \in Procs, UnlockAnalyze(p) PROVE AtInv'
  BY <1>7 DEF UnlockAnalyze
<1>8. ASSUME NEW p \in Procs, Claim(p) PROVE AtInv'
  BY <1>8 DEF Claim
<1>9. ASSUME NEW p \in Procs, Open(p) PROVE AtInv'
  BY <1>9 DEF Open
<1>10. ASSUME NEW p \in Procs, Stage(p) PROVE AtInv'
  BY <1>10 DEF Stage
<1>11. ASSUME NEW p \in Procs, WriteArtifact(p) PROVE AtInv'
  BY <1>11 DEF WriteArtifact
<1>12. ASSUME NEW p \in Procs, StagesDone(p) PROVE AtInv'
  BY <1>12 DEF StagesDone
<1>13. ASSUME NEW p \in Procs, Finalise(p) PROVE AtInv'
  BY <1>13, FirstEntry DEF Finalise
<1>14. ASSUME NEW p \in Procs, RemoveOld(p) PROVE AtInv'
  BY <1>14 DEF RemoveOld
<1>15. ASSUME NEW p \in Procs, RenameNew(p) PROVE AtInv'
  BY <1>15 DEF RenameNew
<1>16. ASSUME NEW p \in Procs, Cleanup(p) PROVE AtInv'
  BY <1>16 DEF Cleanup
<1>17. ASSUME NEW p \in Procs, Close(p) PROVE AtInv'
  BY <1>17 DEF Close
<1>18. ASSUME NEW p \in Procs, Clear(p) PROVE AtInv'
  BY <1>18 DEF Clear
<1>19. ASSUME NEW p \in Procs, NEW k \in Keys, CacheWrite(p, k) PROVE AtInv'
  BY <1>19 DEF CacheWrite
<1>20. ASSUME NEW p \in Procs, Fail(p) PROVE AtInv'
  BY <1>20, UnwindTypes DEF Fail
<1>21. ASSUME NEW p \in Procs, Kill(p) PROVE AtInv'
  BY <1>21 DEF Kill, Forget
<1> QED
  BY <1>1, <1>2, <1>3, <1>4, <1>5, <1>6, <1>7, <1>8, <1>9, <1>10, <1>11,
     <1>12, <1>13, <1>14, <1>15, <1>16, <1>17, <1>18, <1>19, <1>20, <1>21
  DEF Next, Move, Step

-----------------------------------------------------------------------------
(* Interference: what one process can do to another. *)
(* At most one process holds the cache lock. *)
LEMMA OneInside ==
  ASSUME LockInv
  PROVE  \A p, q \in Procs : pc[p] \in HoldsCache /\ pc[q] \in HoldsCache => p = q
  BY DEF LockInv

(* What a step of another process leaves alone. *)
Same(q) ==
  /\ pc'[q] = pc[q] /\ run'[q] = run[q] /\ at'[q] = at[q] /\ before'[q] = before[q]
  /\ q \in failed' <=> q \in failed

(* What it can touch only while it holds the locks. *)
SameRoots == staging' = staging /\ reports' = reports /\ publication' = publication /\ store' = store

(* A step of one process leaves the local state of the others alone. *)
LEMMA OthersKeepState ==
  ASSUME TypeOK, NEW p \in Procs, NEW q \in Procs, p # q, Move(p)
  PROVE  Same(q)
<1> USE DEF TypeOK, goto, command, output, cache, history, Same, Forget
<1>1. CASE StartAnalyze(p)
  BY <1>1 DEF StartAnalyze
<1>2. CASE StartClear(p)
  BY <1>2 DEF StartClear
<1>3. CASE LockAnalyze(p)
  BY <1>3 DEF LockAnalyze
<1>4. CASE LockCache(p)
  BY <1>4 DEF LockCache
<1>5. CASE UnlockCache(p)
  BY <1>5 DEF UnlockCache
<1>6. CASE UnlockAnalyze(p)
  BY <1>6 DEF UnlockAnalyze
<1>7. CASE Claim(p)
  BY <1>7 DEF Claim
<1>8. CASE Open(p)
  BY <1>8 DEF Open
<1>9. CASE Stage(p)
  BY <1>9 DEF Stage
<1>10. CASE WriteArtifact(p)
  BY <1>10 DEF WriteArtifact
<1>11. CASE StagesDone(p)
  BY <1>11 DEF StagesDone
<1>12. CASE Finalise(p)
  BY <1>12 DEF Finalise
<1>13. CASE RemoveOld(p)
  BY <1>13 DEF RemoveOld
<1>14. CASE RenameNew(p)
  BY <1>14 DEF RenameNew
<1>15. CASE Cleanup(p)
  BY <1>15 DEF Cleanup
<1>16. CASE Close(p)
  BY <1>16 DEF Close
<1>17. CASE Clear(p)
  BY <1>17 DEF Clear
<1>18. CASE \E k \in Keys : CacheWrite(p, k)
  BY <1>18 DEF CacheWrite
<1>19. CASE Fail(p)
  BY <1>19 DEF Fail
<1>20. CASE Kill(p)
  BY <1>20 DEF Kill
<1> QED
  BY <1>1, <1>2, <1>3, <1>4, <1>5, <1>6, <1>7, <1>8, <1>9, <1>10, <1>11,
     <1>12, <1>13, <1>14, <1>15, <1>16, <1>17, <1>18, <1>19, <1>20
  DEF Move, Step

(* Without the locks no process touches the storage roots. *)
LEMMA RootsNeedLocks ==
  ASSUME TypeOK, NEW p \in Procs, Move(p), pc[p] \notin HoldsCache
  PROVE  SameRoots
<1> USE DEF TypeOK, goto, command, output, cache, history, SameRoots, HoldsCache
<1>1. CASE StartAnalyze(p)
  BY <1>1 DEF StartAnalyze
<1>2. CASE StartClear(p)
  BY <1>2 DEF StartClear
<1>3. CASE LockAnalyze(p)
  BY <1>3 DEF LockAnalyze
<1>4. CASE LockCache(p)
  BY <1>4 DEF LockCache
<1>5. CASE UnlockCache(p)
  BY <1>5 DEF UnlockCache
<1>6. CASE UnlockAnalyze(p)
  BY <1>6 DEF UnlockAnalyze
<1>7. CASE Claim(p)
  BY <1>7 DEF Claim
<1>8. CASE Open(p)
  BY <1>8 DEF Open
<1>9. CASE Stage(p)
  BY <1>9 DEF Stage
<1>10. CASE WriteArtifact(p)
  BY <1>10 DEF WriteArtifact
<1>11. CASE StagesDone(p)
  BY <1>11 DEF StagesDone
<1>12. CASE Finalise(p)
  BY <1>12 DEF Finalise
<1>13. CASE RemoveOld(p)
  BY <1>13 DEF RemoveOld
<1>14. CASE RenameNew(p)
  BY <1>14 DEF RenameNew
<1>15. CASE Cleanup(p)
  BY <1>15 DEF Cleanup
<1>16. CASE Close(p)
  BY <1>16 DEF Close
<1>17. CASE Clear(p)
  BY <1>17 DEF Clear
<1>18. CASE \E k \in Keys : CacheWrite(p, k)
  BY <1>18 DEF CacheWrite
<1>19. CASE Fail(p)
  BY <1>19 DEF Fail, Abandon
<1>20. CASE Kill(p)
  BY <1>20 DEF Kill, Abandon
<1> QED
  BY <1>1, <1>2, <1>3, <1>4, <1>5, <1>6, <1>7, <1>8, <1>9, <1>10, <1>11,
     <1>12, <1>13, <1>14, <1>15, <1>16, <1>17, <1>18, <1>19, <1>20
  DEF Move, Step

(* Every step keeps what its own process staged. *)
LEMMA StagedStep ==
  ASSUME TypeOK, LockInv, RoleInv, AtInv, RunInv, NEW p \in Procs, Move(p)
  PROVE  StagedBy(p)'
<1> USE DEF TypeOK, goto, command, output, cache, history, StagedBy, RunInv, RoleInv, AtInv, Forget
<1>1. CASE StartAnalyze(p)
  BY <1>1 DEF StartAnalyze
<1>2. CASE StartClear(p)
  BY <1>2 DEF StartClear
<1>3. CASE LockAnalyze(p)
  BY <1>3 DEF LockAnalyze
<1>4. CASE LockCache(p)
  BY <1>4 DEF LockCache
<1>5. CASE UnlockCache(p)
  BY <1>5 DEF UnlockCache
<1>6. CASE UnlockAnalyze(p)
  BY <1>6 DEF UnlockAnalyze
<1>7. CASE Claim(p)
  BY <1>7 DEF Claim
<1>8. CASE Open(p)
  BY <1>8 DEF Open
<1>9. CASE Stage(p)
  <2>1. staging' = [e \in Entries |-> Absent] /\ at'[p] = 1 /\ pc'[p] = "open"
    BY <1>9 DEF Stage
  <2>2. \A i \in DOMAIN WriteOrder : ~(i < 1)
    BY OrdersAssumption
  <2> QED
    BY <2>1, <2>2 DEF Entries
<1>10. CASE WriteArtifact(p)
  <2> DEFINE w == WriteOrder[at[p]]
  <2>1. pc[p] = "work" /\ pc'[p] = "work" /\ run' = run /\ at'[p] = at[p] + 1
    BY <1>10 DEF WriteArtifact
  <2>2. at[p] \in DOMAIN WriteOrder /\ w \in Public \cup Internal
    BY <1>10, OrdersAssumption DEF WriteArtifact
  <2>3. run[p] \in RunIds /\ run[p].mode \in {"plain", "debug"}
    BY <2>1 DEF RunIds
  <2>4. \A i \in DOMAIN WriteOrder : i < at[p] + 1 => i < at[p] \/ i = at[p]
    BY OrdersAssumption
  <2>5. CASE w \in Internal /\ run[p].mode = "plain"
    <3>1. staging' = staging /\ w \notin Public
      BY <1>10, <2>5, EntriesAssumption DEF WriteArtifact
    <3> HIDE DEF w
    <3>2. \A i \in DOMAIN WriteOrder :
            WriteOrder[i] \in Public /\ i < at[p] + 1 => staging[WriteOrder[i]] = run[p]
      BY <2>1, <2>4, <3>1 DEF w
    <3> QED
      BY <2>1, <3>1, <3>2
  <2>6. CASE ~(w \in Internal /\ run[p].mode = "plain")
    <3>1. staging' = [staging EXCEPT ![w] = run[p]]
      BY <1>10, <2>6 DEF WriteArtifact
    <3>2. w \in Entries /\ w # Bundle
      BY <2>2, EntriesAssumption DEF Entries
    <3>3. \A e \in Entries : staging'[e] = IF e = w THEN run[p] ELSE staging[e]
      BY <3>1, <3>2
    <3>4. staging'[Bundle] = Absent
      BY <2>1, <3>2, <3>3 DEF Entries
    <3>5. \A e \in Internal : staging'[e] = Absent \/ (staging'[e] = run[p] /\ run[p].mode = "debug")
      BY <2>1, <2>3, <2>6, <3>3 DEF Entries
    <3>6. \A e \in Public : staging'[e] \in {Absent, run[p]}
      BY <2>1, <3>3 DEF Entries
    <3>7. \A i \in DOMAIN WriteOrder :
            WriteOrder[i] \in Public /\ i < at[p] + 1 => staging'[WriteOrder[i]] = run[p]
      BY <2>1, <2>4, <3>3 DEF Entries
    <3> HIDE DEF w
    <3> QED
      BY <2>1, <3>4, <3>5, <3>6, <3>7
  <2> QED
    BY <2>5, <2>6
<1>11. CASE StagesDone(p)
  BY <1>11 DEF StagesDone
<1>12. CASE Finalise(p)
  BY <1>12 DEF Finalise
<1>13. CASE RemoveOld(p)
  BY <1>13 DEF RemoveOld
<1>14. CASE RenameNew(p)
  BY <1>14 DEF RenameNew
<1>15. CASE Cleanup(p)
  BY <1>15 DEF Cleanup
<1>16. CASE Close(p)
  BY <1>16 DEF Close
<1>17. CASE Clear(p)
  BY <1>17 DEF Clear
<1>18. CASE \E k \in Keys : CacheWrite(p, k)
  BY <1>18 DEF CacheWrite
<1>19. CASE Fail(p)
  BY <1>19, UnwindTypes DEF Fail
<1>20. CASE Kill(p)
  BY <1>20 DEF Kill
<1> QED
  BY <1>1, <1>2, <1>3, <1>4, <1>5, <1>6, <1>7, <1>8, <1>9, <1>10, <1>11,
     <1>12, <1>13, <1>14, <1>15, <1>16, <1>17, <1>18, <1>19, <1>20
  DEF Move, Step

(* Every step keeps the publication of its own process in order. *)
LEMMA PublishedStep ==
  ASSUME TypeOK, LockInv, RoleInv, AtInv, RunInv, NEW p \in Procs, Move(p)
  PROVE  PublishedBy(p)'
<1> USE DEF TypeOK, goto, command, output, cache, history, PublishedBy, RunInv, RoleInv, AtInv, Forget
<1>1. CASE StartAnalyze(p)
  BY <1>1 DEF StartAnalyze
<1>2. CASE StartClear(p)
  BY <1>2 DEF StartClear
<1>3. CASE LockAnalyze(p)
  BY <1>3 DEF LockAnalyze
<1>4. CASE LockCache(p)
  BY <1>4 DEF LockCache
<1>5. CASE UnlockCache(p)
  BY <1>5 DEF UnlockCache
<1>6. CASE UnlockAnalyze(p)
  BY <1>6 DEF UnlockAnalyze
<1>7. CASE Claim(p)
  BY <1>7 DEF Claim
<1>8. CASE Open(p)
  BY <1>8 DEF Open
<1>9. CASE Stage(p)
  BY <1>9 DEF Stage
<1>10. CASE WriteArtifact(p)
  BY <1>10 DEF WriteArtifact
<1>11. CASE StagesDone(p)
  BY <1>11 DEF StagesDone
<1>12. CASE Finalise(p)
  <2>1. pc[p] = "finalise" /\ pc'[p] = "remove" /\ run' = run /\ at'[p] = 1
    BY <1>12 DEF Finalise
  <2>2. run[p].mode \in {"plain", "debug"}
    BY <2>1 DEF RunIds
  <2>3. \A e \in Public : staging[e] = run[p]
    BY <2>1, OrdersAssumption DEF StagedBy
  <2>4. \A e \in Entries : staging'[e] = Written(run[p], e)
    BY <1>12, <2>1, <2>2, <2>3, EntriesAssumption DEF Finalise, StagedBy, Written, Entries
  <2>5. \A i \in DOMAIN PublishOrder : PublishOrder[i] \in Entries /\ ~(i < 1)
    BY OrdersAssumption
  <2> QED
    BY <2>1, <2>4, <2>5
<1>13. CASE RemoveOld(p)
  <2> DEFINE e == PublishOrder[at[p]]
  <2>1. pc[p] = "remove" /\ pc'[p] = "rename" /\ run' = run /\ at' = at /\ staging' = staging
    BY <1>13 DEF RemoveOld
  <2>2. reports' = [reports EXCEPT ![e] = Absent] /\ e \in Entries
    BY <1>13, <2>1, PublishedEntry DEF RemoveOld
  <2>3. \A f \in Entries : reports'[f] = IF f = e THEN Absent ELSE reports[f]
    BY <2>2
  <2>4. \A i \in DOMAIN PublishOrder :
          PublishOrder[i] \in Entries /\ (i # at[p] => PublishOrder[i] # e)
    BY <2>1, OrdersAssumption
  <2>5. \A i \in DOMAIN PublishOrder : i < at[p] => i # at[p]
    BY OrdersAssumption
  <2> HIDE DEF e
  <2>6. \A i \in DOMAIN PublishOrder :
          i < at[p] => reports'[PublishOrder[i]] = Written(run[p], PublishOrder[i])
    BY <2>1, <2>3, <2>4, <2>5
  <2>7. reports'[PublishOrder[at[p]]] = Absent
    BY <2>2, <2>3 DEF e
  <2> QED
    BY <2>1, <2>6, <2>7 DEF Written
<1>14. CASE RenameNew(p)
  <2> DEFINE e == PublishOrder[at[p]]
  <2>1. pc[p] = "rename" /\ run' = run /\ e \in Entries /\ at[p] \in DOMAIN PublishOrder
    BY <1>14, PublishedEntry DEF RenameNew
  <2>2. staging[e] = Written(run[p], e) /\ reports[e] = Absent
    BY <2>1, OrdersAssumption
  <2>3. /\ \A f \in Entries \ {e} : staging'[f] = staging[f] /\ reports'[f] = reports[f]
        /\ reports'[e] = Written(run[p], e)
    BY <1>14, <2>1, <2>2 DEF RenameNew
  <2>4. \A i \in DOMAIN PublishOrder :
          PublishOrder[i] \in Entries /\ (i # at[p] => PublishOrder[i] # e)
    BY <2>1, OrdersAssumption
  <2>5. \A i \in DOMAIN PublishOrder :
          (i < at[p] + 1 => i < at[p] \/ i = at[p]) /\ (i >= at[p] + 1 => i >= at[p] /\ i # at[p])
    BY OrdersAssumption
  <2> HIDE DEF e
  <2>6. \A i \in DOMAIN PublishOrder :
          i < at[p] + 1 => reports'[PublishOrder[i]] = Written(run[p], PublishOrder[i])
    BY <2>1, <2>3, <2>4, <2>5 DEF e
  <2>7. \A i \in DOMAIN PublishOrder :
          i >= at[p] + 1 => staging'[PublishOrder[i]] = Written(run[p], PublishOrder[i])
    BY <2>1, <2>3, <2>4, <2>5
  <2>8. pc'[p] = "cleanup" \/ (pc'[p] = "remove" /\ at'[p] = at[p] + 1)
    BY <1>14 DEF RenameNew
  <2> QED
    BY <2>1, <2>6, <2>7, <2>8 DEF Written
<1>15. CASE Cleanup(p)
  BY <1>15 DEF Cleanup
<1>16. CASE Close(p)
  BY <1>16 DEF Close
<1>17. CASE Clear(p)
  BY <1>17 DEF Clear
<1>18. CASE \E k \in Keys : CacheWrite(p, k)
  BY <1>18 DEF CacheWrite
<1>19. CASE Fail(p)
  BY <1>19, UnwindTypes DEF Fail
<1>20. CASE Kill(p)
  BY <1>20 DEF Kill
<1> QED
  BY <1>1, <1>2, <1>3, <1>4, <1>5, <1>6, <1>7, <1>8, <1>9, <1>10, <1>11,
     <1>12, <1>13, <1>14, <1>15, <1>16, <1>17, <1>18, <1>19, <1>20
  DEF Move, Step

(* Before it publishes, a process leaves the reports as it found them. *)
LEMMA UntouchedStep ==
  ASSUME TypeOK, LockInv, RoleInv, AtInv, RunInv, NEW p \in Procs, Move(p)
  PROVE  UntouchedBy(p)'
<1> USE DEF TypeOK, goto, command, output, cache, history, UntouchedBy, RunInv, RoleInv, AtInv, Forget
<1>1. CASE StartAnalyze(p)
  BY <1>1 DEF StartAnalyze
<1>2. CASE StartClear(p)
  BY <1>2 DEF StartClear
<1>3. CASE LockAnalyze(p)
  BY <1>3 DEF LockAnalyze
<1>4. CASE LockCache(p)
  BY <1>4 DEF LockCache
<1>5. CASE UnlockCache(p)
  BY <1>5 DEF UnlockCache
<1>6. CASE UnlockAnalyze(p)
  BY <1>6 DEF UnlockAnalyze
<1>7. CASE Claim(p)
  BY <1>7 DEF Claim
<1>8. CASE Open(p)
  BY <1>8 DEF Open
<1>9. CASE Stage(p)
  BY <1>9 DEF Stage
<1>10. CASE WriteArtifact(p)
  BY <1>10 DEF WriteArtifact
<1>11. CASE StagesDone(p)
  BY <1>11 DEF StagesDone
<1>12. CASE Finalise(p)
  BY <1>12 DEF Finalise
<1>13. CASE RemoveOld(p)
  BY <1>13 DEF RemoveOld
<1>14. CASE RenameNew(p)
  BY <1>14 DEF RenameNew
<1>15. CASE Cleanup(p)
  BY <1>15 DEF Cleanup
<1>16. CASE Close(p)
  BY <1>16 DEF Close
<1>17. CASE Clear(p)
  BY <1>17 DEF Clear
<1>18. CASE \E k \in Keys : CacheWrite(p, k)
  BY <1>18 DEF CacheWrite
<1>19. CASE Fail(p)
  BY <1>19, UnwindTypes DEF Fail
<1>20. CASE Kill(p)
  BY <1>20 DEF Kill
<1> QED
  BY <1>1, <1>2, <1>3, <1>4, <1>5, <1>6, <1>7, <1>8, <1>9, <1>10, <1>11,
     <1>12, <1>13, <1>14, <1>15, <1>16, <1>17, <1>18, <1>19, <1>20
  DEF Move, Step

(* A process is marked as failed only where the `finally` blocks run. *)
LEMMA MarkedStep ==
  ASSUME TypeOK, LockInv, RoleInv, AtInv, RunInv, NEW p \in Procs, Move(p)
  PROVE  MarkedBy(p)'
<1> USE DEF TypeOK, goto, command, output, cache, history, MarkedBy, RunInv, RoleInv, AtInv, Forget
<1>1. CASE StartAnalyze(p)
  BY <1>1 DEF StartAnalyze
<1>2. CASE StartClear(p)
  BY <1>2 DEF StartClear
<1>3. CASE LockAnalyze(p)
  BY <1>3 DEF LockAnalyze
<1>4. CASE LockCache(p)
  BY <1>4 DEF LockCache
<1>5. CASE UnlockCache(p)
  BY <1>5 DEF UnlockCache
<1>6. CASE UnlockAnalyze(p)
  BY <1>6 DEF UnlockAnalyze
<1>7. CASE Claim(p)
  BY <1>7 DEF Claim
<1>8. CASE Open(p)
  BY <1>8 DEF Open
<1>9. CASE Stage(p)
  BY <1>9 DEF Stage
<1>10. CASE WriteArtifact(p)
  BY <1>10 DEF WriteArtifact
<1>11. CASE StagesDone(p)
  BY <1>11 DEF StagesDone
<1>12. CASE Finalise(p)
  BY <1>12 DEF Finalise
<1>13. CASE RemoveOld(p)
  BY <1>13 DEF RemoveOld
<1>14. CASE RenameNew(p)
  BY <1>14 DEF RenameNew
<1>15. CASE Cleanup(p)
  BY <1>15 DEF Cleanup
<1>16. CASE Close(p)
  BY <1>16 DEF Close
<1>17. CASE Clear(p)
  BY <1>17 DEF Clear
<1>18. CASE \E k \in Keys : CacheWrite(p, k)
  BY <1>18 DEF CacheWrite
<1>19. CASE Fail(p)
  BY <1>19, UnwindTypes DEF Fail
<1>20. CASE Kill(p)
  BY <1>20 DEF Kill
<1> QED
  BY <1>1, <1>2, <1>3, <1>4, <1>5, <1>6, <1>7, <1>8, <1>9, <1>10, <1>11,
     <1>12, <1>13, <1>14, <1>15, <1>16, <1>17, <1>18, <1>19, <1>20
  DEF Move, Step

(* The locks keep the other processes from disturbing a run. *)
LEMMA OthersUndisturbed ==
  ASSUME TypeOK, LockInv, RunInv, NEW p \in Procs, NEW q \in Procs, p # q, Move(p)
  PROVE  StagedBy(q)' /\ PublishedBy(q)' /\ UntouchedBy(q)' /\ MarkedBy(q)'
<1>1. Same(q)
  BY OthersKeepState
<1>2. MarkedBy(q)'
  BY <1>1 DEF Same, MarkedBy, RunInv
<1>3. CASE pc[q] \notin HoldsCache
  BY <1>1, <1>2, <1>3 DEF Same, HoldsCache, StagedBy, PublishedBy, UntouchedBy
<1>4. CASE pc[q] \in HoldsCache
  <2>1. pc[p] \notin HoldsCache
    BY <1>4, OneInside
  <2>2. SameRoots
    BY <2>1, RootsNeedLocks
  <2>3. StagedBy(q)'
    BY <1>1, <2>2 DEF Same, SameRoots, StagedBy, RunInv
  <2>4. PublishedBy(q)'
    BY <1>1, <2>2 DEF Same, SameRoots, PublishedBy, RunInv
  <2>5. UntouchedBy(q)'
    BY <1>1, <2>2 DEF Same, SameRoots, UntouchedBy, RunInv
  <2> QED
    BY <1>2, <2>3, <2>4, <2>5
<1> QED
  BY <1>3, <1>4

(* A command that stops without spoiling the reports has not touched them. *)
LEMMA AbandonedWhole ==
  ASSUME AtInv, NEW p \in Procs, Abandon(p), publication' # "spoilt"
  PROVE  /\ publication' = publication /\ reports' = reports
         /\ pc[p] # "rename"
         /\ pc[p] = "remove" => at[p] = 1
<1>1. publication' = publication /\ pc[p] # "rename"
  BY DEF Abandon
<1>2. reports' = reports
  BY DEF Abandon
<1>3. pc[p] = "remove" => ~(at[p] > 1)
  BY DEF Abandon
<1>4. at[p] \in Nat \ {0}
  BY DEF AtInv
<1> QED
  BY <1>1, <1>2, <1>3, <1>4

(* The rename of the last entry leaves the whole report set of its run. *)
LEMMA LastRename ==
  ASSUME TypeOK, LockInv, RoleInv, AtInv, RunInv, NEW p \in Procs,
         RenameNew(p), ~(at[p] < Len(PublishOrder))
  PROVE  reports' \in WholeReports
<1> USE DEF TypeOK, goto, command, output, cache, history, AtInv
<1>1. PublishedBy(p) /\ pc[p] = "rename" /\ run[p] \in RunIds
  BY DEF RenameNew, RunInv, RoleInv
<1>2. \A i \in DOMAIN PublishOrder : i < at[p] \/ i = at[p]
  BY <1>1, OrdersAssumption DEF AtInv
<1>3. \A i \in DOMAIN PublishOrder : i < at[p] =>
        reports[PublishOrder[i]] = Written(run[p], PublishOrder[i])
  BY <1>1 DEF PublishedBy
<1>4. at[p] \in DOMAIN PublishOrder /\ PublishOrder[at[p]] \in Entries
  BY <1>1, PublishedEntry
<1>5. staging[PublishOrder[at[p]]] = Written(run[p], PublishOrder[at[p]])
      /\ reports[PublishOrder[at[p]]] = Absent
  BY <1>1, <1>4, OrdersAssumption DEF PublishedBy
<1>6. reports' = [reports EXCEPT ![PublishOrder[at[p]]] = Written(run[p], PublishOrder[at[p]])]
  BY <1>4, <1>5 DEF RenameNew
<1>7. \A i \in DOMAIN PublishOrder :
        reports'[PublishOrder[i]] = Written(run[p], PublishOrder[i])
  BY <1>2, <1>3, <1>4, <1>6, OrdersAssumption
<1>8. \A e \in Entries : reports'[e] = Written(run[p], e)
  BY <1>7, OrdersAssumption
<1>9. reports' = [e \in Entries |-> Written(run[p], e)]
  BY <1>6, <1>8
<1> QED
  BY <1>1, <1>9 DEF WholeReports

(* Only a finished or a spoilt publication changes what the reader sees. *)
LEMMA WholeStep ==
  ASSUME TypeOK, LockInv, RoleInv, AtInv, RunInv, NEW p \in Procs, Move(p), ReportsWhole
  PROVE  ReportsWhole'
<1> USE DEF TypeOK, goto, command, output, cache, history, AtInv, ReportsWhole
<1>1. CASE StartAnalyze(p)
  <2>1. pc[p] \notin {"remove", "rename"} /\ UNCHANGED <<reports, publication>>
    BY <1>1 DEF StartAnalyze
  <2> QED
    BY <2>1, OthersKeepState DEF Same
<1>2. CASE StartClear(p)
  <2>1. pc[p] \notin {"remove", "rename"} /\ UNCHANGED <<reports, publication>>
    BY <1>2 DEF StartClear
  <2> QED
    BY <2>1, OthersKeepState DEF Same
<1>3. CASE LockAnalyze(p)
  <2>1. pc[p] \notin {"remove", "rename"} /\ UNCHANGED <<reports, publication>>
    BY <1>3 DEF LockAnalyze
  <2> QED
    BY <2>1, OthersKeepState DEF Same
<1>4. CASE LockCache(p)
  <2>1. pc[p] \notin {"remove", "rename"} /\ UNCHANGED <<reports, publication>>
    BY <1>4 DEF LockCache
  <2> QED
    BY <2>1, OthersKeepState DEF Same
<1>5. CASE UnlockCache(p)
  <2>1. pc[p] \notin {"remove", "rename"} /\ UNCHANGED <<reports, publication>>
    BY <1>5 DEF UnlockCache
  <2> QED
    BY <2>1, OthersKeepState DEF Same
<1>6. CASE UnlockAnalyze(p)
  <2>1. pc[p] \notin {"remove", "rename"} /\ UNCHANGED <<reports, publication>>
    BY <1>6 DEF UnlockAnalyze
  <2> QED
    BY <2>1, OthersKeepState DEF Same
<1>7. CASE Claim(p)
  <2>1. pc[p] \notin {"remove", "rename"} /\ UNCHANGED <<reports, publication>>
    BY <1>7 DEF Claim
  <2> QED
    BY <2>1, OthersKeepState DEF Same
<1>8. CASE Open(p)
  <2>1. pc[p] \notin {"remove", "rename"} /\ UNCHANGED <<reports, publication>>
    BY <1>8 DEF Open
  <2> QED
    BY <2>1, OthersKeepState DEF Same
<1>9. CASE Stage(p)
  <2>1. pc[p] \notin {"remove", "rename"} /\ UNCHANGED <<reports, publication>>
    BY <1>9 DEF Stage
  <2> QED
    BY <2>1, OthersKeepState DEF Same
<1>10. CASE WriteArtifact(p)
  <2>1. pc[p] \notin {"remove", "rename"} /\ UNCHANGED <<reports, publication>>
    BY <1>10 DEF WriteArtifact
  <2> QED
    BY <2>1, OthersKeepState DEF Same
<1>11. CASE StagesDone(p)
  <2>1. pc[p] \notin {"remove", "rename"} /\ UNCHANGED <<reports, publication>>
    BY <1>11 DEF StagesDone
  <2> QED
    BY <2>1, OthersKeepState DEF Same
<1>12. CASE Finalise(p)
  <2>1. pc[p] \notin {"remove", "rename"} /\ UNCHANGED <<reports, publication>>
    BY <1>12 DEF Finalise
  <2> QED
    BY <2>1, OthersKeepState DEF Same
<1>13. CASE RemoveOld(p)
  <2>1. pc'[p] = "rename"
    BY <1>13 DEF RemoveOld
  <2> QED
    BY <2>1
<1>14. CASE RenameNew(p)
  <2>1. CASE at[p] < Len(PublishOrder)
    <3>1. pc'[p] = "remove" /\ at'[p] = at[p] + 1 /\ at[p] \in Nat \ {0}
      BY <1>14, <2>1 DEF RenameNew
    <3> QED
      BY <3>1
  <2>2. CASE ~(at[p] < Len(PublishOrder))
    BY <1>14, <2>2, LastRename
  <2> QED
    BY <2>1, <2>2
<1>15. CASE Cleanup(p)
  <2>1. pc[p] \notin {"remove", "rename"} /\ UNCHANGED <<reports, publication>>
    BY <1>15 DEF Cleanup
  <2> QED
    BY <2>1, OthersKeepState DEF Same
<1>16. CASE Close(p)
  <2>1. pc[p] \notin {"remove", "rename"} /\ UNCHANGED <<reports, publication>>
    BY <1>16 DEF Close
  <2> QED
    BY <2>1, OthersKeepState DEF Same
<1>17. CASE Clear(p)
  <2>1. pc[p] \notin {"remove", "rename"} /\ UNCHANGED <<reports, publication>>
    BY <1>17 DEF Clear
  <2> QED
    BY <2>1, OthersKeepState DEF Same
<1>18. CASE \E k \in Keys : CacheWrite(p, k)
  <2>1. pc[p] \notin {"remove", "rename"} /\ UNCHANGED <<reports, publication>>
    BY <1>18 DEF CacheWrite
  <2> QED
    BY <2>1, OthersKeepState DEF Same
<1>19. CASE Fail(p)
  <2>1. Abandon(p)
    BY <1>19 DEF Fail
  <2>2. CASE publication' = "spoilt"
    BY <2>2
  <2>3. CASE publication' # "spoilt"
    <3>1. publication = publication' /\ reports' = reports /\ pc[p] # "rename"
          /\ (pc[p] = "remove" => at[p] = 1)
      BY <2>1, <2>3, AbandonedWhole
    <3> QED
      BY <3>1, OthersKeepState DEF Same
  <2> QED
    BY <2>2, <2>3
<1>20. CASE Kill(p)
  <2>1. Abandon(p)
    BY <1>20 DEF Kill
  <2>2. CASE publication' = "spoilt"
    BY <2>2
  <2>3. CASE publication' # "spoilt"
    <3>1. publication = publication' /\ reports' = reports /\ pc[p] # "rename"
          /\ (pc[p] = "remove" => at[p] = 1)
      BY <2>1, <2>3, AbandonedWhole
    <3> QED
      BY <3>1, OthersKeepState DEF Same
  <2> QED
    BY <2>2, <2>3
<1> QED
  BY <1>1, <1>2, <1>3, <1>4, <1>5, <1>6, <1>7, <1>8, <1>9, <1>10, <1>11,
     <1>12, <1>13, <1>14, <1>15, <1>16, <1>17, <1>18, <1>19, <1>20
  DEF Move, Step

(* Only a process that holds the locks removes the cache directory. *)
LEMMA StoreStep ==
  ASSUME TypeOK, LockInv, RoleInv, AtInv, RunInv, NEW p \in Procs, Move(p), StoreOpenExists
  PROVE  StoreOpenExists'
<1> USE DEF TypeOK, goto, command, output, cache, history, StoreOpenExists
<1>1. CASE StartAnalyze(p)
  <2>1. store' = store /\ (UsesStore(p)' => UsesStore(p))
    BY <1>1 DEF StartAnalyze, Forget, UsesStore
  <2> QED
    BY <2>1, OthersKeepState DEF Same, UsesStore
<1>2. CASE StartClear(p)
  <2>1. store' = store /\ (UsesStore(p)' => UsesStore(p))
    BY <1>2 DEF StartClear, Forget, UsesStore
  <2> QED
    BY <2>1, OthersKeepState DEF Same, UsesStore
<1>3. CASE LockAnalyze(p)
  <2>1. store' = store /\ (UsesStore(p)' => UsesStore(p))
    BY <1>3 DEF LockAnalyze, Forget, UsesStore
  <2> QED
    BY <2>1, OthersKeepState DEF Same, UsesStore
<1>4. CASE LockCache(p)
  <2>1. store' = store /\ (UsesStore(p)' => UsesStore(p))
    BY <1>4 DEF LockCache, Forget, UsesStore
  <2> QED
    BY <2>1, OthersKeepState DEF Same, UsesStore
<1>5. CASE UnlockCache(p)
  <2>1. store' = store /\ (UsesStore(p)' => UsesStore(p))
    BY <1>5 DEF UnlockCache, Forget, UsesStore
  <2> QED
    BY <2>1, OthersKeepState DEF Same, UsesStore
<1>6. CASE UnlockAnalyze(p)
  <2>1. store' = store /\ (UsesStore(p)' => UsesStore(p))
    BY <1>6 DEF UnlockAnalyze, Forget, UsesStore
  <2> QED
    BY <2>1, OthersKeepState DEF Same, UsesStore
<1>7. CASE Claim(p)
  BY <1>7 DEF Claim
<1>8. CASE Open(p)
  BY <1>8 DEF Open
<1>9. CASE Stage(p)
  <2>1. store' = store /\ (UsesStore(p)' => UsesStore(p))
    BY <1>9 DEF Stage, Forget, UsesStore
  <2> QED
    BY <2>1, OthersKeepState DEF Same, UsesStore
<1>10. CASE WriteArtifact(p)
  <2>1. store' = store /\ (UsesStore(p)' => UsesStore(p))
    BY <1>10 DEF WriteArtifact, Forget, UsesStore
  <2> QED
    BY <2>1, OthersKeepState DEF Same, UsesStore
<1>11. CASE StagesDone(p)
  <2>1. store' = store /\ (UsesStore(p)' => UsesStore(p))
    BY <1>11 DEF StagesDone, Forget, UsesStore
  <2> QED
    BY <2>1, OthersKeepState DEF Same, UsesStore
<1>12. CASE Finalise(p)
  <2>1. store' = store /\ (UsesStore(p)' => UsesStore(p))
    BY <1>12 DEF Finalise, Forget, UsesStore
  <2> QED
    BY <2>1, OthersKeepState DEF Same, UsesStore
<1>13. CASE RemoveOld(p)
  <2>1. store' = store /\ (UsesStore(p)' => UsesStore(p))
    BY <1>13 DEF RemoveOld, Forget, UsesStore
  <2> QED
    BY <2>1, OthersKeepState DEF Same, UsesStore
<1>14. CASE RenameNew(p)
  <2>1. store' = store /\ (UsesStore(p)' => UsesStore(p))
    BY <1>14 DEF RenameNew, Forget, UsesStore
  <2> QED
    BY <2>1, OthersKeepState DEF Same, UsesStore
<1>15. CASE Cleanup(p)
  <2>1. store' = store /\ (UsesStore(p)' => UsesStore(p))
    BY <1>15 DEF Cleanup, Forget, UsesStore
  <2> QED
    BY <2>1, OthersKeepState DEF Same, UsesStore
<1>16. CASE Close(p)
  <2>1. store' = store /\ (UsesStore(p)' => UsesStore(p))
    BY <1>16 DEF Close, Forget, UsesStore
  <2> QED
    BY <2>1, OthersKeepState DEF Same, UsesStore
<1>17. CASE Clear(p)
  <2>1. pc[p] = "clear" /\ ~UsesStore(p)'
    BY <1>17 DEF Clear, UsesStore
  <2>2. \A q \in Procs : p # q => ~UsesStore(q)'
    BY <2>1, OneInside, OthersKeepState DEF Same, UsesStore, HoldsCache
  <2> QED
    BY <2>1, <2>2
<1>18. CASE \E k \in Keys : CacheWrite(p, k)
  <2>1. store' = store /\ (UsesStore(p)' => UsesStore(p))
    BY <1>18 DEF CacheWrite, Forget, UsesStore
  <2> QED
    BY <2>1, OthersKeepState DEF Same, UsesStore
<1>19. CASE Fail(p)
  <2>1. store' = store /\ (UsesStore(p)' => UsesStore(p))
    BY <1>19, UnwindTypes DEF Fail, UsesStore
  <2> QED
    BY <2>1, OthersKeepState DEF Same, UsesStore
<1>20. CASE Kill(p)
  <2>1. store' = store /\ (UsesStore(p)' => UsesStore(p))
    BY <1>20 DEF Kill, UsesStore
  <2> QED
    BY <2>1, OthersKeepState DEF Same, UsesStore
<1> QED
  BY <1>1, <1>2, <1>3, <1>4, <1>5, <1>6, <1>7, <1>8, <1>9, <1>10, <1>11,
     <1>12, <1>13, <1>14, <1>15, <1>16, <1>17, <1>18, <1>19, <1>20
  DEF Move, Step

-----------------------------------------------------------------------------
(* The inductive invariant: the properties, and what they need of a run's   *)
(* local state and of the locks.                                            *)
IInv ==
  /\ TypeOK /\ LockInv /\ RoleInv /\ AtInv /\ RunInv
  /\ ReportsWhole /\ StoreOpenExists

(* No process has begun. *)
LEMMA InitInv == Init => IInv
<1> SUFFICES ASSUME Init PROVE IInv
  OBVIOUS
<1>1. TypeOK
  BY InitTypes
<1>2. \A p \in Procs : pc[p] = "idle" /\ at[p] = 1 /\ p \notin failed
  BY DEF Init
<1>3. LockInv
  BY <1>2, ProcsAssumption DEF Init, LockInv, HoldsCache, HoldsAnalyze
<1>4. RoleInv /\ AtInv
  BY <1>2 DEF RoleInv, AtInv
<1>5. RunInv
  BY <1>2 DEF RunInv, StagedBy, PublishedBy, UntouchedBy, MarkedBy
<1>6. ReportsWhole /\ StoreOpenExists
  BY <1>2 DEF Init, ReportsWhole, StoreOpenExists, UsesStore
<1> QED
  BY <1>1, <1>3, <1>4, <1>5, <1>6 DEF IInv

(* Every step keeps the invariant: its own process by the lemma of each     *)
(* conjunct, the others because they do not hold the locks.                 *)
LEMMA NextInv == IInv /\ [Next]_vars => IInv'
<1> SUFFICES ASSUME IInv, [Next]_vars PROVE IInv'
  OBVIOUS
<1> USE DEF IInv
<1>1. TypeOK' /\ LockInv' /\ RoleInv' /\ AtInv'
  BY StepTypes, StepLocks, StepRoles, StepAt
<1>2. CASE UNCHANGED vars
  <2> USE <1>2 DEF vars, command, output, cache, history
  <2>1. RunInv'
    BY DEF RunInv, StagedBy, PublishedBy, UntouchedBy, MarkedBy
  <2>2. ReportsWhole' /\ StoreOpenExists'
    BY DEF ReportsWhole, StoreOpenExists, UsesStore
  <2> QED
    BY <1>1, <2>1, <2>2
<1>3. CASE Next
  <2>1. PICK p \in Procs : Move(p)
    BY <1>3 DEF Next
  <2>2. StagedBy(p)' /\ PublishedBy(p)' /\ UntouchedBy(p)' /\ MarkedBy(p)'
    BY <2>1, StagedStep, PublishedStep, UntouchedStep, MarkedStep
  <2>3. \A q \in Procs : p # q =>
          StagedBy(q)' /\ PublishedBy(q)' /\ UntouchedBy(q)' /\ MarkedBy(q)'
    BY <2>1, OthersUndisturbed
  <2>4. RunInv'
    BY <2>2, <2>3 DEF RunInv
  <2>5. ReportsWhole' /\ StoreOpenExists'
    BY <2>1, WholeStep, StoreStep
  <2> QED
    BY <1>1, <2>4, <2>5
<1> QED
  BY <1>2, <1>3

(* The invariant holds in every reachable state of every instance. *)
THEOREM Inductive == Spec => []IInv
  BY InitInv, NextInv, PTL DEF Spec

(* The variables keep their types. *)
THEOREM TypeCorrect == Spec => []TypeOK
<1>1. IInv => TypeOK
  BY DEF IInv
<1> QED
  BY <1>1, Inductive, PTL

(* Two commands are never inside analysis or clearing together, whatever    *)
(* fails or is killed in between.                                           *)
THEOREM Exclusive == Spec => []MutualExclusion
<1>1. IInv => MutualExclusion
  BY OneInside DEF IInv, MutualExclusion, HoldsCache
<1> QED
  BY <1>1, Inductive, PTL

(* Between publications the output root holds one run's report set, whole,  *)
(* unless a publication was cut short.                                      *)
THEOREM ReportsStayWhole == Spec => []ReportsWhole
<1>1. IInv => ReportsWhole
  BY DEF IInv
<1> QED
  BY <1>1, Inductive, PTL

(* Until a command begins to publish, the reports are those it found.       *)
THEOREM ReportsUntouched == Spec => []UnpublishedLeavesReports
<1>1. IInv => UnpublishedLeavesReports
  BY DEF IInv, RunInv, UntouchedBy, UnpublishedLeavesReports
<1> QED
  BY <1>1, Inductive, PTL

(* The cache directory does not disappear under a run that uses it.         *)
THEOREM StoreStays == Spec => []StoreOpenExists
<1>1. IInv => StoreOpenExists
  BY DEF IInv
<1> QED
  BY <1>1, Inductive, PTL

-----------------------------------------------------------------------------
(* Action properties. *)

(* Every step of p other than a rename of p puts nothing new into the       *)
(* output root.                                                             *)
LEMMA OnlyRenamesPublish ==
  ASSUME TypeOK, AtInv, NEW p \in Procs, Move(p), ~RenameNew(p), NEW e \in Entries
  PROVE  reports'[e] \in {reports[e], Absent, Torn}
<1> USE DEF TypeOK, output
<1>1. CASE RemoveOld(p)
  BY <1>1 DEF RemoveOld
<1>2. CASE Fail(p) \/ Kill(p)
  <2>1. Abandon(p)
    BY <1>2 DEF Fail, Kill
  <2> QED
    BY <2>1 DEF Abandon
<1>3. CASE StartAnalyze(p) \/ StartClear(p) \/ LockAnalyze(p) \/ LockCache(p)
           \/ UnlockCache(p) \/ UnlockAnalyze(p)
  BY <1>3 DEF StartAnalyze, StartClear, LockAnalyze, LockCache, UnlockCache, UnlockAnalyze
<1>4. CASE Claim(p) \/ Open(p) \/ Stage(p) \/ WriteArtifact(p) \/ StagesDone(p)
           \/ Finalise(p) \/ (\E k \in Keys : CacheWrite(p, k))
  BY <1>4 DEF Claim, Open, Stage, WriteArtifact, StagesDone, Finalise, CacheWrite
<1>5. CASE Cleanup(p) \/ Close(p) \/ Clear(p)
  BY <1>5 DEF Cleanup, Close, Clear
<1> QED
  BY <1>1, <1>2, <1>3, <1>4, <1>5 DEF Move, Step

(* Only a publishing run's own entries appear in the output root.           *)
THEOREM PublishesOwn == Spec => PublishesOwnRun
<1> DEFINE Own == \A e \in Entries :
             reports'[e] \notin {reports[e], Absent, Torn}
             => \E p \in Procs : pc[p] = "rename" /\ reports'[e] = run[p]
<1>1. IInv /\ [Next]_vars => [Own]_vars
  <2> SUFFICES ASSUME IInv, NEW p \in Procs, Move(p) PROVE Own
    BY DEF Next
  <2> USE DEF IInv
  <2>1. CASE ~RenameNew(p)
    BY <2>1, OnlyRenamesPublish
  <2>2. CASE RenameNew(p)
    <3> DEFINE f == PublishOrder[at[p]]
    <3>1. pc[p] = "rename" /\ f \in Entries
      BY <2>2, PublishedEntry DEF RenameNew
    <3>2. staging[f] = Written(run[p], f)
      BY <3>1, OrdersAssumption DEF AtInv, RunInv, PublishedBy
    <3>3. reports' = reports \/ reports' = [reports EXCEPT ![f] = staging[f]]
      BY <2>2 DEF RenameNew, output
    <3>4. staging[f] \in {run[p], Absent}
      BY <3>2 DEF Written
    <3> HIDE DEF f
    <3> QED
      BY <3>1, <3>3, <3>4 DEF TypeOK
  <2> QED
    BY <2>1, <2>2
<1> QED
  BY <1>1, Inductive, PTL DEF Spec, PublishesOwnRun

(* Committed cache entries go away only when a clearing command clears.     *)
THEOREM CacheGrows == Spec => CacheOnlyGrows
<1> DEFINE Grows == db \subseteq db' \/ \E p \in Clearers : pc[p] = "clear"
<1>1. IInv /\ [Next]_vars => [Grows]_vars
  <2> SUFFICES ASSUME IInv, NEW p \in Procs, Move(p) PROVE Grows
    BY DEF Next
  <2> USE DEF cache
  <2>1. CASE pc[p] = "clear"
    BY <2>1 DEF IInv, RoleInv
  <2>2. CASE Fail(p) \/ Kill(p)
    BY <2>1, <2>2 DEF Fail, Kill, Abandon
  <2>3. CASE StartAnalyze(p) \/ StartClear(p) \/ LockAnalyze(p) \/ LockCache(p)
             \/ UnlockCache(p) \/ UnlockAnalyze(p)
    BY <2>3 DEF StartAnalyze, StartClear, LockAnalyze, LockCache, UnlockCache, UnlockAnalyze
  <2>4. CASE Claim(p) \/ Open(p) \/ Stage(p) \/ WriteArtifact(p) \/ StagesDone(p)
             \/ Finalise(p) \/ (\E k \in Keys : CacheWrite(p, k))
    BY <2>4 DEF Claim, Open, Stage, WriteArtifact, StagesDone, Finalise, CacheWrite
  <2>5. CASE RemoveOld(p) \/ RenameNew(p) \/ Cleanup(p) \/ Close(p) \/ Clear(p)
    BY <2>1, <2>5 DEF RemoveOld, RenameNew, Cleanup, Close, Clear
  <2> QED
    BY <2>1, <2>2, <2>3, <2>4, <2>5 DEF Move, Step
<1> QED
  BY <1>1, Inductive, PTL DEF Spec, CacheOnlyGrows

-----------------------------------------------------------------------------
(* AnalysisRun implements SerialCommands: to whoever reads the output root   *)
(* and the cache, the commands of any number of processes take effect one at *)
(* a time, and a run delivers its report set in one step.                    *)

Owner == lock["cache.lock"]

(* A publication is in progress. *)
Publishing(p) == pc[p] \in {"remove", "rename"}

(* A step that changes none of this is invisible. *)
Quiet ==
  /\ UNCHANGED <<Owner, publication, reports, db>>
  /\ Owner \in failed' <=> Owner \in failed
  /\ Owner \in Procs => /\ Publishing(Owner)' <=> Publishing(Owner)
                        /\ before'[Owner] = before[Owner]

LEMMA QuietStutters ==
  ASSUME TypeOK, Quiet
  PROVE  UNCHANGED Abstract!vars
<1>1. Shown' = Shown
  BY DEF TypeOK, Quiet, Shown, Owner, Publishing
<1>2. (lock'["cache.lock"] \in failed') = (lock["cache.lock"] \in failed)
  BY DEF Quiet, Owner
<1> QED
  BY <1>1, <1>2 DEF Abstract!vars, Quiet, Owner

(* Nothing has been published, saved or locked. *)
LEMMA InitImplements == Init => Abstract!Init
<1> SUFFICES ASSUME Init PROVE Abstract!Init
  OBVIOUS
<1>1. lock["cache.lock"] = None /\ failed = {} /\ db = {}
  BY DEF Init
<1>2. Shown = [e \in Entries |-> Absent]
  BY <1>1 DEF Init, Shown
<1>3. (lock["cache.lock"] \in failed) = FALSE
  BY <1>1
<1> QED
  BY <1>1, <1>2, <1>3 DEF Abstract!Init

(* The owner of the cache lock is the process whose step says so. *)
LEMMA OwnerHolds ==
  ASSUME LockInv, NEW p \in Procs
  PROVE  Owner = p <=> pc[p] \in HoldsCache
  BY DEF LockInv, Owner

(* A process without the cache lock does nothing a reader can see, unless   *)
(* it takes the lock.                                                       *)
LEMMA OutsideIsQuiet ==
  ASSUME IInv, NEW p \in Procs, Move(p), pc[p] \notin HoldsCache, ~LockCache(p)
  PROVE  Quiet
<1> USE DEF IInv, TypeOK
<1>1. UNCHANGED <<publication, reports>>
  BY RootsNeedLocks DEF SameRoots
<1>2. Owner # p
  BY OwnerHolds
<1>3. UNCHANGED Owner
  BY <1>2, ProcsAssumption DEF HoldsCache, Move, Step, Owner, command, output, cache, history,
    StartAnalyze, StartClear, LockAnalyze, LockCache, UnlockCache, UnlockAnalyze,
    Claim, Open, Stage, WriteArtifact, StagesDone, Finalise, RemoveOld, RenameNew,
    Cleanup, Close, Clear, CacheWrite, Fail, Kill
<1>4. UNCHANGED db
  BY DEF HoldsCache, Move, Step, Abandon, command, output, cache, history,
    StartAnalyze, StartClear, LockAnalyze, LockCache, UnlockCache, UnlockAnalyze,
    Claim, Open, Stage, WriteArtifact, StagesDone, Finalise, RemoveOld, RenameNew,
    Cleanup, Close, Clear, CacheWrite, Fail, Kill
<1>5. Owner \in Procs => Same(Owner)
  BY <1>2, OthersKeepState
<1>6. Owner \notin Procs => Owner \notin failed /\ Owner \notin failed'
  BY StepTypes DEF Next
<1> QED
  BY <1>1, <1>3, <1>4, <1>5, <1>6 DEF Quiet, Same, Publishing

(* What the holder of the cache lock does, step by step.                    *)

LEMMA WorkIsQuiet ==
  ASSUME IInv, NEW p \in Procs, pc[p] \in HoldsCache,
         \/ Claim(p) \/ Open(p) \/ Stage(p) \/ WriteArtifact(p) \/ StagesDone(p)
         \/ Finalise(p) \/ RemoveOld(p) \/ Cleanup(p)
         \/ RenameNew(p) /\ at[p] < Len(PublishOrder)
         \/ \E k \in Keys : CacheWrite(p, k)
  PROVE  UNCHANGED Abstract!vars
<1> USE DEF IInv, TypeOK, goto, command, output, cache, history
<1>1. lock["cache.lock"] = p /\ p # None
  BY OwnerHolds, ProcsAssumption DEF Owner
<1>2. UNCHANGED <<lock, failed, publication, db, before>>
  BY DEF Claim, Open, Stage, WriteArtifact, StagesDone, Finalise, RemoveOld, Cleanup,
    RenameNew, CacheWrite
<1>3. CASE Finalise(p)
  <2>1. pc[p] = "finalise" /\ pc'[p] = "remove" /\ reports' = reports
    BY <1>3 DEF Finalise
  <2>2. reports = before[p]
    BY <2>1 DEF RunInv, UntouchedBy
  <2>3. Shown' = Shown
    BY <1>1, <1>2, <2>1, <2>2 DEF Shown
  <2> QED
    BY <1>2, <2>3 DEF Abstract!vars
<1>4. CASE RemoveOld(p) \/ (RenameNew(p) /\ at[p] < Len(PublishOrder))
  <2>1. pc[p] \in {"remove", "rename"} /\ pc'[p] \in {"remove", "rename"}
    BY <1>4 DEF RemoveOld, RenameNew
  <2>2. Shown' = Shown
    BY <1>1, <1>2, <2>1 DEF Shown
  <2> QED
    BY <1>2, <2>2 DEF Abstract!vars
<1>5. CASE \/ Claim(p) \/ Open(p) \/ Stage(p) \/ WriteArtifact(p) \/ StagesDone(p)
           \/ Cleanup(p) \/ \E k \in Keys : CacheWrite(p, k)
  <2>1. pc[p] \notin {"remove", "rename"} /\ pc'[p] \notin {"remove", "rename"}
    BY <1>5 DEF Claim, Open, Stage, WriteArtifact, StagesDone, Cleanup, CacheWrite
  <2>2. reports' = reports
    BY <1>5 DEF Claim, Open, Stage, WriteArtifact, StagesDone, Cleanup, CacheWrite
  <2>3. Shown' = Shown
    BY <1>1, <1>2, <2>1, <2>2 DEF Shown
  <2> QED
    BY <1>2, <2>3 DEF Abstract!vars
<1> QED
  BY <1>3, <1>4, <1>5

LEMMA LockBegins ==
  ASSUME IInv, NEW p \in Procs, LockCache(p)
  PROVE  Abstract!Begin
<1> USE DEF IInv, TypeOK, goto, command, output, cache
<1>1. /\ lock["cache.lock"] = None /\ lock'["cache.lock"] = p
      /\ UNCHANGED <<failed, publication, reports, db>>
      /\ pc[p] = "lock_cache" /\ pc'[p] \in {"claim", "clear"}
  BY DEF LockCache
<1>2. p \notin failed /\ None \notin failed
  BY <1>1, ProcsAssumption DEF RunInv, MarkedBy
<1>3. (lock'["cache.lock"] \in failed') = (lock["cache.lock"] \in failed)
  BY <1>1, <1>2
<1>4. Shown' = Shown
  BY <1>1, ProcsAssumption DEF Shown
<1> QED
  BY <1>1, <1>3, <1>4 DEF Abstract!Begin

LEMMA LastRenameDelivers ==
  ASSUME IInv, NEW p \in Procs, RenameNew(p), ~(at[p] < Len(PublishOrder))
  PROVE  Abstract!Deliver
<1> USE DEF IInv, TypeOK, goto, command, cache
<1>1. /\ pc[p] = "rename" /\ pc'[p] = "cleanup" /\ publication' = "whole"
      /\ UNCHANGED <<lock, failed, db>>
  BY DEF RenameNew
<1>2. lock["cache.lock"] = p /\ p # None
  BY <1>1, OwnerHolds, ProcsAssumption DEF Owner, HoldsCache
<1>3. p \notin failed
  BY <1>1 DEF RunInv, MarkedBy
<1>4. Shown' = reports'
  BY <1>1, <1>2 DEF Shown
<1>5. Shown' \in WholeReports
  BY <1>4, LastRename
<1>6. (lock'["cache.lock"] \in failed') = (lock["cache.lock"] \in failed)
  BY <1>1
<1> QED
  BY <1>1, <1>2, <1>3, <1>5, <1>6 DEF Abstract!Deliver

LEMMA CloseSaves ==
  ASSUME IInv, NEW p \in Procs, Close(p)
  PROVE  Abstract!Save
<1> USE DEF IInv, TypeOK, goto, command, output, history
<1>1. /\ pc[p] = "close" /\ pc'[p] = "unlock_cache"
      /\ UNCHANGED <<lock, failed, publication, reports>> /\ db' = db \cup tx[p]
  BY DEF Close
<1>2. lock["cache.lock"] = p /\ p # None
  BY <1>1, OwnerHolds, ProcsAssumption DEF Owner, HoldsCache
<1>3. Shown' = Shown
  BY <1>1, <1>2 DEF Shown
<1>4. db \subseteq db' /\ db' \in SUBSET Keys
  BY <1>1
<1> QED
  BY <1>1, <1>2, <1>3, <1>4 DEF Abstract!Save

LEMMA ClearWipes ==
  ASSUME IInv, NEW p \in Procs, Clear(p)
  PROVE  Abstract!Wipe
<1> USE DEF IInv, TypeOK, goto, command, output, history
<1>1. /\ pc[p] = "clear" /\ pc'[p] = "unlock_cache"
      /\ UNCHANGED <<lock, failed, publication, reports>> /\ db' = {}
  BY DEF Clear
<1>2. lock["cache.lock"] = p /\ p # None
  BY <1>1, OwnerHolds, ProcsAssumption DEF Owner, HoldsCache
<1>3. Shown' = Shown
  BY <1>1, <1>2 DEF Shown
<1> QED
  BY <1>1, <1>2, <1>3 DEF Abstract!Wipe

LEMMA UnlockEnds ==
  ASSUME IInv, NEW p \in Procs, UnlockCache(p)
  PROVE  Abstract!End
<1> USE DEF IInv, TypeOK, goto, command, output, cache
<1>1. /\ pc[p] = "unlock_cache" /\ lock'["cache.lock"] = None
      /\ UNCHANGED <<failed, publication, reports, db>>
  BY DEF UnlockCache
<1>2. lock["cache.lock"] = p /\ p # None
  BY <1>1, OwnerHolds, ProcsAssumption DEF Owner, HoldsCache
<1>3. Shown' = Shown
  BY <1>1, <1>2 DEF Shown
<1>4. (lock'["cache.lock"] \in failed') = FALSE
  BY <1>1, ProcsAssumption
<1> QED
  BY <1>1, <1>2, <1>3, <1>4 DEF Abstract!End

(* A command that stops leaves the reports it found, or spoils them.        *)
LEMMA AbandonShown ==
  ASSUME IInv, NEW p \in Procs, Abandon(p), pc[p] \in HoldsCache,
         Owner' = None \/ (Owner' = p /\ ~Publishing(p)')
  PROVE  Shown' \in {Shown, Spoilt} /\ db' \in {db, {}}
<1> USE DEF IInv
<1>1. Owner = p /\ p # None
  BY OwnerHolds, ProcsAssumption
<1>2. db' \in {db, {}}
  BY DEF Abandon
<1>3. CASE publication' = "spoilt"
  BY <1>2, <1>3 DEF Shown
<1>4. CASE publication' # "spoilt"
  <2>1. /\ publication' = publication /\ reports' = reports
        /\ pc[p] # "rename" /\ (pc[p] = "remove" => at[p] = 1)
    BY <1>4, AbandonedWhole
  <2>2. pc[p] = "remove" => reports = before[p]
    BY <2>1 DEF RunInv, UntouchedBy
  <2>3. Shown = reports
    BY <1>1, <1>4, <2>1, <2>2 DEF Shown, Owner
  <2>4. Shown' = reports'
    BY <1>1, <1>4, <2>1 DEF Shown, Owner, Publishing
  <2> QED
    BY <1>2, <2>1, <2>3, <2>4
<1> QED
  BY <1>3, <1>4

LEMMA FailGivesUp ==
  ASSUME IInv, NEW p \in Procs, Fail(p), pc[p] \in HoldsCache
  PROVE  Abstract!GiveUp
<1> USE DEF IInv, TypeOK
<1>1. Owner = p /\ p # None
  BY OwnerHolds, ProcsAssumption
<1>2. Abandon(p) /\ lock' = lock /\ pc' = [pc EXCEPT ![p] = Unwind(pc[p])]
  BY DEF Fail, goto
<1>3. p \in failed'
  BY DEF Fail, HoldsCache
<1>4. ~Publishing(p)' /\ Owner' = p
  BY <1>1, <1>2, UnwindTypes DEF Publishing, Owner
<1>5. Shown' \in {Shown, Spoilt} /\ db' \in {db, {}}
  BY <1>2, <1>4, AbandonShown
<1>6. (lock'["cache.lock"] \in failed') = TRUE
  BY <1>3, <1>4 DEF Owner
<1> QED
  BY <1>1, <1>2, <1>5, <1>6 DEF Abstract!GiveUp, Owner

LEMMA KillDies ==
  ASSUME IInv, NEW p \in Procs, Kill(p), pc[p] \in HoldsCache
  PROVE  Abstract!Die
<1> USE DEF IInv, TypeOK
<1>1. Owner = p /\ p # None
  BY OwnerHolds, ProcsAssumption
<1>2. Abandon(p) /\ failed' = failed \ {p} /\ Owner' = None
  BY <1>1 DEF Kill, Owner
<1>3. Shown' \in {Shown, Spoilt} /\ db' \in {db, {}}
  BY <1>2, AbandonShown
<1>4. (lock'["cache.lock"] \in failed') = FALSE
  BY <1>2, ProcsAssumption DEF Owner
<1> QED
  BY <1>1, <1>2, <1>3, <1>4 DEF Abstract!Die, Owner

-----------------------------------------------------------------------------
(* Every step is a step of the abstract commands, or invisible. *)
LEMMA NextImplements == IInv /\ [Next]_vars => [Abstract!Next]_(Abstract!vars)
<1> SUFFICES ASSUME IInv, [Next]_vars PROVE [Abstract!Next]_(Abstract!vars)
  OBVIOUS
<1>1. CASE UNCHANGED vars
  BY <1>1 DEF vars, command, output, cache, history, Abstract!vars, Shown
<1>2. CASE Next
  <2>1. PICK p \in Procs : Move(p)
    BY <1>2 DEF Next
  <2>2. CASE LockCache(p)
    BY <2>2, LockBegins DEF Abstract!Next
  <2>3. CASE pc[p] \notin HoldsCache /\ ~LockCache(p)
    BY <2>1, <2>3, OutsideIsQuiet, QuietStutters DEF IInv
  <2>4. CASE pc[p] \in HoldsCache
    <3>1. CASE Fail(p) \/ Kill(p)
      BY <2>4, <3>1, FailGivesUp, KillDies DEF Abstract!Next
    <3>2. CASE UnlockCache(p) \/ Close(p) \/ Clear(p)
      BY <3>2, UnlockEnds, CloseSaves, ClearWipes DEF Abstract!Next
    <3>3. CASE RenameNew(p) /\ ~(at[p] < Len(PublishOrder))
      BY <3>3, LastRenameDelivers DEF Abstract!Next
    <3>4. ~(StartAnalyze(p) \/ StartClear(p) \/ LockAnalyze(p) \/ LockCache(p) \/ UnlockAnalyze(p))
      BY <2>4 DEF HoldsCache, StartAnalyze, StartClear, LockAnalyze, LockCache, UnlockAnalyze
    <3> QED
      BY <2>1, <2>4, <3>1, <3>2, <3>3, <3>4, WorkIsQuiet DEF Move, Step
  <2> QED
    BY <2>2, <2>3, <2>4
<1> QED
  BY <1>1, <1>2

(* Entry-by-entry publication under two locks implements atomic delivery by *)
(* one command at a time.                                                   *)
THEOREM Implements == Spec => ImplementsSerialCommands
  BY InitImplements, Inductive, NextImplements, PTL DEF Spec, ImplementsSerialCommands, Abstract!Spec

=============================================================================
