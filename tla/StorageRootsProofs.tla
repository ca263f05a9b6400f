------------------------- MODULE StorageRootsProofs -------------------------
(***************************************************************************)
(* Proofs about StorageRoots: types, and that no command deletes files of  *)
(* the user if nobody writes while it runs.                                *)
(***************************************************************************)
EXTENDS StorageRoots, TLAPS

(* Directories that exist are closed under Above, and files are in them. *)
Tree ==
  /\ dirs \subseteq Dirs /\ \A d \in dirs : Above[d] \subseteq dirs
  /\ files \subseteq dirs \X Kinds

Steps == {"idle", "lock", "lock to clear", "make output", "mark output",
          "make cache", "mark cache", "build", "publish", "clear",
          "create output", "create cache"}

AfterOutput == {"mark output", "make cache", "mark cache", "build", "publish"}

(* A command has its configuration, and has made what it will write into. *)
Running ==
  /\ step \in Steps
  /\ settings \in Settings \cup {None}
  /\ step # "idle" => settings \in Settings
  /\ step \in AfterOutput => settings.output \in dirs
  /\ step = "mark cache" => settings.cache \in dirs

Past ==
  /\ foreign \subseteq Dirs /\ claimed \subseteq Dirs
  /\ last \in Settings \cup {None}

Types == Tree /\ Running /\ Past

(* Foreign files exist, neither in the project storage nor below a marker. *)
ForeignIsForeign ==
  \A d \in foreign :
    /\ <<d, "user">> \in files
    /\ ~IsProjectStorage(d)
    /\ \A e \in Above[d] : <<e, "marker">> \notin files

(* None of them is in a root of a running command. *)
RootsAreFree ==
  step # "idle" =>
    \A d \in foreign : settings.output \notin Above[d] /\ settings.cache \notin Above[d]

Apart == ForeignIsForeign /\ RootsAreFree

-----------------------------------------------------------------------------
(* Directories. *)

(* The places of a configuration are directories. *)
LEMMA Places ==
  ASSUME NEW config \in Settings
  PROVE  config.output \in Dirs /\ config.cache \in Dirs /\ RuntimeRoot(config) \in Dirs
<1>1. config.output \in Dirs /\ config.cache \in Dirs
  BY SettingsAssumption
<1>2. RuntimeRoot(config) \in Dirs
  BY RuntimeRootAssumption
<1>. QED BY <1>1, <1>2

(* mkdir with parents keeps the tree a tree. *)
LEMMA MakeKeepsTree ==
  ASSUME Tree, NEW d \in Dirs
  PROVE  /\ Make(d) \subseteq Dirs /\ \A e \in Make(d) : Above[e] \subseteq Make(d)
         /\ dirs \subseteq Make(d) /\ d \in Make(d)
         /\ files \subseteq Make(d) \X Kinds
<1>1. Above[d] \subseteq Dirs /\ d \in Above[d] /\ \A e \in Above[d] : Above[e] \subseteq Above[d]
  BY TreeAssumption
<1>2. Make(d) \subseteq Dirs
  BY <1>1 DEF Make, Tree
<1>3. ASSUME NEW e \in Make(d) PROVE Above[e] \subseteq Make(d)
  BY <1>1 DEF Make, Tree
<1>4. dirs \subseteq Make(d) /\ d \in Make(d)
  BY <1>1 DEF Make
<1>5. files \subseteq Make(d) \X Kinds
  BY <1>4 DEF Tree
<1>. QED BY <1>2, <1>3, <1>4, <1>5

(* A root that load_config accepts has no foreign file in it. *)
LEMMA AcceptedIsFree ==
  ASSUME Tree, ForeignIsForeign, NEW root \in Dirs, Valid(root), NEW d \in foreign, d \in Dirs
  PROVE  root \notin Above[d]
<1>. SUFFICES ASSUME root \in Above[d] PROVE FALSE
  OBVIOUS
<1>1. <<d, "user">> \in files /\ ~IsProjectStorage(d) /\ <<root, "marker">> \notin files
  BY DEF ForeignIsForeign
<1>2. d \in dirs
  BY <1>1 DEF Tree
<1>3. root \in dirs
  BY <1>2 DEF Tree
<1>4. Owned(root)
  BY <1>3 DEF Valid
<1>5. ~IsProjectStorage(root)
  BY <1>1, TreeAssumption DEF IsProjectStorage, Within
<1>6. ~IsEmpty(root)
  <2>1. CASE d = root
    <3>1. <<d, "user">>[1] = root
      BY <2>1
    <3>. QED BY <3>1, <1>1 DEF IsEmpty
  <2>2. CASE d # root
    BY <2>2, <1>2 DEF IsEmpty, Within
  <2>. QED BY <2>1, <2>2
<1>. QED BY <1>1, <1>4, <1>5, <1>6 DEF Owned

-----------------------------------------------------------------------------
(* Types. *)

(* The repository and its parents are there at first.                       *)
LEMMA TypesInit == Init => Types
<1>. SUFFICES ASSUME Init PROVE Types
  OBVIOUS
<1>1. Tree
  BY TreeAssumption, PlacesAssumption DEF Init, Tree, Kinds
<1>2. Running /\ Past
  BY PlacesAssumption DEF Init, Running, Past, Steps, AfterOutput
<1>. QED BY <1>1, <1>2 DEF Types

(* Every step keeps the types and the tree.                                 *)
LEMMA TypesStep == Types /\ [Next]_vars => Types'
<1>. SUFFICES ASSUME Types, [Next]_vars PROVE Types'
  OBVIOUS
<1>. USE DEF Types
<1>1. ASSUME NEW d \in UserDirs, Write(d) PROVE Types'
  <2>0. d \in Dirs
    BY PlacesAssumption
  <2>1. Tree'
    BY <1>1, <2>0, MakeKeepsTree DEF Write, Tree, Kinds
  <2>2. Running'
    BY <1>1, <2>0, MakeKeepsTree DEF Write, Running, Steps, AfterOutput, tree, history
  <2>3. Past'
    BY <1>1, <2>0 DEF Write, Past, Running, tree, history
  <2>. QED BY <2>1, <2>2, <2>3
<1>2. ASSUME NEW config \in Settings, NEW command \in Commands, Load(command, config) PROVE Types'
  <2>1. Tree'
    BY <1>2 DEF Load, Tree, tree, history
  <2>b. step' \in {"lock", "lock to clear", "create output"}
    BY <1>2 DEF Load
  <2>c. settings' = config
    BY <1>2 DEF Load
  <2>2. Running'
    BY <2>b, <2>c DEF Running, Steps, AfterOutput
  <2>3. Past'
    BY <1>2 DEF Load, Past, Running, tree, history
  <2>. QED BY <2>1, <2>2, <2>3
<1>3. CASE Lock
  <2>0. settings \in Settings /\ settings.output \in Dirs /\ settings.cache \in Dirs /\ RuntimeRoot(settings) \in Dirs
    BY <1>3, Places DEF Lock, Running
  <2>. DEFINE new == Make(RuntimeRoot(settings))
  <2>a. /\ new \subseteq Dirs /\ \A e \in new : Above[e] \subseteq new
        /\ files \subseteq new \X Kinds /\ RuntimeRoot(settings) \in new
    BY <2>0, MakeKeepsTree
  <2>b. (files \cup {<<RuntimeRoot(settings), "lock">>}) \subseteq new \X Kinds
    BY <2>a DEF Kinds
  <2>c. \/ dirs' = new /\ files' \in {files, files \cup {<<RuntimeRoot(settings), "lock">>}}
        \/ dirs' = dirs /\ files' = files
    BY <1>3 DEF Lock, tree, Marked
  <2>1. Tree'
    <3>. HIDE DEF new
    <3>. QED BY <2>a, <2>b, <2>c DEF Tree
  <2>2. Running'
    BY <1>3, <2>0, MakeKeepsTree DEF Lock, Running, Steps, AfterOutput, tree, history
  <2>3. Past'
    BY <1>3 DEF Lock, Past, Running, tree, history
  <2>. QED BY <2>1, <2>2, <2>3
<1>4. CASE MakeOutput
  <2>0. settings \in Settings /\ settings.output \in Dirs /\ settings.cache \in Dirs /\ RuntimeRoot(settings) \in Dirs
    BY <1>4, Places DEF MakeOutput, Running
  <2>1. Tree'
    BY <1>4, <2>0, MakeKeepsTree DEF MakeOutput, Tree, Kinds
  <2>2. Running'
    BY <1>4, <2>0, MakeKeepsTree DEF MakeOutput, Running, Steps, AfterOutput, tree, history
  <2>3. Past'
    BY <1>4 DEF MakeOutput, Past, Running, tree, history
  <2>. QED BY <2>1, <2>2, <2>3
<1>5. CASE MarkOutput
  <2>0. settings.output \in dirs
    BY <1>5 DEF MarkOutput, Running, AfterOutput
  <2>a. (files \cup {<<settings.output, "marker">>}) \subseteq dirs \X Kinds
    BY <2>0 DEF Tree, Kinds
  <2>b. dirs' = dirs /\ files' \in {files, files \cup {<<settings.output, "marker">>}}
    BY <1>5 DEF MarkOutput, Marked
  <2>1. Tree'
    BY <2>a, <2>b DEF Tree
  <2>2. Running'
    BY <1>5 DEF MarkOutput, Running, Steps, AfterOutput, tree, history
  <2>3. Past'
    BY <1>5, Places DEF MarkOutput, Past, Running, tree, history
  <2>. QED BY <2>1, <2>2, <2>3
<1>6. CASE MakeCache
  <2>0. settings \in Settings /\ settings.output \in Dirs /\ settings.cache \in Dirs /\ RuntimeRoot(settings) \in Dirs
    BY <1>6, Places DEF MakeCache, Running
  <2>1. Tree'
    BY <1>6, <2>0, MakeKeepsTree DEF MakeCache, Tree, Kinds
  <2>2. Running'
    BY <1>6, <2>0, MakeKeepsTree DEF MakeCache, Running, Steps, AfterOutput, tree, history
  <2>3. Past'
    BY <1>6 DEF MakeCache, Past, Running, tree, history
  <2>. QED BY <2>1, <2>2, <2>3
<1>7. CASE MarkCache
  <2>0. settings.cache \in dirs
    BY <1>7 DEF MarkCache, Running, AfterOutput
  <2>a. (files \cup {<<settings.cache, "marker">>}) \subseteq dirs \X Kinds
    BY <2>0 DEF Tree, Kinds
  <2>b. dirs' = dirs /\ files' \in {files, files \cup {<<settings.cache, "marker">>}}
    BY <1>7 DEF MarkCache, Marked
  <2>1. Tree'
    BY <2>a, <2>b DEF Tree
  <2>2. Running'
    BY <1>7 DEF MarkCache, Running, Steps, AfterOutput, tree, history
  <2>3. Past'
    BY <1>7, Places DEF MarkCache, Past, Running, tree, history
  <2>. QED BY <2>1, <2>2, <2>3
<1>8. CASE Build
  <2>0. settings \in Settings /\ settings.output \in Dirs /\ settings.cache \in Dirs /\ RuntimeRoot(settings) \in Dirs
    BY <1>8, Places DEF Build, Running
  <2>1. Tree'
    BY <1>8, <2>0, MakeKeepsTree DEF Build, Tree, Kinds
  <2>2. Running'
    BY <1>8, <2>0, MakeKeepsTree DEF Build, Running, Steps, AfterOutput, tree, history
  <2>3. Past'
    BY <1>8 DEF Build, Past, Running, tree, history
  <2>. QED BY <2>1, <2>2, <2>3
<1>9. CASE Publish
  <2>0. settings \in Settings /\ settings.output \in dirs /\ settings.output \in Dirs
    BY <1>9, Places DEF Publish, Running, AfterOutput
  <2>. DEFINE gone(d) == \E entry \in Replaced[settings.output] : Within(d, entry)
  <2>a. /\ dirs' = {d \in dirs : ~gone(d)}
        /\ files' = {file \in files : ~gone(file[1])} \cup {<<settings.output, "report">>}
    BY <1>9 DEF Publish
  <2>b. ~gone(settings.output)
    BY <2>0, PlacesAssumption, TreeAssumption DEF Within
  <2>c. ASSUME NEW d \in dirs, ~gone(d), NEW e \in Above[d] PROVE ~gone(e)
    <3>1. Above[e] \subseteq Above[d]
      BY TreeAssumption DEF Tree
    <3>. QED BY <2>c, <3>1 DEF Within
  <2>d. dirs' \subseteq Dirs /\ \A d \in dirs' : Above[d] \subseteq dirs'
    <3>. HIDE DEF gone
    <3>. QED BY <2>a, <2>c DEF Tree
  <2>e. files' \subseteq dirs' \X Kinds
    <3>. HIDE DEF gone
    <3>. QED BY <2>a, <2>b, <2>0 DEF Tree, Kinds
  <2>1. Tree'
    BY <2>d, <2>e DEF Tree
  <2>2. Running'
    BY <1>9 DEF Publish, Running, Steps, AfterOutput, tree, history, End
  <2>3. Past'
    BY <1>9, <2>0 DEF Publish, Past, Running, tree, history, End
  <2>. QED BY <2>1, <2>2, <2>3
<1>10. ASSUME NEW file \in files, RemoveFile(file) PROVE Types'
  <2>1. Tree'
    BY <1>10 DEF RemoveFile, Tree, tree, history
  <2>2. Running'
    BY <1>10 DEF RemoveFile, Running, Steps, AfterOutput, tree, history
  <2>3. Past'
    BY <1>10 DEF RemoveFile, Past, Running, tree, history
  <2>. QED BY <2>1, <2>2, <2>3
<1>11. ASSUME NEW d \in dirs, RemoveDir(d) PROVE Types'
  <2>a. \A e \in dirs : d \in Above[e] => e = d
    BY <1>11 DEF RemoveDir, IsEmpty, Within
  <2>b. \A file \in files : file[1] # d
    BY <1>11 DEF RemoveDir, IsEmpty
  <2>1. Tree'
    BY <1>11, <2>a, <2>b DEF RemoveDir, Tree
  <2>2. Running'
    BY <1>11 DEF RemoveDir, Running, Steps, AfterOutput, tree, history
  <2>3. Past'
    BY <1>11 DEF RemoveDir, Past, Running, tree, history
  <2>. QED BY <2>1, <2>2, <2>3
<1>12. CASE Cleared
  <2>1. Tree'
    BY <1>12 DEF Cleared, Tree, tree, history
  <2>2. Running'
    BY <1>12 DEF Cleared, Running, Steps, AfterOutput, tree, history, End
  <2>3. Past'
    BY <1>12 DEF Cleared, Past, Running, tree, history, End
  <2>. QED BY <2>1, <2>2, <2>3
<1>13. CASE CreateOutput
  <2>0. settings \in Settings /\ settings.output \in Dirs /\ settings.cache \in Dirs /\ RuntimeRoot(settings) \in Dirs
    BY <1>13, Places DEF CreateOutput, Running
  <2>. DEFINE new == Make(settings.output)
  <2>a. /\ new \subseteq Dirs /\ \A e \in new : Above[e] \subseteq new
        /\ files \subseteq new \X Kinds /\ settings.output \in new
    BY <2>0, MakeKeepsTree
  <2>b. (files \cup {<<settings.output, "marker">>}) \subseteq new \X Kinds
    BY <2>a DEF Kinds
  <2>c. \/ dirs' = new /\ files' \in {files, files \cup {<<settings.output, "marker">>}}
        \/ dirs' = dirs /\ files' = files
    BY <1>13 DEF CreateOutput, tree, Marked
  <2>1. Tree'
    <3>. HIDE DEF new
    <3>. QED BY <2>a, <2>b, <2>c DEF Tree
  <2>2. Running'
    BY <1>13, <2>0, MakeKeepsTree DEF CreateOutput, Running, Steps, AfterOutput, tree, history
  <2>3. Past'
    BY <1>13, <2>0 DEF CreateOutput, Past, Running, tree, history
  <2>. QED BY <2>1, <2>2, <2>3
<1>14. CASE CreateCache
  <2>0. settings \in Settings /\ settings.output \in Dirs /\ settings.cache \in Dirs /\ RuntimeRoot(settings) \in Dirs
    BY <1>14, Places DEF CreateCache, Running
  <2>. DEFINE new == Make(settings.cache)
  <2>a. /\ new \subseteq Dirs /\ \A e \in new : Above[e] \subseteq new
        /\ files \subseteq new \X Kinds /\ settings.cache \in new
    BY <2>0, MakeKeepsTree
  <2>b. (files \cup {<<settings.cache, "marker">>}) \subseteq new \X Kinds
    BY <2>a DEF Kinds
  <2>c. \/ dirs' = new /\ files' \in {files, files \cup {<<settings.cache, "marker">>}}
        \/ dirs' = dirs /\ files' = files
    BY <1>14 DEF CreateCache, tree, Marked
  <2>1. Tree'
    <3>. HIDE DEF new
    <3>. QED BY <2>a, <2>b, <2>c DEF Tree
  <2>2. Running'
    BY <1>14, <2>0, MakeKeepsTree DEF CreateCache, Running, Steps, AfterOutput, tree, history
  <2>3. Past'
    BY <1>14, <2>0 DEF CreateCache, Past, Running, tree, history
  <2>. QED BY <2>1, <2>2, <2>3
<1>15. CASE Stop
  <2>1. Tree'
    BY <1>15 DEF Stop, Tree, tree, history
  <2>2. Running'
    BY <1>15 DEF Stop, Running, Steps, AfterOutput, tree, history, End
  <2>3. Past'
    BY <1>15 DEF Stop, Past, Running, tree, history, End
  <2>. QED BY <2>1, <2>2, <2>3
<1>16. CASE UNCHANGED vars
  BY <1>16 DEF vars, tree, history, Tree, Running, Past
<1>. QED
  BY <1>1, <1>2, <1>3, <1>4, <1>5, <1>6, <1>7, <1>8, <1>9, <1>10, <1>11, <1>12, <1>13, <1>14, <1>15, <1>16 DEF Next

(* The types and the shape of the directory tree (TypeOK), whatever the user *)
(* and the commands do, in any order and interrupted anywhere.               *)
THEOREM TypeCorrect == Spec => []TypeOK
<1>1. Types => TypeOK
  BY DEF Types, Tree, Running, Past, TypeOK, Steps
<1>. QED BY TypesInit, TypesStep, <1>1, PTL DEF Spec

-----------------------------------------------------------------------------
(* Foreign files. *)

(* The files of the repository are foreign, and no root is marked.          *)
LEMMA ApartInit == Init => Apart
<1>. SUFFICES ASSUME Init PROVE Apart
  OBVIOUS
<1>1. ForeignIsForeign
  BY PlacesAssumption DEF Init, ForeignIsForeign, IsProjectStorage, Within
<1>2. RootsAreFree
  BY DEF Init, RootsAreFree
<1>. QED BY <1>1, <1>2 DEF Apart

(* The user writes only between commands; what they write outside of owned  *)
(* directories becomes foreign.                                              *)
LEMMA ApartWrite ==
  ASSUME ~UserRaces, Types, Apart, NEW d \in UserDirs, Write(d)
  PROVE  Apart'
<1>1. step = "idle" /\ step' = step
  BY DEF Write
<1>2. files' = files \cup {<<d, "user">>}
  BY DEF Write
<1>3. ForeignIsForeign'
  <2>. SUFFICES ASSUME NEW f \in foreign'
                PROVE  /\ <<f, "user">> \in files'
                       /\ ~IsProjectStorage(f)
                       /\ \A e \in Above[f] : <<e, "marker">> \notin files'
    BY DEF ForeignIsForeign, IsProjectStorage, Within
  <2>1. CASE f \in foreign
    BY <2>1, <1>2 DEF Apart, ForeignIsForeign
  <2>2. CASE f \notin foreign
    <3>1. f = d /\ ~IsProjectStorage(d) /\ \A e \in Above[d] : <<e, "marker">> \notin files
      BY <2>2 DEF Write
    <3>. QED BY <3>1, <1>2
  <2>. QED BY <2>1, <2>2
<1>4. RootsAreFree'
  BY <1>1 DEF RootsAreFree
<1>. QED BY <1>3, <1>4 DEF Apart

(* What load_config accepts has no foreign file in it. *)
LEMMA ApartLoad ==
  ASSUME Types, Apart, NEW config \in Settings, NEW command \in Commands, Load(command, config)
  PROVE  Apart'
<1>1. ForeignIsForeign'
  BY DEF Load, tree, Apart, ForeignIsForeign, IsProjectStorage, Within
<1>2. RootsAreFree'
  <2>. SUFFICES ASSUME NEW d \in foreign
                PROVE  config.output \notin Above[d] /\ config.cache \notin Above[d]
    BY DEF Load, RootsAreFree
  <2>1. Valid(config.output) /\ Valid(config.cache)
    BY DEF Load, Accepts
  <2>2. config.output \in Dirs /\ config.cache \in Dirs /\ d \in Dirs
    BY Places DEF Types, Past
  <2>. QED BY <2>1, <2>2, AcceptedIsFree DEF Types, Apart
<1>. QED BY <1>1, <1>2 DEF Apart

(* A step of a command that deletes no file of the user from outside of its *)
(* roots, and marks nothing but its roots, keeps foreign files foreign.     *)
LEMMA ApartKept ==
  ASSUME Apart, step # "idle", foreign' = foreign,
         \/ step' = "idle"
         \/ settings' = settings,
         \A d \in foreign : <<d, "user">> \in files',
         \A e : <<e, "marker">> \in files' =>
           <<e, "marker">> \in files \/ e = settings.output \/ e = settings.cache
  PROVE  Apart'
<1>1. ForeignIsForeign'
  BY DEF Apart, ForeignIsForeign, RootsAreFree, IsProjectStorage, Within
<1>2. RootsAreFree'
  BY DEF Apart, RootsAreFree
<1>. QED BY <1>1, <1>2 DEF Apart

(* Every step keeps what is foreign apart from what a command holds.        *)
LEMMA ApartStep == ~UserRaces /\ Types /\ Apart /\ [Next]_vars => Apart'
<1>. SUFFICES ASSUME ~UserRaces, Types, Apart, [Next]_vars PROVE Apart'
  OBVIOUS
<1>0. \A d \in foreign : <<d, "user">> \in files
  BY DEF Apart, ForeignIsForeign
<1>1. ASSUME NEW d \in UserDirs, Write(d) PROVE Apart'
  BY <1>1, ApartWrite
<1>2. ASSUME NEW config \in Settings, NEW command \in Commands, Load(command, config) PROVE Apart'
  BY <1>2, ApartLoad
<1>3. CASE Lock
  BY <1>3, <1>0, ApartKept DEF Lock, history
<1>4. CASE MakeOutput
  BY <1>4, <1>0, ApartKept DEF MakeOutput, history
<1>5. CASE MarkOutput
  BY <1>5, <1>0, ApartKept DEF MarkOutput, history, Marked
<1>6. CASE MakeCache
  BY <1>6, <1>0, ApartKept DEF MakeCache, history
<1>7. CASE MarkCache
  BY <1>7, <1>0, ApartKept DEF MarkCache, history, Marked
<1>8. CASE Build
  BY <1>8, <1>0, ApartKept DEF Build, history
<1>9. CASE Publish
  <2>1. \A d \in foreign : <<d, "user">> \in files'
    <3>. SUFFICES ASSUME NEW d \in foreign PROVE <<d, "user">> \in files'
      OBVIOUS
    <3>1. d \in Dirs /\ settings.output \in Dirs /\ settings.output \notin Above[d]
      BY <1>9, Places DEF Publish, Types, Running, Past, Apart, RootsAreFree
    <3>2. ~\E entry \in Replaced[settings.output] : Within(d, entry)
      BY <3>1, PlacesAssumption, TreeAssumption DEF Within
    <3>. DEFINE gone(e) == \E entry \in Replaced[settings.output] : Within(e, entry)
    <3>3. files' = {file \in files : ~gone(file[1])} \cup {<<settings.output, "report">>}
      BY <1>9 DEF Publish
    <3>4. ~gone(<<d, "user">>[1])
      BY <3>2
    <3>. HIDE DEF gone
    <3>. QED BY <1>0, <3>3, <3>4
  <2>2. \A e : <<e, "marker">> \in files' => <<e, "marker">> \in files
    BY <1>9 DEF Publish
  <2>3. step = "publish" /\ step' = "idle" /\ foreign' = foreign
    BY <1>9 DEF Publish, End
  <2>. QED BY <2>1, <2>2, <2>3, ApartKept
<1>10. ASSUME NEW file \in files, RemoveFile(file) PROVE Apart'
  <2>1. \A d \in foreign : file # <<d, "user">>
    <3>. SUFFICES ASSUME NEW d \in foreign, file = <<d, "user">> PROVE FALSE
      OBVIOUS
    <3>1. file[1] = d /\ settings.cache \in Above[file[1]] /\ step # "idle"
      BY <1>10 DEF RemoveFile, Within
    <3>. QED BY <3>1 DEF Apart, RootsAreFree
  <2>2. /\ files' = files \ {file} /\ step = "clear"
        /\ foreign' = foreign /\ settings' = settings
    BY <1>10 DEF RemoveFile, history
  <2>. QED BY <1>0, <2>1, <2>2, ApartKept
<1>11. ASSUME NEW d \in dirs, RemoveDir(d) PROVE Apart'
  BY <1>11, <1>0, ApartKept DEF RemoveDir, history
<1>12. CASE Cleared
  BY <1>12, <1>0, ApartKept DEF Cleared, End, tree
<1>13. CASE CreateOutput
  <2>1. /\ step = "create output" /\ foreign' = foreign /\ settings' = settings
        /\ files' \in {files, files \cup {<<settings.output, "marker">>}}
    BY <1>13 DEF CreateOutput, Marked, tree
  <2>. QED BY <2>1, <1>0, ApartKept
<1>14. CASE CreateCache
  BY <1>14, <1>0, ApartKept DEF CreateCache, Marked
<1>15. CASE Stop
  BY <1>15, <1>0, ApartKept DEF Stop, End, tree
<1>16. CASE UNCHANGED vars
  BY <1>16 DEF vars, tree, history, Apart, ForeignIsForeign, RootsAreFree, IsProjectStorage, Within
<1>. QED
  BY <1>1, <1>2, <1>3, <1>4, <1>5, <1>6, <1>7, <1>8, <1>9, <1>10, <1>11, <1>12, <1>13, <1>14, <1>15, <1>16 DEF Next

(* If the user writes only between commands, no command deletes a file they *)
(* wrote outside of what Codeseam owned: for any configurations, nested and  *)
(* shared roots included, any sequence of commands and any interruption.    *)
THEOREM ForeignFilesAreKept ==
  ASSUME ~UserRaces
  PROVE  Spec => []ForeignFilesKept
<1>1. Apart => ForeignFilesKept
  BY DEF Apart, ForeignIsForeign, ForeignFilesKept
<1>2. Types /\ Apart /\ [Next]_vars => (Types /\ Apart)'
  BY TypesStep, ApartStep
<1>3. Init => Types /\ Apart
  BY TypesInit, ApartInit
<1>. QED BY <1>1, <1>2, <1>3, PTL DEF Spec

-----------------------------------------------------------------------------
(* What is accepted once is accepted again. *)

(* A root is absent or owned; it is claimed for good. *)
Kept(d) == d \in dirs => Owned(d)
Held(d) == IsProjectStorage(d) \/ <<d, "marker">> \in files

(* A command keeps the roots it has accepted, except that rmtree takes the  *)
(* cache apart; it writes only into roots it holds.                         *)
RootsKept ==
  step # "idle" =>
    /\ last = None
    /\ \A root \in {settings.output, settings.cache} :
         /\ root \notin Above[Repo]
         /\ Kept(root) \/ (step = "clear" /\ root = settings.cache)
    /\ step \in {"make cache", "mark cache", "build", "publish"} => Held(settings.output)
    /\ step \in {"build", "publish"} /\ settings.enabled => Held(settings.cache)

Settled == RootsKept /\ AcceptedAgain

(* A step that makes and writes only another directory, outside of d, and   *)
(* takes no marker from d unless it takes d, keeps d.                       *)
LEMMA KeptElsewhere ==
  ASSUME Types, NEW d \in Dirs, Kept(d), NEW e \in Dirs, d \notin Above[e],
         dirs' \subseteq Make(e), files' \subseteq files \cup ({e} \X Kinds),
         <<d, "marker">> \in files /\ d \in dirs' => <<d, "marker">> \in files'
  PROVE  Kept(d)'
<1>. SUFFICES ASSUME d \in dirs' PROVE Owned(d)'
  BY DEF Kept
<1>1. e \in Above[e] /\ \A f \in Above[e] : Above[f] \subseteq Above[e]
  BY TreeAssumption
<1>2. d \in dirs /\ Owned(d)
  BY DEF Make, Kept
<1>3. ASSUME IsEmpty(d) PROVE IsEmpty(d)'
  <2>1. ASSUME NEW file \in files' PROVE file[1] # d
    <3>1. CASE file \in files
      BY <3>1, <1>3 DEF IsEmpty
    <3>2. CASE file \in {e} \X Kinds
      BY <3>2, <1>1
    <3>. QED BY <3>1, <3>2
  <2>2. ASSUME NEW f \in dirs' PROVE f = d \/ d \notin Above[f]
    <3>1. CASE f \in dirs
      BY <3>1, <1>3 DEF IsEmpty, Within
    <3>2. CASE f \in Above[e]
      BY <3>2, <1>1
    <3>. QED BY <3>1, <3>2 DEF Make
  <2>. QED BY <2>1, <2>2 DEF IsEmpty, Within
<1>. QED BY <1>2, <1>3 DEF Owned, IsProjectStorage, Within

(* mkdir of a root that exists changes nothing; a root that did not exist   *)
(* is empty then.                                                           *)
LEMMA KeptWhenMade ==
  ASSUME Types, NEW d \in Dirs, Kept(d), dirs' = Make(d), files' = files
  PROVE  Kept(d)'
<1>1. CASE d \in dirs
  <2>1. dirs' = dirs
    BY <1>1 DEF Types, Tree, Make
  <2>. QED BY <2>1, <1>1 DEF Kept, Owned, IsEmpty, IsProjectStorage, Within
<1>2. CASE d \notin dirs
  <2>1. \A file \in files' : file[1] # d
    BY <1>2 DEF Types, Tree
  <2>2. ASSUME NEW f \in dirs' PROVE f = d \/ d \notin Above[f]
    <3>1. CASE f \in dirs
      BY <3>1, <1>2 DEF Types, Tree
    <3>2. CASE f \in Above[d]
      BY <3>2, TreeAssumption
    <3>. QED BY <3>1, <3>2 DEF Make
  <2>. QED BY <2>1, <2>2 DEF Kept, Owned, IsEmpty, Within
<1>. QED BY <1>1, <1>2

(* A step of a command at the lock directory or at the other root keeps a   *)
(* root.                                                                    *)
LEMMA RootKept ==
  ASSUME Types, AllSeparate, settings \in Settings,
         NEW d \in {settings.output, settings.cache}, Kept(d),
         NEW e \in {RuntimeRoot(settings), settings.output, settings.cache},
         e = RuntimeRoot(settings) \/ e # d,
         dirs' \subseteq Make(e), files' \subseteq files \cup ({e} \X Kinds),
         <<d, "marker">> \in files /\ d \in dirs' => <<d, "marker">> \in files'
  PROVE  Kept(d)'
<1>1. CASE IsProjectStorage(d)
  BY <1>1 DEF Kept, Owned, IsProjectStorage, Within
<1>2. CASE ~IsProjectStorage(d)
  <2>1. Separate(settings)
    BY DEF AllSeparate
  <2>2. d \in Dirs /\ e \in Dirs
    BY Places
  <2>3. d \notin Above[e]
    <3>1. CASE e = RuntimeRoot(settings)
      BY <3>1, <2>1, <1>2 DEF Separate
    <3>2. CASE e \in {settings.output, settings.cache} /\ e # d
      BY <3>2, <2>1, <1>2 DEF Separate
    <3>. QED BY <3>1, <3>2
  <2>. QED BY <2>2, <2>3, KeptElsewhere
<1>. QED BY <1>1, <1>2

(* At first nothing has been accepted.                                      *)
LEMMA SettledInit == Init => Settled
BY DEF Init, Settled, RootsKept, AcceptedAgain

(* Marking writes only the marker. *)
LEMMA MarkedAdds ==
  ASSUME NEW d
  PROVE  Marked(d) \subseteq files \cup ({d} \X Kinds) /\ files \subseteq Marked(d)
BY DEF Marked, Kinds

(* The steps of a command up to its last keep its roots. *)
LEMMA SettledLoad ==
  ASSUME Settled, NEW config \in Settings, NEW command \in Commands, Load(command, config)
  PROVE  Settled'
<1>1. step' \in {"lock", "lock to clear", "create output"} /\ settings' = config
      /\ last' = None /\ dirs' = dirs /\ files' = files
  BY DEF Load, tree
<1>2. ASSUME NEW root \in {config.output, config.cache} PROVE root \notin Above[Repo] /\ Kept(root)'
  <2>1. Valid(root)
    BY DEF Load, Accepts
  <2>. QED BY <2>1, <1>1 DEF Valid, Kept, Owned, IsEmpty, IsProjectStorage, Within
<1>3. RootsKept'
  BY <1>1, <1>2 DEF RootsKept
<1>. QED BY <1>1, <1>3 DEF Settled, AcceptedAgain

(* The locks are outside of the roots.                                      *)
LEMMA SettledLock ==
  ASSUME Types, AllSeparate, Settled, Lock
  PROVE  Settled'
<1>0. PICK e \in {RuntimeRoot(settings)} : TRUE
  OBVIOUS
<1>1. settings \in Settings /\ step \in {"lock", "lock to clear"} /\ step' \in {"make output", "clear"}
      /\ settings' = settings /\ last' = last
      /\ dirs' = Make(e) /\ files' = files \cup {<<e, "lock">>}
  BY <1>0 DEF Lock, history, Types, Running
<1>2. ASSUME NEW root \in {settings.output, settings.cache} PROVE root \notin Above[Repo] /\ Kept(root)'
  <2>1. root \notin Above[Repo] /\ Kept(root)
    BY <1>1 DEF Settled, RootsKept
  <2>2. files' \subseteq files \cup ({e} \X Kinds) /\ files \subseteq files'
    <3>1. <<e, "lock">> \in {e} \X Kinds
      BY DEF Kinds
    <3>. QED BY <3>1, <1>1
  <2>3. dirs' \subseteq Make(e)
    BY <1>1
  <2>. QED BY <2>1, <2>2, <2>3, <1>0, <1>1, RootKept
<1>3. RootsKept'
  BY <1>1, <1>2 DEF RootsKept, Settled
<1>. QED BY <1>1, <1>3 DEF Settled, AcceptedAgain

(* A root that is made takes nothing from the other.                        *)
LEMMA SettledMake ==
  ASSUME Types, AllSeparate, Settled, MakeOutput \/ MakeCache
  PROVE  Settled'
<1>1. PICK e \in {settings.output, settings.cache} : dirs' = Make(e)
  BY DEF MakeOutput, MakeCache
<1>2. settings \in Settings /\ files' = files /\ settings' = settings /\ last' = last
      /\ \/ step = "make output" /\ step' = "mark output"
         \/ step = "make cache" /\ step' = "mark cache"
  BY DEF MakeOutput, MakeCache, Types, Running, history
<1>3. ASSUME NEW root \in {settings.output, settings.cache} PROVE root \notin Above[Repo] /\ Kept(root)'
  <2>1. root \notin Above[Repo] /\ Kept(root)
    BY <1>2 DEF Settled, RootsKept
  <2>2. CASE e = root
    BY <2>1, <2>2, <1>1, <1>2, KeptWhenMade, Places
  <2>3. CASE e # root
    <3>1. dirs' \subseteq Make(e) /\ files' \subseteq files \cup ({e} \X Kinds)
      BY <1>1, <1>2
    <3>2. <<root, "marker">> \in files /\ root \in dirs' => <<root, "marker">> \in files'
      BY <1>2
    <3>3. e \in {RuntimeRoot(settings), settings.output, settings.cache}
      OBVIOUS
    <3>4. Kept(root)'
      BY <2>1, <2>3, <3>1, <3>3, <3>2, <1>2, RootKept
    <3>. QED BY <2>1, <3>4
  <2>. QED BY <2>1, <2>2, <2>3
<1>4. step = "make cache" => Held(settings.output)'
  BY <1>2 DEF Settled, RootsKept, Held, IsProjectStorage, Within
<1>5. RootsKept'
  BY <1>2, <1>3, <1>4 DEF RootsKept, Settled
<1>. QED BY <1>2, <1>5 DEF Settled, AcceptedAgain

(* A root that is marked is held.                                           *)
LEMMA SettledMark ==
  ASSUME Types, AllSeparate, Settled, MarkOutput \/ MarkCache
  PROVE  Settled'
<1>1. PICK e \in {settings.output, settings.cache} :
        /\ files' = Marked(e)
        /\ step = "mark output" => e = settings.output
        /\ step = "mark cache" => e = settings.cache
  BY DEF MarkOutput, MarkCache
<1>2. settings \in Settings /\ dirs' = dirs /\ settings' = settings /\ last' = last
      /\ \/ step = "mark output" /\ step' = IF settings.enabled THEN "make cache" ELSE "build"
         \/ step = "mark cache" /\ step' = "build"
  BY DEF MarkOutput, MarkCache, Types, Running
<1>3. files \subseteq files' /\ files' \subseteq files \cup ({e} \X Kinds)
  BY <1>1, MarkedAdds
<1>h. IsProjectStorage(e) \/ <<e, "marker">> \in files'
  BY <1>1 DEF Marked
<1>4. ASSUME NEW root \in {settings.output, settings.cache} PROVE root \notin Above[Repo] /\ Kept(root)'
  <2>1. root \notin Above[Repo] /\ Kept(root)
    BY <1>2 DEF Settled, RootsKept
  <2>2. CASE e = root
    BY <2>1, <2>2, <1>h DEF Kept, Owned, IsProjectStorage, Within
  <2>3. CASE e # root
    <3>1. dirs' \subseteq Make(e)
      BY <1>2 DEF Make
    <3>2. <<root, "marker">> \in files /\ root \in dirs' => <<root, "marker">> \in files'
      BY <1>3
    <3>3. e \in {RuntimeRoot(settings), settings.output, settings.cache}
      OBVIOUS
    <3>4. Kept(root)'
      BY <2>1, <2>3, <3>1, <3>3, <3>2, <1>2, <1>3, RootKept
    <3>. QED BY <2>1, <3>4
  <2>. QED BY <2>1, <2>2, <2>3
<1>5. Held(settings.output)'
  <2>1. CASE step = "mark output"
    BY <2>1, <1>1, <1>2, <1>h DEF Held, IsProjectStorage, Within
  <2>2. CASE step = "mark cache"
    BY <2>2, <1>2, <1>3 DEF Settled, RootsKept, Held, IsProjectStorage, Within
  <2>. QED BY <2>1, <2>2, <1>2
<1>6. step = "mark cache" => Held(settings.cache)'
  BY <1>1, <1>2, <1>h DEF Held, IsProjectStorage, Within
<1>7. RootsKept'
  BY <1>2, <1>4, <1>5, <1>6 DEF RootsKept, Settled
<1>. QED BY <1>2, <1>7 DEF Settled, AcceptedAgain

(* The rows of the cache are written into a root that is held.              *)
LEMMA SettledBuild ==
  ASSUME Types, AllSeparate, Settled, Build
  PROVE  Settled'
<1>1. settings \in Settings /\ settings' = settings /\ last' = last
      /\ step = "build" /\ step' = "publish" /\ Held(settings.output)
  BY DEF Build, Types, Running, history, Settled, RootsKept
<1>2. \/ ~settings.enabled /\ dirs' = dirs /\ files' = files
      \/ /\ settings.enabled /\ dirs' = Make(settings.cache)
         /\ files' = files \cup {<<settings.cache, "rows">>} /\ Held(settings.cache)
  BY DEF Build, Settled, RootsKept
<1>3. files \subseteq files' /\ files' \subseteq files \cup ({settings.cache} \X Kinds)
      /\ dirs' \subseteq Make(settings.cache)
  BY <1>2 DEF Kinds, Make
<1>4. Held(settings.output)'
  BY <1>1, <1>3 DEF Held, IsProjectStorage, Within
<1>5. settings.enabled => Held(settings.cache)'
  BY <1>1, <1>2, <1>3 DEF Held, IsProjectStorage, Within
<1>6. Kept(settings.cache)'
  <2>1. CASE settings.enabled
    BY <2>1, <1>5 DEF Held, Kept, Owned, IsProjectStorage, Within
  <2>2. CASE ~settings.enabled
    <3>1. dirs' = dirs /\ files' = files /\ Kept(settings.cache)
      BY <2>2, <1>1, <1>2 DEF Settled, RootsKept
    <3>. QED BY <3>1, <1>1 DEF Kept, Owned, IsEmpty, IsProjectStorage, Within
  <2>. QED BY <2>1, <2>2
<1>7. Kept(settings.output)'
  BY <1>4 DEF Held, Kept, Owned, IsProjectStorage, Within
<1>8. RootsKept'
  BY <1>1, <1>4, <1>5, <1>6, <1>7 DEF RootsKept, Settled
<1>. QED BY <1>1, <1>8 DEF Settled, AcceptedAgain

(* Publishing leaves the marker of the output root, and the cache alone.    *)
LEMMA SettledPublish ==
  ASSUME Types, AllSeparate, Settled, Publish
  PROVE  Settled'
<1>0. PICK e \in {settings.output} : TRUE
  OBVIOUS
<1>. DEFINE gone(d) == \E entry \in Replaced[e] : Within(d, entry)
<1>1. settings \in Settings /\ step = "publish" /\ step' = "idle" /\ last' = settings /\ Held(e)
  BY <1>0 DEF Publish, Types, Running, End, Settled, RootsKept
<1>2. /\ dirs' = {d \in dirs : ~gone(d)}
      /\ files' = {file \in files : ~gone(file[1])} \cup {<<e, "report">>}
  BY <1>0 DEF Publish
<1>3. dirs' \subseteq Make(e) /\ files' \subseteq files \cup ({e} \X Kinds)
  BY <1>2 DEF Make, Kinds
<1>4. ASSUME NEW d \in dirs', <<d, "marker">> \in files PROVE <<d, "marker">> \in files'
  <2>1. ~gone(<<d, "marker">>[1])
    <3>. HIDE DEF gone
    <3>. QED BY <1>2
  <2>. HIDE DEF gone
  <2>. QED BY <1>2, <2>1, <1>4
<1>5. ASSUME NEW root \in {settings.output, settings.cache} PROVE root \notin Above[Repo] /\ Kept(root)'
  <2>1. root \notin Above[Repo] /\ Kept(root)
    BY <1>1 DEF Settled, RootsKept
  <2>2. CASE root = e
    <3>1. root \in dirs' => IsProjectStorage(root) \/ <<root, "marker">> \in files'
      BY <2>2, <1>1, <1>4 DEF Held
    <3>. QED BY <2>1, <3>1 DEF Kept, Owned, IsProjectStorage, Within
  <2>3. CASE root # e
    BY <2>1, <2>3, <1>1, <1>3, <1>4, RootKept
  <2>. QED BY <2>1, <2>2, <2>3
<1>. HIDE DEF gone
<1>7. AcceptedAgain'
  BY <1>1, <1>5 DEF AcceptedAgain, Accepts, Valid, Kept
<1>. QED BY <1>1, <1>7 DEF Settled, RootsKept

(* rmtree takes nothing from an output root beside the cache.               *)
LEMMA SettledRemove ==
  ASSUME Types, AllSeparate, Settled, step = "clear", step' = step,
         settings' = settings, last' = last,
         dirs' \subseteq dirs, files' \subseteq files,
         \A file \in files \ files' : Within(file[1], settings.cache)
  PROVE  Settled'
<1>1. settings \in Settings /\ settings.output \in Dirs /\ settings.cache \in Dirs
  BY Places DEF Types, Running
<1>2. PICK d \in {settings.output} : TRUE
  OBVIOUS
<1>3. ASSUME d # settings.cache PROVE Kept(d)'
  <2>1. Kept(d) /\ Separate(settings)
    BY <1>1, <1>2, <1>3 DEF Settled, RootsKept, AllSeparate
  <2>2. CASE IsProjectStorage(d)
    BY <2>2 DEF Kept, Owned, IsProjectStorage, Within
  <2>3. CASE ~IsProjectStorage(d) /\ IsEmpty(d)
    BY <2>3 DEF Kept, Owned, IsEmpty
  <2>4. CASE ~IsProjectStorage(d) /\ d \notin dirs
    BY <2>4 DEF Kept
  <2>5. CASE ~IsProjectStorage(d) /\ <<d, "marker">> \in files
    <3>1. settings.cache \notin Above[d]
      <4>1. CASE IsProjectStorage(settings.cache)
        BY <4>1, <2>5, <1>1, <1>2, TreeAssumption DEF IsProjectStorage, Within
      <4>2. CASE ~IsProjectStorage(settings.cache)
        BY <4>2, <2>1, <1>2, <1>3 DEF Separate
      <4>. QED BY <4>1, <4>2
    <3>2. <<d, "marker">> \in files'
      <4>1. <<d, "marker">>[1] = d
        OBVIOUS
      <4>. QED BY <4>1, <2>5, <3>1 DEF Within
    <3>. QED BY <3>2 DEF Kept, Owned
  <2>. QED BY <2>1, <2>2, <2>3, <2>4, <2>5 DEF Kept, Owned
<1>4. RootsKept'
  BY <1>2, <1>3 DEF Settled, RootsKept
<1>5. AcceptedAgain'
  BY DEF AcceptedAgain
<1>. QED BY <1>4, <1>5 DEF Settled

(* When the cache is gone, both roots are accepted again. *)
LEMMA SettledCleared ==
  ASSUME Settled, Cleared
  PROVE  Settled'
<1>1. dirs' = dirs /\ files' = files /\ step' = "idle" /\ last' = settings
      /\ step = "clear" /\ settings.cache \notin dirs
  BY DEF Cleared, tree, End
<1>2. ASSUME NEW root \in {settings.output, settings.cache} PROVE root \notin Above[Repo] /\ Kept(root)
  BY <1>1 DEF Settled, RootsKept, Kept
<1>3. Accepts(settings)
  BY <1>2 DEF Accepts, Valid, Kept
<1>4. AcceptedAgain'
  BY <1>1, <1>3 DEF AcceptedAgain, Accepts, Valid, Owned, IsEmpty, IsProjectStorage, Within
<1>. QED BY <1>1, <1>4 DEF Settled, RootsKept

(* init makes and marks a root that does not exist. *)
LEMMA CreatedIsKept ==
  ASSUME Types, AllSeparate, settings \in Settings,
         NEW e \in {settings.output, settings.cache},
         \/ e \in dirs /\ dirs' = dirs /\ files' = files
         \/ e \notin dirs /\ dirs' = Make(e) /\ files' = Marked(e),
         NEW root \in {settings.output, settings.cache}, Kept(root)
  PROVE  Kept(root)'
<1>1. CASE e \in dirs /\ dirs' = dirs /\ files' = files
  BY <1>1 DEF Kept, Owned, IsEmpty, IsProjectStorage, Within
<1>2. CASE e \notin dirs /\ dirs' = Make(e) /\ files' = Marked(e)
  <2>1. CASE root = e
    BY <2>1, <1>2 DEF Kept, Owned, IsProjectStorage, Within, Marked
  <2>2. CASE root # e
    <3>1. dirs' \subseteq Make(e) /\ files' \subseteq files \cup ({e} \X Kinds)
      BY <1>2, MarkedAdds
    <3>2. <<root, "marker">> \in files /\ root \in dirs' => <<root, "marker">> \in files'
      BY <1>2, MarkedAdds
    <3>3. e \in {RuntimeRoot(settings), settings.output, settings.cache}
      OBVIOUS
    <3>. QED BY <2>2, <3>1, <3>2, <3>3, RootKept
  <2>. QED BY <2>1, <2>2
<1>. QED BY <1>1, <1>2

(* init marks an output root that it makes.                                 *)
LEMMA SettledCreateOutput ==
  ASSUME Types, AllSeparate, Settled, CreateOutput
  PROVE  Settled'
<1>1. PICK e \in {settings.output} : TRUE
  OBVIOUS
<1>2. settings \in Settings /\ settings' = settings /\ last' = last
      /\ step = "create output" /\ step' = "create cache"
  BY DEF CreateOutput, Types, Running
<1>3. \/ e \in dirs /\ dirs' = dirs /\ files' = files
      \/ e \notin dirs /\ dirs' = Make(e) /\ files' = Marked(e)
  BY <1>1 DEF CreateOutput, tree
<1>4. ASSUME NEW root \in {settings.output, settings.cache} PROVE root \notin Above[Repo] /\ Kept(root)'
  <2>1. root \notin Above[Repo] /\ Kept(root)
    BY <1>2 DEF Settled, RootsKept
  <2>2. e \in {settings.output, settings.cache}
    BY <1>1
  <2>. QED BY <2>1, <2>2, <1>2, <1>3, CreatedIsKept
<1>5. RootsKept'
  BY <1>2, <1>4 DEF Settled, RootsKept
<1>. QED BY <1>2, <1>5 DEF Settled, AcceptedAgain

(* init marks a cache root that it makes, and ends.                         *)
LEMMA SettledCreateCache ==
  ASSUME Types, AllSeparate, Settled, CreateCache
  PROVE  Settled'
<1>1. PICK e \in {settings.cache} : TRUE
  OBVIOUS
<1>2. settings \in Settings /\ last' = settings /\ step = "create cache" /\ step' = "idle"
  BY DEF CreateCache, Types, Running
<1>3. \/ e \in dirs /\ dirs' = dirs /\ files' = files
      \/ e \notin dirs /\ dirs' = Make(e) /\ files' = Marked(e)
  <2>1. e \in dirs => Make(e) = dirs
    BY DEF Types, Tree, Make
  <2>. QED BY <1>1, <2>1 DEF CreateCache
<1>4. ASSUME NEW root \in {settings.output, settings.cache} PROVE root \notin Above[Repo] /\ Kept(root)'
  <2>1. root \notin Above[Repo] /\ Kept(root)
    BY <1>2 DEF Settled, RootsKept
  <2>2. e \in {settings.output, settings.cache}
    BY <1>1
  <2>. QED BY <2>1, <2>2, <1>2, <1>3, CreatedIsKept
<1>5. AcceptedAgain'
  BY <1>2, <1>4 DEF AcceptedAgain, Accepts, Valid, Kept
<1>. QED BY <1>2, <1>5 DEF Settled, RootsKept

(* Every step keeps what has been accepted.                                 *)
LEMMA SettledStep == ~UserRaces /\ AllSeparate /\ Types /\ Settled /\ [Next]_vars => Settled'
<1>. SUFFICES ASSUME ~UserRaces, AllSeparate, Types, Settled, [Next]_vars PROVE Settled'
  OBVIOUS
<1>1. ASSUME NEW d \in UserDirs, Write(d) PROVE Settled'
  BY <1>1 DEF Write, Settled, RootsKept, AcceptedAgain
<1>2. ASSUME NEW config \in Settings, NEW command \in Commands, Load(command, config) PROVE Settled'
  BY <1>2, SettledLoad
<1>3. ASSUME NEW file \in files, RemoveFile(file) PROVE Settled'
  <2>1. \A f \in files \ files' : f = file
    BY <1>3 DEF RemoveFile
  <2>. QED BY <2>1, <1>3, SettledRemove DEF RemoveFile, history
<1>4. ASSUME NEW d \in dirs, RemoveDir(d) PROVE Settled'
  BY <1>4, SettledRemove DEF RemoveDir, history
<1>5. CASE Stop
  <2>1. step # "idle" /\ step' = "idle" /\ last' = last
    BY <1>5 DEF Stop, End
  <2>. QED BY <2>1 DEF Settled, RootsKept, AcceptedAgain
<1>6. CASE UNCHANGED vars
  BY <1>6 DEF vars, tree, history, Settled, RootsKept, AcceptedAgain, Kept, Held, Accepts, Valid,
             Owned, IsEmpty, IsProjectStorage, Within
<1>. QED
  BY <1>1, <1>2, <1>3, <1>4, <1>5, <1>6, SettledLock, SettledMake, SettledMark, SettledBuild,
     SettledPublish, SettledCleared, SettledCreateOutput, SettledCreateCache DEF Next

(* When no configuration in use has one root around the other or around the *)
(* directory of its locks, what a command has accepted the next command     *)
(* with the same configuration accepts: whatever the other configurations   *)
(* are, and whichever commands ran or were interrupted before.              *)
THEOREM AcceptedRootsStayAccepted ==
  ASSUME ~UserRaces, AllSeparate
  PROVE  Spec => []AcceptedAgain
<1>1. Settled => AcceptedAgain
  BY DEF Settled
<1>2. Types /\ Settled /\ [Next]_vars => (Types /\ Settled)'
  BY TypesStep, SettledStep
<1>3. Init => Types /\ Settled
  BY TypesInit, SettledInit
<1>. QED BY <1>1, <1>2, <1>3, PTL DEF Spec
=============================================================================
