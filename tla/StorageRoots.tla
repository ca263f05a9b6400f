---------------------------- MODULE StorageRoots ----------------------------
(***************************************************************************)
(* Which directories Codeseam takes for its reports and its cache, and     *)
(* what it may delete in them. Both roots come from the configuration,     *)
(* anywhere in the file system, one inside the other or the same.          *)
(*                                                                         *)
(* Source: platform/storage.py, platform/paths.py, config.py,              *)
(* pipeline/analyze.py, output/artifacts/debug.py, cli/commands/cache.py,  *)
(* cli/commands/init.py.                                                   *)
(*                                                                         *)
(* Commands that share their locks run one at a time (AnalysisRun), so     *)
(* there is one process here, and a user who writes files.                 *)
(***************************************************************************)
EXTENDS Naturals, FiniteSets

CONSTANTS
  Dirs,       \* directories that may come to exist
  Root,       \* the root of the file system
  Above,      \* Above[d]: d and the directories it is in
  Repo,       \* the analysed repository
  Project,    \* its .codeseam directory
  Named,      \* directories with the name .codeseam
  Codeseam,   \* Codeseam[d]: the directory .codeseam in d
  Replaced,   \* Replaced[d]: entries that a run replaces in output root d
  Settings,   \* configurations in use: output, cache, enabled
  Commands,   \* commands in use
  UserDirs,   \* where the user writes files
  None,
  UserRaces,  \* may the user write while a command runs, other than amid rmtree?
  Interrupts  \* may a command be interrupted, killed or fail?

ASSUME TreeAssumption ==
  /\ Above \in [Dirs -> SUBSET Dirs]
  /\ \A d \in Dirs : d \in Above[d] /\ \A e \in Above[d] : Above[e] \subseteq Above[d]
  /\ \A d \in Dirs : \A e \in Above[d] : d \in Above[e] => d = e
  /\ Root \in Dirs /\ Above[Root] = {Root} /\ \A d \in Dirs : Root \in Above[d]
ASSUME PlacesAssumption ==
  /\ Repo \in Dirs /\ Project \notin Above[Repo] /\ Project \in Named /\ Named \subseteq Dirs /\ UserDirs \subseteq Dirs
  /\ Replaced \in [Dirs -> SUBSET Dirs]
  /\ \A d \in Dirs : \A entry \in Replaced[d] : d \in Above[entry] \ {entry}
ASSUME SettingsAssumption ==
  /\ Settings \subseteq [output : Dirs, cache : Dirs, enabled : BOOLEAN]
  /\ Commands \subseteq {"analyze", "clear", "init"}
ASSUME SwitchesAssumption ==
  UserRaces \in BOOLEAN /\ Interrupts \in BOOLEAN /\ None \notin Settings

Kinds == {"user", "marker", "report", "rows", "lock"}

VARIABLES
  dirs,      \* directories that exist
  files,     \* <<directory, kind>> of files that exist
  foreign,   \* user files written outside of what Codeseam owned then
  step,      \* what the command does next
  settings,  \* its configuration
  claimed,   \* roots that Codeseam claimed and that still exist
  last       \* configuration of the last command, if it ended well and nobody
             \* wrote since

tree == <<dirs, files>>
history == <<foreign, claimed, last>>
vars == <<tree, step, settings, history>>

-----------------------------------------------------------------------------
(* Directories. *)

Within(d, root) == root \in Above[d]

(* The innermost of nested directories. *)
Innermost(nested) == CHOOSE d \in nested : \A e \in nested : e \in Above[d]

Parents(d) == Above[d] \ {d}

IsEmpty(d) ==
  /\ \A file \in files : file[1] # d
  /\ \A e \in dirs : e = d \/ ~Within(e, d)

IsProjectStorage(d) == Within(d, Project)

(* Faulty variants stand before the definitions they replace: a directory   *)
(* is empty when it has no files of its own.                                *)
OwnedWithoutFiles(d) ==
  IsProjectStorage(d) \/ \A file \in files : file[1] # d \/ file[2] = "marker"

Owned(d) == IsProjectStorage(d) \/ <<d, "marker">> \in files \/ IsEmpty(d)

(* What load_config accepts for a root. *)
Valid(d) ==
  /\ d \notin Above[Repo]
  /\ d \in dirs => Owned(d)

Accepts(config) == Valid(config.output) /\ Valid(config.cache)

(* The directory whose runtime/locks holds the two lock files: the nearest *)
(* .codeseam of either root, else one beside them.                         *)
RuntimeRoot(config) ==
  LET near(d) == Above[d] \cap Named
      common == Innermost(Parents(config.output) \cap Parents(config.cache))
  IN  IF near(config.output) # {} THEN Innermost(near(config.output))
      ELSE IF near(config.cache) # {} THEN Innermost(near(config.cache))
      ELSE Codeseam[IF common = Root THEN Innermost(Parents(config.output)) ELSE common]

ASSUME RuntimeRootAssumption == \A config \in Settings : RuntimeRoot(config) \in Dirs

Make(d) == dirs \cup Above[d]

-----------------------------------------------------------------------------
(* The repository has a source file. *)
Init ==
  /\ dirs = Above[Repo]
  /\ files = {<<Repo, "user">>}
  /\ foreign = {Repo}
  /\ step = "idle" /\ settings = None
  /\ claimed = {} /\ last = None

(* The user writes a file. It is foreign unless a root around it is marked *)
(* or it is in the project storage.                                        *)
Write(d) ==
  /\ step = "idle" \/ (UserRaces /\ step # "clear")
  /\ <<d, "user">> \notin files
  /\ dirs' = Make(d)
  /\ files' = files \cup {<<d, "user">>}
  /\ foreign' =
       IF IsProjectStorage(d) \/ \E e \in Above[d] : <<e, "marker">> \in files
       THEN foreign ELSE foreign \cup {d}
  /\ last' = None
  /\ UNCHANGED <<step, settings, claimed>>

(* Every command first loads and checks its configuration. *)
Load(command, config) ==
  /\ step = "idle"
  /\ Accepts(config)
  /\ settings' = config
  /\ \/ command = "analyze" /\ step' = "lock"
     \/ command = "clear" /\ step' = "lock to clear"
     \/ command = "init" /\ step' = "create output"
  /\ last' = None
  /\ UNCHANGED <<tree, foreign, claimed>>

Lock ==
  /\ step \in {"lock", "lock to clear"}
  /\ dirs' = Make(RuntimeRoot(settings))
  /\ files' = files \cup {<<RuntimeRoot(settings), "lock">>}
  /\ step' = IF step = "lock" THEN "make output" ELSE "clear"
  /\ UNCHANGED <<settings, history>>

End ==
  /\ step' = "idle" /\ settings' = None
  /\ claimed' = claimed \cap dirs'

-----------------------------------------------------------------------------
(* analyze: claim the roots, build, publish. *)

MakeOutput ==
  /\ step = "make output"
  /\ dirs' = Make(settings.output)
  /\ step' = "mark output"
  /\ UNCHANGED <<files, settings, history>>

MakeCache ==
  /\ step = "make cache"
  /\ dirs' = Make(settings.cache)
  /\ step' = "mark cache"
  /\ UNCHANGED <<files, settings, history>>

(* The project storage needs no marker. *)
Marked(d) ==
  IF IsProjectStorage(d) THEN files ELSE files \cup {<<d, "marker">>}

MarkOutput ==
  /\ step = "mark output"
  /\ files' = Marked(settings.output)
  /\ claimed' = claimed \cup {settings.output}
  /\ step' = IF settings.enabled THEN "make cache" ELSE "build"
  /\ UNCHANGED <<dirs, settings, foreign, last>>

MarkCache ==
  /\ step = "mark cache"
  /\ files' = Marked(settings.cache)
  /\ claimed' = claimed \cup {settings.cache}
  /\ step' = "build"
  /\ UNCHANGED <<dirs, settings, foreign, last>>

Build ==
  /\ step = "build"
  /\ dirs' = IF settings.enabled THEN Make(settings.cache) ELSE dirs
  /\ files' = IF settings.enabled THEN files \cup {<<settings.cache, "rows">>} ELSE files
  /\ step' = "publish"
  /\ UNCHANGED <<settings, history>>

(* The whole output root is exchanged, marker included.                     *)
PublishRoot ==
  /\ step = "publish"
  /\ dirs' = {d \in dirs : Within(d, settings.output) => d = settings.output}
  /\ files' = {file \in files : ~Within(file[1], settings.output)}
                \cup {<<settings.output, "report">>}
  /\ last' = settings
  /\ End /\ UNCHANGED foreign

(* The entries with the names of artifacts are replaced. *)
Publish ==
  /\ step = "publish"
  /\ LET gone(d) == \E entry \in Replaced[settings.output] : Within(d, entry)
     IN  /\ dirs' = {d \in dirs : ~gone(d)}
         /\ files' = {file \in files : ~gone(file[1])}
                       \cup {<<settings.output, "report">>}
  /\ last' = settings
  /\ End /\ UNCHANGED foreign

-----------------------------------------------------------------------------
(* cache clear: shutil.rmtree of the cache root, one entry at a time. *)

RemoveFile(file) ==
  /\ step = "clear"
  /\ file \in files /\ Within(file[1], settings.cache)
  /\ files' = files \ {file}
  /\ UNCHANGED <<dirs, step, settings, history>>

RemoveDir(d) ==
  /\ step = "clear"
  /\ d \in dirs /\ Within(d, settings.cache) /\ IsEmpty(d)
  /\ dirs' = dirs \ {d}
  /\ UNCHANGED <<files, step, settings, history>>

Cleared ==
  /\ step = "clear"
  /\ settings.cache \notin dirs
  /\ last' = settings
  /\ UNCHANGED <<tree, foreign>> /\ End

-----------------------------------------------------------------------------
(* init --create-dirs, without the locks: only a root that does not exist   *)
(* is made and marked.                                                      *)

CreateOutput ==
  /\ step = "create output"
  /\ IF settings.output \in dirs
     THEN UNCHANGED <<tree, claimed>>
     ELSE /\ dirs' = Make(settings.output)
          /\ files' = Marked(settings.output)
          /\ claimed' = claimed \cup {settings.output}
  /\ step' = "create cache"
  /\ UNCHANGED <<settings, foreign, last>>

CreateCache ==
  /\ step = "create cache"
  /\ dirs' = Make(settings.cache)
  /\ files' = IF settings.cache \in dirs THEN files ELSE Marked(settings.cache)
  /\ step' = "idle" /\ settings' = None /\ last' = settings
  /\ claimed' = IF settings.cache \in dirs THEN claimed ELSE claimed \cup {settings.cache}
  /\ UNCHANGED foreign

(* An exception, Ctrl-C or a kill between two steps. *)
Stop ==
  /\ Interrupts /\ step # "idle"
  /\ UNCHANGED <<tree, foreign, last>> /\ End

Next ==
  \/ \E d \in UserDirs : Write(d)
  \/ \E config \in Settings, command \in Commands : Load(command, config)
  \/ Lock
  \/ MakeOutput \/ MarkOutput \/ MakeCache \/ MarkCache \/ Build \/ Publish
  \/ \E file \in files : RemoveFile(file)
  \/ \E d \in dirs : RemoveDir(d)
  \/ Cleared
  \/ CreateOutput \/ CreateCache
  \/ Stop

Spec == Init /\ [][Next]_vars

-----------------------------------------------------------------------------
(* Properties *)

(* Files are in directories, directories in directories that exist. *)
TypeOK ==
  /\ dirs \subseteq Dirs /\ \A d \in dirs : Above[d] \subseteq dirs
  /\ files \subseteq dirs \X Kinds
  /\ foreign \subseteq Dirs
  /\ step \in {"idle", "lock", "lock to clear", "make output", "mark output",
               "make cache", "mark cache", "build", "publish", "clear",
               "create output", "create cache"}
  /\ settings \in Settings \cup {None}
  /\ claimed \subseteq Dirs /\ last \in Settings \cup {None}

(* No command deletes a file that the user wrote outside of the directories *)
(* Codeseam owned at that moment: not in the repository, not beside a root, *)
(* not in a directory that a later configuration names as a root.           *)
ForeignFilesKept == \A d \in foreign : <<d, "user">> \in files

(* A root that Codeseam claimed stays its own as long as it exists. *)
ClaimedStaysOwned == step = "idle" => \A d \in claimed : Owned(d)

(* Neither root of a configuration is around the other nor around the       *)
(* directory of the locks, unless it is project storage. They may be equal. *)
Separate(config) ==
  \A root \in {config.output, config.cache} :
    \/ IsProjectStorage(root)
    \/ /\ root \notin Above[RuntimeRoot(config)]
       /\ \A other \in {config.output, config.cache} :
            root \in Above[other] => other = root

AllSeparate == \A config \in Settings : Separate(config)

(* What a command accepts, the next command with the same configuration     *)
(* accepts, if nobody else wrote in between.                                *)
AcceptedAgain == step = "idle" /\ last # None => Accepts(last)

(* Clearing the cache keeps the reports and the lock files: commands that   *)
(* wait for a lock and commands that start later wait for the same file.     *)
ClearKeepsTheRest ==
  [][step = "clear" =>
       \A d \in dirs, kind \in {"report", "lock"} :
         <<d, kind>> \in files => <<d, kind>> \in files']_vars

(* A publication keeps a cache that is inside the output root. *)
CacheSurvives ==
  [][step = "publish" /\ settings' = None /\ last' # None =>
       \A d \in dirs : <<d, "rows">> \in files => <<d, "rows">> \in files']_vars
=============================================================================
