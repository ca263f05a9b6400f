--------------------------- MODULE MCStorageRoots ---------------------------
(* Paths as sequences of names: a repository, its .codeseam with reports and *)
(* cache, and a directory ext beside it with a, b and .codeseam.             *)
EXTENDS StorageRoots, SequencesExt

root == <<>>
repo == <<"repo">>
src == <<"repo", "src">>
storage == <<"repo", ".codeseam">>
reports == <<"repo", ".codeseam", "reports">>
agent == <<"repo", ".codeseam", "reports", "agent">>
cacheDir == <<"repo", ".codeseam", "cache">>
ext == <<"ext">>
extA == <<"ext", "a">>
extB == <<"ext", "b">>

MCNamed == {storage, <<".codeseam">>, <<"ext", ".codeseam">>}
MCDirs == {root, repo, src, reports, agent, cacheDir, ext, extA, extB} \cup MCNamed
MCAbove == [d \in MCDirs |-> {e \in MCDirs : IsPrefix(e, d)}]
MCCodeseam == [d \in {root, ext} |-> Append(d, ".codeseam")]
MCReplaced == [d \in MCDirs |-> IF d = reports THEN {agent} ELSE {}]
MCUserDirs == {src, ext, extA}

Config(output, cache, enabled) ==
  [output |-> output, cache |-> cache, enabled |-> enabled]

(* A cache outside, both roots outside, and a root that must be refused. *)
MCSettings ==
  {Config(reports, ext, TRUE), Config(extA, extB, TRUE), Config(extB, repo, TRUE)}

AllCommands == {"analyze", "clear", "init"}

SideBySide == {Config(extB, extA, TRUE)}
Uncached == {Config(extA, ext, FALSE)}
CacheAroundOutput == {Config(extA, ext, TRUE)}
CacheAroundReports == {Config(reports, storage, TRUE)}
CacheInReports == {Config(reports, agent, TRUE)}

(* What the proof that accepted roots stay accepted takes for granted.       *)
ASSUME SeparateAssumption == \A config \in MCSettings : Separate(config)
=============================================================================
