------------------------- MODULE SemanticEnrichment -------------------------
(***************************************************************************)
(* The optional semantic stage: one request to an external worker process, *)
(* under a deadline, with its answer kept in the persistent cache.         *)
(*                                                                         *)
(* Source: pipeline/semantics.py, semantics/selection.py, provider.py,     *)
(* transport.py and worker.py, cache/semantic_enrichment.py,               *)
(* adapters/languages/ecmascript/compiler_facts.py, and the worker under   *)
(* resources/semantic_worker/typescript.                                   *)
(*                                                                         *)
(* A content stands for everything project_cache_key hashes: the JS/TS     *)
(* sources, tsconfigs, package manifests and lock files of one scan. Only  *)
(* the ECMAScript adapter gives semantic projects, and it gives one, so a  *)
(* run has at most one request.                                            *)
(***************************************************************************)
EXTENDS Naturals, FiniteSets, Sequences, Functions, SequencesExt

CONSTANTS
  Contents,    \* contents of the project
  Candidates,  \* Candidates[c]: functions with relation evidence in content c
  Foreign,     \* signature ids that a worker may invent
  MaxItems,    \* items per request
  Compilers,   \* versions of the typescript package of the repository
  NoCompiler,  \* no such package is installed
  None,
  Modes,       \* the semantics.mode settings in use
  LiveEdits,   \* may others edit the project while a run works on it?
  Reinstalls   \* may the typescript package change between runs?

ASSUME CandidatesAssumption ==
  Candidates \in [Contents -> SUBSET Nat] /\ MaxItems \in Nat
ASSUME ModesAssumption == Modes \subseteq {"off", "auto", "project", "required"}
ASSUME MarksAssumption == NoCompiler \notin Compilers /\ None \notin Contents
ASSUME SwitchesAssumption == LiveEdits \in BOOLEAN /\ Reinstalls \in BOOLEAN

Installed == Compilers \cup {NoCompiler}
Statuses == {"disabled", "unavailable", "ready", "timed_out", "failed"}
Keys == Modes \X Contents

(* The items of the request: candidates in source order, cut at the limit. *)
Requested(content) ==
  {item \in Candidates[content] :
     Cardinality({other \in Candidates[content] : other < item}) < MaxItems}

(* The type checker runs in two modes, where a compiler could be loaded. *)
Typechecks(mode, compiler) ==
  mode \in {"project", "required"} /\ compiler # NoCompiler

VARIABLES
  disk,      \* content of the project
  compiler,  \* the installed typescript package
  step,      \* what the run does next
  run,       \* settings of the run: mode, provider, cached
  scanned,   \* content the scan hashed
  worker,    \* the worker process: "off", "started" or "examined"
  facts,     \* what the worker read
  result,    \* the result for the request, or None
  cache,     \* rows the open connection sees
  db         \* rows committed

environment == <<disk, compiler>>
process == <<worker, facts>>
stored == <<cache, db>>
vars == <<environment, step, run, scanned, process, result, stored>>

Facts == [src : Contents, compiler : Installed, typechecked : BOOLEAN]

(* A result that is not ready has no items, and evidence is parser-only. *)
Results ==
  [status : Statuses \ {"ready"}, items : {{}}, facts : {None}]
    \cup [status : {"ready"}, items : SUBSET Nat, facts : Facts]

Failure(status) == [status |-> status, items |-> {}, facts |-> None]

Idle ==
  [mode |-> "off", provider |-> "none", cached |-> FALSE]

Init ==
  /\ disk \in Contents
  /\ compiler \in Installed
  /\ step = "idle"
  /\ run = Idle
  /\ scanned = None
  /\ worker = "off" /\ facts = None
  /\ result = None
  /\ cache = <<>> /\ db = <<>>

-----------------------------------------------------------------------------
(* The world around a run. *)

Edit(content) ==
  /\ LiveEdits \/ step = "idle"
  /\ content # disk
  /\ disk' = content
  /\ UNCHANGED <<compiler, step, run, scanned, process, result, stored>>

Install(version) ==
  /\ Reinstalls /\ step = "idle"
  /\ version # compiler
  /\ compiler' = version
  /\ UNCHANGED <<disk, step, run, scanned, process, result, stored>>

-----------------------------------------------------------------------------
(* The run. *)

(* Untrusted code or a missing Node leaves the run without a provider; the *)
(* configuration refuses the required mode for untrusted code.             *)
ProviderChoices(mode) ==
  IF mode = "required" THEN {"worker", "no_node"}
  ELSE {"worker", "no_node", "untrusted"}

Start(mode, provider, cached) ==
  /\ step = "idle"
  /\ provider \in ProviderChoices(mode)
  /\ run' = [mode |-> mode, provider |-> provider, cached |-> cached]
  /\ scanned' = disk
  /\ cache' = db
  /\ step' = "scanned"
  /\ UNCHANGED <<environment, process, result, db>>

NothingToAsk ==
  /\ step = "scanned"
  /\ run.mode = "off" \/ Requested(scanned) = {}
  /\ result' = Failure("disabled")
  /\ step' = "reporting"
  /\ UNCHANGED <<environment, run, scanned, process, stored>>

HasRequest ==
  /\ step = "scanned"
  /\ run.mode # "off" /\ Requested(scanned) # {}

NoProvider ==
  /\ HasRequest
  /\ run.provider # "worker"
  /\ \/ /\ run.mode = "required"
        /\ step' = "failing" /\ UNCHANGED result
     \/ /\ run.mode # "required"
        /\ result' = Failure("unavailable") /\ step' = "reporting"
  /\ UNCHANGED <<environment, run, scanned, process, stored>>

Ask ==
  /\ HasRequest
  /\ run.provider = "worker"
  /\ step' = IF run.cached THEN "lookup" ELSE "launch"
  /\ UNCHANGED <<environment, run, scanned, process, result, stored>>

(* The fingerprint: mode, project key and items; not the compiler. *)
CacheKey(mode, content) == <<mode, content>>

Lookup ==
  LET key == CacheKey(run.mode, scanned)
  IN  /\ step = "lookup"
      /\ \/ /\ key \in DOMAIN cache
            /\ result' = cache[key] /\ step' = "settled"
         \/ /\ key \notin DOMAIN cache
            /\ step' = "launch" /\ UNCHANGED result
      /\ UNCHANGED <<environment, run, scanned, process, stored>>

(* Node may have gone, or the system may refuse another process. *)
Launch ==
  /\ step = "launch"
  /\ \/ /\ worker' = "started" /\ step' = "waiting" /\ UNCHANGED result
     \/ /\ result' \in {Failure("unavailable"), Failure("failed")}
        /\ step' = "answered" /\ UNCHANGED worker
  /\ UNCHANGED <<environment, run, scanned, facts, stored>>

(* The worker reads the project as it now is, with the compiler it finds. *)
Examine ==
  /\ worker = "started"
  /\ worker' = "examined"
  /\ facts' = [src |-> disk, compiler |-> compiler,
               typechecked |-> Typechecks(run.mode, compiler)]
  /\ UNCHANGED <<environment, step, run, scanned, result, stored>>

-----------------------------------------------------------------------------
(* The response. The worker runs code of the repository: anything may come *)
(* out of it. "this" stands for the right protocol, request id, language   *)
(* and project key.                                                        *)

ItemLists(ids) == UNION {[1 .. n -> ids] : n \in 0 .. 2}

Replies(ids) ==
  [large : BOOLEAN, exit : {0, 1}, body : {"empty", "text", "json"},
   request : {"this", "other"}, status : Statuses, items : ItemLists(ids)]

(* Faulty: only repeated items are refused. *)
ItemsMatchDistinct(reply, requested) == IsInjective(reply.items)

(* What comes back was requested, and comes back once. *)
ItemsMatch(reply, requested) ==
  IsInjective(reply.items) /\ ToSet(reply.items) \subseteq requested

Accepted(reply, requested) ==
  /\ ~reply.large
  /\ reply.exit = 0
  /\ reply.body = "json"
  /\ reply.request = "this"
  /\ ItemsMatch(reply, requested)

CompletedResult(reply, requested, read) ==
  IF ~Accepted(reply, requested) THEN Failure("failed")
  ELSE IF reply.status # "ready" THEN Failure(reply.status)
  ELSE [status |-> "ready", items |-> ToSet(reply.items), facts |-> read]

(* The process ends before the deadline. One that ends before it has read  *)
(* the project reports a failure, if anything.                             *)
Collect(reply) ==
  /\ step = "waiting"
  /\ worker = "started" => reply.exit # 0
  /\ result' = CompletedResult(reply, Requested(scanned), facts)
  /\ worker' = "off" /\ facts' = None
  /\ step' = "answered"
  /\ UNCHANGED <<environment, run, scanned, stored>>

(* Faulty: the deadline covers the start of the worker only. *)
ExpireStarting ==
  /\ step = "waiting" /\ worker = "started"
  /\ result' = Failure("timed_out")
  /\ worker' = "off" /\ facts' = None
  /\ step' = "answered"
  /\ UNCHANGED <<environment, run, scanned, stored>>

(* The deadline passes: subprocess.run kills the process and drops what it *)
(* wrote, be it a full answer.                                             *)
Expire ==
  /\ step = "waiting"
  /\ result' = Failure("timed_out")
  /\ worker' = "off" /\ facts' = None
  /\ step' = "answered"
  /\ UNCHANGED <<environment, run, scanned, stored>>

-----------------------------------------------------------------------------
(* What the run makes of the result. *)

(* Faulty: failures are kept like answers. *)
StoreAll ==
  /\ step = "answered"
  /\ cache' = IF run.cached
              THEN [key \in (DOMAIN cache) \cup {CacheKey(run.mode, scanned)} |->
                      IF key = CacheKey(run.mode, scanned) THEN result ELSE cache[key]]
              ELSE cache
  /\ step' = "settled"
  /\ UNCHANGED <<environment, run, scanned, process, result, db>>

(* Failures stay in the memory of the provider object, which ends with the *)
(* run.                                                                    *)
Store ==
  /\ step = "answered"
  /\ cache' = IF run.cached /\ result.status = "ready"
              THEN [key \in (DOMAIN cache) \cup {CacheKey(run.mode, scanned)} |->
                      IF key = CacheKey(run.mode, scanned) THEN result ELSE cache[key]]
              ELSE cache
  /\ step' = "settled"
  /\ UNCHANGED <<environment, run, scanned, process, result, db>>

Settle ==
  /\ step = "settled"
  /\ step' = IF run.mode = "required" /\ result.status # "ready"
             THEN "failing" ELSE "reporting"
  /\ UNCHANGED <<environment, run, scanned, process, result, stored>>

End ==
  /\ step' = "idle" /\ run' = Idle /\ scanned' = None
  /\ result' = None /\ worker' = "off" /\ facts' = None
  /\ UNCHANGED environment

(* The reports are published or the error is raised; either way the cache  *)
(* is closed, which commits it.                                            *)
Close ==
  /\ step \in {"reporting", "failing"}
  /\ db' = cache
  /\ End /\ UNCHANGED cache

(* Ctrl-C kills the worker and still closes the cache. *)
Interrupt ==
  /\ step # "idle"
  /\ db' = cache
  /\ End /\ UNCHANGED cache

(* The process is killed: what was not committed is lost. *)
Crash ==
  /\ step # "idle"
  /\ cache' = db
  /\ End /\ UNCHANGED db

Pipeline ==
  \/ NothingToAsk \/ NoProvider \/ Ask \/ Lookup \/ Launch
  \/ Expire \/ Store \/ Settle \/ Close

Next ==
  \/ \E content \in Contents : Edit(content)
  \/ \E version \in Installed : Install(version)
  \/ \E mode \in Modes, cached \in BOOLEAN : \E provider \in ProviderChoices(mode) :
       Start(mode, provider, cached)
  \/ Pipeline
  \/ Examine
  \/ \E reply \in Replies((UNION {Candidates[c] : c \in Contents}) \cup Foreign) :
       Collect(reply)
  \/ Interrupt \/ Crash

Spec == Init /\ [][Next]_vars

(* The run itself goes on, and its deadline passes; the worker owes nothing. *)
FairSpec == Spec /\ WF_vars(Pipeline)

-----------------------------------------------------------------------------
(* Properties *)

(* Type invariant of the run, the worker and the rows. *)
TypeOK ==
  /\ disk \in Contents /\ compiler \in Installed
  /\ step \in {"idle", "scanned", "lookup", "launch", "waiting", "answered",
               "settled", "reporting", "failing"}
  /\ run \in [mode : Modes \cup {"off"},
              provider : {"worker", "no_node", "untrusted", "none"}, cached : BOOLEAN]
  /\ scanned \in Contents \cup {None}
  /\ worker \in {"off", "started", "examined"}
  /\ facts \in Facts \cup {None}
  /\ result \in Results \cup {None}
  /\ \A rows \in {cache, db} :
       DOMAIN rows \subseteq Keys /\ \A key \in DOMAIN rows : rows[key] \in Results

(* A kept answer is an answer to the request it is kept for: whatever a    *)
(* worker writes, late, for another request, or with invented or repeated  *)
(* items, no later run reads more than it would have asked for.            *)
RowsAnswer ==
  \A rows \in {cache, db} : \A key \in DOMAIN rows :
    /\ rows[key].status = "ready"
    /\ rows[key].items \subseteq Requested(key[2])

(* A required run that goes on to its reports has an answer, unless there  *)
(* was nothing to ask; the other modes never fail for want of one.         *)
RequiredAnswered ==
  /\ step = "reporting" /\ run.mode = "required" =>
       result.status = "ready" \/ Requested(scanned) = {}
  /\ step = "failing" => run.mode = "required"

(* No worker outlives the request it was started for. *)
WorkerContained == worker # "off" => step = "waiting"

(* A run whose request failed or timed out leaves nothing for later runs:  *)
(* the next one asks again.                                                *)
FailureLeavesNoTrace ==
  [][result # None /\ result.status # "ready" => db' = db]_vars

(* While nobody edits the project during a run or exchanges its compiler,  *)
(* a run that reports semantic facts, from the worker or the cache, has    *)
(* those of the scanned content, the mode asked for and the compiler there *)
(* is: what it would have without a cache.                                 *)
FactsOfThisRun ==
  step = "reporting" /\ result.status = "ready" =>
    result.facts = [src |-> scanned, compiler |-> compiler,
                    typechecked |-> Typechecks(run.mode, compiler)]

(* A worker that hangs does not hang the run. *)
RunEnds == step # "idle" ~> step = "idle"

(* A row is kept only for content that did not change during the run, as   *)
(* the documents of the cache say.                                         *)
RowsOfScannedContent ==
  \A key \in DOMAIN db : db[key].facts.src = key[2]

(* A run does not report a compiler as missing when it is there. *)
NoStaleFailure ==
  step = "reporting" /\ result.status = "ready" /\ compiler # NoCompiler =>
    result.facts.compiler # NoCompiler
=============================================================================
