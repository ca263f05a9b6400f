---------------------- MODULE SemanticEnrichmentProofs ----------------------
(***************************************************************************)
(* What the semantic stage keeps and reports, for any contents, candidates *)
(* and limit.                                                              *)
(***************************************************************************)
EXTENDS SemanticEnrichment, TLAPS

(* Before its answer is stored, a run sees the rows that are committed, and *)
(* so does one whose request failed.                                        *)
NothingUnsaved ==
  \/ step \in {"idle", "scanned", "lookup", "launch", "waiting", "answered"}
  \/ result # None /\ result.status # "ready"
  => cache = db

(* A worker runs while its answer is awaited. *)
WorkerRuns == step = "waiting" => worker # "off"

(* What a run holds belongs to its own request. *)
HeldBelongs ==
  /\ step = "idle" => result = None
  /\ step # "idle" => scanned \in Contents /\ run.mode \in Modes
  /\ step \in {"answered", "settled", "reporting"} =>
       /\ result \in Results
       /\ result.status = "ready" => result.items \subseteq Requested(scanned)
  /\ worker = "examined" => facts \in Facts

IInv ==
  /\ TypeOK /\ RowsAnswer /\ RequiredAnswered /\ WorkerContained
  /\ NothingUnsaved /\ WorkerRuns /\ HeldBelongs

(* Requested items are items of the content. *)
LEMMA RequestedType ==
  ASSUME NEW content \in Contents
  PROVE  Requested(content) \subseteq Nat
  BY CandidatesAssumption DEF Requested

(* A failure is a result, and is not ready. *)
LEMMA FailureType ==
  ASSUME NEW status \in Statuses \ {"ready"}
  PROVE  /\ Failure(status) \in Results
         /\ Failure(status).status = status
         /\ Failure(status).status # "ready"
  BY DEF Failure, Results

(* Whatever the worker writes becomes a failure or an answer to the         *)
(* request.                                                                 *)
LEMMA CompletedType ==
  ASSUME NEW content \in Contents, NEW ids, NEW reply \in Replies(ids), NEW read,
         Accepted(reply, Requested(content)) => read \in Facts
  PROVE  LET completed == CompletedResult(reply, Requested(content), read)
         IN  /\ completed \in Results
             /\ completed.status = "ready" =>
                  completed.items \subseteq Requested(content) /\ completed.facts = read
<1> DEFINE completed == CompletedResult(reply, Requested(content), read)
<1>1. CASE ~Accepted(reply, Requested(content))
  <2>1. completed = Failure("failed")
    BY <1>1 DEF CompletedResult
  <2> QED BY <2>1, FailureType DEF Statuses
<1>2. CASE Accepted(reply, Requested(content)) /\ reply.status # "ready"
  <2>1. completed = Failure(reply.status)
    BY <1>2 DEF CompletedResult
  <2>2. reply.status \in Statuses \ {"ready"}
    BY <1>2 DEF Replies
  <2> QED BY <2>1, <2>2, FailureType
<1>3. CASE Accepted(reply, Requested(content)) /\ reply.status = "ready"
  <2>1. completed = [status |-> "ready", items |-> ToSet(reply.items), facts |-> read]
    BY <1>3 DEF CompletedResult
  <2>2. ToSet(reply.items) \subseteq Requested(content)
    BY <1>3 DEF Accepted, ItemsMatch
  <2>3. ToSet(reply.items) \in SUBSET Nat
    BY <2>2, RequestedType
  <2> QED BY <1>3, <2>1, <2>2, <2>3 DEF Results
<1> QED BY <1>1, <1>2, <1>3

(* The initial states satisfy the invariant. *)
LEMMA InitEstablishes == Init => IInv
<1> SUFFICES ASSUME Init PROVE IInv
  OBVIOUS
<1>1. TypeOK
  BY DEF Init, TypeOK, Idle
<1>2. RowsAnswer /\ RequiredAnswered /\ WorkerContained
  BY DEF Init, RowsAnswer, RequiredAnswered, WorkerContained
<1>3. NothingUnsaved /\ WorkerRuns /\ HeldBelongs
  BY DEF Init, NothingUnsaved, WorkerRuns, HeldBelongs
<1> QED BY <1>1, <1>2, <1>3 DEF IInv

(* Edit keeps the invariant. *)
LEMMA EditKeeps ==
  ASSUME IInv, NEW content \in Contents, Edit(content)
  PROVE  IInv'
<1> USE DEF IInv
<1>1. WorkerRuns'
  BY DEF Edit, WorkerRuns, environment, process, stored
<1>2. TypeOK'
  BY DEF Edit, TypeOK, environment, process, stored, HeldBelongs, Statuses, Keys
<1>3. RowsAnswer'
  BY DEF Edit, RowsAnswer, environment, process, stored, HeldBelongs, NothingUnsaved, TypeOK
<1>4. RequiredAnswered'
  BY DEF Edit, RequiredAnswered, environment, process, stored, HeldBelongs, Statuses
<1>5. WorkerContained'
  BY DEF Edit, WorkerContained, environment, process, stored, TypeOK
<1>6. NothingUnsaved'
  BY DEF Edit, NothingUnsaved, environment, process, stored, TypeOK, Statuses
<1>7. HeldBelongs'
  BY DEF Edit, HeldBelongs, environment, process, stored, TypeOK, RowsAnswer, Statuses, Keys
<1> QED BY <1>1, <1>2, <1>3, <1>4, <1>5, <1>6, <1>7

(* Install keeps the invariant. *)
LEMMA InstallKeeps ==
  ASSUME IInv, NEW version \in Installed, Install(version)
  PROVE  IInv'
<1> USE DEF IInv
<1>1. WorkerRuns'
  BY DEF Install, WorkerRuns, environment, process, stored
<1>2. TypeOK'
  BY DEF Install, TypeOK, environment, process, stored, HeldBelongs, Statuses, Keys
<1>3. RowsAnswer'
  BY DEF Install, RowsAnswer, environment, process, stored, HeldBelongs, NothingUnsaved, TypeOK
<1>4. RequiredAnswered'
  BY DEF Install, RequiredAnswered, environment, process, stored, HeldBelongs, Statuses
<1>5. WorkerContained'
  BY DEF Install, WorkerContained, environment, process, stored, TypeOK
<1>6. NothingUnsaved'
  BY DEF Install, NothingUnsaved, environment, process, stored, TypeOK, Statuses
<1>7. HeldBelongs'
  BY DEF Install, HeldBelongs, environment, process, stored, TypeOK, RowsAnswer, Statuses, Keys
<1> QED BY <1>1, <1>2, <1>3, <1>4, <1>5, <1>6, <1>7

(* Start keeps the invariant. *)
LEMMA StartKeeps ==
  ASSUME IInv, NEW mode \in Modes, NEW cached \in BOOLEAN, NEW provider \in ProviderChoices(mode),
           Start(mode, provider, cached)
  PROVE  IInv'
<1> USE DEF IInv
<1>1. WorkerRuns'
  BY DEF Start, ProviderChoices, WorkerRuns, environment, process, stored
<1>2. TypeOK'
  BY DEF Start, ProviderChoices, TypeOK, environment, process, stored, HeldBelongs, Statuses, Keys
<1>3. RowsAnswer'
  BY DEF Start, ProviderChoices, RowsAnswer, environment, process, stored, HeldBelongs, NothingUnsaved, TypeOK
<1>4. RequiredAnswered'
  BY DEF Start, ProviderChoices, RequiredAnswered, environment, process, stored, HeldBelongs, Statuses
<1>5. WorkerContained'
  BY DEF Start, ProviderChoices, WorkerContained, environment, process, stored, TypeOK
<1>6. NothingUnsaved'
  BY DEF Start, ProviderChoices, NothingUnsaved, environment, process, stored, TypeOK, Statuses
<1>7. HeldBelongs'
  BY DEF Start, ProviderChoices, HeldBelongs, environment, process, stored, TypeOK, RowsAnswer, Statuses, Keys
<1> QED BY <1>1, <1>2, <1>3, <1>4, <1>5, <1>6, <1>7

(* NothingToAsk keeps the invariant. *)
LEMMA NothingToAskKeeps ==
  ASSUME IInv, NothingToAsk
  PROVE  IInv'
<1> USE DEF IInv
<1>1. WorkerRuns'
  BY DEF NothingToAsk, WorkerRuns, environment, process, stored
<1>2. TypeOK'
  BY FailureType DEF NothingToAsk, TypeOK, environment, process, stored, HeldBelongs, Statuses, Keys
<1>3. RowsAnswer'
  BY DEF NothingToAsk, RowsAnswer, environment, process, stored, HeldBelongs, NothingUnsaved, TypeOK
<1>4. RequiredAnswered'
  BY FailureType DEF NothingToAsk, RequiredAnswered, environment, process, stored, HeldBelongs, Statuses
<1>5. WorkerContained'
  BY DEF NothingToAsk, WorkerContained, environment, process, stored, TypeOK
<1>6. NothingUnsaved'
  BY FailureType DEF NothingToAsk, NothingUnsaved, environment, process, stored, TypeOK, Statuses
<1>7. HeldBelongs'
  BY FailureType DEF NothingToAsk, HeldBelongs, environment, process, stored, TypeOK, RowsAnswer, Statuses, Keys
<1> QED BY <1>1, <1>2, <1>3, <1>4, <1>5, <1>6, <1>7

(* NoProvider keeps the invariant. *)
LEMMA NoProviderKeeps ==
  ASSUME IInv, NoProvider
  PROVE  IInv'
<1> USE DEF IInv
<1>1. WorkerRuns'
  BY DEF NoProvider, HasRequest, WorkerRuns, environment, process, stored
<1>2. TypeOK'
  BY FailureType DEF NoProvider, HasRequest, TypeOK, environment, process, stored, HeldBelongs, Statuses, Keys
<1>3. RowsAnswer'
  BY DEF NoProvider, HasRequest, RowsAnswer, environment, process, stored, HeldBelongs, NothingUnsaved, TypeOK
<1>4. RequiredAnswered'
  BY FailureType DEF NoProvider, HasRequest, RequiredAnswered, environment, process, stored, HeldBelongs, Statuses
<1>5. WorkerContained'
  BY DEF NoProvider, HasRequest, WorkerContained, environment, process, stored, TypeOK
<1>6. NothingUnsaved'
  BY FailureType DEF NoProvider, HasRequest, NothingUnsaved, environment, process, stored, TypeOK, Statuses
<1>7. HeldBelongs'
  BY FailureType DEF NoProvider, HasRequest, HeldBelongs, environment, process, stored, TypeOK, RowsAnswer, Statuses, Keys
<1> QED BY <1>1, <1>2, <1>3, <1>4, <1>5, <1>6, <1>7

(* Ask keeps the invariant. *)
LEMMA AskKeeps ==
  ASSUME IInv, Ask
  PROVE  IInv'
<1> USE DEF IInv
<1>1. WorkerRuns'
  BY DEF Ask, HasRequest, WorkerRuns, environment, process, stored
<1>2. TypeOK'
  BY DEF Ask, HasRequest, TypeOK, environment, process, stored, HeldBelongs, Statuses, Keys
<1>3. RowsAnswer'
  BY DEF Ask, HasRequest, RowsAnswer, environment, process, stored, HeldBelongs, NothingUnsaved, TypeOK
<1>4. RequiredAnswered'
  BY DEF Ask, HasRequest, RequiredAnswered, environment, process, stored, HeldBelongs, Statuses
<1>5. WorkerContained'
  BY DEF Ask, HasRequest, WorkerContained, environment, process, stored, TypeOK
<1>6. NothingUnsaved'
  BY DEF Ask, HasRequest, NothingUnsaved, environment, process, stored, TypeOK, Statuses
<1>7. HeldBelongs'
  BY DEF Ask, HasRequest, HeldBelongs, environment, process, stored, TypeOK, RowsAnswer, Statuses, Keys
<1> QED BY <1>1, <1>2, <1>3, <1>4, <1>5, <1>6, <1>7

(* Lookup keeps the invariant. *)
LEMMA LookupKeeps ==
  ASSUME IInv, Lookup
  PROVE  IInv'
<1> USE DEF IInv
<1>1. WorkerRuns'
  BY DEF Lookup, CacheKey, WorkerRuns, environment, process, stored
<1>2. TypeOK'
  BY DEF Lookup, CacheKey, TypeOK, environment, process, stored, HeldBelongs, Statuses, Keys
<1>3. RowsAnswer'
  BY DEF Lookup, CacheKey, RowsAnswer, environment, process, stored, HeldBelongs, NothingUnsaved, TypeOK
<1>4. RequiredAnswered'
  BY DEF Lookup, CacheKey, RequiredAnswered, environment, process, stored, HeldBelongs, Statuses
<1>5. WorkerContained'
  BY DEF Lookup, CacheKey, WorkerContained, environment, process, stored, TypeOK
<1>6. NothingUnsaved'
  BY DEF Lookup, CacheKey, NothingUnsaved, environment, process, stored, TypeOK, Statuses, RowsAnswer
<1>7. HeldBelongs'
  BY DEF Lookup, CacheKey, HeldBelongs, environment, process, stored, TypeOK, RowsAnswer, Statuses, Keys
<1> QED BY <1>1, <1>2, <1>3, <1>4, <1>5, <1>6, <1>7

(* Launch keeps the invariant. *)
LEMMA LaunchKeeps ==
  ASSUME IInv, Launch
  PROVE  IInv'
<1> USE DEF IInv
<1>1. WorkerRuns'
  BY DEF Launch, WorkerRuns, environment, process, stored
<1>2. TypeOK'
  BY FailureType DEF Launch, TypeOK, environment, process, stored, HeldBelongs, Statuses, Keys
<1>3. RowsAnswer'
  BY DEF Launch, RowsAnswer, environment, process, stored, HeldBelongs, NothingUnsaved, TypeOK
<1>4. RequiredAnswered'
  BY FailureType DEF Launch, RequiredAnswered, environment, process, stored, HeldBelongs, Statuses
<1>5. WorkerContained'
  BY DEF Launch, WorkerContained, environment, process, stored, TypeOK
<1>6. NothingUnsaved'
  BY FailureType DEF Launch, NothingUnsaved, environment, process, stored, TypeOK, Statuses
<1>7. HeldBelongs'
  BY FailureType DEF Launch, HeldBelongs, environment, process, stored, TypeOK, RowsAnswer, Statuses, Keys
<1> QED BY <1>1, <1>2, <1>3, <1>4, <1>5, <1>6, <1>7

(* Examine keeps the invariant. *)
LEMMA ExamineKeeps ==
  ASSUME IInv, Examine
  PROVE  IInv'
<1> USE DEF IInv
<1>1. WorkerRuns'
  BY DEF Examine, Typechecks, Facts, WorkerRuns, environment, process, stored
<1>2. TypeOK'
  BY DEF Examine, Typechecks, Facts, TypeOK, environment, process, stored, HeldBelongs, Statuses, Keys
<1>3. RowsAnswer'
  BY DEF Examine, Typechecks, Facts, RowsAnswer, environment, process, stored, HeldBelongs, NothingUnsaved, TypeOK
<1>4. RequiredAnswered'
  BY DEF Examine, Typechecks, Facts, RequiredAnswered, environment, process, stored, HeldBelongs, Statuses
<1>5. WorkerContained'
  BY DEF Examine, Typechecks, Facts, WorkerContained, environment, process, stored, TypeOK
<1>6. NothingUnsaved'
  BY DEF Examine, Typechecks, Facts, NothingUnsaved, environment, process, stored, TypeOK, Statuses
<1>7. HeldBelongs'
  BY DEF Examine, Typechecks, Facts, HeldBelongs, environment, process, stored, TypeOK, RowsAnswer, Statuses, Keys
<1> QED BY <1>1, <1>2, <1>3, <1>4, <1>5, <1>6, <1>7

(* Collect keeps the invariant. *)
LEMMA CollectKeeps ==
  ASSUME IInv, NEW reply \in Replies((UNION {Candidates[c] : c \in Contents}) \cup Foreign), Collect(reply)
  PROVE  IInv'
<1> USE DEF IInv
<1>0. /\ scanned \in Contents /\ result' \in Results
      /\ result'.status = "ready" => result'.items \subseteq Requested(scanned)
  <2>1. scanned \in Contents
    BY DEF Collect, HeldBelongs
  <2>2. Accepted(reply, Requested(scanned)) => facts \in Facts
    <3> SUFFICES ASSUME Accepted(reply, Requested(scanned)) PROVE facts \in Facts
      OBVIOUS
    <3>1. worker # "started"
      BY DEF Collect, Accepted
    <3>2. worker # "off"
      BY DEF Collect, WorkerRuns
    <3> QED BY <3>1, <3>2 DEF TypeOK, HeldBelongs
  <2> QED BY <2>1, <2>2, CompletedType DEF Collect
<1>1. WorkerRuns'
  BY <1>0 DEF Collect, WorkerRuns, environment, process, stored
<1>2. TypeOK'
  BY <1>0 DEF Collect, TypeOK, environment, process, stored, HeldBelongs, Statuses, Keys
<1>3. RowsAnswer'
  BY <1>0 DEF Collect, RowsAnswer, environment, process, stored, HeldBelongs, NothingUnsaved, TypeOK
<1>4. RequiredAnswered'
  BY <1>0 DEF Collect, RequiredAnswered, environment, process, stored, HeldBelongs, Statuses
<1>5. WorkerContained'
  BY <1>0 DEF Collect, WorkerContained, environment, process, stored, TypeOK
<1>6. NothingUnsaved'
  BY <1>0 DEF Collect, NothingUnsaved, environment, process, stored, TypeOK, Statuses
<1>7. HeldBelongs'
  BY <1>0 DEF Collect, HeldBelongs, environment, process, stored, TypeOK, RowsAnswer, Statuses, Keys
<1> QED BY <1>1, <1>2, <1>3, <1>4, <1>5, <1>6, <1>7

(* Expire keeps the invariant. *)
LEMMA ExpireKeeps ==
  ASSUME IInv, Expire
  PROVE  IInv'
<1> USE DEF IInv
<1>1. WorkerRuns'
  BY DEF Expire, WorkerRuns, environment, process, stored
<1>2. TypeOK'
  BY FailureType DEF Expire, TypeOK, environment, process, stored, HeldBelongs, Statuses, Keys
<1>3. RowsAnswer'
  BY DEF Expire, RowsAnswer, environment, process, stored, HeldBelongs, NothingUnsaved, TypeOK
<1>4. RequiredAnswered'
  BY FailureType DEF Expire, RequiredAnswered, environment, process, stored, HeldBelongs, Statuses
<1>5. WorkerContained'
  BY DEF Expire, WorkerContained, environment, process, stored, TypeOK
<1>6. NothingUnsaved'
  BY FailureType DEF Expire, NothingUnsaved, environment, process, stored, TypeOK, Statuses
<1>7. HeldBelongs'
  BY FailureType DEF Expire, HeldBelongs, environment, process, stored, TypeOK, RowsAnswer, Statuses, Keys
<1> QED BY <1>1, <1>2, <1>3, <1>4, <1>5, <1>6, <1>7

(* Store keeps the invariant. *)
LEMMA StoreKeeps ==
  ASSUME IInv, Store
  PROVE  IInv'
<1> USE DEF IInv
<1>1. WorkerRuns'
  BY DEF Store, CacheKey, WorkerRuns, environment, process, stored
<1>2. TypeOK'
  BY DEF Store, CacheKey, TypeOK, environment, process, stored, HeldBelongs, Statuses, Keys
<1>3. RowsAnswer'
  BY DEF Store, CacheKey, RowsAnswer, environment, process, stored, HeldBelongs, NothingUnsaved, TypeOK
<1>4. RequiredAnswered'
  BY DEF Store, CacheKey, RequiredAnswered, environment, process, stored, HeldBelongs, Statuses
<1>5. WorkerContained'
  BY DEF Store, CacheKey, WorkerContained, environment, process, stored, TypeOK
<1>6. NothingUnsaved'
  BY DEF Store, CacheKey, NothingUnsaved, environment, process, stored, TypeOK, Statuses
<1>7. HeldBelongs'
  BY DEF Store, CacheKey, HeldBelongs, environment, process, stored, TypeOK, RowsAnswer, Statuses, Keys
<1> QED BY <1>1, <1>2, <1>3, <1>4, <1>5, <1>6, <1>7

(* Settle keeps the invariant. *)
LEMMA SettleKeeps ==
  ASSUME IInv, Settle
  PROVE  IInv'
<1> USE DEF IInv
<1>1. WorkerRuns'
  BY DEF Settle, WorkerRuns, environment, process, stored
<1>2. TypeOK'
  BY DEF Settle, TypeOK, environment, process, stored, HeldBelongs, Statuses, Keys
<1>3. RowsAnswer'
  BY DEF Settle, RowsAnswer, environment, process, stored, HeldBelongs, NothingUnsaved, TypeOK
<1>4. RequiredAnswered'
  BY DEF Settle, RequiredAnswered, environment, process, stored, HeldBelongs, Statuses
<1>5. WorkerContained'
  BY DEF Settle, WorkerContained, environment, process, stored, TypeOK
<1>6. NothingUnsaved'
  BY DEF Settle, NothingUnsaved, environment, process, stored, TypeOK, Statuses
<1>7. HeldBelongs'
  BY DEF Settle, HeldBelongs, environment, process, stored, TypeOK, RowsAnswer, Statuses, Keys
<1> QED BY <1>1, <1>2, <1>3, <1>4, <1>5, <1>6, <1>7

(* Close keeps the invariant. *)
LEMMA CloseKeeps ==
  ASSUME IInv, Close
  PROVE  IInv'
<1> USE DEF IInv
<1>1. WorkerRuns'
  BY DEF Close, End, Idle, WorkerRuns, environment, process, stored
<1>2. TypeOK'
  BY DEF Close, End, Idle, TypeOK, environment, process, stored, HeldBelongs, Statuses, Keys
<1>3. RowsAnswer'
  BY DEF Close, End, Idle, RowsAnswer, environment, process, stored, HeldBelongs, NothingUnsaved, TypeOK
<1>4. RequiredAnswered'
  BY DEF Close, End, Idle, RequiredAnswered, environment, process, stored, HeldBelongs, Statuses
<1>5. WorkerContained'
  BY DEF Close, End, Idle, WorkerContained, environment, process, stored, TypeOK
<1>6. NothingUnsaved'
  BY DEF Close, End, Idle, NothingUnsaved, environment, process, stored, TypeOK, Statuses
<1>7. HeldBelongs'
  BY DEF Close, End, Idle, HeldBelongs, environment, process, stored, TypeOK, RowsAnswer, Statuses, Keys
<1> QED BY <1>1, <1>2, <1>3, <1>4, <1>5, <1>6, <1>7

(* Interrupt keeps the invariant. *)
LEMMA InterruptKeeps ==
  ASSUME IInv, Interrupt
  PROVE  IInv'
<1> USE DEF IInv
<1>1. WorkerRuns'
  BY DEF Interrupt, End, Idle, WorkerRuns, environment, process, stored
<1>2. TypeOK'
  BY DEF Interrupt, End, Idle, TypeOK, environment, process, stored, HeldBelongs, Statuses, Keys
<1>3. RowsAnswer'
  BY DEF Interrupt, End, Idle, RowsAnswer, environment, process, stored, HeldBelongs, NothingUnsaved, TypeOK
<1>4. RequiredAnswered'
  BY DEF Interrupt, End, Idle, RequiredAnswered, environment, process, stored, HeldBelongs, Statuses
<1>5. WorkerContained'
  BY DEF Interrupt, End, Idle, WorkerContained, environment, process, stored, TypeOK
<1>6. NothingUnsaved'
  BY DEF Interrupt, End, Idle, NothingUnsaved, environment, process, stored, TypeOK, Statuses
<1>7. HeldBelongs'
  BY DEF Interrupt, End, Idle, HeldBelongs, environment, process, stored, TypeOK, RowsAnswer, Statuses, Keys
<1> QED BY <1>1, <1>2, <1>3, <1>4, <1>5, <1>6, <1>7

(* Crash keeps the invariant. *)
LEMMA CrashKeeps ==
  ASSUME IInv, Crash
  PROVE  IInv'
<1> USE DEF IInv
<1>1. WorkerRuns'
  BY DEF Crash, End, Idle, WorkerRuns, environment, process, stored
<1>2. TypeOK'
  BY DEF Crash, End, Idle, TypeOK, environment, process, stored, HeldBelongs, Statuses, Keys
<1>3. RowsAnswer'
  BY DEF Crash, End, Idle, RowsAnswer, environment, process, stored, HeldBelongs, NothingUnsaved, TypeOK
<1>4. RequiredAnswered'
  BY DEF Crash, End, Idle, RequiredAnswered, environment, process, stored, HeldBelongs, Statuses
<1>5. WorkerContained'
  BY DEF Crash, End, Idle, WorkerContained, environment, process, stored, TypeOK
<1>6. NothingUnsaved'
  BY DEF Crash, End, Idle, NothingUnsaved, environment, process, stored, TypeOK, Statuses
<1>7. HeldBelongs'
  BY DEF Crash, End, Idle, HeldBelongs, environment, process, stored, TypeOK, RowsAnswer, Statuses, Keys
<1> QED BY <1>1, <1>2, <1>3, <1>4, <1>5, <1>6, <1>7

(* Every step keeps the invariant. *)
LEMMA StepKeeps == IInv /\ [Next]_vars => IInv'
<1> SUFFICES ASSUME IInv, [Next]_vars PROVE IInv'
  OBVIOUS
<1>1. CASE UNCHANGED vars
  <2>1. TypeOK' /\ RowsAnswer'
    BY <1>1 DEF IInv, TypeOK, RowsAnswer, vars, environment, process, stored
  <2>2. RequiredAnswered' /\ WorkerContained'
    BY <1>1 DEF IInv, RequiredAnswered, WorkerContained, vars, environment, process, stored
  <2>3. NothingUnsaved' /\ WorkerRuns' /\ HeldBelongs'
    BY <1>1 DEF IInv, NothingUnsaved, WorkerRuns, HeldBelongs, vars, environment, process,
                stored
  <2> QED BY <2>1, <2>2, <2>3 DEF IInv
<1>2. CASE Pipeline
  BY <1>2, NothingToAskKeeps, NoProviderKeeps, AskKeeps, LookupKeeps, LaunchKeeps,
     ExpireKeeps, StoreKeeps, SettleKeeps, CloseKeeps DEF Pipeline
<1>3. CASE Next /\ ~Pipeline
  BY <1>3, EditKeeps, InstallKeeps, StartKeeps, ExamineKeeps, CollectKeeps,
     InterruptKeeps, CrashKeeps DEF Next
<1> QED BY <1>1, <1>2, <1>3

(* Types, the rows, the required mode and the worker process: whatever the  *)
(* worker writes and whenever a run is stopped.                             *)
THEOREM Inductive == Spec => []IInv
<1> QED BY InitEstablishes, StepKeeps, PTL DEF Spec

(* Every variable keeps its type, and every row is a result of its key. *)
THEOREM TypeCorrect == Spec => []TypeOK
<1>1. IInv => TypeOK
  BY DEF IInv
<1> QED BY <1>1, Inductive, PTL

(* No later run reads from a kept row more than it would have asked for. *)
THEOREM RowsAnswerRequests == Spec => []RowsAnswer
<1>1. IInv => RowsAnswer
  BY DEF IInv
<1> QED BY <1>1, Inductive, PTL

(* A required run that reports has its answer. *)
THEOREM RequiredRunsAnswered == Spec => []RequiredAnswered
<1>1. IInv => RequiredAnswered
  BY DEF IInv
<1> QED BY <1>1, Inductive, PTL

(* No worker process outlives its request. *)
THEOREM WorkersContained == Spec => []WorkerContained
<1>1. IInv => WorkerContained
  BY DEF IInv
<1> QED BY <1>1, Inductive, PTL

(* A failed or timed-out request leaves the committed rows as they were. *)
THEOREM FailuresLeaveNoTrace == Spec => FailureLeavesNoTrace
<1>1. IInv /\ [Next]_vars => [result # None /\ result.status # "ready" => db' = db]_vars
  <2> SUFFICES ASSUME IInv, [Next]_vars, result # None, result.status # "ready"
               PROVE  db' = db
    OBVIOUS
  <2>1. cache = db
    BY DEF IInv, NothingUnsaved
  <2>2. CASE Close \/ Interrupt \/ Crash
    BY <2>1, <2>2 DEF Close, Interrupt, Crash
  <2>3. CASE ~(Close \/ Interrupt \/ Crash)
    BY <2>3 DEF Next, Pipeline, Edit, Install, Start, NothingToAsk, NoProvider, Ask, Lookup,
                Launch, Examine, Collect, Expire, Store, Settle, vars, stored
  <2> QED BY <2>2, <2>3
<1> QED BY <1>1, Inductive, PTL DEF Spec, FailureLeavesNoTrace

-----------------------------------------------------------------------------
(* Facts of this run, in an environment that is quiet. *)

(* What a worker would read for a key now. *)
Expected(key) ==
  [src |-> key[2], compiler |-> compiler, typechecked |-> Typechecks(key[1], compiler)]

(* Rows, worker and result have the facts of their own key; the disk is as *)
(* it was scanned.                                                         *)
Quiet ==
  /\ \A rows \in {cache, db} : \A key \in DOMAIN rows : rows[key].facts = Expected(key)
  /\ step # "idle" => scanned = disk
  /\ worker = "examined" => facts = Expected(<<run.mode, scanned>>)
  /\ step \in {"answered", "settled", "reporting"} /\ result.status = "ready" =>
       result.facts = Expected(<<run.mode, scanned>>)

(* Every step keeps it, if nobody edits during runs or exchanges compilers. *)
LEMMA QuietKeeps ==
  ASSUME ~LiveEdits, ~Reinstalls, IInv, Quiet, Next
  PROVE  Quiet'
<1>1. ASSUME NEW content \in Contents, Edit(content)
      PROVE  Quiet'
  BY <1>1 DEF Edit, Quiet, Expected, IInv, HeldBelongs, WorkerContained, environment, process, stored
<1>2. ASSUME NEW version \in Installed, Install(version)
      PROVE  Quiet'
  BY <1>2 DEF Install, Quiet, Expected, IInv, HeldBelongs, WorkerContained, environment, process, stored
<1>3. ASSUME NEW mode \in Modes, NEW cached \in BOOLEAN, NEW provider \in ProviderChoices(mode),
           Start(mode, provider, cached)
      PROVE  Quiet'
  BY <1>3 DEF Start, ProviderChoices, Quiet, Expected, IInv, HeldBelongs, WorkerContained, environment, process, stored
<1>4. CASE NothingToAsk
  BY <1>4, FailureType DEF NothingToAsk, Quiet, Expected, IInv, HeldBelongs, WorkerContained, Statuses, environment, process, stored
<1>5. CASE NoProvider
  BY <1>5, FailureType DEF NoProvider, HasRequest, Quiet, Expected, IInv, HeldBelongs, WorkerContained, Statuses, environment, process, stored
<1>6. CASE Ask
  BY <1>6 DEF Ask, HasRequest, Quiet, Expected, IInv, HeldBelongs, WorkerContained, environment, process, stored
<1>7. CASE Lookup
  BY <1>7 DEF Lookup, CacheKey, Quiet, Expected, IInv, HeldBelongs, WorkerContained, environment, process, stored
<1>8. CASE Launch
  BY <1>8, FailureType DEF Launch, Quiet, Expected, IInv, HeldBelongs, WorkerContained, Statuses, environment, process, stored
<1>9. CASE Examine
  BY <1>9 DEF Examine, Typechecks, Facts, Quiet, Expected, IInv, HeldBelongs, WorkerContained, environment, process, stored
<1>10. ASSUME NEW reply \in Replies((UNION {Candidates[c] : c \in Contents}) \cup Foreign),
             Collect(reply)
      PROVE  Quiet'
  <2>1. CASE worker = "started"
    <3>1. ~Accepted(reply, Requested(scanned))
      BY <1>10, <2>1 DEF Collect, Accepted
    <3>2. result' = Failure("failed")
      BY <1>10, <3>1 DEF Collect, CompletedResult
    <3> QED BY <1>10, <3>2, FailureType
            DEF Collect, Quiet, Expected, Statuses, environment, stored
  <2>2. CASE worker # "started"
    <3>1. worker = "examined" /\ scanned \in Contents
      BY <1>10, <2>2 DEF Collect, IInv, TypeOK, WorkerRuns, HeldBelongs
    <3>2. facts \in Facts
      BY <3>1 DEF IInv, HeldBelongs
    <3>3. result'.status = "ready" => result'.facts = facts
      BY <1>10, <3>1, <3>2, CompletedType DEF Collect
    <3> QED BY <1>10, <3>1, <3>3 DEF Collect, Quiet, Expected, environment, stored
  <2> QED BY <2>1, <2>2
<1>11. CASE Expire
  BY <1>11, FailureType DEF Expire, Quiet, Expected, IInv, HeldBelongs, WorkerContained, Statuses, environment, process, stored
<1>12. CASE Store
  BY <1>12 DEF Store, CacheKey, Quiet, Expected, IInv, HeldBelongs, WorkerContained, environment, process, stored
<1>13. CASE Settle
  BY <1>13 DEF Settle, Quiet, Expected, IInv, HeldBelongs, WorkerContained, environment, process, stored
<1>14. CASE Close
  BY <1>14 DEF Close, End, Idle, Quiet, Expected, IInv, HeldBelongs, WorkerContained, environment, process, stored
<1>15. CASE Interrupt
  BY <1>15 DEF Interrupt, End, Idle, Quiet, Expected, IInv, HeldBelongs, WorkerContained, environment, process, stored
<1>16. CASE Crash
  BY <1>16 DEF Crash, End, Idle, Quiet, Expected, IInv, HeldBelongs, WorkerContained, environment, process, stored
<1> QED
  BY <1>1, <1>2, <1>3, <1>4, <1>5, <1>6, <1>7, <1>8, <1>9, <1>10, <1>11, <1>12, <1>13, <1>14, <1>15, <1>16 DEF Next, Pipeline

(* Without edits during runs and exchanged compilers, the facts a run       *)
(* reports are those of its own scan, mode and compiler, cached or not.     *)
THEOREM FactsExact ==
  ASSUME ~LiveEdits, ~Reinstalls
  PROVE  Spec => []FactsOfThisRun
<1>1. Init => Quiet
  BY DEF Init, Quiet
<1>2. IInv /\ Quiet /\ [Next]_vars => Quiet'
  <2>1. IInv /\ Quiet /\ Next => Quiet'
    BY QuietKeeps
  <2>2. Quiet /\ UNCHANGED vars => Quiet'
    BY DEF Quiet, Expected, vars, environment, process, stored
  <2> QED BY <2>1, <2>2
<1>3. IInv /\ Quiet => FactsOfThisRun
  BY DEF Quiet, FactsOfThisRun, Expected
<1> QED BY <1>1, <1>2, <1>3, Inductive, PTL DEF Spec
=============================================================================
