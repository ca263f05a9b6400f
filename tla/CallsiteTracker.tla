--------------------------- MODULE CallsiteTracker ---------------------------
(***************************************************************************)
(* Evidence of how a file uses its own callable factories (functions that  *)
(* return functions): which results are kept under a name and called, and  *)
(* which are called at once, cached, piped or registered.                  *)
(*                                                                         *)
(* Source: analysis/relations/callables.py, class CallsiteTracker. A       *)
(* tracker is a record: scopes, the stack of scopes, each a function from  *)
(* names to None or to an index of stored; stored, the results kept under  *)
(* a name with the calls counted; patterns, the evidence. Lines are left   *)
(* out: one kind of evidence about one factory counts once.                *)
(***************************************************************************)
EXTENDS Integers, Sequences

CONSTANTS
  Names,          \* the dotted names of the file (`handler', `self.handler')
  LastName,       \* [Names -> Names]: what follows the last dot
  Unresolved,     \* the names that begin with UNRESOLVED_RECEIVER
  Factories,      \* the factories of the file
  CacheNames,     \* names that is_cache_name accepts
  CacheMethods,   \* names whose receiver is_cache_name accepts
  PipelineNames,  \* names that end in a PIPELINE_CALL_NAMES
  RegisterNames,  \* names whose last part has a REGISTER_CALL_TOKENS
  NoName          \* no name, or no factory

ASSUME TrackerAssumption ==
  /\ LastName \in [Names -> Names]
  /\ Factories \subseteq Names
  /\ NoName \notin Names

None == 0  \* the name is bound, and not to the result of a factory

NewTracker == [scopes |-> <<[n \in {} |-> None]>>, stored |-> <<>>, patterns |-> {}]

Pattern(kind, symbol, variable) == [kind |-> kind, symbol |-> symbol, variable |-> variable]

-----------------------------------------------------------------------------
(* What a name holds.                                                       *)

ScopesWith(scopes, name) == {i \in DOMAIN scopes : name \in DOMAIN scopes[i]}

(* Mutant: the outermost scope that has the name is asked.                   *)
FirstScopeOf(scopes, name) ==
  CHOOSE i \in ScopesWith(scopes, name) : \A j \in ScopesWith(scopes, name) : i <= j

ScopeOf(scopes, name) ==
  CHOOSE i \in ScopesWith(scopes, name) : \A j \in ScopesWith(scopes, name) : j <= i

IsBound(scopes, name) == ScopesWith(scopes, name) # {}
Held(scopes, name) == scopes[ScopeOf(scopes, name)][name]
HoldsResult(scopes, name) == IsBound(scopes, name) /\ Held(scopes, name) # None

(* Mutant: a local name does not hide a factory.                             *)
FactoryByName(scopes, callee) ==
  IF callee = NoName THEN NoName
  ELSE IF LastName[callee] \in Factories THEN LastName[callee] ELSE NoName

(* The factory that a call to a name invokes.                                *)
Factory(scopes, callee) ==
  IF \/ callee = NoName
     \/ LastName[callee] \notin Factories
     \/ callee = LastName[callee] /\ IsBound(scopes, callee) /\ ~HoldsResult(scopes, callee)
  THEN NoName ELSE LastName[callee]

-----------------------------------------------------------------------------
(* Scopes and bindings.                                                     *)

Enter(t, params) == [t EXCEPT !.scopes = Append(t.scopes, [p \in params |-> None])]
Exit(t) == [t EXCEPT !.scopes = SubSeq(t.scopes, 1, Len(t.scopes) - 1)]

Rebound(scope, name, held) ==
  [n \in (DOMAIN scope) \cup {name} |-> IF n = name THEN held ELSE scope[n]]

InInnermost(scopes, name, held) ==
  [scopes EXCEPT ![Len(scopes)] = Rebound(scopes[Len(scopes)], name, held)]

(* Mutant: only results are bound; another value leaves the name as it is.   *)
BindResults(t, target, symbol) ==
  IF target = NoName \/ target \in Unresolved \/ symbol = NoName THEN t
  ELSE [t EXCEPT !.scopes = InInnermost(t.scopes, target, Len(t.stored) + 1),
                 !.stored = Append(t.stored, [target |-> target, symbol |-> symbol, calls |-> 0])]

Bind(t, target, symbol) ==
  IF target = NoName \/ target \in Unresolved THEN t
  ELSE IF symbol = NoName
  THEN [t EXCEPT !.scopes = InInnermost(t.scopes, target, None)]
  ELSE [t EXCEPT !.scopes = InInnermost(t.scopes, target, Len(t.stored) + 1),
                 !.stored = Append(t.stored, [target |-> target, symbol |-> symbol, calls |-> 0])]

(* A definition of a function or a class; that of a factory hides nothing.   *)
Define(t, name) == IF name \in Factories THEN t ELSE Bind(t, name, NoName)

-----------------------------------------------------------------------------
(* Calls and evidence.                                                      *)

CountCall(t, callee) ==
  IF callee # NoName /\ HoldsResult(t.scopes, callee)
  THEN [t EXCEPT !.stored[Held(t.scopes, callee)].calls = @ + 1] ELSE t

Add(t, kind, symbol) ==
  [t EXCEPT !.patterns = t.patterns \cup {Pattern(kind, symbol, NoName)}]

ArgumentKind(callee) ==
  CASE callee \in CacheMethods  -> "callsite_cached"
    [] callee \notin CacheMethods /\ callee \in PipelineNames -> "callsite_pipeline"
    [] callee \notin CacheMethods \cup PipelineNames /\ callee \in RegisterNames ->
         "callsite_registered"
    [] OTHER -> "none"

\* The evidence of the arguments of one call, by the names the arguments call.
Arguments(scopes, callee, called) ==
  IF ArgumentKind(callee) = "none" THEN {}
  ELSE {Pattern(ArgumentKind(callee), Factory(scopes, c), NoName) :
          c \in {d \in called : Factory(scopes, d) # NoName}}

(* The patterns of the file: a result called more than once was kept for it. *)
Patterns(t) ==
  t.patterns \cup {Pattern("callsite_stored_reuse", t.stored[i].symbol, t.stored[i].target) :
                     i \in {j \in DOMAIN t.stored : t.stored[j].calls > 1}}
=============================================================================
