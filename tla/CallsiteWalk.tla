---------------------------- MODULE CallsiteWalk ----------------------------
(***************************************************************************)
(* The walk over a file that tells the tracker what it sees, for Python    *)
(* and for ECMAScript, against what the names of the file hold as its      *)
(* statements are evaluated.                                               *)
(*                                                                         *)
(* Source: adapters/languages/python/callsites.py and                      *)
(* adapters/languages/ecmascript/callsites.py. The file is written while   *)
(* it is walked: an Open step is a body whose next statement is not chosen *)
(* yet. A step that tells the tracker nothing (a name that is read, a      *)
(* literal) is left out.                                                   *)
(***************************************************************************)
EXTENDS CallsiteTracker, SequencesExt

CONSTANTS
  Languages,      \* {"python", "ecmascript"}
  Calls,          \* the call expressions there may be, those inside others included
  Statements,     \* the statements there may be
  MaxStatements,  \* bound: statements of a file
  MaxDepth        \* bound: functions and classes around a statement

(* What an adapter hands over: names of the file, calls made of calls, and   *)
(* assignments to at least one target.                                       *)
Places == [type : {"ref", "subscript"}, name : Names, made : {<<>>}]
Expressions == Calls \cup Places

ASSUME CallsAssumption ==
  \A call \in Calls :
    /\ call.type = "call" /\ call.inner \in Seq(Calls)
    /\ {call.callee, call.immediate} \cup call.arguments \subseteq Names \cup {NoName}

ASSUME StatementsAssumption ==
  \A statement \in Statements :
    \/ statement \in Calls
    \/ /\ statement.type = "assign" /\ statement.value \in Expressions
       /\ statement.targets \in Seq(Places) /\ statement.targets # <<>>
    \/ /\ statement.type = "function" /\ statement.name \in Names \cup {NoName}
       /\ statement.params \subseteq Names /\ statement.defaults \in Seq(Expressions)
    \/ statement.type = "class" /\ statement.name \in Names

ASSUME LanguagesAssumption == Languages \subseteq {"python", "ecmascript"}

(* A node lists the calls in it: those in its parts, each once, and a call   *)
(* itself last (as Call, Assign, Function and Class below make them).        *)
CallsIn(parts) == UNION {{i} \X DOMAIN parts[i].made : i \in DOMAIN parts}

Lists(made, parts, n) ==
  \E place \in Bijection(CallsIn(parts), 1..n) :
    \A c \in CallsIn(parts) : made[place[c]] = parts[c[1]].made[c[2]]

MadeCalls ==
  [callee : Names \cup {NoName}, immediate : Names \cup {NoName},
   arguments : SUBSET (Names \cup {NoName})]

ASSUME MadeAssumption ==
  /\ \A call \in Calls :
       /\ call.made \in Seq(MadeCalls) /\ call.made # <<>>
       /\ Last(call.made) = [callee |-> call.callee, immediate |-> call.immediate,
                             arguments |-> call.arguments]
       /\ Lists(call.made, call.inner, Len(call.made) - 1)
  /\ \A statement \in Statements :
       /\ statement.type = "assign" => statement.made = statement.value.made
       /\ statement.type = "function" =>
            /\ statement.made \in Seq(MadeCalls)
            /\ Lists(statement.made, statement.defaults, Len(statement.made))
       /\ statement.type = "class" => statement.made = <<>>

VARIABLES
  language,  \* the language of the file
  work,      \* the stack of steps, its top first
  tracker,   \* the tracker
  done,      \* patterns() was called
  written,   \* statements so far
  envs,      \* history: what each name holds, statement by statement; a body has its own
  meant,     \* history: the kept results, their calls, and the calls in a blind place
  found,     \* history: the evidence there is
  certain,   \* history: the part of it that is not in a blind place
  mistaken   \* history: the evidence of names that are taken for a factory and hold
             \* another value

vars == <<language, work, tracker, done, written, envs, meant, found, certain, mistaken>>

-----------------------------------------------------------------------------
(* Nodes. made lists the calls in an expression: the name each calls, the    *)
(* name that the called expression calls itself, the names its arguments     *)
(* call.                                                                     *)

Ref(name) == [type |-> "ref", name |-> name, made |-> <<>>]
Subscript(owner) == [type |-> "subscript", name |-> owner, made |-> <<>>]

NameOf(node) == IF node.type = "ref" THEN node.name ELSE NoName
CalleeOf(node) == IF node.type = "call" THEN node.callee ELSE NoName

Call(func, args) ==
  [type |-> "call", callee |-> NameOf(func), immediate |-> CalleeOf(func),
   arguments |-> {CalleeOf(args[i]) : i \in DOMAIN args},
   inner |-> SelectSeq(<<func>> \o args, LAMBDA node : node.type = "call"),
   made |-> func.made \o FlattenSeq([i \in DOMAIN args |-> args[i].made])
              \o <<[callee |-> NameOf(func), immediate |-> CalleeOf(func),
                    arguments |-> {CalleeOf(args[i]) : i \in DOMAIN args}]>>]

Assign(targets, value) ==
  [type |-> "assign", targets |-> targets, value |-> value, made |-> value.made]

\* A function or, if it has no name, an arrow function; defaults: of its parameters.
Function(name, params, defaults) ==
  [type |-> "function", name |-> name, params |-> params, defaults |-> defaults,
   made |-> FlattenSeq([i \in DOMAIN defaults |-> defaults[i].made])]

Class(name) == [type |-> "class", name |-> name, made |-> <<>>]

-----------------------------------------------------------------------------
(* Steps of the stack.                                                      *)

Open           == [op |-> "open"]
EnterStep(p)   == [op |-> "enter", params |-> p]
ExitStep       == [op |-> "exit"]
Visit(node)    == [op |-> "visit", node |-> node]
Store(target)  == [op |-> "store", target |-> target]
BindStep(target, symbol) == [op |-> "bind", target |-> target, symbol |-> symbol]

VisitAll(nodes) == [i \in DOMAIN nodes |-> Visit(nodes[i])]
Visits(node) == IF node.type = "call" THEN <<Visit(node)>> ELSE <<>>

\* The target caches what is assigned to it: an attribute or a subscript.
IsCache(target) ==
  /\ target.name \in CacheNames
  /\ target.type = "subscript" \/ target.name # LastName[target.name]

(* What a node says itself.                                                  *)
RecordCall(t, node) ==
  LET immediate == Factory(t.scopes, node.immediate)
      at == IF immediate = NoName THEN t ELSE Add(t, "callsite_immediate", immediate)
      counted == CountCall(at, node.callee)
  IN  [counted EXCEPT !.patterns =
         counted.patterns \cup Arguments(t.scopes, node.callee, node.arguments)]

Record(t, node) ==
  CASE node.type = "call" -> RecordCall(t, node)
    [] node.type = "function" -> IF node.name = NoName THEN t ELSE Define(t, node.name)
    [] node.type = "class" -> Define(t, node.name)
    [] node.type = "assign" /\ language = "ecmascript" ->
         Bind(t, NameOf(node.targets[1]), NoName)
    [] OTHER -> t

(* The steps of a node's children. Those of an assignment begin with its     *)
(* targets, and whether its value is a factory's result is looked up before  *)
(* any of them is taken.                                                     *)
BindSteps(t, node) ==
  LET symbol == IF node.value.type = "call" THEN Factory(t.scopes, node.value.callee)
                ELSE NoName
  IN  IF symbol = NoName THEN <<>>
      ELSE [i \in DOMAIN node.targets |-> BindStep(node.targets[i], symbol)]

Stores(node) ==
  IF language = "python"
  THEN [i \in DOMAIN node.targets |-> Store(node.targets[i])] ELSE <<>>

Children(t, node) ==
  CASE node.type = "call" -> VisitAll(node.inner)
    [] node.type = "assign" -> Stores(node) \o Visits(node.value) \o BindSteps(t, node)
    [] node.type = "function" ->
         (IF language = "python" THEN VisitAll(node.defaults) ELSE <<>>)
           \o <<EnterStep(node.params), Open, ExitStep>>
    [] node.type = "class" -> <<EnterStep({}), Open, ExitStep>>
    [] OTHER -> <<>>

-----------------------------------------------------------------------------
(* Evaluation: the value of an assignment before its targets, the defaults   *)
(* of a function before its name, a body where it is defined.                *)

Unbound == -1

Env == envs[Len(envs)]

\* The names a call of which invokes a factory: nothing else was given to them.
Invoked == {name \in Names : LastName[name] \in Factories /\ Env[name] = Unbound}

\* The names of a factory that hold another value, a call of which the tracker
\* reports all the same: callables.py:108 looks at the value of a plain name
\* alone, and a result of a factory does not hide the factory there.
Mistaken ==
  {name \in Names :
     /\ LastName[name] \in Factories /\ Env[name] # Unbound
     /\ name = LastName[name] => Env[name] # None}

\* The names that get another value. A definition of a factory's own name is, as
\* in define (callables.py:121), not one: the name keeps the value it had.
TargetNames(statement) ==
  CASE statement.type = "assign" -> {NameOf(statement.targets[i]) : i \in DOMAIN statement.targets}
    [] statement.type \in {"function", "class"} -> {statement.name} \ Factories
    [] OTHER -> {}

\* A call in a blind place: the statement it is in gives its name another
\* value, which the walk sees first, or it is a default the walk does not visit.
Blind(statement, name) ==
  \/ name \in TargetNames(statement) \ {NoName}
  \/ language = "ecmascript" /\ statement.type = "function"

CallsOf(statement, index) ==
  {i \in DOMAIN statement.made :
     statement.made[i].callee # NoName /\ Env[statement.made[i].callee] = index}

BlindCallsOf(statement, index) ==
  {i \in CallsOf(statement, index) : Blind(statement, statement.made[i].callee)}

Evaluated(statement) ==
  [i \in DOMAIN meant |->
     [meant[i] EXCEPT !.calls = @ + Cardinality(CallsOf(statement, i)),
                      !.blind = @ + Cardinality(BlindCallsOf(statement, i))]]

\* The evidence of some names in the calls that are made, whether the walk sees
\* them or not.
EvidenceOf(made, names) ==
  {Pattern("callsite_immediate", LastName[name], NoName) : name \in {made.immediate} \cap names}
  \cup {Pattern(ArgumentKind(made.callee), LastName[name], NoName) :
          name \in {n \in made.arguments \cap names : ArgumentKind(made.callee) # "none"}}

Evidence(statement, names) ==
  UNION {EvidenceOf(statement.made[i], names) : i \in DOMAIN statement.made}

SeenEvidence(statement, names) ==
  UNION {EvidenceOf(statement.made[i], names) :
           i \in {j \in DOMAIN statement.made :
                    \A name \in {statement.made[j].immediate} \cup statement.made[j].arguments :
                      ~Blind(statement, name)}}

\* The value of an assignment is what a call of one of the names returns.
IsResultOf(statement, names) ==
  /\ statement.type = "assign" /\ statement.value.type = "call"
  /\ statement.value.callee \in names

CachedTargets(statement, names) ==
  {Pattern("callsite_cached", LastName[name], NoName) :
     name \in {n \in names :
                 /\ IsResultOf(statement, {n})
                 /\ \E i \in DOMAIN statement.targets : IsCache(statement.targets[i])}}

\* The factory whose result an assignment keeps, or is taken to keep.
ResultOf(statement) ==
  IF IsResultOf(statement, Invoked \cup Mistaken)
  THEN LastName[statement.value.callee] ELSE NoName

Bindable(target) == NameOf(target) \notin Unresolved \cup {NoName}

\* Each target that is a name gets a record of its own of the result, in order.
Keeping(statement) == {i \in DOMAIN statement.targets : Bindable(statement.targets[i])}
Rank(statement, i) == Cardinality({k \in Keeping(statement) : k <= i})

Results(statement) ==
  IF ResultOf(statement) = NoName THEN <<>>
  ELSE [r \in 1..Cardinality(Keeping(statement)) |->
          LET i == CHOOSE k \in Keeping(statement) : Rank(statement, k) = r
          IN  [target |-> statement.targets[i].name, symbol |-> ResultOf(statement),
               real |-> IsResultOf(statement, Invoked), calls |-> 0, blind |-> 0]]

IsLast(statement, name, i) ==
  /\ NameOf(statement.targets[i]) = name
  /\ \A j \in DOMAIN statement.targets : NameOf(statement.targets[j]) = name => j <= i

\* What the names hold after a statement: of a repeated target, the last record.
AfterStatement(statement) ==
  [name \in Names |->
     IF name \notin TargetNames(statement) \ Unresolved THEN Env[name]
     ELSE IF ResultOf(statement) = NoName THEN None
     ELSE Len(meant) + Rank(statement, CHOOSE i \in DOMAIN statement.targets : IsLast(statement, name, i))]

HasBody(statement) == statement.type \in {"function", "class"}

BodyEnv(statement) ==
  [name \in Names |->
     IF statement.type = "function" /\ name \in statement.params THEN None
     ELSE AfterStatement(statement)[name]]

\* ECMAScript assigns to one target; its classes open no scope; Python's lambda
\* has no statements. An ECMAScript factory whose result replaces its own name
\* is left out: the walk has cleared the name and keeps no record of it.
Expressible(statement) ==
  CASE language = "python" -> statement.type = "function" => statement.name # NoName
    [] language = "ecmascript" ->
         /\ statement.type # "class"
         /\ statement.type = "assign" =>
              /\ Len(statement.targets) = 1
              /\ CalleeOf(statement.value) \notin TargetNames(statement)
                   \/ CalleeOf(statement.value) = NoName

-----------------------------------------------------------------------------
Init ==
  /\ language \in Languages
  /\ work = <<Open>>
  /\ tracker = NewTracker
  /\ done = FALSE
  /\ written = 0
  /\ envs = <<[name \in Names |-> Unbound]>>
  /\ meant = <<>>
  /\ found = {}
  /\ certain = {}
  /\ mistaken = {}

Top == work[1]
TopIs(op) == work # <<>> /\ Top.op = op

\* The innermost body goes on with a statement, and ends.
Write(statement) ==
  /\ TopIs("open")
  /\ written < MaxStatements
  /\ Expressible(statement)
  /\ HasBody(statement) => Len(envs) <= MaxDepth
  /\ work' = <<Visit(statement)>> \o work
  /\ written' = written + 1
  /\ envs' = LET after == [envs EXCEPT ![Len(envs)] = AfterStatement(statement)]
             IN  IF HasBody(statement) THEN Append(after, BodyEnv(statement)) ELSE after
  /\ meant' = Evaluated(statement) \o Results(statement)
  /\ found' = found \cup Evidence(statement, Invoked) \cup CachedTargets(statement, Invoked)
  /\ certain' = certain \cup SeenEvidence(statement, Invoked) \cup CachedTargets(statement, Invoked)
  /\ mistaken' = mistaken \cup Evidence(statement, Mistaken) \cup CachedTargets(statement, Mistaken)
  /\ UNCHANGED <<language, tracker, done>>

CloseBody ==
  /\ TopIs("open")
  /\ work' = Tail(work)
  /\ envs' = IF Len(envs) > 1 THEN Front(envs) ELSE envs
  /\ UNCHANGED <<language, tracker, done, written, meant, found, certain, mistaken>>

history == <<language, written, envs, meant, found, certain, mistaken>>

\* The steps of the walk: each is taken off the stack.
VisitNode ==
  /\ TopIs("visit")
  /\ tracker' = Record(tracker, Top.node)
  /\ work' = Children(tracker', Top.node) \o Tail(work)
  /\ UNCHANGED <<history, done>>

\* Python: a name or an attribute in store context.
StoreTarget ==
  /\ TopIs("store")
  /\ tracker' = Bind(tracker, NameOf(Top.target), NoName)
  /\ work' = Tail(work)
  /\ UNCHANGED <<history, done>>

EnterScope ==
  /\ TopIs("enter")
  /\ tracker' = Enter(tracker, Top.params)
  /\ work' = Tail(work)
  /\ UNCHANGED <<history, done>>

ExitScope ==
  /\ TopIs("exit")
  /\ tracker' = Exit(tracker)
  /\ work' = Tail(work)
  /\ UNCHANGED <<history, done>>

BindTarget ==
  /\ TopIs("bind")
  /\ tracker' = LET cached == IF IsCache(Top.target)
                              THEN Add(tracker, "callsite_cached", Top.symbol) ELSE tracker
                IN  Bind(cached, NameOf(Top.target), Top.symbol)
  /\ work' = Tail(work)
  /\ UNCHANGED <<history, done>>

Finish ==
  /\ work = <<>>
  /\ ~done
  /\ tracker' = [tracker EXCEPT !.patterns = Patterns(tracker)]
  /\ done' = TRUE
  /\ UNCHANGED <<history, work>>

Next ==
  \/ \E statement \in Statements : Write(statement)
  \/ CloseBody
  \/ VisitNode
  \/ StoreTarget
  \/ EnterScope
  \/ ExitScope
  \/ BindTarget
  \/ Finish

Spec == Init /\ [][Next]_vars

-----------------------------------------------------------------------------
(* Properties. Between two statements the walk has seen what was written.    *)

Between == TopIs("open") \/ work = <<>>

(* Each name means the same to the tracker as to the statements around it:   *)
(* a parameter or a local value hides the factory or the kept result outside *)
(* (callables.py:108), and is gone when its body ends. What a mistaken name   *)
(* returns is kept, here and by the tracker, as a result that is not real.   *)
ScopesLexical ==
  Between =>
    \A name \in Names :
      Env[name] = IF IsBound(tracker.scopes, name) THEN Held(tracker.scopes, name) ELSE Unbound

(* Every call of what is kept, a real result or not, is counted once and for *)
(* the value the name holds then; only calls in the statement that replaces the name, and in    *)
(* ECMAScript defaults, may be missed (python/callsites.py:67 says "in       *)
(* evaluation order", and yields targets before the value).                  *)
CallsCounted ==
  Between =>
    /\ DOMAIN tracker.stored = DOMAIN meant
    /\ \A i \in DOMAIN meant :
         LET kept == tracker.stored[i]
         IN  /\ kept.target = meant[i].target /\ kept.symbol = meant[i].symbol
             /\ kept.calls \in (meant[i].calls - meant[i].blind) .. meant[i].calls

Reused(Count) == {Pattern("callsite_stored_reuse", meant[i].symbol, meant[i].target) :
                    i \in {j \in DOMAIN meant : Count[j] > 1}}

RealResultsReused ==
  IF done THEN Reused([j \in DOMAIN meant |-> IF meant[j].real THEN meant[j].calls ELSE 0]) ELSE {}

(* The evidence a file gives for a factory is real: a call through a name    *)
(* that nothing else was given to, or a real result kept for more than one   *)
(* call (callables.py:143) once the walk is over. None outside a blind place *)
(* is missed. Exempt is the evidence of a Mistaken name, as make()() after   *)
(* make = make(), and of results that are not real because such a name       *)
(* returned them.                                                            *)
EvidenceReal ==
  Between =>
    LET surely == IF done THEN Reused([j \in DOMAIN meant |->
                                         IF meant[j].real THEN meant[j].calls - meant[j].blind ELSE 0])
                  ELSE {}
        exempt == IF done THEN Reused([j \in DOMAIN meant |-> IF meant[j].real THEN 0 ELSE meant[j].calls])
                  ELSE {}
    IN  /\ tracker.patterns \subseteq found \cup RealResultsReused \cup mistaken \cup exempt
        /\ certain \cup surely \subseteq tracker.patterns

(* Without the exemption, as the docstring of factory has it: "The factory a *)
(* call to `callee` invokes, unless a local name shadows it"                 *)
(* (callables.py:105). The code does not ensure this, since line 108 lets a  *)
(* name shadow a factory only if it is plain and holds no result.            *)
EvidenceUnshadowed == Between => tracker.patterns \subseteq found \cup RealResultsReused

(* A name that holds a result holds the record kept for that name, and no    *)
(* record is held twice, so that a call counts for one (callables.py:116).   *)
BindingsNamed ==
  \A i, j \in DOMAIN tracker.scopes :
    \A n \in DOMAIN tracker.scopes[i], m \in DOMAIN tracker.scopes[j] :
      tracker.scopes[i][n] # None =>
        /\ tracker.scopes[i][n] \in DOMAIN tracker.stored
        /\ tracker.stored[tracker.scopes[i][n]].target = n
        /\ tracker.scopes[i][n] = tracker.scopes[j][m] => i = j /\ n = m
=============================================================================
