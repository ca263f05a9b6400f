-------------------------- MODULE CallsiteWalkProofs --------------------------
(***************************************************************************)
(* What the names of a file hold is what the tracker says they hold, for   *)
(* every file, both languages and every nesting (ScopesLexical), so that   *)
(* each call of a kept result is counted for the right one (CallsCounted), *)
(* and the evidence is what the file does (EvidenceReal).                  *)
(*                                                                         *)
(* The invariant holds between two statements only; in between, the walk   *)
(* is behind the statements by the steps that are still on its stack. The  *)
(* stack is read from the bottom, where the body of depth j is the step    *)
(* 2 * j - 1 and the end of it the step 2 * j - 2. What is above the body  *)
(* of depth Len(envs) tells how far the walk is with the last statement.   *)
(*                                                                         *)
(* IInv says so of the names. Evident, at the end, says it of the calls    *)
(* and of the evidence: what the history has and the tracker has not yet   *)
(* is in the steps on the stack, or in a place that the walk may miss.     *)
(***************************************************************************)
EXTENDS CallsiteWalk, FiniteSetTheorems, WellFoundedInduction, TLAPS

-----------------------------------------------------------------------------
(* What a name holds in the k outermost scopes.                              *)

With(scopes, k, name) == {i \in 1..k : name \in DOMAIN scopes[i]}
Highest(S) == CHOOSE i \in S : \A j \in S : j <= i

LookAt(scopes, k, name) ==
  IF With(scopes, k, name) = {} THEN Unbound ELSE scopes[Highest(With(scopes, k, name))][name]

Level(e, scopes, k) == \A name \in Names : e[name] = LookAt(scopes, k, name)
Levels(es, scopes, k) == \A j \in 1..k : Level(es[j], scopes, j)

-----------------------------------------------------------------------------
(* Types of what the walk changes.                                           *)

Scopes == UNION {[D -> Nat] : D \in SUBSET Names}
Kept == [target : Names, symbol : Factories, calls : Nat]

Tracker(t) ==
  /\ DOMAIN t = {"scopes", "stored", "patterns"}
  /\ t.scopes \in Seq(Scopes) /\ t.scopes # <<>>
  /\ t.stored \in Seq(Kept)

VisitSteps(nodes) == [op : {"visit"}, node : nodes]
StoreSteps == [op : {"store"}, target : Places]
Binds == [op : {"bind"}, target : Places, symbol : Factories]
Simple == VisitSteps(Expressions) \cup StoreSteps \cup Binds
Steps == Simple \cup {Open, ExitStep} \cup [op : {"enter"}, params : SUBSET Names]
           \cup VisitSteps(Statements)

Envs == [Names -> Int]

Types ==
  /\ language \in Languages
  /\ work \in Seq(Steps)
  /\ Tracker(tracker)
  /\ envs \in Seq(Envs) /\ envs # <<>>
  /\ DOMAIN meant = 1..Len(meant) /\ Len(meant) \in Nat

-----------------------------------------------------------------------------
(* The stack from the bottom.                                                *)

At(w, r) == w[Len(w) + 1 - r]

Stacked(w, m) ==
  /\ \A j \in 1..m : At(w, 2 * j - 1) = Open
  /\ \A j \in 1..(m - 1) : At(w, 2 * j) = ExitStep

Writes(step, name) == step.op \in {"store", "bind"} /\ NameOf(step.target) = name

Writers(w, b, name) == {r \in (b + 1)..Len(w) : Writes(At(w, r), name)}

BindsFrom(w, r) == {k \in r..Len(w) : At(w, k).op = "bind" /\ Bindable(At(w, k).target)}

\* What the name will hold, by the last step that writes it.
WillHold(w, r, stored) ==
  IF At(w, r).op = "store" THEN None ELSE Len(stored) + Cardinality(BindsFrom(w, r))

Pending(w, b, e, k, t) ==
  \A name \in Names :
    /\ name \in Unresolved \/ Writers(w, b, name) = {} => e[name] = LookAt(t.scopes, k, name)
    /\ \A r \in Writers(w, b, name) :
         name \notin Unresolved /\ (\A q \in Writers(w, b, name) : r <= q)
           => e[name] = WillHold(w, r, t.stored)

-----------------------------------------------------------------------------
(* Where the walk is with the last statement.                                *)

Depth == Len(envs)

\* Between two statements, or in the targets, the calls and the results of one.
Working ==
  /\ Len(work) >= 2 * Depth - 1
  /\ Stacked(work, Depth)
  /\ \A r \in (2 * Depth)..Len(work) : At(work, r) \in Simple
  /\ Len(tracker.scopes) = Depth
  /\ Levels(envs, tracker.scopes, Depth - 1)
  /\ Pending(work, 2 * Depth - 1, envs[Depth], Depth, tracker)
  /\ Len(meant) = Len(tracker.stored) + Cardinality(BindsFrom(work, 2 * Depth))

\* Before an assignment.
SymbolOf(scopes, s) == IF s.value.type = "call" THEN Factory(scopes, s.value.callee) ELSE NoName

Assigned(s, e, t) ==
  \A name \in Names :
    e[name] = IF name \notin TargetNames(s) \ Unresolved
              THEN LookAt(t.scopes, Len(t.scopes), name)
              ELSE IF SymbolOf(t.scopes, s) = NoName THEN None
              ELSE Len(t.stored) + Rank(s, CHOOSE i \in DOMAIN s.targets : IsLast(s, name, i))

Assigning ==
  /\ Len(work) = 2 * Depth
  /\ Stacked(work, Depth)
  /\ \E s \in Statements :
       /\ At(work, 2 * Depth) = Visit(s)
       /\ s.type = "assign" /\ Expressible(s)
       /\ Assigned(s, envs[Depth], tracker)
       /\ Len(meant) = Len(tracker.stored)
                         + IF SymbolOf(tracker.scopes, s) = NoName THEN 0
                           ELSE Cardinality(Keeping(s))
  /\ Len(tracker.scopes) = Depth
  /\ Levels(envs, tracker.scopes, Depth - 1)

\* Before a function or a class.
ParamsOf(s) == IF s.type = "function" THEN s.params ELSE {}
Hidden(e, params) == [name \in Names |-> IF name \in params THEN None ELSE e[name]]

Defining ==
  /\ Depth > 1
  /\ Len(work) = 2 * Depth - 2
  /\ Stacked(work, Depth - 1)
  /\ \E s \in Statements :
       /\ At(work, 2 * Depth - 2) = Visit(s)
       /\ s.type \in {"function", "class"} /\ Expressible(s)
       /\ envs[Depth] = Hidden(envs[Depth - 1], ParamsOf(s))
       /\ \A name \in Names :
            envs[Depth - 1][name] = IF name \in TargetNames(s) \ Unresolved THEN None
                                    ELSE LookAt(tracker.scopes, Depth - 1, name)
  /\ Len(tracker.scopes) = Depth - 1
  /\ Levels(envs, tracker.scopes, Depth - 2)
  /\ Len(meant) = Len(tracker.stored)

\* In the defaults of a function, before its body.
Entering ==
  /\ Depth > 1
  /\ Len(work) >= 2 * Depth
  /\ Stacked(work, Depth)
  /\ \E params \in SUBSET Names :
       /\ At(work, 2 * Depth) = EnterStep(params)
       /\ envs[Depth] = Hidden(envs[Depth - 1], params)
  /\ \A r \in (2 * Depth + 1)..Len(work) : At(work, r) \in VisitSteps(Expressions)
  /\ Len(tracker.scopes) = Depth - 1
  /\ Levels(envs, tracker.scopes, Depth - 1)
  /\ Len(meant) = Len(tracker.stored)

\* After a body.
Leaving ==
  /\ Len(work) = 2 * Depth
  /\ Stacked(work, Depth)
  /\ At(work, 2 * Depth) = ExitStep
  /\ Len(tracker.scopes) = Depth + 1
  /\ Levels(envs, tracker.scopes, Depth)
  /\ Len(meant) = Len(tracker.stored)

Finished ==
  /\ work = <<>>
  /\ Depth = 1 /\ Len(tracker.scopes) = 1
  /\ Levels(envs, tracker.scopes, 1)

Phase == Working \/ Assigning \/ Defining \/ Entering \/ Leaving \/ Finished

IInv == Types /\ Phase

-----------------------------------------------------------------------------
(* Lemmas about scopes.                                                      *)

(* A bounded set of numbers that is not empty has a highest one: the         *)
(* innermost scope that binds a name.                                        *)
LEMMA HasHighest ==
  ASSUME NEW k \in Nat, NEW S \in SUBSET (1..k), S # {}
  PROVE  Highest(S) \in S /\ \A j \in S : j <= Highest(S)
<1>. DEFINE T == {k - i : i \in S}
<1>1. T \subseteq Nat /\ T # {}
  <2>1. \A i \in S : i \in 1..k /\ k - i \in Nat
    OBVIOUS
  <2>. QED BY <2>1
<1>2. PICK n \in T : \A m \in T : <<m, n>> \notin OpToRel(<, Nat)
  <2>. HIDE DEF T
  <2>. QED BY <1>1, NatLessThanWellFounded, WFMin
<1>3. PICK i \in S : n = k - i
  BY <1>2
<1>4. \A j \in S : j <= i
  <2>. SUFFICES ASSUME NEW j \in S PROVE ~(i < j)
    OBVIOUS
  <2>1. k - j \in T
    OBVIOUS
  <2>. HIDE DEF T
  <2>2. ~(k - j < n)
    BY <2>1, <1>1, <1>2 DEF OpToRel
  <2>. QED BY <2>2, <1>3
<1>. QED BY <1>4 DEF Highest

(* A scope that binds a name hides what the scopes around it say of it.      *)
LEMMA LookStep ==
  ASSUME NEW scopes, NEW k \in Nat \ {0}, NEW name
  PROVE  LookAt(scopes, k, name) = IF name \in DOMAIN scopes[k] THEN scopes[k][name]
                                   ELSE LookAt(scopes, k - 1, name)
<1>1. CASE name \in DOMAIN scopes[k]
  <2>1. k \in With(scopes, k, name) /\ With(scopes, k, name) \in SUBSET (1..k)
    BY <1>1 DEF With
  <2>2. Highest(With(scopes, k, name)) = k
    <3>. DEFINE S == With(scopes, k, name)
    <3>1. Highest(S) \in S /\ \A j \in S : j <= Highest(S)
      BY <2>1, HasHighest
    <3>2. Highest(S) \in 1..k /\ k <= Highest(S)
      BY <3>1, <2>1
    <3>. HIDE DEF S
    <3>3. Highest(S) = k
      BY <3>2
    <3>. QED BY <3>3 DEF S
  <2>. QED BY <1>1, <2>1, <2>2 DEF LookAt
<1>2. CASE name \notin DOMAIN scopes[k]
  <2>1. With(scopes, k, name) = With(scopes, k - 1, name)
    BY <1>2 DEF With
  <2>. QED BY <1>2, <2>1 DEF LookAt
<1>. QED BY <1>1, <1>2

(* What a name holds in the outer scopes is not touched by what happens in   *)
(* those further in.                                                         *)
LEMMA LookSame ==
  ASSUME NEW a, NEW b, NEW k \in Nat, NEW name, \A i \in 1..k : a[i] = b[i]
  PROVE  LookAt(a, k, name) = LookAt(b, k, name)
<1>1. With(a, k, name) = With(b, k, name) /\ With(a, k, name) \in SUBSET (1..k)
  BY DEF With
<1>2. CASE With(a, k, name) = {}
  BY <1>1, <1>2 DEF LookAt
<1>3. CASE With(a, k, name) # {}
  <2>1. Highest(With(a, k, name)) \in 1..k
    BY <1>1, <1>3, HasHighest
  <2>. QED BY <1>1, <1>3, <2>1 DEF LookAt
<1>. QED BY <1>2, <1>3

(* The same for every scope up to the k-th.                                  *)
LEMMA LevelsSame ==
  ASSUME NEW es, NEW fs, NEW a, NEW b, NEW k \in Int,
         \A i \in 1..k : a[i] = b[i] /\ es[i] = fs[i], Levels(es, a, k)
  PROVE  Levels(fs, b, k)
<1>. SUFFICES ASSUME NEW j \in 1..k, NEW name \in Names
              PROVE  fs[j][name] = LookAt(b, j, name)
  BY DEF Levels, Level
<1>1. j \in Nat /\ \A i \in 1..j : a[i] = b[i]
  OBVIOUS
<1>2. LookAt(a, j, name) = LookAt(b, j, name)
  BY <1>1, LookSame
<1>. QED BY <1>2 DEF Levels, Level

(* The tracker looks a name up through all its scopes (callables.py:150).    *)
LEMMA LookAll ==
  ASSUME NEW t, Tracker(t), NEW name
  PROVE  LookAt(t.scopes, Len(t.scopes), name)
           = IF IsBound(t.scopes, name) THEN Held(t.scopes, name) ELSE Unbound
<1>1. With(t.scopes, Len(t.scopes), name) = ScopesWith(t.scopes, name)
  BY DEF With, ScopesWith, Tracker
<1>. QED BY <1>1 DEF LookAt, Highest, IsBound, Held, ScopeOf

(* A call invokes a factory for the tracker if it does for the statements.   *)
LEMMA FactoryIs ==
  ASSUME NEW t, Tracker(t), NEW callee \in Names \cup {NoName}
  PROVE  Factory(t.scopes, callee)
           = IF callee = NoName THEN NoName
             ELSE IF /\ LastName[callee] \in Factories
                     /\ callee = LastName[callee]
                          => LookAt(t.scopes, Len(t.scopes), callee) # None
             THEN LastName[callee] ELSE NoName
<1>1. LookAt(t.scopes, Len(t.scopes), callee)
        = IF IsBound(t.scopes, callee) THEN Held(t.scopes, callee) ELSE Unbound
  BY LookAll
<1>2. Unbound # None
  BY DEF Unbound, None
<1>. QED BY <1>1, <1>2 DEF Factory, HoldsResult

-----------------------------------------------------------------------------
(* Lemmas about the tracker.                                                 *)

(* A binding changes the innermost scope alone.                              *)
LEMMA Inner ==
  ASSUME NEW t, Tracker(t), NEW name \in Names, NEW held \in Nat
  PROVE  LET scopes == InInnermost(t.scopes, name, held)
         IN  /\ scopes \in Seq(Scopes) /\ Len(scopes) = Len(t.scopes)
             /\ \A i \in 1..(Len(t.scopes) - 1) : scopes[i] = t.scopes[i]
             /\ \A x \in Names : LookAt(scopes, Len(t.scopes), x)
                  = IF x = name THEN held ELSE LookAt(t.scopes, Len(t.scopes), x)
<1>. DEFINE k == Len(t.scopes)
            new == Rebound(t.scopes[k], name, held)
            scopes == InInnermost(t.scopes, name, held)
<1>1. k \in Nat \ {0} /\ k \in 1..k /\ t.scopes[k] \in Scopes
  BY DEF Tracker
<1>2. new \in Scopes
  <2>1. PICK D \in SUBSET Names : t.scopes[k] \in [D -> Nat]
    BY <1>1 DEF Scopes
  <2>2. D \cup {name} \in SUBSET Names /\ new \in [D \cup {name} -> Nat]
    BY <2>1 DEF Rebound
  <2>. QED BY <2>2 DEF Scopes
<1>3. /\ scopes \in Seq(Scopes) /\ Len(scopes) = k /\ scopes[k] = new
      /\ \A i \in 1..(k - 1) : scopes[i] = t.scopes[i]
  BY <1>1, <1>2 DEF InInnermost, Tracker
<1>4. ASSUME NEW x \in Names
      PROVE  LookAt(scopes, k, x) = IF x = name THEN held ELSE LookAt(t.scopes, k, x)
  <2>1. DOMAIN new = (DOMAIN t.scopes[k]) \cup {name}
        /\ \A n \in DOMAIN new : new[n] = IF n = name THEN held ELSE t.scopes[k][n]
    BY DEF Rebound
  <2>2. LookAt(scopes, k - 1, x) = LookAt(t.scopes, k - 1, x)
    <3>. HIDE DEF scopes, k
    <3>. QED BY <1>1, <1>3, LookSame
  <2>3. LookAt(scopes, k, x) = IF x \in DOMAIN scopes[k] THEN scopes[k][x]
                               ELSE LookAt(scopes, k - 1, x)
    <3>. HIDE DEF scopes, k
    <3>. QED BY <1>1, LookStep
  <2>4. LookAt(t.scopes, k, x) = IF x \in DOMAIN t.scopes[k] THEN t.scopes[k][x]
                                 ELSE LookAt(t.scopes, k - 1, x)
    <3>. HIDE DEF k
    <3>. QED BY <1>1, LookStep
  <2>. HIDE DEF new, scopes, k
  <2>. QED BY <1>3, <2>1, <2>2, <2>3, <2>4
<1>. QED BY <1>3, <1>4

(* A name that takes another value holds no result (callables.py:112).       *)
LEMMA BindsNone ==
  ASSUME NEW t, Tracker(t), NEW name \in Names \cup {NoName}
  PROVE  LET u == Bind(t, name, NoName)
         IN  /\ Tracker(u) /\ u.stored = t.stored /\ Len(u.scopes) = Len(t.scopes)
             /\ \A i \in 1..(Len(t.scopes) - 1) : u.scopes[i] = t.scopes[i]
             /\ \A x \in Names : LookAt(u.scopes, Len(t.scopes), x)
                  = IF x = name /\ x \notin Unresolved THEN None
                    ELSE LookAt(t.scopes, Len(t.scopes), x)
<1>1. CASE name = NoName \/ name \in Unresolved
  BY <1>1, TrackerAssumption DEF Bind
<1>2. CASE ~(name = NoName \/ name \in Unresolved)
  <2>. DEFINE scopes == InInnermost(t.scopes, name, None)
  <2>1. Bind(t, name, NoName) = [t EXCEPT !.scopes = scopes]
    BY <1>2 DEF Bind
  <2>2. /\ scopes \in Seq(Scopes) /\ Len(scopes) = Len(t.scopes)
        /\ \A i \in 1..(Len(t.scopes) - 1) : scopes[i] = t.scopes[i]
        /\ \A x \in Names : LookAt(scopes, Len(t.scopes), x)
             = IF x = name THEN None ELSE LookAt(t.scopes, Len(t.scopes), x)
    BY <1>2, Inner DEF None
  <2>. HIDE DEF scopes
  <2>3. scopes # <<>>
    BY <2>2 DEF Tracker
  <2>. QED BY <1>2, <2>1, <2>2, <2>3 DEF Tracker
<1>. QED BY <1>1, <1>2

(* A name that takes the result of a factory holds a record of its own.      *)
LEMMA BindsResult ==
  ASSUME NEW t, Tracker(t), NEW name \in Names, name \notin Unresolved, NEW symbol \in Factories
  PROVE  LET u == Bind(t, name, symbol)
         IN  /\ Tracker(u) /\ Len(u.stored) = Len(t.stored) + 1 /\ Len(u.scopes) = Len(t.scopes)
             /\ \A i \in 1..(Len(t.scopes) - 1) : u.scopes[i] = t.scopes[i]
             /\ \A x \in Names : LookAt(u.scopes, Len(t.scopes), x)
                  = IF x = name THEN Len(t.stored) + 1
                    ELSE LookAt(t.scopes, Len(t.scopes), x)
<1>. DEFINE scopes == InInnermost(t.scopes, name, Len(t.stored) + 1)
            kept == [target |-> name, symbol |-> symbol, calls |-> 0]
            stored == Append(t.stored, kept)
<1>0. symbol # NoName /\ name # NoName
  BY TrackerAssumption
<1>1. Bind(t, name, symbol) = [t EXCEPT !.scopes = scopes, !.stored = stored]
  BY <1>0 DEF Bind
<1>2. /\ scopes \in Seq(Scopes) /\ Len(scopes) = Len(t.scopes)
      /\ \A i \in 1..(Len(t.scopes) - 1) : scopes[i] = t.scopes[i]
      /\ \A x \in Names : LookAt(scopes, Len(t.scopes), x)
           = IF x = name THEN Len(t.stored) + 1 ELSE LookAt(t.scopes, Len(t.scopes), x)
  <2>1. Len(t.stored) + 1 \in Nat
    BY DEF Tracker
  <2>. QED BY <2>1, Inner
<1>3. stored \in Seq(Kept) /\ Len(stored) = Len(t.stored) + 1
  BY DEF Tracker, Kept
<1>. HIDE DEF scopes, stored
<1>4. scopes # <<>>
  BY <1>2 DEF Tracker
<1>. QED BY <1>1, <1>2, <1>3, <1>4 DEF Tracker

(* Evidence and calls leave the names as they are.                           *)
LEMMA RecordCallKeeps ==
  ASSUME NEW t, Tracker(t), NEW node
  PROVE  LET u == RecordCall(t, node)
         IN  Tracker(u) /\ u.scopes = t.scopes /\ Len(u.stored) = Len(t.stored)
<1>. DEFINE immediate == Factory(t.scopes, node.immediate)
            at == IF immediate = NoName THEN t ELSE Add(t, "callsite_immediate", immediate)
            counted == CountCall(at, node.callee)
            u == RecordCall(t, node)
<1>1. Tracker(at) /\ at.scopes = t.scopes /\ at.stored = t.stored
  BY DEF Add, Tracker
<1>2. Tracker(counted) /\ counted.scopes = t.scopes /\ Len(counted.stored) = Len(t.stored)
  <2>. HIDE DEF at
  <2>. DEFINE h == Held(at.scopes, node.callee)
              stored == [at.stored EXCEPT ![h].calls = @ + 1]
  <2>1. stored \in Seq(Kept) /\ Len(stored) = Len(at.stored)
    <3>1. CASE h \in DOMAIN at.stored
      <4>. HIDE DEF h
      <4>1. at.stored[h] \in Kept
        BY <1>1, <3>1 DEF Tracker
      <4>. DEFINE more == [at.stored[h] EXCEPT !.calls = @ + 1]
      <4>2. more \in Kept
        BY <4>1 DEF Kept
      <4>3. stored = [at.stored EXCEPT ![h] = more]
        OBVIOUS
      <4>. HIDE DEF more, stored
      <4>. QED BY <1>1, <3>1, <4>2, <4>3 DEF Tracker
    <3>2. CASE h \notin DOMAIN at.stored
      <4>1. at.stored \in Seq(Kept)
        BY <1>1 DEF Tracker
      <4>2. at.stored = [i \in DOMAIN at.stored |-> at.stored[i]]
        BY <4>1
      <4>. HIDE DEF h
      <4>3. stored = [i \in DOMAIN at.stored |-> at.stored[i]]
        BY <3>2, Zenon
      <4>. QED BY <4>1, <4>2, <4>3
    <3>. QED BY <3>1, <3>2
  <2>2. counted = at \/ counted = [at EXCEPT !.stored = stored]
    BY DEF CountCall
  <2>. HIDE DEF stored, counted
  <2>. QED BY <1>1, <2>1, <2>2 DEF Tracker
<1>3. u = [counted EXCEPT !.patterns =
              counted.patterns \cup Arguments(t.scopes, node.callee, node.arguments)]
  BY DEF RecordCall
<1>. HIDE DEF counted, u
<1>4. Tracker(u) /\ u.scopes = t.scopes /\ Len(u.stored) = Len(t.stored)
  BY <1>2, <1>3 DEF Tracker
<1>. QED BY <1>4 DEF u

-----------------------------------------------------------------------------
(* Lemmas about the stack.                                                   *)

(* Taking the top leaves what is under it where it is from the bottom.       *)
LEMMA Pop ==
  ASSUME NEW S, NEW w \in Seq(S), w # <<>>
  PROVE  /\ Tail(w) \in Seq(S) /\ Len(Tail(w)) = Len(w) - 1
         /\ \A r \in 1..(Len(w) - 1) : At(Tail(w), r) = At(w, r)
         /\ At(w, Len(w)) = w[1] /\ w[1] \in S /\ Len(w) \in Nat \ {0}
<1>. DEFINE v == Tail(w)
<1>1. v \in Seq(S) /\ Len(v) = Len(w) - 1 /\ \A i \in 1..Len(v) : v[i] = w[i + 1]
  OBVIOUS
<1>2. Len(w) \in Nat \ {0} /\ w[1] \in S
  OBVIOUS
<1>. HIDE DEF v
<1>3. ASSUME NEW r \in 1..(Len(w) - 1) PROVE At(v, r) = At(w, r)
  <2>1. Len(v) + 1 - r \in 1..Len(v) /\ (Len(v) + 1 - r) + 1 = Len(w) + 1 - r
    BY <1>1, <1>2
  <2>. QED BY <1>1, <2>1 DEF At
<1>4. At(w, Len(w)) = w[1]
  <2>1. Len(w) + 1 - Len(w) = 1
    BY <1>2
  <2>. QED BY <2>1 DEF At
<1>5. v \in Seq(S) /\ Len(v) = Len(w) - 1
  BY <1>1
<1>. QED BY <1>2, <1>3, <1>4, <1>5 DEF v

(* And so does putting steps on it.                                          *)
LEMMA Push ==
  ASSUME NEW S, NEW v \in Seq(S), NEW w \in Seq(S)
  PROVE  /\ v \o w \in Seq(S) /\ Len(v \o w) = Len(v) + Len(w)
         /\ Len(v) \in Nat /\ Len(w) \in Nat
         /\ \A r \in 1..Len(w) : At(v \o w, r) = At(w, r)
         /\ \A r \in (Len(w) + 1)..(Len(v) + Len(w)) :
              /\ Len(v) + Len(w) + 1 - r \in 1..Len(v)
              /\ At(v \o w, r) = v[Len(v) + Len(w) + 1 - r]
<1>. DEFINE x == v \o w
<1>1. /\ x \in Seq(S) /\ Len(x) = Len(v) + Len(w) /\ Len(v) \in Nat /\ Len(w) \in Nat
      /\ \A i \in 1..Len(x) : x[i] = IF i <= Len(v) THEN v[i] ELSE w[i - Len(v)]
  OBVIOUS
<1>. HIDE DEF x
<1>2. ASSUME NEW r \in 1..Len(w) PROVE At(x, r) = At(w, r)
  <2>1. /\ Len(x) + 1 - r \in 1..Len(x) /\ ~(Len(x) + 1 - r <= Len(v))
        /\ (Len(x) + 1 - r) - Len(v) = Len(w) + 1 - r
    BY <1>1
  <2>. QED BY <1>1, <2>1 DEF At
<1>3. ASSUME NEW r \in (Len(w) + 1)..(Len(v) + Len(w))
      PROVE  /\ Len(v) + Len(w) + 1 - r \in 1..Len(v)
             /\ At(x, r) = v[Len(v) + Len(w) + 1 - r]
  <2>1. /\ Len(v) + Len(w) + 1 - r \in 1..Len(v) /\ Len(v) + Len(w) + 1 - r \in 1..Len(x)
        /\ Len(v) + Len(w) + 1 - r <= Len(v)
    BY <1>1
  <2>. QED BY <1>1, <2>1 DEF At
<1>. QED BY <1>1, <1>2, <1>3 DEF x

(* The bodies are the same as long as the bottom of the stack is.            *)
LEMMA StackedSame ==
  ASSUME NEW v, NEW w, NEW m \in Nat, Stacked(w, m),
         \A r \in 1..(2 * m - 1) : At(v, r) = At(w, r)
  PROVE  Stacked(v, m)
<1>1. \A j \in 1..m : 2 * j - 1 \in 1..(2 * m - 1)
  OBVIOUS
<1>2. \A j \in 1..(m - 1) : 2 * j \in 1..(2 * m - 1)
  OBVIOUS
<1>. QED BY <1>1, <1>2 DEF Stacked

(* Fewer bodies are among more.                                              *)
LEMMA StackedLess ==
  ASSUME NEW w, NEW m \in Nat, Stacked(w, m), NEW l \in Nat, l <= m
  PROVE  Stacked(w, l)
<1>1. \A j \in 1..l : j \in 1..m
  OBVIOUS
<1>2. \A j \in 1..(l - 1) : j \in 1..(m - 1)
  OBVIOUS
<1>. QED BY <1>1, <1>2 DEF Stacked

(* The results that are still to be kept can be counted.                     *)
LEMMA BindsCounted ==
  ASSUME NEW S, NEW w \in Seq(S), NEW r \in Nat
  PROVE  IsFiniteSet(BindsFrom(w, r)) /\ Cardinality(BindsFrom(w, r)) \in Nat
<1>1. Len(w) \in Nat /\ BindsFrom(w, r) \subseteq r..Len(w)
  BY DEF BindsFrom
<1>2. IsFiniteSet(r..Len(w))
  BY <1>1, FS_Interval
<1>. QED BY <1>1, <1>2, FS_Subset, FS_CardinalityType

Keeps(step) == step.op = "bind" /\ Bindable(step.target)

\* What the tracker says of the names after a step, of depth k.
Taken(step, k, t, u) ==
  /\ Len(u.stored) = Len(t.stored) + IF Keeps(step) THEN 1 ELSE 0
  /\ \A x \in Names :
       LookAt(u.scopes, k, x) = IF Writes(step, x) /\ x \notin Unresolved
                                THEN IF step.op = "store" THEN None ELSE Len(t.stored) + 1
                                ELSE LookAt(t.scopes, k, x)

(* A step off the stack is a step the walk is less behind.                   *)
LEMMA TakeStep ==
  ASSUME NEW S, NEW w \in Seq(S), NEW b \in Nat, b < Len(w), NEW e, NEW k,
         NEW t, Tracker(t), NEW u, Tracker(u), Taken(w[1], k, t, u), Pending(w, b, e, k, t)
  PROVE  /\ Pending(Tail(w), b, e, k, u)
         /\ Len(u.stored) + Cardinality(BindsFrom(Tail(w), b + 1))
              = Len(t.stored) + Cardinality(BindsFrom(w, b + 1))
<1>. DEFINE v == Tail(w)
            n == Len(w)
<1>1. w # <<>> /\ n \in Nat \ {0}
  OBVIOUS
<1>2. /\ v \in Seq(S) /\ Len(v) = n - 1 /\ At(w, n) = w[1]
      /\ \A r \in 1..(n - 1) : At(v, r) = At(w, r)
  BY <1>1, Pop
<1>3. Len(t.stored) \in Nat /\ Len(u.stored) \in Nat
  BY DEF Tracker
<1>. HIDE DEF v, n
<1>4. b \in 0..(n - 1)
  BY <1>1 DEF n
<1>5. ASSUME NEW r \in (b + 1)..n
      PROVE  Len(u.stored) + Cardinality(BindsFrom(v, r))
               = Len(t.stored) + Cardinality(BindsFrom(w, r))
  <2>1. r \in Nat /\ IsFiniteSet(BindsFrom(v, r)) /\ Cardinality(BindsFrom(v, r)) \in Nat
    <3>1. r \in Nat
      BY <1>1, <1>4
    <3>. QED BY <1>2, <3>1, BindsCounted, Zenon
  <2>2. CASE Keeps(w[1])
    <3>1. \A q \in r..n : q = n \/ (q \in r..(n - 1) /\ q \in 1..(n - 1))
      BY <1>1, <1>4
    <3>2. BindsFrom(w, r) = BindsFrom(v, r) \cup {n}
      BY <1>1, <1>2, <1>4, <2>2, <3>1 DEF BindsFrom, Keeps, n
    <3>3. n \notin BindsFrom(v, r)
      BY <1>1, <1>2, <1>4 DEF BindsFrom
    <3>4. Cardinality(BindsFrom(w, r)) = Cardinality(BindsFrom(v, r)) + 1
      BY <2>1, <3>2, <3>3, FS_AddElement
    <3>. QED BY <1>3, <2>1, <2>2, <3>4 DEF Taken
  <2>3. CASE ~Keeps(w[1])
    <3>1. \A q \in r..n : q = n \/ (q \in r..(n - 1) /\ q \in 1..(n - 1))
      BY <1>1, <1>4
    <3>2. BindsFrom(w, r) = BindsFrom(v, r)
      BY <1>1, <1>2, <1>4, <2>3, <3>1 DEF BindsFrom, Keeps, n
    <3>. QED BY <1>3, <2>1, <2>3, <3>2 DEF Taken
  <2>. QED BY <2>2, <2>3
<1>6. ASSUME NEW x \in Names
      PROVE  Writers(w, b, x) = Writers(v, b, x) \cup (IF Writes(w[1], x) THEN {n} ELSE {})
  <2>1. \A q \in (b + 1)..n : q = n \/ (q \in (b + 1)..(n - 1) /\ q \in 1..(n - 1))
    BY <1>1, <1>4
  <2>2. n \in (b + 1)..n /\ \A q \in (b + 1)..(n - 1) : q \in (b + 1)..n /\ q \in 1..(n - 1)
    BY <1>1, <1>4
  <2>. QED BY <1>2, <2>1, <2>2 DEF Writers, n
<1>7. ASSUME NEW x \in Names, x \in Unresolved \/ Writers(v, b, x) = {}
      PROVE  e[x] = LookAt(u.scopes, k, x)
  <2>1. CASE x \in Unresolved
    BY <2>1 DEF Pending, Taken
  <2>2. CASE x \notin Unresolved /\ ~Writes(w[1], x)
    BY <1>6, <1>7, <2>2 DEF Pending, Taken
  <2>3. CASE x \notin Unresolved /\ Writes(w[1], x)
    <3>1. Writers(w, b, x) = {n} /\ n <= n
      BY <1>1, <1>6, <1>7, <2>3
    <3>2. e[x] = WillHold(w, n, t.stored)
      BY <2>3, <3>1 DEF Pending
    <3>3. CASE w[1].op = "store"
      BY <1>2, <2>3, <3>2, <3>3 DEF WillHold, Taken
    <3>4. CASE w[1].op = "bind"
      <4>1. Keeps(w[1])
        BY <2>3, <3>4, TrackerAssumption DEF Keeps, Writes, Bindable
      <4>2. BindsFrom(w, n) = {n}
        <5>1. n..n = {n}
          BY <1>1
        <5>. QED BY <1>2, <4>1, <5>1 DEF BindsFrom, Keeps, n
      <4>3. Cardinality(BindsFrom(w, n)) = 1
        BY <4>2, FS_Singleton
      <4>4. e[x] = Len(t.stored) + 1
        BY <1>2, <3>2, <3>4, <4>3 DEF WillHold
      <4>. QED BY <2>3, <3>4, <4>4 DEF Taken
    <3>. QED BY <2>3, <3>3, <3>4 DEF Writes
  <2>. QED BY <2>1, <2>2, <2>3
<1>8. ASSUME NEW x \in Names, NEW r \in Writers(v, b, x), x \notin Unresolved,
             \A q \in Writers(v, b, x) : r <= q
      PROVE  e[x] = WillHold(v, r, u.stored)
  <2>1. r \in (b + 1)..(n - 1) /\ r \in (b + 1)..n /\ r \in 1..(n - 1) /\ r <= n
    BY <1>1, <1>2, <1>4 DEF Writers
  <2>2. r \in Writers(w, b, x) /\ \A q \in Writers(w, b, x) : r <= q
    BY <1>6, <1>8, <2>1
  <2>3. e[x] = WillHold(w, r, t.stored)
    BY <1>8, <2>2 DEF Pending
  <2>. QED BY <1>2, <1>5, <2>1, <2>3 DEF WillHold
<1>9. Pending(v, b, e, k, u)
  BY <1>7, <1>8 DEF Pending
<1>10. b + 1 \in (b + 1)..n
  BY <1>1, <1>4
<1>. QED BY <1>5, <1>9, <1>10, Zenon DEF v

(* The calls inside a call write no name.                                    *)
LEMMA PutVisits ==
  ASSUME NEW S, NEW v \in Seq(S), NEW w \in Seq(S), \A i \in 1..Len(v) : v[i].op = "visit",
         NEW b \in Nat, b <= Len(w), NEW e, NEW k, NEW t, Pending(w, b, e, k, t)
  PROVE  /\ Pending(v \o w, b, e, k, t)
         /\ BindsFrom(v \o w, b + 1) = BindsFrom(w, b + 1)
<1>. DEFINE x == v \o w
<1>1. /\ Len(x) = Len(v) + Len(w) /\ Len(v) \in Nat /\ Len(w) \in Nat
      /\ \A r \in 1..Len(w) : At(x, r) = At(w, r)
      /\ \A r \in (Len(w) + 1)..(Len(v) + Len(w)) :
           /\ Len(v) + Len(w) + 1 - r \in 1..Len(v)
           /\ At(x, r) = v[Len(v) + Len(w) + 1 - r]
  BY Push
<1>. HIDE DEF x
<1>2. \A r \in (Len(w) + 1)..Len(x) : At(x, r).op = "visit"
  BY <1>1
<1>3. ASSUME NEW r \in (b + 1)..(Len(w) + 1) PROVE BindsFrom(x, r) = BindsFrom(w, r)
  <2>1. \A q \in r..Len(x) : q \in (Len(w) + 1)..Len(x) \/ (q \in r..Len(w) /\ q \in 1..Len(w))
    BY <1>1
  <2>2. \A q \in r..Len(w) : q \in r..Len(x) /\ q \in 1..Len(w)
    BY <1>1
  <2>. QED BY <1>1, <1>2, <2>1, <2>2 DEF BindsFrom
<1>4. ASSUME NEW name \in Names PROVE Writers(x, b, name) = Writers(w, b, name)
  <2>1. \A q \in (b + 1)..Len(x) : \/ q \in (Len(w) + 1)..Len(x)
                                   \/ q \in (b + 1)..Len(w) /\ q \in 1..Len(w)
    BY <1>1
  <2>2. \A q \in (b + 1)..Len(w) : q \in (b + 1)..Len(x) /\ q \in 1..Len(w)
    BY <1>1
  <2>. QED BY <1>1, <1>2, <2>1, <2>2 DEF Writers, Writes
<1>5. ASSUME NEW name \in Names, NEW r \in Writers(w, b, name)
      PROVE  WillHold(x, r, t.stored) = WillHold(w, r, t.stored)
  <2>1. r \in 1..Len(w) /\ r \in (b + 1)..(Len(w) + 1)
    BY <1>1 DEF Writers
  <2>. QED BY <1>1, <1>3, <2>1 DEF WillHold
<1>6. Pending(x, b, e, k, t)
  BY <1>4, <1>5 DEF Pending
<1>7. b + 1 \in (b + 1)..(Len(w) + 1)
  BY <1>1
<1>. QED BY <1>3, <1>6, <1>7 DEF x

-----------------------------------------------------------------------------
(* What the top of the stack says of the phase.                              *)

(* What is on the stack is a step, and so is what lies under it. *)
LEMMA TopOf ==
  ASSUME Types, work # <<>>
  PROVE  /\ At(work, Len(work)) = Top /\ Top \in Steps
         /\ Len(work) \in Nat \ {0} /\ Depth \in Nat \ {0}
<1>1. At(work, Len(work)) = Top /\ Top \in Steps /\ Len(work) \in Nat \ {0}
  BY Pop DEF Types, Top
<1>2. Depth \in Nat \ {0}
  BY DEF Types, Depth
<1>. QED BY <1>1, <1>2

(* Steps of different kinds are different.                                   *)
LEMMA Kinds ==
  /\ \A step \in Simple : step.op \in {"visit", "store", "bind"}
  /\ \A nodes : \A step \in VisitSteps(nodes) : step.op = "visit"
  /\ \A node : Visit(node).op = "visit" /\ Visit(node).node = node
  /\ \A p : EnterStep(p).op = "enter" /\ EnterStep(p).params = p
  /\ Open.op = "open" /\ ExitStep.op = "exit"
<1>. QED BY DEF Simple, VisitSteps, StoreSteps, Binds, Visit, EnterStep, Open, ExitStep

(* Where the walk is, by what is on top of its stack.                        *)
LEMMA PhaseOf ==
  ASSUME IInv, work # <<>>
  PROVE  /\ Top.op = "open" => Working /\ Len(work) = 2 * Depth - 1
         /\ Top.op \in {"store", "bind"} => Working /\ Len(work) >= 2 * Depth
         /\ Top.op = "enter" => Entering /\ Len(work) = 2 * Depth
         /\ Top.op = "exit" => Leaving
         /\ Top.op = "visit" => \/ Working /\ Len(work) >= 2 * Depth
                                \/ Assigning \/ Defining
                                \/ Entering /\ Len(work) > 2 * Depth
<1>. DEFINE n == Depth
            l == Len(work)
<1>1. At(work, l) = Top /\ l \in Nat \ {0} /\ n \in Nat \ {0}
  BY TopOf DEF IInv
<1>2. CASE Working
  <2>1. CASE l = 2 * n - 1
    <3>1. n \in 1..n
      BY <1>1
    <3>2. At(work, l) = Open
      BY <1>2, <2>1, <3>1 DEF Working, Stacked
    <3>. QED BY <1>1, <1>2, <2>1, <3>2, Kinds
  <2>2. CASE l # 2 * n - 1
    <3>1. l \in (2 * n)..l /\ l >= 2 * n
      BY <1>1, <1>2, <2>2 DEF Working
    <3>2. At(work, l) \in Simple
      BY <1>2, <3>1 DEF Working
    <3>3. Top.op \in {"visit", "store", "bind"}
      BY <1>1, <3>2, Kinds
    <3>. QED BY <1>2, <3>1, <3>3
  <2>. QED BY <2>1, <2>2
<1>3. CASE Assigning
  <2>1. Top.op = "visit"
    BY <1>1, <1>3, Kinds DEF Assigning
  <2>. QED BY <1>3, <2>1
<1>4. CASE Defining
  <2>1. Top.op = "visit"
    BY <1>1, <1>4, Kinds DEF Defining
  <2>. QED BY <1>4, <2>1
<1>5. CASE Entering
  <2>1. CASE l = 2 * n
    <3>1. Top.op = "enter"
      BY <1>1, <1>5, <2>1, Kinds DEF Entering
    <3>. QED BY <1>5, <2>1, <3>1
  <2>2. CASE l # 2 * n
    <3>1. l \in (2 * n + 1)..l /\ l > 2 * n
      BY <1>1, <1>5, <2>2 DEF Entering
    <3>2. At(work, l) \in VisitSteps(Expressions)
      BY <1>5, <3>1 DEF Entering
    <3>3. Top.op = "visit"
      BY <1>1, <3>2, Kinds
    <3>. QED BY <1>5, <3>1, <3>3
  <2>. QED BY <2>1, <2>2
<1>6. CASE Leaving
  <2>1. Top.op = "exit"
    BY <1>1, <1>6, Kinds DEF Leaving
  <2>. QED BY <1>6, <2>1
<1>7. ~Finished
  BY DEF Finished
<1>. QED BY <1>2, <1>3, <1>4, <1>5, <1>6, <1>7 DEF IInv, Phase

(* Nothing is left to be written.                                            *)
LEMMA NoneLeft ==
  ASSUME NEW S, NEW w \in Seq(S), NEW b \in Nat, Len(w) = b, NEW e, NEW k, NEW t
  PROVE  /\ Pending(w, b, e, k, t) <=> Level(e, t.scopes, k)
         /\ BindsFrom(w, b + 1) = {} /\ Cardinality(BindsFrom(w, b + 1)) = 0
<1>1. (b + 1)..b = {}
  OBVIOUS
<1>2. \A name : Writers(w, b, name) = {}
  BY <1>1 DEF Writers
<1>3. BindsFrom(w, b + 1) = {}
  BY <1>1 DEF BindsFrom
<1>4. Cardinality(BindsFrom(w, b + 1)) = 0
  BY <1>3, FS_EmptySet
<1>5. Pending(w, b, e, k, t) <=> Level(e, t.scopes, k)
  BY <1>2 DEF Pending, Level
<1>. QED BY <1>3, <1>4, <1>5

(* Between two statements the names hold what the tracker says.              *)
LEMMA BodyOpen ==
  ASSUME IInv, TopIs("open")
  PROVE  /\ Len(work) = 2 * Depth - 1 /\ Stacked(work, Depth) /\ Len(tracker.scopes) = Depth
         /\ Levels(envs, tracker.scopes, Depth)
         /\ Len(meant) = Len(tracker.stored)
<1>. DEFINE n == Depth
<1>1. Working /\ Len(work) = 2 * n - 1 /\ work # <<>>
  BY PhaseOf DEF TopIs
<1>2. n \in Nat \ {0} /\ 2 * n - 1 \in Nat /\ (2 * n - 1) + 1 = 2 * n /\ work \in Seq(Steps)
  <2>1. n \in Nat \ {0}
    BY <1>1, TopOf DEF IInv
  <2>. QED BY <2>1 DEF IInv, Types
<1>3. /\ Pending(work, 2 * n - 1, envs[n], n, tracker)
      /\ Levels(envs, tracker.scopes, n - 1) /\ Len(tracker.scopes) = n /\ Stacked(work, n)
      /\ Len(meant) = Len(tracker.stored) + Cardinality(BindsFrom(work, 2 * n))
  BY <1>1 DEF Working
<1>4. Level(envs[n], tracker.scopes, n) /\ Cardinality(BindsFrom(work, 2 * n)) = 0
  <2>. HIDE DEF n
  <2>1. \A b \in Nat : b = Len(work) =>
          /\ Pending(work, b, envs[n], n, tracker) <=> Level(envs[n], tracker.scopes, n)
          /\ Cardinality(BindsFrom(work, b + 1)) = 0
    BY <1>2, NoneLeft
  <2>. QED BY <1>1, <1>2, <1>3, <2>1, Zenon
<1>5. Levels(envs, tracker.scopes, n)
  <2>1. \A j \in 1..n : j = n \/ j \in 1..(n - 1)
    BY <1>2
  <2>. QED BY <1>3, <1>4, <2>1 DEF Levels
<1>6. Len(meant) = Len(tracker.stored)
  BY <1>3, <1>4 DEF IInv, Types, Tracker
<1>. QED BY <1>1, <1>3, <1>5, <1>6

(* The invariant gives the property.                                         *)
LEMMA LexicalBetween == IInv => ScopesLexical
<1>. SUFFICES ASSUME IInv, Between, NEW name \in Names
              PROVE  Env[name] = IF IsBound(tracker.scopes, name)
                                 THEN Held(tracker.scopes, name) ELSE Unbound
  BY DEF ScopesLexical
<1>1. Tracker(tracker) /\ Depth \in Nat \ {0} /\ envs[Depth] = Env
  BY DEF IInv, Types, Depth, Env
<1>2. Levels(envs, tracker.scopes, Depth) /\ Len(tracker.scopes) = Depth
  <2>1. CASE TopIs("open")
    BY <2>1, BodyOpen
  <2>2. CASE work = <<>>
    <3>1. Len(work) = 0
      BY <2>2
    <3>2. ~Working /\ ~Assigning /\ ~Defining /\ ~Entering /\ ~Leaving
      BY <3>1, <1>1 DEF Working, Assigning, Defining, Entering, Leaving
    <3>. QED BY <3>2 DEF IInv, Phase, Finished
  <2>. QED BY <2>1, <2>2 DEF Between
<1>3. Env[name] = LookAt(tracker.scopes, Len(tracker.scopes), name)
  <2>1. Depth \in 1..Depth
    BY <1>1
  <2>. QED BY <1>1, <1>2, <2>1 DEF Levels, Level
<1>. QED BY <1>1, <1>3, LookAll

(* A file begins with nothing written and nothing seen.                      *)
LEMMA WalkInit == Init => IInv
<1>. SUFFICES ASSUME Init PROVE IInv
  OBVIOUS
<1>1. work = <<Open>> /\ work \in Seq(Steps) /\ Len(work) = 1
  BY DEF Init, Steps
<1>2. tracker.scopes = <<[n \in {} |-> None]>> /\ tracker.stored = <<>>
      /\ DOMAIN tracker = {"scopes", "stored", "patterns"}
  BY DEF Init, NewTracker
<1>3. Tracker(tracker) /\ Len(tracker.scopes) = 1 /\ DOMAIN tracker.scopes[1] = {}
  <2>1. [n \in {} |-> None] \in [{} -> Nat] /\ {} \in SUBSET Names
    OBVIOUS
  <2>2. [n \in {} |-> None] \in Scopes
    BY <2>1, Zenon DEF Scopes
  <2>3. tracker.stored \in Seq(Kept)
    BY <1>2
  <2>. QED BY <1>2, <2>2, <2>3 DEF Tracker
<1>4. envs = <<[name \in Names |-> Unbound]>> /\ envs \in Seq(Envs) /\ Len(envs) = 1
  BY DEF Init, Envs, Unbound
<1>5. Types
  BY <1>1, <1>3, <1>4 DEF Types, Init
<1>6. Level(envs[1], tracker.scopes, 1)
  <2>1. ASSUME NEW name \in Names PROVE With(tracker.scopes, 1, name) = {}
    BY <1>3 DEF With
  <2>. QED BY <1>4, <2>1 DEF Level, LookAt
<1>7. Pending(work, 1, envs[1], 1, tracker) /\ Cardinality(BindsFrom(work, 2)) = 0
  <2>1. \A b \in Nat : b = Len(work) =>
          /\ Pending(work, b, envs[1], 1, tracker) <=> Level(envs[1], tracker.scopes, 1)
          /\ Cardinality(BindsFrom(work, b + 1)) = 0
    BY <1>1, NoneLeft
  <2>2. 1 \in Nat /\ 1 + 1 = 2
    OBVIOUS
  <2>. QED BY <1>1, <1>6, <2>1, <2>2, Zenon
<1>8. Stacked(work, 1)
  BY <1>1 DEF Stacked, At
<1>9. Depth = 1 /\ Len(meant) = 0 /\ Len(tracker.stored) = 0
  BY <1>2, <1>4 DEF Depth, Init
<1>10. Levels(envs, tracker.scopes, 0)
  BY DEF Levels
<1>11. Working
  BY <1>1, <1>3, <1>7, <1>8, <1>9, <1>10 DEF Working
<1>. QED BY <1>5, <1>11 DEF IInv, Phase

-----------------------------------------------------------------------------
(* The next statement.                                                       *)

(* The kinds of statements.                                                  *)
LEMMA StatementKinds ==
  ASSUME NEW s \in Statements
  PROVE  \/ s.type = "call" /\ s \in Calls
         \/ /\ s.type = "assign" /\ s.value \in Expressions
            /\ s.targets \in Seq(Places) /\ s.targets # <<>>
         \/ /\ s.type = "function" /\ s.name \in Names \cup {NoName}
            /\ s.params \in SUBSET Names /\ s.defaults \in Seq(Expressions)
         \/ s.type = "class" /\ s.name \in Names
<1>. QED BY StatementsAssumption, CallsAssumption

(* Lists put together are as long as both.                                   *)
LEMMA TogetherLen ==
  ASSUME NEW m \in Nat, NEW n \in Nat, NEW F, NEW G,
         F = [i \in 1..m |-> F[i]], G = [i \in 1..n |-> G[i]]
  PROVE  DOMAIN (F \o G) = 1..(m + n) /\ Len(F \o G) = m + n
<1>. DEFINE S == {F[i] : i \in 1..m} \cup {G[i] : i \in 1..n}
<1>1. F \in [1..m -> S] /\ G \in [1..n -> S]
  <2>1. \A i \in 1..m : F[i] \in S
    OBVIOUS
  <2>2. \A i \in 1..n : G[i] \in S
    OBVIOUS
  <2>3. [i \in 1..m |-> F[i]] \in [1..m -> S]
    <3>. HIDE DEF S
    <3>. QED BY <2>1
  <2>4. [i \in 1..n |-> G[i]] \in [1..n -> S]
    <3>. HIDE DEF S
    <3>. QED BY <2>2
  <2>. HIDE DEF S
  <2>. QED BY <2>3, <2>4
<1>. HIDE DEF S
<1>2. F \in Seq(S) /\ G \in Seq(S) /\ Len(F) = m /\ Len(G) = n
  BY <1>1
<1>. QED BY <1>2

(* The results a statement keeps can be counted.                             *)
LEMMA ResultsCounted ==
  ASSUME NEW s \in Statements
  PROVE  /\ ResultOf(s) # NoName => s.type = "assign"
         /\ s.type = "assign" =>
              /\ IsFiniteSet(Keeping(s)) /\ Cardinality(Keeping(s)) \in Nat
              /\ \A i : Rank(s, i) \in Nat
         /\ \E n \in Nat :
              /\ n = IF ResultOf(s) = NoName THEN 0 ELSE Cardinality(Keeping(s))
              /\ Results(s) = [i \in 1..n |-> Results(s)[i]]
<1>1. ResultOf(s) # NoName => s.type = "assign"
  BY DEF ResultOf, IsResultOf
<1>2. ASSUME s.type = "assign"
      PROVE  /\ IsFiniteSet(Keeping(s)) /\ Cardinality(Keeping(s)) \in Nat
             /\ \A i : Rank(s, i) \in Nat
  <2>1. s.targets \in Seq(Places)
    BY <1>2, StatementKinds
  <2>2. Keeping(s) \subseteq 1..Len(s.targets) /\ Len(s.targets) \in Nat
    BY <2>1 DEF Keeping
  <2>3. IsFiniteSet(Keeping(s))
    <3>1. IsFiniteSet(1..Len(s.targets))
      BY <2>2, FS_Interval
    <3>. QED BY <2>2, <3>1, FS_Subset
  <2>4. ASSUME NEW i PROVE Rank(s, i) \in Nat
    <3>1. {k \in Keeping(s) : k <= i} \subseteq Keeping(s)
      OBVIOUS
    <3>. QED BY <2>3, <3>1, FS_Subset, FS_CardinalityType DEF Rank
  <2>. QED BY <2>3, <2>4, FS_CardinalityType
<1>3. CASE ResultOf(s) = NoName
  <2>1. Results(s) = <<>>
    BY <1>3 DEF Results
  <2>2. Results(s) = [i \in 1..0 |-> Results(s)[i]]
    BY <2>1
  <2>. QED BY <1>1, <1>2, <1>3, <2>2
<1>4. CASE ResultOf(s) # NoName
  <2>. DEFINE n == Cardinality(Keeping(s))
  <2>1. n \in Nat
    BY <1>1, <1>2, <1>4
  <2>2. Results(s) = [i \in 1..n |-> Results(s)[i]]
    BY <1>4, Zenon DEF Results
  <2>. HIDE DEF n
  <2>3. n = IF ResultOf(s) = NoName THEN 0 ELSE Cardinality(Keeping(s))
    BY <1>4 DEF n
  <2>. QED BY <1>1, <1>2, <2>1, <2>2, <2>3
<1>. QED BY <1>3, <1>4

(* What the names hold after a statement is a value for each.                *)
LEMMA AfterTyped ==
  ASSUME Types, NEW s \in Statements
  PROVE  AfterStatement(s) \in Envs /\ BodyEnv(s) = Hidden(AfterStatement(s), ParamsOf(s))
         /\ BodyEnv(s) \in Envs
<1>1. Env \in Envs /\ Len(meant) \in Nat
  BY DEF Types, Env
<1>2. ASSUME NEW name \in Names PROVE AfterStatement(s)[name] \in Int
  <2>. DEFINE i == CHOOSE j \in DOMAIN s.targets : IsLast(s, name, j)
  <2>1. CASE name \notin TargetNames(s) \ Unresolved \/ ResultOf(s) = NoName
    BY <1>1, <2>1 DEF AfterStatement, Envs, None
  <2>2. CASE ~(name \notin TargetNames(s) \ Unresolved \/ ResultOf(s) = NoName)
    <3>1. Rank(s, i) \in Nat
      <4>. HIDE DEF i
      <4>. QED BY <2>2, ResultsCounted
    <3>2. AfterStatement(s)[name] = Len(meant) + Rank(s, i)
      BY <2>2 DEF AfterStatement
    <3>. HIDE DEF i
    <3>. QED BY <1>1, <3>1, <3>2
  <2>. QED BY <2>1, <2>2
<1>3. AfterStatement(s) = [name \in Names |-> AfterStatement(s)[name]]
  <2>. DEFINE i(name) == CHOOSE j \in DOMAIN s.targets : IsLast(s, name, j)
              V(name) == IF name \notin TargetNames(s) \ Unresolved THEN Env[name]
                         ELSE IF ResultOf(s) = NoName THEN None
                         ELSE Len(meant) + Rank(s, i(name))
              e == AfterStatement(s)
  <2>1. e = [name \in Names |-> V(name)]
    BY DEF AfterStatement
  <2>. HIDE DEF V, e
  <2>2. e = [name \in Names |-> e[name]]
    BY <2>1, Zenon
  <2>. QED BY <2>2 DEF e
<1>4. AfterStatement(s) \in Envs
  <2>. DEFINE e == AfterStatement(s)
  <2>1. \A name \in Names : e[name] \in Int
    BY <1>2
  <2>2. e = [name \in Names |-> e[name]]
    BY <1>3
  <2>. HIDE DEF e
  <2>3. e \in Envs
    BY <2>1, <2>2 DEF Envs
  <2>. QED BY <2>3 DEF e
<1>5. BodyEnv(s) = Hidden(AfterStatement(s), ParamsOf(s))
  <2>1. \A name : (s.type = "function" /\ name \in s.params) <=> name \in ParamsOf(s)
    BY DEF ParamsOf
  <2>. QED BY <2>1 DEF BodyEnv, Hidden
<1>6. BodyEnv(s) \in Envs
  <2>1. \A p : \A e \in Envs : Hidden(e, p) \in Envs
    BY DEF Hidden, Envs, None
  <2>. QED BY <1>4, <1>5, <2>1
<1>. QED BY <1>4, <1>5, <1>6

\* The names the tracker takes for a factory, rightly or not.
Believed == Invoked \cup Mistaken

(* They are those whose value does not hide a factory from the tracker.      *)
LEMMA BelievedIs ==
  ASSUME NEW c \in Names \cup {NoName}
  PROVE  /\ c \in Believed <=> /\ c # NoName /\ LastName[c] \in Factories
                               /\ c = LastName[c] => Env[c] # None
         /\ c \in Believed => LastName[c] # NoName
<1>1. NoName \notin Names /\ Factories \subseteq Names
  BY TrackerAssumption
<1>2. Unbound # None
  BY DEF Unbound, None
<1>. QED BY <1>1, <1>2 DEF Believed, Invoked, Mistaken

(* The statements and the tracker agree on whether a value is kept.          *)
LEMMA SameResult ==
  ASSUME IInv, TopIs("open"), NEW s \in Statements, s.type = "assign"
  PROVE  ResultOf(s) = SymbolOf(tracker.scopes, s)
<1>1. /\ Tracker(tracker) /\ Len(tracker.scopes) = Len(envs) /\ Len(envs) \in Nat \ {0}
      /\ Level(Env, tracker.scopes, Len(tracker.scopes))
  <2>1. Depth \in Nat \ {0} /\ Tracker(tracker)
    BY DEF IInv, Types, Depth
  <2>2. Depth \in 1..Depth
    BY <2>1
  <2>. QED BY <2>1, <2>2, BodyOpen DEF Levels, Depth, Env
<1>2. CASE s.value.type = "call"
  <2>1. s.value \in Expressions
    BY StatementKinds
  <2>2. s.value \in Calls
    BY <1>2, <2>1 DEF Expressions, Places
  <2>3. s.value.callee \in Names \cup {NoName}
    BY <2>2, CallsAssumption
  <2>. DEFINE c == s.value.callee
  <2>4. Factory(tracker.scopes, c)
          = IF c = NoName THEN NoName
            ELSE IF /\ LastName[c] \in Factories
                    /\ c = LastName[c] => LookAt(tracker.scopes, Len(tracker.scopes), c) # None
            THEN LastName[c] ELSE NoName
    BY <1>1, <2>3, FactoryIs
  <2>5. c # NoName => Env[c] = LookAt(tracker.scopes, Len(tracker.scopes), c)
    BY <1>1, <2>3 DEF Level
  <2>6. ResultOf(s) = IF c \in Believed THEN LastName[c] ELSE NoName
    BY <1>2 DEF ResultOf, IsResultOf, Believed
  <2>7. ResultOf(s) = Factory(tracker.scopes, c)
    <3>1. c \in Believed <=> /\ c # NoName /\ LastName[c] \in Factories
                             /\ c = LastName[c] => Env[c] # None
      BY <2>3, BelievedIs
    <3>. HIDE DEF c
    <3>. QED BY <2>4, <2>5, <2>6, <3>1
  <2>. QED BY <1>2, <2>7 DEF SymbolOf
<1>3. CASE s.value.type # "call"
  BY <1>3 DEF ResultOf, IsResultOf, SymbolOf
<1>. QED BY <1>2, <1>3

(* A statement is written where the walk has seen all that is before it.     *)
LEMMA WriteTypes ==
  ASSUME IInv, NEW s \in Statements, Write(s)
  PROVE  /\ Types'
         /\ Len(work') = 2 * Depth /\ At(work', 2 * Depth) = Visit(s) /\ Stacked(work', Depth)
         /\ envs' = LET after == [envs EXCEPT ![Depth] = AfterStatement(s)]
                    IN  IF HasBody(s) THEN Append(after, BodyEnv(s)) ELSE after
         /\ Len(meant') = Len(meant)
                            + IF ResultOf(s) = NoName THEN 0 ELSE Cardinality(Keeping(s))
<1>. DEFINE n == Depth
<1>1. TopIs("open") /\ Types /\ work \in Seq(Steps) /\ n \in Nat \ {0} /\ envs \in Seq(Envs)
      /\ Len(envs) = n /\ tracker' = tracker /\ language' = language
      /\ DOMAIN meant = 1..Len(meant) /\ Len(meant) \in Nat
  BY DEF Write, IInv, Types, Depth
<1>2. Len(work) = 2 * n - 1 /\ Stacked(work, n)
  BY <1>1, BodyOpen
<1>3. Visit(s) \in Steps /\ <<Visit(s)>> \in Seq(Steps) /\ Len(<<Visit(s)>>) = 1
  BY DEF Visit, Steps, VisitSteps
<1>4. /\ work' \in Seq(Steps) /\ Len(work') = 1 + Len(work)
      /\ \A r \in 1..Len(work) : At(work', r) = At(work, r)
      /\ \A r \in (Len(work) + 1)..(1 + Len(work)) :
           /\ 1 + Len(work) + 1 - r \in 1..1
           /\ At(work', r) = <<Visit(s)>>[1 + Len(work) + 1 - r]
  <2>1. work' = <<Visit(s)>> \o work
    BY DEF Write
  <2>. QED BY <1>1, <1>3, <2>1, Push
<1>5. Len(work') = 2 * n /\ At(work', 2 * n) = Visit(s)
  <2>1. 2 * n \in (Len(work) + 1)..(1 + Len(work)) /\ 1 + Len(work) + 1 - 2 * n = 1
    BY <1>1, <1>2
  <2>. QED BY <1>1, <1>2, <1>4, <2>1
<1>6. Stacked(work', n)
  BY <1>1, <1>2, <1>4, StackedSame
<1>7. envs' = LET after == [envs EXCEPT ![n] = AfterStatement(s)]
              IN  IF HasBody(s) THEN Append(after, BodyEnv(s)) ELSE after
  BY DEF Write, Depth
<1>8. envs' \in Seq(Envs) /\ envs' # <<>>
  <2>. DEFINE after == [envs EXCEPT ![n] = AfterStatement(s)]
  <2>1. AfterStatement(s) \in Envs /\ BodyEnv(s) \in Envs
    BY <1>1, AfterTyped
  <2>2. after \in Seq(Envs) /\ Len(after) = n
    BY <1>1, <2>1 DEF Depth
  <2>3. envs' = after \/ envs' = Append(after, BodyEnv(s))
    BY <1>7
  <2>. HIDE DEF after, n
  <2>. QED BY <1>1, <2>1, <2>2, <2>3
<1>9. DOMAIN meant' = 1..Len(meant') /\ Len(meant') \in Nat
      /\ Len(meant') = Len(meant)
                         + IF ResultOf(s) = NoName THEN 0 ELSE Cardinality(Keeping(s))
  <2>. DEFINE k == IF ResultOf(s) = NoName THEN 0 ELSE Cardinality(Keeping(s))
              m == Len(meant)
              F == Evaluated(s)
              G == Results(s)
  <2>1. k \in Nat /\ G = [i \in 1..k |-> G[i]]
    BY ResultsCounted
  <2>2. F = [i \in 1..m |-> F[i]]
    BY <1>1, Zenon DEF Evaluated
  <2>3. meant' = F \o G /\ m \in Nat
    BY <1>1 DEF Write
  <2>. HIDE DEF k, m, F, G
  <2>4. DOMAIN meant' = 1..(m + k) /\ Len(meant') = m + k
    BY <2>1, <2>2, <2>3, TogetherLen
  <2>5. Len(meant') \in Nat /\ DOMAIN meant' = 1..Len(meant')
    BY <2>1, <2>3, <2>4
  <2>. QED BY <2>4, <2>5 DEF k, m
<1>10. Types'
  BY <1>1, <1>4, <1>8, <1>9 DEF Types
<1>. QED BY <1>5, <1>6, <1>7, <1>9, <1>10

(* A call that is a statement leaves every name as it is.                    *)
LEMMA WriteCall ==
  ASSUME IInv, NEW s \in Statements, Write(s), s.type = "call", s \in Calls
  PROVE  Working'
<1>. DEFINE n == Depth
            e == AfterStatement(s)
<1>1. /\ TopIs("open") /\ tracker' = tracker /\ Types /\ n \in Nat \ {0} /\ envs \in Seq(Envs)
      /\ Len(envs) = n /\ work \in Seq(Steps)
  BY DEF Write, IInv, Types, Depth
<1>2. /\ Len(work) = 2 * n - 1 /\ Len(tracker.scopes) = n /\ Levels(envs, tracker.scopes, n)
      /\ Len(meant) = Len(tracker.stored) /\ Len(tracker.stored) \in Nat
  BY <1>1, BodyOpen DEF Types, Tracker
<1>3. /\ Len(work') = 2 * n /\ At(work', 2 * n) = Visit(s) /\ Stacked(work', n)
      /\ ~HasBody(s) /\ envs' = [envs EXCEPT ![n] = e] /\ Len(meant') = Len(meant)
  <2>1. ResultOf(s) = NoName /\ ~HasBody(s)
    BY DEF ResultOf, IsResultOf, HasBody
  <2>. QED BY <1>2, <2>1, WriteTypes
<1>4. Len(envs') = n /\ envs'[n] = e /\ \A i \in 1..(n - 1) : envs'[i] = envs[i]
  <2>1. e \in Envs
    BY <1>1, AfterTyped
  <2>. HIDE DEF e, n
  <2>. QED BY <1>1, <1>3, <2>1
<1>5. Levels(envs', tracker.scopes, n - 1)
  <2>1. n - 1 \in Int /\ \A i \in 1..(n - 1) : i \in 1..n
    BY <1>1
  <2>2. Levels(envs, tracker.scopes, n - 1)
    BY <1>2, <2>1 DEF Levels
  <2>. HIDE DEF n
  <2>. QED BY <1>4, <2>1, <2>2, LevelsSame
<1>6. Level(e, tracker.scopes, n)
  <2>1. \A x \in Names : e[x] = Env[x]
    BY DEF AfterStatement, TargetNames
  <2>2. n \in 1..n
    BY <1>1
  <2>. HIDE DEF e
  <2>. QED BY <1>2, <2>1, <2>2 DEF Levels, Level, Env, Depth
<1>7. Pending(work', 2 * n - 1, e, n, tracker) /\ BindsFrom(work', 2 * n) = {}
  <2>. DEFINE v == <<Visit(s)>>
              b == 2 * n - 1
  <2>1. v \in Seq(Steps) /\ (\A i \in 1..Len(v) : v[i].op = "visit") /\ work' = v \o work
    BY DEF Write, Visit, Steps, VisitSteps
  <2>2. b \in Nat /\ b <= Len(work) /\ Len(work) = b /\ b + 1 = 2 * n
    BY <1>1, <1>2
  <2>. HIDE DEF v, b, e
  <2>3. Pending(work, b, e, n, tracker) /\ BindsFrom(work, b + 1) = {}
    BY <1>1, <1>6, <2>2, NoneLeft
  <2>4. Pending(v \o work, b, e, n, tracker)
        /\ BindsFrom(v \o work, b + 1) = BindsFrom(work, b + 1)
    <3>. HIDE DEF n
    <3>1. work \in Seq(Steps)
      BY <1>1
    <3>2. \A c \in Nat : c <= Len(work) /\ Pending(work, c, e, n, tracker) =>
            /\ Pending(v \o work, c, e, n, tracker)
            /\ BindsFrom(v \o work, c + 1) = BindsFrom(work, c + 1)
      BY <2>1, <3>1, PutVisits
    <3>. QED BY <2>2, <2>3, <3>2, Zenon
  <2>5. Pending(work', b, e, n, tracker) /\ BindsFrom(work', b + 1) = {}
    BY <2>1, <2>3, <2>4
  <2>. QED BY <2>2, <2>5 DEF b
<1>8. Len(meant') = Len(tracker.stored) + Cardinality(BindsFrom(work', 2 * n))
  <2>1. Cardinality(BindsFrom(work', 2 * n)) = 0
    BY <1>7, FS_EmptySet, Zenon
  <2>. QED BY <1>2, <1>3, <2>1
<1>9. \A r \in (2 * n)..Len(work') : At(work', r) \in Simple
  <2>1. \A r \in (2 * n)..Len(work') : r = 2 * n
    BY <1>1, <1>3
  <2>2. Visit(s) \in Simple
    BY DEF Visit, Simple, VisitSteps, Expressions
  <2>. QED BY <1>3, <2>1, <2>2
<1>10. Len(work') >= 2 * n - 1
  BY <1>1, <1>3
<1>. HIDE DEF n, e
<1>11. Depth' = n
  BY <1>4 DEF Depth
<1>. QED BY <1>1, <1>2, <1>3, <1>4, <1>5, <1>7, <1>8, <1>9, <1>10, <1>11 DEF Working

(* The names of an assignment hold its value before the walk sees it.        *)
LEMMA WriteAssign ==
  ASSUME IInv, NEW s \in Statements, Write(s), s.type = "assign"
  PROVE  Assigning'
<1>. DEFINE n == Depth
            e == AfterStatement(s)
<1>1. /\ TopIs("open") /\ tracker' = tracker /\ Types /\ n \in Nat \ {0} /\ envs \in Seq(Envs)
      /\ Len(envs) = n /\ Expressible(s) /\ language' = language
  BY DEF Write, IInv, Types, Depth
<1>2. /\ Len(tracker.scopes) = n /\ Levels(envs, tracker.scopes, n)
      /\ Len(meant) = Len(tracker.stored)
  BY <1>1, BodyOpen
<1>3. ResultOf(s) = SymbolOf(tracker.scopes, s)
  BY <1>1, SameResult
<1>4. /\ Len(work') = 2 * n /\ At(work', 2 * n) = Visit(s) /\ Stacked(work', n)
      /\ envs' = [envs EXCEPT ![n] = e]
      /\ Len(meant') = Len(tracker.stored)
                         + IF SymbolOf(tracker.scopes, s) = NoName THEN 0
                           ELSE Cardinality(Keeping(s))
  <2>1. ~HasBody(s)
    BY DEF HasBody
  <2>. QED BY <1>2, <1>3, <2>1, WriteTypes
<1>5. Len(envs') = n /\ envs'[n] = e /\ \A i \in 1..(n - 1) : envs'[i] = envs[i]
  <2>1. e \in Envs
    BY <1>1, AfterTyped
  <2>. HIDE DEF e, n
  <2>. QED BY <1>1, <1>4, <2>1
<1>6. Levels(envs', tracker.scopes, n - 1)
  <2>1. n - 1 \in Int /\ \A i \in 1..(n - 1) : i \in 1..n
    BY <1>1
  <2>2. Levels(envs, tracker.scopes, n - 1)
    BY <1>2, <2>1 DEF Levels
  <2>. HIDE DEF n
  <2>. QED BY <1>5, <2>1, <2>2, LevelsSame
<1>7. Assigned(s, e, tracker)
  <2>1. n \in 1..n
    BY <1>1
  <2>2. \A x \in Names : Env[x] = LookAt(tracker.scopes, Len(tracker.scopes), x)
    BY <1>2, <2>1 DEF Levels, Level, Env, Depth
  <2>. QED BY <1>2, <1>3, <2>2 DEF Assigned, AfterStatement
<1>8. Expressible(s)'
  BY <1>1 DEF Expressible
<1>. HIDE DEF n, e
<1>9. Depth' = n
  BY <1>5 DEF Depth
<1>. QED BY <1>1, <1>2, <1>4, <1>5, <1>6, <1>7, <1>8, <1>9 DEF Assigning

(* A function or a class is defined and has a body.                          *)
LEMMA WriteBody ==
  ASSUME IInv, NEW s \in Statements, Write(s), s.type \in {"function", "class"}
  PROVE  Defining'
<1>. DEFINE n == Depth
            e == AfterStatement(s)
            f == BodyEnv(s)
<1>1. /\ TopIs("open") /\ tracker' = tracker /\ Types /\ n \in Nat \ {0} /\ envs \in Seq(Envs)
      /\ Len(envs) = n /\ Expressible(s) /\ language' = language
  BY DEF Write, IInv, Types, Depth
<1>2. /\ Len(tracker.scopes) = n /\ Levels(envs, tracker.scopes, n)
      /\ Len(meant) = Len(tracker.stored) /\ Len(tracker.stored) \in Nat
  BY <1>1, BodyOpen DEF Types, Tracker
<1>3. ResultOf(s) = NoName /\ HasBody(s)
  BY DEF ResultOf, IsResultOf, HasBody
<1>4. /\ Len(work') = 2 * n /\ At(work', 2 * n) = Visit(s) /\ Stacked(work', n)
      /\ envs' = Append([envs EXCEPT ![n] = e], f)
      /\ Len(meant') = Len(tracker.stored)
  BY <1>2, <1>3, WriteTypes
<1>5. /\ Len(envs') = n + 1 /\ envs'[n + 1] = f /\ envs'[n] = e
      /\ \A i \in 1..(n - 1) : envs'[i] = envs[i]
  <2>1. e \in Envs /\ f \in Envs
    BY <1>1, AfterTyped
  <2>. HIDE DEF e, f, n
  <2>2. [envs EXCEPT ![n] = e] \in Seq(Envs) /\ Len([envs EXCEPT ![n] = e]) = n
    BY <1>1, <2>1
  <2>. QED BY <1>1, <1>4, <2>1, <2>2
<1>6. Levels(envs', tracker.scopes, n - 1)
  <2>1. n - 1 \in Int /\ \A i \in 1..(n - 1) : i \in 1..n
    BY <1>1
  <2>2. Levels(envs, tracker.scopes, n - 1)
    BY <1>2, <2>1 DEF Levels
  <2>. HIDE DEF n
  <2>. QED BY <1>5, <2>1, <2>2, LevelsSame
<1>7. f = Hidden(e, ParamsOf(s))
  BY <1>1, AfterTyped
<1>8. \A x \in Names : e[x] = IF x \in TargetNames(s) \ Unresolved THEN None
                              ELSE LookAt(tracker.scopes, n, x)
  <2>1. n \in 1..n
    BY <1>1
  <2>2. \A x \in Names : Env[x] = LookAt(tracker.scopes, n, x)
    BY <1>2, <2>1 DEF Levels, Level, Env, Depth
  <2>. QED BY <1>3, <2>2 DEF AfterStatement
<1>9. Expressible(s)'
  BY <1>1 DEF Expressible
<1>. HIDE DEF n, e, f
<1>10. /\ Depth' = n + 1 /\ (n + 1) - 1 = n /\ (n + 1) - 2 = n - 1 /\ 2 * (n + 1) - 2 = 2 * n
       /\ n + 1 > 1
  BY <1>1, <1>5 DEF Depth
<1>11. \E t \in Statements :
         /\ At(work', 2 * n) = Visit(t)
         /\ t.type \in {"function", "class"} /\ Expressible(t)'
         /\ envs'[n + 1] = Hidden(envs'[n], ParamsOf(t))
         /\ \A x \in Names : envs'[n][x] = IF x \in TargetNames(t) \ Unresolved THEN None
                                           ELSE LookAt(tracker'.scopes, n, x)
  BY <1>1, <1>4, <1>5, <1>7, <1>8, <1>9
<1>. QED BY <1>1, <1>2, <1>4, <1>6, <1>10, <1>11 DEF Defining

(* The author's next statement puts the walk before it.                     *)
LEMMA WriteStep ==
  ASSUME IInv, NEW s \in Statements, Write(s)
  PROVE  IInv'
<1>1. Types'
  BY WriteTypes
<1>2. Phase'
  BY StatementKinds, WriteCall, WriteAssign, WriteBody DEF Phase
<1>. QED BY <1>1, <1>2 DEF IInv

(* The end of a body leaves the names around it as they were.                *)
LEMMA CloseStep ==
  ASSUME IInv, CloseBody
  PROVE  IInv'
<1>. DEFINE n == Depth
<1>1. /\ TopIs("open") /\ tracker' = tracker /\ language' = language /\ meant' = meant /\ Types
      /\ n \in Nat \ {0} /\ envs \in Seq(Envs) /\ Len(envs) = n /\ work \in Seq(Steps)
      /\ work' = Tail(work) /\ work # <<>>
  BY DEF CloseBody, IInv, Types, Depth, TopIs
<1>2. /\ Len(work) = 2 * n - 1 /\ Stacked(work, n) /\ Len(tracker.scopes) = n
      /\ Levels(envs, tracker.scopes, n) /\ Len(meant) = Len(tracker.stored)
  BY <1>1, BodyOpen
<1>3. /\ work' \in Seq(Steps) /\ Len(work') = 2 * n - 2
      /\ \A r \in 1..(2 * n - 2) : At(work', r) = At(work, r)
  <2>1. Len(work) - 1 = 2 * n - 2
    BY <1>1, <1>2
  <2>. QED BY <1>1, <2>1, Pop
<1>4. CASE n > 1
  <2>. DEFINE m == n - 1
  <2>1. /\ m \in Nat \ {0} /\ 2 * n - 2 = 2 * m /\ n = m + 1 /\ m <= n /\ m \in Nat
        /\ m \in 1..(n - 1) /\ 2 * m \in 1..(2 * n - 2)
    BY <1>1, <1>4
  <2>2. envs' = SubSeq(envs, 1, n - 1)
    BY <1>4 DEF CloseBody, Front, Depth
  <2>3. /\ envs' \in Seq(Envs) /\ Len(envs') = m /\ \A i \in 1..m : envs'[i] = envs[i]
    BY <1>1, <2>1, <2>2
  <2>4. Stacked(work', m)
    <3>1. Stacked(work, m)
      BY <1>1, <1>2, <2>1, StackedLess
    <3>2. \A r \in 1..(2 * m - 1) : r \in 1..(2 * n - 2)
      BY <2>1
    <3>. HIDE DEF m, n
    <3>. QED BY <1>3, <2>1, <3>1, <3>2, StackedSame
  <2>5. At(work', 2 * m) = ExitStep
    BY <1>2, <1>3, <2>1 DEF Stacked
  <2>6. Levels(envs', tracker.scopes, m)
    <3>1. \A i \in 1..m : i \in 1..n
      BY <2>1
    <3>2. Levels(envs, tracker.scopes, m) /\ m \in Int
      BY <1>2, <2>1, <3>1 DEF Levels
    <3>. HIDE DEF m, n
    <3>. QED BY <2>3, <3>2, LevelsSame
  <2>. HIDE DEF m, n
  <2>7. Depth' = m /\ Len(work') = 2 * m /\ envs' # <<>>
    BY <1>3, <2>1, <2>3 DEF Depth
  <2>8. Leaving'
    BY <1>1, <1>2, <2>1, <2>4, <2>5, <2>6, <2>7 DEF Leaving
  <2>9. Types'
    BY <1>1, <1>3, <2>3, <2>7 DEF Types
  <2>. QED BY <2>8, <2>9 DEF IInv, Phase
<1>5. CASE ~(n > 1)
  <2>1. n = 1 /\ 2 * n - 2 = 0
    BY <1>1, <1>5
  <2>2. envs' = envs
    BY <1>5 DEF CloseBody, Depth
  <2>3. work' = <<>>
    BY <1>3, <2>1
  <2>4. Finished'
    BY <1>1, <1>2, <2>1, <2>2, <2>3 DEF Finished, Depth
  <2>5. Types'
    BY <1>1, <1>3, <2>2 DEF Types
  <2>. QED BY <2>4, <2>5 DEF IInv, Phase
<1>. QED BY <1>4, <1>5

-----------------------------------------------------------------------------
(* Visits of calls and names.                                                *)

(* The top of the stack gives way to other steps.                            *)
LEMMA ReplaceTop ==
  ASSUME NEW S, NEW v \in Seq(S), NEW w \in Seq(S), w # <<>>
  PROVE  /\ v \o Tail(w) \in Seq(S) /\ Len(v \o Tail(w)) = Len(v) + Len(w) - 1
         /\ Len(v) \in Nat /\ Len(w) \in Nat \ {0} /\ Tail(w) \in Seq(S)
         /\ Len(Tail(w)) = Len(w) - 1
         /\ \A r \in 1..(Len(w) - 1) : At(v \o Tail(w), r) = At(w, r)
         /\ \A r \in Len(w)..(Len(v) + Len(w) - 1) :
              /\ Len(v) + Len(w) - r \in 1..Len(v)
              /\ At(v \o Tail(w), r) = v[Len(v) + Len(w) - r]
<1>. DEFINE u == Tail(w)
            x == v \o u
<1>1. /\ u \in Seq(S) /\ Len(u) = Len(w) - 1 /\ Len(w) \in Nat \ {0}
      /\ \A r \in 1..(Len(w) - 1) : At(u, r) = At(w, r)
  BY Pop
<1>. HIDE DEF u
<1>2. /\ x \in Seq(S) /\ Len(x) = Len(v) + Len(u) /\ Len(v) \in Nat
      /\ \A r \in 1..Len(u) : At(x, r) = At(u, r)
      /\ \A r \in (Len(u) + 1)..(Len(v) + Len(u)) :
           /\ Len(v) + Len(u) + 1 - r \in 1..Len(v)
           /\ At(x, r) = v[Len(v) + Len(u) + 1 - r]
  BY <1>1, Push
<1>. HIDE DEF x
<1>3. ASSUME NEW r \in Len(w)..(Len(v) + Len(w) - 1)
      PROVE  /\ Len(v) + Len(w) - r \in 1..Len(v)
             /\ At(x, r) = v[Len(v) + Len(w) - r]
  <2>1. r \in (Len(u) + 1)..(Len(v) + Len(u))
        /\ Len(v) + Len(u) + 1 - r = Len(v) + Len(w) - r
    BY <1>1, <1>2
  <2>. QED BY <1>2, <2>1
<1>4. \A r \in 1..(Len(w) - 1) : At(x, r) = At(w, r)
  BY <1>1, <1>2
<1>5. Len(x) = Len(v) + Len(w) - 1
  BY <1>1, <1>2
<1>. QED BY <1>1, <1>2, <1>3, <1>4, <1>5 DEF x, u

(* A list of visits.                                                         *)
LEMMA Visiting ==
  ASSUME NEW nodes, NEW s \in Seq(nodes)
  PROVE  VisitAll(s) \in Seq(VisitSteps(nodes)) /\ Len(VisitAll(s)) = Len(s)
<1>1. s \in [1..Len(s) -> nodes] /\ Len(s) \in Nat /\ DOMAIN s = 1..Len(s)
  OBVIOUS
<1>2. \A i \in 1..Len(s) : Visit(s[i]) \in VisitSteps(nodes)
  BY <1>1 DEF Visit, VisitSteps
<1>3. VisitAll(s) = [i \in 1..Len(s) |-> Visit(s[i])]
  BY <1>1 DEF VisitAll
<1>. QED BY <1>1, <1>2, <1>3

(* A call or a name leaves the names as they are, and what comes of it are   *)
(* the calls inside it.                                                      *)
LEMMA ExpressionVisited ==
  ASSUME NEW t, Tracker(t), NEW node \in Expressions
  PROVE  /\ Tracker(Record(t, node)) /\ Record(t, node).scopes = t.scopes
         /\ Len(Record(t, node).stored) = Len(t.stored)
         /\ \A u : Children(u, node) \in Seq(VisitSteps(Expressions))
<1>1. CASE node \in Calls
  <2>1. node.type = "call" /\ node.inner \in Seq(Calls)
    BY <1>1, CallsAssumption
  <2>2. Record(t, node) = RecordCall(t, node)
    BY <2>1 DEF Record
  <2>3. \A u : Children(u, node) = VisitAll(node.inner)
    BY <2>1 DEF Children
  <2>4. node.inner \in Seq(Expressions)
    <3>1. Calls \subseteq Expressions
      BY DEF Expressions
    <3>. QED BY <2>1, <3>1
  <2>5. VisitAll(node.inner) \in Seq(VisitSteps(Expressions))
    BY <2>4, Visiting
  <2>. QED BY <2>2, <2>3, <2>5, RecordCallKeeps
<1>2. CASE node \in Places
  <2>1. node.type \in {"ref", "subscript"}
    BY <1>2 DEF Places
  <2>2. Record(t, node) = t
    BY <2>1 DEF Record
  <2>3. \A u : Children(u, node) = <<>>
    BY <2>1 DEF Children
  <2>4. <<>> \in Seq(VisitSteps(Expressions))
    OBVIOUS
  <2>. QED BY <2>2, <2>3, <2>4, Zenon
<1>. QED BY <1>1, <1>2 DEF Expressions

(* What a visit puts on the stack, and what it leaves.                       *)
LEMMA VisitReplaces ==
  ASSUME IInv, VisitNode, NEW T, T \subseteq Steps,
         Children(tracker', Top.node) \in Seq(T)
  PROVE  LET v == Children(tracker', Top.node)
         IN  /\ work' = v \o Tail(work) /\ v \in Seq(Steps)
             /\ work' \in Seq(Steps) /\ Len(work') = Len(v) + Len(work) - 1
             /\ Len(v) \in Nat /\ Len(work) \in Nat \ {0}
             /\ \A r \in 1..(Len(work) - 1) : At(work', r) = At(work, r)
             /\ \A r \in Len(work)..(Len(v) + Len(work) - 1) :
                  /\ Len(v) + Len(work) - r \in 1..Len(v)
                  /\ At(work', r) = v[Len(v) + Len(work) - r] /\ At(work', r) \in T
<1>. DEFINE v == Children(tracker', Top.node)
<1>1. work' = v \o Tail(work) /\ work \in Seq(Steps) /\ work # <<>>
  BY DEF VisitNode, IInv, Types, TopIs
<1>. HIDE DEF v
<1>2. v \in Seq(T) /\ v \in Seq(Steps)
  BY DEF v
<1>3. /\ work' \in Seq(Steps) /\ Len(work') = Len(v) + Len(work) - 1
      /\ Len(v) \in Nat /\ Len(work) \in Nat \ {0}
      /\ \A r \in 1..(Len(work) - 1) : At(work', r) = At(work, r)
      /\ \A r \in Len(work)..(Len(v) + Len(work) - 1) :
           /\ Len(v) + Len(work) - r \in 1..Len(v)
           /\ At(work', r) = v[Len(v) + Len(work) - r]
  BY <1>1, <1>2, ReplaceTop
<1>4. \A i \in 1..Len(v) : v[i] \in T
  BY <1>2
<1>. QED BY <1>1, <1>2, <1>3, <1>4 DEF v

(* Visits of expressions are steps, and those of a statement are too.        *)
LEMMA SomeSteps ==
  VisitSteps(Expressions) \subseteq Simple /\ Simple \subseteq Steps
  /\ VisitSteps(Expressions) \subseteq Steps
<1>. QED BY DEF Simple, Steps

(* What the walk leaves alone.                                               *)
LEMMA WalkTypes ==
  ASSUME IInv, UNCHANGED history, work' \in Seq(Steps), Tracker(tracker')
  PROVE  Types' /\ Depth' = Depth /\ envs' = envs /\ meant' = meant /\ language' = language
<1>. QED BY DEF IInv, Types, history, Depth

(* A call or a name in the middle of a statement.                            *)
LEMMA VisitWorking ==
  ASSUME IInv, VisitNode, Working, Len(work) >= 2 * Depth
  PROVE  IInv'
<1>. DEFINE n == Depth
            t == tracker
            u == Record(tracker, Top.node)
            v == Children(tracker', Top.node)
            e == envs[n]
<1>1. /\ n \in Nat \ {0} /\ Tracker(t) /\ work \in Seq(Steps) /\ work # <<>> /\ Len(work) \in Nat
      /\ tracker' = u /\ Top.op = "visit" /\ At(work, Len(work)) = Top
      /\ UNCHANGED history
  BY TopOf DEF IInv, Types, VisitNode, TopIs
<1>2. Top.node \in Expressions /\ Top.op = "visit"
  <2>1. Len(work) \in (2 * n)..Len(work)
    BY <1>1
  <2>2. Top \in Simple
    BY <1>1, <2>1 DEF Working
  <2>. QED BY <1>1, <2>2 DEF Simple, VisitSteps, StoreSteps, Binds
<1>3. /\ Tracker(u) /\ u.scopes = t.scopes /\ Len(u.stored) = Len(t.stored)
      /\ v \in Seq(VisitSteps(Expressions))
  BY <1>1, <1>2, ExpressionVisited
<1>4. /\ work' = v \o Tail(work) /\ v \in Seq(Steps)
      /\ work' \in Seq(Steps) /\ Len(work') = Len(v) + Len(work) - 1
      /\ Len(v) \in Nat /\ Len(work) \in Nat \ {0}
      /\ \A r \in 1..(Len(work) - 1) : At(work', r) = At(work, r)
      /\ \A r \in Len(work)..(Len(v) + Len(work) - 1) : At(work', r) \in VisitSteps(Expressions)
  BY <1>3, VisitReplaces, SomeSteps
<1>. HIDE DEF v
<1>5. Types' /\ Depth' = n /\ envs' = envs /\ meant' = meant
  <2>1. Tracker(tracker')
    BY <1>1, <1>3
  <2>. QED BY <1>1, <1>4, <2>1, WalkTypes
<1>. HIDE DEF u, t, n, e
<1>6. Taken(work[1], n, t, u)
  BY <1>1, <1>3, <1>2 DEF Taken, Writes, Keeps, Top, Tracker
<1>7. /\ Pending(work, 2 * n - 1, e, n, t)
      /\ Len(meant) = Len(t.stored) + Cardinality(BindsFrom(work, 2 * n))
      /\ Stacked(work, n) /\ \A r \in (2 * n)..Len(work) : At(work, r) \in Simple
      /\ Len(t.scopes) = n /\ Levels(envs, t.scopes, n - 1)
  BY DEF Working, t, n, e
<1>8. /\ Pending(Tail(work), 2 * n - 1, e, n, u)
      /\ Len(u.stored) + Cardinality(BindsFrom(Tail(work), 2 * n)) = Len(meant)
  <2>1. 2 * n - 1 \in Nat /\ 2 * n - 1 < Len(work) /\ (2 * n - 1) + 1 = 2 * n
    BY <1>1 DEF n
  <2>2. \A b \in Nat : b < Len(work) /\ Pending(work, b, e, n, t) =>
          /\ Pending(Tail(work), b, e, n, u)
          /\ Len(u.stored) + Cardinality(BindsFrom(Tail(work), b + 1))
               = Len(t.stored) + Cardinality(BindsFrom(work, b + 1))
    BY <1>1, <1>3, <1>6, TakeStep
  <2>. QED BY <1>7, <2>1, <2>2
<1>9. /\ Pending(work', 2 * n - 1, e, n, u)
      /\ BindsFrom(work', 2 * n) = BindsFrom(Tail(work), 2 * n)
  <2>1. 2 * n - 1 \in Nat /\ 2 * n - 1 <= Len(work) - 1 /\ (2 * n - 1) + 1 = 2 * n
    BY <1>1 DEF n
  <2>2. Tail(work) \in Seq(Steps) /\ Len(Tail(work)) = Len(work) - 1
    BY <1>1
  <2>3. \A i \in 1..Len(v) : v[i].op = "visit"
    BY <1>3, Kinds
  <2>4. \A b \in Nat : b <= Len(Tail(work)) /\ Pending(Tail(work), b, e, n, u) =>
          /\ Pending(v \o Tail(work), b, e, n, u)
          /\ BindsFrom(v \o Tail(work), b + 1) = BindsFrom(Tail(work), b + 1)
    BY <1>4, <2>2, <2>3, PutVisits
  <2>. QED BY <1>4, <1>8, <2>1, <2>2, <2>4
<1>10. Stacked(work', n)
  <2>1. \A r \in 1..(2 * n - 1) : r \in 1..(Len(work) - 1)
    BY <1>1 DEF n
  <2>. QED BY <1>1, <1>4, <1>7, <2>1, StackedSame
<1>11. \A r \in (2 * n)..Len(work') : At(work', r) \in Simple
  <2>1. \A r \in (2 * n)..Len(work') : \/ r \in 1..(Len(work) - 1) /\ r \in (2 * n)..Len(work)
                                       \/ r \in Len(work)..(Len(v) + Len(work) - 1)
    BY <1>1, <1>4
  <2>. QED BY <1>4, <1>7, <2>1, SomeSteps
<1>12. Len(work') >= 2 * n - 1
  BY <1>1, <1>4 DEF n
<1>13. Working'
  BY <1>1, <1>3, <1>5, <1>7, <1>8, <1>9, <1>10, <1>11, <1>12 DEF Working, e
<1>. QED BY <1>5, <1>13 DEF IInv, Phase

(* A call in the default of a parameter.                                     *)
LEMMA VisitEntering ==
  ASSUME IInv, VisitNode, Entering, Len(work) > 2 * Depth
  PROVE  IInv'
<1>. DEFINE n == Depth
            t == tracker
            u == Record(tracker, Top.node)
            v == Children(tracker', Top.node)
<1>1. /\ n \in Nat \ {0} /\ Tracker(t) /\ work \in Seq(Steps) /\ work # <<>> /\ Len(work) \in Nat
      /\ tracker' = u /\ Top.op = "visit" /\ At(work, Len(work)) = Top
      /\ UNCHANGED history
  BY TopOf DEF IInv, Types, VisitNode, TopIs
<1>2. Top.node \in Expressions
  <2>1. Len(work) \in (2 * n + 1)..Len(work)
    BY <1>1
  <2>2. Top \in VisitSteps(Expressions)
    BY <1>1, <2>1 DEF Entering
  <2>. QED BY <2>2 DEF VisitSteps
<1>3. /\ Tracker(u) /\ u.scopes = t.scopes /\ Len(u.stored) = Len(t.stored)
      /\ v \in Seq(VisitSteps(Expressions))
  BY <1>1, <1>2, ExpressionVisited
<1>4. /\ work' \in Seq(Steps) /\ Len(work') = Len(v) + Len(work) - 1
      /\ Len(v) \in Nat /\ Len(work) \in Nat \ {0}
      /\ \A r \in 1..(Len(work) - 1) : At(work', r) = At(work, r)
      /\ \A r \in Len(work)..(Len(v) + Len(work) - 1) : At(work', r) \in VisitSteps(Expressions)
  BY <1>3, VisitReplaces, SomeSteps
<1>. HIDE DEF v
<1>5. Types' /\ Depth' = n /\ envs' = envs /\ meant' = meant
  <2>1. Tracker(tracker')
    BY <1>1, <1>3
  <2>. QED BY <1>1, <1>4, <2>1, WalkTypes
<1>. HIDE DEF u, t, n
<1>6. /\ n > 1 /\ Stacked(work, n) /\ Len(t.scopes) = n - 1 /\ Levels(envs, t.scopes, n - 1)
      /\ Len(meant) = Len(t.stored) /\ Len(work) > 2 * n
      /\ \A r \in (2 * n + 1)..Len(work) : At(work, r) \in VisitSteps(Expressions)
  BY DEF Entering, t, n
<1>7. Stacked(work', n) /\ At(work', 2 * n) = At(work, 2 * n)
  <2>1. \A r \in 1..(2 * n) : r \in 1..(Len(work) - 1)
    BY <1>1, <1>6
  <2>2. 2 * n \in 1..(2 * n) /\ \A r \in 1..(2 * n - 1) : r \in 1..(2 * n)
    BY <1>1
  <2>. QED BY <1>1, <1>4, <1>6, <2>1, <2>2, StackedSame
<1>8. \A r \in (2 * n + 1)..Len(work') : At(work', r) \in VisitSteps(Expressions)
  <2>1. \A r \in (2 * n + 1)..Len(work') :
          \/ r \in 1..(Len(work) - 1) /\ r \in (2 * n + 1)..Len(work)
          \/ r \in Len(work)..(Len(v) + Len(work) - 1)
    BY <1>1, <1>4
  <2>. QED BY <1>4, <1>6, <2>1
<1>9. Len(work') >= 2 * n
  BY <1>1, <1>4, <1>6
<1>10. Entering'
  BY <1>1, <1>3, <1>5, <1>6, <1>7, <1>8, <1>9 DEF Entering, n, t
<1>. QED BY <1>5, <1>10 DEF IInv, Phase

-----------------------------------------------------------------------------
(* Visits of assignments.                                                    *)

\* From p on, the stack has a binding of each of the m targets, and no other.
BindsAt(w, p, m, s) ==
  /\ DOMAIN s.targets = 1..m /\ Len(w) \in Nat /\ p + m - 1 <= Len(w)
  /\ \A j \in 1..m : At(w, p + m - j).op = "bind" /\ At(w, p + m - j).target = s.targets[j]
  /\ \A r \in (p + m)..Len(w) : At(w, r).op # "bind"

\* The bindings from that of the j-th target on are as many as its rank.
RanksAt(w, p, m, s) == \A j \in 0..m : Cardinality(BindsFrom(w, p + m - j)) = Rank(s, j)

(* The records that are still to be kept for the first j targets.            *)
LEMMA CountBinds ==
  ASSUME NEW w, NEW p \in Nat, NEW m \in Nat, NEW s, BindsAt(w, p, m, s)
  PROVE  RanksAt(w, p, m, s)
<1>. SUFFICES ASSUME NEW j \in 0..m PROVE Cardinality(BindsFrom(w, p + m - j)) = Rank(s, j)
  BY DEF RanksAt
<1>. DEFINE A == {k \in Keeping(s) : k <= j}
            B == BindsFrom(w, p + m - j)
            g == [k \in A |-> p + m - k]
<1>0. /\ DOMAIN s.targets = 1..m /\ Len(w) \in Nat /\ p + m - 1 <= Len(w)
      /\ \A i \in 1..m : At(w, p + m - i).op = "bind" /\ At(w, p + m - i).target = s.targets[i]
      /\ \A r \in (p + m)..Len(w) : At(w, r).op # "bind"
  BY DEF BindsAt
<1>1. A \subseteq 1..m /\ \A k \in A : k <= j /\ Bindable(s.targets[k])
  BY <1>0 DEF Keeping
<1>2. \A k \in 1..m : k <= j /\ Bindable(s.targets[k]) => k \in A
  BY <1>0 DEF Keeping
<1>3. \A r \in (p + m - j)..Len(w) : r \in (p + m)..Len(w)
                                       \/ (p + m - r \in 1..m /\ p + m - r <= j
                                             /\ p + m - (p + m - r) = r)
  BY <1>0
<1>4. \A k \in 1..m : k <= j => p + m - k \in (p + m - j)..Len(w)
  BY <1>0
<1>. HIDE DEF A
<1>5. \A k \in A : p + m - k \in B
  BY <1>0, <1>1, <1>4 DEF BindsFrom
<1>6. \A r \in B : p + m - r \in A /\ p + m - (p + m - r) = r
  <2>. SUFFICES ASSUME NEW r \in B PROVE p + m - r \in A /\ p + m - (p + m - r) = r
    OBVIOUS
  <2>1. r \in (p + m - j)..Len(w) /\ At(w, r).op = "bind" /\ Bindable(At(w, r).target)
    BY DEF BindsFrom
  <2>2. p + m - r \in 1..m /\ p + m - r <= j /\ p + m - (p + m - r) = r
    BY <1>0, <1>3, <2>1
  <2>. DEFINE k == p + m - r
  <2>3. k \in 1..m /\ k <= j /\ p + m - k = r
    BY <2>2
  <2>. HIDE DEF k
  <2>4. Bindable(s.targets[k])
    BY <1>0, <2>1, <2>3
  <2>5. k \in A
    BY <1>2, <2>3, <2>4
  <2>. QED BY <2>2, <2>5 DEF k
<1>. HIDE DEF B
<1>7. g \in [A -> B]
  BY <1>5
<1>8. \A k, l \in A : g[k] = g[l] => k = l
  <2>1. \A k, l \in 1..m : p + m - k = p + m - l => k = l
    OBVIOUS
  <2>. QED BY <1>1, <2>1
<1>9. \A r \in B : \E k \in A : g[k] = r
  BY <1>6
<1>. HIDE DEF g
<1>10. g \in Bijection(A, B)
  BY <1>7, <1>8, <1>9 DEF Bijection, Injection, Surjection, IsInjective
<1>11. IsFiniteSet(A)
  <2>1. IsFiniteSet(1..m)
    <3>1. 1 \in Int /\ m \in Int
      OBVIOUS
    <3>. QED BY <3>1, FS_Interval, Zenon
  <2>. QED BY <1>1, <2>1, FS_Subset
<1>12. Cardinality(B) = Cardinality(A)
  BY <1>10, <1>11, FS_Bijection DEF ExistsBijection
<1>. QED BY <1>12 DEF A, B, Rank

\* An assignment to m targets.
AssignsTo(s, m) == s.type = "assign" /\ DOMAIN s.targets = 1..m

\* From p on, the stack has b bindings, c visits and a targets of an assignment.
AssignedStack(w, p, a, b, c, s, symbol) ==
  /\ Len(w) = p - 1 + a + c + b
  /\ \A j \in 1..b : At(w, p + b - j) = BindStep(s.targets[j], symbol)
  /\ \A r \in (p + b)..(p + b + c - 1) : At(w, r).op = "visit"
  /\ \A i \in 1..a : At(w, p + b + c + a - i) = Store(s.targets[i])

\* What the names hold, if b results are kept, and what the tracker says.
AssignedNames(e, s, k, t, u, a, b) ==
  /\ \A x \in Names :
       e[x] = IF x \notin TargetNames(s) \ Unresolved THEN LookAt(t.scopes, k, x)
              ELSE IF b = 0 THEN None
              ELSE Len(u.stored) + Rank(s, CHOOSE i \in DOMAIN s.targets : IsLast(s, x, i))
  /\ \A x \in Names :
       LookAt(u.scopes, k, x) = IF a = 0 /\ x \in TargetNames(s) \ Unresolved THEN None
                                ELSE LookAt(t.scopes, k, x)

(* The targets, the calls and the results of an assignment, on the stack,    *)
(* make of the names what the assignment made of them.                       *)
LEMMA AssignPending ==
  ASSUME NEW w, Len(w) \in Nat, NEW p \in Nat, p # 0, NEW m \in Nat, m # 0, NEW s,
         AssignsTo(s, m),
         NEW a \in {0, m}, NEW b \in {0, m}, NEW c \in {0, 1},
         NEW symbol, AssignedStack(w, p, a, b, c, s, symbol),
         NEW e, NEW k, NEW t, NEW u, AssignedNames(e, s, k, t, u, a, b)
  PROVE  /\ Pending(w, p - 1, e, k, u)
         /\ Cardinality(BindsFrom(w, p)) = IF b = 0 THEN 0 ELSE Cardinality(Keeping(s))
<1>. USE DEF AssignedStack
<1>1. \A r \in p..Len(w) : \/ \E j \in 1..b : r = p + b - j
                           \/ r \in (p + b)..(p + b + c - 1)
                           \/ \E i \in 1..a : r = p + b + c + a - i
  <2>. SUFFICES ASSUME NEW r \in p..Len(w), r \notin (p + b)..(p + b + c - 1)
                PROVE  \/ \E j \in 1..b : r = p + b - j
                       \/ \E i \in 1..a : r = p + b + c + a - i
    OBVIOUS
  <2>1. CASE r < p + b
    <3>1. p + b - r \in 1..b /\ r = p + b - (p + b - r)
      BY <2>1
    <3>. QED BY <3>1
  <2>2. CASE r > p + b + c - 1
    <3>1. p + b + c + a - r \in 1..a /\ r = p + b + c + a - (p + b + c + a - r)
      BY <2>2
    <3>. QED BY <3>1
  <2>. QED BY <2>1, <2>2
<1>2. \A j \in 1..b : p + b - j \in p..Len(w)
  OBVIOUS
<1>3. \A i \in 1..a : p + b + c + a - i \in p..Len(w)
  OBVIOUS
<1>4. TargetNames(s) = {NameOf(s.targets[i]) : i \in 1..m}
  BY DEF TargetNames, AssignsTo
<1>5. \A j \in 1..b : /\ At(w, p + b - j).op = "bind" /\ At(w, p + b - j).target = s.targets[j]
  <2>1. \A target : /\ BindStep(target, symbol).op = "bind"
                    /\ BindStep(target, symbol).target = target
    BY DEF BindStep
  <2>. QED BY <2>1
<1>6. \A i \in 1..a : /\ At(w, p + b + c + a - i).op = "store"
                      /\ At(w, p + b + c + a - i).target = s.targets[i]
  <2>1. \A target : Store(target).op = "store" /\ Store(target).target = target
    BY DEF Store
  <2>. QED BY <2>1
<1>7. \A r \in (p + b)..Len(w) : At(w, r).op # "bind"
  <2>. SUFFICES ASSUME NEW r \in (p + b)..Len(w) PROVE At(w, r).op # "bind"
    OBVIOUS
  <2>1. r \in p..Len(w) /\ ~\E j \in 1..b : r = p + b - j
    OBVIOUS
  <2>. QED BY <1>1, <1>6, <2>1
<1>8. ASSUME b = m, NEW j \in 0..m
      PROVE  Cardinality(BindsFrom(w, p + m - j)) = Rank(s, j)
  <2>1. p + m - 1 <= Len(w)
    BY <1>8
  <2>2. \A i \in 1..m : At(w, p + m - i).op = "bind" /\ At(w, p + m - i).target = s.targets[i]
    BY <1>5, <1>8
  <2>3. \A r \in (p + m)..Len(w) : At(w, r).op # "bind"
    BY <1>7, <1>8
  <2>4. p \in Nat /\ m \in Nat
    OBVIOUS
  <2>5. BindsAt(w, p, m, s)
    BY <2>1, <2>2, <2>3 DEF BindsAt, AssignsTo
  <2>6. RanksAt(w, p, m, s)
    BY <2>4, <2>5, CountBinds, Zenon
  <2>. QED BY <2>6 DEF RanksAt
<1>9. Cardinality(BindsFrom(w, p)) = IF b = 0 THEN 0 ELSE Cardinality(Keeping(s))
  <2>1. CASE b = 0
    <3>1. BindsFrom(w, p) = {}
      <4>1. \A r \in p..Len(w) : At(w, r).op # "bind"
        BY <1>7, <2>1
      <4>. QED BY <4>1 DEF BindsFrom
    <3>. QED BY <2>1, <3>1, FS_EmptySet
  <2>2. CASE b = m
    <3>1. Cardinality(BindsFrom(w, p + m - m)) = Rank(s, m)
      BY <1>8, <2>2
    <3>2. p + m - m = p /\ {l \in Keeping(s) : l <= m} = Keeping(s)
      BY DEF Keeping, AssignsTo
    <3>. QED BY <2>2, <3>1, <3>2 DEF Rank
  <2>. QED BY <2>1, <2>2
<1>10. ASSUME NEW x \in Names, NEW i \in 1..m, NameOf(s.targets[i]) = x
       PROVE  /\ b = m => p + b - i \in Writers(w, p - 1, x)
              /\ a = m => p + b + c + a - i \in Writers(w, p - 1, x)
  <2>1. (p - 1) + 1 = p
    OBVIOUS
  <2>. QED BY <1>2, <1>3, <1>5, <1>6, <1>10, <2>1 DEF Writers, Writes
<1>11. ASSUME NEW x \in Names, x \in Unresolved \/ Writers(w, p - 1, x) = {}
       PROVE  e[x] = LookAt(u.scopes, k, x)
  <2>1. CASE x \notin TargetNames(s) \ Unresolved
    BY <2>1 DEF AssignedNames
  <2>2. CASE x \in TargetNames(s) \ Unresolved
    <3>1. PICK i \in 1..m : NameOf(s.targets[i]) = x
      BY <1>4, <2>2
    <3>2. a = 0 /\ b = 0
      BY <1>10, <1>11, <2>2, <3>1
    <3>. QED BY <2>2, <3>2 DEF AssignedNames
  <2>. QED BY <2>1, <2>2
<1>12. ASSUME NEW x \in Names, NEW r \in Writers(w, p - 1, x), x \notin Unresolved,
              \A q \in Writers(w, p - 1, x) : r <= q
       PROVE  e[x] = WillHold(w, r, u.stored)
  <2>1. r \in p..Len(w) /\ Writes(At(w, r), x)
    <3>1. (p - 1) + 1 = p
      OBVIOUS
    <3>. QED BY <3>1 DEF Writers
  <2>2. CASE \E j \in 1..b : r = p + b - j
    <3>1. PICK j \in 1..b : r = p + b - j
      BY <2>2
    <3>2. b = m /\ j \in 1..m /\ j \in 0..m /\ b # 0
      OBVIOUS
    <3>3. NameOf(s.targets[j]) = x /\ x \in TargetNames(s) \ Unresolved
      BY <1>4, <1>5, <1>12, <2>1, <3>1, <3>2 DEF Writes
    <3>4. ASSUME NEW i \in 1..m, NameOf(s.targets[i]) = x PROVE i <= j
      <4>1. p + b - j <= p + b - i
        BY <1>10, <1>12, <3>1, <3>2, <3>4
      <4>. QED BY <4>1
    <3>5. \A i \in 1..m : IsLast(s, x, i) <=> i = j
      <4>1. \A i \in 1..m : i <= j /\ j <= i => i = j
        OBVIOUS
      <4>2. IsLast(s, x, j)
        BY <3>2, <3>3, <3>4 DEF IsLast, AssignsTo
      <4>3. \A i \in 1..m : IsLast(s, x, i) => i <= j /\ j <= i
        BY <3>2, <3>3, <3>4 DEF IsLast, AssignsTo
      <4>. QED BY <4>1, <4>2, <4>3
    <3>6. (CHOOSE i \in DOMAIN s.targets : IsLast(s, x, i)) = j
      BY <3>2, <3>5 DEF AssignsTo
    <3>7. e[x] = Len(u.stored) + Rank(s, j)
      BY <3>2, <3>3, <3>6 DEF AssignedNames
    <3>8. Cardinality(BindsFrom(w, r)) = Rank(s, j)
      BY <1>8, <3>1, <3>2
    <3>. QED BY <1>5, <3>1, <3>7, <3>8 DEF WillHold
  <2>3. CASE \E i \in 1..a : r = p + b + c + a - i
    <3>1. PICK i \in 1..a : r = p + b + c + a - i
      BY <2>3
    <3>2. a = m /\ i \in 1..m
      OBVIOUS
    <3>3. NameOf(s.targets[i]) = x /\ x \in TargetNames(s) \ Unresolved
      BY <1>4, <1>6, <1>12, <2>1, <3>1, <3>2 DEF Writes
    <3>4. b = 0
      <4>. SUFFICES ASSUME b = m PROVE FALSE
        OBVIOUS
      <4>1. p + b - i \in Writers(w, p - 1, x)
        BY <1>10, <3>2, <3>3
      <4>2. p + b + c + a - i <= p + b - i
        BY <1>12, <3>1, <4>1
      <4>. QED BY <3>2, <4>2
    <3>. QED BY <1>6, <3>1, <3>3, <3>4 DEF WillHold, AssignedNames
  <2>4. CASE r \in (p + b)..(p + b + c - 1)
    BY <2>1, <2>4 DEF Writes
  <2>. QED BY <1>1, <2>1, <2>2, <2>3, <2>4
<1>13. Pending(w, p - 1, e, k, u)
  BY <1>11, <1>12 DEF Pending
<1>. QED BY <1>9, <1>13

(* The targets of an assignment.                                             *)
LEMMA Targets ==
  ASSUME NEW s \in Statements, s.type = "assign"
  PROVE  /\ Len(s.targets) \in Nat /\ Len(s.targets) # 0 /\ AssignsTo(s, Len(s.targets))
         /\ \A i \in 1..Len(s.targets) : /\ s.targets[i] \in Places
                                         /\ NameOf(s.targets[i]) \in Names \cup {NoName}
<1>1. s.targets \in Seq(Places) /\ s.targets # <<>>
  BY StatementKinds
<1>2. \A target \in Places : NameOf(target) \in Names \cup {NoName}
  BY DEF NameOf, Places
<1>3. /\ Len(s.targets) \in Nat /\ Len(s.targets) # 0 /\ DOMAIN s.targets = 1..Len(s.targets)
      /\ \A i \in 1..Len(s.targets) : s.targets[i] \in Places
  BY <1>1
<1>. QED BY <1>2, <1>3 DEF AssignsTo

\* ECMAScript gives the target of an assignment another value at once.
Cleared(s, x) == language = "ecmascript" /\ x \in TargetNames(s) \ Unresolved

(* The names after an assignment is seen.                                    *)
LEMMA AssignRecord ==
  ASSUME NEW t, Tracker(t), NEW s \in Statements, s.type = "assign", Expressible(s)
  PROVE  LET u == Record(t, s)
         IN  /\ Tracker(u) /\ u.stored = t.stored /\ Len(u.scopes) = Len(t.scopes)
             /\ \A i \in 1..(Len(t.scopes) - 1) : u.scopes[i] = t.scopes[i]
             /\ \A x \in Names : LookAt(u.scopes, Len(t.scopes), x)
                  = IF Cleared(s, x) THEN None ELSE LookAt(t.scopes, Len(t.scopes), x)
<1>1. CASE language = "ecmascript"
  <2>. DEFINE name == NameOf(s.targets[1])
              u == Bind(t, name, NoName)
  <2>1. Record(t, s) = u
    BY <1>1 DEF Record
  <2>2. Len(s.targets) = 1 /\ AssignsTo(s, 1)
    BY <1>1, Targets DEF Expressible
  <2>3. name \in Names \cup {NoName} /\ 1 \in 1..1
    BY <2>2, Targets
  <2>4. TargetNames(s) = {name}
    BY <2>2 DEF TargetNames, AssignsTo
  <2>. HIDE DEF name
  <2>5. /\ Tracker(u) /\ u.stored = t.stored /\ Len(u.scopes) = Len(t.scopes)
        /\ \A i \in 1..(Len(t.scopes) - 1) : u.scopes[i] = t.scopes[i]
        /\ \A x \in Names : LookAt(u.scopes, Len(t.scopes), x)
             = IF x = name /\ x \notin Unresolved THEN None
               ELSE LookAt(t.scopes, Len(t.scopes), x)
    BY <2>3, BindsNone
  <2>. HIDE DEF u
  <2>. QED BY <1>1, <2>1, <2>4, <2>5 DEF Cleared
<1>2. CASE language # "ecmascript"
  <2>1. Record(t, s) = t
    BY <1>2 DEF Record
  <2>. QED BY <1>2, <2>1 DEF Cleared
<1>. QED BY <1>1, <1>2

(* The value is a factory's result before the walk clears the target if and  *)
(* only if it is after that.                                                 *)
LEMMA AssignSymbol ==
  ASSUME NEW t, Tracker(t), NEW s \in Statements, s.type = "assign", Expressible(s),
         language \in {"python", "ecmascript"}
  PROVE  /\ SymbolOf(Record(t, s).scopes, s) = SymbolOf(t.scopes, s)
         /\ SymbolOf(t.scopes, s) \in Factories \cup {NoName}
<1>. DEFINE u == Record(t, s)
            c == s.value.callee
            k == Len(t.scopes)
<1>1. CASE s.value.type = "call"
  <2>1. s.value \in Calls
    <3>1. s.value \in Expressions
      BY StatementKinds
    <3>. QED BY <1>1, <3>1 DEF Expressions, Places
  <2>2. c \in Names \cup {NoName}
    BY <2>1, CallsAssumption
  <2>3. Factory(t.scopes, c)
          = IF c = NoName THEN NoName
            ELSE IF LastName[c] \in Factories /\ (c = LastName[c] => LookAt(t.scopes, k, c) # None)
            THEN LastName[c] ELSE NoName
    BY <2>2, FactoryIs
  <2>4. /\ Tracker(u) /\ Len(u.scopes) = k
        /\ \A x \in Names : LookAt(u.scopes, k, x)
             = IF Cleared(s, x) THEN None ELSE LookAt(t.scopes, k, x)
    BY AssignRecord
  <2>. HIDE DEF u, k
  <2>5. Factory(u.scopes, c)
          = IF c = NoName THEN NoName
            ELSE IF LastName[c] \in Factories /\ (c = LastName[c] => LookAt(u.scopes, k, c) # None)
            THEN LastName[c] ELSE NoName
    BY <2>2, <2>4, FactoryIs
  <2>6. c # NoName => ~Cleared(s, c)
    <3>1. language = "ecmascript" => CalleeOf(s.value) \notin TargetNames(s) \/ CalleeOf(s.value) = NoName
      BY DEF Expressible
    <3>. QED BY <1>1, <3>1 DEF Cleared, CalleeOf
  <2>7. c # NoName => LookAt(u.scopes, k, c) = LookAt(t.scopes, k, c)
    BY <2>2, <2>4, <2>6
  <2>8. Factory(u.scopes, c) = Factory(t.scopes, c)
        /\ Factory(t.scopes, c) \in Factories \cup {NoName}
    <3>. HIDE DEF c
    <3>1. Factory(u.scopes, c) = Factory(t.scopes, c)
      <4>1. CASE c = NoName
        BY <2>3, <2>5, <4>1
      <4>2. CASE c # NoName
        <5>. DEFINE l == LookAt(t.scopes, k, c)
                    l2 == LookAt(u.scopes, k, c)
        <5>1. l2 = l
          BY <2>7, <4>2
        <5>. HIDE DEF l, l2
        <5>2. /\ Factory(t.scopes, c) = IF LastName[c] \in Factories /\ (c = LastName[c] => l # None)
                                       THEN LastName[c] ELSE NoName
              /\ Factory(u.scopes, c) = IF LastName[c] \in Factories /\ (c = LastName[c] => l2 # None)
                                       THEN LastName[c] ELSE NoName
          BY <2>3, <2>5, <4>2 DEF l, l2
        <5>. QED BY <5>1, <5>2
      <4>. QED BY <4>1, <4>2
    <3>2. Factory(t.scopes, c) \in Factories \cup {NoName}
      BY <2>3
    <3>. QED BY <3>1, <3>2
  <2>. QED BY <1>1, <2>8 DEF SymbolOf, u
<1>2. CASE s.value.type # "call"
  BY <1>2 DEF SymbolOf
<1>. QED BY <1>1, <1>2

\* The parts of what an assignment puts on the stack.
Symbol(u, s) == SymbolOf(u.scopes, s)
Storing(s) == IF language = "python" THEN Len(s.targets) ELSE 0
Binding(u, s) == IF Symbol(u, s) = NoName THEN 0 ELSE Len(s.targets)
Calling(s) == Len(Visits(s.value))

(* What an assignment puts on the stack.                                     *)
LEMMA AssignSteps ==
  ASSUME NEW u, NEW s \in Statements, s.type = "assign", Symbol(u, s) \in Factories \cup {NoName}
  PROVE  LET v == Children(u, s)
             a == Storing(s)
             b == Binding(u, s)
             c == Calling(s)
         IN  /\ v \in Seq(Simple) /\ Len(v) = a + c + b /\ c \in {0, 1}
             /\ \A i \in 1..a : v[i] = Store(s.targets[i])
             /\ \A i \in 1..c : v[a + i].op = "visit" /\ v[a + i].node = s.value
             /\ \A i \in 1..b : v[a + c + i] = BindStep(s.targets[i], Symbol(u, s))
<1>. DEFINE m == Len(s.targets)
            a == Storing(s)
            b == Binding(u, s)
            c == Calling(s)
            A == Stores(s)
            C == Visits(s.value)
            B == BindSteps(u, s)
<1>1. /\ m \in Nat /\ DOMAIN s.targets = 1..m
      /\ \A i \in 1..m : s.targets[i] \in Places
  BY Targets DEF AssignsTo
<1>2. /\ A \in Seq(Simple) /\ Len(A) = a /\ a \in Nat
      /\ \A i \in 1..a : A[i] = Store(s.targets[i])
  <2>1. \A target \in Places : Store(target) \in Simple
    BY DEF Store, Simple, StoreSteps
  <2>2. CASE language = "python"
    <3>1. A = [i \in 1..m |-> Store(s.targets[i])] /\ a = m
      BY <1>1, <2>2 DEF Stores, Storing
    <3>2. A \in [1..m -> Simple]
      <4>. HIDE DEF m, A
      <4>. QED BY <1>1, <2>1, <3>1
    <3>. HIDE DEF m, A, a
    <3>. QED BY <1>1, <3>1, <3>2
  <2>3. CASE language # "python"
    <3>1. A = <<>> /\ a = 0
      BY <2>3 DEF Stores, Storing
    <3>. HIDE DEF A, a
    <3>. QED BY <3>1
  <2>. QED BY <2>2, <2>3
<1>3. C \in Seq(Simple) /\ Len(C) = c /\ c \in {0, 1}
      /\ \A i \in 1..c : C[i].op = "visit" /\ C[i].node = s.value
  <2>1. CASE s.value.type = "call"
    <3>1. s.value \in Expressions
      BY StatementKinds
    <3>2. Visit(s.value) \in Simple
      BY <3>1 DEF Visit, Simple, VisitSteps
    <3>3. C = <<Visit(s.value)>> /\ Visit(s.value).op = "visit" /\ Visit(s.value).node = s.value
      BY <2>1, Kinds DEF Visits
    <3>. QED BY <3>2, <3>3 DEF Calling
  <2>2. CASE s.value.type # "call"
    <3>1. C = <<>>
      BY <2>2 DEF Visits
    <3>. QED BY <3>1 DEF Calling
  <2>. QED BY <2>1, <2>2
<1>4. /\ B \in Seq(Simple) /\ Len(B) = b /\ b \in Nat
      /\ \A i \in 1..b : B[i] = BindStep(s.targets[i], Symbol(u, s))
  <2>. DEFINE symbol == Symbol(u, s)
  <2>1. symbol = IF s.value.type = "call" THEN Factory(u.scopes, s.value.callee) ELSE NoName
    BY DEF Symbol, SymbolOf
  <2>2. CASE symbol # NoName
    <3>1. symbol \in Factories
      BY <2>2
    <3>2. \A target \in Places : BindStep(target, symbol) \in Simple
      BY <3>1 DEF BindStep, Simple, Binds
    <3>3. B = [i \in 1..m |-> BindStep(s.targets[i], symbol)] /\ b = m
      BY <1>1, <2>1, <2>2 DEF BindSteps, Binding
    <3>4. B \in [1..m -> Simple]
      <4>. HIDE DEF m, B, symbol
      <4>. QED BY <1>1, <3>2, <3>3
    <3>. HIDE DEF m, B, b, symbol
    <3>5. B \in Seq(Simple) /\ Len(B) = m /\ \A i \in 1..m : B[i] = BindStep(s.targets[i], symbol)
      BY <1>1, <3>3, <3>4
    <3>. QED BY <1>1, <3>3, <3>5 DEF symbol
  <2>3. CASE symbol = NoName
    <3>1. B = <<>> /\ b = 0
      BY <2>1, <2>3 DEF BindSteps, Binding
    <3>. HIDE DEF B, b
    <3>. QED BY <3>1
  <2>. QED BY <2>2, <2>3
<1>5. Children(u, s) = A \o C \o B
  BY DEF Children
<1>. HIDE DEF A, B, C, a, b, c
<1>6. A \o C \in Seq(Simple) /\ Len(A \o C) = a + c
      /\ \A i \in 1..(a + c) : (A \o C)[i] = IF i <= a THEN A[i] ELSE C[i - a]
  BY <1>2, <1>3
<1>. DEFINE D == A \o C
            v == D \o B
<1>. HIDE DEF D
<1>7. v \in Seq(Simple) /\ Len(v) = a + c + b
      /\ \A i \in 1..(a + c + b) : v[i] = IF i <= a + c THEN D[i] ELSE B[i - (a + c)]
  <2>1. D \in Seq(Simple) /\ Len(D) = a + c /\ B \in Seq(Simple) /\ Len(B) = b
    BY <1>4, <1>6 DEF D
  <2>. QED BY <2>1
<1>. HIDE DEF v
<1>8. ASSUME NEW i \in 1..a PROVE v[i] = Store(s.targets[i])
  <2>1. i \in 1..(a + c + b) /\ i \in 1..(a + c) /\ i <= a + c /\ i <= a
    BY <1>2, <1>3, <1>4
  <2>. QED BY <1>2, <1>6, <1>7, <2>1 DEF D
<1>9. ASSUME NEW i \in 1..c PROVE v[a + i].op = "visit" /\ v[a + i].node = s.value
  <2>1. /\ a + i \in 1..(a + c + b) /\ a + i \in 1..(a + c) /\ a + i <= a + c /\ ~(a + i <= a)
        /\ (a + i) - a = i
    BY <1>2, <1>3, <1>4
  <2>. QED BY <1>3, <1>6, <1>7, <2>1 DEF D
<1>10. ASSUME NEW i \in 1..b PROVE v[a + c + i] = BindStep(s.targets[i], Symbol(u, s))
  <2>1. /\ a + c + i \in 1..(a + c + b) /\ ~(a + c + i <= a + c) /\ (a + c + i) - (a + c) = i
    BY <1>2, <1>3, <1>4
  <2>. QED BY <1>4, <1>7, <2>1
<1>. QED BY <1>3, <1>5, <1>7, <1>8, <1>9, <1>10 DEF v, D, a, b, c

(* An assignment: its targets, the calls in its value and its results are    *)
(* still to be taken.                                                        *)
LEMMA VisitAssigning ==
  ASSUME IInv, VisitNode, Assigning
  PROVE  IInv'
<1>. DEFINE n == Depth
            t == tracker
            e == envs[n]
<1>1. /\ n \in Nat \ {0} /\ Tracker(t) /\ work \in Seq(Steps) /\ work # <<>>
      /\ At(work, Len(work)) = Top /\ UNCHANGED history /\ language \in {"python", "ecmascript"}
      /\ tracker' = Record(t, Top.node)
  BY TopOf, LanguagesAssumption DEF IInv, Types, VisitNode, TopIs
<1>2. /\ Len(work) = 2 * n /\ Stacked(work, n)
      /\ Len(t.scopes) = n /\ Levels(envs, t.scopes, n - 1)
  BY DEF Assigning
<1>3. PICK s \in Statements :
        /\ At(work, 2 * n) = Visit(s) /\ s.type = "assign" /\ Expressible(s)
        /\ Assigned(s, e, t)
        /\ Len(meant) = Len(t.stored) + IF SymbolOf(t.scopes, s) = NoName THEN 0
                                        ELSE Cardinality(Keeping(s))
  BY DEF Assigning
<1>. DEFINE u == Record(t, s)
            v == Children(tracker', Top.node)
            m == Len(s.targets)
            a == Storing(s)
            b == Binding(u, s)
            c == Calling(s)
<1>4. Top.node = s /\ tracker' = u /\ v = Children(u, s)
  <2>1. Top = Visit(s)
    BY <1>1, <1>2, <1>3
  <2>. QED BY <1>1, <2>1, Kinds
<1>5. /\ Tracker(u) /\ u.stored = t.stored /\ Len(u.scopes) = n
      /\ \A i \in 1..(n - 1) : u.scopes[i] = t.scopes[i]
      /\ \A x \in Names : LookAt(u.scopes, n, x)
           = IF Cleared(s, x) THEN None ELSE LookAt(t.scopes, n, x)
  BY <1>1, <1>2, <1>3, AssignRecord
<1>6. Symbol(u, s) = SymbolOf(t.scopes, s) /\ Symbol(u, s) \in Factories \cup {NoName}
  BY <1>1, <1>3, AssignSymbol DEF Symbol
<1>7. m \in Nat /\ m # 0 /\ AssignsTo(s, m)
  BY <1>3, Targets
<1>8. /\ v \in Seq(Simple) /\ Len(v) = a + c + b /\ c \in {0, 1}
      /\ \A i \in 1..a : v[i] = Store(s.targets[i])
      /\ \A i \in 1..c : v[a + i].op = "visit"
      /\ \A i \in 1..b : v[a + c + i] = BindStep(s.targets[i], Symbol(u, s))
  BY <1>3, <1>4, <1>6, AssignSteps
<1>9. /\ work' \in Seq(Steps) /\ Len(work') = Len(v) + Len(work) - 1
      /\ \A r \in 1..(Len(work) - 1) : At(work', r) = At(work, r)
      /\ \A r \in Len(work)..(Len(v) + Len(work) - 1) :
           /\ Len(v) + Len(work) - r \in 1..Len(v)
           /\ At(work', r) = v[Len(v) + Len(work) - r] /\ At(work', r) \in Simple
  BY <1>8, VisitReplaces, SomeSteps
<1>10. a \in {0, m} /\ b \in {0, m}
  BY DEF Storing, Binding
<1>11. /\ a = 0 <=> language = "ecmascript"
       /\ b = 0 <=> SymbolOf(t.scopes, s) = NoName
  BY <1>1, <1>6, <1>7 DEF Storing, Binding
<1>12. Types' /\ Depth' = n /\ envs' = envs /\ meant' = meant
  BY <1>1, <1>4, <1>5, <1>9, WalkTypes
<1>. HIDE DEF n, t, e, u, v, m, a, b, c
<1>13. /\ Len(work') \in Nat /\ 2 * n \in Nat /\ 2 * n # 0
       /\ Len(work') = 2 * n - 1 + a + c + b
  <2>1. a \in Nat /\ b \in Nat /\ c \in Nat
    BY <1>7, <1>8, <1>10
  <2>2. Len(work') = a + c + b + 2 * n - 1
    BY <1>2, <1>8, <1>9
  <2>. QED BY <1>1, <2>1, <2>2
<1>14. \A r \in (2 * n)..Len(work') :
         /\ a + c + b + 2 * n - r \in 1..(a + c + b)
         /\ At(work', r) = v[a + c + b + 2 * n - r] /\ At(work', r) \in Simple
  BY <1>2, <1>8, <1>9
<1>15. \A j \in 1..b : At(work', 2 * n + b - j) = BindStep(s.targets[j], Symbol(u, s))
  <2>. SUFFICES ASSUME NEW j \in 1..b
                PROVE  At(work', 2 * n + b - j) = BindStep(s.targets[j], Symbol(u, s))
    OBVIOUS
  <2>1. 2 * n + b - j \in (2 * n)..Len(work')
        /\ a + c + b + 2 * n - (2 * n + b - j) = a + c + j
    BY <1>1, <1>7, <1>8, <1>10, <1>13
  <2>. QED BY <1>8, <1>14, <2>1
<1>16. \A r \in (2 * n + b)..(2 * n + b + c - 1) : At(work', r).op = "visit"
  <2>. SUFFICES ASSUME NEW r \in (2 * n + b)..(2 * n + b + c - 1)
                PROVE  At(work', r).op = "visit"
    OBVIOUS
  <2>1. /\ r \in (2 * n)..Len(work') /\ c + b + 2 * n - r \in 1..c
        /\ a + c + b + 2 * n - r = a + (c + b + 2 * n - r)
    BY <1>1, <1>7, <1>8, <1>10, <1>13
  <2>. QED BY <1>8, <1>14, <2>1
<1>17. \A i \in 1..a : At(work', 2 * n + b + c + a - i) = Store(s.targets[i])
  <2>. SUFFICES ASSUME NEW i \in 1..a
                PROVE  At(work', 2 * n + b + c + a - i) = Store(s.targets[i])
    OBVIOUS
  <2>1. 2 * n + b + c + a - i \in (2 * n)..Len(work')
        /\ a + c + b + 2 * n - (2 * n + b + c + a - i) = i
    BY <1>1, <1>7, <1>8, <1>10, <1>13
  <2>. QED BY <1>8, <1>14, <2>1
<1>18. \A x \in Names :
         e[x] = IF x \notin TargetNames(s) \ Unresolved THEN LookAt(t.scopes, n, x)
                ELSE IF b = 0 THEN None
                ELSE Len(u.stored) + Rank(s, CHOOSE i \in DOMAIN s.targets : IsLast(s, x, i))
  <2>. DEFINE i(x) == CHOOSE j \in DOMAIN s.targets : IsLast(s, x, j)
  <2>1. \A x \in Names :
         e[x] = IF x \notin TargetNames(s) \ Unresolved THEN LookAt(t.scopes, n, x)
                ELSE IF SymbolOf(t.scopes, s) = NoName THEN None
                ELSE Len(t.stored) + Rank(s, i(x))
    BY <1>2, <1>3 DEF Assigned
  <2>. HIDE DEF i
  <2>2. \A x \in Names :
         e[x] = IF x \notin TargetNames(s) \ Unresolved THEN LookAt(t.scopes, n, x)
                ELSE IF b = 0 THEN None ELSE Len(u.stored) + Rank(s, i(x))
    BY <1>5, <1>11, <2>1
  <2>. QED BY <2>2 DEF i
<1>19. \A x \in Names :
         LookAt(u.scopes, n, x) = IF a = 0 /\ x \in TargetNames(s) \ Unresolved THEN None
                                  ELSE LookAt(t.scopes, n, x)
  BY <1>5, <1>11 DEF Cleared
<1>20. /\ Pending(work', 2 * n - 1, e, n, u)
       /\ Cardinality(BindsFrom(work', 2 * n)) = IF b = 0 THEN 0 ELSE Cardinality(Keeping(s))
  <2>1. AssignedStack(work', 2 * n, a, b, c, s, Symbol(u, s))
    BY <1>13, <1>15, <1>16, <1>17 DEF AssignedStack
  <2>2. AssignedNames(e, s, n, t, u, a, b)
    BY <1>18, <1>19 DEF AssignedNames
  <2>3. /\ m \in Nat /\ m # 0 /\ AssignsTo(s, m) /\ c \in {0, 1}
        /\ a \in {0, m} /\ b \in {0, m}
        /\ Len(work') \in Nat /\ 2 * n \in Nat /\ 2 * n # 0
    BY <1>7, <1>8, <1>10, <1>13
  <2>. QED BY <2>1, <2>2, <2>3, AssignPending
<1>21. Len(meant) = Len(u.stored) + Cardinality(BindsFrom(work', 2 * n))
  BY <1>3, <1>5, <1>11, <1>20
<1>22. Stacked(work', n)
  BY <1>1, <1>2, <1>9, StackedSame
<1>23. Levels(envs, u.scopes, n - 1)
  <2>1. n - 1 \in Int
    BY <1>1
  <2>. QED BY <1>2, <1>5, <2>1, LevelsSame
<1>24. Len(work') >= 2 * n - 1
  BY <1>1, <1>7, <1>8, <1>10, <1>13
<1>25. Working'
  BY <1>4, <1>5, <1>12, <1>14, <1>20, <1>21, <1>22, <1>23, <1>24 DEF Working, e
<1>. QED BY <1>12, <1>25 DEF IInv, Phase

-----------------------------------------------------------------------------
(* Visits of functions and classes.                                          *)

(* The name of a function or of a class takes a value of no interest, unless *)
(* it is a factory.                                                          *)
LEMMA DefineRecord ==
  ASSUME NEW t, Tracker(t), NEW s \in Statements, s.type \in {"function", "class"}
  PROVE  LET u == Record(t, s)
         IN  /\ Tracker(u) /\ u.stored = t.stored /\ Len(u.scopes) = Len(t.scopes)
             /\ \A i \in 1..(Len(t.scopes) - 1) : u.scopes[i] = t.scopes[i]
             /\ \A x \in Names : LookAt(u.scopes, Len(t.scopes), x)
                  = IF x \in TargetNames(s) \ Unresolved THEN None
                    ELSE LookAt(t.scopes, Len(t.scopes), x)
<1>1. s.name \in Names \cup {NoName}
  BY StatementKinds
<1>2. TargetNames(s) = {s.name} \ Factories
  BY DEF TargetNames
<1>3. CASE s.name = NoName \/ s.name \in Factories
  <2>1. Record(t, s) = t
    <3>1. CASE s.type = "function"
      BY <1>3, <3>1 DEF Record, Define
    <3>2. CASE s.type = "class"
      <4>1. Record(t, s) = Define(t, s.name)
        BY <3>2 DEF Record
      <4>2. s.name \in Factories
        BY <1>3, <3>2, StatementKinds, TrackerAssumption
      <4>. QED BY <4>1, <4>2 DEF Define
    <3>. QED BY <3>1, <3>2
  <2>2. \A x \in Names : x \notin TargetNames(s)
    BY <1>2, <1>3, TrackerAssumption
  <2>. QED BY <2>1, <2>2
<1>4. CASE ~(s.name = NoName \/ s.name \in Factories)
  <2>. DEFINE u == Bind(t, s.name, NoName)
  <2>1. Record(t, s) = u
    BY <1>4 DEF Record, Define
  <2>2. /\ Tracker(u) /\ u.stored = t.stored /\ Len(u.scopes) = Len(t.scopes)
        /\ \A i \in 1..(Len(t.scopes) - 1) : u.scopes[i] = t.scopes[i]
        /\ \A x \in Names : LookAt(u.scopes, Len(t.scopes), x)
             = IF x = s.name /\ x \notin Unresolved THEN None
               ELSE LookAt(t.scopes, Len(t.scopes), x)
    BY <1>1, BindsNone
  <2>3. TargetNames(s) = {s.name}
    BY <1>2, <1>4
  <2>. HIDE DEF u
  <2>. QED BY <2>1, <2>2, <2>3
<1>. QED BY <1>3, <1>4

(* The elements of two sequences put together.                               *)
LEMMA Joined ==
  ASSUME NEW S, NEW f \in Seq(S), NEW g \in Seq(S)
  PROVE  /\ Len(f \o g) = Len(f) + Len(g)
         /\ \A i \in 1..(Len(f) + Len(g)) :
              (f \o g)[i] = IF i <= Len(f) THEN f[i] ELSE g[i - Len(f)]
OBVIOUS

(* What a function or a class puts on the stack.                             *)
LEMMA DefineSteps ==
  ASSUME NEW u, NEW s \in Statements, s.type \in {"function", "class"}
  PROVE  LET v == Children(u, s)
         IN  \E d \in Nat :
               /\ v \in Seq(Steps) /\ Len(v) = d + 3
               /\ \A i \in 1..d : v[i] \in VisitSteps(Expressions)
               /\ v[d + 1] = EnterStep(ParamsOf(s)) /\ v[d + 2] = Open /\ v[d + 3] = ExitStep
<1>. DEFINE tail == <<EnterStep(ParamsOf(s)), Open, ExitStep>>
<1>1. ParamsOf(s) \in SUBSET Names
  BY StatementKinds DEF ParamsOf
<1>2. /\ tail \in Seq(Steps) /\ Len(tail) = 3 /\ tail[1] = EnterStep(ParamsOf(s))
      /\ tail[2] = Open /\ tail[3] = ExitStep
  <2>1. EnterStep(ParamsOf(s)) \in Steps /\ Open \in Steps /\ ExitStep \in Steps
    BY <1>1 DEF EnterStep, Steps
  <2>. QED BY <2>1
<1>3. \E pre \in Seq(VisitSteps(Expressions)) : Children(u, s) = pre \o tail
  <2>1. CASE s.type = "function"
    <3>1. s.defaults \in Seq(Expressions)
      BY <2>1, StatementKinds
    <3>. DEFINE pre == IF language = "python" THEN VisitAll(s.defaults) ELSE <<>>
    <3>2. pre \in Seq(VisitSteps(Expressions))
      BY <3>1, Visiting
    <3>3. Children(u, s) = pre \o tail
      BY <2>1 DEF Children, ParamsOf
    <3>. HIDE DEF pre
    <3>. QED BY <3>2, <3>3
  <2>2. CASE s.type = "class"
    <3>1. Children(u, s) = tail
      BY <2>2 DEF Children, ParamsOf
    <3>. HIDE DEF tail
    <3>2. tail = <<>> \o tail /\ <<>> \in Seq(VisitSteps(Expressions))
      BY <1>2
    <3>. QED BY <3>1, <3>2
  <2>. QED BY <2>1, <2>2
<1>4. PICK pre \in Seq(VisitSteps(Expressions)) : Children(u, s) = pre \o tail
  BY <1>3
<1>. DEFINE d == Len(pre)
            v == pre \o tail
<1>5. pre \in Seq(Steps) /\ d \in Nat
  BY SomeSteps
<1>. HIDE DEF tail
<1>6. /\ v \in Seq(Steps) /\ Len(v) = d + 3
      /\ \A i \in 1..(d + 3) : v[i] = IF i <= d THEN pre[i] ELSE tail[i - d]
  <2>1. v \in Seq(Steps)
    BY <1>2, <1>5
  <2>2. Len(v) = d + Len(tail)
        /\ \A i \in 1..(d + Len(tail)) : v[i] = IF i <= d THEN pre[i] ELSE tail[i - d]
    BY <1>2, <1>5, Joined, Zenon
  <2>. QED BY <1>2, <2>1, <2>2
<1>7. \A i \in 1..d : pre[i] \in VisitSteps(Expressions) /\ i \in 1..(d + 3) /\ i <= d
  BY <1>5
<1>. HIDE DEF v, d
<1>8. /\ d + 1 \in 1..(d + 3) /\ ~(d + 1 <= d) /\ (d + 1) - d = 1
      /\ d + 2 \in 1..(d + 3) /\ ~(d + 2 <= d) /\ (d + 2) - d = 2
      /\ d + 3 \in 1..(d + 3) /\ ~(d + 3 <= d) /\ (d + 3) - d = 3
  BY <1>5
<1>9. v[d + 1] = EnterStep(ParamsOf(s)) /\ v[d + 2] = Open /\ v[d + 3] = ExitStep
  BY <1>2, <1>6, <1>8
<1>10. \A i \in 1..d : v[i] \in VisitSteps(Expressions)
  BY <1>6, <1>7
<1>11. Children(u, s) = v
  BY <1>4 DEF v
<1>. QED BY <1>5, <1>6, <1>9, <1>10, <1>11

(* A function or a class: its defaults are still to be visited, and its body *)
(* to be entered.                                                            *)
LEMMA VisitDefining ==
  ASSUME IInv, VisitNode, Defining
  PROVE  IInv'
<1>. DEFINE n == Depth
            t == tracker
<1>1. /\ n \in Nat \ {0} /\ Tracker(t) /\ work \in Seq(Steps) /\ work # <<>>
      /\ At(work, Len(work)) = Top /\ UNCHANGED history
      /\ tracker' = Record(t, Top.node)
  BY TopOf DEF IInv, Types, VisitNode, TopIs
<1>2. /\ n > 1 /\ Len(work) = 2 * n - 2 /\ Stacked(work, n - 1)
      /\ Len(t.scopes) = n - 1 /\ Levels(envs, t.scopes, n - 2)
      /\ Len(meant) = Len(t.stored)
  BY DEF Defining
<1>3. PICK s \in Statements :
        /\ At(work, 2 * n - 2) = Visit(s)
        /\ s.type \in {"function", "class"}
        /\ envs[n] = Hidden(envs[n - 1], ParamsOf(s))
        /\ \A name \in Names :
             envs[n - 1][name] = IF name \in TargetNames(s) \ Unresolved THEN None
                                 ELSE LookAt(t.scopes, n - 1, name)
  BY DEF Defining
<1>. DEFINE u == Record(t, s)
            v == Children(tracker', Top.node)
<1>4. Top.node = s /\ tracker' = u /\ v = Children(u, s)
  <2>1. Top = Visit(s)
    BY <1>1, <1>2, <1>3
  <2>. QED BY <1>1, <2>1, Kinds
<1>5. /\ Tracker(u) /\ u.stored = t.stored /\ Len(u.scopes) = n - 1
      /\ \A i \in 1..(n - 2) : u.scopes[i] = t.scopes[i]
      /\ \A x \in Names : LookAt(u.scopes, n - 1, x)
           = IF x \in TargetNames(s) \ Unresolved THEN None ELSE LookAt(t.scopes, n - 1, x)
  <2>1. (n - 1) - 1 = n - 2
    BY <1>1
  <2>. QED BY <1>1, <1>2, <1>3, <2>1, DefineRecord
<1>6. PICK d \in Nat :
        /\ v \in Seq(Steps) /\ Len(v) = d + 3
        /\ \A i \in 1..d : v[i] \in VisitSteps(Expressions)
        /\ v[d + 1] = EnterStep(ParamsOf(s)) /\ v[d + 2] = Open /\ v[d + 3] = ExitStep
  <2>. HIDE DEF u, v
  <2>. DEFINE c == Children(u, s)
  <2>1. \E d \in Nat :
          /\ c \in Seq(Steps) /\ Len(c) = d + 3
          /\ \A i \in 1..d : c[i] \in VisitSteps(Expressions)
          /\ c[d + 1] = EnterStep(ParamsOf(s)) /\ c[d + 2] = Open /\ c[d + 3] = ExitStep
    BY <1>3, DefineSteps
  <2>2. v = c
    BY <1>4
  <2>. HIDE DEF c
  <2>. QED BY <2>1, <2>2
<1>7. /\ work' \in Seq(Steps) /\ Len(work') = Len(v) + Len(work) - 1
      /\ \A r \in 1..(Len(work) - 1) : At(work', r) = At(work, r)
      /\ \A r \in Len(work)..(Len(v) + Len(work) - 1) :
           At(work', r) = v[Len(v) + Len(work) - r]
  BY <1>6, VisitReplaces
<1>8. Types' /\ Depth' = n /\ envs' = envs /\ meant' = meant
  BY <1>1, <1>4, <1>5, <1>7, WalkTypes
<1>9. ParamsOf(s) \in SUBSET Names
  BY <1>3, StatementKinds DEF ParamsOf
<1>. HIDE DEF n, t, u, v
<1>10. /\ Len(work') = 2 * n + d
       /\ \A r \in 1..(2 * n - 3) : At(work', r) = At(work, r)
       /\ \A r \in (2 * n - 2)..(2 * n + d) : At(work', r) = v[2 * n + d + 1 - r]
  <2>. DEFINE a == Len(v)
              b == Len(work)
  <2>1. /\ Len(work') = a + b - 1
        /\ \A r \in 1..(b - 1) : At(work', r) = At(work, r)
        /\ \A r \in b..(a + b - 1) : At(work', r) = v[a + b - r]
    BY <1>7
  <2>2. a = d + 3 /\ b = 2 * n - 2
    BY <1>2, <1>6
  <2>. HIDE DEF a, b
  <2>3. a + b - 1 = 2 * n + d /\ b - 1 = 2 * n - 3 /\ a + b = 2 * n + d + 1
    BY <1>1, <2>2
  <2>. QED BY <2>1, <2>2, <2>3
<1>11. /\ At(work', 2 * n - 2) = ExitStep /\ At(work', 2 * n - 1) = Open
       /\ At(work', 2 * n) = EnterStep(ParamsOf(s))
  <2>1. /\ 2 * n - 2 \in (2 * n - 2)..(2 * n + d) /\ 2 * n + d + 1 - (2 * n - 2) = d + 3
        /\ 2 * n - 1 \in (2 * n - 2)..(2 * n + d) /\ 2 * n + d + 1 - (2 * n - 1) = d + 2
        /\ 2 * n \in (2 * n - 2)..(2 * n + d) /\ 2 * n + d + 1 - 2 * n = d + 1
    BY <1>1
  <2>. QED BY <1>6, <1>10, <2>1
<1>12. \A r \in (2 * n + 1)..Len(work') : At(work', r) \in VisitSteps(Expressions)
  <2>. SUFFICES ASSUME NEW r \in (2 * n + 1)..(2 * n + d)
                PROVE  At(work', r) \in VisitSteps(Expressions)
    BY <1>10
  <2>1. r \in (2 * n - 2)..(2 * n + d) /\ 2 * n + d + 1 - r \in 1..d
    BY <1>1
  <2>. QED BY <1>6, <1>10, <2>1
<1>13. Stacked(work', n)
  <2>1. ASSUME NEW j \in 1..n PROVE At(work', 2 * j - 1) = Open
    <3>1. CASE j = n
      BY <1>11, <3>1
    <3>2. CASE j # n
      <4>1. j \in 1..(n - 1) /\ 2 * j - 1 \in 1..(2 * n - 3)
        BY <1>1, <3>2
      <4>. QED BY <1>2, <1>10, <4>1 DEF Stacked
    <3>. QED BY <3>1, <3>2
  <2>2. ASSUME NEW j \in 1..(n - 1) PROVE At(work', 2 * j) = ExitStep
    <3>1. CASE j = n - 1
      <4>1. 2 * j = 2 * n - 2
        BY <1>1, <3>1
      <4>. QED BY <1>11, <4>1
    <3>2. CASE j # n - 1
      <4>1. j \in 1..((n - 1) - 1) /\ 2 * j \in 1..(2 * n - 3)
        BY <1>1, <3>2
      <4>. QED BY <1>2, <1>10, <4>1 DEF Stacked
    <3>. QED BY <3>1, <3>2
  <2>. QED BY <2>1, <2>2 DEF Stacked
<1>14. Levels(envs, u.scopes, n - 1)
  <2>1. Levels(envs, u.scopes, n - 2)
    <3>1. n - 2 \in Int
      BY <1>1
    <3>. QED BY <1>2, <1>5, <3>1, LevelsSame
  <2>2. Level(envs[n - 1], u.scopes, n - 1)
    BY <1>3, <1>5 DEF Level
  <2>3. \A j \in 1..(n - 1) : j = n - 1 \/ j \in 1..(n - 2)
    BY <1>1
  <2>. QED BY <2>1, <2>2, <2>3 DEF Levels
<1>15. Len(work') >= 2 * n
  BY <1>1, <1>10
<1>16. Entering'
  BY <1>2, <1>3, <1>4, <1>5, <1>8, <1>9, <1>11, <1>12, <1>13, <1>14, <1>15 DEF Entering
<1>. QED BY <1>8, <1>16 DEF IInv, Phase

(* A visit puts the steps of its node in its place, in whichever phase the  *)
(* walk is.                                                                 *)
LEMMA VisitStep ==
  ASSUME IInv, VisitNode
  PROVE  IInv'
<1>1. work # <<>> /\ Top.op = "visit"
  BY DEF VisitNode, TopIs
<1>. QED BY <1>1, PhaseOf, VisitWorking, VisitAssigning, VisitDefining, VisitEntering

-----------------------------------------------------------------------------
(* The other steps of the walk.                                              *)

(* A step off the stack that tells the tracker what the names will hold.     *)
LEMMA TakeWorking ==
  ASSUME IInv, Working, Len(work) >= 2 * Depth, work' = Tail(work), UNCHANGED history,
         Tracker(tracker'), Len(tracker'.scopes) = Len(tracker.scopes),
         \A i \in 1..(Len(tracker.scopes) - 1) : tracker'.scopes[i] = tracker.scopes[i],
         Taken(Top, Depth, tracker, tracker')
  PROVE  IInv'
<1>. DEFINE n == Depth
            t == tracker
            u == tracker'
            e == envs[n]
<1>1. /\ n \in Nat \ {0} /\ Tracker(t) /\ Tracker(u) /\ work \in Seq(Steps) /\ work # <<>>
      /\ Len(work) \in Nat
  <2>1. n \in Nat \ {0} /\ Len(work) \in Nat /\ work \in Seq(Steps)
    BY DEF IInv, Types, Depth
  <2>2. Len(work) # 0
    BY <2>1
  <2>. QED BY <2>1, <2>2 DEF IInv, Types
<1>2. /\ Tail(work) \in Seq(Steps) /\ Len(Tail(work)) = Len(work) - 1
      /\ \A r \in 1..(Len(work) - 1) : At(Tail(work), r) = At(work, r)
  BY <1>1, Pop
<1>3. Types' /\ Depth' = n /\ envs' = envs /\ meant' = meant
  BY <1>1, <1>2, WalkTypes
<1>4. /\ Pending(work, 2 * n - 1, e, n, t)
      /\ Len(meant) = Len(t.stored) + Cardinality(BindsFrom(work, 2 * n))
      /\ Stacked(work, n) /\ \A r \in (2 * n)..Len(work) : At(work, r) \in Simple
      /\ Len(t.scopes) = n /\ Levels(envs, t.scopes, n - 1)
  BY DEF Working
<1>5. Taken(work[1], n, t, u) /\ Len(work) >= 2 * n
  BY DEF Top
<1>6. Len(u.scopes) = n /\ \A i \in 1..(n - 1) : u.scopes[i] = t.scopes[i]
  BY <1>4
<1>. HIDE DEF u, t, n, e
<1>7. /\ Pending(Tail(work), 2 * n - 1, e, n, u)
      /\ Len(u.stored) + Cardinality(BindsFrom(Tail(work), 2 * n)) = Len(meant)
  <2>1. 2 * n - 1 \in Nat /\ 2 * n - 1 < Len(work) /\ (2 * n - 1) + 1 = 2 * n
    BY <1>1, <1>5
  <2>2. \A b \in Nat : b < Len(work) /\ Pending(work, b, e, n, t) =>
          /\ Pending(Tail(work), b, e, n, u)
          /\ Len(u.stored) + Cardinality(BindsFrom(Tail(work), b + 1))
               = Len(t.stored) + Cardinality(BindsFrom(work, b + 1))
    BY <1>1, <1>5, TakeStep
  <2>. QED BY <1>4, <2>1, <2>2
<1>8. Stacked(Tail(work), n)
  <2>1. \A r \in 1..(2 * n - 1) : r \in 1..(Len(work) - 1)
    BY <1>1, <1>5
  <2>. QED BY <1>1, <1>2, <1>4, <2>1, StackedSame
<1>9. \A r \in (2 * n)..Len(Tail(work)) : At(Tail(work), r) \in Simple
  <2>1. \A r \in (2 * n)..(Len(work) - 1) : r \in 1..(Len(work) - 1) /\ r \in (2 * n)..Len(work)
    BY <1>1
  <2>. QED BY <1>2, <1>4, <2>1
<1>10. Levels(envs, u.scopes, n - 1)
  <2>1. n - 1 \in Int
    BY <1>1
  <2>. QED BY <1>4, <1>6, <2>1, LevelsSame
<1>11. Len(Tail(work)) >= 2 * n - 1
  BY <1>1, <1>2, <1>5
<1>12. Working'
  BY <1>3, <1>6, <1>7, <1>8, <1>9, <1>10, <1>11 DEF Working, e, u
<1>. QED BY <1>3, <1>12 DEF IInv, Phase

(* What is on top of the stack in the middle of a statement.                 *)
LEMMA TargetTop ==
  ASSUME IInv, work # <<>>, Top.op \in {"store", "bind"}
  PROVE  /\ Working /\ Len(work) >= 2 * Depth
         /\ Top.target \in Places /\ NameOf(Top.target) \in Names \cup {NoName}
         /\ Top.op = "bind" => Top.symbol \in Factories
         /\ Tracker(tracker) /\ Len(tracker.scopes) = Depth
<1>1. Working /\ Len(work) >= 2 * Depth
  BY PhaseOf
<1>2. Top \in Steps
  BY TopOf DEF IInv
<1>3. Top \in StoreSteps \/ Top \in Binds
  BY <1>2, Kinds DEF Steps, Simple, VisitSteps, StoreSteps, Binds, Open, ExitStep
<1>4. Top.target \in Places /\ (Top.op = "bind" => Top.symbol \in Factories)
  BY <1>3 DEF StoreSteps, Binds
<1>5. NameOf(Top.target) \in Names \cup {NoName}
  BY <1>4 DEF Places, NameOf
<1>. QED BY <1>1, <1>4, <1>5 DEF IInv, Types, Working

(* A name that is stored loses its result.                                  *)
LEMMA StoreStep ==
  ASSUME IInv, StoreTarget
  PROVE  IInv'
<1>. DEFINE u == Bind(tracker, NameOf(Top.target), NoName)
            k == Len(tracker.scopes)
<1>1. /\ work # <<>> /\ Top.op = "store" /\ work' = Tail(work) /\ UNCHANGED history
      /\ tracker' = u
  BY DEF StoreTarget, TopIs
<1>2. /\ Working /\ Len(work) >= 2 * Depth /\ NameOf(Top.target) \in Names \cup {NoName}
      /\ Tracker(tracker) /\ k = Depth
  BY <1>1, TargetTop
<1>3. /\ Tracker(u) /\ u.stored = tracker.stored /\ Len(u.scopes) = k
      /\ \A i \in 1..(k - 1) : u.scopes[i] = tracker.scopes[i]
      /\ \A x \in Names : LookAt(u.scopes, k, x)
           = IF x = NameOf(Top.target) /\ x \notin Unresolved THEN None
             ELSE LookAt(tracker.scopes, k, x)
  BY <1>2, BindsNone
<1>. HIDE DEF u
<1>4. Len(u.stored) = Len(tracker.stored) + 0
  BY <1>2, <1>3 DEF Tracker
<1>5. Taken(Top, Depth, tracker, u)
  BY <1>1, <1>2, <1>3, <1>4 DEF Taken, Keeps, Writes
<1>. QED BY <1>1, <1>2, <1>3, <1>5, TakeWorking

(* A target that is bound holds the value's result.                         *)
LEMMA BindTaken ==
  ASSUME IInv, BindTarget
  PROVE  IInv'
<1>. DEFINE t == IF IsCache(Top.target)
                 THEN Add(tracker, "callsite_cached", Top.symbol) ELSE tracker
            name == NameOf(Top.target)
            u == Bind(t, name, Top.symbol)
            k == Len(tracker.scopes)
<1>1. /\ work # <<>> /\ Top.op = "bind" /\ work' = Tail(work) /\ UNCHANGED history
      /\ tracker' = u
  BY DEF BindTarget, TopIs
<1>2. /\ Working /\ Len(work) >= 2 * Depth /\ name \in Names \cup {NoName}
      /\ Top.symbol \in Factories /\ Tracker(tracker) /\ k = Depth
  BY <1>1, TargetTop
<1>3. Tracker(t) /\ t.scopes = tracker.scopes /\ t.stored = tracker.stored
  BY <1>2 DEF Add, Tracker
<1>4. Keeps(Top) <=> name \notin Unresolved \cup {NoName}
  BY <1>1 DEF Keeps, Bindable
<1>5. \A x : Writes(Top, x) <=> x = name
  BY <1>1 DEF Writes
<1>. HIDE DEF t, name
<1>6. CASE Keeps(Top)
  <2>0. name \in Names /\ name \notin Unresolved
    BY <1>2, <1>4, <1>6
  <2>1. /\ Tracker(u) /\ Len(u.stored) = Len(tracker.stored) + 1 /\ Len(u.scopes) = k
        /\ \A i \in 1..(k - 1) : u.scopes[i] = tracker.scopes[i]
        /\ \A x \in Names : LookAt(u.scopes, k, x)
             = IF x = name THEN Len(tracker.stored) + 1 ELSE LookAt(tracker.scopes, k, x)
    <3>1. /\ Tracker(u) /\ Len(u.stored) = Len(t.stored) + 1 /\ Len(u.scopes) = Len(t.scopes)
          /\ \A i \in 1..(Len(t.scopes) - 1) : u.scopes[i] = t.scopes[i]
          /\ \A x \in Names : LookAt(u.scopes, Len(t.scopes), x)
               = IF x = name THEN Len(t.stored) + 1 ELSE LookAt(t.scopes, Len(t.scopes), x)
      BY <1>2, <1>3, <2>0, BindsResult
    <3>. HIDE DEF u
    <3>. QED BY <1>3, <3>1
  <2>. HIDE DEF u
  <2>2. Taken(Top, Depth, tracker, u)
    BY <1>1, <1>2, <1>4, <1>5, <1>6, <2>1 DEF Taken
  <2>. QED BY <1>1, <1>2, <2>1, <2>2, TakeWorking
<1>7. CASE ~Keeps(Top)
  <2>1. u = t
    BY <1>4, <1>7 DEF Bind
  <2>2. Len(t.stored) = Len(tracker.stored) + 0
    BY <1>2, <1>3 DEF Tracker
  <2>3. Taken(Top, Depth, tracker, t)
    BY <1>2, <1>3, <1>4, <1>5, <1>7, <2>2, TrackerAssumption DEF Taken
  <2>4. tracker' = t
    BY <1>1, <2>1
  <2>. QED BY <1>1, <1>2, <1>3, <2>3, <2>4, TakeWorking
<1>. QED BY <1>6, <1>7

(* Where nothing is left to be taken, the innermost body goes on.            *)
LEMMA GoesOn ==
  ASSUME NEW n \in Nat \ {0}, Types', Depth' = n, Len(work') = 2 * n - 1,
         Stacked(work', n), Len(tracker'.scopes) = n, Levels(envs', tracker'.scopes, n),
         Len(meant') = Len(tracker'.stored)
  PROVE  IInv'
<1>. DEFINE w == work'
            t == tracker'
            e == envs'[n]
<1>1. w \in Seq(Steps) /\ Tracker(t) /\ 2 * n - 1 \in Nat /\ (2 * n - 1) + 1 = 2 * n
  BY DEF Types
<1>2. Level(e, t.scopes, n) /\ Levels(envs', t.scopes, n - 1)
  <2>1. n \in 1..n /\ \A j \in 1..(n - 1) : j \in 1..n
    OBVIOUS
  <2>. QED BY <2>1 DEF Levels
<1>. HIDE DEF e
<1>3. Pending(w, 2 * n - 1, e, n, t) /\ Cardinality(BindsFrom(w, 2 * n)) = 0
  <2>1. \A b \in Nat : b = Len(w) =>
          /\ Pending(w, b, e, n, t) <=> Level(e, t.scopes, n)
          /\ Cardinality(BindsFrom(w, b + 1)) = 0
    BY <1>1, NoneLeft
  <2>. QED BY <1>1, <1>2, <2>1, Zenon
<1>4. Len(meant') = Len(t.stored) + Cardinality(BindsFrom(w, 2 * n))
  <2>1. Len(t.stored) \in Nat
    BY <1>1 DEF Tracker
  <2>. QED BY <1>3, <2>1
<1>5. Len(w) >= 2 * n - 1 /\ (2 * n)..Len(w) = {}
  BY <1>1
<1>6. Working'
  BY <1>2, <1>3, <1>4, <1>5 DEF Working, e
<1>. QED BY <1>6 DEF IInv, Phase

(* A body is entered with a scope of its parameters.                        *)
LEMMA EnterStepTaken ==
  ASSUME IInv, EnterScope
  PROVE  IInv'
<1>. DEFINE n == Depth
            scopes == tracker.scopes
<1>1. /\ work # <<>> /\ Top.op = "enter" /\ work' = Tail(work) /\ UNCHANGED history
      /\ tracker' = Enter(tracker, Top.params)
  BY DEF EnterScope, TopIs
<1>2. Entering /\ Len(work) = 2 * n
  BY <1>1, PhaseOf
<1>3. /\ n \in Nat \ {0} /\ work \in Seq(Steps) /\ At(work, Len(work)) = Top /\ Tracker(tracker)
  BY <1>1, TopOf DEF IInv, Types
<1>4. /\ n > 1 /\ Stacked(work, n) /\ Len(scopes) = n - 1 /\ Levels(envs, scopes, n - 1)
      /\ Len(meant) = Len(tracker.stored)
  BY <1>2 DEF Entering
<1>5. PICK params \in SUBSET Names :
        At(work, 2 * n) = EnterStep(params) /\ envs[n] = Hidden(envs[n - 1], params)
  BY <1>2 DEF Entering
<1>6. Top.params = params
  BY <1>2, <1>3, <1>5, Kinds
<1>. DEFINE inner == [p \in params |-> None]
            new == Append(scopes, inner)
<1>7. /\ DOMAIN tracker' = {"scopes", "stored", "patterns"}
      /\ tracker'.scopes = new /\ tracker'.stored = tracker.stored
  BY <1>1, <1>3, <1>6 DEF Enter, Tracker
<1>8. inner \in Scopes /\ DOMAIN inner = params /\ \A p \in params : inner[p] = None
  <2>1. inner \in [params -> Nat]
    BY DEF None
  <2>. QED BY <2>1, Zenon DEF Scopes
<1>. HIDE DEF inner
<1>9. /\ new \in Seq(Scopes) /\ new # <<>> /\ Len(new) = n /\ new[n] = inner
      /\ \A i \in 1..(n - 1) : new[i] = scopes[i]
  <2>1. scopes \in Seq(Scopes)
    BY <1>3 DEF Tracker
  <2>. QED BY <1>3, <1>4, <1>8, <2>1
<1>. HIDE DEF new
<1>10. Tracker(tracker')
  BY <1>3, <1>7, <1>9 DEF Tracker
<1>11. /\ work' \in Seq(Steps) /\ Len(work') = 2 * n - 1
       /\ \A r \in 1..(2 * n - 1) : At(work', r) = At(work, r)
  BY <1>1, <1>2, <1>3, Pop
<1>12. Types' /\ Depth' = n /\ envs' = envs /\ meant' = meant
  BY <1>1, <1>10, <1>11, WalkTypes
<1>. HIDE DEF n, scopes
<1>13. Stacked(work', n)
  BY <1>3, <1>4, <1>11, StackedSame
<1>14. Levels(envs, new, n - 1)
  <2>1. n - 1 \in Int
    BY <1>3
  <2>. QED BY <1>4, <1>9, <2>1, LevelsSame
<1>15. Level(envs[n], new, n)
  <2>. SUFFICES ASSUME NEW name \in Names PROVE envs[n][name] = LookAt(new, n, name)
    BY DEF Level
  <2>1. LookAt(new, n, name) = IF name \in params THEN None ELSE LookAt(new, n - 1, name)
    BY <1>3, <1>8, <1>9, LookStep
  <2>2. envs[n - 1][name] = LookAt(new, n - 1, name)
    <3>1. n - 1 \in 1..(n - 1)
      BY <1>3, <1>4
    <3>. QED BY <1>14, <3>1 DEF Levels, Level
  <2>. QED BY <1>5, <2>1, <2>2 DEF Hidden
<1>16. Levels(envs, new, n)
  <2>1. \A j \in 1..n : j = n \/ j \in 1..(n - 1)
    BY <1>3
  <2>. QED BY <1>14, <1>15, <2>1 DEF Levels
<1>. QED BY <1>3, <1>4, <1>7, <1>9, <1>11, <1>12, <1>13, <1>16, GoesOn

(* A body is left with its scope.                                           *)
LEMMA ExitStepTaken ==
  ASSUME IInv, ExitScope
  PROVE  IInv'
<1>. DEFINE n == Depth
            scopes == tracker.scopes
            new == SubSeq(scopes, 1, Len(scopes) - 1)
<1>1. /\ work # <<>> /\ Top.op = "exit" /\ work' = Tail(work) /\ UNCHANGED history
      /\ tracker' = Exit(tracker)
  BY DEF ExitScope, TopIs
<1>2. Leaving
  BY <1>1, PhaseOf
<1>3. n \in Nat \ {0} /\ work \in Seq(Steps) /\ Tracker(tracker)
  BY <1>1, TopOf DEF IInv, Types
<1>4. /\ Len(work) = 2 * n /\ Stacked(work, n) /\ Len(scopes) = n + 1
      /\ Levels(envs, scopes, n) /\ Len(meant) = Len(tracker.stored)
  BY <1>2 DEF Leaving
<1>5. /\ DOMAIN tracker' = {"scopes", "stored", "patterns"}
      /\ tracker'.scopes = new /\ tracker'.stored = tracker.stored
  BY <1>1, <1>3 DEF Exit, Tracker
<1>6. /\ new \in Seq(Scopes) /\ new # <<>> /\ Len(new) = n
      /\ \A i \in 1..n : new[i] = scopes[i]
  <2>1. scopes \in Seq(Scopes) /\ Len(scopes) - 1 = n
    BY <1>3, <1>4 DEF Tracker
  <2>. QED BY <1>3, <1>4, <2>1
<1>. HIDE DEF new
<1>7. Tracker(tracker')
  BY <1>3, <1>5, <1>6 DEF Tracker
<1>8. /\ work' \in Seq(Steps) /\ Len(work') = 2 * n - 1
      /\ \A r \in 1..(2 * n - 1) : At(work', r) = At(work, r)
  BY <1>1, <1>3, <1>4, Pop
<1>9. Types' /\ Depth' = n /\ envs' = envs /\ meant' = meant
  BY <1>1, <1>7, <1>8, WalkTypes
<1>. HIDE DEF n, scopes
<1>10. Stacked(work', n)
  BY <1>3, <1>4, <1>8, StackedSame
<1>11. Levels(envs, new, n)
  <2>1. n \in Int
    BY <1>3
  <2>. QED BY <1>4, <1>6, <2>1, LevelsSame
<1>. QED BY <1>3, <1>4, <1>5, <1>6, <1>8, <1>9, <1>10, <1>11, GoesOn

(* The last step only orders the evidence.                                  *)
LEMMA FinishStep ==
  ASSUME IInv, Finish
  PROVE  IInv'
<1>1. /\ work = <<>> /\ work' = work /\ UNCHANGED history
      /\ tracker' = [tracker EXCEPT !.patterns = Patterns(tracker)]
  BY DEF Finish
<1>2. work \in Seq(Steps) /\ Tracker(tracker) /\ Depth \in Nat \ {0}
  BY DEF IInv, Types, Depth
<1>3. tracker'.scopes = tracker.scopes /\ Tracker(tracker')
  BY <1>1, <1>2 DEF Tracker
<1>4. Types' /\ Depth' = Depth /\ envs' = envs
  BY <1>1, <1>2, <1>3, WalkTypes
<1>5. Finished
  <2>1. Len(work) = 0
    BY <1>1
  <2>2. ~Working /\ ~Assigning /\ ~Defining /\ ~Entering /\ ~Leaving
    BY <1>2, <2>1 DEF Working, Assigning, Defining, Entering, Leaving
  <2>. QED BY <2>2 DEF IInv, Phase
<1>6. Finished'
  BY <1>1, <1>3, <1>4, <1>5 DEF Finished
<1>. QED BY <1>4, <1>6 DEF IInv, Phase

(* Every step keeps the invariant.                                          *)
LEMMA NextStep == IInv /\ [Next]_vars => IInv'
<1>. SUFFICES ASSUME IInv, [Next]_vars PROVE IInv'
  OBVIOUS
<1>1. ASSUME NEW s \in Statements, Write(s) PROVE IInv'
  BY <1>1, WriteStep
<1>2. CASE CloseBody
  BY <1>2, CloseStep
<1>3. CASE VisitNode
  BY <1>3, VisitStep
<1>4. CASE StoreTarget
  BY <1>4, StoreStep
<1>5. CASE EnterScope
  BY <1>5, EnterStepTaken
<1>6. CASE ExitScope
  BY <1>6, ExitStepTaken
<1>7. CASE BindTarget
  BY <1>7, BindTaken
<1>8. CASE Finish
  BY <1>8, FinishStep
<1>9. CASE UNCHANGED vars
  <2>1. /\ UNCHANGED <<work, envs, meant, tracker, language>>
    BY <1>9 DEF vars
  <2>2. Types'
    BY <2>1 DEF IInv, Types
  <2>3. Depth' = Depth
    BY <2>1 DEF Depth
  <2>4. /\ Working => Working'
        /\ Leaving => Leaving'
        /\ Finished => Finished'
    BY <2>1, <2>3 DEF Working, Leaving, Finished
  <2>5. Assigning => Assigning'
    BY <2>1, <2>3 DEF Assigning, Expressible, Assigned
  <2>6. Defining => Defining'
    BY <2>1, <2>3 DEF Defining, Expressible
  <2>7. Entering => Entering'
    BY <2>1, <2>3 DEF Entering
  <2>. QED BY <2>2, <2>4, <2>5, <2>6, <2>7 DEF IInv, Phase
<1>. QED BY <1>1, <1>2, <1>3, <1>4, <1>5, <1>6, <1>7, <1>8, <1>9 DEF Next

(* Names are lexical, for every file of either language, however deep its    *)
(* functions and classes are: between two statements each name means to the  *)
(* tracker what it holds there (callables.py:108, 150).                      *)
THEOREM NamesLexical == Spec => []ScopesLexical
<1>1. IInv /\ [Next]_vars => IInv'
  BY NextStep
<1>. QED BY <1>1, WalkInit, LexicalBetween, PTL DEF Spec

-----------------------------------------------------------------------------
(* The calls that the walk has still to see, by the step they are in and     *)
(* their place in it.                                                        *)

Visited(w) == {r \in 1..Len(w) : At(w, r).op = "visit"}
Unseen(w) == UNION {{r} \X DOMAIN At(w, r).node.made : r \in Visited(w)}
MadeAt(w, u) == At(w, u[1]).node.made[u[2]]

CallsTo(w, X) == {u \in Unseen(w) : MadeAt(w, u).callee \in X}
Holders(scopes, i) == {name \in Names : LookAt(scopes, Len(scopes), name) = i}

\* Names in the calls of a statement that may have another value by then.
BlindNames(s) ==
  IF language = "ecmascript" /\ s.type = "function" THEN Names \cup {NoName}
  ELSE TargetNames(s) \ {NoName}

\* What is on the stack gives another value to names of B alone.
Rebinds(w, B) ==
  \A r \in 1..Len(w) :
    /\ At(w, r).op = "store" => NameOf(At(w, r).target) \in B \cup {NoName}
    /\ At(w, r).op = "visit" => BlindNames(At(w, r).node) \subseteq B

\* The results are bound when all calls have been seen.
BindsLast(w) ==
  \A q, r \in 1..Len(w) : At(w, q).op = "bind" /\ At(w, r).op = "visit" => q < r

-----------------------------------------------------------------------------
(* The kept results.                                                         *)

Meaning == [target : Names, symbol : Factories, real : BOOLEAN, calls : Nat, blind : Nat]

Counting(w, t, B) ==
  \A i \in 1..Len(t.stored) :
    /\ t.stored[i].target = meant[i].target /\ t.stored[i].symbol = meant[i].symbol
    /\ t.stored[i].calls + Cardinality(CallsTo(w, Holders(t.scopes, i))) <= meant[i].calls
    /\ meant[i].calls - meant[i].blind
         <= t.stored[i].calls + Cardinality(CallsTo(w, Holders(t.scopes, i) \ B))

\* A result that is kept for a name, real or not, and not called yet.
Fresh(name, symbol) ==
  [target : {name}, symbol : {symbol}, real : BOOLEAN, calls : {0}, blind : {0}]

\* The results that the steps on the stack will keep.
Assigns(step, scopes) ==
  step.op = "visit" /\ step.node.type = "assign" /\ SymbolOf(scopes, step.node) # NoName

Promised(w, t) ==
  \A r \in 1..Len(w) :
    /\ r \in BindsFrom(w, 1) =>
         meant[Len(t.stored) + Cardinality(BindsFrom(w, r))]
           \in Fresh(NameOf(At(w, r).target), At(w, r).symbol)
    /\ Assigns(At(w, r), t.scopes) =>
         \A i \in Keeping(At(w, r).node) :
           meant[Len(t.stored) + Rank(At(w, r).node, i)]
             \in Fresh(At(w, r).node.targets[i].name, SymbolOf(t.scopes, At(w, r).node))

-----------------------------------------------------------------------------
(* The evidence.                                                             *)

\* What there is, and what the tracker makes of names that hold another value.
Reported == found \cup mistaken

Immediate(scopes, m) ==
  {Pattern("callsite_immediate", symbol, NoName) : symbol \in {Factory(scopes, m.immediate)} \ {NoName}}

\* What the tracker adds when it sees a call.
Told(scopes, m) == Immediate(scopes, m) \cup Arguments(scopes, m.callee, m.arguments)

Seen(B, m) == ({m.immediate} \cup m.arguments) \cap B = {}

\* What it adds when it binds the targets.
Cached(symbol) == Pattern("callsite_cached", symbol, NoName)

CachedBy(step, scopes) ==
  IF step.op = "bind" THEN {Cached(step.symbol) : target \in {x \in {step.target} : IsCache(x)}}
  ELSE IF Assigns(step, scopes)
  THEN {Cached(SymbolOf(scopes, step.node)) :
          i \in {j \in DOMAIN step.node.targets : IsCache(step.node.targets[j])}}
  ELSE {}

Telling(w, t, B) ==
  /\ t.patterns \subseteq Reported
  /\ \A u \in Unseen(w) : Told(t.scopes, MadeAt(w, u)) \subseteq Reported
  /\ \A r \in 1..Len(w) : CachedBy(At(w, r), t.scopes) \subseteq Reported
  /\ \A p \in certain :
       \/ p \in t.patterns
       \/ \E u \in Unseen(w) : Seen(B, MadeAt(w, u)) /\ p \in Told(t.scopes, MadeAt(w, u))
       \/ \E r \in 1..Len(w) : p \in CachedBy(At(w, r), t.scopes)

\* The calls and the evidence the tracker has are those of the file but for what
\* is left to see; in places where a name may have another value, or fewer.
Evident ==
  /\ \A i \in DOMAIN meant : meant[i] \in Meaning
  /\ work = <<>> => Len(tracker.stored) = Len(meant)
  /\ BindsLast(work)
  /\ Promised(work, tracker)
  /\ \E B \in SUBSET (Names \cup {NoName}) :
       /\ Rebinds(work, B)
       /\ Counting(work, tracker, B)
       /\ ~done => Telling(work, tracker, B)
  /\ done => work = <<>> /\ EvidenceReal

-----------------------------------------------------------------------------
(* Lemmas about the calls that are still to be seen.                         *)

(* What is below the statement of the innermost body is bodies and ends.     *)
LEMMA LowSteps ==
  ASSUME NEW w, NEW m \in Nat, Stacked(w, m), NEW r \in 1..(2 * m - 1)
  PROVE  At(w, r).op \in {"open", "exit"}
<1>1. PICK j \in Int : r = 2 * j \/ r = 2 * j - 1
  <2>1. r = 2 * (r \div 2) \/ r = 2 * (r \div 2) + 1
    OBVIOUS
  <2>2. CASE r = 2 * (r \div 2)
    BY <2>2
  <2>3. CASE r = 2 * (r \div 2) + 1
    <3>1. (r \div 2) + 1 \in Int /\ r = 2 * ((r \div 2) + 1) - 1
      BY <2>3
    <3>. QED BY <3>1
  <2>. QED BY <2>1, <2>2, <2>3
<1>2. CASE r = 2 * j
  <2>1. j \in 1..(m - 1)
    BY <1>2
  <2>2. At(w, r) = ExitStep
    BY <2>1, <1>2 DEF Stacked
  <2>. QED BY <2>2 DEF ExitStep
<1>3. CASE r = 2 * j - 1
  <2>1. j \in 1..m
    BY <1>3
  <2>2. At(w, r) = Open
    BY <2>1, <1>3 DEF Stacked
  <2>. QED BY <2>2 DEF Open
<1>. QED BY <1>1, <1>2, <1>3

(* A visit below the top is one of a call or a name.                         *)
LEMMA VisitsBelow ==
  ASSUME IInv
  PROVE  /\ \A r \in 1..Len(work) : At(work, r) \in Steps
         /\ \A r \in 1..(Len(work) - 1) :
              At(work, r).op = "visit" => At(work, r).node \in Expressions
<1>. DEFINE n == Depth
<1>1. work \in Seq(Steps) /\ n \in Nat \ {0}
  BY DEF IInv, Types, Depth
<1>2. ASSUME NEW r \in 1..Len(work) PROVE At(work, r) \in Steps
  <2>1. Len(work) + 1 - r \in 1..Len(work)
    BY <1>1
  <2>. QED BY <1>1, <2>1 DEF At
<1>3. ASSUME NEW r \in 1..(Len(work) - 1), At(work, r).op = "visit"
      PROVE  At(work, r).node \in Expressions
  <2>0. Len(work) \in Nat
    BY <1>1
  <2>. HIDE DEF n
  <2>1. CASE Working
    <3>1. Stacked(work, n) /\ \A q \in (2 * n)..Len(work) : At(work, q) \in Simple
      BY <2>1 DEF Working, n
    <3>2. r >= 2 * n
      <4>. SUFFICES ASSUME r \in 1..(2 * n - 1) PROVE FALSE
        BY <2>0, <1>1
      <4>. QED BY <1>1, <1>3, <3>1, LowSteps
    <3>3. At(work, r) \in Simple
      BY <3>1, <3>2, <2>0, <1>1
    <3>. QED BY <3>3, <1>3 DEF Simple, VisitSteps, StoreSteps, Binds
  <2>2. CASE Assigning \/ Leaving
    <3>1. Stacked(work, n) /\ Len(work) = 2 * n
      BY <2>2 DEF Assigning, Leaving, n
    <3>2. r \in 1..(2 * n - 1)
      BY <3>1, <1>1
    <3>. QED BY <1>1, <1>3, <3>1, <3>2, LowSteps
  <2>3. CASE Defining
    <3>1. Stacked(work, n - 1) /\ Len(work) = 2 * n - 2 /\ n > 1
      BY <2>3 DEF Defining, n
    <3>2. n - 1 \in Nat /\ r \in 1..(2 * (n - 1) - 1)
      BY <3>1, <1>1
    <3>. QED BY <1>3, <3>1, <3>2, LowSteps
  <2>4. CASE Entering
    <3>1. /\ Stacked(work, n)
          /\ \E params \in SUBSET Names : At(work, 2 * n) = EnterStep(params)
          /\ \A q \in (2 * n + 1)..Len(work) : At(work, q) \in VisitSteps(Expressions)
      BY <2>4 DEF Entering, n
    <3>2. r > 2 * n
      <4>1. r # 2 * n
        BY <1>3, <3>1 DEF EnterStep
      <4>. SUFFICES ASSUME r \in 1..(2 * n - 1) PROVE FALSE
        BY <4>1, <2>0, <1>1
      <4>. QED BY <1>1, <1>3, <3>1, LowSteps
    <3>3. At(work, r) \in VisitSteps(Expressions)
      BY <3>1, <3>2, <2>0, <1>1
    <3>. QED BY <3>3 DEF VisitSteps
  <2>5. CASE Finished
    BY <2>5, <2>0 DEF Finished
  <2>. QED BY <2>1, <2>2, <2>3, <2>4, <2>5 DEF IInv, Phase
<1>. QED BY <1>2, <1>3

(* Between statements, and at the ends of a body, nothing is left to see or  *)
(* to bind; nor is there beside a statement that is not a call.              *)
LEMMA NothingLeft ==
  ASSUME IInv, work # <<>>, Top.op # "bind", Top.op # "store",
         Top.op = "visit" => Top.node \notin Expressions
  PROVE  \A r \in 1..Len(work) :
           At(work, r).op \in {"visit", "bind", "store"} => r = Len(work)
<1>. DEFINE n == Depth
<1>1. /\ work \in Seq(Steps) /\ n \in Nat \ {0} /\ Len(work) \in Nat \ {0}
      /\ At(work, Len(work)) = Top
  BY TopOf DEF IInv, Types
<1>. SUFFICES ASSUME NEW r \in 1..Len(work), At(work, r).op \in {"visit", "bind", "store"}
              PROVE  r = Len(work)
  OBVIOUS
<1>. HIDE DEF n
<1>2. CASE Working
  <2>1. Stacked(work, n) /\ (\A q \in (2 * n)..Len(work) : At(work, q) \in Simple)
        /\ Len(work) >= 2 * n - 1
    BY <1>2 DEF Working, n
  <2>2. CASE Len(work) = 2 * n - 1
    BY <1>1, <2>1, <2>2, LowSteps
  <2>3. CASE Len(work) >= 2 * n
    <3>1. Top \in Simple
      BY <1>1, <2>1, <2>3
    <3>. QED BY <3>1 DEF Simple, VisitSteps, StoreSteps, Binds
  <2>. QED BY <2>1, <2>2, <2>3, <1>1
<1>3. CASE Assigning \/ Leaving
  <2>1. Stacked(work, n) /\ Len(work) = 2 * n
    BY <1>3 DEF Assigning, Leaving, n
  <2>2. r \notin 1..(2 * n - 1)
    BY <1>1, <2>1, LowSteps
  <2>. QED BY <1>1, <2>1, <2>2
<1>4. CASE Defining
  <2>1. Stacked(work, n - 1) /\ Len(work) = 2 * n - 2 /\ n > 1
    BY <1>4 DEF Defining, n
  <2>2. n - 1 \in Nat
    BY <2>1, <1>1
  <2>3. r \notin 1..(2 * (n - 1) - 1)
    BY <2>1, <2>2, LowSteps
  <2>. QED BY <1>1, <2>1, <2>3
<1>5. CASE Entering
  <2>1. /\ Stacked(work, n) /\ Len(work) >= 2 * n
        /\ \E params \in SUBSET Names : At(work, 2 * n) = EnterStep(params)
        /\ \A q \in (2 * n + 1)..Len(work) : At(work, q) \in VisitSteps(Expressions)
    BY <1>5 DEF Entering, n
  <2>2. CASE Len(work) > 2 * n
    <3>1. Top \in VisitSteps(Expressions)
      BY <1>1, <2>1, <2>2
    <3>. QED BY <3>1 DEF VisitSteps
  <2>3. CASE Len(work) = 2 * n
    <3>1. r # 2 * n
      BY <2>1 DEF EnterStep
    <3>2. r \notin 1..(2 * n - 1)
      BY <1>1, <2>1, LowSteps
    <3>. QED BY <1>1, <2>3, <3>1, <3>2
  <2>. QED BY <1>1, <2>1, <2>2, <2>3
<1>6. CASE Finished
  BY <1>6 DEF Finished
<1>. QED BY <1>2, <1>3, <1>4, <1>5, <1>6 DEF IInv, Phase

\* The calls left to see in v are those of S, which are left to see in w.
Moved(w, v, S) ==
  \E f \in Bijection(Unseen(v), S) :
    \A u \in Unseen(v) : MadeAt(v, u) = MadeAt(w, f[u])

(* A call that is left to see is one in a step, by its place.                *)
LEMMA UnseenIs ==
  ASSUME NEW w, NEW u
  PROVE  u \in Unseen(w) <=>
           \E r, j : r \in Visited(w) /\ j \in DOMAIN At(w, r).node.made /\ u = <<r, j>>
BY DEF Unseen

(* A bijection, spelled out.                                                 *)
LEMMA IsBijection ==
  ASSUME NEW S, NEW T, NEW f
  PROVE  f \in Bijection(S, T) <=>
           /\ f \in [S -> T]
           /\ \A x, y \in S : f[x] = f[y] => x = y
           /\ \A y \in T : \E x \in S : f[x] = y
BY DEF Bijection, Injection, Surjection, IsInjective

(* What is moved is counted alike.                                           *)
LEMMA SameCalls ==
  ASSUME NEW w, NEW v, NEW S, Moved(w, v, S), IsFiniteSet(S), NEW X
  PROVE  /\ IsFiniteSet(Unseen(v))
         /\ Cardinality(CallsTo(v, X)) = Cardinality({u \in S : MadeAt(w, u).callee \in X})
<1>. DEFINE T == {u \in S : MadeAt(w, u).callee \in X}
<1>1. PICK f \in Bijection(Unseen(v), S) :
             \A u \in Unseen(v) : MadeAt(v, u) = MadeAt(w, f[u])
  BY DEF Moved
<1>2. /\ f \in [Unseen(v) -> S]
      /\ \A x, y \in Unseen(v) : f[x] = f[y] => x = y
      /\ \A y \in S : \E x \in Unseen(v) : f[x] = y
  BY IsBijection
<1>3. IsFiniteSet(Unseen(v))
  <2>1. f \in Injection(Unseen(v), S)
    BY DEF Bijection
  <2>. QED BY <2>1, FS_Injection
<1>. DEFINE g == [u \in CallsTo(v, X) |-> f[u]]
<1>4. g \in Bijection(CallsTo(v, X), T)
  <2>1. CallsTo(v, X) \subseteq Unseen(v)
    BY DEF CallsTo
  <2>2. g \in [CallsTo(v, X) -> T]
    BY <1>1, <1>2, <2>1 DEF CallsTo
  <2>3. \A x, y \in CallsTo(v, X) : g[x] = g[y] => x = y
    BY <1>2, <2>1
  <2>4. ASSUME NEW y \in T PROVE \E x \in CallsTo(v, X) : g[x] = y
    <3>1. PICK x \in Unseen(v) : f[x] = y
      BY <1>2
    <3>2. x \in CallsTo(v, X)
      BY <1>1, <3>1 DEF CallsTo
    <3>. QED BY <3>1, <3>2
  <2>. HIDE DEF g, T
  <2>. QED BY <2>2, <2>3, <2>4, IsBijection
<1>5. IsFiniteSet(T)
  BY FS_Subset
<1>6. IsFiniteSet(CallsTo(v, X))
  <2>1. CallsTo(v, X) \in SUBSET Unseen(v)
    BY DEF CallsTo
  <2>. QED BY <2>1, <1>3, FS_Subset
<1>. HIDE DEF g, T
<1>7. ExistsBijection(CallsTo(v, X), T)
  BY <1>4 DEF ExistsBijection
<1>8. Cardinality(T) = Cardinality(CallsTo(v, X))
  BY <1>6, <1>7, FS_Bijection
<1>. QED BY <1>3, <1>8 DEF T

(* Taking a step off that is no visit leaves as much to see.                 *)
LEMMA TakeOff ==
  ASSUME NEW S, NEW w \in Seq(S), w # <<>>, w[1].op # "visit"
  PROVE  /\ Unseen(Tail(w)) = Unseen(w)
         /\ \A u \in Unseen(w) : MadeAt(Tail(w), u) = MadeAt(w, u)
<1>1. /\ Len(Tail(w)) = Len(w) - 1 /\ Len(w) \in Nat \ {0}
      /\ \A r \in 1..(Len(w) - 1) : At(Tail(w), r) = At(w, r)
      /\ At(w, Len(w)) = w[1]
  BY Pop
<1>. DEFINE v == Tail(w)
<1>. HIDE DEF v
<1>2. Visited(v) = Visited(w) /\ \A r \in Visited(w) : At(v, r) = At(w, r)
  BY <1>1 DEF Visited, v
<1>3. Unseen(v) = Unseen(w)
  BY <1>2 DEF Unseen
<1>4. ASSUME NEW u \in Unseen(w) PROVE MadeAt(v, u) = MadeAt(w, u)
  <2>1. PICK r, j : r \in Visited(w) /\ j \in DOMAIN At(w, r).node.made /\ u = <<r, j>>
    BY UnseenIs
  <2>. QED BY <2>1, <1>2 DEF MadeAt
<1>. QED BY <1>3, <1>4 DEF v

\* The calls in the visits of a list of steps.
CallsOn(steps) ==
  UNION {{i} \X DOMAIN steps[i].node.made : i \in {k \in 1..Len(steps) : steps[k].op = "visit"}}

(* Putting the visits of the parts of a node in its place leaves the calls   *)
(* of the parts to see.                                                      *)
LEMMA PutParts ==
  ASSUME NEW S, NEW w \in Seq(S), w # <<>>, w[1].op = "visit",
         NEW steps \in Seq(S), NEW D \in SUBSET DOMAIN w[1].node.made,
         NEW place \in Bijection(CallsOn(steps), D),
         \A c \in CallsOn(steps) : w[1].node.made[place[c]] = steps[c[1]].node.made[c[2]]
  PROVE  Moved(w, steps \o Tail(w), {u \in Unseen(w) : u[1] = Len(w) => u[2] \in D})
<1>. DEFINE v == steps \o Tail(w)
            n == Len(w)
            m == Len(steps)
            K == {u \in Unseen(w) : u[1] = n => u[2] \in D}
            f == [u \in Unseen(v) |-> IF u[1] < n THEN u ELSE <<n, place[<<m + n - u[1], u[2]>>]>>]
<1>1. /\ Len(v) = m + n - 1 /\ m \in Nat /\ n \in Nat \ {0}
      /\ \A r \in 1..(n - 1) : At(v, r) = At(w, r)
      /\ \A r \in n..(m + n - 1) : m + n - r \in 1..m /\ At(v, r) = steps[m + n - r]
      /\ At(w, n) = w[1]
  BY ReplaceTop, Pop
<1>2. /\ place \in [CallsOn(steps) -> D]
      /\ \A x, y \in CallsOn(steps) : place[x] = place[y] => x = y
      /\ \A y \in D : \E x \in CallsOn(steps) : place[x] = y
  BY IsBijection
<1>. HIDE DEF v, n, m
<1>3. ASSUME NEW r, NEW j, r < n
      PROVE  <<r, j>> \in Unseen(v) <=> <<r, j>> \in K
  <2>1. r \in Visited(v) <=> r \in Visited(w)
    BY <1>1, <1>3 DEF Visited, n
  <2>2. r \in Visited(v) => At(v, r) = At(w, r)
    BY <1>1, <1>3 DEF Visited
  <2>. QED BY <2>1, <2>2, <1>3, <1>1, UnseenIs
<1>4. ASSUME NEW r \in Nat, NEW j, r >= n
      PROVE  <<r, j>> \in Unseen(v) <=> r <= m + n - 1 /\ <<m + n - r, j>> \in CallsOn(steps)
  <2>. DEFINE i == m + n - r
  <2>1. r \in Visited(v) <=> r <= m + n - 1 /\ steps[i].op = "visit"
    BY <1>1, <1>4 DEF Visited
  <2>2. r \in Visited(v) => At(v, r) = steps[i] /\ i \in 1..m
    BY <1>1, <1>4 DEF Visited
  <2>3. <<i, j>> \in CallsOn(steps) <=> i \in 1..m /\ steps[i].op = "visit" /\ j \in DOMAIN steps[i].node.made
    BY DEF CallsOn, m
  <2>4. <<r, j>> \in Unseen(v) <=> r \in Visited(v) /\ j \in DOMAIN At(v, r).node.made
    BY UnseenIs
  <2>5. r <= m + n - 1 => i \in 1..m
    BY <1>1, <1>4
  <2>. HIDE DEF i
  <2>6. <<r, j>> \in Unseen(v) <=> r <= m + n - 1 /\ <<i, j>> \in CallsOn(steps)
    BY <2>1, <2>2, <2>3, <2>4, <2>5
  <2>. QED BY <2>6 DEF i
<1>5. \A u \in Unseen(v) : u = <<u[1], u[2]>> /\ u[1] \in Nat
  <2>. SUFFICES ASSUME NEW u \in Unseen(v) PROVE u = <<u[1], u[2]>> /\ u[1] \in Nat
    OBVIOUS
  <2>1. PICK r, j : r \in Visited(v) /\ j \in DOMAIN At(v, r).node.made /\ u = <<r, j>>
    BY UnseenIs
  <2>. QED BY <2>1, <1>1 DEF Visited
<1>6. \A y \in D : <<n, y>> \in K
  <2>. SUFFICES ASSUME NEW y \in D PROVE <<n, y>> \in K
    OBVIOUS
  <2>1. n \in Visited(w) /\ y \in DOMAIN At(w, n).node.made
    BY <1>1 DEF Visited, n
  <2>. QED BY <2>1, UnseenIs
<1>7. ASSUME NEW u \in Unseen(v)
      PROVE  f[u] \in K /\ MadeAt(v, u) = MadeAt(w, f[u])
             /\ (u[1] < n => f[u] = u)
             /\ (u[1] >= n => /\ <<m + n - u[1], u[2]>> \in CallsOn(steps)
                              /\ f[u] = <<n, place[<<m + n - u[1], u[2]>>]>>)
  <2>1. u = <<u[1], u[2]>> /\ u[1] \in Nat
    BY <1>5
  <2>2. CASE u[1] < n
    <3>1. u \in K /\ f[u] = u
      BY <1>3, <2>1, <2>2
    <3>2. u[1] \in Visited(v)
      BY <2>1, UnseenIs
    <3>3. At(v, u[1]) = At(w, u[1])
      BY <3>2, <2>2, <1>1 DEF Visited
    <3>. QED BY <3>1, <3>3, <2>1, <2>2, <1>1 DEF MadeAt
  <2>3. CASE u[1] >= n
    <3>. DEFINE c == <<m + n - u[1], u[2]>>
    <3>1. c \in CallsOn(steps) /\ u[1] \in n..(m + n - 1)
      BY <1>1, <1>4, <2>1, <2>3
    <3>2. f[u] = <<n, place[c]>>
      BY <2>1, <2>3, <1>1
    <3>3. place[c] \in D
      BY <1>2, <3>1
    <3>4. At(v, u[1]) = steps[m + n - u[1]] /\ At(w, n) = w[1]
      BY <1>1, <3>1
    <3>5. MadeAt(w, <<n, place[c]>>) = w[1].node.made[place[c]]
      BY <3>4 DEF MadeAt
    <3>6. MadeAt(v, u) = steps[c[1]].node.made[c[2]]
      BY <3>4 DEF MadeAt
    <3>7. MadeAt(v, u) = MadeAt(w, f[u])
      BY <3>1, <3>2, <3>5, <3>6
    <3>8. f[u] \in K
      BY <3>2, <3>3, <1>6
    <3>. HIDE DEF f
    <3>. QED BY <3>1, <3>2, <3>7, <3>8, <2>1, <2>3, <1>1
  <2>. QED BY <2>1, <2>2, <2>3, <1>1
<1>. HIDE DEF f
<1>8. ASSUME NEW x \in Unseen(v), NEW y \in Unseen(v), f[x] = f[y] PROVE x = y
  <2>1. x = <<x[1], x[2]>> /\ y = <<y[1], y[2]>> /\ x[1] \in Nat /\ y[1] \in Nat
    BY <1>5
  <2>2. CASE x[1] < n /\ y[1] < n
    BY <2>2, <1>7, <1>8
  <2>3. CASE x[1] < n /\ y[1] >= n
    <3>1. x = <<n, place[<<m + n - y[1], y[2]>>]>>
      BY <2>3, <1>7, <1>8
    <3>. QED BY <3>1, <2>3, <1>1
  <2>4. CASE x[1] >= n /\ y[1] < n
    <3>1. y = <<n, place[<<m + n - x[1], x[2]>>]>>
      BY <2>4, <1>7, <1>8
    <3>. QED BY <3>1, <2>4, <1>1
  <2>5. CASE x[1] >= n /\ y[1] >= n
    <3>. DEFINE a == <<m + n - x[1], x[2]>>
                b == <<m + n - y[1], y[2]>>
    <3>1. a \in CallsOn(steps) /\ b \in CallsOn(steps)
          /\ <<n, place[a]>> = f[x] /\ <<n, place[b]>> = f[y]
      BY <2>5, <1>7
    <3>. HIDE DEF a, b
    <3>2. a = b
      BY <3>1, <1>2, <1>8
    <3>3. m + n - x[1] = m + n - y[1] /\ x[2] = y[2]
      BY <3>2 DEF a, b
    <3>4. x[1] = y[1]
      BY <3>3, <2>1, <1>1
    <3>. QED BY <3>3, <3>4, <2>1
  <2>. QED BY <2>1, <2>2, <2>3, <2>4, <2>5, <1>1
<1>9. ASSUME NEW y \in K PROVE \E x \in Unseen(v) : f[x] = y
  <2>1. PICK r, j : r \in Visited(w) /\ j \in DOMAIN At(w, r).node.made /\ y = <<r, j>>
    BY UnseenIs
  <2>2. r \in 1..n
    BY <2>1 DEF Visited, n
  <2>3. CASE r < n
    <3>1. y \in Unseen(v)
      BY <2>1, <2>3, <1>3
    <3>. QED BY <3>1, <2>1, <2>3, <1>7
  <2>4. CASE r = n
    <3>1. j \in D
      BY <2>1, <2>4
    <3>2. PICK c \in CallsOn(steps) : place[c] = j
      BY <3>1, <1>2
    <3>3. PICK i, k : i \in 1..m /\ k \in DOMAIN steps[i].node.made /\ c = <<i, k>>
      BY DEF CallsOn, m
    <3>. DEFINE x == <<m + n - i, k>>
    <3>4. m + n - i \in Nat /\ m + n - i >= n /\ m + n - i <= m + n - 1 /\ m + n - (m + n - i) = i
      BY <1>1, <3>3
    <3>5. x \in Unseen(v)
      BY <1>4, <3>3, <3>4
    <3>6. f[x] = <<n, place[<<m + n - x[1], x[2]>>]>>
      BY <1>7, <3>4, <3>5
    <3>7. f[x] = y
      BY <3>2, <3>3, <3>4, <3>6, <2>1, <2>4
    <3>. QED BY <3>5, <3>7
  <2>. QED BY <2>2, <2>3, <2>4, <1>1
<1>10. f \in [Unseen(v) -> K]
  <2>1. f = [u \in Unseen(v) |-> f[u]]
    BY DEF f
  <2>. QED BY <2>1, <1>7
<1>11. f \in Bijection(Unseen(v), K)
  BY <1>8, <1>9, <1>10, IsBijection
<1>12. Moved(w, v, K)
  BY <1>7, <1>11 DEF Moved
<1>. QED BY <1>12 DEF v, n, K

(* The calls of a node are calls.                                            *)
LEMMA NodesList ==
  ASSUME NEW node \in Expressions \cup Statements
  PROVE  node.made \in Seq(MadeCalls)
<1>1. ASSUME NEW e \in Expressions PROVE e.made \in Seq(MadeCalls)
  <2>1. CASE e \in Calls
    BY <2>1, MadeAssumption
  <2>2. CASE e \in Places
    <3>1. e.made = <<>>
      BY <2>2 DEF Places
    <3>2. <<>> \in Seq(MadeCalls)
      OBVIOUS
    <3>. QED BY <3>1, <3>2
  <2>. QED BY <2>1, <2>2 DEF Expressions
<1>2. ASSUME NEW s \in Statements PROVE s.made \in Seq(MadeCalls)
  <2>1. CASE s \in Calls
    BY <2>1, MadeAssumption
  <2>2. CASE s.type = "assign" /\ s.value \in Expressions
    BY <1>1, <2>2, MadeAssumption
  <2>3. CASE s.type = "function"
    BY <2>3, MadeAssumption
  <2>4. CASE s.type = "class"
    <3>1. s.made = <<>>
      BY <2>4, MadeAssumption
    <3>2. <<>> \in Seq(MadeCalls)
      OBVIOUS
    <3>. QED BY <3>1, <3>2
  <2>. QED BY <2>1, <2>2, <2>3, <2>4, StatementKinds
<1>. QED BY <1>1, <1>2

(* What is left to see is finitely many calls.                               *)
LEMMA UnseenTyped ==
  ASSUME NEW w \in Seq(Steps)
  PROVE  /\ IsFiniteSet(Unseen(w))
         /\ \A u \in Unseen(w) : MadeAt(w, u) \in MadeCalls
<1>1. Len(w) \in Nat /\ \A r \in 1..Len(w) : At(w, r) \in Steps
  <2>1. \A r \in 1..Len(w) : Len(w) + 1 - r \in 1..Len(w)
    OBVIOUS
  <2>2. \A i \in 1..Len(w) : w[i] \in Steps
    OBVIOUS
  <2>. QED BY <2>1, <2>2 DEF At
<1>2. ASSUME NEW r \in Visited(w)
      PROVE  At(w, r).node.made \in Seq(MadeCalls)
  <2>1. At(w, r) \in Steps /\ At(w, r).op = "visit"
    BY <1>1 DEF Visited
  <2>2. At(w, r).node \in Expressions \cup Statements
    BY <2>1 DEF Steps, Simple, VisitSteps, StoreSteps, Binds, Open, ExitStep
  <2>. QED BY <2>2, NodesList
<1>3. IsFiniteSet(Visited(w))
  <2>1. IsFiniteSet(1..Len(w))
    BY <1>1, FS_Interval
  <2>. QED BY <2>1, FS_Subset DEF Visited
<1>. DEFINE part(r) == {r} \X DOMAIN At(w, r).node.made
            parts == {part(r) : r \in Visited(w)}
            f == [r \in Visited(w) |-> part(r)]
<1>4. IsFiniteSet(parts)
  <2>1. f \in [Visited(w) -> parts] /\ \A y \in parts : \E r \in Visited(w) : f[r] = y
    OBVIOUS
  <2>. HIDE DEF f, parts
  <2>2. f \in Surjection(Visited(w), parts)
    BY <2>1 DEF Surjection
  <2>. QED BY <1>3, <2>2, FS_Surjection
<1>5. ASSUME NEW T \in parts PROVE IsFiniteSet(T)
  <2>1. PICK r \in Visited(w) : T = part(r)
    OBVIOUS
  <2>2. PICK m \in Nat : DOMAIN At(w, r).node.made = 1..m
    <3>1. At(w, r).node.made \in Seq(MadeCalls)
      BY <1>2
    <3>. QED BY <3>1
  <2>3. IsFiniteSet(DOMAIN At(w, r).node.made) /\ IsFiniteSet({r})
    <3>1. 1 \in Int /\ m \in Int
      OBVIOUS
    <3>2. IsFiniteSet(1..m)
      BY <3>1, FS_Interval
    <3>. QED BY <2>2, <3>2, FS_Singleton, Zenon
  <2>. QED BY <2>1, <2>3, FS_Product
<1>6. Unseen(w) = UNION parts
  BY DEF Unseen
<1>7. IsFiniteSet(Unseen(w))
  <2>. HIDE DEF parts
  <2>. QED BY <1>4, <1>5, <1>6, FS_UNION
<1>8. ASSUME NEW u \in Unseen(w) PROVE MadeAt(w, u) \in MadeCalls
  <2>1. PICK r, j : r \in Visited(w) /\ j \in DOMAIN At(w, r).node.made /\ u = <<r, j>>
    BY UnseenIs
  <2>2. At(w, r).node.made \in Seq(MadeCalls)
    BY <1>2, <2>1
  <2>3. At(w, r).node.made[j] \in MadeCalls
    BY <2>1, <2>2
  <2>. QED BY <2>1, <2>3 DEF MadeAt
<1>. QED BY <1>7, <1>8

-----------------------------------------------------------------------------
(* Lemmas about names that are given another value.                          *)

\* From a to b only names of B change what they hold, and hold no result then.
Hides(a, b, B) ==
  \A name \in Names :
    \/ LookAt(b, Len(b), name) = LookAt(a, Len(a), name)
    \/ name \in B /\ LookAt(b, Len(b), name) = None

(* A hidden name holds no result, and any other the result it held.          *)
LEMMA HoldersHidden ==
  ASSUME NEW a, NEW b, NEW B, Hides(a, b, B), NEW i, i # None
  PROVE  Holders(b, i) \subseteq Holders(a, i) /\ Holders(b, i) \ B = Holders(a, i) \ B
BY DEF Hides, Holders

(* A hidden name invokes no factory, and any other the one it invoked.       *)
LEMMA FactoryHidden ==
  ASSUME NEW t, Tracker(t), NEW x, Tracker(x), NEW B, Hides(t.scopes, x.scopes, B),
         NEW c \in Names \cup {NoName}
  PROVE  /\ Factory(x.scopes, c) \in {Factory(t.scopes, c), NoName}
         /\ c \notin B => Factory(x.scopes, c) = Factory(t.scopes, c)
<1>1. Factory(t.scopes, c)
        = IF c = NoName THEN NoName
          ELSE IF LastName[c] \in Factories
                  /\ (c = LastName[c] => LookAt(t.scopes, Len(t.scopes), c) # None)
          THEN LastName[c] ELSE NoName
  BY FactoryIs
<1>2. Factory(x.scopes, c)
        = IF c = NoName THEN NoName
          ELSE IF LastName[c] \in Factories
                  /\ (c = LastName[c] => LookAt(x.scopes, Len(x.scopes), c) # None)
          THEN LastName[c] ELSE NoName
  BY FactoryIs
<1>3. CASE c = NoName
  BY <1>1, <1>2, <1>3
<1>4. CASE c \in Names
  BY <1>1, <1>2, <1>4 DEF Hides
<1>. QED BY <1>3, <1>4

(* And so the evidence of a call is the same, or less.                       *)
LEMMA ToldHidden ==
  ASSUME NEW t, Tracker(t), NEW x, Tracker(x), NEW B, Hides(t.scopes, x.scopes, B),
         NEW m \in MadeCalls
  PROVE  /\ Told(x.scopes, m) \subseteq Told(t.scopes, m)
         /\ Seen(B, m) => Told(x.scopes, m) = Told(t.scopes, m)
<1>1. /\ m.immediate \in Names \cup {NoName}
      /\ \A c \in m.arguments : c \in Names \cup {NoName}
  BY DEF MadeCalls
<1>2. /\ Factory(x.scopes, m.immediate) \in {Factory(t.scopes, m.immediate), NoName}
      /\ \A c \in m.arguments : Factory(x.scopes, c) \in {Factory(t.scopes, c), NoName}
  BY <1>1, FactoryHidden
<1>3. Immediate(x.scopes, m) \subseteq Immediate(t.scopes, m)
  BY <1>2 DEF Immediate
<1>4. Arguments(x.scopes, m.callee, m.arguments) \subseteq Arguments(t.scopes, m.callee, m.arguments)
  <2>1. CASE ArgumentKind(m.callee) = "none"
    BY <2>1 DEF Arguments
  <2>2. CASE ArgumentKind(m.callee) # "none"
    <3>1. \A c \in m.arguments :
            Factory(x.scopes, c) # NoName =>
              Factory(t.scopes, c) # NoName /\ Factory(x.scopes, c) = Factory(t.scopes, c)
      BY <1>2
    <3>. QED BY <2>2, <3>1 DEF Arguments
  <2>. QED BY <2>1, <2>2
<1>5. ASSUME Seen(B, m) PROVE Told(x.scopes, m) = Told(t.scopes, m)
  <2>1. m.immediate \notin B /\ \A c \in m.arguments : c \notin B
    BY <1>5 DEF Seen
  <2>2. /\ Factory(x.scopes, m.immediate) = Factory(t.scopes, m.immediate)
        /\ \A c \in m.arguments : Factory(x.scopes, c) = Factory(t.scopes, c)
    BY <1>1, <2>1, FactoryHidden
  <2>3. Immediate(x.scopes, m) = Immediate(t.scopes, m)
    BY <2>2 DEF Immediate
  <2>4. Arguments(x.scopes, m.callee, m.arguments) = Arguments(t.scopes, m.callee, m.arguments)
    <3>1. {d \in m.arguments : Factory(x.scopes, d) # NoName}
            = {d \in m.arguments : Factory(t.scopes, d) # NoName}
      BY <2>2
    <3>2. \A c \in {d \in m.arguments : Factory(t.scopes, d) # NoName} :
            Factory(x.scopes, c) = Factory(t.scopes, c)
      BY <2>2
    <3>. QED BY <3>1, <3>2 DEF Arguments
  <2>. QED BY <2>3, <2>4 DEF Told
<1>. QED BY <1>3, <1>4, <1>5 DEF Told

(* The counts stay true when names are hidden and calls in a blind place     *)
(* are passed over.                                                          *)
LEMMA CountingKept ==
  ASSUME NEW w, IsFiniteSet(Unseen(w)), NEW v, NEW S \in SUBSET Unseen(w), Moved(w, v, S),
         NEW B, \A u \in Unseen(w) \ S : MadeAt(w, u).callee \in B,
         NEW t, NEW x, Hides(t.scopes, x.scopes, B), x.stored = t.stored,
         t.stored \in Seq(Kept), \A i \in DOMAIN meant : meant[i] \in Meaning,
         DOMAIN meant = 1..Len(meant), Len(t.stored) <= Len(meant), Len(meant) \in Nat,
         Counting(w, t, B)
  PROVE  Counting(v, x, B)
<1>. SUFFICES ASSUME NEW i \in 1..Len(t.stored)
     PROVE  /\ t.stored[i].target = meant[i].target /\ t.stored[i].symbol = meant[i].symbol
            /\ t.stored[i].calls + Cardinality(CallsTo(v, Holders(x.scopes, i))) <= meant[i].calls
            /\ meant[i].calls - meant[i].blind
                 <= t.stored[i].calls + Cardinality(CallsTo(v, Holders(x.scopes, i) \ B))
  BY DEF Counting
<1>1. /\ t.stored[i].target = meant[i].target /\ t.stored[i].symbol = meant[i].symbol
      /\ t.stored[i].calls + Cardinality(CallsTo(w, Holders(t.scopes, i))) <= meant[i].calls
      /\ meant[i].calls - meant[i].blind
           <= t.stored[i].calls + Cardinality(CallsTo(w, Holders(t.scopes, i) \ B))
  BY DEF Counting
<1>2. t.stored[i].calls \in Nat /\ meant[i].calls \in Nat /\ meant[i].blind \in Nat /\ i # None
  <2>1. t.stored[i] \in Kept /\ meant[i] \in Meaning /\ i # 0
    OBVIOUS
  <2>. QED BY <2>1 DEF Kept, Meaning, None
<1>. DEFINE H == Holders(t.scopes, i)
            G == Holders(x.scopes, i)
            P == {u \in S : MadeAt(w, u).callee \in G}
            Q == {u \in S : MadeAt(w, u).callee \in G \ B}
<1>3. G \subseteq H /\ G \ B = H \ B
  BY <1>2, HoldersHidden
<1>4. IsFiniteSet(S)
  BY FS_Subset
<1>5. Cardinality(CallsTo(v, G)) = Cardinality(P) /\ Cardinality(CallsTo(v, G \ B)) = Cardinality(Q)
  <2>. HIDE DEF G
  <2>. QED BY <1>4, SameCalls
<1>6. /\ IsFiniteSet(CallsTo(w, H)) /\ P \in SUBSET CallsTo(w, H)
      /\ IsFiniteSet(CallsTo(w, H \ B)) /\ Q = CallsTo(w, H \ B)
  <2>1. CallsTo(w, H) \in SUBSET Unseen(w) /\ CallsTo(w, H \ B) \in SUBSET Unseen(w)
    BY DEF CallsTo
  <2>2. IsFiniteSet(CallsTo(w, H)) /\ IsFiniteSet(CallsTo(w, H \ B))
    BY <2>1, FS_Subset
  <2>. HIDE DEF G, H
  <2>3. P \in SUBSET CallsTo(w, H)
    BY <1>3 DEF CallsTo
  <2>4. Q = CallsTo(w, H \ B)
    BY <1>3 DEF CallsTo
  <2>. QED BY <2>2, <2>3, <2>4
<1>7. /\ Cardinality(P) <= Cardinality(CallsTo(w, H))
      /\ Cardinality(P) \in Nat /\ Cardinality(CallsTo(w, H)) \in Nat
      /\ Cardinality(Q) \in Nat
  <2>. HIDE DEF P, Q, G, H
  <2>1. IsFiniteSet(P) /\ Cardinality(P) <= Cardinality(CallsTo(w, H))
    BY <1>6, FS_Subset
  <2>. QED BY <1>6, <2>1, FS_CardinalityType
<1>. HIDE DEF P, Q
<1>8. Cardinality(Q) = Cardinality(CallsTo(w, H \ B))
  BY <1>6
<1>. QED BY <1>1, <1>2, <1>5, <1>7, <1>8

(* The evidence stays true when the evidence of what is seen is added.       *)
LEMMA TellingKept ==
  ASSUME NEW w, \A u \in Unseen(w) : MadeAt(w, u) \in MadeCalls,
         NEW v, NEW S \in SUBSET Unseen(w), Moved(w, v, S),
         NEW t, Tracker(t), NEW x, Tracker(x), NEW B, Hides(t.scopes, x.scopes, B),
         t.patterns \subseteq x.patterns, x.patterns \subseteq Reported,
         \A u \in Unseen(w) \ S : \/ ~Seen(B, MadeAt(w, u))
                                  \/ Told(t.scopes, MadeAt(w, u)) \subseteq x.patterns,
         \A r \in 1..Len(v) : CachedBy(At(v, r), x.scopes) \subseteq Reported,
         \A r \in 1..Len(w) : \A p \in CachedBy(At(w, r), t.scopes) :
           p \in x.patterns \/ \E q \in 1..Len(v) : p \in CachedBy(At(v, q), x.scopes),
         Telling(w, t, B)
  PROVE  Telling(v, x, B)
<1>1. PICK f \in Bijection(Unseen(v), S) :
             \A u \in Unseen(v) : MadeAt(v, u) = MadeAt(w, f[u])
  BY DEF Moved
<1>2. /\ f \in [Unseen(v) -> S]
      /\ \A y \in S : \E u \in Unseen(v) : f[u] = y
  BY IsBijection
<1>3. ASSUME NEW u \in Unseen(v) PROVE Told(x.scopes, MadeAt(v, u)) \subseteq Reported
  <2>1. f[u] \in Unseen(w) /\ MadeAt(v, u) = MadeAt(w, f[u])
    BY <1>1, <1>2
  <2>2. Told(x.scopes, MadeAt(w, f[u])) \subseteq Told(t.scopes, MadeAt(w, f[u]))
    BY <2>1, ToldHidden
  <2>. QED BY <2>1, <2>2 DEF Telling
<1>4. ASSUME NEW p \in certain
      PROVE  \/ p \in x.patterns
             \/ \E u \in Unseen(v) : Seen(B, MadeAt(v, u)) /\ p \in Told(x.scopes, MadeAt(v, u))
             \/ \E r \in 1..Len(v) : p \in CachedBy(At(v, r), x.scopes)
  <2>1. CASE p \in t.patterns
    BY <2>1
  <2>2. CASE \E u \in Unseen(w) : Seen(B, MadeAt(w, u)) /\ p \in Told(t.scopes, MadeAt(w, u))
    <3>1. PICK u \in Unseen(w) : Seen(B, MadeAt(w, u)) /\ p \in Told(t.scopes, MadeAt(w, u))
      BY <2>2
    <3>2. CASE u \in S
      <4>1. PICK y \in Unseen(v) : f[y] = u
        BY <1>2, <3>2
      <4>2. MadeAt(v, y) = MadeAt(w, u)
        BY <1>1, <4>1
      <4>3. Told(x.scopes, MadeAt(w, u)) = Told(t.scopes, MadeAt(w, u))
        BY <3>1, ToldHidden
      <4>. QED BY <3>1, <4>2, <4>3
    <3>3. CASE u \notin S
      BY <3>1, <3>3
    <3>. QED BY <3>2, <3>3
  <2>3. CASE \E r \in 1..Len(w) : p \in CachedBy(At(w, r), t.scopes)
    BY <2>3
  <2>. QED BY <2>1, <2>2, <2>3 DEF Telling
<1>. QED BY <1>3, <1>4 DEF Telling

-----------------------------------------------------------------------------
(* A call is seen.                                                           *)

(* The tracker counts a call for the result that its callee holds, and adds  *)
(* the evidence of the call (callables.py:116, 130).                         *)
LEMMA CallRecorded ==
  ASSUME NEW t, Tracker(t), NEW c \in Calls
  PROVE  LET x == RecordCall(t, c)
             own == c.made[Len(c.made)]
         IN  /\ Tracker(x) /\ x.scopes = t.scopes /\ Len(x.stored) = Len(t.stored)
             /\ x.patterns = t.patterns \cup Told(t.scopes, own)
             /\ \A i \in 1..Len(t.stored) :
                  /\ x.stored[i].target = t.stored[i].target
                  /\ x.stored[i].symbol = t.stored[i].symbol
                  /\ x.stored[i].calls = t.stored[i].calls
                       + IF own.callee \in Holders(t.scopes, i) THEN 1 ELSE 0
<1>. DEFINE immediate == Factory(t.scopes, c.immediate)
            at == IF immediate = NoName THEN t ELSE Add(t, "callsite_immediate", immediate)
            counted == CountCall(at, c.callee)
            x == RecordCall(t, c)
            own == c.made[Len(c.made)]
<1>1. Tracker(x) /\ x.scopes = t.scopes /\ Len(x.stored) = Len(t.stored)
  BY RecordCallKeeps
<1>2. own.callee = c.callee /\ own.immediate = c.immediate /\ own.arguments = c.arguments
      /\ c.callee \in Names \cup {NoName}
  <2>1. own = [callee |-> c.callee, immediate |-> c.immediate, arguments |-> c.arguments]
    BY MadeAssumption DEF Last
  <2>2. c.callee \in Names \cup {NoName}
    BY CallsAssumption
  <2>. HIDE DEF own
  <2>. QED BY <2>1, <2>2
<1>3. /\ at.scopes = t.scopes /\ at.stored = t.stored /\ Tracker(at)
      /\ at.patterns = t.patterns \cup Immediate(t.scopes, own)
  <2>. HIDE DEF own
  <2>1. CASE immediate = NoName
    <3>1. Immediate(t.scopes, own) = {}
      BY <1>2, <2>1 DEF Immediate
    <3>. QED BY <2>1, <3>1
  <2>2. CASE immediate # NoName
    <3>1. Immediate(t.scopes, own) = {Pattern("callsite_immediate", immediate, NoName)}
      BY <1>2, <2>2 DEF Immediate
    <3>. QED BY <2>2, <3>1 DEF Add, Tracker
  <2>. QED BY <2>1, <2>2
<1>. HIDE DEF at
<1>4. x = [counted EXCEPT !.patterns = counted.patterns \cup Arguments(t.scopes, c.callee, c.arguments)]
  BY DEF RecordCall, at
<1>. DEFINE h == Held(at.scopes, c.callee)
            stored == [at.stored EXCEPT ![h].calls = @ + 1]
<1>5. counted = IF c.callee # NoName /\ HoldsResult(at.scopes, c.callee)
                THEN [at EXCEPT !.stored = stored] ELSE at
  BY DEF CountCall
<1>. HIDE DEF stored, counted, x, h, own
<1>6. DOMAIN counted = DOMAIN at /\ "patterns" \in DOMAIN at /\ "stored" \in DOMAIN at
      /\ counted.patterns = at.patterns
  BY <1>3, <1>5 DEF Tracker
<1>7. x.patterns = t.patterns \cup Told(t.scopes, own) /\ x.stored = counted.stored
  BY <1>2, <1>3, <1>4, <1>6 DEF Told
<1>8. ASSUME NEW i \in 1..Len(t.stored)
      PROVE  own.callee \in Holders(t.scopes, i) <=>
               c.callee # NoName /\ HoldsResult(at.scopes, c.callee) /\ h = i
  <2>1. LookAt(t.scopes, Len(t.scopes), c.callee)
          = IF IsBound(t.scopes, c.callee) THEN Held(t.scopes, c.callee) ELSE Unbound
    BY LookAll
  <2>2. i # Unbound /\ i # None
    BY DEF Unbound, None
  <2>. QED BY <1>2, <1>3, <2>1, <2>2, TrackerAssumption DEF Holders, HoldsResult, h
<1>9. ASSUME NEW i \in 1..Len(t.stored)
      PROVE  /\ x.stored[i].target = t.stored[i].target
             /\ x.stored[i].symbol = t.stored[i].symbol
             /\ x.stored[i].calls = t.stored[i].calls
                  + IF own.callee \in Holders(t.scopes, i) THEN 1 ELSE 0
  <2>0. t.stored[i] \in Kept /\ i \in DOMAIN t.stored
    BY DEF Tracker
  <2>1. CASE own.callee \in Holders(t.scopes, i)
    <3>1. x.stored = stored /\ h = i
      BY <1>3, <1>5, <1>7, <1>8, <2>1 DEF Tracker
    <3>2. x.stored[i] = [t.stored[i] EXCEPT !.calls = @ + 1]
      BY <3>1, <2>0, <1>3 DEF stored
    <3>. QED BY <3>2, <2>0, <2>1 DEF Kept
  <2>2. CASE own.callee \notin Holders(t.scopes, i)
    <3>1. x.stored[i] = t.stored[i]
      <4>1. CASE c.callee # NoName /\ HoldsResult(at.scopes, c.callee)
        <5>1. x.stored = stored /\ h # i
          BY <1>3, <1>5, <1>7, <1>8, <2>2, <4>1 DEF Tracker
        <5>2. at.stored[i] = t.stored[i] /\ i \in DOMAIN at.stored
          BY <2>0, <1>3
        <5>3. stored[i] = at.stored[i]
          BY <5>1, <5>2, Zenon DEF stored
        <5>. QED BY <5>1, <5>2, <5>3
      <4>2. CASE ~(c.callee # NoName /\ HoldsResult(at.scopes, c.callee))
        BY <1>3, <1>5, <1>7, <4>2
      <4>. QED BY <4>1, <4>2
    <3>2. t.stored[i].calls \in Nat
      BY <2>0 DEF Kept
    <3>. QED BY <3>1, <3>2, <2>2
  <2>. QED BY <2>1, <2>2
<1>. QED BY <1>1, <1>7, <1>9 DEF x, own

(* A call is counted when it is seen and no longer left to see.              *)
LEMMA SeenCounted ==
  ASSUME NEW w, IsFiniteSet(Unseen(w)), NEW z \in Unseen(w), NEW v,
         Moved(w, v, Unseen(w) \ {z}),
         NEW B, NEW t, NEW x, x.scopes = t.scopes, Len(x.stored) = Len(t.stored),
         \A i \in 1..Len(t.stored) :
           /\ x.stored[i].target = t.stored[i].target
           /\ x.stored[i].symbol = t.stored[i].symbol
           /\ x.stored[i].calls = t.stored[i].calls
                + IF MadeAt(w, z).callee \in Holders(t.scopes, i) THEN 1 ELSE 0,
         t.stored \in Seq(Kept), \A i \in DOMAIN meant : meant[i] \in Meaning,
         DOMAIN meant = 1..Len(meant), Len(t.stored) <= Len(meant), Len(meant) \in Nat,
         Counting(w, t, B)
  PROVE  Counting(v, x, B)
<1>. DEFINE S == Unseen(w) \ {z}
<1>1. IsFiniteSet(S)
  BY FS_Subset
<1>2. ASSUME NEW X
      PROVE  /\ Cardinality(CallsTo(v, X)) \in Nat
             /\ Cardinality(CallsTo(w, X)) =
                  Cardinality(CallsTo(v, X)) + IF MadeAt(w, z).callee \in X THEN 1 ELSE 0
  <2>. DEFINE T == {u \in S : MadeAt(w, u).callee \in X}
  <2>1. Cardinality(CallsTo(v, X)) = Cardinality(T)
    BY <1>1, SameCalls
  <2>2. IsFiniteSet(T) /\ z \notin T
    BY <1>1, FS_Subset
  <2>3. CallsTo(w, X) = IF MadeAt(w, z).callee \in X THEN T \cup {z} ELSE T
    BY DEF CallsTo
  <2>. HIDE DEF T
  <2>4. Cardinality(T \cup {z}) = Cardinality(T) + 1 /\ Cardinality(T) \in Nat
    BY <2>2, FS_AddElement, FS_CardinalityType
  <2>. QED BY <2>1, <2>3, <2>4
<1>. SUFFICES ASSUME NEW i \in 1..Len(x.stored)
     PROVE  /\ x.stored[i].target = meant[i].target /\ x.stored[i].symbol = meant[i].symbol
            /\ x.stored[i].calls + Cardinality(CallsTo(v, Holders(x.scopes, i))) <= meant[i].calls
            /\ meant[i].calls - meant[i].blind
                 <= x.stored[i].calls + Cardinality(CallsTo(v, Holders(x.scopes, i) \ B))
  BY DEF Counting
<1>3. t.stored[i].calls \in Nat /\ meant[i].calls \in Nat /\ meant[i].blind \in Nat
  <2>1. t.stored[i] \in Kept /\ meant[i] \in Meaning
    OBVIOUS
  <2>. QED BY <2>1 DEF Kept, Meaning
<1>4. /\ t.stored[i].target = meant[i].target /\ t.stored[i].symbol = meant[i].symbol
      /\ t.stored[i].calls + Cardinality(CallsTo(w, Holders(t.scopes, i))) <= meant[i].calls
      /\ meant[i].calls - meant[i].blind
           <= t.stored[i].calls + Cardinality(CallsTo(w, Holders(t.scopes, i) \ B))
  BY DEF Counting
<1>. DEFINE H == Holders(t.scopes, i)
            one == IF MadeAt(w, z).callee \in H THEN 1 ELSE 0
            few == IF MadeAt(w, z).callee \in H \ B THEN 1 ELSE 0
<1>5. /\ Cardinality(CallsTo(w, H)) = Cardinality(CallsTo(v, H)) + one
      /\ Cardinality(CallsTo(w, H \ B)) = Cardinality(CallsTo(v, H \ B)) + few
      /\ Cardinality(CallsTo(v, H)) \in Nat /\ Cardinality(CallsTo(v, H \ B)) \in Nat
  <2>. HIDE DEF H
  <2>. QED BY <1>2
<1>6. x.stored[i].calls = t.stored[i].calls + one /\ x.scopes = t.scopes
      /\ x.stored[i].target = t.stored[i].target /\ x.stored[i].symbol = t.stored[i].symbol
  OBVIOUS
<1>7. one \in {0, 1} /\ few \in {0, 1} /\ few <= one
  OBVIOUS
<1>. DEFINE many == Cardinality(CallsTo(v, H))
            rest == Cardinality(CallsTo(v, H \ B))
            all == Cardinality(CallsTo(w, H))
            most == Cardinality(CallsTo(w, H \ B))
<1>8. /\ all = many + one /\ most = rest + few /\ many \in Nat /\ rest \in Nat
      /\ t.stored[i].calls + all <= meant[i].calls
      /\ meant[i].calls - meant[i].blind <= t.stored[i].calls + most
  BY <1>4, <1>5, Zenon
<1>9. Holders(x.scopes, i) = H
  BY <1>6
<1>. HIDE DEF one, few, many, rest, all, most, H
<1>10. /\ x.stored[i].calls + many <= meant[i].calls
       /\ meant[i].calls - meant[i].blind <= x.stored[i].calls + rest
  <2>. DEFINE a == t.stored[i].calls
              b == meant[i].calls
              c == meant[i].blind
              d == x.stored[i].calls
  <2>1. a \in Nat /\ b \in Nat /\ c \in Nat /\ d = a + one
    BY <1>3, <1>6
  <2>2. all = many + one /\ most = rest + few /\ a + all <= b /\ b - c <= a + most
    BY <1>8
  <2>3. many \in Nat /\ rest \in Nat /\ one \in {0, 1} /\ few \in {0, 1} /\ few <= one
    BY <1>7, <1>8
  <2>. HIDE DEF a, b, c, d
  <2>4. d + many <= b /\ b - c <= d + rest
    BY <2>1, <2>2, <2>3
  <2>. QED BY <2>4 DEF a, b, c, d
<1>. QED BY <1>4, <1>6, <1>9, <1>10 DEF many, rest

-----------------------------------------------------------------------------
(* The steps of the walk.                                                    *)

(* A call or a name is no assignment, and gives no name a value.             *)
LEMMA Plain ==
  ASSUME NEW node \in Expressions
  PROVE  /\ node.type \in {"call", "ref", "subscript"} /\ BlindNames(node) = {}
         /\ \A step, scopes : step.op = "visit" /\ step.node = node =>
              ~Assigns(step, scopes) /\ CachedBy(step, scopes) = {}
<1>1. node.type \in {"call", "ref", "subscript"}
  BY CallsAssumption DEF Expressions, Places
<1>2. BlindNames(node) = {}
  <2>1. TargetNames(node) = {}
    BY <1>1 DEF TargetNames
  <2>. QED BY <1>1, <2>1 DEF BlindNames
<1>3. \A step, scopes : step.op = "visit" /\ step.node = node =>
        ~Assigns(step, scopes) /\ CachedBy(step, scopes) = {}
  BY <1>1 DEF Assigns, CachedBy
<1>. QED BY <1>1, <1>2, <1>3

(* What a step of the walk has to keep.                                      *)
LEMMA EvidentBy ==
  ASSUME IInv, Evident, work # <<>>, UNCHANGED <<history, done>>, work' # <<>>,
         BindsLast(work'), Promised(work', tracker'),
         NEW B \in SUBSET (Names \cup {NoName}), Rebinds(work', B),
         Counting(work', tracker', B), Telling(work', tracker', B)
  PROVE  Evident'
<1>1. /\ language' = language /\ meant' = meant /\ Reported' = Reported /\ certain' = certain
      /\ ~done /\ ~done'
  BY DEF history, Evident, Reported
<1>2. Rebinds(work, B)'
  BY <1>1 DEF Rebinds, BlindNames
<1>3. Counting(work, tracker, B)' /\ Telling(work, tracker, B)' /\ Promised(work, tracker)'
  BY <1>1 DEF Counting, Telling, Promised
<1>. QED BY <1>1, <1>2, <1>3 DEF Evident

(* There are at least a body and the top of the stack.                       *)
LEMMA BodyBelow ==
  ASSUME IInv, work # <<>>, Top.op # "open"
  PROVE  Len(work) \in Nat /\ Len(work) >= 2
<1>1. Len(work) \in Nat \ {0} /\ Depth \in Nat \ {0} /\ Top \in Steps
  BY TopOf DEF IInv
<1>2. Top.op \in {"visit", "store", "bind", "enter", "exit"}
  BY <1>1, Kinds DEF Steps, Open, ExitStep, VisitSteps
<1>3. \/ Len(work) >= 2 * Depth
      \/ Depth > 1 /\ Len(work) = 2 * Depth - 2
  <2>1. Leaving => Len(work) = 2 * Depth
    BY DEF Leaving
  <2>2. Assigning => Len(work) = 2 * Depth
    BY DEF Assigning
  <2>3. Defining => Depth > 1 /\ Len(work) = 2 * Depth - 2
    BY DEF Defining
  <2>. QED BY <1>1, <1>2, <2>1, <2>2, <2>3, PhaseOf
<1>. QED BY <1>1, <1>3

\* The stack v has other steps than w from the n-th on.
Same(w, v, n) ==
  /\ Len(v) \in Nat /\ Len(w) = n /\ Len(v) >= n - 1
  /\ \A r \in 1..(n - 1) : At(v, r) = At(w, r)

(* Steps that bind nothing leave the results that are to be bound.           *)
LEMMA BindsSame ==
  ASSUME NEW w, NEW v, NEW n \in Nat \ {0}, Same(w, v, n), At(w, n).op # "bind",
         \A r \in n..Len(v) : At(v, r).op # "bind", NEW q \in Nat \ {0}
  PROVE  BindsFrom(v, q) = BindsFrom(w, q)
<1>1. ASSUME NEW k PROVE k \in BindsFrom(v, q) <=> k \in BindsFrom(w, q)
  <2>1. CASE k \in q..Len(v) /\ k >= n
    <3>1. k \notin BindsFrom(v, q)
      BY <2>1 DEF BindsFrom, Same
    <3>2. k \notin BindsFrom(w, q)
      <4>. SUFFICES ASSUME k \in BindsFrom(w, q) PROVE FALSE
        OBVIOUS
      <4>1. k = n /\ At(w, k).op = "bind"
        BY <2>1 DEF BindsFrom, Same
      <4>. QED BY <4>1
    <3>. QED BY <3>1, <3>2
  <2>2. CASE k \in q..Len(w) /\ k = n
    <3>1. k \notin BindsFrom(w, q)
      BY <2>2 DEF BindsFrom
    <3>2. k \notin BindsFrom(v, q)
      BY <2>2 DEF BindsFrom, Same
    <3>. QED BY <3>1, <3>2
  <2>3. CASE k \in Int /\ k < n
    <3>1. k \in q..Len(v) <=> k \in q..Len(w)
      BY <2>3 DEF Same
    <3>2. k \in q..Len(w) => At(v, k) = At(w, k)
      BY <2>3 DEF Same
    <3>. QED BY <3>1, <3>2 DEF BindsFrom
  <2>. QED BY <2>1, <2>2, <2>3 DEF BindsFrom, Same
<1>. QED BY <1>1

(* Steps that bind nothing and begin no assignment.                          *)
Plains(w, v, n) ==
  \A r \in n..Len(v) :
    \/ At(v, r).op \in {"enter", "open", "exit"}
    \/ At(v, r).op = "visit" /\ At(v, r).node \in Expressions

(* They leave what is below them as it is.                                   *)
LEMMA StackKept ==
  ASSUME IInv, Evident, work # <<>>, NEW v, Same(work, v, Len(work)), Plains(work, v, Len(work)),
         Top.op # "bind", Top.op = "visit" => Top.node.type # "assign",
         NEW x, Len(x.stored) = Len(tracker.stored), NEW B, Rebinds(work, B)
  PROVE  /\ BindsLast(v) /\ Promised(v, x) /\ Rebinds(v, B)
         /\ \A r \in 1..Len(v) :
              CachedBy(At(v, r), x.scopes) # {} =>
                /\ r \in 1..Len(work)
                /\ CachedBy(At(v, r), x.scopes) = CachedBy(At(work, r), tracker.scopes)
         /\ \A r \in 1..Len(work) :
              CachedBy(At(work, r), tracker.scopes) # {} =>
                /\ r \in 1..Len(v)
                /\ CachedBy(At(v, r), x.scopes) = CachedBy(At(work, r), tracker.scopes)
<1>. DEFINE n == Len(work)
            w == work
<1>1. n \in Nat \ {0} /\ At(w, n) = Top
  BY TopOf DEF IInv
<1>2. Len(v) \in Nat /\ Len(v) >= n - 1 /\ \A r \in 1..(n - 1) : At(v, r) = At(w, r)
  BY DEF Same
<1>3. \A r \in 1..(n - 1) : At(w, r).op = "visit" => At(w, r).node \in Expressions
  BY VisitsBelow
<1>4. \A r \in n..Len(v) :
        \/ At(v, r).op \in {"enter", "open", "exit"}
        \/ At(v, r).op = "visit" /\ At(v, r).node \in Expressions
  BY DEF Plains
<1>. HIDE DEF n, w
<1>5. BindsLast(v)
  <2>. SUFFICES ASSUME NEW q \in 1..Len(v), NEW r \in 1..Len(v),
                       At(v, q).op = "bind", At(v, r).op = "visit"
                PROVE  q < r
    BY DEF BindsLast
  <2>1. q \in 1..(n - 1)
    BY <1>1, <1>2, <1>4
  <2>2. CASE r \in 1..(n - 1)
    <3>1. q \in 1..n /\ r \in 1..n /\ At(w, q).op = "bind" /\ At(w, r).op = "visit"
      BY <1>1, <1>2, <2>1, <2>2
    <3>2. BindsLast(w)
      BY DEF Evident, w
    <3>. QED BY <3>1, <3>2 DEF BindsLast, n, w
  <2>. QED BY <1>1, <1>2, <2>1, <2>2
<1>6. \A r \in 1..Len(v) : ~Assigns(At(v, r), x.scopes)
  <2>. SUFFICES ASSUME NEW r \in 1..Len(v), At(v, r).op = "visit"
                PROVE  ~Assigns(At(v, r), x.scopes)
    BY DEF Assigns
  <2>1. At(v, r).node \in Expressions
    BY <1>1, <1>2, <1>3, <1>4
  <2>. QED BY <2>1, Plain
<1>7. Promised(v, x)
  <2>. SUFFICES ASSUME NEW r \in 1..Len(v), r \in BindsFrom(v, 1)
                PROVE  meant[Len(x.stored) + Cardinality(BindsFrom(v, r))]
                         \in Fresh(NameOf(At(v, r).target), At(v, r).symbol)
    BY <1>6 DEF Promised
  <2>1. At(w, n).op # "bind" /\ \A k \in n..Len(v) : At(v, k).op # "bind"
    BY <1>1, <1>4
  <2>2. BindsFrom(v, r) = BindsFrom(w, r) /\ r \in BindsFrom(w, 1)
    BY <1>1, <2>1, BindsSame DEF n, w
  <2>3. r \in 1..(n - 1)
    BY <2>1, <1>1, <1>2 DEF BindsFrom
  <2>4. At(v, r) = At(w, r) /\ r \in 1..n
    BY <1>2, <1>1, <2>3
  <2>5. Promised(w, tracker)
    BY DEF Evident, w
  <2>. QED BY <2>2, <2>4, <2>5 DEF Promised, w, n
<1>8. Rebinds(v, B)
  <2>. SUFFICES ASSUME NEW r \in 1..Len(v)
                PROVE  /\ At(v, r).op = "store" => NameOf(At(v, r).target) \in B \cup {NoName}
                       /\ At(v, r).op = "visit" => BlindNames(At(v, r).node) \subseteq B
    BY DEF Rebinds
  <2>1. CASE r \in 1..(n - 1)
    <3>1. At(v, r) = At(w, r) /\ r \in 1..Len(w)
      BY <1>1, <1>2, <2>1 DEF n, w
    <3>. QED BY <3>1 DEF Rebinds, w
  <2>2. CASE r \in n..Len(v)
    <3>1. At(v, r).op # "store" /\ (At(v, r).op = "visit" => At(v, r).node \in Expressions)
      BY <1>4, <2>2
    <3>. QED BY <3>1, Plain
  <2>. QED BY <1>1, <1>2, <2>1, <2>2
<1>9. \A r \in n..Len(v) : CachedBy(At(v, r), x.scopes) = {}
  <2>. SUFFICES ASSUME NEW r \in n..Len(v) PROVE CachedBy(At(v, r), x.scopes) = {}
    OBVIOUS
  <2>1. CASE At(v, r).op = "visit" /\ At(v, r).node \in Expressions
    BY <2>1, Plain
  <2>2. CASE At(v, r).op \in {"enter", "open", "exit"}
    BY <2>2 DEF CachedBy, Assigns
  <2>. QED BY <1>4, <2>1, <2>2
<1>10. CachedBy(At(w, n), tracker.scopes) = {}
  BY <1>1 DEF CachedBy, Assigns
<1>11. \A r \in 1..(n - 1) : CachedBy(At(v, r), x.scopes) = CachedBy(At(w, r), tracker.scopes)
  <2>. SUFFICES ASSUME NEW r \in 1..(n - 1)
                PROVE CachedBy(At(v, r), x.scopes) = CachedBy(At(w, r), tracker.scopes)
    OBVIOUS
  <2>1. At(v, r) = At(w, r)
    BY <1>2
  <2>2. CASE At(w, r).op = "visit"
    BY <1>3, <2>1, <2>2, Plain
  <2>3. CASE At(w, r).op = "bind"
    BY <2>1, <2>3 DEF CachedBy
  <2>4. CASE At(w, r).op \notin {"bind", "visit"}
    BY <2>1, <2>4 DEF CachedBy, Assigns
  <2>. QED BY <2>2, <2>3, <2>4
<1>12. ASSUME NEW r \in 1..Len(v), CachedBy(At(v, r), x.scopes) # {}
       PROVE  /\ r \in 1..n
              /\ CachedBy(At(v, r), x.scopes) = CachedBy(At(w, r), tracker.scopes)
  <2>1. r \in 1..(n - 1)
    BY <1>1, <1>2, <1>9, <1>12
  <2>. QED BY <1>1, <1>11, <2>1
<1>13. ASSUME NEW r \in 1..n, CachedBy(At(w, r), tracker.scopes) # {}
       PROVE  /\ r \in 1..Len(v)
              /\ CachedBy(At(v, r), x.scopes) = CachedBy(At(w, r), tracker.scopes)
  <2>1. r \in 1..(n - 1)
    BY <1>1, <1>10, <1>13
  <2>. QED BY <1>1, <1>2, <1>11, <2>1
<1>. QED BY <1>5, <1>7, <1>8, <1>12, <1>13 DEF n, w

(* The same, with the evidence of what such steps see.                       *)
LEMMA PlainKept ==
  ASSUME IInv, Evident, work # <<>>, NEW v, Same(work, v, Len(work)), Plains(work, v, Len(work)),
         Top.op # "bind", Top.op = "visit" => Top.node.type # "assign",
         NEW x, Tracker(x), Len(x.stored) = Len(tracker.stored), NEW B, Rebinds(work, B),
         Telling(work, tracker, B),
         NEW S \in SUBSET Unseen(work), Moved(work, v, S), Hides(tracker.scopes, x.scopes, B),
         tracker.patterns \subseteq x.patterns, x.patterns \subseteq Reported,
         \A u \in Unseen(work) \ S : \/ ~Seen(B, MadeAt(work, u))
                                     \/ Told(tracker.scopes, MadeAt(work, u)) \subseteq x.patterns
  PROVE  BindsLast(v) /\ Promised(v, x) /\ Rebinds(v, B) /\ Telling(v, x, B)
<1>1. /\ BindsLast(v) /\ Promised(v, x) /\ Rebinds(v, B)
      /\ \A r \in 1..Len(v) :
           CachedBy(At(v, r), x.scopes) # {} =>
             /\ r \in 1..Len(work)
             /\ CachedBy(At(v, r), x.scopes) = CachedBy(At(work, r), tracker.scopes)
      /\ \A r \in 1..Len(work) :
           CachedBy(At(work, r), tracker.scopes) # {} =>
             /\ r \in 1..Len(v)
             /\ CachedBy(At(v, r), x.scopes) = CachedBy(At(work, r), tracker.scopes)
  BY StackKept
<1>2. work \in Seq(Steps) /\ Tracker(tracker)
  BY DEF IInv, Types
<1>3. \A u \in Unseen(work) : MadeAt(work, u) \in MadeCalls
  BY <1>2, UnseenTyped
<1>4. \A r \in 1..Len(v) : CachedBy(At(v, r), x.scopes) \subseteq Reported
  <2>. SUFFICES ASSUME NEW r \in 1..Len(v), CachedBy(At(v, r), x.scopes) # {}
                PROVE  CachedBy(At(v, r), x.scopes) \subseteq Reported
    OBVIOUS
  <2>. QED BY <1>1 DEF Telling
<1>5. \A r \in 1..Len(work) : \A p \in CachedBy(At(work, r), tracker.scopes) :
        p \in x.patterns \/ \E q \in 1..Len(v) : p \in CachedBy(At(v, q), x.scopes)
  BY <1>1
<1>. QED BY <1>1, <1>2, <1>3, <1>4, <1>5, TellingKept

(* A result that is kept is meant to be.                                     *)
LEMMA StoredMeant ==
  ASSUME IInv, Evident
  PROVE  /\ Len(tracker.stored) \in Nat /\ Len(meant) \in Nat
         /\ Len(tracker.stored) <= Len(meant) /\ DOMAIN meant = 1..Len(meant)
         /\ tracker.stored \in Seq(Kept) /\ Tracker(tracker) /\ work \in Seq(Steps)
         /\ IsFiniteSet(Unseen(work))
         /\ \A u \in Unseen(work) : MadeAt(work, u) \in MadeCalls
<1>1. /\ tracker.stored \in Seq(Kept) /\ Len(tracker.stored) \in Nat /\ Len(meant) \in Nat
      /\ DOMAIN meant = 1..Len(meant) /\ work \in Seq(Steps) /\ Tracker(tracker) /\ Depth \in Nat
  BY DEF IInv, Types, Tracker, Depth
<1>2. Len(tracker.stored) <= Len(meant)
  <2>1. CASE Working
    <3>1. Len(meant) = Len(tracker.stored) + Cardinality(BindsFrom(work, 2 * Depth))
      BY <2>1 DEF Working
    <3>2. Cardinality(BindsFrom(work, 2 * Depth)) \in Nat
      <4>1. 2 * Depth \in Nat
        BY <1>1
      <4>. QED BY <1>1, <4>1, BindsCounted
    <3>. QED BY <1>1, <3>1, <3>2
  <2>2. CASE Assigning
    <3>1. PICK s \in Statements :
            /\ s.type = "assign"
            /\ Len(meant) = Len(tracker.stored)
                              + IF SymbolOf(tracker.scopes, s) = NoName THEN 0
                                ELSE Cardinality(Keeping(s))
      BY <2>2 DEF Assigning
    <3>2. Cardinality(Keeping(s)) \in Nat
      BY <3>1, ResultsCounted
    <3>. QED BY <1>1, <3>1, <3>2
  <2>3. CASE Defining \/ Entering \/ Leaving
    BY <1>1, <2>3 DEF Defining, Entering, Leaving
  <2>4. CASE Finished
    BY <1>1, <2>4 DEF Finished, Evident
  <2>. QED BY <2>1, <2>2, <2>3, <2>4 DEF IInv, Phase
<1>. QED BY <1>1, <1>2, UnseenTyped

\* Names that hold what they held.
LEMMA NothingHidden == ASSUME NEW a, NEW B PROVE Hides(a, a, B)
BY DEF Hides

(* There is nothing to see where there is no visit.                          *)
LEMMA PutNothing ==
  ASSUME NEW S, NEW w \in Seq(S), w # <<>>, w[1].op = "visit",
         NEW steps \in Seq(S), CallsOn(steps) = {}
  PROVE  Moved(w, steps \o Tail(w), {u \in Unseen(w) : u[1] = Len(w) => FALSE})
<1>. DEFINE place == [c \in {} |-> c]
<1>1. place \in Bijection(CallsOn(steps), {})
  <2>1. place \in [{} -> {}] /\ (\A a, b \in {} : place[a] = place[b] => a = b)
        /\ (\A y \in {} : \E c \in {} : place[c] = y)
    OBVIOUS
  <2>. HIDE DEF place
  <2>2. place \in Bijection({}, {})
    BY <2>1, IsBijection
  <2>. QED BY <2>2
<1>. HIDE DEF place
<1>2. {} \in SUBSET DOMAIN w[1].node.made
      /\ \A c \in CallsOn(steps) : w[1].node.made[place[c]] = steps[c[1]].node.made[c[2]]
  OBVIOUS
<1>3. Moved(w, steps \o Tail(w), {u \in Unseen(w) : u[1] = Len(w) => u[2] \in {}})
  BY <1>1, <1>2, PutParts
<1>. QED BY <1>3

(* What a visit of a call or a name puts in its place.                       *)
LEMMA PlainSteps ==
  ASSUME IInv, VisitNode, Top.node \in Expressions
  PROVE  /\ tracker' = Record(tracker, Top.node)
         /\ work' = Children(tracker', Top.node) \o Tail(work)
         /\ Children(tracker', Top.node) \in Seq(Steps)
         /\ Same(work, work', Len(work)) /\ Plains(work, work', Len(work))
         /\ work # <<>> /\ Top.op = "visit" /\ UNCHANGED <<history, done>>
         /\ Len(work) \in Nat \ {0} /\ work' # <<>>
<1>1. /\ tracker' = Record(tracker, Top.node) /\ work # <<>> /\ Top.op = "visit"
      /\ UNCHANGED <<history, done>> /\ Tracker(tracker)
  BY DEF VisitNode, TopIs, IInv, Types
<1>2. Children(tracker', Top.node) \in Seq(VisitSteps(Expressions))
  BY <1>1, ExpressionVisited
<1>. DEFINE v == Children(tracker', Top.node)
<1>3. /\ work' = v \o Tail(work) /\ v \in Seq(Steps)
      /\ Len(work') = Len(v) + Len(work) - 1
      /\ Len(v) \in Nat /\ Len(work) \in Nat \ {0}
      /\ \A r \in 1..(Len(work) - 1) : At(work', r) = At(work, r)
      /\ \A r \in Len(work)..(Len(v) + Len(work) - 1) : At(work', r) \in VisitSteps(Expressions)
  <2>1. VisitSteps(Expressions) \subseteq Steps
    BY SomeSteps
  <2>. QED BY <1>2, <2>1, VisitReplaces
<1>. HIDE DEF v
<1>4. Same(work, work', Len(work))
  BY <1>3 DEF Same
<1>5. Plains(work, work', Len(work))
  <2>1. \A r \in Len(work)..Len(work') : At(work', r) \in VisitSteps(Expressions)
    BY <1>3
  <2>2. \A step \in VisitSteps(Expressions) : step.op = "visit" /\ step.node \in Expressions
    BY DEF VisitSteps
  <2>. QED BY <2>1, <2>2 DEF Plains
<1>6. work' # <<>>
  <2>1. Len(work) >= 2
    BY <1>1, BodyBelow
  <2>2. Len(work') # 0
    BY <1>3, <2>1
  <2>. QED BY <2>2
<1>. QED BY <1>1, <1>3, <1>4, <1>5, <1>6 DEF v

(* The visits of nodes are of the calls in them.                             *)
LEMMA VisitsSee ==
  ASSUME NEW nodes
  PROVE  LET v == VisitAll(nodes)
         IN  \A i \in DOMAIN nodes : v[i].op = "visit" /\ v[i].node = nodes[i]
BY DEF VisitAll, Visit

(* So the steps of parts leave the calls that the parts list.                *)
LEMMA PartsLeft ==
  ASSUME NEW T, NEW nodes \in Seq(T), NEW steps, Len(steps) \in Nat, Len(nodes) <= Len(steps),
         \A i \in 1..Len(nodes) : steps[i].op = "visit" /\ steps[i].node = nodes[i],
         \A i \in 1..Len(steps) : i > Len(nodes) => steps[i].op # "visit"
  PROVE  /\ CallsOn(steps) = CallsIn(nodes)
         /\ \A c \in CallsIn(nodes) : steps[c[1]].node.made[c[2]] = nodes[c[1]].made[c[2]]
<1>1. DOMAIN nodes = 1..Len(nodes) /\ Len(nodes) \in Nat
  OBVIOUS
<1>2. {k \in 1..Len(steps) : steps[k].op = "visit"} = DOMAIN nodes
  BY <1>1
<1>3. \A i \in DOMAIN nodes : steps[i].node = nodes[i]
  BY <1>1
<1>4. CallsOn(steps) = CallsIn(nodes)
  <2>1. CallsOn(steps) = UNION {{i} \X DOMAIN steps[i].node.made : i \in DOMAIN nodes}
    BY <1>2 DEF CallsOn
  <2>. QED BY <2>1, <1>3 DEF CallsIn
<1>5. ASSUME NEW c \in CallsIn(nodes) PROVE steps[c[1]].node.made[c[2]] = nodes[c[1]].made[c[2]]
  <2>1. PICK i, j : i \in DOMAIN nodes /\ c = <<i, j>>
    BY DEF CallsIn
  <2>. QED BY <2>1, <1>3
<1>. QED BY <1>4, <1>5

(* Between the call and its record, what is left to see is all but the call. *)
LEMMA AllButLast ==
  ASSUME NEW w \in Seq(Steps), w # <<>>, w[1].op = "visit", w[1].node \in Calls
  PROVE  LET z == <<Len(w), Len(w[1].node.made)>>
         IN  /\ z \in Unseen(w) /\ MadeAt(w, z) = w[1].node.made[Len(w[1].node.made)]
             /\ {u \in Unseen(w) : u[1] = Len(w) => u[2] \in 1..(Len(w[1].node.made) - 1)}
                  = Unseen(w) \ {z}
<1>. DEFINE n == Len(w)
            made == w[1].node.made
            k == Len(made)
            z == <<n, k>>
<1>1. n \in Nat \ {0} /\ At(w, n) = w[1]
  BY Pop
<1>2. made \in Seq(MadeCalls) /\ made # <<>>
  BY MadeAssumption
<1>3. k \in Nat \ {0} /\ DOMAIN made = 1..k
  BY <1>2
<1>4. n \in Visited(w) /\ DOMAIN At(w, n).node.made = 1..k
  BY <1>1, <1>3 DEF Visited
<1>. HIDE DEF n, k
<1>5. z \in Unseen(w)
  <2>1. k \in 1..k
    BY <1>3
  <2>. QED BY <2>1, <1>4, UnseenIs
<1>6. MadeAt(w, z) = made[k]
  BY <1>1 DEF MadeAt
<1>7. ASSUME NEW u \in Unseen(w) PROVE (u[1] = n => u[2] \in 1..(k - 1)) <=> u # z
  <2>1. PICK r, j : r \in Visited(w) /\ j \in DOMAIN At(w, r).node.made /\ u = <<r, j>>
    BY UnseenIs
  <2>2. CASE r = n
    <3>1. j \in 1..k
      BY <2>1, <2>2, <1>4
    <3>2. u # z <=> j # k
      BY <2>1, <2>2
    <3>. QED BY <2>1, <2>2, <3>1, <3>2, <1>3
  <2>3. CASE r # n
    <3>1. u # z
      BY <2>1, <2>3
    <3>. QED BY <3>1, <2>1, <2>3
  <2>. QED BY <2>2, <2>3
<1>8. {u \in Unseen(w) : u[1] = n => u[2] \in 1..(k - 1)} = Unseen(w) \ {z}
  BY <1>7
<1>. QED BY <1>5, <1>6, <1>8 DEF n, k

(* The visit of a call.                                                      *)
LEMMA CallSeen ==
  ASSUME IInv, Evident, VisitNode, Top.node \in Calls
  PROVE  Evident'
<1>. DEFINE c == Top.node
            n == Len(work)
            k == Len(c.made)
            z == <<n, k>>
            S == Unseen(work) \ {z}
            steps == Children(tracker', c)
            x == tracker'
<1>1. /\ x = Record(tracker, c) /\ work' = steps \o Tail(work) /\ steps \in Seq(Steps)
      /\ Same(work, work', n) /\ Plains(work, work', n)
      /\ work # <<>> /\ Top.op = "visit" /\ UNCHANGED <<history, done>>
      /\ n \in Nat \ {0} /\ work' # <<>>
  BY PlainSteps DEF Expressions
<1>2. c.type = "call" /\ c.inner \in Seq(Calls) /\ Lists(c.made, c.inner, k - 1)
      /\ c.made \in Seq(MadeCalls) /\ c.made # <<>>
  BY CallsAssumption, MadeAssumption
<1>3. /\ Len(tracker.stored) \in Nat /\ Len(meant) \in Nat
      /\ Len(tracker.stored) <= Len(meant) /\ DOMAIN meant = 1..Len(meant)
      /\ tracker.stored \in Seq(Kept) /\ Tracker(tracker) /\ work \in Seq(Steps)
      /\ IsFiniteSet(Unseen(work))
      /\ \A u \in Unseen(work) : MadeAt(work, u) \in MadeCalls
  BY StoredMeant
<1>4. /\ z \in Unseen(work) /\ MadeAt(work, z) = c.made[k]
      /\ {u \in Unseen(work) : u[1] = n => u[2] \in 1..(k - 1)} = S
  BY <1>1, <1>3, AllButLast DEF Top
<1>5. Moved(work, work', S)
  <2>1. steps = VisitAll(c.inner)
    BY <1>2 DEF Children
  <2>2. Len(steps) = Len(c.inner) /\ Len(c.inner) \in Nat
        /\ \A i \in 1..Len(c.inner) : steps[i].op = "visit" /\ steps[i].node = c.inner[i]
    <3>1. Len(VisitAll(c.inner)) = Len(c.inner)
      BY <1>2, Visiting
    <3>2. DOMAIN c.inner = 1..Len(c.inner) /\ Len(c.inner) \in Nat
      BY <1>2
    <3>. QED BY <2>1, <3>1, <3>2, VisitsSee
  <2>. HIDE DEF steps
  <2>3. /\ CallsOn(steps) = CallsIn(c.inner)
        /\ \A d \in CallsIn(c.inner) : steps[d[1]].node.made[d[2]] = c.inner[d[1]].made[d[2]]
    BY <1>2, <2>2, PartsLeft
  <2>4. PICK place \in Bijection(CallsIn(c.inner), 1..(k - 1)) :
          \A d \in CallsIn(c.inner) : c.made[place[d]] = c.inner[d[1]].made[d[2]]
    BY <1>2 DEF Lists
  <2>5. 1..(k - 1) \in SUBSET DOMAIN c.made
    BY <1>2
  <2>6. place \in Bijection(CallsOn(steps), 1..(k - 1))
        /\ \A d \in CallsOn(steps) : c.made[place[d]] = steps[d[1]].node.made[d[2]]
    BY <2>3, <2>4
  <2>7. Moved(work, steps \o Tail(work), {u \in Unseen(work) : u[1] = n => u[2] \in 1..(k - 1)})
    <3>. DEFINE D == 1..(k - 1)
    <3>1. D \in SUBSET DOMAIN work[1].node.made /\ work[1].op = "visit"
          /\ place \in Bijection(CallsOn(steps), D)
          /\ \A d \in CallsOn(steps) : work[1].node.made[place[d]] = steps[d[1]].node.made[d[2]]
      BY <2>5, <2>6, <1>1 DEF Top
    <3>2. work # <<>> /\ work \in Seq(Steps) /\ steps \in Seq(Steps)
      BY <1>1, <1>3
    <3>. HIDE DEF D, c, n, k, S, z
    <3>3. Moved(work, steps \o Tail(work), {u \in Unseen(work) : u[1] = Len(work) => u[2] \in D})
      BY <3>1, <3>2, PutParts
    <3>. QED BY <3>3 DEF D, n
  <2>. QED BY <2>7, <1>1, <1>4
<1>6. /\ Tracker(x) /\ x.scopes = tracker.scopes /\ Len(x.stored) = Len(tracker.stored)
      /\ x.patterns = tracker.patterns \cup Told(tracker.scopes, MadeAt(work, z))
      /\ \A i \in 1..Len(tracker.stored) :
           /\ x.stored[i].target = tracker.stored[i].target
           /\ x.stored[i].symbol = tracker.stored[i].symbol
           /\ x.stored[i].calls = tracker.stored[i].calls
                + IF MadeAt(work, z).callee \in Holders(tracker.scopes, i) THEN 1 ELSE 0
  <2>. DEFINE y == RecordCall(tracker, c)
  <2>1. x = y
    BY <1>1, <1>2 DEF Record
  <2>2. c \in Calls /\ Tracker(tracker) /\ c.made[k] = MadeAt(work, z)
    BY <1>3, <1>4
  <2>. HIDE DEF x, c
  <2>3. /\ Tracker(y) /\ y.scopes = tracker.scopes /\ Len(y.stored) = Len(tracker.stored)
        /\ y.patterns = tracker.patterns \cup Told(tracker.scopes, c.made[k])
        /\ \A i \in 1..Len(tracker.stored) :
             /\ y.stored[i].target = tracker.stored[i].target
             /\ y.stored[i].symbol = tracker.stored[i].symbol
             /\ y.stored[i].calls = tracker.stored[i].calls
                  + IF c.made[k].callee \in Holders(tracker.scopes, i) THEN 1 ELSE 0
    BY <2>2, CallRecorded
  <2>. HIDE DEF y, k, z
  <2>. QED BY <2>1, <2>2, <2>3
<1>7. ~done /\ \A i \in DOMAIN meant : meant[i] \in Meaning
  BY <1>1 DEF Evident
<1>8. PICK B \in SUBSET (Names \cup {NoName}) :
        Rebinds(work, B) /\ Counting(work, tracker, B) /\ Telling(work, tracker, B)
  BY <1>7 DEF Evident
<1>. HIDE DEF c, n, k, z, steps, x
<1>9. Counting(work', x, B)
  BY <1>3, <1>4, <1>5, <1>6, <1>7, <1>8, SeenCounted
<1>10. Hides(tracker.scopes, x.scopes, B)
  BY <1>6, NothingHidden
<1>11. tracker.patterns \subseteq x.patterns /\ x.patterns \subseteq Reported
       /\ \A u \in Unseen(work) \ S : Told(tracker.scopes, MadeAt(work, u)) \subseteq x.patterns
  BY <1>4, <1>6, <1>8 DEF Telling
<1>12. Top.op # "bind" /\ (Top.op = "visit" => Top.node.type # "assign")
  BY <1>1, <1>2 DEF c
<1>13. BindsLast(work') /\ Promised(work', x) /\ Rebinds(work', B) /\ Telling(work', x, B)
  <2>1. S \in SUBSET Unseen(work)
    OBVIOUS
  <2>2. Same(work, work', Len(work)) /\ Plains(work, work', Len(work))
    BY <1>1 DEF n
  <2>. HIDE DEF S
  <2>. QED BY <2>1, <2>2, <1>1, <1>5, <1>6, <1>8, <1>10, <1>11, <1>12, PlainKept
<1>. QED BY <1>1, <1>8, <1>9, <1>13, EvidentBy DEF x

(* The visit of a name.                                                      *)
LEMMA PlaceSeen ==
  ASSUME IInv, Evident, VisitNode, Top.node \in Places
  PROVE  Evident'
<1>. DEFINE c == Top.node
            n == Len(work)
            S == {u \in Unseen(work) : u[1] = n => FALSE}
            steps == Children(tracker', c)
<1>1. /\ tracker' = Record(tracker, c) /\ work' = steps \o Tail(work) /\ steps \in Seq(Steps)
      /\ Same(work, work', n) /\ Plains(work, work', n)
      /\ work # <<>> /\ Top.op = "visit" /\ UNCHANGED <<history, done>>
      /\ n \in Nat \ {0} /\ work' # <<>>
  BY PlainSteps DEF Expressions
<1>2. c.type \in {"ref", "subscript"} /\ c.made = <<>>
  BY DEF Places
<1>3. steps = <<>> /\ tracker' = tracker
  BY <1>1, <1>2 DEF Children, Record
<1>4. /\ Len(tracker.stored) \in Nat /\ Len(meant) \in Nat
      /\ Len(tracker.stored) <= Len(meant) /\ DOMAIN meant = 1..Len(meant)
      /\ tracker.stored \in Seq(Kept) /\ Tracker(tracker) /\ work \in Seq(Steps)
      /\ IsFiniteSet(Unseen(work))
  BY StoredMeant
<1>5. Moved(work, work', S)
  <2>1. CallsOn(<<>>) = {}
    BY DEF CallsOn
  <2>2. <<>> \in Seq(Steps)
    OBVIOUS
  <2>3. Moved(work, <<>> \o Tail(work), {u \in Unseen(work) : u[1] = Len(work) => FALSE})
    BY <2>1, <2>2, <1>1, <1>4, PutNothing DEF Top
  <2>. QED BY <2>3, <1>1, <1>3
<1>6. S = Unseen(work)
  <2>. SUFFICES ASSUME NEW u \in Unseen(work) PROVE u[1] # n
    OBVIOUS
  <2>1. PICK r, j : r \in Visited(work) /\ j \in DOMAIN At(work, r).node.made /\ u = <<r, j>>
    BY UnseenIs
  <2>2. At(work, n) = Top
    BY <1>1, TopOf DEF IInv
  <2>3. r # n
    BY <2>1, <2>2, <1>2
  <2>. QED BY <2>1, <2>3
<1>7. ~done /\ \A i \in DOMAIN meant : meant[i] \in Meaning
  BY <1>1 DEF Evident
<1>8. PICK B \in SUBSET (Names \cup {NoName}) :
        Rebinds(work, B) /\ Counting(work, tracker, B) /\ Telling(work, tracker, B)
  BY <1>7 DEF Evident
<1>9. Top.op # "bind" /\ (Top.op = "visit" => Top.node.type # "assign")
  BY <1>1, <1>2
<1>10. Same(work, work', Len(work)) /\ Plains(work, work', Len(work))
  BY <1>1
<1>11. Hides(tracker.scopes, tracker.scopes, B)
  BY NothingHidden
<1>. HIDE DEF c, n, S, steps
<1>12. S \in SUBSET Unseen(work) /\ Unseen(work) \ S = {}
  BY <1>6
<1>13. Counting(work', tracker, B)
  BY <1>4, <1>5, <1>7, <1>8, <1>11, <1>12, CountingKept
<1>14. BindsLast(work') /\ Promised(work', tracker) /\ Rebinds(work', B) /\ Telling(work', tracker, B)
  <2>1. tracker.patterns \subseteq Reported
    BY <1>8 DEF Telling
  <2>. QED BY <2>1, <1>1, <1>4, <1>5, <1>8, <1>9, <1>10, <1>11, <1>12, PlainKept
<1>15. Counting(work', tracker', B) /\ Promised(work', tracker') /\ Telling(work', tracker', B)
  BY <1>3, <1>13, <1>14
<1>. QED BY <1>1, <1>8, <1>14, <1>15, EvidentBy

(* What stays on the stack is the same steps, where a step is taken off.     *)
LEMMA TakenSame ==
  ASSUME NEW S, NEW w \in Seq(S), w # <<>>, w[1].op # "visit"
  PROVE  /\ Same(w, Tail(w), Len(w)) /\ Plains(w, Tail(w), Len(w))
         /\ Moved(w, Tail(w), Unseen(w))
<1>1. /\ Len(Tail(w)) = Len(w) - 1 /\ Len(w) \in Nat \ {0}
      /\ \A r \in 1..(Len(w) - 1) : At(Tail(w), r) = At(w, r)
  BY Pop
<1>. DEFINE v == Tail(w)
            f == [u \in Unseen(v) |-> u]
<1>2. Unseen(v) = Unseen(w) /\ \A u \in Unseen(w) : MadeAt(v, u) = MadeAt(w, u)
  BY TakeOff
<1>. HIDE DEF v
<1>3. f \in Bijection(Unseen(v), Unseen(w))
  <2>1. /\ f \in [Unseen(v) -> Unseen(w)]
        /\ \A x, y \in Unseen(v) : f[x] = f[y] => x = y
        /\ \A y \in Unseen(w) : \E x \in Unseen(v) : f[x] = y
    BY <1>2
  <2>. HIDE DEF f
  <2>. QED BY <2>1, IsBijection
<1>4. \A u \in Unseen(v) : MadeAt(v, u) = MadeAt(w, f[u])
  BY <1>2
<1>5. Moved(w, v, Unseen(w))
  BY <1>3, <1>4 DEF Moved
<1>6. Same(w, v, Len(w)) /\ Plains(w, v, Len(w))
  BY <1>1 DEF Same, Plains, v
<1>. QED BY <1>5, <1>6 DEF v

(* A target that is stored to holds no result, and stands in a blind place.  *)
LEMMA TargetStored ==
  ASSUME IInv, Evident, StoreTarget
  PROVE  Evident'
<1>. DEFINE name == NameOf(Top.target)
            x == Bind(tracker, name, NoName)
<1>1. /\ work # <<>> /\ Top.op = "store" /\ tracker' = x /\ work' = Tail(work)
      /\ UNCHANGED <<history, done>>
  BY DEF StoreTarget, TopIs
<1>2. name \in Names \cup {NoName}
  BY <1>1, TargetTop
<1>3. /\ Len(tracker.stored) \in Nat /\ Len(meant) \in Nat
      /\ Len(tracker.stored) <= Len(meant) /\ DOMAIN meant = 1..Len(meant)
      /\ tracker.stored \in Seq(Kept) /\ Tracker(tracker) /\ work \in Seq(Steps)
      /\ IsFiniteSet(Unseen(work))
  BY StoredMeant
<1>. HIDE DEF name
<1>4. /\ Tracker(x) /\ x.stored = tracker.stored /\ Len(x.scopes) = Len(tracker.scopes)
      /\ \A y \in Names : LookAt(x.scopes, Len(tracker.scopes), y)
           = IF y = name /\ y \notin Unresolved THEN None
             ELSE LookAt(tracker.scopes, Len(tracker.scopes), y)
  BY <1>2, <1>3, BindsNone
<1>5. x.patterns = tracker.patterns
  BY <1>3 DEF Bind, Tracker
<1>. HIDE DEF x
<1>6. ~done /\ \A i \in DOMAIN meant : meant[i] \in Meaning
  BY <1>1 DEF Evident
<1>7. PICK B \in SUBSET (Names \cup {NoName}) :
        Rebinds(work, B) /\ Counting(work, tracker, B) /\ Telling(work, tracker, B)
  BY <1>6 DEF Evident
<1>8. name \in B \cup {NoName}
  <2>1. Len(work) \in 1..Len(work) /\ At(work, Len(work)) = Top
    BY <1>1, TopOf DEF IInv
  <2>. QED BY <2>1, <1>1, <1>7 DEF Rebinds, name
<1>9. Hides(tracker.scopes, x.scopes, B)
  <2>. SUFFICES ASSUME NEW y \in Names
                PROVE  \/ LookAt(x.scopes, Len(x.scopes), y)
                            = LookAt(tracker.scopes, Len(tracker.scopes), y)
                       \/ y \in B /\ LookAt(x.scopes, Len(x.scopes), y) = None
    BY DEF Hides
  <2>1. CASE y = name /\ y \notin Unresolved
    <3>1. y \in B
      BY <2>1, <1>8, TrackerAssumption
    <3>. QED BY <3>1, <2>1, <1>4
  <2>2. CASE ~(y = name /\ y \notin Unresolved)
    BY <2>2, <1>4
  <2>. QED BY <2>1, <2>2
<1>10. /\ Same(work, work', Len(work)) /\ Plains(work, work', Len(work))
       /\ Moved(work, work', Unseen(work))
  BY <1>1, <1>3, TakenSame DEF Top
<1>11. Counting(work', x, B)
  BY <1>3, <1>4, <1>6, <1>7, <1>9, <1>10, CountingKept
<1>12. BindsLast(work') /\ Promised(work', x) /\ Rebinds(work', B) /\ Telling(work', x, B)
  <2>1. tracker.patterns \subseteq Reported
    BY <1>7 DEF Telling
  <2>2. Top.op # "bind" /\ (Top.op = "visit" => Top.node.type # "assign")
    BY <1>1
  <2>. QED BY <2>1, <2>2, <1>1, <1>3, <1>4, <1>5, <1>7, <1>9, <1>10, PlainKept
<1>13. work' # <<>>
  <2>1. Len(work) >= 2 /\ Len(work) \in Nat
    BY <1>1, BodyBelow
  <2>2. Len(work') = Len(work) - 1
    BY <1>1, <1>3
  <2>. QED BY <2>1, <2>2
<1>. QED BY <1>1, <1>7, <1>11, <1>12, <1>13, EvidentBy

(* Where the stack has no step left that sees, stores or binds, the tracker  *)
(* has the calls and the evidence, whatever its scopes are.                  *)
Quiet(w) == \A r \in 1..Len(w) : At(w, r).op \notin {"visit", "bind", "store"}

LEMMA QuietStack ==
  ASSUME NEW w, Quiet(w)
  PROVE  /\ Unseen(w) = {} /\ BindsLast(w) /\ \A B : Rebinds(w, B)
         /\ \A t : Promised(w, t)
         /\ \A X : CallsTo(w, X) = {} /\ Cardinality(CallsTo(w, X)) = 0
         /\ \A scopes : \A r \in 1..Len(w) : CachedBy(At(w, r), scopes) = {}
<1>1. Visited(w) = {}
  BY DEF Quiet, Visited
<1>2. Unseen(w) = {}
  BY <1>1 DEF Unseen
<1>3. ASSUME NEW X PROVE CallsTo(w, X) = {} /\ Cardinality(CallsTo(w, X)) = 0
  <2>1. CallsTo(w, X) = {}
    BY <1>2 DEF CallsTo
  <2>2. Cardinality({}) = 0
    BY FS_EmptySet, Zenon
  <2>. QED BY <2>1, <2>2
<1>4. BindsLast(w) /\ \A B : Rebinds(w, B)
  BY DEF Quiet, BindsLast, Rebinds
<1>5. ASSUME NEW r \in 1..Len(w), NEW scopes
      PROVE  ~Assigns(At(w, r), scopes) /\ CachedBy(At(w, r), scopes) = {}
  BY DEF Quiet, Assigns, CachedBy
<1>6. \A r \in 1..Len(w) : r \notin BindsFrom(w, 1)
  BY DEF BindsFrom, Quiet
<1>7. \A t : Promised(w, t)
  BY <1>5, <1>6 DEF Promised
<1>. QED BY <1>2, <1>3, <1>4, <1>5, <1>7

(* Where no call is left to see, the tracker has counted all of them.        *)
Counted(t) ==
  \A i \in 1..Len(t.stored) :
    /\ t.stored[i].target = meant[i].target /\ t.stored[i].symbol = meant[i].symbol
    /\ t.stored[i].calls <= meant[i].calls
    /\ meant[i].calls - meant[i].blind <= t.stored[i].calls

LEMMA NoneUnseen ==
  ASSUME NEW w, Unseen(w) = {}, NEW t, t.stored \in Seq(Kept), NEW B
  PROVE  Counting(w, t, B) <=> Counted(t)
<1>1. ASSUME NEW X PROVE Cardinality(CallsTo(w, X)) = 0
  <2>1. CallsTo(w, X) = {}
    BY DEF CallsTo
  <2>2. Cardinality({}) = 0
    BY FS_EmptySet, Zenon
  <2>. QED BY <2>1, <2>2
<1>2. ASSUME NEW i \in 1..Len(t.stored)
      PROVE  t.stored[i].calls \in Nat /\ t.stored[i].calls + 0 = t.stored[i].calls
  <2>1. t.stored[i] \in Kept
    OBVIOUS
  <2>. QED BY <2>1 DEF Kept
<1>3. ASSUME NEW i \in 1..Len(t.stored)
      PROVE  /\ t.stored[i].calls + Cardinality(CallsTo(w, Holders(t.scopes, i))) = t.stored[i].calls
             /\ t.stored[i].calls + Cardinality(CallsTo(w, Holders(t.scopes, i) \ B)) = t.stored[i].calls
  BY <1>1, <1>2
<1>. QED BY <1>3 DEF Counting, Counted

(* And it has the evidence, where no step is left that adds any.             *)
LEMMA QuietTold ==
  ASSUME NEW w, Quiet(w), NEW t, NEW B
  PROVE  Telling(w, t, B) <=> t.patterns \subseteq Reported /\ certain \subseteq t.patterns
<1>1. Unseen(w) = {} /\ \A scopes : \A r \in 1..Len(w) : CachedBy(At(w, r), scopes) = {}
  BY QuietStack
<1>. QED BY <1>1 DEF Telling

(* A body begins, ends, or is left.                                          *)
LEMMA QuietTaken ==
  ASSUME IInv, Evident, work # <<>>, Top.op \in {"open", "enter", "exit"}, work' = Tail(work),
         UNCHANGED <<language, meant, Reported, certain, done>>,
         tracker'.stored = tracker.stored, tracker'.patterns = tracker.patterns
  PROVE  Evident'
<1>1. /\ Len(tracker.stored) \in Nat /\ Len(meant) \in Nat
      /\ DOMAIN meant = 1..Len(meant) /\ tracker.stored \in Seq(Kept) /\ work \in Seq(Steps)
  BY StoredMeant
<1>2. /\ Len(work') = Len(work) - 1 /\ Len(work) \in Nat \ {0}
      /\ \A r \in 1..(Len(work) - 1) : At(work', r) = At(work, r)
  BY <1>1, Pop
<1>3. Quiet(work)
  <2>1. \A r \in 1..Len(work) : At(work, r).op \in {"visit", "bind", "store"} => r = Len(work)
    BY NothingLeft
  <2>2. At(work, Len(work)) = Top
    BY TopOf DEF IInv
  <2>. QED BY <2>1, <2>2 DEF Quiet
<1>4. Quiet(work')
  <2>. SUFFICES ASSUME NEW r \in 1..Len(work') PROVE At(work', r).op \notin {"visit", "bind", "store"}
    BY DEF Quiet
  <2>1. r \in 1..(Len(work) - 1) /\ r \in 1..Len(work)
    BY <1>2
  <2>. QED BY <2>1, <1>2, <1>3 DEF Quiet
<1>5. Unseen(work) = {} /\ Unseen(work') = {}
  BY <1>3, <1>4, QuietStack
<1>6. ~done
  BY DEF Evident
<1>7. PICK B \in SUBSET (Names \cup {NoName}) :
        Counting(work, tracker, B) /\ Telling(work, tracker, B)
  BY <1>6 DEF Evident
<1>8. Counting(work', tracker', {}) /\ Telling(work', tracker', {})
  <2>1. Counted(tracker)
    BY <1>1, <1>5, <1>7, NoneUnseen
  <2>2. Counted(tracker') /\ tracker'.stored \in Seq(Kept)
    BY <2>1, <1>1 DEF Counted
  <2>3. tracker.patterns \subseteq Reported /\ certain \subseteq tracker.patterns
    BY <1>3, <1>7, QuietTold
  <2>4. tracker'.patterns \subseteq Reported /\ certain \subseteq tracker'.patterns
    BY <2>3
  <2>5. Counting(work', tracker', {})
    BY <2>2, <1>5, NoneUnseen
  <2>. QED BY <2>4, <2>5, <1>4, QuietTold
<1>9. BindsLast(work') /\ Rebinds(work', {}) /\ Promised(work', tracker')
  BY <1>4, QuietStack
<1>10. Len(tracker.stored) = Len(meant)
  <2>1. CASE Top.op = "open"
    BY <2>1, BodyOpen DEF TopIs
  <2>2. CASE Top.op \in {"enter", "exit"}
    BY <2>2, PhaseOf DEF Entering, Leaving
  <2>. QED BY <2>1, <2>2
<1>11. Rebinds(work, {})'
  BY <1>9 DEF Rebinds, BlindNames
<1>12. Counting(work, tracker, {})' /\ Telling(work, tracker, {})' /\ Promised(work, tracker)'
  BY <1>8, <1>9 DEF Counting, Telling, Promised
<1>13. (\A i \in DOMAIN meant : meant[i] \in Meaning)' /\ Len(tracker'.stored) = Len(meant') /\ ~done'
  BY <1>6, <1>10 DEF Evident
<1>14. {} \in SUBSET (Names \cup {NoName})
  OBVIOUS
<1>. QED BY <1>9, <1>11, <1>12, <1>13, <1>14 DEF Evident

LEMMA BodyTaken ==
  ASSUME IInv, Evident, EnterScope \/ ExitScope \/ CloseBody
  PROVE  Evident'
<1>1. work # <<>> /\ Top.op \in {"open", "enter", "exit"} /\ work' = Tail(work)
      /\ UNCHANGED <<language, meant, Reported, certain, done>>
  BY DEF EnterScope, ExitScope, CloseBody, TopIs, history, Reported
<1>2. tracker'.stored = tracker.stored /\ tracker'.patterns = tracker.patterns
  <2>1. DOMAIN tracker = {"scopes", "stored", "patterns"}
    BY DEF IInv, Types, Tracker
  <2>2. CASE EnterScope
    BY <2>1, <2>2 DEF EnterScope, Enter
  <2>3. CASE ExitScope
    BY <2>1, <2>3 DEF ExitScope, Exit
  <2>4. CASE CloseBody
    BY <2>4 DEF CloseBody
  <2>. QED BY <2>2, <2>3, <2>4
<1>. QED BY <1>1, <1>2, QuietTaken

(* The results that are to be bound when the first one is.                   *)
LEMMA BindsTaken ==
  ASSUME NEW S, NEW w \in Seq(S), w # <<>>, w[1].op = "bind", NEW q \in 1..Len(w)
  PROVE  /\ Bindable(w[1].target) =>
              Cardinality(BindsFrom(w, q)) = Cardinality(BindsFrom(Tail(w), q)) + 1
         /\ ~Bindable(w[1].target) => BindsFrom(w, q) = BindsFrom(Tail(w), q)
         /\ Cardinality(BindsFrom(Tail(w), q)) \in Nat
         /\ BindsFrom(Tail(w), q) \subseteq BindsFrom(w, q)
<1>. DEFINE v == Tail(w)
            n == Len(w)
<1>1. /\ v \in Seq(S) /\ Len(v) = n - 1 /\ n \in Nat \ {0} /\ At(w, n) = w[1]
      /\ \A r \in 1..(n - 1) : At(v, r) = At(w, r)
  BY Pop
<1>. HIDE DEF v, n
<1>2. \A k \in q..(n - 1) : k \in BindsFrom(v, q) <=> k \in BindsFrom(w, q)
  BY <1>1 DEF BindsFrom, n
<1>3. BindsFrom(v, q) \subseteq q..(n - 1) /\ BindsFrom(w, q) \subseteq q..n
  BY <1>1 DEF BindsFrom, n
<1>4. n \in BindsFrom(w, q) <=> Bindable(w[1].target)
  BY <1>1 DEF BindsFrom, n
<1>5. BindsFrom(w, q) = IF Bindable(w[1].target) THEN BindsFrom(v, q) \cup {n} ELSE BindsFrom(v, q)
  <2>1. q..n = (q..(n - 1)) \cup {n} /\ n \notin q..(n - 1)
    BY <1>1 DEF n
  <2>. QED BY <2>1, <1>2, <1>3, <1>4
<1>6. n \notin BindsFrom(v, q)
  BY <1>1, <1>3
<1>7. IsFiniteSet(BindsFrom(v, q)) /\ Cardinality(BindsFrom(v, q)) \in Nat
  <2>1. q \in Nat
    OBVIOUS
  <2>. QED BY <2>1, <1>1, BindsCounted
<1>8. Cardinality(BindsFrom(v, q) \cup {n}) = Cardinality(BindsFrom(v, q)) + 1
  BY <1>6, <1>7, FS_AddElement
<1>. QED BY <1>5, <1>7, <1>8 DEF v

(* What a target that is bound leaves in the tracker (callables.py:96).      *)
LEMMA BoundRecord ==
  ASSUME NEW t, Tracker(t), NEW target \in Places, NEW symbol \in Factories
  PROVE  LET cached == IF IsCache(target) THEN Add(t, "callsite_cached", symbol) ELSE t
             x == Bind(cached, NameOf(target), symbol)
         IN  /\ x.stored = IF Bindable(target)
                           THEN Append(t.stored, [target |-> NameOf(target), symbol |-> symbol, calls |-> 0])
                           ELSE t.stored
             /\ x.patterns = t.patterns \cup (IF IsCache(target) THEN {Cached(symbol)} ELSE {})
<1>. DEFINE cached == IF IsCache(target) THEN Add(t, "callsite_cached", symbol) ELSE t
            x == Bind(cached, NameOf(target), symbol)
<1>1. /\ DOMAIN cached = {"scopes", "stored", "patterns"} /\ cached.stored = t.stored
      /\ cached.patterns = t.patterns \cup (IF IsCache(target) THEN {Cached(symbol)} ELSE {})
  BY DEF Tracker, Add, Cached
<1>2. symbol # NoName
  BY TrackerAssumption
<1>. HIDE DEF cached
<1>. DEFINE new == [target |-> NameOf(target), symbol |-> symbol, calls |-> 0]
<1>3. x.patterns = cached.patterns /\ x.stored = IF Bindable(target) THEN Append(cached.stored, new) ELSE cached.stored
  <2>1. CASE Bindable(target)
    <3>. DEFINE scopes == InInnermost(cached.scopes, NameOf(target), Len(cached.stored) + 1)
                stored == Append(cached.stored, new)
    <3>1. x = [cached EXCEPT !.scopes = scopes, !.stored = stored]
      BY <1>2, <2>1 DEF Bind, Bindable
    <3>. HIDE DEF scopes, stored, x
    <3>2. x.patterns = cached.patterns /\ x.stored = stored
      BY <3>1, <1>1
    <3>. QED BY <3>2, <2>1 DEF stored
  <2>2. CASE ~Bindable(target)
    BY <2>2 DEF Bind, Bindable
  <2>. QED BY <2>1, <2>2
<1>. HIDE DEF x, new
<1>4. /\ x.stored = IF Bindable(target) THEN Append(t.stored, new) ELSE t.stored
      /\ x.patterns = t.patterns \cup (IF IsCache(target) THEN {Cached(symbol)} ELSE {})
  BY <1>1, <1>3
<1>. QED BY <1>4 DEF cached, x, new

(* A result is bound, to the record that was meant for it.                   *)
LEMMA TargetBound ==
  ASSUME IInv, Evident, BindTarget
  PROVE  Evident'
<1>. DEFINE target == Top.target
            symbol == Top.symbol
            n == Len(work)
            k == Len(tracker.stored)
            x == tracker'
            added == IF IsCache(target) THEN {Cached(symbol)} ELSE {}
<1>1. /\ work # <<>> /\ Top.op = "bind" /\ work' = Tail(work) /\ UNCHANGED <<history, done>>
      /\ x = LET cached == IF IsCache(target) THEN Add(tracker, "callsite_cached", symbol) ELSE tracker
             IN  Bind(cached, NameOf(target), symbol)
  BY DEF BindTarget, TopIs
<1>2. /\ k \in Nat /\ Len(meant) \in Nat /\ DOMAIN meant = 1..Len(meant)
      /\ tracker.stored \in Seq(Kept) /\ Tracker(tracker) /\ work \in Seq(Steps)
  BY StoredMeant
<1>3. target \in Places /\ symbol \in Factories /\ NameOf(target) \in Names \cup {NoName}
  BY <1>1, TargetTop
<1>4. /\ x.stored = IF Bindable(target)
                    THEN Append(tracker.stored, [target |-> NameOf(target), symbol |-> symbol, calls |-> 0])
                    ELSE tracker.stored
      /\ x.patterns = tracker.patterns \cup added
  BY <1>1, <1>2, <1>3, BoundRecord
<1>5. /\ Len(work') = n - 1 /\ n \in Nat \ {0} /\ At(work, n) = Top
      /\ \A r \in 1..(n - 1) : At(work', r) = At(work, r)
  BY <1>1, <1>2, Pop DEF Top
<1>6. ~done /\ \A i \in DOMAIN meant : meant[i] \in Meaning
  BY <1>1 DEF Evident
<1>7. PICK B \in SUBSET (Names \cup {NoName}) :
        Rebinds(work, B) /\ Counting(work, tracker, B) /\ Telling(work, tracker, B)
  BY <1>6 DEF Evident
<1>8. \A r \in 1..n : At(work, r).op # "visit"
  <2>1. BindsLast(work) /\ n \in 1..n
    BY <1>5 DEF Evident
  <2>. QED BY <2>1, <1>1, <1>5 DEF BindsLast
<1>9. \A r \in 1..(n - 1) : At(work', r).op # "visit" /\ r \in 1..n
  BY <1>5, <1>8
<1>. HIDE DEF target, symbol, n, k, x, added
<1>10. Unseen(work) = {} /\ Unseen(work') = {}
  <2>1. Visited(work) = {} /\ Visited(work') = {}
    BY <1>5, <1>8, <1>9 DEF Visited, n
  <2>. QED BY <2>1 DEF Unseen
<1>11. BindsLast(work')
  BY <1>5, <1>9 DEF BindsLast
<1>12. Rebinds(work', B)
  <2>. SUFFICES ASSUME NEW r \in 1..Len(work')
                PROVE  /\ At(work', r).op = "store" => NameOf(At(work', r).target) \in B \cup {NoName}
                       /\ At(work', r).op = "visit" => BlindNames(At(work', r).node) \subseteq B
    BY DEF Rebinds
  <2>. QED BY <1>5, <1>7, <1>9 DEF Rebinds, n
<1>13. /\ \A q \in 1..n :
            /\ Bindable(target) =>
                 Cardinality(BindsFrom(work, q)) = Cardinality(BindsFrom(work', q)) + 1
            /\ ~Bindable(target) => BindsFrom(work, q) = BindsFrom(work', q)
            /\ Cardinality(BindsFrom(work', q)) \in Nat
            /\ BindsFrom(work', q) \subseteq BindsFrom(work, q)
  BY <1>1, <1>2, BindsTaken DEF Top, n, target
<1>14. Bindable(target) => meant[k + 1] \in Fresh(NameOf(target), symbol)
  <2>. SUFFICES ASSUME Bindable(target) PROVE meant[k + 1] \in Fresh(NameOf(target), symbol)
    OBVIOUS
  <2>1. n \in 1..n /\ n \in BindsFrom(work, 1)
    BY <1>1, <1>5 DEF BindsFrom, n, target
  <2>2. BindsFrom(work', n) = {}
    BY <1>5 DEF BindsFrom
  <2>3. Cardinality({}) = 0
    BY FS_EmptySet, Zenon
  <2>4. Cardinality(BindsFrom(work, n)) = 1
    BY <2>1, <2>2, <2>3, <1>13
  <2>5. meant[Len(tracker.stored) + Cardinality(BindsFrom(work, n))]
          \in Fresh(NameOf(At(work, n).target), At(work, n).symbol)
    BY <2>1 DEF Evident, Promised, n
  <2>. QED BY <2>4, <2>5, <1>5 DEF k, target, symbol
<1>15. Len(x.stored) = (IF Bindable(target) THEN k + 1 ELSE k) /\ x.stored \in Seq(Kept)
  <2>1. CASE Bindable(target)
    <3>. DEFINE new == [target |-> NameOf(target), symbol |-> symbol, calls |-> 0]
    <3>1. new \in Kept
      BY <2>1, <1>3 DEF Bindable, Kept
    <3>. HIDE DEF new
    <3>2. x.stored = Append(tracker.stored, new)
      BY <2>1, <1>4 DEF new
    <3>. QED BY <3>1, <3>2, <2>1, <1>2 DEF k
  <2>2. CASE ~Bindable(target)
    BY <2>2, <1>2, <1>4 DEF k
  <2>. QED BY <2>1, <2>2
<1>16. Promised(work', x)
  <2>1. ASSUME NEW r \in 1..Len(work'), r \in BindsFrom(work', 1)
        PROVE  meant[Len(x.stored) + Cardinality(BindsFrom(work', r))]
                 \in Fresh(NameOf(At(work', r).target), At(work', r).symbol)
    <3>1. r \in 1..(n - 1) /\ r \in 1..n /\ 1 \in 1..n
      BY <1>5
    <3>2. r \in BindsFrom(work, 1) /\ At(work', r) = At(work, r)
      BY <3>1, <2>1, <1>5, <1>13
    <3>3. meant[Len(tracker.stored) + Cardinality(BindsFrom(work, r))]
            \in Fresh(NameOf(At(work, r).target), At(work, r).symbol)
      BY <3>1, <3>2 DEF Evident, Promised, n
    <3>. DEFINE a == Cardinality(BindsFrom(work, r))
                b == Cardinality(BindsFrom(work', r))
    <3>4. b \in Nat /\ (Bindable(target) => a = b + 1) /\ (~Bindable(target) => a = b)
      BY <3>1, <1>13
    <3>. HIDE DEF a, b
    <3>5. Len(x.stored) + b = k + a
      BY <3>4, <1>2, <1>15
    <3>. QED BY <3>2, <3>3, <3>5 DEF a, b, k
  <2>2. \A r \in 1..Len(work') : ~Assigns(At(work', r), x.scopes)
    BY <1>5, <1>9 DEF Assigns
  <2>. QED BY <2>1, <2>2 DEF Promised
<1>17. Counting(work', x, B)
  <2>1. Counted(tracker)
    BY <1>2, <1>7, <1>10, NoneUnseen
  <2>2. Counted(x)
    <3>. SUFFICES ASSUME NEW i \in 1..Len(x.stored)
         PROVE  /\ x.stored[i].target = meant[i].target /\ x.stored[i].symbol = meant[i].symbol
                /\ x.stored[i].calls <= meant[i].calls
                /\ meant[i].calls - meant[i].blind <= x.stored[i].calls
      BY DEF Counted
    <3>1. CASE i \in 1..k
      <4>1. x.stored[i] = tracker.stored[i]
        BY <3>1, <1>2, <1>4 DEF k
      <4>. QED BY <4>1, <3>1, <2>1 DEF Counted, k
    <3>2. CASE i \notin 1..k
      <4>1. Bindable(target) /\ i = k + 1
        BY <3>2, <1>2, <1>15
      <4>2. x.stored[i] = [target |-> NameOf(target), symbol |-> symbol, calls |-> 0]
        BY <4>1, <1>2, <1>4 DEF k
      <4>3. meant[i] \in Fresh(NameOf(target), symbol)
        BY <4>1, <1>14
      <4>. QED BY <4>2, <4>3 DEF Fresh
    <3>. QED BY <3>1, <3>2
  <2>. QED BY <2>2, <1>10, <1>15, NoneUnseen
<1>18. Telling(work', x, B)
  <2>1. CachedBy(Top, tracker.scopes) = added
    BY <1>1 DEF CachedBy, added, target, symbol
  <2>2. added \subseteq Reported
    <3>1. n \in 1..n
      BY <1>5
    <3>2. CachedBy(At(work, n), tracker.scopes) \subseteq Reported
      BY <3>1, <1>7 DEF Telling, n
    <3>. QED BY <3>2, <2>1, <1>5
  <2>3. \A r \in 1..(n - 1) : CachedBy(At(work', r), x.scopes) = CachedBy(At(work, r), tracker.scopes)
    <3>. SUFFICES ASSUME NEW r \in 1..(n - 1)
                  PROVE  CachedBy(At(work', r), x.scopes) = CachedBy(At(work, r), tracker.scopes)
      OBVIOUS
    <3>1. At(work', r) = At(work, r) /\ At(work, r).op # "visit"
      BY <1>5, <1>9
    <3>. QED BY <3>1 DEF CachedBy, Assigns
  <2>4. \A r \in 1..Len(work') : CachedBy(At(work', r), x.scopes) \subseteq Reported
    <3>. SUFFICES ASSUME NEW r \in 1..(n - 1) PROVE CachedBy(At(work', r), x.scopes) \subseteq Reported
      BY <1>5
    <3>1. CachedBy(At(work, r), tracker.scopes) \subseteq Reported
      BY <1>7, <1>9 DEF Telling, n
    <3>. QED BY <3>1, <2>3
  <2>5. ASSUME NEW p \in certain
        PROVE  p \in x.patterns \/ \E r \in 1..Len(work') : p \in CachedBy(At(work', r), x.scopes)
    <3>1. CASE p \in tracker.patterns
      BY <3>1, <1>4
    <3>2. CASE \E r \in 1..n : p \in CachedBy(At(work, r), tracker.scopes)
      <4>1. PICK r \in 1..n : p \in CachedBy(At(work, r), tracker.scopes)
        BY <3>2
      <4>2. CASE r = n
        BY <4>1, <4>2, <2>1, <1>4, <1>5
      <4>3. CASE r # n
        <5>1. r \in 1..(n - 1) /\ r \in 1..Len(work')
          BY <4>3, <1>5
        <5>. QED BY <5>1, <4>1, <2>3
      <4>. QED BY <4>2, <4>3
    <3>. QED BY <3>1, <3>2, <1>7, <1>10 DEF Telling, n
  <2>6. x.patterns \subseteq Reported
    BY <2>2, <1>4, <1>7 DEF Telling
  <2>. QED BY <2>4, <2>5, <2>6, <1>10 DEF Telling
<1>19. work' # <<>>
  <2>1. n >= 2
    BY <1>1, BodyBelow DEF n
  <2>2. Len(work') # 0
    BY <2>1, <1>5
  <2>. QED BY <2>2
<1>. QED BY <1>1, <1>11, <1>12, <1>16, <1>17, <1>18, <1>19, EvidentBy DEF x

(* All calls of the node on top are left to see, none if it lists none.      *)
LEMMA AllOfTop ==
  ASSUME NEW S, NEW w \in Seq(S), w # <<>>, w[1].op = "visit"
  PROVE  /\ {u \in Unseen(w) : u[1] = Len(w) => u[2] \in DOMAIN w[1].node.made} = Unseen(w)
         /\ \A u \in Unseen(w) : u[1] = Len(w) =>
              u[2] \in DOMAIN w[1].node.made /\ MadeAt(w, u) = w[1].node.made[u[2]]
<1>. SUFFICES ASSUME NEW u \in Unseen(w), u[1] = Len(w)
              PROVE  u[2] \in DOMAIN w[1].node.made /\ MadeAt(w, u) = w[1].node.made[u[2]]
  OBVIOUS
<1>1. PICK r, j : r \in Visited(w) /\ j \in DOMAIN At(w, r).node.made /\ u = <<r, j>>
  BY UnseenIs
<1>2. At(w, Len(w)) = w[1]
  BY Pop
<1>. QED BY <1>1, <1>2 DEF MadeAt

(* So putting the visits of its parts in its place loses no call.            *)
LEMMA AllMoved ==
  ASSUME NEW w \in Seq(Steps), w # <<>>, w[1].op = "visit", NEW steps \in Seq(Steps),
         NEW place \in Bijection(CallsOn(steps), DOMAIN w[1].node.made),
         \A c \in CallsOn(steps) : w[1].node.made[place[c]] = steps[c[1]].node.made[c[2]]
  PROVE  Moved(w, steps \o Tail(w), Unseen(w))
<1>. DEFINE D == DOMAIN w[1].node.made
<1>1. D \in SUBSET DOMAIN w[1].node.made /\ place \in Bijection(CallsOn(steps), D)
  OBVIOUS
<1>2. {u \in Unseen(w) : u[1] = Len(w) => u[2] \in D} = Unseen(w)
  BY AllOfTop
<1>. HIDE DEF D
<1>3. Moved(w, steps \o Tail(w), {u \in Unseen(w) : u[1] = Len(w) => u[2] \in D})
  BY <1>1, PutParts
<1>. QED BY <1>2, <1>3

(* A node with parts that hold all its calls.                                *)
LEMMA PartsMoved ==
  ASSUME NEW w \in Seq(Steps), w # <<>>, w[1].op = "visit",
         NEW T, NEW nodes \in Seq(T), w[1].node.made \in Seq(MadeCalls),
         Lists(w[1].node.made, nodes, Len(w[1].node.made)),
         NEW steps \in Seq(Steps), Len(nodes) <= Len(steps),
         \A i \in 1..Len(nodes) : steps[i].op = "visit" /\ steps[i].node = nodes[i],
         \A i \in 1..Len(steps) : i > Len(nodes) => steps[i].op # "visit"
  PROVE  Moved(w, steps \o Tail(w), Unseen(w))
<1>. DEFINE made == w[1].node.made
            D == DOMAIN made
<1>1. /\ CallsOn(steps) = CallsIn(nodes)
      /\ \A c \in CallsIn(nodes) : steps[c[1]].node.made[c[2]] = nodes[c[1]].made[c[2]]
  <2>1. Len(steps) \in Nat
    OBVIOUS
  <2>. QED BY <2>1, PartsLeft
<1>2. D = 1..Len(made)
  OBVIOUS
<1>3. PICK place \in Bijection(CallsIn(nodes), 1..Len(made)) :
        \A c \in CallsIn(nodes) : made[place[c]] = nodes[c[1]].made[c[2]]
  BY DEF Lists
<1>4. /\ place \in Bijection(CallsOn(steps), D)
      /\ \A c \in CallsOn(steps) : w[1].node.made[place[c]] = steps[c[1]].node.made[c[2]]
  BY <1>1, <1>2, <1>3
<1>. QED BY <1>4, AllMoved

(* The visits that a function or a class puts on the stack: in Python, those *)
(* of the defaults.                                                          *)
LEMMA DefineParts ==
  ASSUME NEW u, NEW s \in Statements, s.type \in {"function", "class"}
  PROVE  LET v == Children(u, s)
             seen == s.type = "function" /\ language = "python"
         IN  /\ v \in Seq(Steps)
             /\ seen => /\ Len(s.defaults) <= Len(v)
                        /\ \A i \in 1..Len(s.defaults) : v[i].op = "visit" /\ v[i].node = s.defaults[i]
                        /\ \A i \in 1..Len(v) : i > Len(s.defaults) => v[i].op # "visit"
             /\ ~seen => CallsOn(v) = {}
<1>. DEFINE tail == <<EnterStep(ParamsOf(s)), Open, ExitStep>>
            v == Children(u, s)
<1>1. v \in Seq(Steps)
  <2>. HIDE DEF v
  <2>. DEFINE c == Children(u, s)
  <2>1. \E d \in Nat : c \in Seq(Steps)
    BY DefineSteps
  <2>. QED BY <2>1 DEF v
<1>2. ParamsOf(s) \in SUBSET Names
  BY StatementKinds DEF ParamsOf
<1>3. /\ tail \in Seq(Steps) /\ Len(tail) = 3 /\ \A i \in 1..3 : tail[i].op # "visit"
  <2>1. EnterStep(ParamsOf(s)) \in Steps /\ Open \in Steps /\ ExitStep \in Steps
    BY <1>2 DEF EnterStep, Steps
  <2>2. \A i \in 1..3 : i = 1 \/ i = 2 \/ i = 3
    OBVIOUS
  <2>3. tail[1] = EnterStep(ParamsOf(s)) /\ tail[2] = Open /\ tail[3] = ExitStep
    OBVIOUS
  <2>4. tail[1].op = "enter" /\ tail[2].op = "open" /\ tail[3].op = "exit"
    BY <2>3, Kinds
  <2>5. \A i \in 1..3 : tail[i].op # "visit"
    <3>. HIDE DEF tail
    <3>. QED BY <2>2, <2>4
  <2>. QED BY <2>1, <2>5
<1>4. CASE s.type = "function" /\ language = "python"
  <2>. DEFINE pre == VisitAll(s.defaults)
              d == Len(s.defaults)
  <2>1. s.defaults \in Seq(Expressions)
    BY <1>4, StatementKinds
  <2>2. pre \in Seq(VisitSteps(Expressions)) /\ Len(pre) = d
    BY <2>1, Visiting
  <2>3. v = pre \o tail
    BY <1>4 DEF Children, ParamsOf
  <2>4. d \in Nat /\ DOMAIN s.defaults = 1..d
    BY <2>1
  <2>5. \A i \in 1..d : pre[i].op = "visit" /\ pre[i].node = s.defaults[i]
    BY <2>4, VisitsSee
  <2>6. pre \in Seq(Steps)
    BY <2>2, SomeSteps
  <2>. HIDE DEF pre, tail, d, v
  <2>7. Len(v) = d + 3 /\ \A i \in 1..(d + 3) : v[i] = IF i <= d THEN pre[i] ELSE tail[i - d]
    <3>1. Len(pre \o tail) = Len(pre) + Len(tail)
          /\ \A i \in 1..(Len(pre) + Len(tail)) :
               (pre \o tail)[i] = IF i <= Len(pre) THEN pre[i] ELSE tail[i - Len(pre)]
      BY <1>3, <2>6, Joined, Zenon
    <3>. QED BY <3>1, <2>2, <2>3, <1>3
  <2>8. \A i \in 1..d : v[i].op = "visit" /\ v[i].node = s.defaults[i]
    <3>1. \A i \in 1..d : i \in 1..(d + 3) /\ i <= d
      BY <2>4
    <3>. QED BY <3>1, <2>5, <2>7
  <2>9. \A i \in 1..Len(v) : i > d => v[i].op # "visit"
    <3>. SUFFICES ASSUME NEW i \in 1..(d + 3), i > d PROVE v[i].op # "visit"
      BY <2>7
    <3>1. i - d \in 1..3 /\ ~(i <= d)
      BY <2>4
    <3>. QED BY <3>1, <2>7, <1>3
  <2>10. d <= Len(v)
    BY <2>4, <2>7
  <2>. QED BY <1>1, <1>4, <2>8, <2>9, <2>10 DEF d, v
<1>5. CASE ~(s.type = "function" /\ language = "python")
  <2>1. v = tail
    <3>1. CASE s.type = "class"
      BY <3>1 DEF Children, ParamsOf
    <3>2. CASE s.type = "function"
      <4>1. v = <<>> \o tail
        BY <3>2, <1>5 DEF Children, ParamsOf
      <4>. HIDE DEF tail, v
      <4>. QED BY <4>1, <1>3
    <3>. QED BY <3>1, <3>2
  <2>. HIDE DEF tail, v
  <2>2. CallsOn(v) = {}
    <3>1. {k \in 1..Len(v) : v[k].op = "visit"} = {}
      BY <2>1, <1>3
    <3>. QED BY <3>1 DEF CallsOn
  <2>. QED BY <2>2, <1>1, <1>5 DEF v
<1>. QED BY <1>4, <1>5

(* Seeing a function or a class adds no evidence.                            *)
LEMMA DefineTells ==
  ASSUME NEW t, Tracker(t), NEW s, s.type \in {"function", "class"}
  PROVE  Record(t, s).patterns = t.patterns
<1>1. \A name : Bind(t, name, NoName).patterns = t.patterns
  BY DEF Bind, Tracker
<1>2. Record(t, s) \in {t, Define(t, s.name)}
  BY DEF Record
<1>. QED BY <1>1, <1>2 DEF Define

(* A function or a class is seen: its name is no result from then on, and in *)
(* ECMAScript its defaults are passed over.                                  *)
LEMMA BodySeen ==
  ASSUME IInv, Evident, VisitNode, Top.node.type \in {"function", "class"}
  PROVE  Evident'
<1>. DEFINE s == Top.node
            n == Len(work)
            u == Record(tracker, s)
            v == Children(u, s)
            seen == s.type = "function" /\ language = "python"
            blind == s.type = "function" /\ language = "ecmascript"
            S == IF blind THEN {c \in Unseen(work) : c[1] = n => FALSE} ELSE Unseen(work)
<1>1. /\ work # <<>> /\ Top.op = "visit" /\ tracker' = u /\ work' = v \o Tail(work)
      /\ UNCHANGED <<history, done>>
  BY DEF VisitNode, TopIs
<1>2. /\ Len(tracker.stored) \in Nat /\ Len(meant) \in Nat
      /\ Len(tracker.stored) <= Len(meant) /\ DOMAIN meant = 1..Len(meant)
      /\ tracker.stored \in Seq(Kept) /\ Tracker(tracker) /\ work \in Seq(Steps)
      /\ IsFiniteSet(Unseen(work))
      /\ \A c \in Unseen(work) : MadeAt(work, c) \in MadeCalls
  BY StoredMeant
<1>3. language \in {"python", "ecmascript"}
  BY LanguagesAssumption DEF IInv, Types
<1>4. s \in Statements /\ s \notin Expressions
  <2>1. s \notin Expressions
    BY Plain
  <2>2. Top \in Steps
    BY <1>1, TopOf DEF IInv
  <2>. QED BY <1>1, <2>1, <2>2 DEF Steps, Simple, VisitSteps, StoreSteps, Binds, Open, ExitStep
<1>5. /\ Tracker(u) /\ u.stored = tracker.stored /\ Len(u.scopes) = Len(tracker.scopes)
      /\ \A x \in Names : LookAt(u.scopes, Len(tracker.scopes), x)
           = IF x \in TargetNames(s) \ Unresolved THEN None
             ELSE LookAt(tracker.scopes, Len(tracker.scopes), x)
      /\ u.patterns = tracker.patterns
  <2>. HIDE DEF s
  <2>1. s.type \in {"function", "class"}
    BY DEF s
  <2>. QED BY <1>2, <1>4, <2>1, DefineRecord, DefineTells
<1>6. /\ v \in Seq(Steps)
      /\ seen => /\ Len(s.defaults) <= Len(v)
                 /\ \A i \in 1..Len(s.defaults) : v[i].op = "visit" /\ v[i].node = s.defaults[i]
                 /\ \A i \in 1..Len(v) : i > Len(s.defaults) => v[i].op # "visit"
      /\ ~seen => CallsOn(v) = {}
  <2>. HIDE DEF s, u
  <2>1. s.type \in {"function", "class"}
    BY DEF s
  <2>. QED BY <1>4, <2>1, DefineParts
<1>7. PICK d \in Nat :
        /\ Len(v) = d + 3 /\ \A i \in 1..d : v[i] \in VisitSteps(Expressions)
        /\ v[d + 1] = EnterStep(ParamsOf(s)) /\ v[d + 2] = Open /\ v[d + 3] = ExitStep
  <2>. HIDE DEF s, u
  <2>1. s.type \in {"function", "class"}
    BY DEF s
  <2>. QED BY <1>4, <2>1, DefineSteps
<1>8. ~done /\ \A i \in DOMAIN meant : meant[i] \in Meaning
  BY <1>1 DEF Evident
<1>9. PICK B \in SUBSET (Names \cup {NoName}) :
        Rebinds(work, B) /\ Counting(work, tracker, B) /\ Telling(work, tracker, B)
  BY <1>8 DEF Evident
<1>10. n \in Nat \ {0} /\ At(work, n) = Top
  BY <1>1, TopOf DEF IInv
<1>11. BlindNames(s) \subseteq B
  <2>1. n \in 1..Len(work)
    BY <1>10
  <2>. QED BY <2>1, <1>1, <1>9, <1>10 DEF Rebinds
<1>12. /\ blind => B = Names \cup {NoName}
       /\ TargetNames(s) \ {NoName} \subseteq B
  <2>1. TargetNames(s) \subseteq Names \cup {NoName}
    BY <1>4, StatementKinds DEF TargetNames
  <2>. QED BY <2>1, <1>11 DEF BlindNames
<1>13. Moved(work, work', S) /\ S \in SUBSET Unseen(work)
  <2>1. work[1].op = "visit" /\ work[1].node = s
    BY <1>1 DEF Top
  <2>2. CASE blind
    <3>1. CallsOn(v) = {} /\ v \in Seq(Steps)
      BY <1>6, <2>2
    <3>. HIDE DEF v
    <3>2. Moved(work, v \o Tail(work), {c \in Unseen(work) : c[1] = Len(work) => FALSE})
      BY <3>1, <2>1, <1>1, <1>2, PutNothing
    <3>. QED BY <3>2, <2>2, <1>1
  <2>3. CASE seen
    <3>1. s.made \in Seq(MadeCalls) /\ Lists(s.made, s.defaults, Len(s.made))
          /\ s.defaults \in Seq(Expressions)
      BY <2>3, <1>4, MadeAssumption, StatementKinds
    <3>. HIDE DEF v
    <3>2. Moved(work, v \o Tail(work), Unseen(work))
      <4>. HIDE DEF s
      <4>. QED BY <3>1, <2>1, <2>3, <1>1, <1>2, <1>6, PartsMoved
    <3>. QED BY <3>2, <2>3, <1>1
  <2>4. CASE ~seen /\ ~blind
    <3>1. s.type = "class" /\ CallsOn(v) = {} /\ v \in Seq(Steps)
      BY <2>4, <1>3, <1>6
    <3>2. s.made = <<>>
      BY <3>1, <1>4, MadeAssumption
    <3>3. \A c \in Unseen(work) : c[1] # n
      <4>1. \A c \in Unseen(work) : c[1] = Len(work) => c[2] \in DOMAIN work[1].node.made
        BY <2>1, <1>1, <1>2, AllOfTop
      <4>. QED BY <4>1, <3>2, <2>1
    <3>. HIDE DEF v
    <3>4. Moved(work, v \o Tail(work), {c \in Unseen(work) : c[1] = Len(work) => FALSE})
      BY <3>1, <2>1, <1>1, <1>2, PutNothing
    <3>5. {c \in Unseen(work) : c[1] = Len(work) => FALSE} = Unseen(work)
      BY <3>3
    <3>. QED BY <3>4, <3>5, <2>4, <1>1
  <2>. QED BY <2>2, <2>3, <2>4
<1>14. \A c \in Unseen(work) \ S :
         MadeAt(work, c).callee \in B /\ ~Seen(B, MadeAt(work, c))
  <2>. SUFFICES ASSUME NEW c \in Unseen(work) \ S
                PROVE  MadeAt(work, c).callee \in B /\ ~Seen(B, MadeAt(work, c))
    OBVIOUS
  <2>1. B = Names \cup {NoName}
    BY <1>12
  <2>2. MadeAt(work, c) \in MadeCalls
    BY <1>2
  <2>3. MadeAt(work, c).callee \in B /\ MadeAt(work, c).immediate \in B
    BY <2>1, <2>2 DEF MadeCalls
  <2>. QED BY <2>3 DEF Seen
<1>15. Hides(tracker.scopes, u.scopes, B)
  <2>. SUFFICES ASSUME NEW x \in Names
                PROVE  \/ LookAt(u.scopes, Len(u.scopes), x)
                            = LookAt(tracker.scopes, Len(tracker.scopes), x)
                       \/ x \in B /\ LookAt(u.scopes, Len(u.scopes), x) = None
    BY DEF Hides
  <2>. HIDE DEF u, s
  <2>1. CASE x \in TargetNames(s) \ Unresolved
    <3>1. x \in B
      BY <2>1, <1>12, TrackerAssumption
    <3>. QED BY <3>1, <2>1, <1>5
  <2>2. CASE x \notin TargetNames(s) \ Unresolved
    BY <2>2, <1>5
  <2>. QED BY <2>1, <2>2
<1>16. /\ Len(work') = d + 3 + n - 1 /\ Same(work, work', n) /\ Plains(work, work', n)
  <2>1. /\ Len(work') = Len(v) + n - 1
        /\ \A r \in 1..(n - 1) : At(work', r) = At(work, r)
        /\ \A r \in n..(Len(v) + n - 1) :
             Len(v) + n - r \in 1..Len(v) /\ At(work', r) = v[Len(v) + n - r]
    <3>. HIDE DEF v
    <3>. QED BY <1>1, <1>2, <1>6, ReplaceTop
  <2>2. Same(work, work', n)
    BY <2>1, <1>7, <1>10 DEF Same
  <2>3. \A i \in 1..(d + 3) : \/ v[i].op \in {"enter", "open", "exit"}
                              \/ v[i].op = "visit" /\ v[i].node \in Expressions
    <3>. SUFFICES ASSUME NEW i \in 1..(d + 3)
                  PROVE  \/ v[i].op \in {"enter", "open", "exit"}
                         \/ v[i].op = "visit" /\ v[i].node \in Expressions
      OBVIOUS
    <3>. HIDE DEF v
    <3>1. i \in 1..d \/ i = d + 1 \/ i = d + 2 \/ i = d + 3
      OBVIOUS
    <3>2. CASE i \in 1..d
      BY <3>2, <1>7 DEF VisitSteps
    <3>3. CASE i = d + 1 \/ i = d + 2 \/ i = d + 3
      <4>1. v[d + 1].op = "enter" /\ v[d + 2].op = "open" /\ v[d + 3].op = "exit"
        BY <1>7, Kinds
      <4>. QED BY <4>1, <3>3
    <3>. QED BY <3>1, <3>2, <3>3
  <2>. HIDE DEF v, n
  <2>4. Plains(work, work', n)
    BY <2>1, <2>3, <1>7 DEF Plains
  <2>. QED BY <2>1, <2>2, <2>4, <1>7
<1>17. work' # <<>>
  <2>1. d + 3 + n - 1 # 0
    BY <1>10
  <2>2. Len(work') # 0
    BY <2>1, <1>16
  <2>. QED BY <2>2
<1>18. Top.op # "bind" /\ (Top.op = "visit" => Top.node.type # "assign")
  BY <1>1
<1>. HIDE DEF S, u, v, s
<1>19. Counting(work', u, B)
  BY <1>2, <1>5, <1>8, <1>9, <1>13, <1>14, <1>15, CountingKept
<1>20. BindsLast(work') /\ Promised(work', u) /\ Rebinds(work', B) /\ Telling(work', u, B)
  <2>1. tracker.patterns \subseteq u.patterns /\ u.patterns \subseteq Reported
        /\ Len(u.stored) = Len(tracker.stored)
    BY <1>5, <1>9 DEF Telling
  <2>2. \A c \in Unseen(work) \ S : \/ ~Seen(B, MadeAt(work, c))
                                    \/ Told(tracker.scopes, MadeAt(work, c)) \subseteq u.patterns
    BY <1>14
  <2>3. Same(work, work', Len(work)) /\ Plains(work, work', Len(work))
    BY <1>16
  <2>. QED BY <2>1, <2>2, <2>3, <1>1, <1>5, <1>9, <1>13, <1>15, <1>18, PlainKept
<1>21. Counting(work', tracker', B) /\ Promised(work', tracker') /\ Telling(work', tracker', B)
  BY <1>1, <1>19, <1>20
<1>. QED BY <1>1, <1>9, <1>17, <1>20, <1>21, EvidentBy

\* The steps of an assignment: a targets to store, c visits, b results to bind.
AssignParts(v, s, a, b, c, symbol) ==
  /\ a \in Nat /\ b \in Nat /\ c = Calling(s) /\ Len(v) = a + c + b
  /\ \A i \in 1..a : v[i] = Store(s.targets[i])
  /\ \A i \in 1..c : v[a + i].op = "visit" /\ v[a + i].node = s.value
  /\ \A i \in 1..b : v[a + c + i] = BindStep(s.targets[i], symbol)

(* What the stack and the tracker are when an assignment has been seen.      *)
LEMMA AssignSeen ==
  ASSUME IInv, VisitNode, Top.node.type = "assign"
  PROVE  LET s == Top.node
             u == Record(tracker, s)
             v == Children(u, s)
             n == Len(work)
             m == Len(s.targets)
             a == Storing(s)
             b == Binding(u, s)
             c == Calling(s)
         IN  /\ s \in Statements /\ s \notin Expressions
             /\ work # <<>> /\ Top.op = "visit" /\ UNCHANGED <<history, done>>
             /\ tracker' = u /\ work' = v \o Tail(work) /\ v \in Seq(Steps)
             /\ Tracker(u) /\ u.stored = tracker.stored /\ u.patterns = tracker.patterns
             /\ Len(u.scopes) = Len(tracker.scopes)
             /\ \A x \in Names : LookAt(u.scopes, Len(tracker.scopes), x)
                  = IF Cleared(s, x) THEN None ELSE LookAt(tracker.scopes, Len(tracker.scopes), x)
             /\ Symbol(u, s) = SymbolOf(tracker.scopes, s)
             /\ m \in Nat /\ m # 0 /\ a \in {0, m} /\ b \in {0, m} /\ c \in {0, 1}
             /\ (b = 0 <=> Symbol(u, s) = NoName)
             /\ AssignParts(v, s, a, b, c, Symbol(u, s))
<1>. DEFINE s == Top.node
            u == Record(tracker, s)
            v == Children(u, s)
            m == Len(s.targets)
            a == Storing(s)
            b == Binding(u, s)
            c == Calling(s)
<1>1. /\ work # <<>> /\ Top.op = "visit" /\ UNCHANGED <<history, done>>
      /\ tracker' = u /\ work' = v \o Tail(work) /\ s.type = "assign"
  BY DEF VisitNode, TopIs
<1>2. /\ Tracker(tracker) /\ language \in {"python", "ecmascript"} /\ work \in Seq(Steps)
      /\ Top \in Steps /\ At(work, Len(work)) = Top
  BY <1>1, TopOf, LanguagesAssumption DEF IInv, Types
<1>3. s \in Statements /\ s \notin Expressions
  <2>1. s \notin Expressions
    BY <1>1, Plain
  <2>. QED BY <1>1, <1>2, <2>1 DEF Steps, Simple, VisitSteps, StoreSteps, Binds, Open, ExitStep
<1>4. Expressible(s)
  <2>1. CASE Assigning
    <3>1. PICK x \in Statements : At(work, 2 * Depth) = Visit(x) /\ Expressible(x)
      BY <2>1 DEF Assigning
    <3>2. Len(work) = 2 * Depth
      BY <2>1 DEF Assigning
    <3>3. x = s
      BY <1>2, <3>1, <3>2, Kinds
    <3>. QED BY <3>1, <3>3
  <2>2. CASE Defining
    <3>1. PICK x \in Statements : At(work, 2 * Depth - 2) = Visit(x) /\ x.type \in {"function", "class"}
      BY <2>2 DEF Defining
    <3>2. Len(work) = 2 * Depth - 2
      BY <2>2 DEF Defining
    <3>3. x = s
      BY <1>2, <3>1, <3>2, Kinds
    <3>. QED BY <3>1, <3>3, <1>1
  <2>3. CASE Working /\ Len(work) >= 2 * Depth
    <3>1. Len(work) \in (2 * Depth)..Len(work)
      <4>1. Len(work) \in Nat /\ Depth \in Nat
        BY <1>1, TopOf DEF IInv
      <4>. QED BY <2>3, <4>1
    <3>2. Top \in Simple
      BY <1>2, <2>3, <3>1 DEF Working
    <3>. QED BY <3>2, <1>1, <1>3 DEF Simple, VisitSteps, StoreSteps, Binds
  <2>4. CASE Entering /\ Len(work) > 2 * Depth
    <3>1. Len(work) \in (2 * Depth + 1)..Len(work)
      <4>1. Len(work) \in Nat /\ Depth \in Nat
        BY <1>1, TopOf DEF IInv
      <4>. QED BY <2>4, <4>1
    <3>2. Top \in VisitSteps(Expressions)
      BY <1>2, <2>4, <3>1 DEF Entering
    <3>. QED BY <3>2, <1>1, <1>3 DEF VisitSteps
  <2>. QED BY <1>1, <2>1, <2>2, <2>3, <2>4, PhaseOf
<1>. HIDE DEF s
<1>5. /\ Tracker(u) /\ u.stored = tracker.stored /\ Len(u.scopes) = Len(tracker.scopes)
      /\ \A x \in Names : LookAt(u.scopes, Len(tracker.scopes), x)
           = IF Cleared(s, x) THEN None ELSE LookAt(tracker.scopes, Len(tracker.scopes), x)
  BY <1>1, <1>2, <1>3, <1>4, AssignRecord
<1>6. u.patterns = tracker.patterns
  <2>1. \A name : Bind(tracker, name, NoName).patterns = tracker.patterns
    BY <1>2 DEF Bind, Tracker
  <2>2. u \in {tracker, Bind(tracker, NameOf(s.targets[1]), NoName)}
    BY <1>1 DEF Record
  <2>. QED BY <2>1, <2>2
<1>7. Symbol(u, s) = SymbolOf(tracker.scopes, s) /\ Symbol(u, s) \in Factories \cup {NoName}
  BY <1>1, <1>2, <1>3, <1>4, AssignSymbol DEF Symbol
<1>8. m \in Nat /\ m # 0
  BY <1>1, <1>3, Targets
<1>9. a \in {0, m} /\ b \in {0, m} /\ (b = 0 <=> Symbol(u, s) = NoName)
  BY <1>8 DEF Storing, Binding
<1>10. /\ v \in Seq(Simple) /\ Len(v) = a + c + b /\ c \in {0, 1}
       /\ \A i \in 1..a : v[i] = Store(s.targets[i])
       /\ \A i \in 1..c : v[a + i].op = "visit" /\ v[a + i].node = s.value
       /\ \A i \in 1..b : v[a + c + i] = BindStep(s.targets[i], Symbol(u, s))
  BY <1>1, <1>3, <1>7, AssignSteps
<1>11. v \in Seq(Steps)
  <2>. HIDE DEF v
  <2>. QED BY <1>10, SomeSteps
<1>12. AssignParts(v, s, a, b, c, Symbol(u, s))
  <2>1. a \in Nat /\ b \in Nat /\ c = Calling(s)
    BY <1>8, <1>9
  <2>. HIDE DEF u, v, m, a, b, c
  <2>. QED BY <2>1, <1>10 DEF AssignParts
<1>. HIDE DEF u, v, m, a, b, c
<1>. QED BY <1>1, <1>3, <1>5, <1>6, <1>7, <1>8, <1>9, <1>10, <1>11, <1>12 DEF s, u, v, m, a, b, c

(* The calls of an assignment are those of its value.                        *)
LEMMA AssignMoved ==
  ASSUME NEW w \in Seq(Steps), w # <<>>, w[1].op = "visit", NEW s, w[1].node = s,
         s \in Statements, s.type = "assign",
         NEW v \in Seq(Steps), NEW a, NEW b, NEW c, NEW symbol, AssignParts(v, s, a, b, c, symbol)
  PROVE  Moved(w, v \o Tail(w), Unseen(w))
<1>. DEFINE D == DOMAIN s.made
            place == [d \in CallsOn(v) |-> d[2]]
<1>0. /\ a \in Nat /\ b \in Nat /\ c = Calling(s) /\ Len(v) = a + c + b
      /\ \A i \in 1..a : v[i] = Store(s.targets[i])
      /\ \A i \in 1..c : v[a + i].op = "visit" /\ v[a + i].node = s.value
      /\ \A i \in 1..b : v[a + c + i] = BindStep(s.targets[i], symbol)
  BY DEF AssignParts
<1>1. s.made = s.value.made /\ s.value \in Expressions
  BY MadeAssumption, StatementKinds
<1>2. (c = 1 /\ s.value.type = "call") \/ (c = 0 /\ s.value \in Places)
  <2>1. CASE s.value.type = "call"
    <3>1. Visits(s.value) = <<Visit(s.value)>>
      BY <2>1 DEF Visits
    <3>. QED BY <3>1, <2>1, <1>0 DEF Calling
  <2>2. CASE s.value.type # "call"
    <3>1. Visits(s.value) = <<>>
      BY <2>2 DEF Visits
    <3>2. s.value \in Places
      BY <2>2, <1>1, CallsAssumption DEF Expressions
    <3>. QED BY <3>1, <3>2, <1>0 DEF Calling
  <2>. QED BY <2>1, <2>2
<1>3. ASSUME NEW i \in 1..Len(v) PROVE v[i].op = "visit" <=> i = a + 1 /\ c = 1
  <2>1. CASE i \in 1..a
    <3>1. v[i] = Store(s.targets[i]) /\ i # a + 1
      BY <2>1, <1>0
    <3>. QED BY <3>1 DEF Store
  <2>2. CASE i = a + 1 /\ c = 1
    <3>1. 1 \in 1..c
      BY <2>2
    <3>. QED BY <3>1, <2>2, <1>0
  <2>3. CASE i \notin 1..a /\ ~(i = a + 1 /\ c = 1)
    <3>1. i - (a + c) \in 1..b /\ a + c + (i - (a + c)) = i
      BY <2>3, <1>0, <1>2
    <3>2. v[i] = BindStep(s.targets[i - (a + c)], symbol)
      BY <3>1, <1>0
    <3>. QED BY <3>2, <2>3 DEF BindStep
  <2>. QED BY <2>1, <2>2, <2>3
<1>4. CallsOn(v) = {a + 1} \X D
  <2>1. CASE c = 1
    <3>1. a + 1 \in 1..Len(v) /\ 1 \in 1..c
      BY <2>1, <1>0
    <3>2. v[a + 1].node = s.value
      BY <3>1, <1>0
    <3>3. {k \in 1..Len(v) : v[k].op = "visit"} = {a + 1}
      BY <1>3, <2>1, <3>1
    <3>4. CallsOn(v) = UNION {{i} \X DOMAIN v[i].node.made : i \in {a + 1}}
      BY <3>3 DEF CallsOn
    <3>. QED BY <3>2, <3>4, <1>1
  <2>2. CASE c = 0
    <3>1. {k \in 1..Len(v) : v[k].op = "visit"} = {}
      BY <1>3, <2>2
    <3>2. CallsOn(v) = {}
      BY <3>1 DEF CallsOn
    <3>3. s.made = <<>>
      BY <2>2, <1>1, <1>2 DEF Places
    <3>. QED BY <3>2, <3>3
  <2>. QED BY <2>1, <2>2, <1>2
<1>. HIDE DEF D
<1>5. place \in Bijection(CallsOn(v), D)
  <2>1. place \in [CallsOn(v) -> D]
    BY <1>4
  <2>2. \A x, y \in CallsOn(v) : place[x] = place[y] => x = y
    BY <1>4
  <2>3. \A y \in D : \E x \in CallsOn(v) : place[x] = y
    <3>. SUFFICES ASSUME NEW y \in D PROVE \E x \in CallsOn(v) : place[x] = y
      OBVIOUS
    <3>1. <<a + 1, y>> \in CallsOn(v) /\ place[<<a + 1, y>>] = y
      BY <1>4
    <3>. QED BY <3>1
  <2>. HIDE DEF place
  <2>. QED BY <2>1, <2>2, <2>3, IsBijection
<1>6. \A d \in CallsOn(v) : s.made[place[d]] = v[d[1]].node.made[d[2]]
  <2>. SUFFICES ASSUME NEW d \in CallsOn(v) PROVE s.made[place[d]] = v[d[1]].node.made[d[2]]
    OBVIOUS
  <2>1. d[1] = a + 1 /\ place[d] = d[2]
    BY <1>4
  <2>2. PICK i \in 1..Len(v) : v[i].op = "visit" /\ d[1] = i
    BY DEF CallsOn
  <2>3. c = 1 /\ 1 \in 1..c
    BY <1>3, <2>2
  <2>4. v[a + 1].node = s.value
    BY <2>3, <1>0
  <2>. QED BY <2>1, <2>4, <1>1
<1>. HIDE DEF place
<1>7. /\ place \in Bijection(CallsOn(v), DOMAIN w[1].node.made)
      /\ \A d \in CallsOn(v) : w[1].node.made[place[d]] = v[d[1]].node.made[d[2]]
  BY <1>5, <1>6 DEF D
<1>. QED BY <1>7, AllMoved

\* Steps put in the place of the top one.
LEMMA OnTheRest ==
  ASSUME NEW w \in Seq(Steps), w # <<>>, NEW v \in Seq(Steps)
  PROVE  /\ Len(v \o Tail(w)) = Len(v) + Len(w) - 1 /\ Len(v) \in Nat /\ Len(w) \in Nat \ {0}
         /\ \A r \in 1..(Len(w) - 1) : At(v \o Tail(w), r) = At(w, r)
         /\ \A r \in Len(w)..(Len(v) + Len(w) - 1) :
              /\ Len(v) + Len(w) - r \in 1..Len(v)
              /\ At(v \o Tail(w), r) = v[Len(v) + Len(w) - r]
BY ReplaceTop

\* The steps that an assignment leaves on the stack, from the bottom: those below
\* it, the results to bind, the visit of its value, the targets to store.
AssignStack(x, w, n, s, a, b, c, symbol) ==
  /\ Len(x) = n - 1 + a + c + b /\ n \in Nat \ {0}
  /\ \A r \in 1..(n - 1) : At(x, r) = At(w, r)
  /\ \A j \in 1..b : At(x, n + b - j) = BindStep(s.targets[j], symbol)
  /\ \A r \in (n + b)..(n + b + c - 1) : At(x, r).op = "visit" /\ At(x, r).node = s.value
  /\ \A r \in n..(n + b - 1) : n + b - r \in 1..b /\ n + b - (n + b - r) = r
  /\ \A r \in (n + b + c)..Len(x) : \E i \in 1..a : At(x, r) = Store(s.targets[i])

LEMMA AssignPlaces ==
  ASSUME NEW w \in Seq(Steps), w # <<>>, NEW v \in Seq(Steps),
         NEW s, NEW symbol, NEW a, NEW b, NEW c \in {0, 1}, AssignParts(v, s, a, b, c, symbol)
  PROVE  AssignStack(v \o Tail(w), w, Len(w), s, a, b, c, symbol)
<1>. DEFINE x == v \o Tail(w)
            k == Len(v)
            n == Len(w)
<1>1. /\ Len(x) = k + n - 1 /\ k \in Nat /\ n \in Nat \ {0}
      /\ \A r \in 1..(n - 1) : At(x, r) = At(w, r)
      /\ \A r \in n..(k + n - 1) : k + n - r \in 1..k /\ At(x, r) = v[k + n - r]
  BY OnTheRest
<1>. HIDE DEF x, k, n
<1>2. /\ k = a + c + b /\ a \in Nat /\ b \in Nat
      /\ \A i \in 1..a : v[i] = Store(s.targets[i])
      /\ \A i \in 1..c : v[a + i].op = "visit" /\ v[a + i].node = s.value
      /\ \A i \in 1..b : v[a + c + i] = BindStep(s.targets[i], symbol)
  BY DEF k, AssignParts
<1>9. k \in Nat /\ n \in Nat \ {0} /\ k = a + c + b /\ a \in Nat /\ b \in Nat /\ c \in Nat
  BY <1>1, <1>2
<1>3. ASSUME NEW j \in 1..b PROVE At(x, n + b - j) = BindStep(s.targets[j], symbol)
  <2>1. n + b - j \in n..(k + n - 1) /\ k + n - (n + b - j) = a + c + j
    BY <1>9
  <2>2. At(x, n + b - j) = v[a + c + j]
    BY <2>1, <1>1
  <2>. QED BY <2>2, <1>2
<1>4. ASSUME NEW r \in (n + b)..(n + b + c - 1)
      PROVE  At(x, r).op = "visit" /\ At(x, r).node = s.value
  <2>1. /\ r \in n..(k + n - 1) /\ c + b + n - r \in 1..c
        /\ k + n - r = a + (c + b + n - r)
    BY <1>9
  <2>2. At(x, r) = v[a + (c + b + n - r)]
    BY <2>1, <1>1
  <2>. QED BY <2>1, <2>2, <1>2
<1>5. ASSUME NEW r \in (n + b + c)..Len(x) PROVE \E i \in 1..a : At(x, r) = Store(s.targets[i])
  <2>1. Len(x) = k + n - 1
    BY <1>1
  <2>2. r \in n..(k + n - 1) /\ k + n - r \in 1..a
    BY <2>1, <1>9
  <2>3. At(x, r) = v[k + n - r]
    BY <2>2, <1>1
  <2>. QED BY <2>2, <2>3, <1>2
<1>6. Len(x) = n - 1 + a + c + b
  BY <1>1, <1>9
<1>7. \A r \in n..(n + b - 1) : n + b - r \in 1..b /\ n + b - (n + b - r) = r
  BY <1>9
<1>8. AssignStack(x, w, n, s, a, b, c, symbol)
  BY <1>1, <1>3, <1>4, <1>5, <1>6, <1>7 DEF AssignStack
<1>. QED BY <1>8 DEF x, n

(* An assignment is seen: its targets are still to be stored to, the calls   *)
(* in its value to be seen, and its results to be bound.                     *)
LEMMA AssignTaken ==
  ASSUME IInv, Evident, VisitNode, Top.node.type = "assign"
  PROVE  Evident'
<1>. DEFINE s == Top.node
            u == Record(tracker, s)
            v == Children(u, s)
            n == Len(work)
            m == Len(s.targets)
            a == Storing(s)
            b == Binding(u, s)
            c == Calling(s)
            symbol == Symbol(u, s)
            w == v \o Tail(work)
            k == Len(tracker.stored)
<1>1. /\ s \in Statements /\ s \notin Expressions /\ s.type = "assign"
      /\ work # <<>> /\ Top.op = "visit" /\ UNCHANGED <<history, done>>
      /\ tracker' = u /\ work' = w /\ v \in Seq(Steps)
      /\ Tracker(u) /\ u.stored = tracker.stored /\ u.patterns = tracker.patterns
      /\ Len(u.scopes) = Len(tracker.scopes)
      /\ \A x \in Names : LookAt(u.scopes, Len(tracker.scopes), x)
           = IF Cleared(s, x) THEN None ELSE LookAt(tracker.scopes, Len(tracker.scopes), x)
      /\ symbol = SymbolOf(tracker.scopes, s)
      /\ m \in Nat /\ m # 0 /\ a \in {0, m} /\ b \in {0, m} /\ c \in {0, 1}
      /\ (b = 0 <=> symbol = NoName)
      /\ AssignParts(v, s, a, b, c, symbol)
  BY AssignSeen
<1>2. /\ k \in Nat /\ Len(meant) \in Nat
      /\ k <= Len(meant) /\ DOMAIN meant = 1..Len(meant)
      /\ tracker.stored \in Seq(Kept) /\ Tracker(tracker) /\ work \in Seq(Steps)
      /\ IsFiniteSet(Unseen(work))
      /\ \A z \in Unseen(work) : MadeAt(work, z) \in MadeCalls
  BY StoredMeant
<1>3. /\ DOMAIN s.targets = 1..m /\ s.value \in Expressions
      /\ \A i \in 1..m : s.targets[i] \in Places /\ NameOf(s.targets[i]) \in Names \cup {NoName}
  <2>1. AssignsTo(s, m) /\ s.value \in Expressions
    BY <1>1, Targets, StatementKinds
  <2>. QED BY <2>1, <1>1, Targets DEF AssignsTo
<1>4. Moved(work, w, Unseen(work))
  <2>1. work[1].op = "visit" /\ work[1].node = s
    BY <1>1 DEF Top
  <2>2. /\ work # <<>> /\ work \in Seq(Steps) /\ v \in Seq(Steps)
        /\ s \in Statements /\ s.type = "assign" /\ AssignParts(v, s, a, b, c, symbol)
    BY <1>1, <1>2
  <2>. HIDE DEF s, u, v, n, m, a, b, c, symbol
  <2>. QED BY <2>1, <2>2, AssignMoved
<1>5. /\ Len(w) = n - 1 + a + c + b /\ n \in Nat \ {0}
      /\ \A r \in 1..(n - 1) : At(w, r) = At(work, r)
      /\ \A j \in 1..b : At(w, n + b - j) = BindStep(s.targets[j], symbol)
      /\ \A r \in (n + b)..(n + b + c - 1) : At(w, r).op = "visit" /\ At(w, r).node = s.value
      /\ \A r \in n..(n + b - 1) : n + b - r \in 1..b /\ n + b - (n + b - r) = r
      /\ \A r \in (n + b + c)..Len(w) : \E i \in 1..a : At(w, r) = Store(s.targets[i])
  <2>1. /\ c \in {0, 1} /\ work # <<>> /\ work \in Seq(Steps)
        /\ v \in Seq(Steps) /\ AssignParts(v, s, a, b, c, symbol)
    BY <1>1, <1>2
  <2>. HIDE DEF s, u, v, m, a, b, c, symbol
  <2>2. AssignStack(w, work, n, s, a, b, c, symbol)
    BY <2>1, AssignPlaces
  <2>. HIDE DEF w, n
  <2>. QED BY <2>2 DEF AssignStack
<1>6. ~done /\ \A i \in DOMAIN meant : meant[i] \in Meaning
  BY <1>1 DEF Evident
<1>7. PICK B \in SUBSET (Names \cup {NoName}) :
        Rebinds(work, B) /\ Counting(work, tracker, B) /\ Telling(work, tracker, B)
  BY <1>6 DEF Evident
<1>8. At(work, n) = Top /\ n \in 1..n
  BY <1>1, <1>5, TopOf DEF IInv
<1>9. TargetNames(s) \ {NoName} \subseteq B
  <2>1. BlindNames(s) \subseteq B
    BY <1>1, <1>7, <1>8 DEF Rebinds
  <2>. QED BY <2>1, <1>1 DEF BlindNames
<1>10. \A i \in 1..m : NameOf(s.targets[i]) \in TargetNames(s)
  BY <1>1, <1>3 DEF TargetNames
<1>11. \A r \in 1..(n - 1) : At(work, r).op \notin {"visit", "bind", "store"}
  <2>1. \A r \in 1..n : At(work, r).op \in {"visit", "bind", "store"} => r = n
    BY <1>1, NothingLeft
  <2>. QED BY <2>1, <1>5
<1>. HIDE DEF s, u, v, n, m, a, b, c, symbol, w, k
<1>12. a \in Nat /\ b \in Nat /\ c \in Nat
  BY <1>1
<1>13. ASSUME NEW r \in 1..Len(w)
       PROVE  \/ r \in 1..(n - 1) /\ At(w, r).op \notin {"visit", "bind", "store"}
              \/ r \in n..(n + b - 1) /\ At(w, r) = BindStep(s.targets[n + b - r], symbol)
              \/ r \in (n + b)..(n + b + c - 1) /\ At(w, r).op = "visit" /\ At(w, r).node = s.value
              \/ r \in (n + b + c)..Len(w) /\ \E i \in 1..a : At(w, r) = Store(s.targets[i])
  <2>1. CASE r \in 1..(n - 1)
    BY <2>1, <1>5, <1>11
  <2>2. CASE r \in n..(n + b - 1)
    <3>1. n + b - r \in 1..b /\ n + b - (n + b - r) = r
      BY <2>2, <1>5
    <3>2. At(w, n + b - (n + b - r)) = BindStep(s.targets[n + b - r], symbol)
      BY <3>1, <1>5
    <3>. QED BY <2>2, <3>1, <3>2
  <2>3. CASE r \in (n + b)..(n + b + c - 1)
    BY <2>3, <1>5
  <2>4. CASE r \in (n + b + c)..Len(w)
    BY <2>4, <1>5
  <2>. QED BY <2>1, <2>2, <2>3, <2>4, <1>5, <1>12
<1>14. ASSUME NEW r \in 1..Len(w)
       PROVE  /\ At(w, r).op = "bind" => r \in n..(n + b - 1)
              /\ At(w, r).op = "visit" => r \in (n + b)..(n + b + c - 1) /\ At(w, r).node = s.value
              /\ At(w, r).op = "store" => \E i \in 1..a : At(w, r).target = s.targets[i]
  <2>1. CASE r \in 1..(n - 1) /\ At(w, r).op \notin {"visit", "bind", "store"}
    BY <2>1
  <2>2. CASE r \in n..(n + b - 1) /\ At(w, r) = BindStep(s.targets[n + b - r], symbol)
    <3>1. At(w, r).op = "bind"
      BY <2>2 DEF BindStep
    <3>. QED BY <2>2, <3>1
  <2>3. CASE r \in (n + b)..(n + b + c - 1) /\ At(w, r).op = "visit" /\ At(w, r).node = s.value
    BY <2>3
  <2>4. CASE r \in (n + b + c)..Len(w) /\ \E i \in 1..a : At(w, r) = Store(s.targets[i])
    <3>1. PICK i \in 1..a : At(w, r) = Store(s.targets[i])
      BY <2>4
    <3>2. At(w, r).op = "store" /\ At(w, r).target = s.targets[i]
      BY <3>1 DEF Store
    <3>. QED BY <3>2
  <2>. QED BY <2>1, <2>2, <2>3, <2>4, <1>13
<1>15. BindsLast(w)
  <2>. SUFFICES ASSUME NEW q \in 1..Len(w), NEW r \in 1..Len(w),
                       At(w, q).op = "bind", At(w, r).op = "visit"
                PROVE  q < r
    BY DEF BindsLast
  <2>1. q \in n..(n + b - 1) /\ r \in (n + b)..(n + b + c - 1)
    BY <1>14
  <2>. QED BY <2>1, <1>5, <1>12
<1>16. Rebinds(w, B)
  <2>. SUFFICES ASSUME NEW r \in 1..Len(w)
                PROVE  /\ At(w, r).op = "store" => NameOf(At(w, r).target) \in B \cup {NoName}
                       /\ At(w, r).op = "visit" => BlindNames(At(w, r).node) \subseteq B
    BY DEF Rebinds
  <2>1. ASSUME At(w, r).op = "store" PROVE NameOf(At(w, r).target) \in B \cup {NoName}
    <3>1. PICK i \in 1..a : At(w, r).target = s.targets[i]
      BY <2>1, <1>14
    <3>2. i \in 1..m
      BY <1>1
    <3>. QED BY <3>1, <3>2, <1>9, <1>10
  <2>2. ASSUME At(w, r).op = "visit" PROVE BlindNames(At(w, r).node) \subseteq B
    <3>1. At(w, r).node \in Expressions
      BY <2>2, <1>3, <1>14
    <3>. QED BY <3>1, Plain
  <2>. QED BY <2>1, <2>2
<1>17. Hides(tracker.scopes, u.scopes, B)
  <2>. SUFFICES ASSUME NEW x \in Names
                PROVE  \/ LookAt(u.scopes, Len(u.scopes), x)
                            = LookAt(tracker.scopes, Len(tracker.scopes), x)
                       \/ x \in B /\ LookAt(u.scopes, Len(u.scopes), x) = None
    BY DEF Hides
  <2>1. CASE Cleared(s, x)
    <3>1. x \in B
      BY <2>1, <1>9, TrackerAssumption DEF Cleared
    <3>. QED BY <3>1, <2>1, <1>1
  <2>2. CASE ~Cleared(s, x)
    BY <2>2, <1>1
  <2>. QED BY <2>1, <2>2
<1>18. Counting(w, u, B)
  <2>1. Unseen(work) \in SUBSET Unseen(work) /\ Unseen(work) \ Unseen(work) = {}
    OBVIOUS
  <2>. QED BY <2>1, <1>1, <1>2, <1>4, <1>6, <1>7, <1>17, CountingKept DEF k
<1>19. \A r \in 1..Len(w) : ~Assigns(At(w, r), u.scopes)
  <2>. SUFFICES ASSUME NEW r \in 1..Len(w), At(w, r).op = "visit"
                PROVE  ~Assigns(At(w, r), u.scopes)
    BY DEF Assigns
  <2>1. At(w, r).node \in Expressions
    BY <1>3, <1>14
  <2>. QED BY <2>1, Plain
<1>20. Promised(w, u)
  <2>. SUFFICES ASSUME NEW r \in 1..Len(w), r \in BindsFrom(w, 1)
                PROVE  meant[Len(u.stored) + Cardinality(BindsFrom(w, r))]
                         \in Fresh(NameOf(At(w, r).target), At(w, r).symbol)
    BY <1>19 DEF Promised
  <2>. DEFINE j == n + b - r
  <2>1. At(w, r).op = "bind" /\ Bindable(At(w, r).target)
    BY DEF BindsFrom
  <2>2. r \in n..(n + b - 1)
    BY <2>1, <1>14
  <2>3. j \in 1..b /\ n + b - j = r
    BY <2>2, <1>5
  <2>. HIDE DEF j
  <2>4. b = m /\ symbol # NoName /\ j \in 1..m
    BY <2>3, <1>1
  <2>5. At(w, r) = BindStep(s.targets[j], symbol)
    BY <2>3, <1>5
  <2>6. At(w, r).target = s.targets[j] /\ At(w, r).symbol = symbol
    BY <2>5 DEF BindStep
  <2>7. j \in Keeping(s) /\ NameOf(s.targets[j]) = s.targets[j].name
    <3>1. j \in DOMAIN s.targets /\ Bindable(s.targets[j])
      BY <2>1, <2>4, <2>6, <1>3
    <3>. QED BY <3>1 DEF Keeping, Bindable, NameOf
  <2>8. Cardinality(BindsFrom(w, r)) = Rank(s, j)
    <3>1. BindsAt(w, n, m, s)
      <4>1. n + m - 1 <= Len(w) /\ Len(w) \in Nat
        BY <2>4, <1>5, <1>12
      <4>2. ASSUME NEW i \in 1..m PROVE At(w, n + m - i).op = "bind" /\ At(w, n + m - i).target = s.targets[i]
        <5>1. At(w, n + m - i) = BindStep(s.targets[i], symbol)
          BY <2>4, <1>5
        <5>. QED BY <5>1 DEF BindStep
      <4>3. ASSUME NEW q \in (n + m)..Len(w) PROVE At(w, q).op # "bind"
        <5>1. q \in 1..Len(w) /\ q \notin n..(n + b - 1)
          BY <2>4, <1>5, <1>12
        <5>. QED BY <5>1, <1>14
      <4>. QED BY <4>1, <4>2, <4>3, <1>3 DEF BindsAt
    <3>2. RanksAt(w, n, m, s)
      BY <3>1, <1>1, <1>5, CountBinds
    <3>3. j \in 0..m /\ n + m - j = r
      BY <2>3, <2>4
    <3>. QED BY <3>2, <3>3 DEF RanksAt
  <2>9. Assigns(Top, tracker.scopes)
    BY <2>4, <1>1 DEF Assigns, s
  <2>10. meant[Len(tracker.stored) + Rank(s, j)] \in Fresh(s.targets[j].name, symbol)
    <3>1. Promised(work, tracker) /\ n \in 1..Len(work)
      BY <1>8 DEF Evident, n
    <3>2. \A i \in Keeping(Top.node) :
            meant[Len(tracker.stored) + Rank(Top.node, i)]
              \in Fresh(Top.node.targets[i].name, SymbolOf(tracker.scopes, Top.node))
      BY <3>1, <2>9, <1>8 DEF Promised
    <3>. QED BY <3>2, <2>7, <1>1 DEF s
  <2>. QED BY <2>6, <2>7, <2>8, <2>10, <1>1
<1>21. CachedBy(Top, tracker.scopes)
         = IF symbol = NoName THEN {}
           ELSE {Cached(symbol) : i \in {j \in 1..m : IsCache(s.targets[j])}}
  <2>1. Assigns(Top, tracker.scopes) <=> symbol # NoName
    BY <1>1 DEF Assigns, s
  <2>. QED BY <2>1, <1>1, <1>3 DEF CachedBy, s
<1>22. ASSUME NEW r \in 1..Len(w), NEW p \in CachedBy(At(w, r), u.scopes)
       PROVE  p \in Reported
  <2>1. At(w, r).op = "bind"
    BY <1>19, <1>22 DEF CachedBy
  <2>2. r \in n..(n + b - 1)
    BY <2>1, <1>14
  <2>. DEFINE j == n + b - r
  <2>3. j \in 1..b /\ n + b - j = r
    BY <2>2, <1>5
  <2>. HIDE DEF j
  <2>4. b = m /\ symbol # NoName /\ j \in 1..m
    BY <2>3, <1>1
  <2>5. At(w, r) = BindStep(s.targets[j], symbol)
    BY <2>3, <1>5
  <2>6. At(w, r).target = s.targets[j] /\ At(w, r).symbol = symbol
    BY <2>5 DEF BindStep
  <2>7. p = Cached(symbol) /\ IsCache(s.targets[j])
    BY <2>1, <2>6, <1>22 DEF CachedBy
  <2>8. p \in CachedBy(Top, tracker.scopes)
    BY <2>4, <2>7, <1>21
  <2>. QED BY <2>8, <1>7, <1>8 DEF Telling, n
<1>23. ASSUME NEW r \in 1..Len(work), NEW p \in CachedBy(At(work, r), tracker.scopes)
       PROVE  \E q \in 1..Len(w) : p \in CachedBy(At(w, q), u.scopes)
  <2>1. r = n
    <3>1. At(work, r).op \in {"bind", "visit"}
      BY <1>23 DEF CachedBy, Assigns
    <3>2. r \in 1..n
      BY DEF n
    <3>. QED BY <3>1, <3>2, <1>5, <1>11
  <2>2. p \in CachedBy(Top, tracker.scopes)
    BY <2>1, <1>8, <1>23
  <2>3. PICK j \in 1..m : p = Cached(symbol) /\ IsCache(s.targets[j])
    BY <2>2, <1>21
  <2>4. b = m
    BY <2>2, <1>1, <1>21
  <2>. DEFINE q == n + b - j
  <2>5. q \in 1..Len(w)
    BY <2>4, <1>5, <1>12
  <2>6. At(w, q) = BindStep(s.targets[j], symbol)
    BY <2>4, <1>5
  <2>. HIDE DEF q
  <2>7. At(w, q).op = "bind" /\ At(w, q).target = s.targets[j] /\ At(w, q).symbol = symbol
    BY <2>6 DEF BindStep
  <2>8. p \in CachedBy(At(w, q), u.scopes)
    BY <2>3, <2>7 DEF CachedBy
  <2>. QED BY <2>5, <2>8
<1>24. Telling(w, u, B)
  <2>1. Unseen(work) \in SUBSET Unseen(work) /\ Unseen(work) \ Unseen(work) = {}
        /\ tracker.patterns \subseteq u.patterns /\ u.patterns \subseteq Reported
    BY <1>1, <1>7 DEF Telling
  <2>2. \A r \in 1..Len(w) : CachedBy(At(w, r), u.scopes) \subseteq Reported
    BY <1>22
  <2>3. \A r \in 1..Len(work) : \A p \in CachedBy(At(work, r), tracker.scopes) :
          p \in u.patterns \/ \E q \in 1..Len(w) : p \in CachedBy(At(w, q), u.scopes)
    BY <1>23
  <2>. QED BY <2>1, <2>2, <2>3, <1>1, <1>2, <1>4, <1>7, <1>17, TellingKept
<1>25. work' # <<>>
  <2>1. n >= 2
    BY <1>1, BodyBelow DEF n
  <2>2. Len(w) # 0
    BY <2>1, <1>5, <1>12
  <2>. QED BY <2>2, <1>1
<1>26. BindsLast(work') /\ Promised(work', tracker') /\ Rebinds(work', B)
       /\ Counting(work', tracker', B) /\ Telling(work', tracker', B)
  BY <1>1, <1>15, <1>16, <1>18, <1>20, <1>24
<1>. QED BY <1>1, <1>25, <1>26, EvidentBy

-----------------------------------------------------------------------------
(* A statement is written: what it adds to the history is what the walk has  *)
(* still to see of it.                                                       *)

\* The names mean the same to the statements and to the tracker.
Agreed == \A name \in Names : Env[name] = LookAt(tracker.scopes, Len(tracker.scopes), name)

(* Where a body goes on, nothing is left to see, and all is counted.         *)
LEMMA BodyGoesOn ==
  ASSUME IInv, Evident, TopIs("open")
  PROVE  /\ Agreed /\ Quiet(work) /\ ~done /\ work # <<>>
         /\ Len(tracker.stored) = Len(meant)
         /\ Counted(tracker) /\ tracker.patterns \subseteq Reported
         /\ certain \subseteq tracker.patterns
<1>1. work # <<>> /\ Top.op = "open"
  BY DEF TopIs
<1>2. Agreed
  <2>1. Depth \in Nat \ {0} /\ Levels(envs, tracker.scopes, Depth) /\ Len(tracker.scopes) = Depth
    BY BodyOpen DEF IInv, Types, Depth
  <2>2. Depth \in 1..Depth
    BY <2>1
  <2>. QED BY <2>1, <2>2 DEF Levels, Level, Depth, Env, Agreed
<1>3. Quiet(work)
  <2>1. \A r \in 1..Len(work) : At(work, r).op \in {"visit", "bind", "store"} => r = Len(work)
    BY <1>1, NothingLeft
  <2>2. At(work, Len(work)) = Top
    BY <1>1, TopOf DEF IInv
  <2>. QED BY <1>1, <2>1, <2>2 DEF Quiet
<1>4. ~done
  BY <1>1 DEF Evident
<1>5. PICK B \in SUBSET (Names \cup {NoName}) :
        Counting(work, tracker, B) /\ Telling(work, tracker, B)
  BY <1>4 DEF Evident
<1>6. Counted(tracker)
  <2>1. Unseen(work) = {} /\ tracker.stored \in Seq(Kept)
    BY <1>3, QuietStack, StoredMeant
  <2>. QED BY <1>5, <2>1, NoneUnseen
<1>7. tracker.patterns \subseteq Reported /\ certain \subseteq tracker.patterns
  BY <1>3, <1>5, QuietTold
<1>8. Len(tracker.stored) = Len(meant)
  BY BodyOpen
<1>. QED BY <1>1, <1>2, <1>3, <1>4, <1>6, <1>7, <1>8

(* A name stands in a blind place of a statement, or not.                    *)
LEMMA BlindIs ==
  ASSUME NEW s \in Statements
  PROVE  /\ BlindNames(s) \in SUBSET (Names \cup {NoName})
         /\ \A c \in Names \cup {NoName} : Blind(s, c) <=> c \in BlindNames(s)
<1>1. TargetNames(s) \subseteq Names \cup {NoName}
  <2>1. CASE s.type = "assign"
    <3>1. /\ DOMAIN s.targets = 1..Len(s.targets)
          /\ \A i \in 1..Len(s.targets) : NameOf(s.targets[i]) \in Names \cup {NoName}
      BY <2>1, Targets DEF AssignsTo
    <3>2. TargetNames(s) = {NameOf(s.targets[i]) : i \in DOMAIN s.targets}
      BY <2>1 DEF TargetNames
    <3>. QED BY <3>1, <3>2
  <2>2. CASE s.type \in {"function", "class"}
    <3>1. TargetNames(s) = {s.name} \ Factories
      BY <2>2 DEF TargetNames
    <3>. QED BY <2>2, <3>1, StatementKinds
  <2>3. CASE s.type = "call"
    BY <2>3 DEF TargetNames
  <2>. QED BY <2>1, <2>2, <2>3, StatementKinds
<1>. QED BY <1>1 DEF Blind, BlindNames

(* A call is taken to invoke a factory by the tracker.                       *)
LEMMA BelievedFactory ==
  ASSUME Tracker(tracker), Agreed, NEW c \in Names \cup {NoName}
  PROVE  /\ c \in Believed => Factory(tracker.scopes, c) = LastName[c]
         /\ c \in Believed <=> Factory(tracker.scopes, c) # NoName
<1>1. Factory(tracker.scopes, c)
        = IF c = NoName THEN NoName
          ELSE IF /\ LastName[c] \in Factories
                  /\ c = LastName[c] => LookAt(tracker.scopes, Len(tracker.scopes), c) # None
          THEN LastName[c] ELSE NoName
  BY FactoryIs
<1>2. c # NoName => Env[c] = LookAt(tracker.scopes, Len(tracker.scopes), c)
  BY DEF Agreed
<1>3. /\ c \in Believed <=> /\ c # NoName /\ LastName[c] \in Factories
                            /\ c = LastName[c] => Env[c] # None
      /\ c \in Believed => LastName[c] # NoName
  BY BelievedIs
<1>. QED BY <1>1, <1>2, <1>3

(* The evidence in a call, with that of names that hold another value, is    *)
(* what the tracker adds when it sees the call.                              *)
LEMMA EvidenceIs ==
  ASSUME Tracker(tracker), Agreed, NEW m \in MadeCalls
  PROVE  EvidenceOf(m, Invoked) \cup EvidenceOf(m, Mistaken) = Told(tracker.scopes, m)
<1>. DEFINE F(c) == Factory(tracker.scopes, c)
            k == ArgumentKind(m.callee)
            I(N) == {Pattern("callsite_immediate", LastName[name], NoName) :
                       name \in {m.immediate} \cap N}
            A(N) == {Pattern(k, LastName[name], NoName) :
                       name \in {n \in m.arguments \cap N : k # "none"}}
<1>1. /\ m.immediate \in Names \cup {NoName}
      /\ \A c \in m.arguments : c \in Names \cup {NoName}
  BY DEF MadeCalls
<1>2. \A c \in {m.immediate} \cup m.arguments :
        (c \in Believed => F(c) = LastName[c]) /\ (c \in Believed <=> F(c) # NoName)
  BY <1>1, BelievedFactory
<1>3. EvidenceOf(m, Invoked) \cup EvidenceOf(m, Mistaken) = I(Believed) \cup A(Believed)
  BY DEF EvidenceOf, Believed
<1>4. I(Believed) = Immediate(tracker.scopes, m)
  <2>1. CASE m.immediate \notin Believed
    <3>1. I(Believed) = {} /\ F(m.immediate) = NoName
      BY <1>2, <2>1
    <3>. QED BY <3>1 DEF Immediate
  <2>2. CASE m.immediate \in Believed
    <3>1. I(Believed) = {Pattern("callsite_immediate", F(m.immediate), NoName)}
      BY <1>2, <2>2
    <3>2. Immediate(tracker.scopes, m) = {Pattern("callsite_immediate", F(m.immediate), NoName)}
      BY <1>2, <2>2 DEF Immediate
    <3>. QED BY <3>1, <3>2
  <2>. QED BY <2>1, <2>2
<1>5. A(Believed) = Arguments(tracker.scopes, m.callee, m.arguments)
  <2>1. CASE k = "none"
    <3>1. A(Believed) = {}
      BY <2>1
    <3>. QED BY <2>1, <3>1 DEF Arguments
  <2>2. CASE k # "none"
    <3>1. {n \in m.arguments \cap Believed : k # "none"} = {n \in m.arguments : F(n) # NoName}
      BY <1>2, <2>2
    <3>2. A(Believed) = {Pattern(k, F(name), NoName) : name \in {n \in m.arguments : F(n) # NoName}}
      <4>. HIDE DEF k, F
      <4>. QED BY <1>2, <3>1
    <3>3. Arguments(tracker.scopes, m.callee, m.arguments)
            = {Pattern(k, F(c), NoName) : c \in {d \in m.arguments : F(d) # NoName}}
      BY <2>2 DEF Arguments
    <3>. QED BY <3>2, <3>3
  <2>. QED BY <2>1, <2>2
<1>. HIDE DEF I, A
<1>. QED BY <1>3, <1>4, <1>5 DEF Told

(* So is the evidence of the targets of an assignment.                       *)
LEMMA CachedIs ==
  ASSUME NEW s \in Statements
  PROVE  CachedTargets(s, Invoked) \cup CachedTargets(s, Mistaken)
           = IF /\ ResultOf(s) # NoName
                /\ \E i \in DOMAIN s.targets : IsCache(s.targets[i])
             THEN {Cached(ResultOf(s))} ELSE {}
<1>. DEFINE cache == \E i \in DOMAIN s.targets : IsCache(s.targets[i])
            c == s.value.callee
            T(N) == {Pattern("callsite_cached", LastName[name], NoName) :
                       name \in {n \in N : IsResultOf(s, {n}) /\ cache}}
<1>1. CachedTargets(s, Invoked) \cup CachedTargets(s, Mistaken) = T(Believed)
  BY DEF CachedTargets, Believed
<1>2. CASE s.type = "assign" /\ s.value.type = "call"
  <2>1. c \in Names \cup {NoName}
    <3>1. s.value \in Calls
      BY <1>2, StatementKinds DEF Expressions, Places
    <3>. QED BY <3>1, CallsAssumption
  <2>2. \A n : IsResultOf(s, {n}) <=> n = c
    BY <1>2 DEF IsResultOf
  <2>3. T(Believed) = IF c \in Believed /\ cache THEN {Cached(LastName[c])} ELSE {}
    <3>. HIDE DEF c, cache
    <3>. QED BY <2>2 DEF Cached
  <2>4. ResultOf(s) = IF c \in Believed THEN LastName[c] ELSE NoName
    BY <1>2 DEF ResultOf, IsResultOf, Believed
  <2>5. c \in Believed => LastName[c] # NoName
    BY <2>1, BelievedIs
  <2>. HIDE DEF c, cache, T
  <2>. QED BY <1>1, <2>3, <2>4, <2>5 DEF cache
<1>3. CASE ~(s.type = "assign" /\ s.value.type = "call")
  <2>1. \A N : ~IsResultOf(s, N)
    BY <1>3 DEF IsResultOf
  <2>2. ResultOf(s) = NoName
    BY <2>1 DEF ResultOf
  <2>3. T(Believed) = {}
    BY <2>1
  <2>. QED BY <1>1, <2>2, <2>3
<1>. QED BY <1>2, <1>3

(* Each target that keeps a result has a rank of its own, and each rank one. *)
LEMMA Ranked ==
  ASSUME NEW s \in Statements, s.type = "assign"
  PROVE  /\ \A i \in Keeping(s) : Rank(s, i) \in 1..Cardinality(Keeping(s))
         /\ \A i, k \in Keeping(s) : Rank(s, i) = Rank(s, k) => i = k
         /\ \A r \in 1..Cardinality(Keeping(s)) : \E i \in Keeping(s) : Rank(s, i) = r
<1>. DEFINE K == Keeping(s)
            n == Cardinality(K)
            R(i) == Rank(s, i)
            Upto(i) == {k \in K : k <= i}
<1>1. /\ IsFiniteSet(K) /\ n \in Nat /\ \A i : R(i) \in Nat
  BY ResultsCounted
<1>2. \A i \in K : i \in Int
  <2>1. DOMAIN s.targets = 1..Len(s.targets) /\ Len(s.targets) \in Nat
    BY Targets DEF AssignsTo
  <2>. QED BY <2>1 DEF Keeping
<1>3. \A i : R(i) = Cardinality(Upto(i))
  BY DEF Rank
<1>4. ASSUME NEW i \in K, NEW k \in K, i < k PROVE R(i) # R(k)
  <2>1. Upto(k) \in SUBSET K /\ Upto(i) \in SUBSET Upto(k)
    BY <1>2, <1>4
  <2>2. IsFiniteSet(Upto(k))
    BY <1>1, <2>1, FS_Subset
  <2>3. Upto(i) # Upto(k)
    BY <1>2, <1>4
  <2>. HIDE DEF Upto
  <2>4. Cardinality(Upto(k)) # Cardinality(Upto(i))
    BY <2>1, <2>2, <2>3, FS_Subset
  <2>. QED BY <1>3, <2>4
<1>5. ASSUME NEW i \in K, NEW k \in K, R(i) = R(k) PROVE i = k
  <2>. HIDE DEF K, R
  <2>. QED BY <1>2, <1>4, <1>5
<1>6. ASSUME NEW i \in K PROVE R(i) \in 1..n
  <2>1. Upto(i) \in SUBSET K /\ i \in Upto(i)
    BY <1>2
  <2>2. IsFiniteSet(Upto(i)) /\ Cardinality(Upto(i)) <= n
    BY <1>1, <2>1, FS_Subset
  <2>3. Cardinality(Upto(i)) # 0
    <3>1. Upto(i) # {}
      BY <2>1
    <3>. HIDE DEF Upto
    <3>. QED BY <2>2, <3>1, FS_EmptySet
  <2>. QED BY <1>1, <1>3, <2>2, <2>3
<1>7. ASSUME NEW r \in 1..n PROVE \E i \in K : R(i) = r
  <2>. DEFINE f == [i \in K |-> R(i)]
  <2>. HIDE DEF K, R, n
  <2>1. f \in [K -> 1..n] /\ \A i, k \in K : f[i] = f[k] => i = k
    BY <1>5, <1>6
  <2>2. f \in Injection(K, 1..n)
    BY <2>1 DEF Injection, IsInjective
  <2>3. IsFiniteSet(1..n) /\ Cardinality(1..n) = n
    <3>1. 1 \in Int /\ n \in Int
      BY <1>1
    <3>. QED BY <1>1, <3>1, FS_Interval
  <2>4. Cardinality(K) = Cardinality(1..n)
    BY <2>3 DEF n
  <2>5. f \in Surjection(K, 1..n)
    BY <2>2, <2>3, <2>4, FS_Injection
  <2>6. \E i \in K : f[i] = r
    BY <2>5 DEF Surjection
  <2>. QED BY <2>6
<1>. QED BY <1>5, <1>6, <1>7

(* The records that a statement keeps, by the rank of their targets.         *)
LEMMA ResultsAre ==
  ASSUME NEW s \in Statements, ResultOf(s) # NoName
  PROVE  /\ \A i \in Keeping(s) :
              Results(s)[Rank(s, i)] \in Fresh(s.targets[i].name, ResultOf(s))
         /\ \A r \in 1..Cardinality(Keeping(s)) :
              \E i \in Keeping(s) : Results(s)[r] \in Fresh(s.targets[i].name, ResultOf(s))
<1>1. s.type = "assign"
  BY ResultsCounted
<1>. DEFINE n == Cardinality(Keeping(s))
            C(r) == CHOOSE k \in Keeping(s) : Rank(s, k) = r
            G(r) == [target |-> s.targets[C(r)].name, symbol |-> ResultOf(s),
                     real |-> IsResultOf(s, Invoked), calls |-> 0, blind |-> 0]
<1>2. Results(s) = [r \in 1..n |-> G(r)]
  BY DEF Results
<1>5. \A r : G(r) \in Fresh(s.targets[C(r)].name, ResultOf(s))
  BY DEF Fresh, IsResultOf
<1>3. ASSUME NEW i \in Keeping(s)
      PROVE  Results(s)[Rank(s, i)] \in Fresh(s.targets[i].name, ResultOf(s))
  <2>1. Rank(s, i) \in 1..n
    BY <1>1, Ranked
  <2>2. C(Rank(s, i)) = i
    BY <1>1, Ranked
  <2>. HIDE DEF n, C, G
  <2>. QED BY <1>2, <1>5, <2>1, <2>2
<1>4. ASSUME NEW r \in 1..n
      PROVE  \E i \in Keeping(s) : Results(s)[r] \in Fresh(s.targets[i].name, ResultOf(s))
  <2>1. PICK i \in Keeping(s) : Rank(s, i) = r
    BY <1>1, Ranked
  <2>. QED BY <1>3, <2>1
<1>. QED BY <1>3, <1>4

(* The elements of lists put together.                                       *)
LEMMA TogetherAt ==
  ASSUME NEW m \in Nat, NEW n \in Nat, NEW F, NEW G,
         F = [i \in 1..m |-> F[i]], G = [i \in 1..n |-> G[i]]
  PROVE  /\ \A i \in 1..m : (F \o G)[i] = F[i]
         /\ \A r \in 1..n : (F \o G)[m + r] = G[r]
<1>. DEFINE S == {F[i] : i \in 1..m} \cup {G[i] : i \in 1..n}
<1>1. F \in [1..m -> S] /\ G \in [1..n -> S]
  <2>1. \A i \in 1..m : F[i] \in S
    OBVIOUS
  <2>2. \A i \in 1..n : G[i] \in S
    OBVIOUS
  <2>3. [i \in 1..m |-> F[i]] \in [1..m -> S]
    <3>. HIDE DEF S
    <3>. QED BY <2>1
  <2>4. [i \in 1..n |-> G[i]] \in [1..n -> S]
    <3>. HIDE DEF S
    <3>. QED BY <2>2
  <2>. HIDE DEF S
  <2>. QED BY <2>3, <2>4
<1>. HIDE DEF S
<1>2. F \in Seq(S) /\ G \in Seq(S) /\ Len(F) = m /\ Len(G) = n
  BY <1>1
<1>. QED BY <1>2

(* What is meant after a statement: the records there were, with the calls   *)
(* in the statement, and one for each target that keeps its result.          *)
LEMMA MeantAfter ==
  ASSUME IInv, NEW s \in Statements, Write(s)
  PROVE  /\ \A i \in DOMAIN meant :
              meant'[i] = [meant[i] EXCEPT !.calls = @ + Cardinality(CallsOf(s, i)),
                                           !.blind = @ + Cardinality(BlindCallsOf(s, i))]
         /\ ResultOf(s) # NoName =>
              \A r \in 1..Cardinality(Keeping(s)) : meant'[Len(meant) + r] = Results(s)[r]
         /\ DOMAIN meant' = 1..Len(meant')
         /\ Len(meant') = Len(meant) + IF ResultOf(s) = NoName THEN 0 ELSE Cardinality(Keeping(s))
         /\ \A i \in DOMAIN meant' :
              \/ i \in DOMAIN meant
              \/ /\ ResultOf(s) # NoName
                 /\ \E r \in 1..Cardinality(Keeping(s)) : i = Len(meant) + r
<1>. DEFINE k == IF ResultOf(s) = NoName THEN 0 ELSE Cardinality(Keeping(s))
            m == Len(meant)
            F == Evaluated(s)
            G == Results(s)
<1>1. k \in Nat /\ G = [i \in 1..k |-> G[i]]
  BY ResultsCounted
<1>2. m \in Nat /\ DOMAIN meant = 1..m
  BY DEF IInv, Types
<1>3. F = [i \in 1..m |-> F[i]]
  BY <1>2, Zenon DEF Evaluated
<1>4. meant' = F \o G
  BY DEF Write
<1>5. \A i \in 1..m : F[i] = [meant[i] EXCEPT !.calls = @ + Cardinality(CallsOf(s, i)),
                                              !.blind = @ + Cardinality(BlindCallsOf(s, i))]
  BY <1>2, Zenon DEF Evaluated
<1>6. DOMAIN meant' = 1..Len(meant') /\ Len(meant') = m + k
  <2>1. Types' /\ Len(meant') = m + k
    BY WriteTypes
  <2>. QED BY <2>1 DEF Types
<1>7. ResultOf(s) # NoName => k = Cardinality(Keeping(s))
  OBVIOUS
<1>8. ResultOf(s) = NoName => k = 0
  OBVIOUS
<1>9. k = IF ResultOf(s) = NoName THEN 0 ELSE Cardinality(Keeping(s))
  OBVIOUS
<1>. HIDE DEF k, m, F, G
<1>10. /\ \A i \in 1..m : meant'[i] = F[i]
       /\ \A r \in 1..k : meant'[m + r] = G[r]
  BY <1>1, <1>2, <1>3, <1>4, TogetherAt
<1>11. \A i \in 1..m :
         meant'[i] = [meant[i] EXCEPT !.calls = @ + Cardinality(CallsOf(s, i)),
                                      !.blind = @ + Cardinality(BlindCallsOf(s, i))]
  BY <1>5, <1>10
<1>12. ASSUME NEW i \in DOMAIN meant', i \notin DOMAIN meant
       PROVE  ResultOf(s) # NoName /\ \E r \in 1..Cardinality(Keeping(s)) : i = m + r
  <2>1. i - m \in 1..k /\ i = m + (i - m)
    BY <1>1, <1>2, <1>6, <1>12
  <2>2. k # 0
    BY <2>1, <1>1
  <2>. QED BY <2>1, <2>2, <1>7, <1>8
<1>. QED BY <1>2, <1>6, <1>7, <1>9, <1>10, <1>11, <1>12 DEF m, G

\* The stack v has one step to see, the n-th, and it is the visit of s.
OneVisit(v, n, s) ==
  /\ v \in Seq(Steps) /\ Len(v) = n /\ n \in Nat \ {0} /\ v # <<>>
  /\ At(v, n).op = "visit" /\ At(v, n).node = s
  /\ \A r \in 1..n : r # n => At(v, r).op \notin {"visit", "bind", "store"}
  /\ s.made \in Seq(MadeCalls)
  /\ \A u : u \in Unseen(v) <=> \E j \in DOMAIN s.made : u = <<n, j>>
  /\ \A j : MadeAt(v, <<n, j>>) = s.made[j]

(* A statement on a quiet stack: its calls are what is left to see.          *)
LEMMA VisitAdded ==
  ASSUME NEW w \in Seq(Steps), Quiet(w), NEW s \in Statements
  PROVE  OneVisit(<<Visit(s)>> \o w, Len(w) + 1, s)
<1>. DEFINE v == <<Visit(s)>> \o w
            n == Len(w) + 1
<1>1. /\ Visit(s) \in Steps /\ <<Visit(s)>> \in Seq(Steps) /\ Len(<<Visit(s)>>) = 1
      /\ Visit(s).op = "visit" /\ Visit(s).node = s
  BY DEF Visit, Steps, VisitSteps
<1>2. /\ v \in Seq(Steps) /\ Len(v) = 1 + Len(w) /\ Len(w) \in Nat
      /\ \A r \in 1..Len(w) : At(v, r) = At(w, r)
      /\ \A r \in (Len(w) + 1)..(1 + Len(w)) :
           /\ 1 + Len(w) + 1 - r \in 1..1
           /\ At(v, r) = <<Visit(s)>>[1 + Len(w) + 1 - r]
  BY <1>1, Push
<1>3. Len(v) = n /\ n \in Nat \ {0} /\ v # <<>>
  BY <1>2
<1>4. At(v, n) = Visit(s)
  <2>1. n \in (Len(w) + 1)..(1 + Len(w)) /\ 1 + Len(w) + 1 - n = 1
    BY <1>2
  <2>. QED BY <1>2, <2>1
<1>5. \A r \in 1..n : r # n => At(v, r).op \notin {"visit", "bind", "store"}
  <2>1. \A r \in 1..n : r # n => r \in 1..Len(w)
    BY <1>2
  <2>. QED BY <1>2, <2>1 DEF Quiet
<1>6. s.made \in Seq(MadeCalls)
  BY NodesList
<1>7. \A r : r \in Visited(v) <=> r = n
  BY <1>1, <1>3, <1>4, <1>5 DEF Visited
<1>8. \A u : u \in Unseen(v) <=> \E j \in DOMAIN s.made : u = <<n, j>>
  BY <1>1, <1>4, <1>7, UnseenIs
<1>9. \A j : MadeAt(v, <<n, j>>) = s.made[j]
  BY <1>1, <1>4 DEF MadeAt
<1>. HIDE DEF v, n
<1>10. OneVisit(v, n, s)
  BY <1>1, <1>2, <1>3, <1>4, <1>5, <1>6, <1>8, <1>9 DEF OneVisit
<1>. QED BY <1>10 DEF v, n

\* The calls of a statement to the names of X.
CallsAmong(s, X) == {j \in DOMAIN s.made : s.made[j].callee \in X}

(* They are counted on the stack as they are in the statement.               *)
LEMMA OneVisitCounts ==
  ASSUME NEW v, NEW n, NEW s, OneVisit(v, n, s), NEW X
  PROVE  /\ IsFiniteSet(CallsAmong(s, X)) /\ Cardinality(CallsAmong(s, X)) \in Nat
         /\ Cardinality(CallsTo(v, X)) = Cardinality(CallsAmong(s, X))
<1>. DEFINE A == CallsAmong(s, X)
            f == [j \in A |-> <<n, j>>]
<1>1. /\ s.made \in Seq(MadeCalls)
      /\ \A u : u \in Unseen(v) <=> \E j \in DOMAIN s.made : u = <<n, j>>
      /\ \A j : MadeAt(v, <<n, j>>) = s.made[j]
  BY DEF OneVisit
<1>2. IsFiniteSet(A) /\ Cardinality(A) \in Nat
  <2>1. A \in SUBSET (1..Len(s.made)) /\ 1 \in Int /\ Len(s.made) \in Int
    BY <1>1 DEF CallsAmong
  <2>2. IsFiniteSet(1..Len(s.made))
    BY <2>1, FS_Interval
  <2>. HIDE DEF A
  <2>. QED BY <2>1, <2>2, FS_Subset, FS_CardinalityType
<1>3. f \in Bijection(A, CallsTo(v, X))
  <2>1. f \in [A -> CallsTo(v, X)]
    <3>1. ASSUME NEW j \in A PROVE <<n, j>> \in CallsTo(v, X)
      <4>1. j \in DOMAIN s.made /\ s.made[j].callee \in X
        BY DEF CallsAmong
      <4>2. <<n, j>> \in Unseen(v) /\ MadeAt(v, <<n, j>>) = s.made[j]
        BY <4>1, <1>1
      <4>. QED BY <4>1, <4>2 DEF CallsTo
    <3>. HIDE DEF A
    <3>. QED BY <3>1
  <2>2. \A x, y \in A : f[x] = f[y] => x = y
    OBVIOUS
  <2>3. ASSUME NEW u \in CallsTo(v, X) PROVE \E j \in A : f[j] = u
    <3>1. u \in Unseen(v) /\ MadeAt(v, u).callee \in X
      BY DEF CallsTo
    <3>2. PICK j \in DOMAIN s.made : u = <<n, j>>
      BY <1>1, <3>1
    <3>3. j \in A
      BY <1>1, <3>1, <3>2 DEF CallsAmong
    <3>. HIDE DEF A
    <3>. QED BY <3>2, <3>3
  <2>. HIDE DEF f, A
  <2>. QED BY <2>1, <2>2, <2>3, IsBijection
<1>. HIDE DEF f, A
<1>4. ExistsBijection(A, CallsTo(v, X))
  BY <1>3 DEF ExistsBijection
<1>5. Cardinality(CallsTo(v, X)) = Cardinality(A)
  BY <1>2, <1>4, FS_Bijection
<1>. QED BY <1>2, <1>5 DEF A

(* The calls of a record that the author makes are those to its holders, and *)
(* those that the walk may miss the ones in a blind place.                   *)
LEMMA CallsMade ==
  ASSUME Agreed, NEW s \in Statements, NEW i
  PROVE  LET H == Holders(tracker.scopes, i)
         IN  /\ CallsOf(s, i) = CallsAmong(s, H)
             /\ CallsOf(s, i) \ BlindCallsOf(s, i) = CallsAmong(s, H \ BlindNames(s))
             /\ BlindCallsOf(s, i) \subseteq CallsOf(s, i)
<1>. DEFINE H == Holders(tracker.scopes, i)
            B == BlindNames(s)
<1>1. \A j \in DOMAIN s.made : s.made[j].callee \in Names \cup {NoName}
  <2>1. s.made \in Seq(MadeCalls)
    BY NodesList
  <2>2. \A j \in DOMAIN s.made : s.made[j] \in MadeCalls
    BY <2>1
  <2>. QED BY <2>2 DEF MadeCalls
<1>2. \A c \in Names \cup {NoName} : c \in H <=> c # NoName /\ Env[c] = i
  BY TrackerAssumption DEF Holders, Agreed
<1>3. \A c \in Names \cup {NoName} : Blind(s, c) <=> c \in B
  BY BlindIs
<1>. HIDE DEF H, B
<1>4. CallsOf(s, i) = CallsAmong(s, H)
  BY <1>1, <1>2 DEF CallsOf, CallsAmong
<1>5. CallsOf(s, i) \ BlindCallsOf(s, i) = CallsAmong(s, H \ B)
  BY <1>1, <1>3, <1>4 DEF BlindCallsOf, CallsAmong
<1>6. BlindCallsOf(s, i) \subseteq CallsOf(s, i)
  BY DEF BlindCallsOf
<1>. QED BY <1>4, <1>5, <1>6 DEF H, B

(* The counts after a statement: what it adds to the calls is left to see.   *)
LEMMA WrittenCounts ==
  ASSUME IInv, Evident, NEW s \in Statements, Write(s), NEW n, OneVisit(work', n, s),
         NEW B, B = BlindNames(s)
  PROVE  Counting(work, tracker, B)'
<1>. DEFINE w == work'
<1>1. /\ Agreed /\ Len(tracker.stored) = Len(meant) /\ Counted(tracker)
      /\ tracker' = tracker /\ TopIs("open") /\ language' = language
  BY BodyGoesOn DEF Write
<1>2. /\ tracker.stored \in Seq(Kept) /\ DOMAIN meant = 1..Len(meant)
      /\ \A i \in DOMAIN meant : meant[i] \in Meaning
  BY StoredMeant DEF Evident
<1>3. ASSUME NEW i \in 1..Len(tracker.stored)
      PROVE  /\ tracker.stored[i].target = meant'[i].target
             /\ tracker.stored[i].symbol = meant'[i].symbol
             /\ tracker.stored[i].calls + Cardinality(CallsTo(w, Holders(tracker.scopes, i)))
                  <= meant'[i].calls
             /\ meant'[i].calls - meant'[i].blind
                  <= tracker.stored[i].calls
                       + Cardinality(CallsTo(w, Holders(tracker.scopes, i) \ B))
  <2>. DEFINE H == Holders(tracker.scopes, i)
              C == CallsOf(s, i)
              D == BlindCallsOf(s, i)
              p == Cardinality(CallsTo(w, H))
              q == Cardinality(CallsTo(w, H \ B))
              c == Cardinality(C)
              d == Cardinality(D)
              k == tracker.stored[i].calls
              x == meant[i].calls
              y == meant[i].blind
  <2>1. i \in DOMAIN meant /\ meant[i] \in Meaning /\ tracker.stored[i] \in Kept
    BY <1>1, <1>2
  <2>2. k \in Nat /\ x \in Nat /\ y \in Nat
    BY <2>1 DEF Meaning, Kept
  <2>3. meant'[i] = [meant[i] EXCEPT !.calls = @ + c, !.blind = @ + d]
    BY <2>1, MeantAfter
  <2>4. /\ meant'[i].target = meant[i].target /\ meant'[i].symbol = meant[i].symbol
        /\ meant'[i].calls = x + c /\ meant'[i].blind = y + d
    <3>. HIDE DEF c, d
    <3>. QED BY <2>1, <2>3 DEF Meaning
  <2>5. /\ tracker.stored[i].target = meant[i].target /\ tracker.stored[i].symbol = meant[i].symbol
        /\ k <= x /\ x - y <= k
    BY <1>1 DEF Counted
  <2>6. C = CallsAmong(s, H) /\ C \ D = CallsAmong(s, H \ B) /\ D \subseteq C
    BY <1>1, CallsMade
  <2>7. p = c /\ IsFiniteSet(C) /\ c \in Nat
    BY <2>6, OneVisitCounts
  <2>8. q = Cardinality(C \ D)
    <3>. HIDE DEF H, C, D, w
    <3>1. Cardinality(CallsTo(w, H \ B)) = Cardinality(CallsAmong(s, H \ B))
      BY OneVisitCounts DEF w
    <3>. QED BY <2>6, <3>1
  <2>9. Cardinality(C \ D) = c - d /\ d \in Nat
    <3>1. C \cap D = D /\ D \in SUBSET C
      BY <2>6
    <3>. HIDE DEF C, D
    <3>2. IsFiniteSet(C)
      BY <2>7
    <3>3. Cardinality(C \ D) = Cardinality(C) - Cardinality(C \cap D)
      BY <3>2, FS_Difference
    <3>4. Cardinality(D) \in Nat
      BY <3>1, <3>2, FS_Subset, FS_CardinalityType
    <3>. QED BY <3>1, <3>3, <3>4
  <2>. HIDE DEF p, q, c, d, k, x, y, C, D
  <2>10. k + p <= x + c /\ (x + c) - (y + d) <= k + q
    BY <2>2, <2>5, <2>7, <2>8, <2>9
  <2>. QED BY <2>4, <2>5, <2>10 DEF p, q, k, H
<1>. QED BY <1>1, <1>3 DEF Counting

(* The evidence after a statement: what it adds is left to tell.             *)
LEMMA WrittenTells ==
  ASSUME IInv, Evident, NEW s \in Statements, Write(s), NEW n, OneVisit(work', n, s),
         NEW B, B = BlindNames(s)
  PROVE  Telling(work, tracker, B)'
<1>. DEFINE w == work'
            scopes == tracker.scopes
<1>1. /\ Agreed /\ tracker' = tracker /\ language' = language /\ TopIs("open")
      /\ tracker.patterns \subseteq Reported /\ certain \subseteq tracker.patterns
      /\ Reported' = Reported \cup Evidence(s, Invoked) \cup Evidence(s, Mistaken)
                       \cup CachedTargets(s, Invoked) \cup CachedTargets(s, Mistaken)
      /\ certain' = certain \cup SeenEvidence(s, Invoked) \cup CachedTargets(s, Invoked)
  BY BodyGoesOn DEF Write, Reported
<1>2. Tracker(tracker)
  BY StoredMeant
<1>4. \A j \in DOMAIN s.made :
        /\ s.made[j] \in MadeCalls
        /\ EvidenceOf(s.made[j], Invoked) \cup EvidenceOf(s.made[j], Mistaken) = Told(scopes, s.made[j])
  <2>1. s.made \in Seq(MadeCalls)
    BY NodesList
  <2>2. \A j \in DOMAIN s.made : s.made[j] \in MadeCalls
    BY <2>1
  <2>. QED BY <1>1, <1>2, <2>2, EvidenceIs
<1>5. CachedBy(At(w, n), scopes) = CachedTargets(s, Invoked) \cup CachedTargets(s, Mistaken)
  <2>1. At(w, n).op = "visit" /\ At(w, n).node = s
    BY DEF OneVisit
  <2>2. CASE s.type = "assign"
    <3>1. ResultOf(s) = SymbolOf(scopes, s)
      BY <1>1, <2>2, SameResult
    <3>2. Assigns(At(w, n), scopes) <=> ResultOf(s) # NoName
      BY <2>1, <2>2, <3>1 DEF Assigns
    <3>. DEFINE I == {j \in DOMAIN s.targets : IsCache(s.targets[j])}
    <3>3. CachedBy(At(w, n), scopes)
            = IF ResultOf(s) # NoName THEN {Cached(ResultOf(s)) : i \in I} ELSE {}
      BY <2>1, <3>1, <3>2 DEF CachedBy
    <3>4. CachedTargets(s, Invoked) \cup CachedTargets(s, Mistaken)
            = IF ResultOf(s) # NoName /\ I # {} THEN {Cached(ResultOf(s))} ELSE {}
      BY CachedIs
    <3>5. {Cached(ResultOf(s)) : i \in I} = IF I # {} THEN {Cached(ResultOf(s))} ELSE {}
      <4>. HIDE DEF I
      <4>. QED OBVIOUS
    <3>. QED BY <3>3, <3>4, <3>5
  <2>3. CASE s.type # "assign"
    <3>1. ~Assigns(At(w, n), scopes)
      BY <2>1, <2>3 DEF Assigns
    <3>2. CachedBy(At(w, n), scopes) = {}
      BY <2>1, <3>1 DEF CachedBy
    <3>3. CachedTargets(s, Invoked) \cup CachedTargets(s, Mistaken) = {}
      BY <2>3, CachedIs, ResultsCounted
    <3>. QED BY <3>2, <3>3
  <2>. QED BY <2>2, <2>3
<1>6. /\ \A u : u \in Unseen(w) <=> \E j \in DOMAIN s.made : u = <<n, j>>
      /\ \A j : MadeAt(w, <<n, j>>) = s.made[j]
      /\ n \in 1..Len(w)
      /\ \A r \in 1..Len(w) : r # n => At(w, r).op \notin {"visit", "bind", "store"}
  BY DEF OneVisit
<1>7. tracker.patterns \subseteq Reported'
  BY <1>1
<1>8. ASSUME NEW u \in Unseen(w) PROVE Told(scopes, MadeAt(w, u)) \subseteq Reported'
  <2>1. PICK j \in DOMAIN s.made : u = <<n, j>>
    BY <1>6
  <2>2. MadeAt(w, u) = s.made[j]
    BY <1>6, <2>1
  <2>3. /\ EvidenceOf(s.made[j], Invoked) \subseteq Evidence(s, Invoked)
        /\ EvidenceOf(s.made[j], Mistaken) \subseteq Evidence(s, Mistaken)
    BY DEF Evidence
  <2>. QED BY <1>1, <1>4, <2>2, <2>3
<1>9. ASSUME NEW r \in 1..Len(w) PROVE CachedBy(At(w, r), scopes) \subseteq Reported'
  <2>1. CASE r = n
    BY <1>1, <1>5, <2>1
  <2>2. CASE r # n
    <3>1. CachedBy(At(w, r), scopes) = {}
      BY <1>6, <2>2 DEF CachedBy, Assigns
    <3>. QED BY <3>1
  <2>. QED BY <2>1, <2>2
<1>10. ASSUME NEW p \in certain'
       PROVE  \/ p \in tracker.patterns
              \/ \E u \in Unseen(w) : Seen(B, MadeAt(w, u)) /\ p \in Told(scopes, MadeAt(w, u))
              \/ \E r \in 1..Len(w) : p \in CachedBy(At(w, r), scopes)
  <2>1. CASE p \in certain
    BY <1>1, <2>1
  <2>2. CASE p \in CachedTargets(s, Invoked)
    BY <1>5, <1>6, <2>2
  <2>3. CASE p \in SeenEvidence(s, Invoked)
    <3>1. PICK j \in DOMAIN s.made :
            /\ \A name \in {s.made[j].immediate} \cup s.made[j].arguments : ~Blind(s, name)
            /\ p \in EvidenceOf(s.made[j], Invoked)
      BY <2>3 DEF SeenEvidence
    <3>2. \A name \in {s.made[j].immediate} \cup s.made[j].arguments : name \in Names \cup {NoName}
      BY <1>4 DEF MadeCalls
    <3>3. Seen(B, s.made[j])
      BY <3>1, <3>2, BlindIs DEF Seen
    <3>. DEFINE u == <<n, j>>
    <3>4. u \in Unseen(w) /\ MadeAt(w, u) = s.made[j]
      BY <1>6
    <3>. HIDE DEF u
    <3>. QED BY <1>4, <3>1, <3>3, <3>4
  <2>. QED BY <1>1, <2>1, <2>2, <2>3
<1>. HIDE DEF w, scopes
<1>. QED BY <1>1, <1>7, <1>8, <1>9, <1>10 DEF Telling, w, scopes

(* The records after a statement: those it adds are promised.                *)
LEMMA WrittenPromises ==
  ASSUME IInv, Evident, NEW s \in Statements, Write(s), NEW n, OneVisit(work', n, s)
  PROVE  /\ Promised(work, tracker)' /\ BindsLast(work')
         /\ \A i \in DOMAIN meant' : meant'[i] \in Meaning
<1>. DEFINE w == work'
            scopes == tracker.scopes
<1>1. /\ tracker' = tracker /\ TopIs("open")
      /\ Len(tracker.stored) = Len(meant) /\ Tracker(tracker)
      /\ \A i \in DOMAIN meant : meant[i] \in Meaning
  BY BodyGoesOn, StoredMeant DEF Write, Evident
<1>2. /\ n \in 1..Len(w) /\ At(w, n).op = "visit" /\ At(w, n).node = s /\ Len(w) \in Nat
      /\ \A r \in 1..Len(w) : r # n => At(w, r).op \notin {"visit", "bind", "store"}
  BY DEF OneVisit
<1>3. \A r \in 1..Len(w) : At(w, r).op # "bind"
  BY <1>2
<1>4. BindsLast(w)
  BY <1>3 DEF BindsLast
<1>5. BindsFrom(w, 1) = {}
  BY <1>3 DEF BindsFrom
<1>6. \A r \in 1..Len(w) : Assigns(At(w, r), scopes) => r = n /\ s.type = "assign"
  BY <1>2 DEF Assigns
<1>7. ASSUME s.type = "assign", Assigns(At(w, n), scopes), NEW i \in Keeping(s)
      PROVE  meant'[Len(tracker.stored) + Rank(s, i)] \in Fresh(s.targets[i].name, SymbolOf(scopes, s))
  <2>1. ResultOf(s) = SymbolOf(scopes, s) /\ ResultOf(s) # NoName
    BY <1>1, <1>2, <1>7, SameResult DEF Assigns
  <2>2. Rank(s, i) \in 1..Cardinality(Keeping(s))
    BY <1>7, Ranked
  <2>3. meant'[Len(meant) + Rank(s, i)] = Results(s)[Rank(s, i)]
    BY <2>1, <2>2, MeantAfter
  <2>. QED BY <1>1, <2>1, <2>3, ResultsAre
<1>8. Promised(work, tracker)'
  <2>1. \A r \in 1..Len(w) : Assigns(At(w, r), scopes) =>
          \A i \in Keeping(At(w, r).node) :
            meant'[Len(tracker.stored) + Rank(At(w, r).node, i)]
              \in Fresh(At(w, r).node.targets[i].name, SymbolOf(scopes, At(w, r).node))
    BY <1>2, <1>6, <1>7
  <2>. QED BY <1>1, <1>5, <2>1 DEF Promised
<1>9. ASSUME NEW i \in DOMAIN meant' PROVE meant'[i] \in Meaning
  <2>1. CASE i \in DOMAIN meant
    <3>. DEFINE c == Cardinality(CallsOf(s, i))
                d == Cardinality(BlindCallsOf(s, i))
    <3>1. meant'[i] = [meant[i] EXCEPT !.calls = @ + c, !.blind = @ + d]
      BY <2>1, MeantAfter
    <3>2. c \in Nat /\ d \in Nat
      <4>1. IsFiniteSet(CallsOf(s, i))
        <5>1. Agreed
          BY <1>1, BodyGoesOn
        <5>2. CallsOf(s, i) = CallsAmong(s, Holders(scopes, i))
          BY <5>1, CallsMade
        <5>. QED BY <5>2, OneVisitCounts
      <4>2. BlindCallsOf(s, i) \in SUBSET CallsOf(s, i)
        BY DEF BlindCallsOf
      <4>. QED BY <4>1, <4>2, FS_Subset, FS_CardinalityType
    <3>3. meant[i] \in Meaning
      BY <1>1, <2>1
    <3>. HIDE DEF c, d
    <3>4. meant[i].calls + c \in Nat /\ meant[i].blind + d \in Nat
      BY <3>2, <3>3 DEF Meaning
    <3>. QED BY <3>1, <3>3, <3>4 DEF Meaning
  <2>2. CASE i \notin DOMAIN meant
    <3>1. PICK r \in 1..Cardinality(Keeping(s)) : ResultOf(s) # NoName /\ i = Len(meant) + r
      BY <2>2, MeantAfter
    <3>2. meant'[i] = Results(s)[r]
      BY <3>1, MeantAfter
    <3>3. PICK k \in Keeping(s) : Results(s)[r] \in Fresh(s.targets[k].name, ResultOf(s))
      BY <3>1, ResultsAre
    <3>4. s.type = "assign"
      BY <3>1, ResultsCounted
    <3>5. s.targets[k].name \in Names
      <4>1. k \in DOMAIN s.targets
        BY DEF Keeping
      <4>2. s.targets[k] \in Places
        BY <3>4, <4>1, Targets DEF AssignsTo
      <4>. QED BY <4>2 DEF Places
    <3>6. ResultOf(s) \in Factories
      BY <3>1 DEF ResultOf, IsResultOf, Invoked, Mistaken
    <3>. QED BY <3>2, <3>3, <3>5, <3>6 DEF Fresh, Meaning
  <2>. QED BY <2>1, <2>2
<1>. QED BY <1>4, <1>8, <1>9

(* A statement is written.                                                   *)
LEMMA StatementWritten ==
  ASSUME IInv, Evident, NEW s \in Statements, Write(s)
  PROVE  Evident'
<1>. DEFINE n == Len(work) + 1
<1>0. PICK B : B = BlindNames(s)
  OBVIOUS
<1>1. /\ TopIs("open") /\ work \in Seq(Steps) /\ Quiet(work) /\ ~done /\ done' = done
      /\ work' = <<Visit(s)>> \o work /\ language' = language
  BY BodyGoesOn, StoredMeant DEF Write
<1>2. OneVisit(work', n, s)
  BY <1>1, VisitAdded
<1>. HIDE DEF n
<1>3. /\ Counting(work, tracker, B)'
      /\ Telling(work, tracker, B)'
  BY <1>0, <1>2, WrittenCounts, WrittenTells
<1>4. /\ Promised(work, tracker)' /\ BindsLast(work')
      /\ \A i \in DOMAIN meant' : meant'[i] \in Meaning
  BY <1>2, WrittenPromises
<1>5. Rebinds(work', B)
  <2>1. \A r \in 1..Len(work') : r # n => At(work', r).op \notin {"visit", "bind", "store"}
    BY <1>2 DEF OneVisit
  <2>2. At(work', n).op = "visit" /\ At(work', n).node = s
    BY <1>2 DEF OneVisit
  <2>. QED BY <1>0, <2>1, <2>2 DEF Rebinds
<1>6. B \in SUBSET (Names \cup {NoName}) /\ work' # <<>>
  BY <1>0, <1>2, BlindIs DEF OneVisit
<1>7. Rebinds(work, B)'
  BY <1>1, <1>5 DEF Rebinds, BlindNames
<1>. QED BY <1>1, <1>3, <1>4, <1>6, <1>7 DEF Evident

-----------------------------------------------------------------------------
(* The calls and the evidence, for every file.                               *)

(* Between two statements all calls are counted and all evidence is there.   *)
LEMMA Settled ==
  ASSUME IInv, Evident, Between
  PROVE  /\ Quiet(work) /\ Counted(tracker) /\ Len(tracker.stored) = Len(meant)
         /\ ~done => tracker.patterns \subseteq Reported /\ certain \subseteq tracker.patterns
<1>1. CASE TopIs("open")
  BY <1>1, BodyGoesOn
<1>2. CASE work = <<>>
  <2>1. Quiet(work)
    BY <1>2 DEF Quiet
  <2>2. PICK B \in SUBSET (Names \cup {NoName}) :
          Counting(work, tracker, B) /\ (~done => Telling(work, tracker, B))
    BY DEF Evident
  <2>3. Counted(tracker)
    <3>1. Unseen(work) = {} /\ tracker.stored \in Seq(Kept)
      BY <2>1, QuietStack, StoredMeant
    <3>. QED BY <2>2, <3>1, NoneUnseen
  <2>4. ~done => tracker.patterns \subseteq Reported /\ certain \subseteq tracker.patterns
    BY <2>1, <2>2, QuietTold
  <2>5. Len(tracker.stored) = Len(meant)
    BY <1>2 DEF Evident
  <2>. QED BY <2>1, <2>3, <2>4, <2>5
<1>. QED BY <1>1, <1>2 DEF Between

(* A file begins with nothing to count and nothing to tell.                  *)
LEMMA EvidentInit == Init => Evident
<1>. SUFFICES ASSUME Init PROVE Evident
  OBVIOUS
<1>1. /\ work = <<Open>> /\ meant = <<>> /\ certain = {} /\ ~done
      /\ tracker.stored = <<>> /\ tracker.patterns = {} /\ work # <<>>
  BY DEF Init, NewTracker
<1>2. Quiet(work)
  BY <1>1 DEF Quiet, At, Open
<1>3. BindsLast(work) /\ Promised(work, tracker) /\ Rebinds(work, {})
  BY <1>2, QuietStack
<1>4. Counting(work, tracker, {})
  BY <1>1 DEF Counting
<1>5. Telling(work, tracker, {})
  BY <1>1, <1>2, QuietTold
<1>6. \A i \in DOMAIN meant : meant[i] \in Meaning
  BY <1>1
<1>. QED BY <1>1, <1>3, <1>4, <1>5, <1>6 DEF Evident

(* The walk ends: a result that is called more than once is evidence.        *)
LEMMA WalkFinished ==
  ASSUME IInv, Evident, Finish
  PROVE  Evident'
<1>. DEFINE P(symbol, target) == Pattern("callsite_stored_reuse", symbol, target)
            kept == {P(tracker.stored[i].symbol, tracker.stored[i].target) :
                       i \in {j \in DOMAIN tracker.stored : tracker.stored[j].calls > 1}}
            real == [j \in DOMAIN meant |-> IF meant[j].real THEN meant[j].calls ELSE 0]
            certainly == [j \in DOMAIN meant |->
                            IF meant[j].real THEN meant[j].calls - meant[j].blind ELSE 0]
            other == [j \in DOMAIN meant |-> IF meant[j].real THEN 0 ELSE meant[j].calls]
            all == {P(meant[i].symbol, meant[i].target) : i \in {j \in DOMAIN meant : real[j] > 1}}
            sure == {P(meant[i].symbol, meant[i].target) : i \in {j \in DOMAIN meant : certainly[j] > 1}}
            exempt == {P(meant[i].symbol, meant[i].target) :
                         i \in {j \in DOMAIN meant : other[j] > 1}}
<1>1. /\ work = <<>> /\ ~done /\ done' /\ UNCHANGED <<history, work>>
      /\ meant' = meant /\ found' = found /\ mistaken' = mistaken
      /\ certain' = certain /\ language' = language
      /\ tracker' = [tracker EXCEPT !.patterns = Patterns(tracker)] /\ Between
  BY DEF Finish, history, Between
<1>2. /\ Quiet(work) /\ Counted(tracker) /\ Len(tracker.stored) = Len(meant)
      /\ tracker.patterns \subseteq Reported /\ certain \subseteq tracker.patterns
  BY <1>1, Settled
<1>3. /\ tracker.stored \in Seq(Kept) /\ DOMAIN meant = 1..Len(meant) /\ Tracker(tracker)
      /\ \A i \in DOMAIN meant : meant[i] \in Meaning
  BY StoredMeant DEF Evident
<1>4. tracker'.stored = tracker.stored /\ tracker'.patterns = tracker.patterns \cup kept
  BY <1>1, <1>3 DEF Tracker, Patterns
<1>5. \A i \in DOMAIN meant :
        /\ i \in DOMAIN tracker.stored
        /\ tracker.stored[i].symbol = meant[i].symbol /\ tracker.stored[i].target = meant[i].target
        /\ tracker.stored[i].calls > 1 => real[i] > 1 \/ other[i] > 1
        /\ certainly[i] > 1 => tracker.stored[i].calls > 1
  <2>. SUFFICES ASSUME NEW i \in DOMAIN meant
                PROVE  /\ i \in DOMAIN tracker.stored
                       /\ tracker.stored[i].symbol = meant[i].symbol
                       /\ tracker.stored[i].target = meant[i].target
                       /\ tracker.stored[i].calls > 1 => real[i] > 1 \/ other[i] > 1
                       /\ certainly[i] > 1 => tracker.stored[i].calls > 1
    OBVIOUS
  <2>1. i \in 1..Len(tracker.stored) /\ i \in DOMAIN tracker.stored
    BY <1>2, <1>3
  <2>2. tracker.stored[i].calls \in Nat /\ meant[i].calls \in Nat /\ meant[i].blind \in Nat
    <3>1. tracker.stored[i] \in Kept /\ meant[i] \in Meaning
      BY <1>3, <2>1
    <3>. QED BY <3>1 DEF Kept, Meaning
  <2>3. /\ tracker.stored[i].target = meant[i].target /\ tracker.stored[i].symbol = meant[i].symbol
        /\ tracker.stored[i].calls <= meant[i].calls
        /\ meant[i].calls - meant[i].blind <= tracker.stored[i].calls
    BY <1>2, <2>1 DEF Counted
  <2>. QED BY <2>1, <2>2, <2>3
<1>6. DOMAIN tracker.stored = DOMAIN meant
  BY <1>2, <1>3
<1>7. kept \subseteq all \cup exempt /\ sure \subseteq kept
  <2>. HIDE DEF P, real, certainly, other
  <2>. QED BY <1>5, <1>6
<1>8. EvidenceReal'
  <2>1. /\ tracker'.patterns \subseteq found \cup all \cup mistaken \cup exempt
        /\ certain \cup sure \subseteq tracker'.patterns
    BY <1>2, <1>4, <1>7 DEF Reported
  <2>2. Reused(real) = all
    BY DEF Reused
  <2>3. Reused(certainly) = sure
    BY DEF Reused
  <2>4. Reused(other) = exempt
    BY DEF Reused
  <2>. HIDE DEF all, sure, exempt
  <2>5. /\ Reused(real)' = all
        /\ Reused(certainly)' = sure
        /\ Reused(other)' = exempt
    BY <1>1, <2>2, <2>3, <2>4 DEF Reused
  <2>. QED BY <1>1, <2>1, <2>5 DEF EvidenceReal, RealResultsReused
<1>9. BindsLast(work') /\ Promised(work, tracker)'
  BY <1>1, <1>2, <1>4, QuietStack DEF Promised
<1>10. Rebinds(work, {})'
  BY <1>1 DEF Rebinds
<1>11. Counting(work, tracker, {})'
  <2>1. Unseen(work) = {}
    BY <1>2, QuietStack
  <2>2. Counting(work, tracker, {})
    BY <1>2, <1>3, <2>1, NoneUnseen
  <2>. QED BY <1>1, <1>2, <1>4, <2>2, QuietStack DEF Counting, Counted
<1>12. {} \in SUBSET (Names \cup {NoName})
  OBVIOUS
<1>. QED BY <1>1, <1>2, <1>3, <1>4, <1>8, <1>9, <1>10, <1>11, <1>12 DEF Evident

(* Every step keeps the calls and the evidence.                              *)
LEMMA EvidentStep == IInv /\ Evident /\ [Next]_vars => Evident'
<1>. SUFFICES ASSUME IInv, Evident, [Next]_vars PROVE Evident'
  OBVIOUS
<1>1. ASSUME NEW s \in Statements, Write(s) PROVE Evident'
  BY <1>1, StatementWritten
<1>2. CASE EnterScope \/ ExitScope \/ CloseBody
  BY <1>2, BodyTaken
<1>3. CASE VisitNode
  <2>1. Top.node \in Expressions \cup Statements
    <3>1. work # <<>> /\ Top.op = "visit"
      BY <1>3 DEF VisitNode, TopIs
    <3>2. Top \in Steps
      BY <3>1, TopOf DEF IInv
    <3>. QED BY <3>1, <3>2 DEF Steps, Simple, VisitSteps, StoreSteps, Binds, Open, ExitStep
  <2>2. CASE Top.node \in Expressions
    BY <1>3, <2>2, CallSeen, PlaceSeen DEF Expressions
  <2>3. CASE Top.node \in Statements
    <3>1. CASE Top.node \in Calls
      BY <1>3, <3>1, CallSeen
    <3>2. CASE Top.node.type = "assign"
      BY <1>3, <3>2, AssignTaken
    <3>3. CASE Top.node.type \in {"function", "class"}
      BY <1>3, <3>3, BodySeen
    <3>. QED BY <2>3, <3>1, <3>2, <3>3, StatementKinds
  <2>. QED BY <2>1, <2>2, <2>3
<1>4. CASE StoreTarget
  BY <1>4, TargetStored
<1>5. CASE BindTarget
  BY <1>5, TargetBound
<1>6. CASE Finish
  BY <1>6, WalkFinished
<1>7. CASE UNCHANGED vars
  <2>1. /\ meant' = meant /\ work' = work /\ tracker' = tracker /\ done' = done
        /\ found' = found /\ mistaken' = mistaken /\ Reported' = Reported
        /\ certain' = certain /\ language' = language
    BY <1>7 DEF vars, Reported
  <2>2. EvidenceReal => EvidenceReal'
    BY <2>1 DEF EvidenceReal, RealResultsReused, Between, TopIs, Top, Reused
  <2>3. BindsLast(work)' /\ Promised(work, tracker)'
    BY <2>1 DEF Evident, Promised
  <2>4. PICK B \in SUBSET (Names \cup {NoName}) :
          /\ Rebinds(work, B) /\ Counting(work, tracker, B)
          /\ ~done => Telling(work, tracker, B)
    BY DEF Evident
  <2>5. Rebinds(work, B)' /\ Counting(work, tracker, B)'
    BY <2>1, <2>4 DEF Rebinds, BlindNames, Counting
  <2>6. ~done' => Telling(work, tracker, B)'
    BY <2>1, <2>4 DEF Telling
  <2>. QED BY <2>1, <2>2, <2>3, <2>5, <2>6 DEF Evident
<1>. QED BY <1>1, <1>2, <1>3, <1>4, <1>5, <1>6, <1>7 DEF Next

(* Between two statements the counts and the evidence are as claimed.        *)
LEMMA EvidentBetween == IInv /\ Evident => CallsCounted /\ EvidenceReal
<1>. SUFFICES ASSUME IInv, Evident PROVE CallsCounted /\ EvidenceReal
  OBVIOUS
<1>1. CallsCounted
  <2>. SUFFICES ASSUME Between
                PROVE  /\ DOMAIN tracker.stored = DOMAIN meant
                       /\ \A i \in DOMAIN meant :
                            /\ tracker.stored[i].target = meant[i].target
                            /\ tracker.stored[i].symbol = meant[i].symbol
                            /\ tracker.stored[i].calls
                                 \in (meant[i].calls - meant[i].blind) .. meant[i].calls
    BY DEF CallsCounted
  <2>1. /\ Counted(tracker) /\ Len(tracker.stored) = Len(meant)
        /\ tracker.stored \in Seq(Kept) /\ DOMAIN meant = 1..Len(meant)
        /\ \A i \in DOMAIN meant : meant[i] \in Meaning
    BY Settled, StoredMeant DEF Evident
  <2>2. DOMAIN tracker.stored = DOMAIN meant
    BY <2>1
  <2>3. ASSUME NEW i \in DOMAIN meant
        PROVE  /\ tracker.stored[i].target = meant[i].target
               /\ tracker.stored[i].symbol = meant[i].symbol
               /\ tracker.stored[i].calls \in (meant[i].calls - meant[i].blind) .. meant[i].calls
    <3>1. i \in 1..Len(tracker.stored)
      BY <2>1
    <3>2. tracker.stored[i].calls \in Nat /\ meant[i].calls \in Nat /\ meant[i].blind \in Nat
      <4>1. tracker.stored[i] \in Kept /\ meant[i] \in Meaning
        BY <2>1, <3>1
      <4>. QED BY <4>1 DEF Kept, Meaning
    <3>3. /\ tracker.stored[i].target = meant[i].target /\ tracker.stored[i].symbol = meant[i].symbol
          /\ tracker.stored[i].calls <= meant[i].calls
          /\ meant[i].calls - meant[i].blind <= tracker.stored[i].calls
      BY <2>1, <3>1 DEF Counted
    <3>. QED BY <3>2, <3>3
  <2>. QED BY <2>2, <2>3
<1>2. EvidenceReal
  <2>1. CASE done
    BY <2>1 DEF Evident
  <2>2. CASE ~done
    <3>. SUFFICES ASSUME Between
                  PROVE  tracker.patterns \subseteq Reported /\ certain \subseteq tracker.patterns
      BY <2>2 DEF EvidenceReal, RealResultsReused, Reported
    <3>. QED BY <2>2, Settled
  <2>. QED BY <2>1, <2>2
<1>. QED BY <1>1, <1>2

(* Every call of what is kept is counted once and for the value its name     *)
(* holds then, for every file of either language: only calls in the statement*)
(* that replaces the name, and in ECMAScript defaults, may be missed         *)
(* (callables.py:116; python/callsites.py:67).                               *)
THEOREM CallsAllCounted == Spec => []CallsCounted
<1>1. IInv /\ Evident /\ [Next]_vars => (IInv /\ Evident)'
  BY NextStep, EvidentStep
<1>2. Init => IInv /\ Evident
  BY WalkInit, EvidentInit
<1>. QED BY <1>1, <1>2, EvidentBetween, PTL DEF Spec

(* For every file of either language all evidence is real, but for that of   *)
(* names of a factory that hold another value (callables.py:105, 108), and   *)
(* none outside a blind place is missed: neither at once nor, when the walk  *)
(* is over, of a result that is kept for more than one call (callables.py:   *)
(* 130, 143).                                                                *)
THEOREM EvidenceIsReal == Spec => []EvidenceReal
<1>1. IInv /\ Evident /\ [Next]_vars => (IInv /\ Evident)'
  BY NextStep, EvidentStep
<1>2. Init => IInv /\ Evident
  BY WalkInit, EvidentInit
<1>. QED BY <1>1, <1>2, EvidentBetween, PTL DEF Spec
=============================================================================
