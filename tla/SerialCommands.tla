--------------------------- MODULE SerialCommands ---------------------------
(***************************************************************************)
(* What `codeseam analyze` and `codeseam cache clear` promise to whoever   *)
(* reads the output root and the cache: commands take effect one at a      *)
(* time; a run delivers its whole report set in one step, or, when it      *)
(* fails, leaves the old one or a spoilt one; saved cache entries go away  *)
(* only when the command that owns the roots wipes them.                   *)
(*                                                                         *)
(* The promise is that of the docstrings of pipeline/analyze.py:124-128,   *)
(* output/artifacts/debug.py:21-27 and cli/commands/cache.py:32-33.        *)
(***************************************************************************)
CONSTANTS
  Commands,  \* processes
  Reports,   \* the report sets a finished run can deliver
  Keys,      \* cache keys
  NoReport,  \* the output root before the first run
  Spoilt,    \* the output root after a publication was cut short
  None

VARIABLES owner, failing, shown, stored

vars == <<owner, failing, shown, stored>>

Init ==
  /\ owner = None
  /\ failing = FALSE
  /\ shown = NoReport
  /\ stored = {}

Begin ==
  /\ owner = None
  /\ owner' \in Commands
  /\ UNCHANGED <<failing, shown, stored>>

Deliver ==
  /\ owner # None /\ ~failing
  /\ shown' \in Reports
  /\ UNCHANGED <<owner, failing, stored>>

Save ==
  /\ owner # None
  /\ stored \subseteq stored' /\ stored' \in SUBSET Keys
  /\ UNCHANGED <<owner, failing, shown>>

Wipe ==
  /\ owner # None
  /\ stored' = {}
  /\ UNCHANGED <<owner, failing, shown>>

(* The command hits an exception or Ctrl-C. *)
GiveUp ==
  /\ owner # None
  /\ failing' = TRUE
  /\ shown' \in {shown, Spoilt}
  /\ stored' \in {stored, {}}
  /\ UNCHANGED owner

End ==
  /\ owner # None
  /\ owner' = None
  /\ failing' = FALSE
  /\ UNCHANGED <<shown, stored>>

(* The process of the command is killed. *)
Die ==
  /\ owner # None
  /\ owner' = None
  /\ failing' = FALSE
  /\ shown' \in {shown, Spoilt}
  /\ stored' \in {stored, {}}

Next == Begin \/ Deliver \/ Save \/ Wipe \/ GiveUp \/ End \/ Die

Spec == Init /\ [][Next]_vars
=============================================================================
