--------------------------- MODULE MCAnalysisRun ---------------------------
(* Two analyze processes and one clearing process on five artifact entries *)
(* in the order of the real names:                                         *)
(* README.md < agent < debug.jsonl.gz < raw.                               *)
EXTENDS AnalysisRun

CONSTANTS a1, a2, c1, readme, agent, bundle, raw, k1

MCWriteOrder == <<raw, agent, readme>>
MCPublishOrder == <<readme, agent, bundle, raw>>
=============================================================================
