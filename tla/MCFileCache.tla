---------------------------- MODULE MCFileCache ----------------------------
(* Two files: one whose adapter extracts policy constants, one without.     *)
(* Contents old and new are interchangeable; content bad does not parse.    *)
EXTENDS FileCache, TLC

CONSTANTS py, ts, old, new, bad

MCOrder == <<py, ts>>

Interchangeable == Permutations({old, new})
=============================================================================
