------------------------ MODULE MCSemanticEnrichment ------------------------
(* Contents with two functions to ask about, with one, and with none. *)
EXTENDS SemanticEnrichment

MCCandidates ==
  [content \in Contents |->
     CASE content = "both" -> {1, 2} [] content = "one" -> {1} [] OTHER -> {}]
=============================================================================
