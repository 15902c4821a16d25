------------------------ MODULE MCKnowledgeVersions ------------------------
(* Model-checking instances of KnowledgeVersions. *)
EXTENDS KnowledgeVersions, TLC

SessionSymmetry == Permutations(Sessions)
=============================================================================
