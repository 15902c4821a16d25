---------------------------- MODULE MCUserMemories ----------------------------
(* Model-checking instances of UserMemories. *)
EXTENDS UserMemories, TLC

CONSTANTS likesA, likesB

MCRelated == {{likesA, likesB}}
Symmetry ==
    Permutations(Memories) \cup Permutations(Requests) \cup Permutations(Preferences)
=============================================================================
