---------------------------- MODULE MCChatTurns ----------------------------
(* A small instance of ChatTurns for TLC. *)
EXTENDS ChatTurns, TLC

RequestSymmetry == Permutations(Requests)
=============================================================================
