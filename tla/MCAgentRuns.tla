---------------------------- MODULE MCAgentRuns ----------------------------
(* Instances of AgentRuns for TLC. *)
EXTENDS AgentRuns

(* The second task needs the first, the answer needs both. *)
MCTasks == 1..3
MCDeps == <<{}, {1}, {1, 2}>>
=============================================================================
