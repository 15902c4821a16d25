-------------------------- MODULE MCEvaluationJobs --------------------------
(* Model-checking instances of EvaluationJobs. *)
EXTENDS EvaluationJobs, TLC

WorkerSymmetry == Permutations(Workers)
=============================================================================
