--------------------------- MODULE MCDocumentJobs ---------------------------
(* Model-checking instances of DocumentJobs. *)
EXTENDS DocumentJobs, TLC

WorkerSymmetry == Permutations(Workers)
=============================================================================
