----------------------------- MODULE MCJobQueue -----------------------------
(* Model-checking instances of JobQueue: the actors that take part in a behaviour are drawn
   at its start, so that one run covers two workers beside one request and one worker beside
   two overlapping requests. *)
EXTENDS JobQueue, TLC

CONSTANT Casts  \* sets of workers and requests that act together

VARIABLE cast

MCInit == Init /\ cast \in Casts

MCNext ==
    /\ \/ \E r \in Requests \cap cast : RequestStep(r)
       \/ \E w \in Workers \cap cast : WorkerStep(w) \/ HeartbeatTick(w) \/ Crash(w) \/ Restart(w)
       \/ \E j \in Jobs : HeartbeatExpires(j) \/ HeartbeatStalls(j) \/ RetryDelayElapses(j)
       \/ RedisLoss
    /\ UNCHANGED cast

\* The others stay where they began: a behaviour of Spec.
MCSpec == MCInit /\ [][MCNext]_<<vars, cast>>

\* Workers are interchangeable, and so are requests; used in safety runs only.
Symmetry == Permutations(Workers) \cup Permutations(Requests)
=============================================================================
