---------------------------- MODULE EvaluationJobs ----------------------------
(* The evaluation jobs: JobQueue composed with the runs they execute.         *)
(*                                                                            *)
(* A run is one long transaction of the worker: it deletes the results of     *)
(* earlier executions, locks the row of the run by writing it, evaluates the  *)
(* cases, and commits results and outcome at its end, before the transaction  *)
(* that marks the job succeeded.  Progress is written by other sessions in    *)
(* the meantime.  cancel_job, requeue_job and the worker's except block write *)
(* the run in transactions of their own.                                      *)
EXTENDS JobQueue

VARIABLES
    run,      \* rag_evaluation_runs.status, of the run each job executes
    results,  \* committed rag_evaluation_results: what execution, what case
    work,     \* the long transaction of each worker
    runMark,  \* transactions that mark a run cancelled or failed, and requeues
    crossed   \* history: jobs of which two executions, or one and a requeue, have overlapped

evalVars == <<run, results>>
sessionVars == <<work, runMark>>
evalAllVars == <<vars, evalVars, sessionVars, crossed>>

RunStatus == {"absent", "queued", "running", "completed", "cancelled", "failed"}

\* The first boundary reports the start, each further one the case before it.
Cases == 1..(Checkpoints - 1)
Result == [era : Nat, attempt : Nat, case : Cases]

\* "load": the run is about to be loaded; "wait": old results are deleted, the row of the run
\* is not locked yet; "open": it is; "stop": cancelled, not committed;
\* "saved": committed; "done": committed, and seen not to be cancelled.
Work == [pc : {"none", "load", "wait", "open", "stop", "saved", "done", "mark"},
         gone : SUBSET Result]
NoWork == [pc |-> "none", gone |-> {}]

RunMark == [pc : {"none", "read", "commit", "requeue"}, job : Jobs \cup {NoJob},
            to : RunStatus, saw : RunStatus]
NoRunMark == [pc |-> "none", job |-> NoJob, to |-> "absent", saw |-> "absent"]
RunMarkOf(j, status) == [pc |-> "read", job |-> j, to |-> status, saw |-> "absent"]

EvalInit ==
    /\ Init
    /\ run = [j \in Jobs |-> "absent"]
    /\ results = [j \in Jobs |-> {}]
    /\ work = [w \in Workers |-> NoWork]
    /\ runMark = [a \in Actors |-> NoRunMark]
    /\ crossed = {}

Free(a) == runMark[a].pc = "none"
At(w, p) == work[w].pc = p
Go(w, p) == work' = [work EXCEPT ![w].pc = p]
Close(w) == work' = [work EXCEPT ![w] = NoWork]

\* The uncommitted transaction of a worker holds the row of the run.
Held(j) == \E w \in Workers : (At(w, "open") \/ At(w, "stop")) /\ task[w].job = j

\* A column that is not changed is not written, and needs no lock.
MayWrite(j, saw, new) == saw # new => ~Held(j)

\* History: an execution of the job, or a cancellation that has read it, is under way.
UnderWay(j) == \E w \in Workers : Executes(w, j)
CancelUnderWay(j) ==
    \E r \in Requests : \/ request[r].op = "cancel" /\ request[r].job = j
                        \/ runMark[r].pc \in {"read", "commit"} /\ runMark[r].job = j

-----------------------------------------------------------------------------
(* The API: start, cancel, requeue *)

\* The run and its job are inserted by one commit.
StartRun(r, j) ==
    /\ Free(r)
    /\ CreateJob(r, j)
    /\ run' = [run EXCEPT ![j] = "queued"]
    /\ UNCHANGED <<results, sessionVars, crossed>>

EvalRequest(r) ==
    /\ Free(r)
    /\ \/ \E j \in Jobs : CancelRead(r, j)
       \/ Enqueue(r)
       \/ EnqueueLost(r)
    /\ UNCHANGED <<evalVars, sessionVars, crossed>>

\* cancel_job marks the run if it has cancelled the job itself.
EvalCancelCommit(r) ==
    /\ Free(r)
    /\ CancelCommit(r)
    /\ runMark' = IF CancelledRow(request[r].saw).status = "cancelled"
                  THEN [runMark EXCEPT ![r] = RunMarkOf(request[r].job, "cancelled")]
                  ELSE runMark
    /\ UNCHANGED <<evalVars, work, crossed>>

EvalRequeueRead(r, j) ==
    /\ Free(r)
    /\ RequeueRead(r, j)
    /\ runMark' = [runMark EXCEPT ![r] = [NoRunMark EXCEPT !.pc = "requeue", !.job = j, !.saw = run[j]]]
    /\ UNCHANGED <<evalVars, work, crossed>>

RequeuedRun(row, saw) == Column(row, saw, "queued")

\* One commit requeues the job and its run; the row of the run is written first.
EvalRequeueCommit(r) ==
    /\ runMark[r].pc = "requeue"
    /\ MayWrite(runMark[r].job, runMark[r].saw, "queued")
    /\ RequeueCommit(r)
    /\ run' = [run EXCEPT ![runMark[r].job] = RequeuedRun(@, runMark[r].saw)]
    /\ runMark' = [runMark EXCEPT ![r] = NoRunMark]
    /\ crossed' = IF UnderWay(runMark[r].job) \/ CancelUnderWay(runMark[r].job)
                  THEN crossed \cup {runMark[r].job} ELSE crossed
    /\ UNCHANGED <<results, work>>

-----------------------------------------------------------------------------
(* The worker: run_evaluation_job *)

EvalLoop(w) ==
    /\ At(w, "none")
    /\ LoopStep(w) \/ ClaimCancelled(w) \/ ClaimNothing(w) \/ ClaimSkipsLocked(w)
    /\ UNCHANGED <<evalVars, sessionVars, crossed>>

EvalClaim(w) ==
    /\ Claim(w)
    /\ Go(w, "load")
    /\ crossed' = IF UnderWay(task[w].job) THEN crossed \cup {task[w].job} ELSE crossed
    /\ UNCHANGED <<evalVars, runMark>>

\* DELETE FROM rag_evaluation_results: the rows this statement sees.
DeleteResults(w) ==
    /\ pc[w] = "running"
    /\ At(w, "load")
    /\ work' = [work EXCEPT ![w] = [pc |-> "wait", gone |-> results[task[w].job]]]
    /\ UNCHANGED <<vars, evalVars, runMark, crossed>>

\* The flush of the run writes status "running", and waits for the row if need be.
LockRun(w) ==
    /\ pc[w] = "running"
    /\ At(w, "wait")
    /\ ~Held(task[w].job)
    /\ Go(w, "open")
    /\ UNCHANGED <<vars, evalVars, runMark, crossed>>

\* A case is evaluated and flushed, and the progress is committed elsewhere.
EvaluateCase(w) ==
    /\ At(w, "open")
    /\ Progress(w) \/ ProgressSeesCancel(w)
    /\ UNCHANGED <<evalVars, sessionVars, crossed>>

\* What the transaction of w has written once it commits after n cases.
NewResults(w, n) ==
    {[era |-> task[w].era, attempt |-> task[w].attempt, case |-> c] : c \in 1..n}

\* Mutant: the results of earlier executions are kept.
CommittedBesideOld(w, n) == results[task[w].job] \cup NewResults(w, n)

Committed(w, n) == (results[task[w].job] \ work[w].gone) \cup NewResults(w, n)

CommitRun(w, status, n) ==
    /\ run' = [run EXCEPT ![task[w].job] = status]
    /\ results' = [results EXCEPT ![task[w].job] = Committed(w, n)]

StopEvaluation(w) ==
    /\ At(w, "open")
    /\ ProgressCancels(w)
    /\ Go(w, "stop")
    /\ UNCHANGED <<evalVars, runMark, crossed>>

\* The handler returned None: _mark_evaluation_terminal(cancelled=True).
MarkCancelled(w) ==
    /\ Go(w, "mark")
    /\ runMark' = [runMark EXCEPT ![w] = RunMarkOf(task[w].job, "cancelled")]

\* A cancelled run keeps the results it has; it is marked once more.
RunCancelled(w) ==
    /\ At(w, "stop")
    /\ pc[w] = "returning"
    /\ CommitRun(w, "cancelled", task[w].step)
    /\ MarkCancelled(w)
    /\ UNCHANGED <<vars, crossed>>

RunCompleted(w) ==
    /\ pc[w] = "running"
    /\ At(w, "open")
    /\ task[w].step = Checkpoints
    /\ CommitRun(w, "completed", Checkpoints - 1)
    /\ Go(w, "saved")
    /\ UNCHANGED <<vars, runMark, crossed>>

\* session.refresh reads the run again, and the handler returns None if it is cancelled.
RefreshRun(w) ==
    /\ At(w, "saved")
    /\ IF run[task[w].job] = "cancelled"
       THEN MarkCancelled(w) /\ pc' = [pc EXCEPT ![w] = "returning"]
       ELSE Go(w, "done") /\ UNCHANGED <<runMark, pc>>
    /\ UNCHANGED <<jobVars, redisVars, task, plan, request, faults, hist, evalVars, crossed>>

EvalReturnNone(w) ==
    /\ At(w, "none")
    /\ ReturnNone(w)
    /\ UNCHANGED <<evalVars, sessionVars, crossed>>

EvalFinish(w) ==
    /\ At(w, "done")
    /\ \/ FinishRead(w) /\ UNCHANGED work
       \/ (FinishSeesCancelled(w) \/ FinishCommit(w)) /\ Close(w)
    /\ UNCHANGED <<evalVars, runMark, crossed>>

\* Mutant: the last attempt does not mark the run.
EvalRaisesUnmarked(w) ==
    /\ HandlerRaises(w)
    /\ pc[w] = "returning" => ~At(w, "none")
    /\ Close(w)
    /\ runMark' = [runMark EXCEPT ![w] = NoRunMark]
    /\ UNCHANGED <<evalVars, crossed>>

\* The long transaction is rolled back; the last attempt marks the run failed.
EvalRaises(w) ==
    /\ HandlerRaises(w)
    /\ pc[w] = "returning" => ~At(w, "none")
    /\ IF RetryLeft(task[w].attempt)
       THEN Close(w) /\ runMark' = [runMark EXCEPT ![w] = NoRunMark]
       ELSE /\ work' = [work EXCEPT ![w] = [pc |-> "mark", gone |-> {}]]
            /\ runMark' = [runMark EXCEPT ![w] = RunMarkOf(task[w].job, "failed")]
    /\ UNCHANGED <<evalVars, crossed>>

EvalFails(w) ==
    /\ At(w, "none")
    /\ FailRetry(w) \/ ScheduleRetry(w) \/ FailDeadLetter(w)
    /\ UNCHANGED <<evalVars, sessionVars, crossed>>

-----------------------------------------------------------------------------
(* _mark_evaluation_terminal, and the second transaction of cancel_job *)

RunMarkRead(a) ==
    /\ runMark[a].pc = "read"
    /\ runMark' = [runMark EXCEPT ![a].pc = "commit", ![a].saw = run[runMark[a].job]]
    /\ UNCHANGED <<vars, evalVars, work, crossed>>

RunMarkCommit(a) ==
    /\ runMark[a].pc = "commit"
    /\ MayWrite(runMark[a].job, runMark[a].saw, runMark[a].to)
    /\ run' = [run EXCEPT ![runMark[a].job] = Column(@, runMark[a].saw, runMark[a].to)]
    /\ runMark' = [runMark EXCEPT ![a] = NoRunMark]
    /\ IF a \in Workers THEN Close(a) ELSE UNCHANGED work
    /\ UNCHANGED <<vars, results, crossed>>

EvalCrash(w) ==
    /\ Crash(w)
    /\ Close(w)
    /\ runMark' = [runMark EXCEPT ![w] = NoRunMark]
    /\ UNCHANGED <<evalVars, crossed>>

EvalEnvironment ==
    /\ \/ \E w \in Workers : HeartbeatTick(w) \/ Restart(w)
       \/ \E j \in Jobs : HeartbeatExpires(j) \/ HeartbeatStalls(j) \/ RetryDelayElapses(j)
       \/ RedisLoss
    /\ UNCHANGED <<evalVars, sessionVars, crossed>>

-----------------------------------------------------------------------------
EvalRequestStep(r) ==
    \/ \E j \in Jobs : StartRun(r, j) \/ EvalRequeueRead(r, j)
    \/ EvalRequest(r) \/ EvalCancelCommit(r) \/ EvalRequeueCommit(r)

EvalWorkerStep(w) ==
    \/ EvalLoop(w) \/ EvalClaim(w) \/ DeleteResults(w) \/ LockRun(w) \/ EvaluateCase(w)
    \/ StopEvaluation(w) \/ RunCancelled(w) \/ RunCompleted(w) \/ RefreshRun(w)
    \/ EvalReturnNone(w) \/ EvalFinish(w) \/ EvalRaises(w) \/ EvalFails(w)

EvalNext ==
    \/ \E r \in Requests : EvalRequestStep(r)
    \/ \E w \in Workers : EvalWorkerStep(w) \/ EvalCrash(w)
    \/ \E a \in Actors : RunMarkRead(a) \/ RunMarkCommit(a)
    \/ EvalEnvironment

EvalSpec == EvalInit /\ [][EvalNext]_evalAllVars

\* As in JobQueue; no request is obliged to go on.
EvalFairness ==
    /\ \A w \in Workers :
          /\ WF_evalAllVars(EvalWorkerStep(w) \/ RunMarkRead(w) \/ RunMarkCommit(w))
          /\ WF_evalAllVars(Restart(w) /\ UNCHANGED <<evalVars, sessionVars, crossed>>)
          /\ SF_evalAllVars(RecoverScan(w) /\ At(w, "none") /\ UNCHANGED <<evalVars, sessionVars, crossed>>)
          /\ \A j \in Jobs : SF_evalAllVars(Pop(w, j) /\ UNCHANGED <<evalVars, sessionVars, crossed>>)
    /\ \A j \in Jobs :
          /\ WF_evalAllVars(HeartbeatExpires(j) /\ UNCHANGED <<evalVars, sessionVars, crossed>>)
          /\ WF_evalAllVars(RetryDelayElapses(j) /\ UNCHANGED <<evalVars, sessionVars, crossed>>)

EvalFairSpec == EvalSpec /\ EvalFairness

-----------------------------------------------------------------------------
(* Properties *)

\* Every variable that JobQueue does not declare has its type.
EvalTypeOK ==
    /\ run \in [Jobs -> RunStatus]
    /\ results \in [Jobs -> SUBSET Result]
    /\ work \in [Workers -> Work]
    /\ runMark \in [Actors -> RunMark]
    /\ crossed \in SUBSET Jobs

\* A job that succeeded has left a completed run, unless somebody asked to cancel it: the
\* run is committed by one session of the worker, the job by another, and a crash, a retry
\* or a requeue may come in between.  (Two executions at once, or one that a requeue overtakes,
\* may leave it queued, running or cancelled.)
SucceededMeansCompleted ==
    \A j \in Jobs \ crossed :
        job[j].status = "succeeded" /\ ~job[j].cancel => run[j] = "completed"

\* A completed run has one result for each case, all of one execution: what earlier attempts
\* left, complete or cancelled half-way, is gone with the commit that completes the run.
OneExecution(all) ==
    /\ {x.case : x \in all} = Cases
    /\ \A x, y \in all : x.era = y.era /\ x.attempt = y.attempt

OneResultPerCase == \A j \in Jobs \ crossed : run[j] = "completed" => OneExecution(results[j])

\* Job, run and results agree, although three sessions of the worker and those of the API
\* write them: a succeeded job has a completed run, and a completed run has exactly one
\* execution's results.
JobRunAndResultsAgree == EvalTypeOK /\ SucceededMeansCompleted /\ OneResultPerCase

\* The run of a job that nobody cancels comes to an end, whatever is lost or crashes.
RunSettles ==
    \A j \in Jobs :
        [](~job[j].cancel /\ j \notin crossed) => <>[](run[j] \in {"absent", "completed", "failed"})

-----------------------------------------------------------------------------
(* The inductive invariant behind JobRunAndResultsAgree                     *)

\* Where a worker is in the queue fits its long transaction and its terminal mark.
WorkFits(w) ==
    /\ At(w, "none") => pc[w] \notin {"running", "cancelling", "finishing"}
    /\ work[w].pc \in {"load", "wait", "saved"} => pc[w] = "running"
    /\ At(w, "open") => pc[w] \in {"running", "cancelling"}
    /\ At(w, "stop") => pc[w] = "returning"
    /\ At(w, "done") => pc[w] \in {"running", "finishing"}
    /\ At(w, "mark") => /\ pc[w] \in {"returning", "failing"}
                        /\ runMark[w].pc \in {"read", "commit"}
                        /\ runMark[w].job = task[w].job
    /\ ~At(w, "mark") => runMark[w].pc = "none"
    /\ pc[w] = "cancelling" \/ At(w, "stop") => task[w].step < Checkpoints

\* A requeue goes on with the job it has read, which was in a status it accepts.
RequeueFits(r) ==
    /\ request[r].op = "requeue" => request[r].saw.status \in Requeueable
    /\ runMark[r].pc = "requeue" => request[r].op = "requeue" /\ request[r].job = runMark[r].job

\* A terminal mark writes a terminal status of a run.
MarkFits(a) ==
    runMark[a].pc \in {"read", "commit"} => /\ runMark[a].job \in Jobs
                                           /\ runMark[a].to \in {"cancelled", "failed"}

SessionsFit ==
    /\ \A w \in Workers : WorkFits(w)
    /\ \A r \in Requests : RequeueFits(r)
    /\ \A a \in Actors : MarkFits(a)

\* One worker executes the job, and none does when its outcome is recorded.
Alone(j) ==
    /\ \A v, w \in Workers : Executes(v, j) /\ Executes(w, j) => v = w
    /\ job[j].status \in {"absent", "succeeded"} => ~UnderWay(j)

\* A cancellation that a request has read, or goes on with, is on the row.
CancelStands(j) ==
    \A r \in Requests : \/ request[r].op = "cancel" /\ request[r].job = j /\ request[r].saw.cancel
                        \/ runMark[r].pc \in {"read", "commit"} /\ runMark[r].job = j
                        => job[j].cancel

\* From the commit of its results on, the execution finds its run completed; before, its
\* DELETE has seen all the results there are.
RunFits(j) ==
    /\ \A w \in Workers : Executes(w, j) =>
          /\ work[w].pc \in {"saved", "done"} => run[j] = "completed" \/ job[j].cancel
          /\ work[w].pc \in {"wait", "open", "stop"} => work[w].gone = results[j]
    /\ job[j].status = "succeeded" => run[j] = "completed" \/ job[j].cancel
    /\ run[j] = "completed" => OneExecution(results[j])

\* With the types, inductive (JobProofs).
RunInv == SessionsFit /\ \A j \in Jobs \ crossed : Alone(j) /\ CancelStands(j) /\ RunFits(j)

=============================================================================
