------------------------------ MODULE JobQueue ------------------------------
(***************************************************************************)
(* The durable background-job queue of Cortexa.                            *)
(*                                                                         *)
(* PostgreSQL holds one background_jobs row per job and is the source of   *)
(* truth.  Redis only delivers job ids: a list of ready ids and a sorted   *)
(* set of delayed ones.  Worker processes pop ids, claim the row under a   *)
(* row lock, run the handler, and write the outcome.  Every other          *)
(* transaction on a row (cancel, requeue, success, failure, recovery) is   *)
(* an unlocked ORM read followed by a commit, so those are two steps here: *)
(* the read takes a snapshot and the commit writes the columns whose value *)
(* differs from it.                                                        *)
(***************************************************************************)
EXTENDS Integers, FiniteSets

CONSTANTS
    Jobs,         \* background_jobs ids
    Workers,      \* worker processes (one container, or several replicas)
    Requests,     \* API requests that may be in flight at the same time
    MaxAttempts,  \* background_jobs.max_attempts
    Checkpoints,  \* progress boundaries of a handler
    MaxCopies,    \* bound: copies of one id in the ready list
    MaxFaults,    \* bound: crashes, Redis losses, false heartbeat expiries
    MaxRequeues   \* bound: administrator requeues of one job

ASSUME MaxAttemptsAssumption == MaxAttempts \in Nat \ {0}
ASSUME CheckpointsAssumption == Checkpoints \in Nat
ASSUME BoundsAssumption == MaxCopies \in Nat /\ MaxFaults \in Nat /\ MaxRequeues \in Nat
ASSUME ActorsAssumption == Workers \cap Requests = {}

\* Whoever runs transactions of its own on what a job works on.
Actors == Workers \cup Requests

NoJob == "no job"

VARIABLES
    job,      \* the rows: status, cancellation_requested, attempt_count
    waiting,  \* jobs whose available_at is in the future
    stale,    \* jobs whose heartbeat_at is null or older than 45 seconds
    ready,    \* Redis list: copies of each job id
    delayed,  \* Redis sorted set: is the id a member, and is its score due
    pc,       \* where each worker process is
    task,     \* the job a worker holds, and its local variables
    plan,     \* what a worker's recovery or promotion pass will do per job
    request,  \* API requests between their read and their last effect
    faults,   \* faults so far
    hist      \* history: requeue era, retried attempts, revivals, a cancellation asked for

jobVars    == <<job, waiting, stale>>
redisVars  == <<ready, delayed>>
workerVars == <<pc, task, plan>>
vars == <<job, waiting, stale, ready, delayed, pc, task, plan, request, faults, hist>>

-----------------------------------------------------------------------------
(* Statuses and records *)

\* "absent" is a row that has not been inserted; nothing writes "failed" any more.
Claimable == {"queued", "retrying"}
TERMINAL_STATUSES == {"succeeded", "failed", "dead_lettered", "cancelled"}
Requeueable == {"failed", "dead_lettered"}
Status == {"absent", "running"} \cup Claimable \cup TERMINAL_STATUSES

Row == [status : Status, cancel : BOOLEAN, attempts : Nat]
NewRow == [status |-> "absent", cancel |-> FALSE, attempts |-> 0]

\* "fresh": a recovery pass has just ended, and the loop goes on to promote and pop.
PC == {"down", "starting", "loop", "recovering", "fresh", "promoting", "polling", "claiming",
       "running", "cancelling", "returning", "finishing", "failing", "delaying"}

\* The program points of a worker that is inside the try block of _execute.
Executing == {"running", "cancelling", "returning", "finishing", "failing"}

Task == [job : Jobs \cup {NoJob}, attempt : Nat, step : 0..Checkpoints, saw : Status, era : Nat]
NoTask == [job |-> NoJob, attempt |-> 0, step |-> 0, saw |-> "absent", era |-> 0]

\* A recovery pass publishes (ToPublish) before its single commit writes (ToWrite).
ToPublish == {"recover", "requeue", "push", "delay"}
ToWrite == {"cancel", "recovered", "requeued"}
Plan == {"none", "promote"} \cup ToPublish \cup ToWrite
NoPlan == [j \in Jobs |-> "none"]

Request == [op : {"none", "cancel", "requeue", "enqueue"}, job : Jobs \cup {NoJob}, saw : Row]
NoRequest == [op |-> "none", job |-> NoJob, saw |-> NewRow]

\* One RPUSH; beyond MaxCopies another copy makes no difference to any reader.
Push(r, j) == [r EXCEPT ![j] = IF @ < MaxCopies THEN @ + 1 ELSE @]

\* An ORM commit emits the columns whose new value differs from the loaded one.
Column(current, loaded, new) == IF new = loaded THEN current ELSE new

\* Mutant: the flag is written whatever was read, as by an UPDATE that names the column.
FlushFlag(row, saw, new) ==
    [status   |-> Column(row.status, saw.status, new.status),
     cancel   |-> new.cancel,
     attempts |-> Column(row.attempts, saw.attempts, new.attempts)]

Flush(row, saw, new) ==
    [status   |-> Column(row.status, saw.status, new.status),
     cancel   |-> Column(row.cancel, saw.cancel, new.cancel),
     attempts |-> Column(row.attempts, saw.attempts, new.attempts)]

FlushStatus(row, loaded, new) == [row EXCEPT !.status = Column(@, loaded, new)]

\* History: a commit made a job claimable that was not, outside creation and retry.
Revive(h, row, new) ==
    [h EXCEPT !.revived = IF row.status \notin Claimable /\ new.status \in Claimable
                          THEN @ + 1 ELSE @]

-----------------------------------------------------------------------------
Init ==
    /\ job = [j \in Jobs |-> NewRow]
    /\ waiting = {}
    /\ stale = {}
    /\ ready = [j \in Jobs |-> 0]
    /\ delayed = [j \in Jobs |-> "none"]
    /\ pc = [w \in Workers |-> "starting"]
    /\ task = [w \in Workers |-> NoTask]
    /\ plan = [w \in Workers |-> NoPlan]
    /\ request = [r \in Requests |-> NoRequest]
    /\ faults = 0
    /\ hist = [j \in Jobs |-> [era |-> 0, retried |-> {}, revived |-> 0, asked |-> FALSE]]

-----------------------------------------------------------------------------
(* API requests: JobService *)

\* create_job inserts the row and commits; the enqueue that follows is a second step.
CreateJob(r, j) ==
    /\ request[r].op = "none"
    /\ job[j].status = "absent"
    /\ job' = [job EXCEPT ![j].status = "queued"]
    /\ stale' = stale \cup {j}
    /\ request' = [request EXCEPT ![r] = [NoRequest EXCEPT !.op = "enqueue", !.job = j]]
    /\ UNCHANGED <<waiting, redisVars, workerVars, faults, hist>>

\* create_job with the idempotency key of an existing job publishes the id again.
ResubmitJob(r, j) ==
    /\ request[r].op = "none"
    /\ job[j].status \in Claimable
    /\ request' = [request EXCEPT ![r] = [NoRequest EXCEPT !.op = "enqueue", !.job = j]]
    /\ UNCHANGED <<jobVars, redisVars, workerVars, faults, hist>>

Enqueue(r) ==
    /\ request[r].op = "enqueue"
    /\ ready' = Push(ready, request[r].job)
    /\ request' = [request EXCEPT ![r] = NoRequest]
    /\ UNCHANGED <<jobVars, delayed, workerVars, faults, hist>>

\* Redis is unreachable (create_job swallows the error) or the API dies in between.
EnqueueLost(r) ==
    /\ request[r].op = "enqueue"
    /\ request' = [request EXCEPT ![r] = NoRequest]
    /\ UNCHANGED <<jobVars, redisVars, workerVars, faults, hist>>

CancelRead(r, j) ==
    /\ request[r].op = "none"
    /\ job[j].status \notin TERMINAL_STATUSES \cup {"absent"}
    /\ request' = [request EXCEPT ![r] = [op |-> "cancel", job |-> j, saw |-> job[j]]]
    /\ UNCHANGED <<jobVars, redisVars, workerVars, faults, hist>>

CancelledRow(saw) ==
    [saw EXCEPT !.cancel = TRUE,
                !.status = IF @ \in Claimable THEN "cancelled" ELSE @]

CancelCommit(r) ==
    /\ request[r].op = "cancel"
    /\ LET j == request[r].job
           saw == request[r].saw
       IN  /\ job' = [job EXCEPT ![j] = Flush(@, saw, CancelledRow(saw))]
           \* History: a repeated cancellation finds the flag set and writes nothing.
           /\ hist' = [hist EXCEPT ![j].asked = @ \/ ~saw.cancel]
    /\ request' = [request EXCEPT ![r] = NoRequest]
    /\ UNCHANGED <<waiting, stale, redisVars, workerVars, faults>>

RequeueRead(r, j) ==
    /\ request[r].op = "none"
    /\ job[j].status \in Requeueable
    /\ hist[j].era < MaxRequeues
    /\ request' = [request EXCEPT ![r] = [op |-> "requeue", job |-> j, saw |-> job[j]]]
    /\ UNCHANGED <<jobVars, redisVars, workerVars, faults, hist>>

RequeuedRow(saw) == [status |-> "queued", cancel |-> FALSE, attempts |-> 0]

\* The budget of attempts starts afresh when the commit resets attempt_count; a
\* cancellation is answered by the requeue that has read it.
RequeueHist(h, saw, row, new) ==
    LET asked == h.asked /\ ~saw.cancel
    IN  IF saw.attempts # 0
        THEN [era |-> h.era + 1, retried |-> {}, revived |-> 0, asked |-> asked]
        ELSE [Revive(h, row, new) EXCEPT !.asked = asked]

RequeueCommit(r) ==
    /\ request[r].op = "requeue"
    /\ LET j == request[r].job
           saw == request[r].saw
           new == Flush(job[j], saw, RequeuedRow(saw))
       IN  /\ job' = [job EXCEPT ![j] = new]
           /\ waiting' = waiting \ {j}
           /\ stale' = stale \cup {j}
           /\ hist' = [hist EXCEPT ![j] = RequeueHist(@, saw, job[j], new)]
           /\ request' = [request EXCEPT ![r] = [NoRequest EXCEPT !.op = "enqueue", !.job = j]]
    /\ UNCHANGED <<redisVars, workerVars, faults>>

-----------------------------------------------------------------------------
(* The worker's main loop: recovery, promotion, pop *)

\* The rows that _recover_durable_jobs selects.
Recoverable(row, isStale) == row.status \in Claimable \/ (row.status = "running" /\ isStale)

\* What it will do with a row, from the columns it loaded.
RecoveryPlan(row, isWaiting, isStale) ==
    IF ~Recoverable(row, isStale) THEN "none"
    ELSE IF row.cancel THEN "cancel"
    ELSE IF row.status = "running" THEN "recover"
    ELSE IF row.status = "queued" THEN "push"
    ELSE IF isWaiting THEN "delay"
    ELSE "requeue"

\* At boot, and in the loop once 30 seconds have passed since the last pass.
RecoverScan(w) ==
    /\ pc[w] \in {"starting", "loop"}
    /\ plan' = [plan EXCEPT ![w] =
                   [j \in Jobs |-> RecoveryPlan(job[j], j \in waiting, j \in stale)]]
    /\ pc' = [pc EXCEPT ![w] = "recovering"]
    /\ UNCHANGED <<jobVars, redisVars, task, request, faults, hist>>

\* The loop body for one loaded row: publish its id, remember the pending write.
RecoverPublish(w, j) ==
    /\ pc[w] = "recovering"
    /\ plan[w][j] \in ToPublish
    /\ IF plan[w][j] = "delay"
       THEN /\ delayed' = [delayed EXCEPT ![j] = "waiting"]
            /\ UNCHANGED ready
       ELSE /\ ready' = Push(ready, j)
            /\ UNCHANGED delayed
    /\ plan' = [plan EXCEPT ![w][j] = CASE @ = "recover" -> "recovered"
                                        [] @ = "requeue" -> "requeued"
                                        [] OTHER -> "none"]
    /\ UNCHANGED <<jobVars, pc, task, request, faults, hist>>

RecoveredRow(row, p) ==
    [row EXCEPT !.status = CASE p = "cancel" -> "cancelled"
                             [] p \in {"recovered", "requeued"} -> "queued"
                             [] OTHER -> @]

\* One commit for the whole pass, from columns loaded before the publishing.
RecoverCommit(w) ==
    /\ pc[w] = "recovering"
    /\ \A j \in Jobs : plan[w][j] \notin ToPublish
    /\ job' = [j \in Jobs |-> RecoveredRow(job[j], plan[w][j])]
    /\ waiting' = {j \in waiting : plan[w][j] # "recovered"}
    /\ hist' = [j \in Jobs |-> Revive(hist[j], job[j], RecoveredRow(job[j], plan[w][j]))]
    /\ plan' = [plan EXCEPT ![w] = NoPlan]
    /\ pc' = [pc EXCEPT ![w] = "fresh"]
    /\ UNCHANGED <<stale, redisVars, task, request, faults>>

\* _promote_delayed: read the due ids, then move them in one MULTI pipeline.
PromoteScan(w) ==
    /\ pc[w] \in {"loop", "fresh"}
    /\ plan' = [plan EXCEPT ![w] =
                   [j \in Jobs |-> IF delayed[j] = "due" THEN "promote" ELSE "none"]]
    /\ pc' = [pc EXCEPT ![w] = IF \E j \in Jobs : delayed[j] = "due" THEN "promoting" ELSE "polling"]
    /\ UNCHANGED <<jobVars, redisVars, task, request, faults, hist>>

Promote(w) ==
    /\ pc[w] = "promoting"
    /\ ready' = [j \in Jobs |-> IF plan[w][j] = "promote" THEN Push(ready, j)[j] ELSE ready[j]]
    /\ delayed' = [j \in Jobs |-> IF plan[w][j] = "promote" THEN "none" ELSE delayed[j]]
    /\ plan' = [plan EXCEPT ![w] = NoPlan]
    /\ pc' = [pc EXCEPT ![w] = "polling"]
    /\ UNCHANGED <<jobVars, task, request, faults, hist>>

\* BLPOP; the list is abstracted to a bag, so any id in it may be the head.
Pop(w, j) ==
    /\ pc[w] = "polling"
    /\ ready[j] > 0
    /\ ready' = [ready EXCEPT ![j] = @ - 1]
    /\ task' = [task EXCEPT ![w] = [NoTask EXCEPT !.job = j]]
    /\ pc' = [pc EXCEPT ![w] = "claiming"]
    /\ UNCHANGED <<jobVars, delayed, plan, request, faults, hist>>

\* BLPOP returns nothing after five seconds.
PopTimeout(w) ==
    /\ pc[w] = "polling"
    /\ \A j \in Jobs : ready[j] = 0
    /\ pc' = [pc EXCEPT ![w] = "loop"]
    /\ UNCHANGED <<jobVars, redisVars, task, plan, request, faults, hist>>

-----------------------------------------------------------------------------
(* _execute: claim, handler, outcome *)

BackToLoop(w) ==
    /\ pc' = [pc EXCEPT ![w] = "loop"]
    /\ task' = [task EXCEPT ![w] = NoTask]

\* Mutant: the status is not looked at.
AcceptsRunning(row) == row.status \in Claimable \cup {"running"} /\ ~row.cancel

Accepts(row) == row.status \in Claimable /\ ~row.cancel

ClaimedRow(row) == [row EXCEPT !.status = "running", !.attempts = @ + 1]

\* SELECT ... FOR UPDATE SKIP LOCKED finds the row claimable, and it is not cancelled.
Claim(w) ==
    /\ pc[w] = "claiming"
    /\ LET j == task[w].job
       IN  /\ Accepts(job[j])
           /\ job' = [job EXCEPT ![j] = ClaimedRow(@)]
           /\ stale' = stale \ {j}
           /\ task' = [task EXCEPT ![w] = [job |-> j, attempt |-> job[j].attempts + 1, step |-> 0,
                                           saw |-> "absent", era |-> hist[j].era]]
    /\ pc' = [pc EXCEPT ![w] = "running"]
    /\ UNCHANGED <<waiting, redisVars, plan, request, faults, hist>>

\* The claim finds the cancellation flag set: the job ends without running.
ClaimCancelled(w) ==
    /\ pc[w] = "claiming"
    /\ job[task[w].job].status \in Claimable
    /\ job[task[w].job].cancel
    /\ job' = [job EXCEPT ![task[w].job].status = "cancelled"]
    /\ BackToLoop(w)
    /\ UNCHANGED <<waiting, stale, redisVars, plan, request, faults, hist>>

\* The row is running or terminal: a duplicate or outdated id is dropped.
ClaimNothing(w) ==
    /\ pc[w] = "claiming"
    /\ job[task[w].job].status \notin Claimable
    /\ BackToLoop(w)
    /\ UNCHANGED <<jobVars, redisVars, plan, request, faults, hist>>

\* SKIP LOCKED passes over a claimable row that another commit holds locked, and
\* the id is lost.  The window is one commit, so it counts as a fault.
ClaimSkipsLocked(w) ==
    /\ pc[w] = "claiming"
    /\ faults < MaxFaults
    /\ LET j == task[w].job
       IN  \/ \E r \in Requests : request[r].op \in {"cancel", "requeue"} /\ request[r].job = j
           \/ \E v \in Workers \ {w} :
                 \/ pc[v] \in {"cancelling", "finishing", "failing"} /\ task[v].job = j
                 \/ pc[v] = "recovering" /\ plan[v][j] \in ToWrite
    /\ faults' = faults + 1
    /\ BackToLoop(w)
    /\ UNCHANGED <<jobVars, redisVars, plan, request, hist>>

\* _set_progress without a cancellation: heartbeat refreshed, handler goes on.
Progress(w) ==
    /\ pc[w] = "running"
    /\ task[w].step < Checkpoints
    /\ ~job[task[w].job].cancel
    /\ task' = [task EXCEPT ![w].step = @ + 1]
    /\ stale' = stale \ {task[w].job}
    /\ UNCHANGED <<job, waiting, redisVars, pc, plan, request, faults, hist>>

\* _set_progress reads the cancellation flag ...
ProgressSeesCancel(w) ==
    /\ pc[w] = "running"
    /\ task[w].step < Checkpoints
    /\ job[task[w].job].cancel
    /\ task' = [task EXCEPT ![w].saw = job[task[w].job].status]
    /\ pc' = [pc EXCEPT ![w] = "cancelling"]
    /\ UNCHANGED <<jobVars, redisVars, plan, request, faults, hist>>

\* ... and commits the status; the handler returns None.
ProgressCancels(w) ==
    /\ pc[w] = "cancelling"
    /\ job' = [job EXCEPT ![task[w].job] = FlushStatus(@, task[w].saw, "cancelled")]
    /\ pc' = [pc EXCEPT ![w] = "returning"]
    /\ UNCHANGED <<waiting, stale, redisVars, task, plan, request, faults, hist>>

\* _execute returns, unless what it still does about the cancellation raises.
ReturnNone(w) ==
    /\ pc[w] = "returning"
    /\ BackToLoop(w)
    /\ UNCHANGED <<jobVars, redisVars, plan, request, faults, hist>>

\* The handler returned a result; the success transaction reads the row ...
FinishRead(w) ==
    /\ pc[w] = "running"
    /\ task[w].step = Checkpoints
    /\ job[task[w].job].status # "cancelled"
    /\ task' = [task EXCEPT ![w].saw = job[task[w].job].status]
    /\ pc' = [pc EXCEPT ![w] = "finishing"]
    /\ UNCHANGED <<jobVars, redisVars, plan, request, faults, hist>>

FinishSeesCancelled(w) ==
    /\ pc[w] = "running"
    /\ task[w].step = Checkpoints
    /\ job[task[w].job].status = "cancelled"
    /\ BackToLoop(w)
    /\ UNCHANGED <<jobVars, redisVars, plan, request, faults, hist>>

\* ... and commits it.
FinishCommit(w) ==
    /\ pc[w] = "finishing"
    /\ job' = [job EXCEPT ![task[w].job] = FlushStatus(@, task[w].saw, "succeeded")]
    /\ stale' = stale \ {task[w].job}
    /\ BackToLoop(w)
    /\ UNCHANGED <<waiting, redisVars, plan, request, faults, hist>>

\* The handler, or one of its transactions, raises; the except block reads the row.
HandlerRaises(w) ==
    /\ pc[w] \in {"running", "cancelling", "returning", "finishing"}
    /\ task' = [task EXCEPT ![w].saw = job[task[w].job].status]
    /\ pc' = [pc EXCEPT ![w] = "failing"]
    /\ UNCHANGED <<jobVars, redisVars, plan, request, faults, hist>>

\* A retry uses up its attempt number, unless a requeue has reset the count since.
RetryHist(h, t, row, new) ==
    IF t.era = h.era
    THEN [h EXCEPT !.retried = @ \cup {t.attempt}]
    ELSE Revive(h, row, new)

\* Mutants: one retry too many, one too few.
RetryLeftAtLimit(attempt) == attempt <= MaxAttempts
RetryLeftBeforeLimit(attempt) == attempt + 1 < MaxAttempts

RetryLeft(attempt) == attempt < MaxAttempts

\* The comparison is with the attempt number this execution claimed, not the row's.
FailRetry(w) ==
    /\ pc[w] = "failing"
    /\ RetryLeft(task[w].attempt)
    /\ LET j == task[w].job
           new == FlushStatus(job[j], task[w].saw, "retrying")
       IN  /\ job' = [job EXCEPT ![j] = new]
           /\ waiting' = waiting \cup {j}
           /\ hist' = [hist EXCEPT ![j] = RetryHist(@, task[w], job[j], new)]
    /\ pc' = [pc EXCEPT ![w] = "delaying"]
    /\ UNCHANGED <<stale, redisVars, task, plan, request, faults>>

\* ZADD after the commit, with the available_at that was committed.
ScheduleRetry(w) ==
    /\ pc[w] = "delaying"
    /\ delayed' = [delayed EXCEPT ![task[w].job] =
                      IF task[w].job \in waiting THEN "waiting" ELSE "due"]
    /\ BackToLoop(w)
    /\ UNCHANGED <<jobVars, ready, plan, request, faults, hist>>

FailDeadLetter(w) ==
    /\ pc[w] = "failing"
    /\ ~RetryLeft(task[w].attempt)
    /\ job' = [job EXCEPT ![task[w].job] = FlushStatus(@, task[w].saw, "dead_lettered")]
    /\ BackToLoop(w)
    /\ UNCHANGED <<waiting, stale, redisVars, plan, request, faults, hist>>

-----------------------------------------------------------------------------
(* Time, heartbeats, crashes *)

\* _job_heartbeat of the worker that executes the job.
HeartbeatTick(w) ==
    /\ pc[w] \in Executing
    /\ job[task[w].job].status = "running"
    /\ task[w].job \in stale
    /\ stale' = stale \ {task[w].job}
    /\ UNCHANGED <<job, waiting, redisVars, workerVars, request, faults, hist>>

Executes(w, j) == pc[w] \in Executing /\ task[w].job = j

\* 45 seconds without a heartbeat of a job that nobody executes any more.
HeartbeatExpires(j) ==
    /\ job[j].status = "running"
    /\ j \notin stale
    /\ ~ \E w \in Workers : Executes(w, j)
    /\ stale' = stale \cup {j}
    /\ UNCHANGED <<job, waiting, redisVars, workerVars, request, faults, hist>>

\* The same of a job that is being executed: its heartbeat task died of a database
\* error, or synchronous work blocked the event loop.
HeartbeatStalls(j) ==
    /\ job[j].status = "running"
    /\ j \notin stale
    /\ \E w \in Workers : Executes(w, j)
    /\ faults < MaxFaults
    /\ faults' = faults + 1
    /\ stale' = stale \cup {j}
    /\ UNCHANGED <<job, waiting, redisVars, workerVars, request, hist>>

\* The back-off delay of a retry passes, for the row and for its delayed entry.
RetryDelayElapses(j) ==
    /\ j \in waiting \/ delayed[j] = "waiting"
    /\ waiting' = waiting \ {j}
    /\ delayed' = [delayed EXCEPT ![j] = IF @ = "waiting" THEN "due" ELSE @]
    /\ UNCHANGED <<job, stale, ready, workerVars, request, faults, hist>>

\* The process is killed, or an exception outside the try block leaves main.
Crash(w) ==
    /\ pc[w] # "down"
    /\ faults < MaxFaults
    /\ faults' = faults + 1
    /\ pc' = [pc EXCEPT ![w] = "down"]
    /\ task' = [task EXCEPT ![w] = NoTask]
    /\ plan' = [plan EXCEPT ![w] = NoPlan]
    /\ UNCHANGED <<jobVars, redisVars, request, hist>>

\* restart: unless-stopped
Restart(w) ==
    /\ pc[w] = "down"
    /\ pc' = [pc EXCEPT ![w] = "starting"]
    /\ UNCHANGED <<jobVars, redisVars, task, plan, request, faults, hist>>

RedisLoss ==
    /\ faults < MaxFaults
    /\ \E j \in Jobs : ready[j] > 0 \/ delayed[j] # "none"
    /\ faults' = faults + 1
    /\ ready' = [j \in Jobs |-> 0]
    /\ delayed' = [j \in Jobs |-> "none"]
    /\ UNCHANGED <<jobVars, workerVars, request, hist>>

-----------------------------------------------------------------------------
RequestStep(r) ==
    \/ \E j \in Jobs : \/ CreateJob(r, j) \/ ResubmitJob(r, j)
                       \/ CancelRead(r, j) \/ RequeueRead(r, j)
    \/ Enqueue(r) \/ EnqueueLost(r) \/ CancelCommit(r) \/ RequeueCommit(r)

LoopStep(w) ==
    \/ RecoverScan(w) \/ RecoverCommit(w) \/ PromoteScan(w) \/ Promote(w) \/ PopTimeout(w)
    \/ \E j \in Jobs : RecoverPublish(w, j) \/ Pop(w, j)

ClaimStep(w) ==
    \/ Claim(w) \/ ClaimCancelled(w) \/ ClaimNothing(w) \/ ClaimSkipsLocked(w)

HandlerStep(w) ==
    \/ Progress(w) \/ ProgressSeesCancel(w) \/ ProgressCancels(w) \/ ReturnNone(w)
    \/ FinishRead(w) \/ FinishSeesCancelled(w) \/ FinishCommit(w)
    \/ HandlerRaises(w) \/ FailRetry(w) \/ ScheduleRetry(w) \/ FailDeadLetter(w)

WorkerStep(w) == LoopStep(w) \/ ClaimStep(w) \/ HandlerStep(w)

Environment ==
    \/ \E w \in Workers : HeartbeatTick(w) \/ Crash(w) \/ Restart(w)
    \/ \E j \in Jobs : HeartbeatExpires(j) \/ HeartbeatStalls(j) \/ RetryDelayElapses(j)
    \/ RedisLoss

Next ==
    \/ \E r \in Requests : RequestStep(r)
    \/ \E w \in Workers : WorkerStep(w)
    \/ Environment

Spec == Init /\ [][Next]_vars

\* A restarting worker process keeps taking steps; the recovery pass recurs every 30
\* seconds, the ready list is first-in first-out, and time passes.
Fairness ==
    /\ \A w \in Workers : /\ WF_vars(WorkerStep(w))
                          /\ WF_vars(Restart(w))
                          /\ SF_vars(RecoverScan(w))
                          /\ \A j \in Jobs : SF_vars(Pop(w, j))
    /\ \A j \in Jobs : /\ WF_vars(HeartbeatExpires(j))
                       /\ WF_vars(RetryDelayElapses(j))

FairSpec == Spec /\ Fairness

-----------------------------------------------------------------------------
(* Properties *)

\* Every variable has its type.
TypeOK ==
    /\ job \in [Jobs -> Row]
    /\ waiting \in SUBSET Jobs
    /\ stale \in SUBSET Jobs
    /\ ready \in [Jobs -> Nat]
    /\ delayed \in [Jobs -> {"none", "waiting", "due"}]
    /\ pc \in [Workers -> PC]
    /\ task \in [Workers -> Task]
    /\ \A w \in Workers : pc[w] \in Executing \cup {"claiming", "delaying"} => task[w].job \in Jobs
    /\ plan \in [Workers -> [Jobs -> Plan]]
    /\ request \in [Requests -> Request]
    /\ \A r \in Requests : request[r].op # "none" => request[r].job \in Jobs
    /\ faults \in Nat
    /\ hist \in [Jobs -> [era : Nat, retried : SUBSET Nat, revived : Nat, asked : BOOLEAN]]

\* However many workers, crashes, duplicate deliveries and stale commits there are, a
\* job is executed at most max_attempts times plus once for every recovery or requeue
\* commit that took it back from a state in which no worker may claim it (_execute
\* increments attempt_count without comparing it with max_attempts).
AttemptsWithinBudget ==
    \A j \in Jobs : job[j].attempts <= MaxAttempts + hist[j].revived

\* A job is dead-lettered only after its last attempt, although the except block of
\* _execute decides from an attempt number it read when it claimed the job.
DeadLetterMeansExhausted ==
    \A j \in Jobs : job[j].status = "dead_lettered" /\ hist[j].era = 0
                    => job[j].attempts >= MaxAttempts

\* Two workers run the handler of one job at the same time only after a recovery pass
\* or a requeue handed the job out again: duplicate ids in Redis, resubmissions,
\* retries and cancellations alone never make the claim in _execute succeed twice.
NoOverlapWithoutRevival ==
    \A j \in Jobs : \A v, w \in Workers :
        v # w /\ Executes(v, j) /\ Executes(w, j) => hist[j].revived > 0 \/ hist[j].era > 0

\* Once cancel_job has recorded a cancellation, no attempt of the job starts until an
\* administrator requeues the job having read the cancellation.  In between the row is written
\* from older reads: a recovery or a retry takes the cancelled job up again, progress and
\* outcome of an overlapping execution are committed, a requeue that read the dead-lettered
\* row before the cancellation commits after it; none of them may lose the flag.
AttemptsHeedCancel ==
    [][\A j \in Jobs : hist[j].asked => job'[j].attempts <= job[j].attempts]_vars

\* Every submitted job ends in a terminal status and stays there once faults and
\* requeues stop, even if its id is lost between the commit and the RPUSH, with
\* Redis, in a popped but unclaimed entry, or in a worker that dies.
EveryJobSettles ==
    \A j \in Jobs : <>[](job[j].status \in TERMINAL_STATUSES \cup {"absent"})

-----------------------------------------------------------------------------
(* The inductive invariant behind the attempt properties, one job at a time *)

\* Executions of the current era carry distinct attempt numbers, none of them used up.
AttemptNumbers(j) ==
    \A w \in Workers : Executes(w, j) =>
        /\ task[w].era <= hist[j].era
        /\ task[w].era = hist[j].era =>
              /\ task[w].attempt \in 1..job[j].attempts
              /\ task[w].attempt \notin hist[j].retried
              /\ \A v \in Workers \ {w} :
                    Executes(v, j) /\ task[v].era = hist[j].era
                    => task[v].attempt # task[w].attempt

\* Only attempts below the last one are retried, and only attempts that were made.
RetriedNumbers(j) ==
    /\ hist[j].retried \subseteq 1..(MaxAttempts - 1)
    /\ \A i \in hist[j].retried : i <= job[j].attempts

\* Attempts made, plus the one on offer, against what paid for them: the creation of
\* the job (or its last requeue), one per used-up retry, one per revival.
BudgetSpent(j) ==
    job[j].attempts + (IF job[j].status \in Claimable THEN 1 ELSE 0)
        <= 1 + hist[j].revived + Cardinality(hist[j].retried)

\* Without a revival, a job on offer is not being executed, and one in execution has
\* a single executor.
ExclusiveUnlessRevived(j) ==
    hist[j].era = 0 /\ hist[j].revived = 0 =>
        /\ job[j].status \in Claimable \cup {"absent"} => \A w \in Workers : ~Executes(w, j)
        /\ \A v, w \in Workers : Executes(v, j) /\ Executes(w, j) => v = w

JobInv(j) ==
    /\ job[j].status = "absent" => job[j].attempts = 0
    /\ job[j].status = "dead_lettered" /\ hist[j].era = 0 => job[j].attempts >= MaxAttempts
    /\ AttemptNumbers(j)
    /\ RetriedNumbers(j)
    /\ BudgetSpent(j)
    /\ ExclusiveUnlessRevived(j)

\* A cancellation asked for is on the row, whatever was committed from an older read.
CancelKept == \A j \in Jobs : hist[j].asked => job[j].cancel

\* TypeOK /\ AttemptInv is inductive, and so is TypeOK /\ CancelKept (JobProofs).
AttemptInv == \A j \in Jobs : JobInv(j)

=============================================================================
