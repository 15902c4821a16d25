------------------------------ MODULE JobProofs ------------------------------
(***************************************************************************)
(* Theorems about JobQueue, DocumentJobs and EvaluationJobs, for every set *)
(* of jobs, workers, requests, uploads and re-indexes, every number of     *)
(* attempts and checkpoints, and every bound: first what the queue         *)
(* promises whatever the handlers do, then that the document pipeline      *)
(* keeps those promises, that retrieval sees no version without its index, *)
(* that the logical document points to its active version, and that a      *)
(* re-index takes nothing away; last, that evaluation jobs keep the        *)
(* promises of the queue, and that jobs, runs and results agree.           *)
(***************************************************************************)
EXTENDS DocumentJobs, EvaluationJobs, TLAPS, FiniteSetTheorems

USE DEF jobVars, redisVars, workerVars

-----------------------------------------------------------------------------
(* Types *)

\* What the state sets contain, for the leaves that build rows and tasks.
LEMMA RowStatus ==
    ASSUME NEW row \in Row, NEW status \in Status
    PROVE  [row EXCEPT !.status = status] \in Row
BY DEF Row

LEMMA ColumnChoice ==
    ASSUME NEW S, NEW current \in S, NEW loaded, NEW new \in S
    PROVE  Column(current, loaded, new) \in S
BY DEF Column

LEMMA FlushStatusType ==
    ASSUME NEW row \in Row, NEW loaded, NEW new \in Status
    PROVE  FlushStatus(row, loaded, new) \in Row
BY DEF FlushStatus, Column, Row

LEMMA FlushType ==
    ASSUME NEW row \in Row, NEW saw \in Row, NEW new \in Row
    PROVE  Flush(row, saw, new) \in Row
BY DEF Flush, Column, Row

LEMMA RequeuedType ==
    ASSUME NEW saw
    PROVE  RequeuedRow(saw) \in Row
BY DEF RequeuedRow, Row, Status, Claimable

Hist == [era : Nat, retried : SUBSET Nat, revived : Nat, asked : BOOLEAN]

LEMMA ReviveType ==
    ASSUME NEW h \in Hist, NEW row, NEW new
    PROVE  Revive(h, row, new) \in Hist
BY DEF Revive, Hist

\* A revival counts, and leaves the rest of the history alone.
LEMMA ReviveFields ==
    ASSUME NEW h \in Hist, NEW row, NEW new
    PROVE  /\ Revive(h, row, new).era = h.era
           /\ Revive(h, row, new).retried = h.retried
           /\ Revive(h, row, new).asked = h.asked
BY DEF Revive, Hist

LEMMA EmptyRecords ==
    /\ NewRow \in Row
    /\ NoTask \in Task
    /\ NoPlan \in [Jobs -> Plan]
    /\ NoRequest \in Request
    /\ \A j \in Jobs : [NoTask EXCEPT !.job = j] \in Task
    /\ \A j \in Jobs : [NoRequest EXCEPT !.op = "enqueue", !.job = j] \in Request
<1>1. NewRow \in Row
  BY DEF NewRow, Row, Status
<1>2. NoTask \in Task /\ \A j \in Jobs : [NoTask EXCEPT !.job = j] \in Task
  BY CheckpointsAssumption DEF NoTask, Task, Status
<1>3. NoPlan \in [Jobs -> Plan]
  BY DEF NoPlan, Plan
<1>4. NoRequest \in Request
  BY <1>1 DEF NoRequest, Request
<1>5. \A j \in Jobs : [NoRequest EXCEPT !.op = "enqueue", !.job = j] \in Request
  BY <1>1 DEF NoRequest, Request
<1> QED
  BY <1>1, <1>2, <1>3, <1>4, <1>5

LEMMA PushType ==
    ASSUME NEW r \in [Jobs -> Nat], NEW j \in Jobs
    PROVE  Push(r, j) \in [Jobs -> Nat]
BY DEF Push

LEMMA InitTypeOK == Init => TypeOK
<1> SUFFICES ASSUME Init PROVE TypeOK
  OBVIOUS
<1>1. job \in [Jobs -> Row] /\ task \in [Workers -> Task] /\ plan \in [Workers -> [Jobs -> Plan]]
  BY EmptyRecords DEF Init
<1>2. request \in [Requests -> Request] /\ \A r \in Requests : request[r].op = "none"
  BY EmptyRecords DEF Init, NoRequest
<1>3. pc \in [Workers -> PC] /\ \A w \in Workers : pc[w] = "starting"
  BY DEF Init, PC
<1>4. hist \in [Jobs -> [era : Nat, retried : SUBSET Nat, revived : Nat, asked : BOOLEAN]]
  BY DEF Init
<1>5. waiting \in SUBSET Jobs /\ stale \in SUBSET Jobs /\ ready \in [Jobs -> Nat] /\ faults \in Nat
      /\ delayed \in [Jobs -> {"none", "waiting", "due"}]
  BY DEF Init
<1> QED
  BY <1>1, <1>2, <1>3, <1>4, <1>5 DEF TypeOK, Executing

\* The state functions of a worker, in the form in which the steps change them.
WorkerTypes ==
    /\ pc \in [Workers -> PC]
    /\ task \in [Workers -> Task]
    /\ \A w \in Workers : pc[w] \in Executing \cup {"claiming", "delaying"} => task[w].job \in Jobs
    /\ plan \in [Workers -> [Jobs -> Plan]]

LEMMA BackToLoopTypes ==
    ASSUME TypeOK, NEW w \in Workers, BackToLoop(w), UNCHANGED plan
    PROVE  WorkerTypes'
BY CheckpointsAssumption
   DEF TypeOK, WorkerTypes, BackToLoop, PC, Executing, Task, NoTask, Status

LEMMA RequestTypeOK ==
    ASSUME TypeOK, NEW r \in Requests, RequestStep(r)
    PROVE  TypeOK'
<1>1. ASSUME NEW j \in Jobs, CreateJob(r, j) PROVE TypeOK'
  <2>1. [job[j] EXCEPT !.status = "queued"] \in Row
    BY RowStatus DEF TypeOK, Status, Claimable
  <2> QED
    BY <1>1, <2>1, EmptyRecords DEF TypeOK, CreateJob, NoRequest
<1>2. ASSUME NEW j \in Jobs, ResubmitJob(r, j) PROVE TypeOK'
  BY <1>2, EmptyRecords DEF TypeOK, ResubmitJob, NoRequest
<1>3. ASSUME NEW j \in Jobs, CancelRead(r, j) PROVE TypeOK'
  BY <1>3 DEF TypeOK, CancelRead, Request
<1>4. ASSUME NEW j \in Jobs, RequeueRead(r, j) PROVE TypeOK'
  BY <1>4 DEF TypeOK, RequeueRead, Request
<1>5. ASSUME Enqueue(r) PROVE TypeOK'
  <2>1. request[r].job \in Jobs
    BY <1>5 DEF Enqueue, TypeOK
  <2>2. ready' \in [Jobs -> Nat]
    BY <1>5, <2>1, PushType DEF Enqueue, TypeOK
  <2> QED
    BY <1>5, <2>2, EmptyRecords DEF TypeOK, Enqueue, NoRequest
<1>6. ASSUME EnqueueLost(r) PROVE TypeOK'
  BY <1>6, EmptyRecords DEF TypeOK, EnqueueLost, NoRequest
<1>7. ASSUME CancelCommit(r) PROVE TypeOK'
  <2> DEFINE j == request[r].job
             saw == request[r].saw
  <2>1. j \in Jobs /\ saw \in Row /\ job[j] \in Row
    BY <1>7 DEF CancelCommit, TypeOK, Request
  <2>2. CancelledRow(saw) \in Row
    BY <2>1 DEF CancelledRow, Row, Status, Claimable, TERMINAL_STATUSES
  <2>3. Flush(job[j], saw, CancelledRow(saw)) \in Row
    BY <2>1, <2>2, FlushType
  <2>4. job' \in [Jobs -> Row]
    BY <1>7, <2>1, <2>3 DEF CancelCommit, TypeOK
  <2>5. hist' \in [Jobs -> Hist]
    <3>1. hist[j] \in Hist /\ saw.cancel \in BOOLEAN
      BY <2>1 DEF TypeOK, Hist, Row
    <3>2. [hist[j] EXCEPT !.asked = hist[j].asked \/ ~saw.cancel] \in Hist
      BY <3>1 DEF Hist
    <3> QED
      BY <1>7, <2>1, <3>2 DEF CancelCommit, TypeOK, Hist
  <2> QED
    BY <1>7, <2>4, <2>5, EmptyRecords DEF TypeOK, Hist, CancelCommit, NoRequest
<1>8. ASSUME RequeueCommit(r) PROVE TypeOK'
  <2> DEFINE j == request[r].job
             saw == request[r].saw
             new == Flush(job[j], saw, RequeuedRow(saw))
  <2>1. j \in Jobs /\ saw \in Row /\ job[j] \in Row
    BY <1>8 DEF RequeueCommit, TypeOK, Request
  <2>2. RequeuedRow(saw) \in Row
    BY <2>1 DEF RequeuedRow, Row, Status, Claimable
  <2>3. new \in Row
    BY <2>1, <2>2, FlushType
  <2>4. job' \in [Jobs -> Row]
    BY <1>8, <2>1, <2>3 DEF RequeueCommit, TypeOK
  <2>5. RequeueHist(hist[j], saw, job[j], new) \in Hist
    <3> DEFINE h == hist[j]
    <3>1. h \in Hist
      BY <2>1 DEF TypeOK, Hist
    <3>2. [Revive(h, job[j], new) EXCEPT !.asked = h.asked /\ ~saw.cancel] \in Hist
      <4>1. Revive(h, job[j], new) \in Hist
        BY <3>1, ReviveType
      <4> QED
        BY <4>1 DEF Hist
    <3>3. [era |-> h.era + 1, retried |-> {}, revived |-> 0, asked |-> h.asked /\ ~saw.cancel] \in Hist
      BY <3>1 DEF Hist
    <3> QED
      BY <3>2, <3>3 DEF RequeueHist
  <2>6. hist' \in [Jobs -> Hist]
    BY <1>8, <2>1, <2>5 DEF RequeueCommit, TypeOK, Hist
  <2> QED
    BY <1>8, <2>1, <2>4, <2>6, EmptyRecords DEF TypeOK, Hist, RequeueCommit, NoRequest
<1> QED
  BY <1>1, <1>2, <1>3, <1>4, <1>5, <1>6, <1>7, <1>8 DEF RequestStep

LEMMA RecoveredRowType ==
    ASSUME NEW row \in Row, NEW p
    PROVE  RecoveredRow(row, p) \in Row
<1>1. CASE p = "cancel"
  BY <1>1, RowStatus DEF RecoveredRow, Status, TERMINAL_STATUSES
<1>2. CASE p \in {"recovered", "requeued"}
  BY <1>2, RowStatus DEF RecoveredRow, Status, Claimable
<1>3. CASE p \notin {"cancel", "recovered", "requeued"}
  BY <1>3 DEF RecoveredRow, Row
<1> QED
  BY <1>1, <1>2, <1>3

LEMMA LoopTypeOK ==
    ASSUME TypeOK, NEW w \in Workers, LoopStep(w)
    PROVE  TypeOK'
<1>1. ASSUME RecoverScan(w) PROVE TypeOK'
  <2>1. [j \in Jobs |-> RecoveryPlan(job[j], j \in waiting, j \in stale)] \in [Jobs -> Plan]
    BY DEF RecoveryPlan, Recoverable, Plan, ToPublish, ToWrite
  <2> QED
    BY <1>1, <2>1 DEF TypeOK, RecoverScan, PC, Executing
<1>2. ASSUME NEW j \in Jobs, RecoverPublish(w, j) PROVE TypeOK'
  <2>1. plan' \in [Workers -> [Jobs -> Plan]]
    BY <1>2 DEF TypeOK, RecoverPublish, Plan, ToPublish, ToWrite
  <2>2. ready' \in [Jobs -> Nat] /\ delayed' \in [Jobs -> {"none", "waiting", "due"}]
    <3>1. Push(ready, j) \in [Jobs -> Nat]
      BY PushType DEF TypeOK
    <3>2. CASE plan[w][j] = "delay"
      BY <1>2, <3>2 DEF TypeOK, RecoverPublish
    <3>3. CASE plan[w][j] # "delay"
      BY <1>2, <3>1, <3>3 DEF TypeOK, RecoverPublish
    <3> QED
      BY <3>2, <3>3
  <2> QED
    BY <1>2, <2>1, <2>2 DEF TypeOK, RecoverPublish
<1>3. ASSUME RecoverCommit(w) PROVE TypeOK'
  <2>1. job' \in [Jobs -> Row]
    BY <1>3, RecoveredRowType DEF TypeOK, RecoverCommit
  <2>2. hist' \in [Jobs -> Hist]
    BY <1>3, ReviveType DEF TypeOK, RecoverCommit, Hist
  <2>3. pc' \in [Workers -> PC] /\ pc'[w] = "fresh" /\ \A v \in Workers \ {w} : pc'[v] = pc[v]
    BY <1>3 DEF TypeOK, RecoverCommit, PC
  <2>4. plan' \in [Workers -> [Jobs -> Plan]]
    BY <1>3, EmptyRecords DEF TypeOK, RecoverCommit
  <2>5. waiting' \in SUBSET Jobs
    BY <1>3 DEF TypeOK, RecoverCommit
  <2> QED
    BY <1>3, <2>1, <2>2, <2>3, <2>4, <2>5 DEF TypeOK, RecoverCommit, Hist, Executing
<1>4. ASSUME PromoteScan(w) PROVE TypeOK'
  BY <1>4 DEF TypeOK, PromoteScan, PC, Executing, Plan
<1>5. ASSUME Promote(w) PROVE TypeOK'
  <2>1. ASSUME NEW j \in Jobs PROVE Push(ready, j)[j] \in Nat
    <3>1. Push(ready, j) \in [Jobs -> Nat]
      BY PushType DEF TypeOK
    <3> QED
      BY <3>1
  <2>2. ready' \in [Jobs -> Nat] /\ delayed' \in [Jobs -> {"none", "waiting", "due"}]
    BY <1>5, <2>1 DEF TypeOK, Promote
  <2> QED
    BY <1>5, <2>2, EmptyRecords DEF TypeOK, Promote, PC, Executing
<1>6. ASSUME NEW j \in Jobs, Pop(w, j) PROVE TypeOK'
  <2>1. ready' \in [Jobs -> Nat]
    BY <1>6 DEF TypeOK, Pop
  <2>2. task' \in [Workers -> Task] /\ task'[w].job = j
    BY <1>6, EmptyRecords DEF TypeOK, Pop, NoTask
  <2> QED
    BY <1>6, <2>1, <2>2 DEF TypeOK, Pop, PC
<1>7. ASSUME PopTimeout(w) PROVE TypeOK'
  BY <1>7 DEF TypeOK, PopTimeout, PC, Executing
<1> QED
  BY <1>1, <1>2, <1>3, <1>4, <1>5, <1>6, <1>7 DEF LoopStep

LEMMA ExecuteTypeOK ==
    ASSUME TypeOK, NEW w \in Workers, ClaimStep(w) \/ HandlerStep(w)
    PROVE  TypeOK'
<1> DEFINE j == task[w].job
<1>a. pc[w] \in Executing \cup {"claiming", "delaying"} => j \in Jobs /\ job[j] \in Row
  BY DEF TypeOK
<1>b. /\ task[w] \in Task
      /\ \A s \in Status : [task[w] EXCEPT !.saw = s] \in Task
  <2>1. task[w] \in Task
    BY DEF TypeOK
  <2> QED
    BY <2>1 DEF Task
<1>1. ASSUME Claim(w) PROVE TypeOK'
  <2>1. j \in Jobs /\ job[j] \in Row
    BY <1>1, <1>a DEF Claim
  <2>2. job' \in [Jobs -> Row]
    <3>1. [status |-> "running", cancel |-> job[j].cancel, attempts |-> job[j].attempts + 1] \in Row
      BY <2>1 DEF Row, Status
    <3>2. job'[j] = [status |-> "running", cancel |-> job[j].cancel, attempts |-> job[j].attempts + 1]
      BY <1>1, <2>1 DEF Claim, Accepts, ClaimedRow, TypeOK, Row
    <3> QED
      BY <1>1, <2>1, <3>1, <3>2 DEF Claim, Accepts, ClaimedRow, TypeOK
  <2>3. task' \in [Workers -> Task] /\ task'[w].job \in Jobs
    BY <1>1, <2>1, CheckpointsAssumption DEF Claim, TypeOK, Task, Row, Status
  <2> QED
    BY <1>1, <2>2, <2>3 DEF TypeOK, Claim, PC
<1>2. ASSUME ClaimCancelled(w) PROVE TypeOK'
  <2>1. j \in Jobs /\ [job[j] EXCEPT !.status = "cancelled"] \in Row
    BY <1>2, <1>a, RowStatus DEF ClaimCancelled, Status, TERMINAL_STATUSES
  <2> QED
    BY <1>2, <2>1, BackToLoopTypes DEF TypeOK, ClaimCancelled, WorkerTypes
<1>3. ASSUME ClaimNothing(w) PROVE TypeOK'
  BY <1>3, BackToLoopTypes DEF TypeOK, ClaimNothing, WorkerTypes
<1>4. ASSUME ClaimSkipsLocked(w) PROVE TypeOK'
  BY <1>4, BackToLoopTypes DEF TypeOK, ClaimSkipsLocked, WorkerTypes
<1>5. ASSUME Progress(w) PROVE TypeOK'
  <2>1. [task[w] EXCEPT !.step = @ + 1] \in Task
    BY <1>5, <1>b, CheckpointsAssumption DEF Progress, Task
  <2> QED
    BY <1>5, <2>1 DEF TypeOK, Progress
<1>6. ASSUME ProgressSeesCancel(w) \/ FinishRead(w) \/ HandlerRaises(w) PROVE TypeOK'
  <2>1. pc[w] \in Executing
    BY <1>6 DEF ProgressSeesCancel, FinishRead, HandlerRaises, Executing
  <2>2. j \in Jobs /\ job[j].status \in Status
    BY <2>1, <1>a DEF Row
  <2>3. task' = [task EXCEPT ![w].saw = job[j].status] /\ pc' \in [Workers -> PC]
        /\ \A v \in Workers \ {w} : pc'[v] = pc[v]
    BY <1>6 DEF ProgressSeesCancel, FinishRead, HandlerRaises, TypeOK, PC
  <2>4. task' \in [Workers -> Task] /\ \A v \in Workers : task'[v].job = task[v].job
    BY <2>2, <2>3, <1>b DEF TypeOK, Task
  <2>5. UNCHANGED <<jobVars, redisVars, plan, request, faults, hist>>
    BY <1>6 DEF ProgressSeesCancel, FinishRead, HandlerRaises
  <2> QED
    BY <2>2, <2>3, <2>4, <2>5 DEF TypeOK
<1>7. ASSUME FinishCommit(w) \/ FailDeadLetter(w) PROVE TypeOK'
  <2>1. j \in Jobs /\ job[j] \in Row
    BY <1>7, <1>a DEF FinishCommit, FailDeadLetter, Executing
  <2>2. job' \in [Jobs -> Row]
    <3>1. \A s \in {"succeeded", "dead_lettered"} :
              FlushStatus(job[j], task[w].saw, s) \in Row
      BY <2>1, FlushStatusType DEF Status, TERMINAL_STATUSES
    <3> QED
      BY <1>7, <2>1, <3>1 DEF TypeOK, FinishCommit, FailDeadLetter
  <2>3. WorkerTypes'
    BY <1>7, BackToLoopTypes DEF FinishCommit, FailDeadLetter
  <2> QED
    BY <1>7, <2>2, <2>3 DEF TypeOK, WorkerTypes, FinishCommit, FailDeadLetter
<1>8. ASSUME FinishSeesCancelled(w) \/ ReturnNone(w) PROVE TypeOK'
  BY <1>8, BackToLoopTypes DEF TypeOK, WorkerTypes, FinishSeesCancelled, ReturnNone
<1>11. ASSUME ProgressCancels(w) PROVE TypeOK'
  <2>1. j \in Jobs /\ job[j] \in Row
    BY <1>11, <1>a DEF ProgressCancels, Executing
  <2>2. FlushStatus(job[j], task[w].saw, "cancelled") \in Row
    BY <2>1, FlushStatusType DEF Status, TERMINAL_STATUSES
  <2>3. job' \in [Jobs -> Row]
    BY <1>11, <2>1, <2>2 DEF TypeOK, ProgressCancels
  <2> QED
    BY <1>11, <2>1, <2>3 DEF TypeOK, ProgressCancels, PC
<1>9. ASSUME FailRetry(w) PROVE TypeOK'
  <2> DEFINE new == FlushStatus(job[j], task[w].saw, "retrying")
  <2>1. j \in Jobs /\ job[j] \in Row
    BY <1>9, <1>a DEF FailRetry, Executing
  <2>2. new \in Row
    BY <2>1, FlushStatusType DEF Status, Claimable
  <2>3. RetryHist(hist[j], task[w], job[j], new) \in Hist
    <3>1. hist[j] \in Hist
      BY <2>1 DEF TypeOK, Hist
    <3>2. Revive(hist[j], job[j], new) \in Hist
      BY <3>1, ReviveType
    <3>3. [hist[j] EXCEPT !.retried = @ \cup {task[w].attempt}] \in Hist
      BY <3>1, <1>b DEF Hist, Task
    <3> QED
      BY <3>2, <3>3 DEF RetryHist
  <2>4. job' \in [Jobs -> Row] /\ hist' \in [Jobs -> Hist] /\ waiting' \in SUBSET Jobs
    BY <1>9, <2>1, <2>2, <2>3 DEF TypeOK, FailRetry, RetryLeft, Hist
  <2> QED
    BY <1>9, <2>1, <2>4 DEF TypeOK, Hist, FailRetry, RetryLeft, PC
<1>10. ASSUME ScheduleRetry(w) PROVE TypeOK'
  <2>1. delayed' \in [Jobs -> {"none", "waiting", "due"}]
    BY <1>10 DEF TypeOK, ScheduleRetry
  <2> QED
    BY <1>10, <2>1, BackToLoopTypes DEF TypeOK, WorkerTypes, ScheduleRetry
<1> QED
  BY <1>1, <1>2, <1>3, <1>4, <1>5, <1>6, <1>7, <1>8, <1>9, <1>10, <1>11
  DEF ClaimStep, HandlerStep

LEMMA EnvironmentTypeOK ==
    ASSUME TypeOK, Environment
    PROVE  TypeOK'
<1>1. ASSUME NEW w \in Workers, HeartbeatTick(w) PROVE TypeOK'
  BY <1>1 DEF TypeOK, HeartbeatTick
<1>2. ASSUME NEW w \in Workers, Crash(w) PROVE TypeOK'
  <2>1. pc' \in [Workers -> PC] /\ pc'[w] = "down" /\ \A v \in Workers \ {w} : pc'[v] = pc[v]
    BY <1>2 DEF TypeOK, Crash, PC
  <2>2. task' \in [Workers -> Task] /\ \A v \in Workers \ {w} : task'[v] = task[v]
    BY <1>2, EmptyRecords DEF TypeOK, Crash
  <2>3. plan' \in [Workers -> [Jobs -> Plan]]
    BY <1>2, EmptyRecords DEF TypeOK, Crash
  <2>4. faults' \in Nat
    BY <1>2 DEF TypeOK, Crash
  <2> QED
    BY <1>2, <2>1, <2>2, <2>3, <2>4 DEF TypeOK, Crash, Executing
<1>3. ASSUME NEW w \in Workers, Restart(w) PROVE TypeOK'
  BY <1>3 DEF TypeOK, Restart, PC, Executing
<1>4. ASSUME NEW j \in Jobs, HeartbeatExpires(j) \/ HeartbeatStalls(j) PROVE TypeOK'
  BY <1>4 DEF TypeOK, HeartbeatExpires, HeartbeatStalls
<1>5. ASSUME NEW j \in Jobs, RetryDelayElapses(j) PROVE TypeOK'
  BY <1>5 DEF TypeOK, RetryDelayElapses
<1>6. ASSUME RedisLoss PROVE TypeOK'
  BY <1>6 DEF TypeOK, RedisLoss
<1> QED
  BY <1>1, <1>2, <1>3, <1>4, <1>5, <1>6 DEF Environment

LEMMA StepTypeOK == TypeOK /\ [Next]_vars => TypeOK'
<1> SUFFICES ASSUME TypeOK, [Next]_vars PROVE TypeOK'
  OBVIOUS
<1>1. CASE UNCHANGED vars
  BY <1>1 DEF TypeOK, vars
<1> QED
  BY <1>1, RequestTypeOK, LoopTypeOK, ExecuteTypeOK, EnvironmentTypeOK DEF Next, WorkerStep

\* Every variable has its type in every reachable state.
THEOREM TypeCorrect == Spec => []TypeOK
BY InitTypeOK, StepTypeOK, PTL DEF Spec

-----------------------------------------------------------------------------
(* The attempt invariant *)

\* What a step may do to a job's row and history without spending or adding attempts.
QuietJob(j) ==
    /\ job'[j].attempts = job[j].attempts
    /\ hist'[j].era = hist[j].era
    /\ hist'[j].retried = hist[j].retried
    /\ hist'[j].revived >= hist[j].revived
    /\ job'[j].status \in Claimable
       => job[j].status \in Claimable \cup {"absent"} \/ hist'[j].revived > hist[j].revived
    /\ job'[j].status = "absent" => job[j].status = "absent"
    /\ job'[j].status = "dead_lettered" => job[j].status = "dead_lettered"

\* No worker starts to execute the job, and those that go on keep their numbers.
SameExecutors(j) ==
    \A w \in Workers : Executes(w, j)' => /\ Executes(w, j)
                                          /\ task'[w].attempt = task[w].attempt
                                          /\ task'[w].era = task[w].era

LEMMA JobTypes ==
    ASSUME TypeOK, NEW j \in Jobs
    PROVE  /\ job[j] \in Row /\ job[j].status \in Status /\ job[j].attempts \in Nat
           /\ hist[j] \in Hist
           /\ hist[j].era \in Nat /\ hist[j].revived \in Nat /\ hist[j].retried \in SUBSET Nat
BY DEF TypeOK, Row, Hist

LEMMA TaskTypes ==
    ASSUME TypeOK, NEW w \in Workers
    PROVE  /\ task[w] \in Task /\ task[w].attempt \in Nat /\ task[w].era \in Nat
           /\ pc[w] \in Executing \cup {"claiming", "delaying"} => task[w].job \in Jobs
BY DEF TypeOK, Task

LEMMA RetriedFinite ==
    ASSUME NEW S, S \subseteq 1..(MaxAttempts - 1)
    PROVE  IsFiniteSet(S) /\ Cardinality(S) \in Nat /\ Cardinality(S) <= MaxAttempts - 1
<1>1. MaxAttempts - 1 \in Nat
  BY MaxAttemptsAssumption
<1>2. IsFiniteSet(1..(MaxAttempts - 1)) /\ Cardinality(1..(MaxAttempts - 1)) = MaxAttempts - 1
  BY <1>1, FS_Interval
<1> QED
  BY <1>1, <1>2, FS_Subset, FS_CardinalityType

LEMMA QuietPreserves ==
    ASSUME TypeOK, TypeOK', NEW j \in Jobs, JobInv(j), QuietJob(j), SameExecutors(j)
    PROVE  JobInv(j)'
<1>a. job[j].attempts \in Nat /\ hist[j].era \in Nat /\ hist[j].revived \in Nat
  BY JobTypes
<1>b. hist'[j].revived \in Nat
  BY DEF TypeOK
<1>t. /\ job[j].attempts \in Nat /\ hist[j].era \in Nat /\ hist[j].revived \in Nat
      /\ hist'[j].revived \in Nat
  BY <1>a, <1>b
<1>1. (job[j].status = "absent" => job[j].attempts = 0)'
  BY DEF JobInv, QuietJob
<1>2. (job[j].status = "dead_lettered" /\ hist[j].era = 0 => job[j].attempts >= MaxAttempts)'
  BY DEF JobInv, QuietJob
<1>3. AttemptNumbers(j)'
  BY DEF JobInv, QuietJob, SameExecutors, AttemptNumbers
<1>4. RetriedNumbers(j)'
  BY DEF JobInv, QuietJob, RetriedNumbers
<1>5. BudgetSpent(j)'
  <2> DEFINE c == Cardinality(hist[j].retried)
  <2>1. c \in Nat /\ Cardinality(hist'[j].retried) = c
    BY RetriedFinite DEF JobInv, QuietJob, RetriedNumbers
  <2>2. CASE job'[j].status \notin Claimable
    BY <1>t, <2>1, <2>2 DEF JobInv, QuietJob, BudgetSpent
  <2>3. CASE job'[j].status \in Claimable /\ job[j].status \in Claimable
    BY <1>t, <2>1, <2>3 DEF JobInv, QuietJob, BudgetSpent
  <2>4. CASE job'[j].status \in Claimable /\ job[j].status = "absent"
    BY <1>t, <2>1, <2>4 DEF JobInv, QuietJob, BudgetSpent
  <2>5. CASE job'[j].status \in Claimable /\ hist'[j].revived > hist[j].revived
    BY <1>t, <2>1, <2>5 DEF JobInv, QuietJob, BudgetSpent
  <2> QED
    BY <2>2, <2>3, <2>4, <2>5 DEF QuietJob
<1>6. ExclusiveUnlessRevived(j)'
  BY <1>t DEF JobInv, QuietJob, SameExecutors, ExclusiveUnlessRevived
<1> QED
  BY <1>1, <1>2, <1>3, <1>4, <1>5, <1>6 DEF JobInv

\* A commit recorded with Revive is quiet: it adds a revival when it offers the job.
LEMMA ReviveQuiet ==
    ASSUME TypeOK, NEW j \in Jobs, NEW new \in Row,
           job'[j] = new,
           hist'[j].era = hist[j].era, hist'[j].retried = hist[j].retried,
           hist'[j].revived = Revive(hist[j], job[j], new).revived,
           new.attempts = job[j].attempts,
           new.status \in {job[j].status, "queued", "cancelled", "succeeded", "retrying"}
    PROVE  QuietJob(j)
<1>1. hist[j] \in Hist /\ hist[j].revived \in Nat
  BY JobTypes
<1>2. /\ hist'[j].era = hist[j].era /\ hist'[j].retried = hist[j].retried
      /\ hist'[j].revived >= hist[j].revived
  BY <1>1 DEF Revive, Hist
<1>3. new.status \in Claimable /\ job[j].status \notin Claimable
      => hist'[j].revived > hist[j].revived
  BY <1>1 DEF Revive, Hist
<1> QED
  BY <1>2, <1>3 DEF QuietJob, Claimable

LEMMA UnchangedQuiet ==
    ASSUME TypeOK, NEW j \in Jobs, job'[j] = job[j], hist'[j] = hist[j]
    PROVE  QuietJob(j)
BY JobTypes DEF QuietJob

\* The commit of a status that is no offer and no dead letter leaves the rest alone.
LEMMA FlushStatusQuiet ==
    ASSUME TypeOK, NEW j \in Jobs, NEW loaded, NEW s \in {"cancelled", "succeeded"},
           job'[j] = FlushStatus(job[j], loaded, s), hist'[j] = hist[j]
    PROVE  QuietJob(j)
BY JobTypes DEF QuietJob, FlushStatus, Column, Row, Claimable

LEMMA FlushStatusFields ==
    ASSUME NEW row \in Row, NEW loaded, NEW s
    PROVE  /\ FlushStatus(row, loaded, s).attempts = row.attempts
           /\ FlushStatus(row, loaded, s).status \in {row.status, s}
BY DEF FlushStatus, Column, Row

LEMMA RequestAttemptInv ==
    ASSUME TypeOK, TypeOK', AttemptInv, NEW r \in Requests, RequestStep(r)
    PROVE  AttemptInv'
<1> SUFFICES ASSUME NEW k \in Jobs PROVE JobInv(k)'
  BY DEF AttemptInv
<1>a. JobInv(k) /\ job[k] \in Row /\ hist[k] \in Hist
  BY JobTypes DEF AttemptInv
<1>b. UNCHANGED workerVars => SameExecutors(k)
  BY DEF SameExecutors, Executes
<1>1. ASSUME NEW j \in Jobs, CreateJob(r, j) PROVE JobInv(k)'
  <2>1. QuietJob(k)
    <3>1. CASE k = j
      BY <1>1, <1>a, <3>1, JobTypes DEF CreateJob, QuietJob, Claimable, TypeOK, Row
    <3>2. CASE k # j
      BY <1>1, <3>2, UnchangedQuiet DEF CreateJob, TypeOK
    <3> QED
      BY <3>1, <3>2
  <2> QED
    BY <1>1, <1>a, <1>b, <2>1, QuietPreserves DEF CreateJob
<1>2. ASSUME UNCHANGED <<job, hist, workerVars>> PROVE JobInv(k)'
  BY <1>2, <1>a, <1>b, UnchangedQuiet, QuietPreserves
<1>3. ASSUME CancelCommit(r) PROVE JobInv(k)'
  <2> DEFINE j == request[r].job
             saw == request[r].saw
  <2>1. /\ j \in Jobs /\ saw \in Row
        /\ hist' = [hist EXCEPT ![j] = [hist[j] EXCEPT !.asked = hist[j].asked \/ ~saw.cancel]]
    BY <1>3 DEF CancelCommit, TypeOK, Request
  <2>2. QuietJob(k)
    <3>1. CASE k = j
      <4>1. job'[k] = Flush(job[k], saw, CancelledRow(saw))
        BY <1>3, <2>1, <3>1 DEF CancelCommit, TypeOK
      <4>2. /\ CancelledRow(saw).attempts = saw.attempts
            /\ CancelledRow(saw).status \in {saw.status, "cancelled"}
        BY <2>1 DEF CancelledRow, Row
      <4>3. /\ job'[k].attempts = job[k].attempts
            /\ job'[k].status \in {job[k].status, "cancelled"}
        BY <4>1, <4>2 DEF Flush, Column
      <4>4. hist[k] \in Hist /\ hist'[k] = [hist[k] EXCEPT !.asked = hist[k].asked \/ ~saw.cancel]
        BY <2>1, <3>1, JobTypes DEF TypeOK
      <4>5. /\ hist'[k].era = hist[k].era /\ hist'[k].retried = hist[k].retried
            /\ hist'[k].revived = hist[k].revived
        BY <4>4 DEF Hist
      <4> QED
        BY <2>1, <4>3, <4>5, JobTypes DEF QuietJob, Claimable
    <3>2. CASE k # j
      BY <1>3, <2>1, <3>2, UnchangedQuiet DEF CancelCommit, TypeOK
    <3> QED
      BY <3>1, <3>2
  <2> QED
    BY <1>3, <1>a, <1>b, <2>2, QuietPreserves DEF CancelCommit
<1>4. ASSUME RequeueCommit(r) PROVE JobInv(k)'
  <2> DEFINE j == request[r].job
             saw == request[r].saw
             new == Flush(job[j], saw, RequeuedRow(saw))
  <2>1. j \in Jobs /\ saw \in Row
    BY <1>4 DEF RequeueCommit, TypeOK, Request
  <2>2. job' = [job EXCEPT ![j] = new] /\ hist' = [hist EXCEPT ![j] = RequeueHist(@, saw, job[j], new)]
    BY <1>4 DEF RequeueCommit
  <2>3. SameExecutors(k)
    BY <1>4, <1>b DEF RequeueCommit
  <2>4. CASE k # j
    BY <1>a, <2>2, <2>3, <2>4, UnchangedQuiet, QuietPreserves DEF TypeOK
  <2>5. CASE k = j /\ saw.attempts = 0
    <3>1. job'[k] = new /\ hist'[k] = RequeueHist(hist[k], saw, job[k], new)
      BY <2>1, <2>2, <2>5 DEF TypeOK
    <3>4. hist'[k] = [Revive(hist[k], job[k], new) EXCEPT !.asked = hist[k].asked /\ ~saw.cancel]
      BY <2>5, <3>1 DEF RequeueHist
    <3>5. Revive(hist[k], job[k], new) \in Hist
      BY JobTypes, ReviveType
    <3>6. /\ hist'[k].era = hist[k].era /\ hist'[k].retried = hist[k].retried
          /\ hist'[k].revived = Revive(hist[k], job[k], new).revived
      BY <3>4, <3>5, JobTypes, ReviveFields DEF Hist
    <3>7. new \in Row
      BY <2>1, <2>5, JobTypes, RequeuedType, FlushType
    <3>2. new.attempts = job[k].attempts /\ new.status \in {job[k].status, "queued"}
      BY <2>5 DEF Flush, Column, RequeuedRow
    <3>3. QuietJob(k)
      BY <3>1, <3>2, <3>6, <3>7, ReviveQuiet
    <3> QED
      BY <1>a, <2>3, <3>3, QuietPreserves
  <2>6. CASE k = j /\ saw.attempts # 0
    <3>1. /\ job'[k].attempts = 0
          /\ job'[k].status \in {job[k].status, "queued"}
          /\ hist'[k] = [era |-> hist[k].era + 1, retried |-> {}, revived |-> 0,
                         asked |-> hist[k].asked /\ ~saw.cancel]
      BY <2>1, <2>2, <2>6 DEF Flush, Column, RequeueHist, RequeuedRow, TypeOK
    <3>2. hist[k].era \in Nat
      BY JobTypes
    <3>3. AttemptNumbers(k)'
      BY <1>a, <2>3, <3>1, <3>2, TaskTypes DEF JobInv, AttemptNumbers, SameExecutors
    <3>4. RetriedNumbers(k)'
      BY <3>1 DEF RetriedNumbers
    <3>5. BudgetSpent(k)'
      BY <3>1, FS_EmptySet DEF BudgetSpent
    <3>6. ExclusiveUnlessRevived(k)'
      BY <3>1, <3>2 DEF ExclusiveUnlessRevived
    <3> QED
      BY <3>1, <3>2, <3>3, <3>4, <3>5, <3>6 DEF JobInv
  <2> QED
    BY <2>4, <2>5, <2>6
<1> QED
  BY <1>1, <1>2, <1>3, <1>4
  DEF RequestStep, ResubmitJob, CancelRead, RequeueRead, Enqueue, EnqueueLost

\* A worker that changes its program counter without starting an execution.
LEMMA LeaveExecutors ==
    ASSUME TypeOK, NEW k \in Jobs, NEW w \in Workers,
           pc' = [pc EXCEPT ![w] = pc'[w]],
           pc'[w] \notin Executing,
           \A v \in Workers \ {w} : task'[v] = task[v]
    PROVE  SameExecutors(k)
<1> SUFFICES ASSUME NEW v \in Workers, Executes(v, k)'
             PROVE  /\ Executes(v, k)
                    /\ task'[v].attempt = task[v].attempt
                    /\ task'[v].era = task[v].era
  BY DEF SameExecutors
<1>1. v # w
  BY DEF Executes
<1> QED
  BY <1>1 DEF Executes, TypeOK

LEMMA BackToLoopExecutors ==
    ASSUME TypeOK, NEW k \in Jobs, NEW w \in Workers, BackToLoop(w)
    PROVE  SameExecutors(k) /\ ~Executes(w, k)'
<1>1. pc' = [pc EXCEPT ![w] = pc'[w]] /\ pc'[w] \notin Executing
  BY DEF BackToLoop, TypeOK, Executing
<1>2. \A v \in Workers \ {w} : task'[v] = task[v]
  BY DEF BackToLoop, TypeOK
<1> QED
  BY <1>1, <1>2, LeaveExecutors DEF Executes

LEMMA LoopAttemptInv ==
    ASSUME TypeOK, TypeOK', AttemptInv, NEW w \in Workers, LoopStep(w)
    PROVE  AttemptInv'
<1> SUFFICES ASSUME NEW k \in Jobs PROVE JobInv(k)'
  BY DEF AttemptInv
<1>a. JobInv(k) /\ job[k] \in Row
  BY JobTypes DEF AttemptInv
<1>1. SameExecutors(k)
  <2>1. CASE \E j \in Jobs : RecoverPublish(w, j)
    BY <2>1 DEF RecoverPublish, SameExecutors, Executes
  <2>2. CASE ~ \E j \in Jobs : RecoverPublish(w, j)
    <3>1. pc' = [pc EXCEPT ![w] = pc'[w]] /\ pc'[w] \notin Executing
      BY <2>2 DEF LoopStep, RecoverScan, RecoverCommit, PromoteScan, Promote, PopTimeout, Pop,
                  TypeOK, Executing
    <3>2. \A v \in Workers \ {w} : task'[v] = task[v]
      BY <2>2 DEF LoopStep, RecoverScan, RecoverCommit, PromoteScan, Promote, PopTimeout, Pop,
                  TypeOK
    <3> QED
      BY <3>1, <3>2, LeaveExecutors
  <2> QED
    BY <2>1, <2>2
<1>2. QuietJob(k)
  <2>1. CASE RecoverCommit(w)
    <3> DEFINE new == RecoveredRow(job[k], plan[w][k])
    <3>1. job'[k] = new /\ hist'[k] = Revive(hist[k], job[k], new)
      BY <2>1 DEF RecoverCommit
    <3>2. /\ new \in Row /\ new.attempts = job[k].attempts
          /\ new.status \in {job[k].status, "queued", "cancelled"}
      BY <1>a, RecoveredRowType DEF RecoveredRow, Row
    <3>3. hist'[k].era = hist[k].era /\ hist'[k].retried = hist[k].retried
      BY <3>1, JobTypes, ReviveFields
    <3> QED
      BY <3>1, <3>2, <3>3, ReviveQuiet
  <2>2. CASE UNCHANGED <<job, hist>>
    BY <2>2, UnchangedQuiet
  <2> QED
    BY <2>1, <2>2 DEF LoopStep, RecoverScan, PromoteScan, Promote, PopTimeout, Pop, RecoverPublish
<1> QED
  BY <1>a, <1>1, <1>2, QuietPreserves

LEMMA EnvironmentAttemptInv ==
    ASSUME TypeOK, TypeOK', AttemptInv, Environment
    PROVE  AttemptInv'
<1> SUFFICES ASSUME NEW k \in Jobs PROVE JobInv(k)'
  BY DEF AttemptInv
<1>a. JobInv(k)
  BY DEF AttemptInv
<1>1. QuietJob(k)
  BY UnchangedQuiet DEF Environment, HeartbeatTick, Crash, Restart, HeartbeatExpires,
                        HeartbeatStalls, RetryDelayElapses, RedisLoss
<1>2. SameExecutors(k)
  <2>1. ASSUME NEW w \in Workers, Crash(w) \/ Restart(w) PROVE SameExecutors(k)
    <3>1. pc' = [pc EXCEPT ![w] = pc'[w]] /\ pc'[w] \notin Executing
      BY <2>1 DEF Crash, Restart, TypeOK, Executing
    <3>2. \A v \in Workers \ {w} : task'[v] = task[v]
      BY <2>1 DEF Crash, Restart, TypeOK
    <3> QED
      BY <3>1, <3>2, LeaveExecutors
  <2>2. CASE UNCHANGED <<pc, task>>
    BY <2>2 DEF SameExecutors, Executes
  <2> QED
    BY <2>1, <2>2 DEF Environment, HeartbeatTick, HeartbeatExpires, HeartbeatStalls,
                      RetryDelayElapses, RedisLoss
<1> QED
  BY <1>a, <1>1, <1>2, QuietPreserves

\* A claim spends the offer of the job on the next attempt number.
LEMMA ClaimAttemptInv ==
    ASSUME TypeOK, TypeOK', AttemptInv, NEW w \in Workers, Claim(w)
    PROVE  AttemptInv'
<1> DEFINE j == task[w].job
           a == job[j].attempts + 1
<1>0. j \in Jobs /\ job[j] \in Row /\ hist[j] \in Hist /\ job[j].attempts \in Nat
      /\ hist[j].era \in Nat /\ hist[j].revived \in Nat
  BY JobTypes, TaskTypes DEF Claim, Accepts, ClaimedRow
<1>1. /\ job[j].status \in Claimable
      /\ job' = [job EXCEPT ![j].status = "running", ![j].attempts = @ + 1]
      /\ task' = [task EXCEPT ![w] = [job |-> j, attempt |-> a, step |-> 0,
                                      saw |-> "absent", era |-> hist[j].era]]
      /\ pc[w] = "claiming" /\ pc' = [pc EXCEPT ![w] = "running"] /\ hist' = hist
  BY DEF Claim, Accepts, ClaimedRow
<1>2. /\ job'[j].status = "running" /\ job'[j].attempts = a
      /\ \A k \in Jobs \ {j} : job'[k] = job[k]
  BY <1>0, <1>1 DEF TypeOK, Row
<1>3. /\ ~ \E k \in Jobs : Executes(w, k)
      /\ Executes(w, j)' /\ task'[w].attempt = a /\ task'[w].era = hist[j].era
      /\ \A k \in Jobs \ {j} : ~Executes(w, k)'
  BY <1>0, <1>1 DEF Executes, Executing, TypeOK
<1>4. \A k \in Jobs : \A v \in Workers \ {w} :
          /\ Executes(v, k)' <=> Executes(v, k)
          /\ task'[v] = task[v]
  BY <1>1 DEF Executes, TypeOK
<1> SUFFICES ASSUME NEW k \in Jobs PROVE JobInv(k)'
  BY DEF AttemptInv
<1>5. JobInv(k)
  BY DEF AttemptInv
<1>6. CASE k # j
  <2>1. QuietJob(k)
    BY <1>1, <1>2, <1>6, UnchangedQuiet
  <2>2. SameExecutors(k)
    BY <1>3, <1>4, <1>6 DEF SameExecutors
  <2> QED
    BY <1>5, <2>1, <2>2, QuietPreserves
<1>7. CASE k = j
  <2>1. AttemptNumbers(k)'
    <3>1. \A i \in hist[k].retried : i < a
      BY <1>0, <1>5, <1>7, JobTypes DEF JobInv, RetriedNumbers
    <3>2. \A v \in Workers \ {w} : Executes(v, k) /\ task[v].era = hist[k].era
                                   => task[v].attempt \in 1..job[k].attempts
      BY <1>5 DEF JobInv, AttemptNumbers
    <3>3. ASSUME NEW v \in Workers, Executes(v, k)'
          PROVE  /\ task'[v].era <= hist'[k].era
                 /\ task'[v].era = hist'[k].era =>
                       /\ task'[v].attempt \in 1..job'[k].attempts
                       /\ task'[v].attempt \notin hist'[k].retried
                       /\ \A u \in Workers \ {v} :
                             Executes(u, k)' /\ task'[u].era = hist'[k].era
                             => task'[u].attempt # task'[v].attempt
      <4>1. CASE v = w
        BY <1>0, <1>1, <1>2, <1>3, <1>4, <1>7, <3>1, <3>2, <4>1
      <4>2. CASE v # w
        <5>1. Executes(v, k) /\ task'[v] = task[v]
          BY <1>4, <3>3, <4>2
        <5>2. /\ task[v].era <= hist[k].era
              /\ task[v].era = hist[k].era =>
                    /\ task[v].attempt \in 1..job[k].attempts
                    /\ task[v].attempt \notin hist[k].retried
                    /\ \A u \in Workers \ {v} :
                          Executes(u, k) /\ task[u].era = hist[k].era
                          => task[u].attempt # task[v].attempt
          BY <1>5, <5>1 DEF JobInv, AttemptNumbers
        <5>3. hist'[k] = hist[k] /\ job'[k].attempts = a /\ task'[v] = task[v]
          BY <1>1, <1>2, <1>7, <5>1
        <5>4. \A i \in 1..job[k].attempts : i \in 1..a /\ i # a
          BY <1>0, <1>7
        <5>5. task[v].era = hist[k].era => task[v].attempt \in 1..a /\ task[v].attempt # a
          BY <5>2, <5>4
        <5>6. ASSUME NEW u \in Workers \ {v}, Executes(u, k)', task'[u].era = hist[k].era,
                     task[v].era = hist[k].era
              PROVE  task'[u].attempt # task[v].attempt
          <6>1. CASE u = w
            BY <1>3, <5>5, <5>6, <6>1
          <6>2. CASE u # w
            BY <1>4, <5>2, <5>6, <6>2
          <6> QED
            BY <6>1, <6>2
        <5> QED
          BY <5>2, <5>3, <5>5, <5>6
      <4> QED
        BY <4>1, <4>2
    <3> QED
      BY <3>3 DEF AttemptNumbers
  <2>2. RetriedNumbers(k)'
    BY <1>0, <1>1, <1>2, <1>5, <1>7, JobTypes DEF JobInv, RetriedNumbers
  <2>3. BudgetSpent(k)'
    <3>1. Cardinality(hist[k].retried) \in Nat
      BY <1>5, RetriedFinite DEF JobInv, RetriedNumbers
    <3> QED
      BY <1>0, <1>1, <1>2, <1>5, <1>7, <3>1 DEF JobInv, BudgetSpent, Claimable
  <2>4. ExclusiveUnlessRevived(k)'
    BY <1>1, <1>2, <1>3, <1>4, <1>5, <1>7 DEF JobInv, ExclusiveUnlessRevived, Claimable
  <2> QED
    BY <1>1, <1>2, <1>7, <2>1, <2>2, <2>3, <2>4 DEF JobInv
<1> QED
  BY <1>6, <1>7

\* A failed execution that is retried uses up its attempt number for a new offer.
LEMMA RetryAttemptInv ==
    ASSUME TypeOK, TypeOK', AttemptInv, NEW w \in Workers, FailRetry(w)
    PROVE  AttemptInv'
<1> DEFINE j == task[w].job
           a == task[w].attempt
           new == FlushStatus(job[j], task[w].saw, "retrying")
<1>0. j \in Jobs /\ job[j] \in Row /\ hist[j] \in Hist /\ job[j].attempts \in Nat /\ a \in Nat
      /\ hist[j].era \in Nat /\ hist[j].revived \in Nat /\ hist[j].retried \in SUBSET Nat
  BY JobTypes, TaskTypes DEF FailRetry, Executing
<1>1. /\ a < MaxAttempts /\ job'[j] = new /\ hist'[j] = RetryHist(hist[j], task[w], job[j], new)
      /\ \A k \in Jobs \ {j} : job'[k] = job[k] /\ hist'[k] = hist[k]
  BY <1>0 DEF FailRetry, RetryLeft, TypeOK
<1>2. new \in Row /\ new.attempts = job[j].attempts /\ new.status \in {job[j].status, "retrying"}
  BY <1>0, FlushStatusType, FlushStatusFields DEF Status, Claimable
<1>3. Executes(w, j)
  BY DEF FailRetry, Executes, Executing
<1> SUFFICES ASSUME NEW k \in Jobs PROVE JobInv(k)'
  BY DEF AttemptInv
<1>4. JobInv(k)
  BY DEF AttemptInv
<1>5. SameExecutors(k) /\ ~Executes(w, k)'
  <2>1. pc' = [pc EXCEPT ![w] = pc'[w]] /\ pc'[w] \notin Executing
    BY DEF FailRetry, RetryLeft, TypeOK, Executing
  <2>2. \A v \in Workers \ {w} : task'[v] = task[v]
    BY DEF FailRetry, RetryLeft
  <2> QED
    BY <2>1, <2>2, LeaveExecutors DEF Executes
<1>6. CASE k # j
  BY <1>1, <1>4, <1>5, <1>6, UnchangedQuiet, QuietPreserves
<1>7. CASE k = j /\ task[w].era # hist[j].era
  <2>1. QuietJob(k)
    <3>1. hist'[k] = Revive(hist[k], job[k], new)
      BY <1>1, <1>7 DEF RetryHist
    <3>2. hist'[k].era = hist[k].era /\ hist'[k].retried = hist[k].retried
      BY <3>1, JobTypes, ReviveFields
    <3> QED
      BY <1>1, <1>2, <1>7, <3>1, <3>2, ReviveQuiet
  <2> QED
    BY <1>4, <1>5, <2>1, QuietPreserves
<1>8. CASE k = j /\ task[w].era = hist[j].era
  <2>1. /\ hist'[k].retried = hist[k].retried \cup {a}
        /\ hist'[k].era = hist[k].era /\ hist'[k].revived = hist[k].revived
    BY <1>0, <1>1, <1>8 DEF RetryHist, Hist
  <2>2. a \in 1..job[k].attempts /\ a \notin hist[k].retried
    BY <1>3, <1>4, <1>8 DEF JobInv, AttemptNumbers
  <2>3. job'[k].attempts = job[k].attempts /\ job'[k].status \in {job[k].status, "retrying"}
    BY <1>1, <1>2, <1>8
  <2>4. AttemptNumbers(k)'
    <3>1. ASSUME NEW v \in Workers, Executes(v, k)'
          PROVE  /\ task'[v].era <= hist'[k].era
                 /\ task'[v].era = hist'[k].era =>
                       /\ task'[v].attempt \in 1..job'[k].attempts
                       /\ task'[v].attempt \notin hist'[k].retried
                       /\ \A u \in Workers \ {v} :
                             Executes(u, k)' /\ task'[u].era = hist'[k].era
                             => task'[u].attempt # task'[v].attempt
      <4>1. v # w /\ Executes(v, k) /\ task'[v].attempt = task[v].attempt
            /\ task'[v].era = task[v].era
        BY <1>5, <3>1 DEF SameExecutors
      <4>2. /\ task[v].era <= hist[k].era
            /\ task[v].era = hist[k].era =>
                  /\ task[v].attempt \in 1..job[k].attempts
                  /\ task[v].attempt \notin hist[k].retried
                  /\ \A u \in Workers \ {v} :
                        Executes(u, k) /\ task[u].era = hist[k].era
                        => task[u].attempt # task[v].attempt
        BY <1>4, <4>1 DEF JobInv, AttemptNumbers
      <4>3. task[v].era = hist[k].era => task[v].attempt # a
        BY <1>3, <1>8, <4>1, <4>2
      <4>4. \A u \in Workers \ {v} : Executes(u, k)' => Executes(u, k)
                /\ task'[u].attempt = task[u].attempt /\ task'[u].era = task[u].era
        BY <1>5 DEF SameExecutors
      <4> QED
        BY <2>1, <2>3, <4>1, <4>2, <4>3, <4>4
    <3> QED
      BY <3>1 DEF AttemptNumbers
  <2>5. RetriedNumbers(k)'
    <3>1. a \in 1..(MaxAttempts - 1)
      BY <1>0, <1>1, <2>2, MaxAttemptsAssumption
    <3> QED
      BY <1>4, <2>1, <2>2, <2>3, <3>1, <1>0 DEF JobInv, RetriedNumbers
  <2>6. BudgetSpent(k)'
    <3>1. IsFiniteSet(hist[k].retried) /\ Cardinality(hist[k].retried) \in Nat
      BY <1>4, RetriedFinite DEF JobInv, RetriedNumbers
    <3>2. Cardinality(hist'[k].retried) = Cardinality(hist[k].retried) + 1
      BY <2>1, <2>2, <3>1, FS_AddElement
    <3> QED
      BY <1>0, <1>4, <1>8, <2>1, <2>3, <3>1, <3>2 DEF JobInv, BudgetSpent
  <2>7. ExclusiveUnlessRevived(k)'
    <3>1. hist[k].era = 0 /\ hist[k].revived = 0
          => \A v \in Workers : Executes(v, k) => v = w
      BY <1>3, <1>4, <1>8 DEF JobInv, ExclusiveUnlessRevived
    <3>2. \A v \in Workers : Executes(v, k)' => Executes(v, k) /\ v # w
      BY <1>5 DEF SameExecutors
    <3> QED
      BY <2>1, <3>1, <3>2 DEF ExclusiveUnlessRevived
  <2> QED
    BY <1>4, <2>1, <2>3, <2>4, <2>5, <2>6, <2>7 DEF JobInv
<1> QED
  BY <1>6, <1>7, <1>8

\* A dead letter is written by an execution whose attempt number was the last one.
LEMMA DeadLetterAttemptInv ==
    ASSUME TypeOK, TypeOK', AttemptInv, NEW w \in Workers, FailDeadLetter(w)
    PROVE  AttemptInv'
<1> DEFINE j == task[w].job
           new == FlushStatus(job[j], task[w].saw, "dead_lettered")
<1>0. j \in Jobs /\ job[j] \in Row /\ job[j].attempts \in Nat /\ hist[j].era \in Nat
      /\ hist[j].revived \in Nat /\ task[w].attempt \in Nat /\ task[w].era \in Nat
  BY JobTypes, TaskTypes DEF FailDeadLetter, Executing
<1>1. /\ task[w].attempt >= MaxAttempts /\ job'[j] = new /\ hist' = hist
      /\ \A k \in Jobs \ {j} : job'[k] = job[k]
  <2>1. ~(task[w].attempt < MaxAttempts) /\ job' = [job EXCEPT ![j] = new] /\ hist' = hist
    BY DEF FailDeadLetter, RetryLeft
  <2> QED
    BY <1>0, <2>1, MaxAttemptsAssumption DEF TypeOK
<1>2. new.attempts = job[j].attempts /\ new.status \in {job[j].status, "dead_lettered"}
  BY <1>0, FlushStatusFields
<1>3. Executes(w, j)
  BY DEF FailDeadLetter, Executes, Executing
<1> SUFFICES ASSUME NEW k \in Jobs PROVE JobInv(k)'
  BY DEF AttemptInv
<1>4. JobInv(k)
  BY DEF AttemptInv
<1>5. SameExecutors(k)
  BY BackToLoopExecutors DEF FailDeadLetter
<1>6. CASE k # j
  BY <1>1, <1>4, <1>5, <1>6, UnchangedQuiet, QuietPreserves
<1>7. CASE k = j /\ job'[k].status # "dead_lettered"
  <2>1. QuietJob(k)
    BY <1>0, <1>1, <1>2, <1>7 DEF QuietJob
  <2> QED
    BY <1>4, <1>5, <2>1, QuietPreserves
<1>8. CASE k = j /\ job'[k].status = "dead_lettered"
  <2>1. hist[k].era = 0 => job[k].attempts >= MaxAttempts
    BY <1>0, <1>1, <1>3, <1>4, <1>8, MaxAttemptsAssumption DEF JobInv, AttemptNumbers
  <2>2. job'[k].attempts = job[k].attempts /\ hist'[k] = hist[k]
    BY <1>1, <1>2, <1>8
  <2>3. AttemptNumbers(k)'
    BY <1>4, <1>5, <2>2 DEF JobInv, AttemptNumbers, SameExecutors
  <2>4. RetriedNumbers(k)'
    BY <1>4, <2>2 DEF JobInv, RetriedNumbers
  <2>5. BudgetSpent(k)'
    <3>1. Cardinality(hist[k].retried) \in Nat
      BY <1>4, RetriedFinite DEF JobInv, RetriedNumbers
    <3> QED
      BY <1>0, <1>4, <1>8, <2>2, <3>1 DEF JobInv, BudgetSpent, Claimable
  <2>6. ExclusiveUnlessRevived(k)'
    BY <1>4, <1>5, <1>8, <2>2 DEF JobInv, ExclusiveUnlessRevived, SameExecutors, Claimable
  <2> QED
    BY <1>8, <2>1, <2>2, <2>3, <2>4, <2>5, <2>6 DEF JobInv
<1> QED
  BY <1>6, <1>7, <1>8

\* An outcome that is no retry costs no attempt and offers none.
LEMMA OutcomeQuiet ==
    ASSUME TypeOK, NEW j \in Jobs, NEW saw, NEW s \in {"cancelled", "succeeded"},
           job' = [job EXCEPT ![j] = FlushStatus(@, saw, s)], hist' = hist
    PROVE  \A k \in Jobs : QuietJob(k)
<1> SUFFICES ASSUME NEW k \in Jobs PROVE QuietJob(k)
  OBVIOUS
<1>1. CASE k = j
  BY <1>1, FlushStatusQuiet DEF TypeOK
<1>2. CASE k # j
  BY <1>2, UnchangedQuiet DEF TypeOK
<1> QED
  BY <1>1, <1>2

LEMMA ExecuteAttemptInv ==
    ASSUME TypeOK, TypeOK', AttemptInv, NEW w \in Workers, ClaimStep(w) \/ HandlerStep(w)
    PROVE  AttemptInv'
<1> DEFINE j == task[w].job
<1> USE DEF AttemptInv
<1>1. ASSUME BackToLoop(w), UNCHANGED <<job, hist>> PROVE AttemptInv'
  BY <1>1, BackToLoopExecutors, UnchangedQuiet, QuietPreserves
<1>2. ASSUME ClaimCancelled(w) PROVE AttemptInv'
  <2>1. j \in Jobs /\ job[j] \in Row
    BY <1>2, JobTypes, TaskTypes DEF ClaimCancelled
  <2>2. ASSUME NEW k \in Jobs PROVE QuietJob(k)
    <3>1. CASE k = j
      BY <1>2, <2>1, <3>1, JobTypes DEF ClaimCancelled, QuietJob, Row, TypeOK, Claimable
    <3>2. CASE k # j
      BY <1>2, <3>2, UnchangedQuiet DEF ClaimCancelled
    <3> QED
      BY <3>1, <3>2
  <2> QED
    BY <1>2, <2>2, BackToLoopExecutors, QuietPreserves DEF ClaimCancelled
<1>3. ASSUME FinishCommit(w) PROVE AttemptInv'
  <2>1. j \in Jobs
    BY <1>3, TaskTypes DEF FinishCommit, Executing
  <2>2. /\ job' = [job EXCEPT ![j] = FlushStatus(@, task[w].saw, "succeeded")]
        /\ hist' = hist /\ BackToLoop(w)
    BY <1>3 DEF FinishCommit
  <2> QED
    BY <2>1, <2>2, OutcomeQuiet, BackToLoopExecutors, QuietPreserves
<1>5. ASSUME ProgressCancels(w) PROVE AttemptInv'
  <2>1. j \in Jobs
    BY <1>5, TaskTypes DEF ProgressCancels, Executing
  <2>2. /\ job' = [job EXCEPT ![j] = FlushStatus(@, task[w].saw, "cancelled")]
        /\ hist' = hist /\ task' = task
        /\ pc[w] = "cancelling" /\ pc' = [pc EXCEPT ![w] = "returning"]
    BY <1>5 DEF ProgressCancels
  <2>3. ASSUME NEW k \in Jobs PROVE SameExecutors(k)
    BY <2>2 DEF SameExecutors, Executes, Executing, TypeOK
  <2> QED
    BY <2>1, <2>2, <2>3, OutcomeQuiet, QuietPreserves
<1>4. ASSUME Progress(w) \/ ProgressSeesCancel(w) \/ FinishRead(w) \/ HandlerRaises(w)
      PROVE  AttemptInv'
  <2>1. UNCHANGED <<job, hist>>
    BY <1>4 DEF Progress, ProgressSeesCancel, FinishRead, HandlerRaises
  <2>2. pc[w] \in Executing /\ \A v \in Workers \ {w} : pc'[v] = pc[v] /\ task'[v] = task[v]
    BY <1>4 DEF Progress, ProgressSeesCancel, FinishRead, HandlerRaises, Executing, TypeOK
  <2>3. /\ task'[w].job = task[w].job /\ task'[w].attempt = task[w].attempt
        /\ task'[w].era = task[w].era
    BY <1>4 DEF Progress, ProgressSeesCancel, FinishRead, HandlerRaises, TypeOK, Task
  <2>4. ASSUME NEW k \in Jobs PROVE SameExecutors(k)
    BY <2>2, <2>3 DEF SameExecutors, Executes
  <2> QED
    BY <2>1, <2>4, UnchangedQuiet, QuietPreserves
<1> QED
  BY <1>1, <1>2, <1>3, <1>4, <1>5, ClaimAttemptInv, RetryAttemptInv, DeadLetterAttemptInv
  DEF ClaimStep, HandlerStep, ClaimNothing, ClaimSkipsLocked, ReturnNone, FinishSeesCancelled,
      ScheduleRetry

LEMMA InitAttemptInv == Init => AttemptInv
<1> SUFFICES ASSUME Init, NEW j \in Jobs PROVE JobInv(j)
  BY DEF AttemptInv
<1>1. /\ job[j].status = "absent" /\ job[j].attempts = 0
      /\ hist[j].era = 0 /\ hist[j].retried = {} /\ hist[j].revived = 0
  BY DEF Init, NewRow
<1>2. \A w \in Workers : ~Executes(w, j)
  BY DEF Init, Executes, Executing
<1> QED
  BY <1>1, <1>2, FS_EmptySet
  DEF JobInv, AttemptNumbers, RetriedNumbers, BudgetSpent, ExclusiveUnlessRevived, Claimable

LEMMA StepAttemptInv == TypeOK /\ TypeOK' /\ AttemptInv /\ [Next]_vars => AttemptInv'
<1> SUFFICES ASSUME TypeOK, TypeOK', AttemptInv, [Next]_vars PROVE AttemptInv'
  OBVIOUS
<1>1. CASE UNCHANGED vars
  <2>1. ASSUME NEW k \in Jobs PROVE QuietJob(k) /\ SameExecutors(k)
    BY <1>1, UnchangedQuiet DEF vars, SameExecutors, Executes
  <2> QED
    BY <2>1, QuietPreserves DEF AttemptInv
<1> QED
  BY <1>1, RequestAttemptInv, LoopAttemptInv, ExecuteAttemptInv, EnvironmentAttemptInv
  DEF Next, WorkerStep

-----------------------------------------------------------------------------
(* The theorems *)

\* The inductive invariant of the attempt counter holds in every reachable state.
THEOREM AttemptInvariant == Spec => [](TypeOK /\ AttemptInv)
<1>1. Init => TypeOK /\ AttemptInv
  BY InitTypeOK, InitAttemptInv
<1>2. TypeOK /\ AttemptInv /\ [Next]_vars => (TypeOK /\ AttemptInv)'
  BY StepTypeOK, StepAttemptInv
<1> QED
  BY <1>1, <1>2, PTL DEF Spec

LEMMA InvGivesBudget == TypeOK /\ AttemptInv => AttemptsWithinBudget
<1> SUFFICES ASSUME TypeOK, AttemptInv, NEW j \in Jobs
             PROVE  job[j].attempts <= MaxAttempts + hist[j].revived
  BY DEF AttemptsWithinBudget
<1>1. JobInv(j) /\ job[j].attempts \in Nat /\ hist[j].revived \in Nat
  BY JobTypes DEF AttemptInv
<1>2. Cardinality(hist[j].retried) \in Nat /\ Cardinality(hist[j].retried) <= MaxAttempts - 1
  BY <1>1, RetriedFinite DEF JobInv, RetriedNumbers
<1>3. CASE job[j].status \in Claimable
  BY <1>1, <1>2, <1>3, MaxAttemptsAssumption DEF JobInv, BudgetSpent
<1>4. CASE job[j].status \notin Claimable
  BY <1>1, <1>2, <1>4, MaxAttemptsAssumption DEF JobInv, BudgetSpent
<1> QED
  BY <1>3, <1>4

\* For any number of workers, requests, attempts and faults: attempt_count exceeds
\* max_attempts by at most the number of times a commit took the job back.
THEOREM AttemptsStayWithinBudget == Spec => []AttemptsWithinBudget
BY InvGivesBudget, AttemptInvariant, PTL

LEMMA InvGivesExhaustion == TypeOK /\ AttemptInv => DeadLetterMeansExhausted
BY DEF AttemptInv, JobInv, DeadLetterMeansExhausted

\* A dead letter has used up its attempts, whichever of several overlapping executions
\* wrote it, as long as no administrator has requeued the job.
THEOREM DeadLettersExhausted == Spec => []DeadLetterMeansExhausted
BY InvGivesExhaustion, AttemptInvariant, PTL

LEMMA InvGivesExclusion == TypeOK /\ AttemptInv => NoOverlapWithoutRevival
<1> SUFFICES ASSUME TypeOK, AttemptInv, NEW j \in Jobs, NEW v \in Workers, NEW w \in Workers,
                    v # w, Executes(v, j), Executes(w, j)
             PROVE  hist[j].revived > 0 \/ hist[j].era > 0
  BY DEF NoOverlapWithoutRevival
<1>1. ~(hist[j].era = 0 /\ hist[j].revived = 0)
  BY DEF AttemptInv, JobInv, ExclusiveUnlessRevived
<1> QED
  BY <1>1, JobTypes

\* The claim under the row lock lets two executions of a job overlap only after a
\* recovery or requeue commit, whatever Redis delivers.
THEOREM ExclusiveWithoutRevival == Spec => []NoOverlapWithoutRevival
BY InvGivesExclusion, AttemptInvariant, PTL

\* Only a claim adds an attempt, and a claim finds the cancellation flag clear.
LEMMA OnlyClaimAddsAttempts ==
    ASSUME TypeOK, [Next]_vars, NEW j \in Jobs, job[j].cancel
    PROVE  job'[j].attempts <= job[j].attempts
<1>0. job[j] \in Row /\ job[j].attempts \in Nat
  BY JobTypes
<1>1. CASE UNCHANGED job
  BY <1>0, <1>1
<1>2. ASSUME NEW r \in Requests, RequestStep(r), job' # job
      PROVE  job'[j].attempts <= job[j].attempts
  <2>1. ASSUME NEW k \in Jobs, CreateJob(r, k) PROVE job'[j].attempts = job[j].attempts
    BY <2>1, <1>0 DEF CreateJob, TypeOK, Row
  <2>2. ASSUME CancelCommit(r) PROVE job'[j].attempts = job[j].attempts
    <3> DEFINE k == request[r].job
               saw == request[r].saw
    <3>1. k \in Jobs /\ saw \in Row /\ job' = [job EXCEPT ![k] = Flush(@, saw, CancelledRow(saw))]
      BY <2>2 DEF CancelCommit, TypeOK, Request
    <3>2. CancelledRow(saw).attempts = saw.attempts
      BY <3>1 DEF CancelledRow, Row
    <3> QED
      BY <3>1, <3>2 DEF Flush, Column, TypeOK
  <2>3. ASSUME RequeueCommit(r) PROVE job'[j].attempts \in {job[j].attempts, 0}
    <3> DEFINE k == request[r].job
               saw == request[r].saw
               asked == RequeuedRow(saw)
    <3>1. k \in Jobs /\ job' = [job EXCEPT ![k] = Flush(job[k], saw, asked)]
      BY <2>3 DEF RequeueCommit, TypeOK
    <3>2. saw \in Row /\ asked.attempts = 0
      BY <2>3 DEF RequeueCommit, RequeuedRow, TypeOK, Request, Row
    <3> QED
      BY <3>1, <3>2 DEF Flush, Column, TypeOK
  <2>4. (\E k \in Jobs : CreateJob(r, k)) \/ CancelCommit(r) \/ RequeueCommit(r)
    BY <1>2 DEF RequestStep, ResubmitJob, CancelRead, RequeueRead, Enqueue, EnqueueLost
  <2>5. job'[j].attempts \in {job[j].attempts, 0}
    BY <2>1, <2>2, <2>3, <2>4
  <2> QED
    BY <1>0, <2>5
<1>3. ASSUME NEW w \in Workers, RecoverCommit(w)
      PROVE  job'[j].attempts = job[j].attempts
  BY <1>0, <1>3 DEF RecoverCommit, RecoveredRow, Row
<1>4. ASSUME NEW w \in Workers, ClaimStep(w) \/ HandlerStep(w), job' # job
      PROVE  job'[j].attempts <= job[j].attempts
  <2> DEFINE k == task[w].job
  <2>1. CASE Claim(w)
    <3>1. k # j
      BY <2>1 DEF Claim, Accepts, ClaimedRow
    <3>2. job' = [job EXCEPT ![k].status = "running", ![k].attempts = @ + 1]
      BY <2>1 DEF Claim, Accepts, ClaimedRow
    <3>3. job'[j] = job[j]
      BY <3>1, <3>2 DEF TypeOK
    <3> QED
      BY <1>0, <3>3
  <2>2. CASE ClaimCancelled(w)
    <3>1. job' = [job EXCEPT ![k].status = "cancelled"]
      BY <2>2 DEF ClaimCancelled
    <3>2. k = j => job'[j] = [job[j] EXCEPT !.status = "cancelled"]
      BY <3>1 DEF TypeOK
    <3>3. k # j => job'[j] = job[j]
      BY <3>1 DEF TypeOK
    <3> QED
      BY <1>0, <3>2, <3>3 DEF Row
  <2>3. CASE ProgressCancels(w) \/ FinishCommit(w) \/ FailRetry(w) \/ FailDeadLetter(w)
    <3>1. PICK s \in {"cancelled", "succeeded", "retrying", "dead_lettered"} :
              job' = [job EXCEPT ![k] = FlushStatus(job[k], task[w].saw, s)]
      BY <2>3 DEF ProgressCancels, FinishCommit, FailRetry, FailDeadLetter, TypeOK
    <3>2. job'[j].attempts = job[j].attempts
      BY <1>0, <3>1, FlushStatusFields DEF TypeOK
    <3> QED
      BY <1>0, <3>2
  <2> QED
    BY <1>4, <2>1, <2>2, <2>3
    DEF ClaimStep, HandlerStep, ClaimNothing, ClaimSkipsLocked, Progress, ProgressSeesCancel,
        ReturnNone, FinishRead, FinishSeesCancelled, HandlerRaises, ScheduleRetry
<1>5. ASSUME NEW w \in Workers, LoopStep(w), job' # job PROVE RecoverCommit(w)
  BY <1>5 DEF LoopStep, RecoverScan, RecoverPublish, PromoteScan, Promote, Pop, PopTimeout
<1>6. Environment => UNCHANGED job
  BY DEF Environment, HeartbeatTick, Crash, Restart, HeartbeatExpires, HeartbeatStalls,
         RetryDelayElapses, RedisLoss
<1> QED
  BY <1>0, <1>1, <1>2, <1>3, <1>4, <1>5, <1>6 DEF Next, WorkerStep, vars

\* The flag of a row, and whether a cancellation of its job was asked for.
SameCancel(j) == job'[j].cancel = job[j].cancel /\ hist'[j].asked = hist[j].asked

\* Besides the commits of cancel_job and requeue_job nothing touches either.
LEMMA OthersKeepCancel ==
    ASSUME TypeOK, [Next]_vars, \A r \in Requests : ~CancelCommit(r) /\ ~RequeueCommit(r),
           NEW j \in Jobs
    PROVE  SameCancel(j)
<1>0. job[j] \in Row /\ hist[j] \in Hist
  BY JobTypes
<1>1. ASSUME job'[j] = job[j], hist'[j] = hist[j] PROVE SameCancel(j)
  BY <1>1 DEF SameCancel
<1>2. ASSUME NEW r \in Requests, RequestStep(r) PROVE SameCancel(j)
  <2>1. ASSUME NEW k \in Jobs, CreateJob(r, k) PROVE SameCancel(j)
    <3>1. job'[j].cancel = job[j].cancel /\ hist' = hist
      BY <1>0, <2>1 DEF CreateJob, TypeOK, Row
    <3> QED
      BY <3>1 DEF SameCancel
  <2> QED
    BY <1>1, <1>2, <2>1 DEF RequestStep, ResubmitJob, CancelRead, RequeueRead, Enqueue, EnqueueLost
<1>3. ASSUME NEW w \in Workers, LoopStep(w) PROVE SameCancel(j)
  <2>1. CASE RecoverCommit(w)
    <3> DEFINE new == RecoveredRow(job[j], plan[w][j])
    <3>1. job'[j] = new /\ hist'[j] = Revive(hist[j], job[j], new)
      BY <2>1 DEF RecoverCommit
    <3>2. new.cancel = job[j].cancel
      BY <1>0 DEF RecoveredRow, Row
    <3> QED
      BY <1>0, <3>1, <3>2, ReviveFields DEF SameCancel
  <2> QED
    BY <1>1, <1>3, <2>1
    DEF LoopStep, RecoverScan, PromoteScan, Promote, PopTimeout, Pop, RecoverPublish
<1>4. ASSUME NEW w \in Workers, ClaimStep(w) \/ HandlerStep(w) PROVE SameCancel(j)
  <2> DEFINE k == task[w].job
  <2>1. CASE Claim(w) \/ ClaimCancelled(w)
    <3>1. k \in Jobs /\ hist' = hist /\ job[k] \in Row
          /\ \/ job' = [job EXCEPT ![k] = ClaimedRow(job[k])]
             \/ job' = [job EXCEPT ![k] = [job[k] EXCEPT !.status = "cancelled"]]
      BY <2>1, TaskTypes, JobTypes DEF Claim, ClaimCancelled
    <3>2. ClaimedRow(job[k]).cancel = job[k].cancel
      BY <3>1 DEF ClaimedRow, Row
    <3>3. [job[k] EXCEPT !.status = "cancelled"].cancel = job[k].cancel
      BY <3>1 DEF Row
    <3>4. job'[j].cancel = job[j].cancel
      BY <3>1, <3>2, <3>3 DEF TypeOK
    <3> QED
      BY <3>1, <3>4 DEF SameCancel
  <2>2. CASE ProgressCancels(w) \/ FinishCommit(w) \/ FailRetry(w) \/ FailDeadLetter(w)
    <3>1. PICK s \in {"cancelled", "succeeded", "retrying", "dead_lettered"} :
              job' = [job EXCEPT ![k] = FlushStatus(job[k], task[w].saw, s)]
      BY <2>2 DEF ProgressCancels, FinishCommit, FailRetry, FailDeadLetter, TypeOK
    <3>2. job'[j].cancel = job[j].cancel
      BY <1>0, <3>1 DEF FlushStatus, Row, TypeOK
    <3>3. hist'[j].asked = hist[j].asked
      <4>1. CASE FailRetry(w)
        <5> DEFINE new == FlushStatus(job[j], task[w].saw, "retrying")
        <5>1. hist'[j] \in {hist[j], RetryHist(hist[j], task[w], job[j], new)}
          BY <4>1 DEF FailRetry, TypeOK
        <5>2. RetryHist(hist[j], task[w], job[j], new).asked = hist[j].asked
          BY <1>0, ReviveFields DEF RetryHist, Hist
        <5> QED
          BY <5>1, <5>2
      <4> QED
        BY <2>2, <4>1 DEF ProgressCancels, FinishCommit, FailDeadLetter
    <3> QED
      BY <3>2, <3>3 DEF SameCancel
  <2> QED
    BY <1>1, <1>4, <2>1, <2>2
    DEF ClaimStep, HandlerStep, ClaimNothing, ClaimSkipsLocked, Progress, ProgressSeesCancel,
        ReturnNone, FinishRead, FinishSeesCancelled, HandlerRaises, ScheduleRetry
<1>5. Environment => UNCHANGED <<job, hist>>
  BY DEF Environment, HeartbeatTick, Crash, Restart, HeartbeatExpires, HeartbeatStalls,
         RetryDelayElapses, RedisLoss
<1> QED
  BY <1>1, <1>2, <1>3, <1>4, <1>5 DEF Next, WorkerStep, vars

\* No commit from an older read takes a cancellation off the row that was asked for.
LEMMA StepCancelKept ==
    ASSUME TypeOK, CancelKept, [Next]_vars
    PROVE  CancelKept'
<1> SUFFICES ASSUME NEW j \in Jobs, hist'[j].asked PROVE job'[j].cancel
  BY DEF CancelKept
<1>0. job[j] \in Row /\ hist[j] \in Hist /\ (hist[j].asked => job[j].cancel)
  BY JobTypes DEF CancelKept
<1>1. ASSUME NEW r \in Requests, CancelCommit(r) PROVE job'[j].cancel
  <2> DEFINE k == request[r].job
             saw == request[r].saw
  <2>1. /\ k \in Jobs /\ saw \in Row
        /\ job' = [job EXCEPT ![k] = Flush(job[k], saw, CancelledRow(saw))]
        /\ hist' = [hist EXCEPT ![k] = [hist[k] EXCEPT !.asked = hist[k].asked \/ ~saw.cancel]]
    BY <1>1 DEF CancelCommit, TypeOK, Request
  <2>2. CASE k = j
    <3>1. hist'[j] = [hist[j] EXCEPT !.asked = hist[j].asked \/ ~saw.cancel]
      BY <2>1, <2>2 DEF TypeOK
    <3>2. hist[j].asked \/ ~saw.cancel
      BY <1>0, <3>1 DEF Hist
    <3>3. CancelledRow(saw).cancel = TRUE
      BY <2>1 DEF CancelledRow, Row
    <3>4. job'[j].cancel = Column(job[j].cancel, saw.cancel, TRUE)
      BY <2>1, <2>2, <3>3 DEF TypeOK, Flush
    <3>5. saw.cancel \in BOOLEAN
      BY <2>1 DEF Row
    <3> QED
      BY <1>0, <3>2, <3>4, <3>5 DEF Column
  <2>3. CASE k # j
    BY <1>0, <2>1, <2>3 DEF TypeOK
  <2> QED
    BY <2>2, <2>3
<1>2. ASSUME NEW r \in Requests, RequeueCommit(r) PROVE job'[j].cancel
  <2> DEFINE k == request[r].job
             saw == request[r].saw
             new == Flush(job[k], saw, RequeuedRow(saw))
  <2>1. /\ k \in Jobs /\ saw \in Row /\ job' = [job EXCEPT ![k] = new]
        /\ hist' = [hist EXCEPT ![k] = RequeueHist(hist[k], saw, job[k], new)]
    BY <1>2 DEF RequeueCommit, TypeOK, Request
  <2>2. CASE k = j
    <3>1. hist'[j] = RequeueHist(hist[j], saw, job[j], new)
      BY <2>1, <2>2 DEF TypeOK
    <3>2. RequeueHist(hist[j], saw, job[j], new).asked = (hist[j].asked /\ ~saw.cancel)
      <4>1. Revive(hist[j], job[j], new) \in Hist
        BY <1>0, ReviveType
      <4> QED
        BY <4>1 DEF RequeueHist, Hist
    <3>3. hist[j].asked /\ ~saw.cancel
      BY <3>1, <3>2
    <3>4. job'[j].cancel = Column(job[j].cancel, saw.cancel, FALSE)
      BY <2>1, <2>2 DEF TypeOK, Flush, RequeuedRow
    <3>5. saw.cancel \in BOOLEAN
      BY <2>1 DEF Row
    <3> QED
      BY <1>0, <3>3, <3>4, <3>5 DEF Column
  <2>3. CASE k # j
    BY <1>0, <2>1, <2>3 DEF TypeOK
  <2> QED
    BY <2>2, <2>3
<1>3. CASE \A r \in Requests : ~CancelCommit(r) /\ ~RequeueCommit(r)
  BY <1>0, <1>3, OthersKeepCancel DEF SameCancel
<1> QED
  BY <1>1, <1>2, <1>3

LEMMA InitCancelKept == Init => CancelKept
BY DEF Init, CancelKept

\* A cancellation that was recorded stops every further attempt, for any number of workers and
\* requests, any redelivery and any commit from an older read, until a requeue has read it.
THEOREM CancelStopsAttempts == Spec => AttemptsHeedCancel
<1>1. TypeOK /\ CancelKept /\ [Next]_vars
      => [\A j \in Jobs : hist[j].asked => job'[j].attempts <= job[j].attempts]_vars
  BY OnlyClaimAddsAttempts DEF CancelKept
<1> QED
  BY <1>1, TypeCorrect, InitCancelKept, StepCancelKept, PTL DEF Spec, AttemptsHeedCancel

-----------------------------------------------------------------------------
(* The queue inside the pipeline                                           *)

\* What a terminal mark that fails does to the queue: it counts a fault.
OnlyFaults ==
    /\ faults' = faults + 1
    /\ UNCHANGED <<jobVars, redisVars, workerVars, request, hist>>

\* Each step of the pipeline is a step of the queue, leaves the queue alone, or counts a fault.
LEMMA QueueStep == [DocNext]_allVars => [Next]_vars \/ OnlyFaults
<1> SUFFICES ASSUME [DocNext]_allVars PROVE [Next]_vars \/ OnlyFaults
  OBVIOUS
<1> USE DEF Next
<1>1. ASSUME NEW d \in Documents, Upload(d) PROVE UNCHANGED vars
  BY <1>1 DEF Upload
<1>2. ASSUME NEW r \in Requests, DocRequestStep(r) PROVE RequestStep(r)
  BY <1>2 DEF DocRequestStep, DocCreateJob, DocRequest, DocCancelCommit, DocRequeueCommit,
              RequestStep
<1>3. ASSUME NEW w \in Workers, DocWorkerStep(w) PROVE WorkerStep(w) \/ UNCHANGED vars
  BY <1>3 DEF DocWorkerStep, DocLoopStep, DocClaim, Start, Index, Finalize, CancelIndexing,
              DocReturnNone, DocFinish, DocRaises, DocRetry, DocDeadLetter, WorkerStep,
              ClaimStep, HandlerStep
<1>4. ASSUME NEW w \in Workers, DocCrash(w) PROVE Environment
  BY <1>4 DEF DocCrash, Environment
<1>5. ASSUME NEW a \in Actors, MarkRead(a) \/ MarkCommit(a) PROVE UNCHANGED vars
  BY <1>5 DEF MarkRead, MarkCommit
<1>6. ASSUME NEW a \in Actors, MarkFails(a) PROVE OnlyFaults
  BY <1>6 DEF MarkFails, OnlyFaults
<1>7. ASSUME DocEnvironment PROVE Environment
  BY <1>7 DEF DocEnvironment, Environment
<1>8. CASE UNCHANGED allVars
  BY <1>8 DEF allVars
<1> QED
  BY <1>1, <1>2, <1>3, <1>4, <1>5, <1>6, <1>7, <1>8 DEF DocNext

\* The pipeline keeps the types and the attempt invariant of the queue.
LEMMA QueueInvKept == TypeOK /\ AttemptInv /\ [DocNext]_allVars => (TypeOK /\ AttemptInv)'
<1> SUFFICES ASSUME TypeOK, AttemptInv, [DocNext]_allVars PROVE (TypeOK /\ AttemptInv)'
  OBVIOUS
<1>1. CASE [Next]_vars
  BY <1>1, StepTypeOK, StepAttemptInv
<1>2. CASE OnlyFaults
  <2>1. TypeOK'
    BY <1>2 DEF OnlyFaults, TypeOK, jobVars, redisVars, workerVars
  <2>2. ASSUME NEW j \in Jobs PROVE QuietJob(j) /\ SameExecutors(j)
    BY <1>2, UnchangedQuiet DEF OnlyFaults, jobVars, workerVars, SameExecutors, Executes
  <2>3. AttemptInv'
    BY <2>1, <2>2, QuietPreserves DEF AttemptInv
  <2> QED
    BY <2>1, <2>3
<1> QED
  BY <1>1, <1>2, QueueStep

\* The pipeline keeps every promise of the queue: what it does to documents between the
\* queue's transactions, and the terminal marks that fail, cost no attempt and hand out no
\* job (jobs/handlers.py inside jobs/worker.py).
THEOREM PipelineKeepsPromises ==
    DocSpec => /\ [](AttemptsWithinBudget /\ DeadLetterMeansExhausted /\ NoOverlapWithoutRevival)
               /\ AttemptsHeedCancel
<1>1. DocInit => TypeOK /\ AttemptInv
  BY InitTypeOK, InitAttemptInv DEF DocInit
<1>2. TypeOK /\ AttemptInv
      => AttemptsWithinBudget /\ DeadLetterMeansExhausted /\ NoOverlapWithoutRevival
  BY InvGivesBudget, InvGivesExhaustion, InvGivesExclusion
<1>3. TypeOK /\ CancelKept /\ [DocNext]_allVars
      => [\A j \in Jobs : hist[j].asked => job'[j].attempts <= job[j].attempts]_vars
  <2> SUFFICES ASSUME TypeOK, CancelKept, [DocNext]_allVars, NEW j \in Jobs, job[j].cancel
               PROVE  job'[j].attempts <= job[j].attempts
    BY DEF CancelKept
  <2>1. CASE [Next]_vars
    BY <2>1, OnlyClaimAddsAttempts
  <2>2. CASE OnlyFaults
    <3>1. job' = job /\ job[j].attempts \in Nat
      BY <2>2, JobTypes DEF OnlyFaults, jobVars
    <3> QED
      BY <3>1
  <2> QED
    BY <2>1, <2>2, QueueStep
<1>4. DocInit => CancelKept
  BY InitCancelKept DEF DocInit
<1>5. TypeOK /\ CancelKept /\ [DocNext]_allVars => CancelKept'
  <2> SUFFICES ASSUME TypeOK, CancelKept, [DocNext]_allVars PROVE CancelKept'
    OBVIOUS
  <2>1. CASE [Next]_vars
    BY <2>1, StepCancelKept
  <2>2. CASE OnlyFaults
    BY <2>2 DEF OnlyFaults, CancelKept
  <2> QED
    BY <2>1, <2>2, QueueStep
<1> QED
  BY <1>1, <1>2, <1>3, <1>4, <1>5, QueueInvKept, PTL DEF DocSpec, AttemptsHeedCancel

-----------------------------------------------------------------------------
(* Types *)

DocTypes ==
    /\ doc \in [Documents -> Doc]
    /\ chunks \subseteq Documents
    /\ pointer \in Documents
    /\ phase \in [Workers -> Phase]
    /\ mark \in [Actors -> Mark]

LEMMA DocRecords ==
    /\ NewVersion \in Doc /\ ActiveVersion \in Doc /\ NoMark \in Mark
    /\ \A j \in Jobs \cup {NoJob} : [NoMark EXCEPT !.pc = "read", !.job = j] \in Mark
<1>1. NewVersion \in Doc /\ ActiveVersion \in Doc
  BY DEF NewVersion, ActiveVersion, Doc
<1>2. NoMark \in Mark /\ \A j \in Jobs \cup {NoJob} : [NoMark EXCEPT !.pc = "read", !.job = j] \in Mark
  BY <1>1 DEF NoMark, Mark
<1> QED
  BY <1>1, <1>2

LEMMA TargetType == \A j : Target(j) \in Documents
BY DEF Target, Documents

\* A version goes to pending or processing, its activity and its chunks untouched.
Prepares(j, s) ==
    /\ \/ doc' = [doc EXCEPT ![j].status = s]
       \/ doc' = [doc EXCEPT ![j].status = s, ![j].lifecycle = "processing"]
    /\ UNCHANGED <<chunks, pointer, mark>>

\* A terminal mark becomes due, or is over without having written.
SetsMark(a, j) ==
    /\ \/ mark' = [mark EXCEPT ![a] = NoMark]
       \/ mark' = [mark EXCEPT ![a] = [NoMark EXCEPT !.pc = "read", !.job = j]]
    /\ UNCHANGED docVars

\* What a step of the pipeline does to the documents and to the terminal marks.
DocEffect ==
    \/ UNCHANGED <<docVars, mark>>
    \/ \E j \in IngestJobs, s \in {"pending", "processing"} : Prepares(j, s)
    \/ \E a \in Actors, j \in Jobs \cup {NoJob} : SetsMark(a, j)
    \/ \E a \in Actors : MarkRead(a) \/ MarkCommit(a)
    \/ \E w \in Workers : Finalize(w)

LEMMA StepEffects ==
    ASSUME TypeOK, DocTypes, [DocNext]_allVars
    PROVE  DocEffect /\ phase' \in [Workers -> Phase]
<1> USE DEF docVars, pipelineVars
<1>0. Workers \subseteq Actors /\ Requests \subseteq Actors
  BY DEF Actors
<1>1. \A w \in Workers : task[w].job \in Jobs \cup {NoJob}
  BY TaskTypes DEF Task, TypeOK
<1>2. \A r \in Requests : request[r].job \in Jobs \cup {NoJob}
  BY DEF TypeOK, Request
<1>3. \A w \in Workers, p \in Phase : SetPhase(w, p) => phase' \in [Workers -> Phase]
  BY DEF SetPhase, DocTypes
<1>4. phase \in [Workers -> Phase]
  BY DEF DocTypes
<1>5. ASSUME NEW d \in Documents, Upload(d) PROVE DocEffect /\ phase' = phase
  BY <1>5 DEF Upload, DocEffect, Prepares
<1>6. ASSUME NEW r \in Requests, DocRequestStep(r) PROVE DocEffect /\ phase' = phase
  <2>1. CASE (\E j \in Jobs : DocCreateJob(r, j)) \/ DocRequest(r)
    BY <2>1 DEF DocCreateJob, DocRequest, DocEffect
  <2>2. CASE DocCancelCommit(r)
    BY <2>2, <1>0, <1>2 DEF DocCancelCommit, CancelCommit, DocEffect, SetsMark
  <2>3. CASE DocRequeueCommit(r)
    BY <2>3 DEF DocRequeueCommit, DocEffect, Prepares
  <2> QED
    BY <1>6, <2>1, <2>2, <2>3 DEF DocRequestStep
<1>7. ASSUME NEW w \in Workers, MarkNext(w), UNCHANGED docVars
      PROVE  DocEffect /\ phase' \in [Workers -> Phase]
  <2>1. SetPhase(w, "mark") /\ \E j \in Jobs \cup {NoJob} : SetsMark(w, j)
    BY <1>7, <1>1 DEF MarkNext, SetsMark
  <2> QED
    BY <2>1, <1>0, <1>3 DEF DocEffect, Phase
<1>8. ASSUME NEW w \in Workers, SetPhase(w, "none"), mark' = [mark EXCEPT ![w] = NoMark],
             UNCHANGED docVars
      PROVE  DocEffect /\ phase' \in [Workers -> Phase]
  BY <1>8, <1>0, <1>1, <1>3 DEF DocEffect, SetsMark, Phase
<1>9. ASSUME NEW w \in Workers, DocWorkerStep(w) PROVE DocEffect /\ phase' \in [Workers -> Phase]
  <2>1. CASE DocLoopStep(w) \/ Index(w) \/ DocReturnNone(w) \/ DocRetry(w) \/ DocDeadLetter(w)
    BY <2>1, <1>4 DEF DocLoopStep, Index, DocReturnNone, DocRetry, DocDeadLetter, DocEffect
  <2>2. CASE DocClaim(w) \/ DocFinish(w)
    BY <2>2, <1>3, <1>4 DEF DocClaim, DocFinish, DocEffect, Phase
  <2>3. CASE Start(w)
    BY <2>3, <1>3 DEF Start, DocEffect, Prepares, Phase
  <2>4. CASE Finalize(w)
    BY <2>4, <1>3 DEF Finalize, DocEffect, Phase
  <2>5. CASE CancelIndexing(w)
    BY <2>5, <1>7 DEF CancelIndexing
  <2>6. CASE DocRaises(w)
    BY <2>6, <1>7, <1>8 DEF DocRaises
  <2> QED
    BY <1>9, <2>1, <2>2, <2>3, <2>4, <2>5, <2>6 DEF DocWorkerStep
<1>10. ASSUME NEW w \in Workers, DocCrash(w) PROVE DocEffect /\ phase' \in [Workers -> Phase]
  BY <1>10, <1>8 DEF DocCrash
<1>11. ASSUME NEW a \in Actors, MarkDone(a) PROVE phase' \in [Workers -> Phase]
  BY <1>11, <1>3, <1>4 DEF MarkDone, Phase
<1>12. ASSUME NEW a \in Actors, MarkRead(a) \/ MarkCommit(a) \/ MarkFails(a)
       PROVE  DocEffect /\ phase' \in [Workers -> Phase]
  <2>1. CASE MarkRead(a)
    BY <2>1, <1>4 DEF MarkRead, DocEffect
  <2>2. CASE MarkCommit(a)
    BY <2>2, <1>11 DEF MarkCommit, DocEffect
  <2>3. CASE MarkFails(a)
    BY <2>3, <1>11 DEF MarkFails, MarkDone, DocEffect, SetsMark
  <2> QED
    BY <1>12, <2>1, <2>2, <2>3
<1>13. ASSUME DocEnvironment \/ UNCHANGED allVars PROVE DocEffect /\ phase' = phase
  BY <1>13 DEF DocEnvironment, allVars, DocEffect
<1> QED
  BY <1>4, <1>5, <1>6, <1>9, <1>10, <1>12, <1>13 DEF DocNext

\* The row that a terminal mark leaves.
LEMMA FailedDocType ==
    ASSUME NEW row \in Doc, NEW saw \in Doc
    PROVE  /\ FailedDoc(row, saw) \in Doc
           /\ FailedDoc(row, saw).active \in {row.active, FALSE}
BY DEF FailedDoc, Column, Doc

\* The rows that a finalization leaves.
LEMMA FinalizedRows ==
    ASSUME DocTypes, NEW d \in Documents
    PROVE  LET swapped == [doc EXCEPT ![d] = Finalized(@)]
           IN  /\ swapped \in [Documents -> Doc]
               /\ Activated(swapped, d) \in [Documents -> Doc]
               /\ [swapped EXCEPT ![d] = Reindexed(@)] \in [Documents -> Doc]
<1> DEFINE swapped == [doc EXCEPT ![d] = Finalized(@)]
<1>1. Finalized(doc[d]) \in Doc
  BY DEF DocTypes, Finalized, Doc
<1>2. swapped \in [Documents -> Doc]
  BY <1>1 DEF DocTypes
<1>3. \A e \in Documents : swapped[e] \in Doc
  BY <1>2
<1> HIDE DEF swapped
<1>4. Activated(swapped, d) \in [Documents -> Doc]
  BY <1>3 DEF Activated, Doc
<1>5. Reindexed(swapped[d]) \in Doc
  BY <1>3 DEF Reindexed, Doc
<1>6. [swapped EXCEPT ![d] = Reindexed(@)] \in [Documents -> Doc]
  BY <1>2, <1>5
<1> QED
  BY <1>2, <1>4, <1>6 DEF swapped

LEMMA StepDocTypes ==
    ASSUME TypeOK, DocTypes, [DocNext]_allVars
    PROVE  DocTypes'
<1> USE DEF docVars
<1>1. DocEffect /\ phase' \in [Workers -> Phase]
  BY StepEffects
<1>2. CASE UNCHANGED <<docVars, mark>>
  BY <1>1, <1>2 DEF DocTypes
<1>3. ASSUME NEW j \in IngestJobs, NEW s \in {"pending", "processing"}, Prepares(j, s)
      PROVE  DocTypes'
  <2>1. /\ [doc[j] EXCEPT !.status = s] \in Doc
        /\ [doc[j] EXCEPT !.status = s, !.lifecycle = "processing"] \in Doc
    BY DEF DocTypes, Doc, Documents
  <2>2. doc' \in [Documents -> Doc]
    BY <1>3, <2>1 DEF Prepares, DocTypes
  <2> QED
    BY <1>1, <1>3, <2>2 DEF Prepares, DocTypes
<1>4. ASSUME NEW a \in Actors, NEW j \in Jobs \cup {NoJob}, SetsMark(a, j) PROVE DocTypes'
  BY <1>1, <1>4, DocRecords DEF SetsMark, DocTypes
<1>5. ASSUME NEW a \in Actors, MarkRead(a) PROVE DocTypes'
  <2>1. doc[Target(mark[a].job)] \in Doc
    BY TargetType DEF DocTypes
  <2>2. [mark[a] EXCEPT !.pc = "commit", !.saw = doc[Target(mark[a].job)]] \in Mark
    BY <2>1 DEF DocTypes, Mark
  <2> QED
    BY <1>1, <1>5, <2>2 DEF MarkRead, DocTypes
<1>6. ASSUME NEW a \in Actors, MarkCommit(a) PROVE DocTypes'
  <2>1. mark' \in [Actors -> Mark]
    BY <1>6, DocRecords DEF MarkCommit, MarkDone, DocTypes
  <2>2. ASSUME NEW d \in Documents PROVE FailedDoc(doc[d], mark[a].saw) \in Doc
    <3>1. doc[d] \in Doc /\ mark[a].saw \in Doc
      BY DEF DocTypes, Mark
    <3> QED
      BY <3>1, FailedDocType
  <2>3. doc' \in [Documents -> Doc]
    BY <1>6, <2>2 DEF MarkCommit, DocTypes, Documents
  <2> QED
    BY <1>1, <1>6, <2>1, <2>3 DEF MarkCommit, DocTypes
<1>7. ASSUME NEW w \in Workers, Finalize(w) PROVE DocTypes'
  <2> DEFINE d == Target(task[w].job)
  <2>1. d \in Documents
    BY TargetType
  <2>2. doc' \in [Documents -> Doc]
    BY <1>7, <2>1, FinalizedRows DEF Finalize
  <2>3. chunks' \subseteq Documents /\ pointer' \in Documents /\ mark' = mark
    BY <1>7, <2>1 DEF Finalize, DocTypes
  <2> QED
    BY <1>1, <2>2, <2>3 DEF DocTypes
<1> QED
  BY <1>1, <1>2, <1>3, <1>4, <1>5, <1>6, <1>7 DEF DocEffect

LEMMA PipelineInvariant == DocSpec => [](TypeOK /\ AttemptInv /\ DocTypes)
<1>1. DocInit => TypeOK /\ AttemptInv /\ DocTypes
  BY InitTypeOK, InitAttemptInv, DocRecords
  DEF DocInit, DocTypes, Documents, Phase
<1>2. TypeOK /\ AttemptInv /\ DocTypes /\ [DocNext]_allVars => (TypeOK /\ AttemptInv /\ DocTypes)'
  BY QueueInvKept, StepDocTypes
<1> QED
  BY <1>1, <1>2, PTL DEF DocSpec

\* Every variable of the pipeline keeps its type.
THEOREM DocTypeCorrect == DocSpec => []DocTypeOK
<1>1. TypeOK /\ DocTypes => DocTypeOK
  BY DEF DocTypes, DocTypeOK
<1> QED
  BY <1>1, PipelineInvariant, PTL

-----------------------------------------------------------------------------
(* The index                                                                *)

LEMMA InitIndexInv == DocInit => IndexInv
<1> SUFFICES ASSUME DocInit PROVE IndexInv
  OBVIOUS
<1>1. Current \in Documents /\ \A j \in IngestJobs : j # Current /\ j \in Documents
  BY IngestJobsAssumption DEF Documents
<1>2. doc[Current] = ActiveVersion /\ \A j \in IngestJobs : doc[j] = NewVersion
  BY <1>1 DEF DocInit
<1>3. ReindexKeepsVersionReady
  BY <1>2 DEF ReindexKeepsVersionReady, ActiveVersion, DocInit
<1>4. \A d \in Documents : doc[d].active => pointer = d /\ d \in chunks
  BY <1>2 DEF Documents, NewVersion, DocInit
<1>5. \A j \in IngestJobs : doc[j].active = doc[j].counted
  <2>1. NewVersion.active = FALSE /\ NewVersion.counted = FALSE
    BY DEF NewVersion
  <2> QED
    BY <1>2, <2>1, Zenon
<1>6. \A a \in Actors : mark[a].pc = "none"
  BY DEF DocInit, NoMark
<1> QED
  BY <1>3, <1>4, <1>5, <1>6 DEF IndexInv

\* Writes of the status and of the lifecycle alone, to an uploaded version.
LEMMA PrepareIndexInv ==
    ASSUME DocTypes, IndexInv, NEW j \in IngestJobs, NEW s, Prepares(j, s)
    PROVE  IndexInv'
<1>1. doc'[Current] = doc[Current]
  BY IngestJobsAssumption DEF Prepares, DocTypes, Documents
<1>2. \A d \in Documents : doc'[d].active = doc[d].active /\ doc'[d].counted = doc[d].counted
  BY DEF Prepares, DocTypes, Doc
<1>3. IngestJobs \subseteq Documents
  BY DEF Documents
<1> QED
  BY <1>1, <1>2, <1>3 DEF Prepares, IndexInv, ReindexKeepsVersionReady

LEMMA SetsMarkIndexInv ==
    ASSUME DocTypes, IndexInv, NEW a \in Actors, NEW j, SetsMark(a, j)
    PROVE  IndexInv'
<1>1. /\ NoMark.pc = "none" /\ [NoMark EXCEPT !.pc = "read", !.job = j].pc = "read"
      /\ mark \in [Actors -> Mark]
  BY DEF NoMark, DocTypes
<1>2. mark'[a].pc # "commit" /\ \A b \in Actors \ {a} : mark'[b] = mark[b]
  BY <1>1 DEF SetsMark
<1> QED
  BY <1>2 DEF SetsMark, docVars, IndexInv, ReindexKeepsVersionReady

LEMMA MarkReadIndexInv ==
    ASSUME DocTypes, IndexInv, NEW a \in Actors, MarkRead(a)
    PROVE  IndexInv'
<1>1. /\ mark'[a].job = mark[a].job /\ mark'[a].saw = doc[Target(mark[a].job)]
      /\ \A b \in Actors \ {a} : mark'[b] = mark[b]
  BY DEF MarkRead, DocTypes, Mark
<1>2. \A j \in IngestJobs : Target(j) = j
  BY DEF Target
<1>3. UNCHANGED docVars
  BY DEF MarkRead
<1>4. ASSUME NEW j \in IngestJobs, chunks \cap IngestJobs \subseteq {j}, NEW b \in Actors,
             mark'[b].pc = "commit", mark'[b].job = j
      PROVE  mark'[b].saw.active = mark'[b].saw.counted
  <2>1. CASE b = a
    <3>1. mark'[b].saw = doc[j]
      BY <1>1, <1>2, <1>4, <2>1
    <3>2. doc[j].active = doc[j].counted
      BY <1>4 DEF IndexInv
    <3> QED
      BY <3>1, <3>2, Zenon
  <2>2. CASE b # a
    BY <1>1, <1>4, <2>2 DEF IndexInv
  <2> QED
    BY <2>1, <2>2
<1> QED
  BY <1>3, <1>4 DEF docVars, IndexInv, ReindexKeepsVersionReady

\* A mark that loaded a row counted exactly if active keeps a row that way.
LEMMA FailedDocCounted ==
    ASSUME NEW row \in Doc, NEW saw \in Doc, row.active = row.counted, saw.active = saw.counted
    PROVE  FailedDoc(row, saw).active = FailedDoc(row, saw).counted
BY DEF FailedDoc, Column, Doc

LEMMA MarkCommitIndexInv ==
    ASSUME DocTypes, IndexInv, NEW a \in Actors, MarkCommit(a)
    PROVE  IndexInv'
<1> DEFINE j == mark[a].job
           row == FailedDoc(doc[j], mark[a].saw)
<1>1. \A b \in Actors : mark'[b].pc = "commit" => mark'[b] = mark[b]
  BY DEF MarkCommit, MarkDone, DocTypes, Mark, NoMark
<1>2. CASE j \notin IngestJobs
  BY <1>1, <1>2 DEF MarkCommit, IndexInv, ReindexKeepsVersionReady
<1>3. CASE j \in IngestJobs
  <2>1. /\ j \in Documents /\ j # Current /\ doc[j] \in Doc /\ mark[a].saw \in Doc
        /\ mark[a].pc = "commit" /\ UNCHANGED <<chunks, pointer>>
    BY <1>3, IngestJobsAssumption DEF MarkCommit, DocTypes, Mark, Documents
  <2>2. doc'[j] = row /\ \A d \in Documents \ {j} : doc'[d] = doc[d]
    BY <1>3, <2>1 DEF MarkCommit, DocTypes
  <2>3. row.active => doc[j].active
    BY <2>1, FailedDocType
  <2>4. ReindexKeepsVersionReady'
    BY <2>1, <2>2 DEF IndexInv, ReindexKeepsVersionReady, Documents
  <2>5. \A d \in Documents : doc'[d].active => pointer' = d /\ d \in chunks'
    BY <2>1, <2>2, <2>3 DEF IndexInv
  <2>6. ASSUME NEW i \in IngestJobs, chunks' \cap IngestJobs \subseteq {i}
        PROVE  doc'[i].active = doc'[i].counted
    <3>1. chunks \cap IngestJobs \subseteq {i} /\ i \in Documents
      BY <2>1, <2>6 DEF Documents
    <3>2. doc[i].active = doc[i].counted
      BY <3>1 DEF IndexInv
    <3>3. CASE i = j
      <4>1. mark[a].saw.active = mark[a].saw.counted
        BY <2>1, <3>1, <3>3 DEF IndexInv
      <4> QED
        BY <2>1, <2>2, <3>2, <3>3, <4>1, FailedDocCounted
    <3>4. CASE i # j
      BY <2>2, <3>1, <3>2, <3>4
    <3> QED
      BY <3>3, <3>4
  <2> QED
    BY <1>1, <2>1, <2>4, <2>5, <2>6 DEF IndexInv
<1> QED
  BY <1>2, <1>3

LEMMA FinalizeIndexInv ==
    ASSUME DocTypes, IndexInv, NEW w \in Workers, Finalize(w)
    PROVE  IndexInv'
<1> DEFINE d == Target(task[w].job)
           swapped == [doc EXCEPT ![d] = Finalized(@)]
<1>1. /\ d \in Documents /\ chunks' = chunks \cup {d} /\ mark' = mark
      /\ swapped \in [Documents -> Doc]
      /\ swapped[d].status = "ready" /\ swapped[d].counted = TRUE
      /\ swapped[d].active = doc[d].active
      /\ \A e \in Documents \ {d} : swapped[e] = doc[e]
  <2>1. d \in Documents /\ doc \in [Documents -> Doc] /\ doc[d] \in Doc
    BY TargetType DEF DocTypes
  <2>2. swapped[d] = Finalized(doc[d]) /\ \A e \in Documents \ {d} : swapped[e] = doc[e]
    BY <2>1
  <2>3. swapped \in [Documents -> Doc]
    BY <2>1, FinalizedRows
  <2>4. /\ Finalized(doc[d]).status = "ready" /\ Finalized(doc[d]).counted = TRUE
        /\ Finalized(doc[d]).active = doc[d].active
    BY <2>1 DEF Finalized, Doc
  <2>5. chunks' = chunks \cup {d} /\ mark' = mark
    BY DEF Finalize
  <2> QED
    BY <2>1, <2>2, <2>3, <2>4, <2>5, Zenon
<1>0. Current \in Documents /\ \A j \in IngestJobs : j # Current /\ j \in Documents
  BY IngestJobsAssumption DEF Documents
<1> HIDE DEF swapped
<1>2. CASE task[w].job \in IngestJobs
  <2>1. d \in IngestJobs /\ d # Current
    BY <1>0, <1>2 DEF Target
  <2>2. doc' = Activated(swapped, d) /\ pointer' = d
    BY <1>2 DEF Finalize, swapped
  <2>3. /\ doc'[d].active = TRUE /\ doc'[d].counted = TRUE
        /\ \A e \in Documents \ {d} :
              doc'[e] = IF doc[e].active
                        THEN [doc[e] EXCEPT !.active = FALSE, !.lifecycle = "superseded"]
                        ELSE doc[e]
    BY <1>1, <2>2 DEF Activated, Doc
  <2>4. \A e \in Documents \ {d} : ~doc'[e].active
    BY <2>3 DEF DocTypes, Doc
  <2>5. ReindexKeepsVersionReady'
    <3>1. doc[Current] \in Doc
      BY <1>0 DEF DocTypes
    <3>2. Current \in chunks' /\ doc[Current].status = "ready" /\ doc[Current].counted
      BY <1>1 DEF IndexInv, ReindexKeepsVersionReady
    <3>3. CASE doc[Current].active
      <4>1. doc'[Current] = [doc[Current] EXCEPT !.active = FALSE, !.lifecycle = "superseded"]
        BY <1>0, <2>1, <2>3, <3>3
      <4>2. /\ doc'[Current].status = doc[Current].status
            /\ doc'[Current].counted = doc[Current].counted
            /\ doc'[Current].active = FALSE /\ doc'[Current].lifecycle = "superseded"
        BY <3>1, <4>1 DEF Doc
      <4> QED
        BY <3>2, <4>2 DEF ReindexKeepsVersionReady
    <3>4. CASE ~doc[Current].active
      <4>1. doc'[Current] = doc[Current]
        BY <1>0, <2>1, <2>3, <3>4
      <4> QED
        BY <3>2, <4>1 DEF IndexInv, ReindexKeepsVersionReady
    <3> QED
      BY <3>3, <3>4
  <2>6. \A e \in Documents : doc'[e].active => pointer' = e /\ e \in chunks'
    BY <1>1, <2>2, <2>4
  <2>7. ASSUME NEW i \in IngestJobs, chunks' \cap IngestJobs \subseteq {i}
        PROVE  /\ i = d
               /\ chunks \cap IngestJobs \subseteq {i}
    BY <1>1, <2>1, <2>7
  <2> QED
    BY <1>1, <2>3, <2>5, <2>6, <2>7 DEF IndexInv
<1>3. CASE task[w].job \notin IngestJobs
  <2>1. d = Current
    BY <1>3 DEF Target
  <2>2. doc' = [swapped EXCEPT ![d] = Reindexed(@)] /\ pointer' = pointer
    BY <1>3 DEF Finalize, swapped
  <2>3. /\ doc'[d].active = doc[d].active /\ doc'[d].status = "ready" /\ doc'[d].counted = TRUE
        /\ doc'[d].lifecycle = (IF doc[d].active THEN "active" ELSE "superseded")
        /\ \A e \in Documents \ {d} : doc'[e] = doc[e]
    BY <1>1, <2>2 DEF Reindexed, Doc
  <2>4. ReindexKeepsVersionReady'
    BY <1>1, <2>1, <2>3 DEF ReindexKeepsVersionReady
  <2>5. \A e \in Documents : doc'[e].active => pointer' = e /\ e \in chunks'
    BY <1>1, <2>2, <2>3 DEF IndexInv
  <2>6. ASSUME NEW i \in IngestJobs
        PROVE  doc'[i] = doc[i] /\ chunks' \cap IngestJobs = chunks \cap IngestJobs
    BY <1>0, <1>1, <2>1, <2>3
  <2> QED
    BY <1>1, <2>4, <2>5, <2>6 DEF IndexInv
<1> QED
  BY <1>2, <1>3

LEMMA StepIndexInv == TypeOK /\ DocTypes /\ IndexInv /\ [DocNext]_allVars => IndexInv'
<1> SUFFICES ASSUME TypeOK, DocTypes, IndexInv, [DocNext]_allVars PROVE IndexInv'
  OBVIOUS
<1>1. CASE UNCHANGED <<docVars, mark>>
  BY <1>1 DEF docVars, IndexInv, ReindexKeepsVersionReady
<1> QED
  BY <1>1, StepEffects, PrepareIndexInv, SetsMarkIndexInv, MarkReadIndexInv, MarkCommitIndexInv,
     FinalizeIndexInv
  DEF DocEffect

LEMMA IndexInvariant == DocSpec => [](DocTypes /\ IndexInv)
<1>1. DocInit => IndexInv
  BY InitIndexInv
<1>2. TypeOK /\ AttemptInv /\ DocTypes /\ IndexInv /\ [DocNext]_allVars => IndexInv'
  BY StepIndexInv
<1> QED
  BY <1>1, <1>2, PipelineInvariant, PTL DEF DocSpec

\* Retrieval sees no version without its complete index, for any number of uploads, workers,
\* requests, retries and faults (_finalize_document_index, mark_document_job_terminal).
THEOREM VisibleVersionsAreIndexed == DocSpec => []VisibleIndexComplete
<1>1. DocTypes /\ IndexInv => VisibleIndexComplete
  <2> SUFFICES ASSUME DocTypes, IndexInv, NEW d \in Documents, Visible(d)
               PROVE  d \in chunks /\ (doc[d].counted \/ \E e \in IngestJobs \ {d} : e \in chunks)
    BY DEF VisibleIndexComplete
  <2>1. doc[d].active /\ d \in chunks
    BY DEF Visible, IndexInv
  <2>2. CASE d = Current
    BY <2>1, <2>2 DEF IndexInv, ReindexKeepsVersionReady
  <2>3. CASE d # Current
    <3>1. d \in IngestJobs
      BY <2>3 DEF Documents
    <3>2. chunks \cap IngestJobs \subseteq {d} => doc[d].counted
      BY <2>1, <3>1 DEF IndexInv
    <3> QED
      BY <2>1, <3>2
  <2> QED
    BY <2>2, <2>3
<1> QED
  BY <1>1, IndexInvariant, PTL

\* The logical document points to its active version, whichever finalizations, terminal marks
\* and requeues of the uploads overlap.
THEOREM PointerFollowsActivation == DocSpec => []ActiveVersionIsPointedTo
<1>1. IndexInv => ActiveVersionIsPointedTo
  BY DEF IndexInv, ActiveVersionIsPointedTo
<1> QED
  BY <1>1, IndexInvariant, PTL

\* A re-index never takes the version it rebuilds away, however it ends.
THEOREM ReindexIsHarmless == DocSpec => []ReindexKeepsVersionReady
<1>1. IndexInv => ReindexKeepsVersionReady
  BY DEF IndexInv
<1> QED
  BY <1>1, IndexInvariant, PTL

-----------------------------------------------------------------------------
(* Success                                                                  *)

\* What a step of the queue may do to one job, other than a requeue of it.
NoRequeue(j) ==
    /\ hist'[j].era = hist[j].era
    /\ hist'[j].revived >= hist[j].revived
    /\ job[j].cancel => job'[j].cancel
    /\ \/ job'[j].status \in {job[j].status, "queued", "running", "retrying", "cancelled",
                              "dead_lettered"}
       \/ /\ job'[j].status = "succeeded"
          /\ \E w \in Workers : pc[w] = "finishing" /\ pc'[w] = "loop" /\ task[w].job = j

LEMMA ClaimedRowFields ==
    ASSUME NEW row \in Row
    PROVE  /\ ClaimedRow(row) \in Row
           /\ ClaimedRow(row).cancel = row.cancel /\ ClaimedRow(row).status = "running"
<1>1. row.attempts + 1 \in Nat
  BY DEF Row
<1> QED
  BY <1>1 DEF ClaimedRow, Row, Status

LEMMA RowStep ==
    ASSUME TypeOK, [Next]_vars, NEW j \in Jobs
    PROVE  NoRequeue(j) \/ \E r \in Requests : RequeueCommit(r) /\ request[r].job = j
<1>0. job[j] \in Row /\ hist[j] \in Hist /\ hist[j].era \in Nat /\ hist[j].revived \in Nat
  BY JobTypes
<1>1. ASSUME job'[j] = job[j], hist'[j] = hist[j] PROVE NoRequeue(j)
  BY <1>0, <1>1 DEF NoRequeue
<1>2. ASSUME NEW k \in Jobs, NEW row \in Row, job' = [job EXCEPT ![k] = row], hist' = hist,
             row.cancel = job[k].cancel,
             row.status \in {job[k].status, "queued", "running", "retrying", "cancelled",
                             "dead_lettered"}
      PROVE  NoRequeue(j)
  <2>1. CASE k = j
    <3>1. job'[j] = row
      BY <1>2, <2>1 DEF TypeOK
    <3> QED
      BY <1>0, <1>2, <2>1, <3>1 DEF NoRequeue
  <2>2. CASE k # j
    BY <1>1, <1>2, <2>2 DEF TypeOK
  <2> QED
    BY <2>1, <2>2
<1>3. ASSUME NEW r \in Requests, RequestStep(r), ~(RequeueCommit(r) /\ request[r].job = j)
      PROVE  NoRequeue(j)
  <2>1. ASSUME NEW k \in Jobs, CreateJob(r, k) PROVE NoRequeue(j)
    <3>1. [job[k] EXCEPT !.status = "queued"] \in Row
      BY RowStatus, JobTypes DEF Status, Claimable
    <3> QED
      BY <1>2, <2>1, <3>1, JobTypes DEF CreateJob, Row
  <2>2. ASSUME CancelCommit(r) PROVE NoRequeue(j)
    <3> DEFINE k == request[r].job
               saw == request[r].saw
               row == Flush(job[k], saw, CancelledRow(saw))
    <3>1. /\ k \in Jobs /\ saw \in Row /\ job' = [job EXCEPT ![k] = row]
          /\ hist' = [hist EXCEPT ![k] = [hist[k] EXCEPT !.asked = hist[k].asked \/ ~saw.cancel]]
      BY <2>2 DEF CancelCommit, TypeOK, Request
    <3>2. CancelledRow(saw).cancel = TRUE /\ CancelledRow(saw).status \in {saw.status, "cancelled"}
      BY <3>1 DEF CancelledRow, Row
    <3>3. (job[k].cancel => row.cancel) /\ row.status \in {job[k].status, "cancelled"}
      BY <3>2 DEF Flush, Column
    <3>4. CASE k = j
      <4>1. job'[j] = row
        BY <3>1, <3>4 DEF TypeOK
      <4>2. hist'[j] = [hist[j] EXCEPT !.asked = hist[j].asked \/ ~saw.cancel]
        BY <3>1, <3>4 DEF TypeOK
      <4>3. hist'[j].era = hist[j].era /\ hist'[j].revived = hist[j].revived
        BY <1>0, <4>2 DEF Hist
      <4> QED
        BY <1>0, <3>3, <3>4, <4>1, <4>3 DEF NoRequeue
    <3>5. CASE k # j
      BY <1>1, <3>1, <3>5 DEF TypeOK
    <3> QED
      BY <3>4, <3>5
  <2>3. ASSUME RequeueCommit(r) PROVE NoRequeue(j)
    BY <1>1, <1>3, <2>3 DEF RequeueCommit, TypeOK
  <2> QED
    BY <1>1, <1>3, <2>1, <2>2, <2>3
    DEF RequestStep, ResubmitJob, CancelRead, RequeueRead, Enqueue, EnqueueLost
<1>4. ASSUME NEW w \in Workers, LoopStep(w) PROVE NoRequeue(j)
  <2>1. CASE RecoverCommit(w)
    <3> DEFINE new == RecoveredRow(job[j], plan[w][j])
    <3>1. job'[j] = new /\ hist'[j] = Revive(hist[j], job[j], new)
      BY <2>1 DEF RecoverCommit
    <3>2. new.cancel = job[j].cancel /\ new.status \in {job[j].status, "queued", "cancelled"}
      BY <1>0 DEF RecoveredRow, Row
    <3>3. hist'[j].era = hist[j].era /\ hist'[j].revived >= hist[j].revived
      BY <1>0, <3>1 DEF Revive, Hist
    <3> QED
      BY <3>1, <3>2, <3>3 DEF NoRequeue
  <2> QED
    BY <1>1, <1>4, <2>1
    DEF LoopStep, RecoverScan, PromoteScan, Promote, PopTimeout, Pop, RecoverPublish
<1>5. ASSUME NEW w \in Workers, ClaimStep(w) \/ HandlerStep(w) PROVE NoRequeue(j)
  <2> DEFINE k == task[w].job
  <2>1. CASE Claim(w)
    <3>1. k \in Jobs /\ job[k] \in Row /\ hist' = hist /\ job' = [job EXCEPT ![k] = ClaimedRow(@)]
      BY <2>1, TaskTypes, JobTypes DEF Claim
    <3>2. ClaimedRow(job[k]) \in Row /\ ClaimedRow(job[k]).cancel = job[k].cancel
          /\ ClaimedRow(job[k]).status = "running"
      BY <3>1, ClaimedRowFields
    <3> QED
      BY <1>2, <3>1, <3>2
  <2>2. CASE ClaimCancelled(w)
    <3>1. k \in Jobs /\ job[k] \in Row /\ hist' = hist
          /\ job' = [job EXCEPT ![k] = [job[k] EXCEPT !.status = "cancelled"]]
      BY <2>2, TaskTypes, JobTypes DEF ClaimCancelled
    <3>2. [job[k] EXCEPT !.status = "cancelled"] \in Row
      BY <3>1, RowStatus DEF Status, TERMINAL_STATUSES
    <3> QED
      BY <1>2, <3>1, <3>2 DEF Row
  <2>3. ASSUME NEW s \in Status, k \in Jobs
        PROVE  /\ FlushStatus(job[k], task[w].saw, s) \in Row
               /\ FlushStatus(job[k], task[w].saw, s).cancel = job[k].cancel
               /\ FlushStatus(job[k], task[w].saw, s).status \in {job[k].status, s}
    <3>1. job[k] \in Row
      BY <2>3, JobTypes
    <3>2. FlushStatus(job[k], task[w].saw, s).cancel = job[k].cancel
      BY <3>1 DEF FlushStatus, Row
    <3> QED
      BY <3>1, <3>2, FlushStatusType, FlushStatusFields
  <2>4. CASE ProgressCancels(w) \/ FailDeadLetter(w)
    <3>1. PICK s \in {"cancelled", "dead_lettered"} :
              job' = [job EXCEPT ![k] = FlushStatus(job[k], task[w].saw, s)] /\ hist' = hist
      BY <2>4 DEF ProgressCancels, FailDeadLetter
    <3>2. k \in Jobs /\ s \in Status
      BY <2>4, TaskTypes DEF ProgressCancels, FailDeadLetter, Executing, Status, TERMINAL_STATUSES
    <3> QED
      BY <1>2, <2>3, <3>1, <3>2
  <2>5. CASE FinishCommit(w)
    <3> DEFINE row == FlushStatus(job[k], task[w].saw, "succeeded")
    <3>1. k \in Jobs /\ "succeeded" \in Status /\ job' = [job EXCEPT ![k] = row] /\ hist' = hist
      BY <2>5, TaskTypes DEF FinishCommit, Executing, Status, TERMINAL_STATUSES
    <3>2. row \in Row /\ row.cancel = job[k].cancel /\ row.status \in {job[k].status, "succeeded"}
      BY <2>3, <3>1
    <3> HIDE DEF row
    <3>3. CASE k = j
      <4>1. job'[j] = row
        BY <3>1, <3>3 DEF TypeOK
      <4>2. pc[w] = "finishing" /\ pc'[w] = "loop"
        BY <2>5 DEF FinishCommit, BackToLoop, TypeOK
      <4> QED
        BY <1>0, <3>1, <3>2, <3>3, <4>1, <4>2 DEF NoRequeue
    <3>4. CASE k # j
      BY <1>1, <3>1, <3>4 DEF TypeOK
    <3> QED
      BY <3>3, <3>4
  <2>6. CASE FailRetry(w)
    <3> DEFINE row == FlushStatus(job[k], task[w].saw, "retrying")
    <3>1. k \in Jobs /\ "retrying" \in Status
          /\ job' = [job EXCEPT ![k] = row]
          /\ hist' = [hist EXCEPT ![k] = RetryHist(@, task[w], job[k], row)]
      BY <2>6, TaskTypes DEF FailRetry, RetryLeft, Executing, Status, Claimable
    <3>2. row \in Row /\ row.cancel = job[k].cancel /\ row.status \in {job[k].status, "retrying"}
      BY <2>3, <3>1
    <3> HIDE DEF row
    <3>3. CASE k = j
      <4>1. job'[j] = row /\ hist'[j] = RetryHist(hist[j], task[w], job[j], row)
        BY <3>1, <3>3 DEF TypeOK
      <4>2. hist'[j].era = hist[j].era /\ hist'[j].revived >= hist[j].revived
        BY <1>0, <4>1 DEF RetryHist, Revive, Hist
      <4> QED
        BY <3>2, <3>3, <4>1, <4>2 DEF NoRequeue
    <3>4. CASE k # j
      BY <1>1, <3>1, <3>4 DEF TypeOK
    <3> QED
      BY <3>3, <3>4
  <2> QED
    BY <1>1, <1>5, <2>1, <2>2, <2>4, <2>5, <2>6
    DEF ClaimStep, HandlerStep, ClaimNothing, ClaimSkipsLocked, Progress, ProgressSeesCancel,
        ReturnNone, FinishRead, FinishSeesCancelled, HandlerRaises, ScheduleRetry
<1>6. Environment => UNCHANGED <<job, hist>>
  BY DEF Environment, HeartbeatTick, Crash, Restart, HeartbeatExpires, HeartbeatStalls,
         RetryDelayElapses, RedisLoss
<1> QED
  BY <1>1, <1>3, <1>4, <1>5, <1>6 DEF Next, WorkerStep, vars

\* A requeue that is not the first of its job, or has loaded an attempt, begins a new era.
LEMMA RequeueEndsEra ==
    ASSUME TypeOK, RequestInv, NEW r \in Requests, RequeueCommit(r)
    PROVE  hist'[request[r].job].era > 0
<1> DEFINE k == request[r].job
           saw == request[r].saw
           new == Flush(job[k], saw, RequeuedRow(saw))
<1>1. k \in Jobs /\ saw \in Row /\ hist' = [hist EXCEPT ![k] = RequeueHist(@, saw, job[k], new)]
  BY DEF RequeueCommit, TypeOK, Request
<1>2. hist[k] \in Hist /\ hist[k].era \in Nat /\ hist'[k] = RequeueHist(hist[k], saw, job[k], new)
  BY <1>1, JobTypes DEF TypeOK
<1>3. hist[k].era = 0 => saw.attempts # 0
  BY <1>1 DEF RequestInv, RequeueCommit, Row
<1>4. CASE saw.attempts # 0
  BY <1>2, <1>4 DEF RequeueHist
<1>5. CASE saw.attempts = 0
  <2>1. hist'[k].era = Revive(hist[k], job[k], new).era
    <3>1. Revive(hist[k], job[k], new) \in Hist
      BY <1>2, ReviveType
    <3>2. hist'[k] = [Revive(hist[k], job[k], new) EXCEPT !.asked = hist[k].asked /\ ~saw.cancel]
      BY <1>2, <1>5 DEF RequeueHist
    <3> QED
      BY <3>1, <3>2 DEF Hist
  <2> QED
    BY <1>2, <1>3, <1>5, <2>1, ReviveFields
<1> QED
  BY <1>4, <1>5

LEMMA StepRequestInv ==
    ASSUME TypeOK, TypeOK', AttemptInv, RequestInv, [Next]_vars
    PROVE  RequestInv'
<1>1. ASSUME NEW j \in Jobs PROVE job'[j].status # "failed"
  <2>1. CASE NoRequeue(j)
    BY <2>1 DEF NoRequeue, RequestInv
  <2>2. ASSUME NEW r \in Requests, RequeueCommit(r), request[r].job = j
        PROVE  job'[j].status # "failed"
    <3>1. job'[j] = Flush(job[j], request[r].saw, RequeuedRow(request[r].saw))
      BY <2>2 DEF RequeueCommit, TypeOK
    <3> QED
      BY <3>1 DEF Flush, Column, RequeuedRow, RequestInv
  <2> QED
    BY <2>1, <2>2, RowStep
<1>2. ASSUME NEW r \in Requests, request'[r].op # "none", hist'[request'[r].job].era = 0
      PROVE  /\ request'[r].op = "requeue" => request'[r].saw.attempts > 0
             /\ request'[r].saw.cancel => job'[request'[r].job].cancel
  <2> DEFINE j == request'[r].job
  <2>1. j \in Jobs
    BY <1>2 DEF TypeOK
  <2>2. hist[j].era = 0 /\ (job[j].cancel => job'[j].cancel)
    BY <1>2, <2>1, RowStep, RequeueEndsEra DEF NoRequeue
  <2>3. CASE request'[r] = request[r]
    BY <1>2, <2>2, <2>3 DEF RequestInv
  <2>4. ASSUME NEW k \in Jobs, RequeueRead(r, k) \/ CancelRead(r, k)
        PROVE  /\ request'[r].op = "requeue" => request'[r].saw.attempts > 0
               /\ request'[r].saw.cancel => job'[j].cancel
    <3>1. request'[r].job = k /\ request'[r].saw = job[k] /\ job' = job
          /\ (request'[r].op = "requeue" => RequeueRead(r, k))
      BY <2>4 DEF RequeueRead, CancelRead, TypeOK, jobVars
    <3>2. ASSUME RequeueRead(r, k) PROVE job[k].attempts > 0
      <4>1. job[k].status = "dead_lettered" /\ hist[k].era = 0
        BY <2>2, <3>1, <3>2 DEF RequeueRead, Requeueable, RequestInv
      <4>2. job[k].attempts \in Nat /\ job[k].attempts >= MaxAttempts
        BY <4>1, JobTypes DEF AttemptInv, JobInv
      <4> QED
        BY <4>2, MaxAttemptsAssumption
    <3> QED
      BY <3>1, <3>2
  <2>5. ASSUME \A k \in Jobs : ~RequeueRead(r, k) /\ ~CancelRead(r, k), RequestStep(r)
        PROVE  ~request'[r].saw.cancel /\ request'[r].op # "requeue"
    <3>1. /\ NoRequest.op = "none" /\ ~NoRequest.saw.cancel
          /\ \A k : /\ [NoRequest EXCEPT !.op = "enqueue", !.job = k].op = "enqueue"
                    /\ ~[NoRequest EXCEPT !.op = "enqueue", !.job = k].saw.cancel
      BY DEF NoRequest, NewRow
    <3>2. ASSUME NEW m, request' = [request EXCEPT ![r] = m] PROVE request'[r] = m
      BY <3>2 DEF TypeOK
    <3>3. CASE (\E k \in Jobs : CreateJob(r, k) \/ ResubmitJob(r, k)) \/ RequeueCommit(r)
      BY <3>1, <3>2, <3>3 DEF CreateJob, ResubmitJob, RequeueCommit
    <3>4. CASE Enqueue(r) \/ EnqueueLost(r) \/ CancelCommit(r)
      BY <3>1, <3>2, <3>4 DEF Enqueue, EnqueueLost, CancelCommit
    <3> QED
      BY <2>5, <3>3, <3>4 DEF RequestStep
  <2>6. ASSUME NEW s \in Requests, s # r, RequestStep(s) PROVE request'[r] = request[r]
    BY <2>6 DEF RequestStep, CreateJob, ResubmitJob, CancelRead, RequeueRead, Enqueue, EnqueueLost,
                CancelCommit, RequeueCommit, TypeOK
  <2>7. CASE (\E w \in Workers : WorkerStep(w)) \/ Environment \/ UNCHANGED vars
    <3>1. request' = request
      BY <2>7 DEF WorkerStep, LoopStep, ClaimStep, HandlerStep, Environment, vars, RecoverScan,
         RecoverPublish, RecoverCommit, PromoteScan, Promote, Pop, PopTimeout, Claim, ClaimCancelled,
         ClaimNothing, ClaimSkipsLocked, Progress, ProgressSeesCancel, ProgressCancels, ReturnNone,
         FinishRead, FinishSeesCancelled, FinishCommit, HandlerRaises, FailRetry, ScheduleRetry,
         FailDeadLetter, HeartbeatTick, Crash, Restart, HeartbeatExpires, HeartbeatStalls,
         RetryDelayElapses, RedisLoss
    <3> QED
      BY <2>3, <3>1
  <2> QED
    BY <2>3, <2>4, <2>5, <2>6, <2>7 DEF Next
<1> QED
  BY <1>1, <1>2 DEF RequestInv

\* A step of a worker leaves the other workers and their marks alone.
LEMMA WorkerFrame ==
    ASSUME TypeOK, DocTypes, NEW w \in Workers, DocWorkerStep(w) \/ DocCrash(w)
    PROVE  /\ \A v \in Workers \ {w} :
                 pc'[v] = pc[v] /\ task'[v] = task[v] /\ phase'[v] = phase[v]
           /\ \A a \in Actors \ {w} : mark'[a] = mark[a]
<1> USE DEF docVars, pipelineVars
<1>1. \A v \in Workers \ {w} : pc'[v] = pc[v] /\ task'[v] = task[v]
  <2>1. CASE UNCHANGED vars
    BY <2>1 DEF vars
  <2>2. CASE LoopStep(w) \/ Crash(w)
    BY <2>2 DEF TypeOK, LoopStep, RecoverScan, RecoverPublish, RecoverCommit, PromoteScan, Promote,
                Pop, PopTimeout, Crash
  <2>3. CASE ClaimStep(w)
    BY <2>3 DEF TypeOK, ClaimStep, Claim, ClaimCancelled, ClaimNothing, ClaimSkipsLocked, BackToLoop
  <2>4. CASE HandlerStep(w)
    BY <2>4 DEF TypeOK, HandlerStep, Progress, ProgressSeesCancel, ProgressCancels, ReturnNone,
                FinishRead, FinishSeesCancelled, FinishCommit, HandlerRaises, FailRetry,
                ScheduleRetry, FailDeadLetter, BackToLoop
  <2> QED
    BY <2>1, <2>2, <2>3, <2>4
    DEF DocWorkerStep, DocLoopStep, DocClaim, Start, Index, Finalize, CancelIndexing,
        DocReturnNone, DocFinish, DocRaises, DocRetry, DocDeadLetter, DocCrash, ClaimStep, HandlerStep
<1>2. \A v \in Workers \ {w} : phase'[v] = phase[v]
  BY DEF DocTypes, DocWorkerStep, DocLoopStep, DocClaim, Start, Index, Finalize, CancelIndexing,
         DocReturnNone, DocFinish, DocRaises, DocRetry, DocDeadLetter, DocCrash, SetPhase, MarkNext
<1>3. \A a \in Actors \ {w} : mark'[a] = mark[a]
  BY DEF DocTypes, DocWorkerStep, DocLoopStep, DocClaim, Start, Index, Finalize, CancelIndexing,
         DocReturnNone, DocFinish, DocRaises, DocRetry, DocDeadLetter, DocCrash, SetPhase, MarkNext
<1> QED
  BY <1>1, <1>2, <1>3

\* The steps of the pipeline that are not a worker's.
LEMMA OtherFrame ==
    ASSUME TypeOK, DocTypes, [DocNext]_allVars,
           ~ \E w \in Workers : DocWorkerStep(w) \/ DocCrash(w)
    PROVE  \/ UNCHANGED <<pc, task, phase, mark>>
           \/ \E w \in Workers : /\ pc[w] = "down" /\ pc' = [pc EXCEPT ![w] = "starting"]
                                 /\ UNCHANGED <<task, phase, mark>>
           \/ \E r \in Requests : DocCancelCommit(r)
           \/ \E a \in Actors : MarkRead(a) \/ MarkCommit(a) \/ MarkFails(a)
<1> USE DEF pipelineVars
<1>1. CASE \E d \in Documents : Upload(d)
  BY <1>1 DEF Upload, vars
<1>2. ASSUME NEW r \in Requests, DocRequestStep(r)
      PROVE  DocCancelCommit(r) \/ UNCHANGED <<pc, task, phase, mark>>
  BY <1>2 DEF DocRequestStep, DocCreateJob, DocRequest, DocRequeueCommit, CreateJob, ResubmitJob,
              CancelRead, RequeueRead, Enqueue, EnqueueLost, RequeueCommit
<1>3. CASE DocEnvironment
  BY <1>3 DEF DocEnvironment, HeartbeatTick, Restart, HeartbeatExpires, HeartbeatStalls,
              RetryDelayElapses, RedisLoss
<1>4. CASE UNCHANGED allVars
  BY <1>4 DEF allVars, vars
<1> QED
  BY <1>1, <1>2, <1>3, <1>4 DEF DocNext

LEMMA WorkerPhaseFits ==
    ASSUME TypeOK, DocTypes, NEW w \in Workers, PhaseFits(w), DocWorkerStep(w) \/ DocCrash(w)
    PROVE  PhaseFits(w)'
<1> USE DEF pipelineVars
<1>0. w \in Actors
  BY DEF Actors
<1>1. \A p \in Phase : SetPhase(w, p) => phase'[w] = p
  BY DEF SetPhase, DocTypes
<1>2. \A p : pc' = [pc EXCEPT ![w] = p] => pc'[w] = p
  BY DEF TypeOK
<1>3. \A m : mark' = [mark EXCEPT ![w] = m] => mark'[w] = m
  BY <1>0 DEF DocTypes
<1>4. NoMark.pc = "none" /\ \A j : [NoMark EXCEPT !.pc = "read", !.job = j].job = j
  BY DEF NoMark
<1>5. CASE DocLoopStep(w) \/ DocReturnNone(w) \/ DocDeadLetter(w)
  <2>1. phase[w] = "none" /\ phase' = phase /\ mark' = mark
    BY <1>5 DEF DocLoopStep, DocReturnNone, DocDeadLetter
  <2>2. pc'[w] # "finishing"
    BY <1>2, <1>5 DEF DocLoopStep, DocReturnNone, DocDeadLetter, LoopStep, RecoverScan, RecoverPublish,
         RecoverCommit, PromoteScan, Promote, Pop, PopTimeout, ClaimCancelled, ClaimNothing,
         ClaimSkipsLocked, ReturnNone, FailDeadLetter, BackToLoop
  <2> QED
    BY <2>1, <2>2 DEF PhaseFits
<1>6. CASE DocClaim(w)
  <2>1. pc[w] = "claiming" /\ phase'[w] = "start" /\ mark' = mark /\ pc'[w] = "running"
    BY <1>1, <1>2, <1>6 DEF DocClaim, Claim, Phase
  <2> QED
    BY <2>1 DEF PhaseFits
<1>7. CASE Start(w) \/ Finalize(w)
  <2>1. /\ pc[w] = "running" /\ phase[w] \in {"start", "index"} /\ phase'[w] \in {"index", "indexed"}
        /\ mark' = mark /\ pc' = pc
    BY <1>1, <1>7 DEF Start, Finalize, Phase, vars
  <2> QED
    BY <2>1 DEF PhaseFits
<1>8. CASE Index(w)
  <2>1. phase[w] = "index" /\ phase' = phase /\ mark' = mark
    BY <1>8 DEF Index
  <2>2. pc'[w] # "finishing"
    BY <1>2, <1>8 DEF Index, Progress, ProgressSeesCancel
  <2> QED
    BY <2>1, <2>2 DEF PhaseFits
<1>9. CASE CancelIndexing(w)
  <2>1. phase'[w] = "mark" /\ mark'[w].job = task[w].job
    BY <1>1, <1>3, <1>4, <1>9 DEF CancelIndexing, MarkNext, Phase
  <2>2. pc'[w] = "returning" /\ task' = task
    BY <1>2, <1>9 DEF CancelIndexing, ProgressCancels
  <2> QED
    BY <2>1, <2>2 DEF PhaseFits
<1>10. CASE DocFinish(w)
  <2>1. phase[w] = "indexed" /\ mark' = mark
    BY <1>10 DEF DocFinish
  <2>2. CASE FinishRead(w) /\ UNCHANGED phase
    BY <1>2, <2>1, <2>2 DEF FinishRead, PhaseFits
  <2>3. CASE (FinishSeesCancelled(w) \/ FinishCommit(w)) /\ SetPhase(w, "none")
    <3>1. phase'[w] = "none" /\ pc'[w] = "loop"
      BY <1>1, <1>2, <2>3 DEF FinishSeesCancelled, FinishCommit, BackToLoop, Phase
    <3> QED
      BY <2>1, <3>1 DEF PhaseFits
  <2> QED
    BY <1>10, <2>2, <2>3 DEF DocFinish
<1>11. CASE DocRaises(w)
  <2>1. /\ pc'[w] = "failing" /\ task'[w].job = task[w].job /\ task'[w].attempt = task[w].attempt
    BY <1>2, <1>11 DEF DocRaises, HandlerRaises, TypeOK, Task
  <2>2. CASE RetryLeft(task[w].attempt)
    <3>1. phase'[w] = "none" /\ mark'[w].pc = "none"
      BY <1>1, <1>3, <1>4, <1>11, <2>2 DEF DocRaises, Phase
    <3> QED
      BY <2>1, <3>1 DEF PhaseFits
  <2>3. CASE ~RetryLeft(task[w].attempt)
    <3>1. phase'[w] = "mark" /\ mark'[w].job = task[w].job
      BY <1>1, <1>3, <1>4, <1>11, <2>3 DEF DocRaises, MarkNext, Phase
    <3>2. RetryLeft(task'[w].attempt) = RetryLeft(task[w].attempt)
      BY <2>1
    <3> QED
      BY <2>1, <2>3, <3>1, <3>2 DEF PhaseFits
  <2> QED
    BY <2>2, <2>3
<1>12. CASE DocRetry(w)
  <2>1. /\ pc[w] = "delaying" \/ (pc[w] = "failing" /\ RetryLeft(task[w].attempt))
        /\ pc'[w] \in {"delaying", "loop"} /\ phase' = phase /\ mark' = mark
    BY <1>2, <1>12 DEF DocRetry, FailRetry, ScheduleRetry, BackToLoop
  <2> QED
    BY <2>1 DEF PhaseFits
<1>13. CASE DocCrash(w)
  <2>1. phase'[w] = "none" /\ mark'[w].pc = "none" /\ pc'[w] = "down"
    BY <1>1, <1>2, <1>3, <1>4, <1>13 DEF DocCrash, Crash, Phase
  <2> QED
    BY <2>1 DEF PhaseFits
<1> QED
  BY <1>5, <1>6, <1>7, <1>8, <1>9, <1>10, <1>11, <1>12, <1>13 DEF DocWorkerStep

LEMMA StepPhaseInv ==
    ASSUME TypeOK, DocTypes, PhaseInv, [DocNext]_allVars
    PROVE  PhaseInv'
<1>0. \A w \in Workers : w \in Actors /\ w \notin Requests
  BY ActorsAssumption DEF Actors
<1>1. \A w \in Workers : PhaseFits(w)
  BY DEF PhaseInv
<1> SUFFICES ASSUME NEW v \in Workers PROVE PhaseFits(v)'
  BY DEF PhaseInv
<1>2. ASSUME NEW w \in Workers, DocWorkerStep(w) \/ DocCrash(w) PROVE PhaseFits(v)'
  <2>1. CASE v = w
    BY <1>1, <1>2, <2>1, WorkerPhaseFits
  <2>2. CASE v # w
    <3>1. pc'[v] = pc[v] /\ task'[v] = task[v] /\ phase'[v] = phase[v] /\ mark'[v] = mark[v]
      BY <1>0, <1>2, <2>2, WorkerFrame
    <3> QED
      BY <1>1, <3>1 DEF PhaseFits
  <2> QED
    BY <2>1, <2>2
<1>3. CASE UNCHANGED <<pc, task, phase, mark>>
  BY <1>1, <1>3 DEF PhaseFits
<1>4. ASSUME NEW w \in Workers, pc[w] = "down", pc' = [pc EXCEPT ![w] = "starting"],
             UNCHANGED <<task, phase, mark>>
      PROVE  PhaseFits(v)'
  <2>1. pc'[v] = (IF v = w THEN "starting" ELSE pc[v])
    BY <1>4 DEF TypeOK
  <2> QED
    BY <1>1, <1>4, <2>1 DEF PhaseFits
<1>5. ASSUME NEW r \in Requests, DocCancelCommit(r) PROVE PhaseFits(v)'
  <2>1. UNCHANGED <<pc, task, phase>> /\ mark'[v] = mark[v]
    BY <1>0, <1>5 DEF DocCancelCommit, CancelCommit, DocTypes
  <2> QED
    BY <1>1, <2>1 DEF PhaseFits
<1>6. ASSUME NEW a \in Actors, MarkRead(a) PROVE PhaseFits(v)'
  <2>1. UNCHANGED <<pc, task, phase>> /\ mark'[v].job = mark[v].job
        /\ (mark'[v].pc # "none" => mark[v].pc # "none")
    BY <1>0, <1>6 DEF MarkRead, vars, DocTypes, Mark
  <2> QED
    BY <1>1, <2>1 DEF PhaseFits
<1>7. ASSUME NEW a \in Actors, MarkCommit(a) \/ MarkFails(a) PROVE PhaseFits(v)'
  <2>1. UNCHANGED <<pc, task>> /\ MarkDone(a) /\ mark[a].pc # "none"
    BY <1>7 DEF MarkCommit, MarkFails, vars
  <2>2. CASE v # a
    <3>1. mark'[v] = mark[v] /\ phase'[v] = phase[v]
      BY <1>0, <2>1, <2>2 DEF MarkDone, SetPhase, DocTypes
    <3> QED
      BY <1>1, <2>1, <3>1 DEF PhaseFits
  <2>3. CASE v = a
    <3>1. mark'[v].pc = "none" /\ phase'[v] = "none"
      BY <1>0, <2>1, <2>3 DEF MarkDone, SetPhase, DocTypes, NoMark
    <3>2. pc[v] # "finishing"
      BY <1>1, <2>1, <2>3 DEF PhaseFits
    <3> QED
      BY <2>1, <3>1, <3>2 DEF PhaseFits
  <2> QED
    BY <2>2, <2>3
<1> QED
  BY <1>2, <1>3, <1>4, <1>5, <1>6, <1>7, OtherFrame

\* Nobody disturbs a job in the step after which nobody has disturbed it.
LEMMA UndisturbedBefore ==
    ASSUME TypeOK, RequestInv, [DocNext]_allVars, NEW j \in Jobs,
           ~job'[j].cancel, Undisturbed(j)'
    PROVE  ~job[j].cancel /\ Undisturbed(j) /\ NoRequeue(j)
<1>0. hist[j].era \in Nat /\ hist[j].revived \in Nat
  BY JobTypes
<1>1. NoRequeue(j)
  <2>1. CASE [Next]_vars
    BY <2>1, RowStep, RequeueEndsEra DEF Undisturbed
  <2>2. CASE OnlyFaults
    BY <2>2, <1>0 DEF OnlyFaults, NoRequeue
  <2> QED
    BY <2>1, <2>2, QueueStep
<1>2. hist'[j].revived = 0 => hist[j].revived = 0
  BY <1>0, <1>1 DEF NoRequeue
<1> QED
  BY <1>1, <1>2 DEF NoRequeue, Undisturbed

LEMMA UndisturbedAlone ==
    ASSUME AttemptInv, NEW j \in Jobs, Undisturbed(j), NEW v \in Workers, NEW w \in Workers,
           Executes(v, j), Executes(w, j)
    PROVE  v = w
BY DEF AttemptInv, JobInv, ExclusiveUnlessRevived, Undisturbed

\* A step that takes nothing from the version and starts nothing on the job.
Harmless(j) ==
    /\ Indexed(j) => Indexed(j)'
    /\ \A r \in Requests : mark'[r].pc # "none" /\ mark'[r].job = j
                           => mark[r].pc # "none" /\ mark[r].job = j
    /\ \A w \in Workers :
          /\ Executes(w, j)' => Executes(w, j) \/ job'[j].status # "succeeded"
          /\ Executes(w, j)' /\ phase'[w] = "indexed" => Executes(w, j) /\ phase[w] = "indexed"
          /\ task'[w].job = j /\ pc'[w] \in {"cancelling", "returning"}
             => task[w].job = j /\ pc[w] \in {"cancelling", "returning"}
    /\ job'[j].status = "succeeded" => job[j].status = "succeeded"

LEMMA HarmlessKeeps ==
    ASSUME NEW j \in Jobs, IndexedOnce(j), Harmless(j)
    PROVE  IndexedOnce(j)'
BY DEF IndexedOnce, Harmless

\* What the steps of the queue that a worker w takes, Claim and FinishCommit apart, do to the
\* executions of a job without a cancellation.
LEMMA QuietWorkerStep ==
    ASSUME TypeOK, NEW j \in Jobs, ~job[j].cancel, NEW w \in Workers,
           LoopStep(w) \/ ClaimCancelled(w) \/ ClaimNothing(w) \/ ClaimSkipsLocked(w)
           \/ Progress(w) \/ ProgressSeesCancel(w) \/ ReturnNone(w) \/ FinishRead(w)
           \/ FinishSeesCancelled(w) \/ HandlerRaises(w) \/ FailRetry(w) \/ ScheduleRetry(w)
           \/ FailDeadLetter(w) \/ Crash(w)
    PROVE  /\ Executes(w, j)' => Executes(w, j)
           /\ task'[w].job = j => pc'[w] \notin {"cancelling", "returning"}
           /\ pc[w] = "finishing" /\ pc'[w] = "loop" => FALSE
<1>1. CASE LoopStep(w)
  BY <1>1 DEF TypeOK, Executes, Executing, LoopStep, RecoverScan, RecoverPublish, RecoverCommit,
              PromoteScan, Promote, Pop, PopTimeout
<1>2. CASE ClaimCancelled(w) \/ ClaimNothing(w) \/ ClaimSkipsLocked(w) \/ ReturnNone(w)
           \/ FinishSeesCancelled(w) \/ ScheduleRetry(w) \/ FailDeadLetter(w)
  BY <1>2 DEF TypeOK, Executes, Executing, ClaimCancelled, ClaimNothing, ClaimSkipsLocked,
              ReturnNone, FinishSeesCancelled, ScheduleRetry, FailDeadLetter, BackToLoop
<1>3. CASE Progress(w) \/ ProgressSeesCancel(w) \/ FinishRead(w) \/ HandlerRaises(w)
  <2>1. task'[w].job = task[w].job /\ pc[w] \in Executing
    BY <1>3 DEF TypeOK, Task, Executing, Progress, ProgressSeesCancel, FinishRead, HandlerRaises
  <2>2. task[w].job = j => pc'[w] \notin {"cancelling", "returning"}
    BY <1>3 DEF TypeOK, Progress, ProgressSeesCancel, FinishRead, HandlerRaises
  <2>3. pc[w] = "finishing" => pc'[w] # "loop"
    BY <1>3 DEF TypeOK, Progress, ProgressSeesCancel, FinishRead, HandlerRaises
  <2> QED
    BY <2>1, <2>2, <2>3 DEF Executes
<1>4. CASE FailRetry(w) \/ Crash(w)
  BY <1>4 DEF TypeOK, Executes, Executing, FailRetry, Crash
<1> QED
  BY <1>1, <1>2, <1>3, <1>4

LEMMA StepIndexedOnce ==
    ASSUME TypeOK, AttemptInv, DocTypes, RequestInv, PhaseInv, [DocNext]_allVars,
           NEW j \in IngestJobs, UndisturbedInv(j), ~job'[j].cancel, Undisturbed(j)'
    PROVE  IndexedOnce(j)'
<1> USE DEF docVars, pipelineVars
<1>0. /\ j \in Jobs /\ j \in Documents /\ Workers \subseteq Actors /\ Requests \subseteq Actors
      /\ \A w \in Workers : w \notin Requests
      /\ Target(j) = j
  BY IngestJobsAssumption, ActorsAssumption DEF Documents, Actors, Target
<1>1. ~job[j].cancel /\ Undisturbed(j) /\ NoRequeue(j) /\ IndexedOnce(j)
  BY <1>0, UndisturbedBefore DEF UndisturbedInv
<1>2. \A v, w \in Workers : Executes(v, j) /\ Executes(w, j) => v = w
  BY <1>0, <1>1, UndisturbedAlone
<1>3. ASSUME ~ \E w \in Workers : pc[w] = "finishing" /\ pc'[w] = "loop" /\ task[w].job = j
      PROVE  job'[j].status = "succeeded" => job[j].status = "succeeded"
  BY <1>1, <1>3 DEF NoRequeue
\* Steps that leave every worker where it is.
<1>4. ASSUME UNCHANGED <<pc, task>>,
             \A w \in Workers : phase'[w] # phase[w] => phase'[w] # "indexed",
             Indexed(j) => Indexed(j)',
             \A r \in Requests : mark'[r].pc # "none" /\ mark'[r].job = j
                                 => mark[r].pc # "none" /\ mark[r].job = j
      PROVE  IndexedOnce(j)'
  <2>1. \A w \in Workers : Executes(w, j)' = Executes(w, j)
    BY <1>4 DEF Executes
  <2>2. job'[j].status = "succeeded" => job[j].status = "succeeded"
    BY <1>3, <1>4
  <2>3. Harmless(j)
    BY <1>4, <2>1, <2>2 DEF Harmless
  <2> QED
    BY <1>0, <1>1, <2>3, HarmlessKeeps
\* Steps of a worker that are harmless to the job.
<1>5. ASSUME NEW w \in Workers, DocWorkerStep(w) \/ DocCrash(w),
             Executes(w, j)' => Executes(w, j) \/ job'[j].status # "succeeded",
             Executes(w, j)' /\ phase'[w] = "indexed" => Executes(w, j) /\ phase[w] = "indexed",
             task'[w].job = j => pc'[w] \notin {"cancelling", "returning"},
             pc[w] = "finishing" /\ pc'[w] = "loop" => task[w].job # j,
             Indexed(j) => Indexed(j)'
      PROVE  IndexedOnce(j)'
  <2>1. \A v \in Workers \ {w} : pc'[v] = pc[v] /\ task'[v] = task[v] /\ phase'[v] = phase[v]
    BY <1>5, WorkerFrame
  <2>2. \A r \in Requests : mark'[r] = mark[r]
    BY <1>0, <1>5, WorkerFrame
  <2>3. job'[j].status = "succeeded" => job[j].status = "succeeded"
    BY <1>3, <1>5, <2>1
  <2>4. \A v \in Workers \ {w} : Executes(v, j)' = Executes(v, j)
    BY <2>1 DEF Executes
  <2>5. Harmless(j)
    BY <1>5, <2>1, <2>2, <2>3, <2>4 DEF Harmless
  <2> QED
    BY <1>0, <1>1, <2>5, HarmlessKeeps
<1>6. ASSUME NEW d \in Documents, Upload(d) PROVE IndexedOnce(j)'
  <2>1. UNCHANGED <<pc, task, phase, mark, chunks>>
    BY <1>6 DEF Upload, vars
  <2>2. Indexed(j) => Indexed(j)'
    BY <1>0, <1>6, <2>1 DEF Upload, DocTypes, Indexed
  <2> QED
    BY <1>4, <2>1, <2>2
<1>7. ASSUME NEW r \in Requests, DocRequestStep(r) PROVE IndexedOnce(j)'
  <2>1. UNCHANGED <<pc, task, phase, chunks>>
    BY <1>7 DEF DocRequestStep, DocCreateJob, DocRequest, DocCancelCommit, DocRequeueCommit,
                CreateJob, ResubmitJob, CancelRead, RequeueRead, Enqueue, EnqueueLost, CancelCommit,
                RequeueCommit
  <2>2. CASE DocCancelCommit(r)
    <3>1. request[r].job # j
      <4>1. SUFFICES ASSUME request[r].job = j PROVE FALSE
        OBVIOUS
      <4>2. job'[j] = Flush(job[j], request[r].saw, CancelledRow(request[r].saw))
        BY <1>0, <2>2, <4>1 DEF DocCancelCommit, CancelCommit, TypeOK
      <4>3. request[r].saw \in Row /\ request[r].op = "cancel"
        BY <2>2 DEF DocCancelCommit, CancelCommit, TypeOK, Request
      <4>4. CancelledRow(request[r].saw).cancel = TRUE
        BY <4>3 DEF CancelledRow, Row
      <4>5. request[r].saw.cancel \/ job'[j].cancel
        BY <4>2, <4>4 DEF Flush, Column
      <4>6. hist[j].era = 0
        BY <1>1 DEF Undisturbed
      <4> QED
        BY <1>1, <4>1, <4>3, <4>5, <4>6 DEF RequestInv
    <3>2. \A s \in Requests : mark'[s].pc # "none" /\ mark'[s].job = j
                              => mark[s].pc # "none" /\ mark[s].job = j
      BY <1>0, <2>2, <3>1 DEF DocCancelCommit, DocTypes, NoMark
    <3> QED
      BY <1>4, <2>1, <2>2, <3>2 DEF DocCancelCommit, Indexed
  <2>3. CASE DocRequeueCommit(r)
    <3>1. request[r].job # j
      BY <2>3, RequeueEndsEra DEF DocRequeueCommit, Undisturbed
    <3>2. doc'[j] = doc[j] /\ UNCHANGED <<chunks, mark>>
      BY <1>0, <2>3, <3>1 DEF DocRequeueCommit, DocTypes
    <3> QED
      BY <1>4, <2>1, <3>2 DEF Indexed
  <2>4. CASE (\E k \in Jobs : DocCreateJob(r, k)) \/ DocRequest(r)
    BY <1>4, <2>1, <2>4 DEF DocCreateJob, DocRequest, Indexed
  <2> QED
    BY <1>7, <2>2, <2>3, <2>4 DEF DocRequestStep
<1>8. CASE DocEnvironment \/ UNCHANGED allVars
  <2>1. UNCHANGED <<task, phase, mark, doc, chunks>>
    BY <1>8 DEF DocEnvironment, HeartbeatTick, Restart, HeartbeatExpires, HeartbeatStalls,
                RetryDelayElapses, RedisLoss, allVars, vars
  <2>2. CASE UNCHANGED pc
    BY <1>4, <2>1, <2>2 DEF Indexed
  <2>3. ASSUME NEW w \in Workers, Restart(w) PROVE IndexedOnce(j)'
    <3>1. pc[w] = "down" /\ \A v \in Workers : pc'[v] = (IF v = w THEN "starting" ELSE pc[v])
      BY <2>3 DEF Restart, TypeOK
    <3>2. job'[j].status = "succeeded" => job[j].status = "succeeded"
      BY <1>3, <3>1
    <3>3. Harmless(j)
      BY <2>1, <3>1, <3>2 DEF Harmless, Indexed, Executes, Executing
    <3> QED
      BY <1>0, <1>1, <3>3, HarmlessKeeps
  <2> QED
    BY <1>8, <2>2, <2>3 DEF DocEnvironment, HeartbeatTick, HeartbeatExpires, HeartbeatStalls,
                            RetryDelayElapses, RedisLoss, allVars, vars
\* Steps of a worker in the queue that write no document.
<1>9. ASSUME NEW w \in Workers, DocLoopStep(w) \/ Index(w) \/ DocReturnNone(w) \/ DocRaises(w)
             \/ DocRetry(w) \/ DocDeadLetter(w) \/ DocCrash(w)
      PROVE  IndexedOnce(j)'
  <2>1. LoopStep(w) \/ ClaimCancelled(w) \/ ClaimNothing(w) \/ ClaimSkipsLocked(w)
        \/ Progress(w) \/ ProgressSeesCancel(w) \/ ReturnNone(w) \/ HandlerRaises(w)
        \/ FailRetry(w) \/ ScheduleRetry(w) \/ FailDeadLetter(w) \/ Crash(w)
    BY <1>9 DEF DocLoopStep, Index, DocReturnNone, DocRaises, DocRetry, DocDeadLetter, DocCrash
  <2>2. /\ Executes(w, j)' => Executes(w, j)
        /\ task'[w].job = j => pc'[w] \notin {"cancelling", "returning"}
        /\ ~(pc[w] = "finishing" /\ pc'[w] = "loop")
    BY <1>0, <1>1, <2>1, QuietWorkerStep
  <2>3. phase'[w] = phase[w] \/ phase'[w] # "indexed"
    BY <1>9 DEF DocLoopStep, Index, DocReturnNone, DocRaises, DocRetry, DocDeadLetter, DocCrash,
                SetPhase, MarkNext, DocTypes
  <2>4. Indexed(j) => Indexed(j)'
    BY <1>9 DEF DocLoopStep, Index, DocReturnNone, DocRaises, DocRetry, DocDeadLetter, DocCrash,
                Indexed
  <2> QED
    BY <1>5, <1>9, <2>2, <2>3, <2>4 DEF DocWorkerStep
<1>10. ASSUME NEW w \in Workers, DocClaim(w) PROVE IndexedOnce(j)'
  <2>1. /\ phase'[w] = "start" /\ pc[w] = "claiming" /\ pc'[w] = "running"
        /\ task'[w].job = task[w].job /\ UNCHANGED <<doc, chunks>>
    BY <1>10 DEF DocClaim, Claim, SetPhase, DocTypes, TypeOK
  <2>2. task[w].job = j => job'[j].status = "running"
    <3>1. job[j] \in Row
      BY <1>0, JobTypes
    <3> QED
      BY <1>0, <1>10, <3>1 DEF DocClaim, Claim, ClaimedRow, TypeOK, Row
  <2>3. Executes(w, j)' => job'[j].status # "succeeded"
    BY <2>1, <2>2 DEF Executes
  <2> QED
    BY <1>5, <1>10, <2>1, <2>3 DEF DocWorkerStep, Indexed
<1>11. ASSUME NEW w \in Workers, Start(w) PROVE IndexedOnce(j)'
  <2>1. /\ UNCHANGED <<job, pc, task, chunks, mark>> /\ pc[w] = "running" /\ phase'[w] = "index"
        /\ \A v \in Workers \ {w} : phase'[v] = phase[v]
    BY <1>11 DEF Start, SetPhase, DocTypes, vars
  <2>2. CASE task[w].job = j
    <3>1. Executes(w, j)
      BY <2>1, <2>2 DEF Executes, Executing
    <3>2. \A v \in Workers : Executes(v, j)' => v = w
      BY <1>2, <2>1, <3>1 DEF Executes
    <3>3. job'[j].status # "succeeded"
      BY <1>1, <2>1, <3>1 DEF IndexedOnce
    <3> QED
      BY <1>1, <2>1, <3>2, <3>3 DEF IndexedOnce
  <2>3. CASE task[w].job # j
    <3>1. doc'[j] = doc[j]
      BY <1>0, <1>11, <2>3 DEF Start, DocTypes
    <3> QED
      BY <1>4, <2>1, <3>1 DEF Indexed
  <2> QED
    BY <2>2, <2>3
<1>12. ASSUME NEW w \in Workers, Finalize(w) PROVE IndexedOnce(j)'
  <2> DEFINE d == Target(task[w].job)
             swapped == [doc EXCEPT ![d] = Finalized(@)]
  <2>1. /\ UNCHANGED <<job, pc, task, mark>> /\ pc[w] = "running" /\ phase'[w] = "indexed"
        /\ \A v \in Workers \ {w} : phase'[v] = phase[v]
        /\ chunks' = chunks \cup {d} /\ d \in Documents
    BY <1>12, TargetType DEF Finalize, SetPhase, DocTypes, vars
  <2>2. \A e \in Documents : swapped[e] \in Doc
    BY <2>1, FinalizedRows
  <2>3. swapped[d].status = "ready" /\ \A e \in Documents \ {d} : swapped[e] = doc[e]
    <3>1. swapped[d] = Finalized(doc[d]) /\ doc[d] \in Doc
      BY <2>1 DEF DocTypes
    <3>2. \A e \in Documents \ {d} : swapped[e] = doc[e]
      BY DEF DocTypes
    <3> QED
      BY <3>1, <3>2 DEF Finalized, Doc
  <2>4. \A e \in Documents : doc'[e].status = swapped[e].status
    <3>1. CASE task[w].job \in IngestJobs
      <4>1. doc' = Activated(swapped, d)
        BY <1>12, <3>1 DEF Finalize
      <4> HIDE DEF swapped
      <4> QED
        BY <2>2, <4>1 DEF Activated, Doc
    <3>2. CASE task[w].job \notin IngestJobs
      <4>1. doc' = [swapped EXCEPT ![d] = Reindexed(@)]
        BY <1>12, <3>2 DEF Finalize
      <4>2. swapped \in [Documents -> Doc]
        BY <2>1, FinalizedRows
      <4> HIDE DEF swapped
      <4> QED
        BY <2>2, <4>1, <4>2 DEF Reindexed, Doc
    <3> QED
      BY <3>1, <3>2
  <2>5. CASE task[w].job = j
    <3>1. d = j /\ Indexed(j)'
      BY <1>0, <2>1, <2>3, <2>4, <2>5 DEF Indexed
    <3>2. Executes(w, j)
      BY <2>1, <2>5 DEF Executes, Executing
    <3>3. job'[j].status # "succeeded"
      BY <1>1, <2>1, <3>2 DEF IndexedOnce
    <3> QED
      BY <1>1, <2>1, <3>1, <3>3 DEF IndexedOnce
  <2>6. CASE task[w].job # j
    <3>1. d # j
      BY <1>0, <2>6, IngestJobsAssumption DEF Target
    <3>2. Indexed(j) => Indexed(j)'
      BY <1>0, <2>1, <2>3, <2>4, <3>1 DEF Indexed
    <3>3. ~Executes(w, j)' /\ pc'[w] = "running"
      BY <2>1, <2>6 DEF Executes
    <3> QED
      BY <1>5, <1>12, <2>1, <3>2, <3>3 DEF DocWorkerStep
  <2> QED
    BY <2>5, <2>6
<1>13. ASSUME NEW w \in Workers, CancelIndexing(w) PROVE IndexedOnce(j)'
  <2>1. pc[w] = "cancelling" /\ task' = task /\ UNCHANGED <<doc, chunks>>
    BY <1>13 DEF CancelIndexing, ProgressCancels
  <2>2. task'[w].job # j
    BY <1>1, <2>1 DEF IndexedOnce
  <2> QED
    BY <1>5, <1>13, <2>1, <2>2 DEF DocWorkerStep, Indexed, Executes
<1>14. ASSUME NEW w \in Workers, DocFinish(w) PROVE IndexedOnce(j)'
  <2>1. phase[w] = "indexed" /\ UNCHANGED <<doc, chunks, mark>>
    BY <1>14 DEF DocFinish
  <2>2. CASE FinishRead(w) \/ FinishSeesCancelled(w)
    <3>1. /\ Executes(w, j)' => Executes(w, j)
          /\ task'[w].job = j => pc'[w] \notin {"cancelling", "returning"}
          /\ ~(pc[w] = "finishing" /\ pc'[w] = "loop")
      BY <1>0, <1>1, <2>2, QuietWorkerStep
    <3> QED
      BY <1>5, <1>14, <2>1, <3>1 DEF DocWorkerStep, Indexed
  <2>3. CASE FinishCommit(w)
    <3>1. /\ pc[w] = "finishing" /\ pc'[w] = "loop" /\ ~Executes(w, j)'
      BY <2>3 DEF FinishCommit, BackToLoop, TypeOK, Executes, Executing
    <3>2. CASE task[w].job # j
      BY <1>5, <1>14, <2>1, <3>1, <3>2 DEF DocWorkerStep, Indexed
    <3>3. CASE task[w].job = j
      <4>1. Executes(w, j)
        BY <3>1, <3>3 DEF Executes, Executing
      <4>2. Indexed(j)'
        BY <1>1, <2>1, <4>1 DEF IndexedOnce, Indexed
      <4>3. \A v \in Workers \ {w} : pc'[v] = pc[v] /\ task'[v] = task[v]
        BY <1>14, WorkerFrame DEF DocWorkerStep
      <4>4. \A v \in Workers : ~Executes(v, j)'
        BY <1>2, <3>1, <4>1, <4>3 DEF Executes
      <4>5. \A v \in Workers : task'[v].job = j => pc'[v] \notin {"cancelling", "returning"}
        BY <1>1, <3>1, <4>3 DEF IndexedOnce
      <4> QED
        BY <1>1, <2>1, <4>2, <4>4, <4>5 DEF IndexedOnce
    <3> QED
      BY <3>2, <3>3
  <2> QED
    BY <1>14, <2>2, <2>3 DEF DocFinish
<1>15. ASSUME NEW a \in Actors, MarkRead(a) PROVE IndexedOnce(j)'
  <2>1. UNCHANGED <<pc, task, phase, doc, chunks>>
    BY <1>15 DEF MarkRead, vars
  <2>2. \A r \in Requests : mark'[r].pc # "none" /\ mark'[r].job = j
                            => mark[r].pc # "none" /\ mark[r].job = j
    BY <1>0, <1>15 DEF MarkRead, DocTypes, Mark
  <2> QED
    BY <1>4, <2>1, <2>2 DEF Indexed
<1>16. ASSUME NEW a \in Actors, MarkDone(a)
       PROVE  /\ \A r \in Requests : mark'[r].pc # "none" => mark'[r] = mark[r]
              /\ \A w \in Workers : phase'[w] # phase[w] => w = a /\ phase'[w] = "none"
              /\ a \in Workers => phase'[a] = "none"
  BY <1>0, <1>16 DEF MarkDone, SetPhase, DocTypes, NoMark
<1>17. ASSUME NEW a \in Actors, MarkCommit(a) PROVE IndexedOnce(j)'
  <2>1. UNCHANGED <<job, pc, task, chunks>> /\ MarkDone(a) /\ mark[a].pc = "commit"
    BY <1>17 DEF MarkCommit, vars
  <2>2. CASE mark[a].job # j
    <3>1. doc'[j] = doc[j]
      BY <1>0, <1>17, <2>2 DEF MarkCommit, DocTypes
    <3> QED
      BY <1>4, <1>16, <2>1, <3>1 DEF Indexed
  <2>3. CASE mark[a].job = j
    <3>1. a \in Workers
      BY <1>1, <2>1, <2>3 DEF IndexedOnce, Actors
    <3>2. Executes(a, j)
      BY <2>1, <2>3, <3>1 DEF PhaseInv, PhaseFits, Executes, Executing
    <3>3. \A w \in Workers : Executes(w, j)' => w = a
      BY <1>2, <2>1, <3>1, <3>2 DEF Executes
    <3>4. job'[j].status # "succeeded" /\ phase'[a] = "none"
      BY <1>1, <1>16, <2>1, <3>1, <3>2 DEF IndexedOnce
    <3> QED
      BY <1>1, <1>16, <2>1, <3>3, <3>4 DEF IndexedOnce
  <2> QED
    BY <2>2, <2>3
<1>18. ASSUME NEW a \in Actors, MarkFails(a) PROVE IndexedOnce(j)'
  <2>1. UNCHANGED <<pc, task, doc, chunks>> /\ MarkDone(a)
    BY <1>18 DEF MarkFails
  <2> QED
    BY <1>4, <1>16, <2>1 DEF Indexed
<1> QED
  BY <1>6, <1>7, <1>8, <1>9, <1>10, <1>11, <1>12, <1>13, <1>14, <1>15, <1>17, <1>18
  DEF DocNext, DocWorkerStep

LEMMA InitSuccessInv == DocInit => SuccessInv
<1> SUFFICES ASSUME DocInit PROVE SuccessInv
  OBVIOUS
<1>1. RequestInv
  BY DEF DocInit, Init, RequestInv, NewRow, NoRequest
<1>2. Workers \subseteq Actors /\ Requests \subseteq Actors
  BY DEF Actors
<1>3. /\ \A w \in Workers : pc[w] = "starting" /\ phase[w] = "none" /\ mark[w].pc = "none"
      /\ \A r \in Requests : mark[r].pc = "none"
  BY <1>2 DEF DocInit, Init, NoMark
<1>4. \A j \in IngestJobs : job[j].status = "absent"
  BY IngestJobsAssumption DEF DocInit, Init, NewRow
<1> QED
  BY <1>1, <1>3, <1>4 DEF SuccessInv, PhaseInv, PhaseFits, UndisturbedInv, IndexedOnce

LEMMA StepSuccessInv ==
    ASSUME TypeOK, TypeOK', AttemptInv, DocTypes, SuccessInv, [DocNext]_allVars
    PROVE  SuccessInv'
<1>1. RequestInv'
  <2>1. CASE [Next]_vars
    BY <2>1, StepRequestInv DEF SuccessInv
  <2>2. CASE OnlyFaults
    BY <2>2 DEF OnlyFaults, SuccessInv, RequestInv
  <2> QED
    BY <2>1, <2>2, QueueStep
<1>2. PhaseInv'
  BY StepPhaseInv DEF SuccessInv
<1>3. ASSUME NEW j \in IngestJobs PROVE UndisturbedInv(j)'
  BY StepIndexedOnce DEF SuccessInv, UndisturbedInv
<1> QED
  BY <1>1, <1>2, <1>3 DEF SuccessInv

\* A job that succeeded undisturbed has left its version ready and indexed, for any number of
\* jobs, workers, requests, attempts and faults (process_document_job, _finalize_document_index).
THEOREM SuccessLeavesAnIndex == DocSpec => []SucceededMeansIndexed
<1>1. TypeOK /\ DocTypes => DocTypeOK
  BY DEF DocTypes, DocTypeOK
<1>2. DocTypeOK /\ SuccessInv => SucceededMeansIndexed
  BY DEF SuccessInv, UndisturbedInv, IndexedOnce, Indexed, SucceededMeansIndexed
<1>3. DocInit => SuccessInv
  BY InitSuccessInv
<1>4. TypeOK /\ AttemptInv /\ DocTypes /\ (TypeOK /\ AttemptInv /\ DocTypes)' /\ SuccessInv
      /\ [DocNext]_allVars => SuccessInv'
  BY StepSuccessInv
<1> QED
  BY <1>1, <1>2, <1>3, <1>4, PipelineInvariant, PTL DEF DocSpec

-----------------------------------------------------------------------------
(* Evaluation runs                                                          *)

USE DEF evalVars, sessionVars

LEMMA ActorsContain == Workers \subseteq Actors /\ Requests \subseteq Actors
BY DEF Actors

\* A step of a worker leaves the other workers, their marks and the requests alone.
LEMMA EvalWorkerFrame ==
    ASSUME TypeOK, EvalTypeOK, NEW w \in Workers, EvalWorkerStep(w) \/ EvalCrash(w)
    PROVE  /\ \A v \in Workers \ {w} :
                 pc'[v] = pc[v] /\ task'[v] = task[v] /\ work'[v] = work[v]
           /\ \A a \in Actors \ {w} : runMark'[a] = runMark[a]
           /\ request' = request
<1>1. /\ \A v \in Workers \ {w} : pc'[v] = pc[v] /\ task'[v] = task[v]
      /\ request' = request
  <2>1. CASE UNCHANGED vars
    BY <2>1 DEF vars
  <2>2. CASE LoopStep(w) \/ Crash(w)
    BY <2>2 DEF TypeOK, LoopStep, RecoverScan, RecoverPublish, RecoverCommit, PromoteScan, Promote,
                Pop, PopTimeout, Crash
  <2>3. CASE ClaimStep(w)
    BY <2>3 DEF TypeOK, ClaimStep, Claim, ClaimCancelled, ClaimNothing, ClaimSkipsLocked, BackToLoop
  <2>4. CASE HandlerStep(w)
    BY <2>4 DEF TypeOK, HandlerStep, Progress, ProgressSeesCancel, ProgressCancels, ReturnNone,
                FinishRead, FinishSeesCancelled, FinishCommit, HandlerRaises, FailRetry,
                ScheduleRetry, FailDeadLetter, BackToLoop
  <2>5. CASE RefreshRun(w)
    BY <2>5 DEF TypeOK, RefreshRun
  <2> QED
    BY <2>1, <2>2, <2>3, <2>4, <2>5
    DEF EvalWorkerStep, EvalLoop, EvalClaim, DeleteResults, LockRun, EvaluateCase, StopEvaluation,
        RunCancelled, RunCompleted, EvalReturnNone, EvalFinish, EvalRaises, EvalFails, EvalCrash,
        ClaimStep, HandlerStep
<1>2. \A v \in Workers \ {w} : work'[v] = work[v]
  BY DEF EvalTypeOK, EvalWorkerStep, EvalLoop, EvalClaim, DeleteResults, LockRun, EvaluateCase,
         StopEvaluation, RunCancelled, MarkCancelled, RunCompleted, RefreshRun, EvalReturnNone,
         EvalFinish, EvalRaises, EvalFails, EvalCrash, Go, Close
<1>3. \A a \in Actors \ {w} : runMark'[a] = runMark[a]
  BY DEF EvalTypeOK, EvalWorkerStep, EvalLoop, EvalClaim, DeleteResults, LockRun, EvaluateCase,
         StopEvaluation, RunCancelled, MarkCancelled, RunCompleted, RefreshRun, EvalReturnNone,
         EvalFinish, EvalRaises, EvalFails, EvalCrash
<1> QED
  BY <1>1, <1>2, <1>3

\* A step of a request leaves the workers and the other requests alone.
LEMMA EvalRequestFrame ==
    ASSUME TypeOK, EvalTypeOK, NEW r \in Requests, EvalRequestStep(r)
    PROVE  /\ UNCHANGED <<pc, task, work, results>>
           /\ \A a \in Actors \ {r} : runMark'[a] = runMark[a]
           /\ \A s \in Requests \ {r} : request'[s] = request[s]
<1>1. CASE \E j \in Jobs : StartRun(r, j)
  BY <1>1 DEF StartRun, CreateJob, TypeOK
<1>2. CASE EvalRequest(r)
  BY <1>2 DEF EvalRequest, CancelRead, Enqueue, EnqueueLost, TypeOK
<1>3. CASE EvalCancelCommit(r)
  BY <1>3 DEF EvalCancelCommit, CancelCommit, TypeOK, EvalTypeOK
<1>4. CASE \E j \in Jobs : EvalRequeueRead(r, j)
  BY <1>4 DEF EvalRequeueRead, RequeueRead, TypeOK, EvalTypeOK
<1>5. CASE EvalRequeueCommit(r)
  BY <1>5 DEF EvalRequeueCommit, RequeueCommit, TypeOK, EvalTypeOK
<1> QED
  BY <1>1, <1>2, <1>3, <1>4, <1>5 DEF EvalRequestStep

\* Each step is a step of the queue, or the worker leaves its handler without one.
LEMMA EvalQueueStep ==
    [EvalNext]_evalAllVars =>
        [Next]_vars \/ \E w \in Workers : RefreshRun(w) /\ pc' = [pc EXCEPT ![w] = "returning"]
<1> SUFFICES ASSUME [EvalNext]_evalAllVars
             PROVE  [Next]_vars \/ \E w \in Workers : RefreshRun(w) /\ pc' = [pc EXCEPT ![w] = "returning"]
  OBVIOUS
<1> USE DEF Next
<1>1. ASSUME NEW r \in Requests, EvalRequestStep(r) PROVE RequestStep(r)
  BY <1>1 DEF EvalRequestStep, StartRun, EvalRequest, EvalCancelCommit, EvalRequeueRead,
              EvalRequeueCommit, RequestStep
<1>2. ASSUME NEW w \in Workers, EvalWorkerStep(w), ~RefreshRun(w)
      PROVE  WorkerStep(w) \/ UNCHANGED vars
  BY <1>2 DEF EvalWorkerStep, EvalLoop, EvalClaim, DeleteResults, LockRun, EvaluateCase,
              StopEvaluation, RunCancelled, RunCompleted, EvalReturnNone, EvalFinish, EvalRaises,
              EvalFails, WorkerStep, ClaimStep, HandlerStep
<1>3. ASSUME NEW w \in Workers, RefreshRun(w)
      PROVE  pc' = [pc EXCEPT ![w] = "returning"] \/ UNCHANGED vars
  BY <1>3 DEF RefreshRun, vars
<1>4. ASSUME NEW w \in Workers, EvalCrash(w) PROVE Environment
  BY <1>4 DEF EvalCrash, Environment
<1>5. ASSUME NEW a \in Actors, RunMarkRead(a) \/ RunMarkCommit(a) PROVE UNCHANGED vars
  BY <1>5 DEF RunMarkRead, RunMarkCommit
<1>6. ASSUME EvalEnvironment PROVE Environment
  BY <1>6 DEF EvalEnvironment, Environment
<1>7. CASE UNCHANGED evalAllVars
  BY <1>7 DEF evalAllVars
<1> QED
  BY <1>1, <1>2, <1>3, <1>4, <1>5, <1>6, <1>7 DEF EvalNext

LEMMA EvalStepTypeOK ==
    ASSUME TypeOK, SessionsFit, [EvalNext]_evalAllVars
    PROVE  TypeOK'
<1>1. CASE [Next]_vars
  BY <1>1, StepTypeOK
<1>2. ASSUME NEW w \in Workers, RefreshRun(w), pc' = [pc EXCEPT ![w] = "returning"]
      PROVE  TypeOK'
  <2>1. pc[w] = "running" /\ task[w].job \in Jobs
    BY <1>2 DEF RefreshRun, At, SessionsFit, WorkFits, TypeOK, Executing
  <2>2. UNCHANGED <<job, waiting, stale, ready, delayed, task, plan, request, faults, hist>>
    BY <1>2 DEF RefreshRun
  <2>3. pc' \in [Workers -> PC]
    BY <1>2 DEF TypeOK, PC
  <2> QED
    BY <1>2, <2>1, <2>2, <2>3 DEF TypeOK
<1> QED
  BY <1>1, <1>2, EvalQueueStep

LEMMA EvalRowStep ==
    ASSUME TypeOK, [EvalNext]_evalAllVars, NEW j \in Jobs
    PROVE  NoRequeue(j) \/ \E r \in Requests : RequeueCommit(r) /\ request[r].job = j
<1>1. CASE [Next]_vars
  BY <1>1, RowStep
<1>2. CASE UNCHANGED <<job, hist>>
  BY <1>2, JobTypes DEF NoRequeue
<1> QED
  BY <1>1, <1>2, EvalQueueStep DEF RefreshRun

\* The records of the evaluation module, for the leaves that build them.
LEMMA EvalRecords ==
    /\ NoWork \in Work /\ NoWork.pc = "none"
    /\ NoRunMark \in RunMark /\ NoRunMark.pc = "none"
    /\ \A j \in Jobs, s \in {"cancelled", "failed"} :
          /\ RunMarkOf(j, s) \in RunMark
          /\ RunMarkOf(j, s).pc = "read" /\ RunMarkOf(j, s).job = j /\ RunMarkOf(j, s).to = s
    /\ [pc |-> "mark", gone |-> {}] \in Work
    /\ \A j \in Jobs, s \in RunStatus :
          [NoRunMark EXCEPT !.pc = "requeue", !.job = j, !.saw = s] \in RunMark
BY DEF NoWork, Work, NoRunMark, RunMark, RunMarkOf, RunStatus

\* What the worker's own step does to its transaction, its mark and its place in the queue.
LEMMA WorkerStepFits ==
    ASSUME TypeOK, EvalTypeOK, NEW w \in Workers, WorkFits(w), EvalWorkerStep(w) \/ EvalCrash(w)
    PROVE  WorkFits(w)' /\ (runMark'[w] = runMark[w] \/ MarkFits(w)')
<1>0. /\ work[w] \in Work /\ runMark[w] \in RunMark /\ w \in Actors
      /\ pc[w] \in PC /\ task[w] \in Task
      /\ \A x : work' = [work EXCEPT ![w] = x] => work'[w] = x
      /\ \A x : pc' = [pc EXCEPT ![w] = x] => pc'[w] = x
      /\ \A x : runMark' = [runMark EXCEPT ![w] = x] => runMark'[w] = x
      /\ \A p : Go(w, p) => work'[w].pc = p
      /\ Close(w) => work'[w].pc = "none"
  <2>1. work \in [Workers -> Work] /\ runMark \in [Actors -> RunMark] /\ w \in Actors
        /\ pc \in [Workers -> PC] /\ task \in [Workers -> Task]
    BY ActorsContain DEF TypeOK, EvalTypeOK
  <2>2. \A p : Go(w, p) => work'[w].pc = p
    BY <2>1 DEF Go, Work
  <2>3. Close(w) => work'[w].pc = "none"
    BY <2>1, EvalRecords DEF Close
  <2> QED
    BY <2>1, <2>2, <2>3
<1> USE <1>0
<1>1. CASE EvalLoop(w)
  <2>1. work'[w] = work[w] /\ runMark'[w] = runMark[w] /\ At(w, "none") /\ runMark[w].pc = "none"
    BY <1>1 DEF EvalLoop, WorkFits, At
  <2>2. pc'[w] \notin {"running", "cancelling", "finishing"}
    BY <1>1 DEF EvalLoop, LoopStep, RecoverScan, RecoverPublish, RecoverCommit, PromoteScan, Promote,
                Pop, PopTimeout, ClaimCancelled, ClaimNothing, ClaimSkipsLocked, BackToLoop, TypeOK
  <2> QED
    BY <2>1, <2>2 DEF WorkFits, At
<1>2. CASE EvalClaim(w)
  <2>1. work'[w].pc = "load" /\ runMark'[w] = runMark[w] /\ pc[w] = "claiming" /\ pc'[w] = "running"
    BY <1>2 DEF EvalClaim, Claim
  <2>2. runMark[w].pc = "none"
    BY <2>1 DEF WorkFits, At
  <2> QED
    BY <2>1, <2>2 DEF WorkFits, At
<1>3. CASE DeleteResults(w)
  <2>1. work'[w].pc = "wait" /\ runMark'[w] = runMark[w] /\ pc'[w] = "running" /\ At(w, "load")
    BY <1>3 DEF DeleteResults, vars
  <2> QED
    BY <2>1 DEF WorkFits, At
<1>4. CASE LockRun(w)
  <2>1. work'[w].pc = "open" /\ runMark'[w] = runMark[w] /\ pc'[w] = "running" /\ At(w, "wait")
    BY <1>4 DEF LockRun, vars
  <2> QED
    BY <2>1 DEF WorkFits, At
<1>5. CASE EvaluateCase(w)
  <2>1. work'[w] = work[w] /\ runMark'[w] = runMark[w] /\ At(w, "open")
    BY <1>5 DEF EvaluateCase
  <2>2. CASE Progress(w)
    BY <2>1, <2>2 DEF WorkFits, At, Progress
  <2>3. CASE ProgressSeesCancel(w)
    <3>1. pc'[w] = "cancelling" /\ task'[w].step < Checkpoints
      BY <2>3 DEF ProgressSeesCancel, TypeOK, Task
    <3> QED
      BY <2>1, <3>1 DEF WorkFits, At
  <2> QED
    BY <1>5, <2>2, <2>3 DEF EvaluateCase
<1>6. CASE StopEvaluation(w)
  <2>1. /\ work'[w].pc = "stop" /\ runMark'[w] = runMark[w] /\ At(w, "open")
        /\ pc[w] = "cancelling" /\ pc'[w] = "returning" /\ task' = task
    BY <1>6 DEF StopEvaluation, ProgressCancels
  <2> QED
    BY <2>1 DEF WorkFits, At
<1>7. CASE RunCancelled(w)
  <2>1. /\ work'[w].pc = "mark" /\ pc'[w] = "returning" /\ task' = task /\ task[w].job \in Jobs
        /\ runMark'[w] = RunMarkOf(task[w].job, "cancelled")
    BY <1>7, TaskTypes DEF RunCancelled, MarkCancelled, vars, Executing
  <2>2. At(w, "stop") /\ task[w].step < Checkpoints
    BY <1>7 DEF RunCancelled, WorkFits, At
  <2> QED
    BY <2>1, <2>2 DEF WorkFits, At, MarkFits, RunMarkOf
<1>8. CASE RunCompleted(w)
  <2>1. work'[w].pc = "saved" /\ runMark'[w] = runMark[w] /\ pc'[w] = "running" /\ At(w, "open")
    BY <1>8 DEF RunCompleted, vars
  <2> QED
    BY <2>1 DEF WorkFits, At
<1>9. CASE RefreshRun(w)
  <2>1. task' = task /\ task[w].job \in Jobs /\ pc[w] = "running"
    BY <1>9, TaskTypes DEF RefreshRun, WorkFits, At, Executing
  <2>2. CASE run[task[w].job] = "cancelled"
    <3>1. /\ work'[w].pc = "mark" /\ pc'[w] = "returning"
          /\ runMark'[w] = RunMarkOf(task[w].job, "cancelled")
      BY <1>9, <2>2 DEF RefreshRun, MarkCancelled
    <3> QED
      BY <2>1, <3>1 DEF WorkFits, At, MarkFits, RunMarkOf
  <2>3. CASE run[task[w].job] # "cancelled"
    <3>1. work'[w].pc = "done" /\ pc'[w] = "running" /\ runMark'[w] = runMark[w] /\ At(w, "saved")
      BY <1>9, <2>1, <2>3 DEF RefreshRun
    <3> QED
      BY <2>1, <3>1 DEF WorkFits, At
  <2> QED
    BY <2>2, <2>3
<1>10. CASE EvalReturnNone(w)
  <2>1. work'[w] = work[w] /\ runMark'[w] = runMark[w] /\ At(w, "none") /\ pc'[w] = "loop"
    BY <1>10 DEF EvalReturnNone, ReturnNone, BackToLoop
  <2> QED
    BY <2>1 DEF WorkFits, At
<1>11. CASE EvalFinish(w)
  <2>1. runMark'[w] = runMark[w] /\ At(w, "done") /\ runMark[w].pc = "none"
    BY <1>11 DEF EvalFinish, WorkFits, At
  <2>2. \/ work'[w] = work[w] /\ pc'[w] = "finishing"
        \/ work'[w].pc = "none" /\ pc'[w] = "loop"
    BY <1>11 DEF EvalFinish, FinishRead, FinishSeesCancelled, FinishCommit, BackToLoop
  <2> QED
    BY <2>1, <2>2 DEF WorkFits, At
<1>12. CASE EvalRaises(w)
  <2>1. pc'[w] = "failing" /\ task'[w].job = task[w].job /\ task[w].job \in Jobs
    BY <1>12, TaskTypes DEF EvalRaises, HandlerRaises, Executing, TypeOK, Task
  <2>2. \/ work'[w].pc = "none" /\ runMark'[w] = NoRunMark
        \/ work'[w].pc = "mark" /\ runMark'[w] = RunMarkOf(task[w].job, "failed")
    BY <1>12 DEF EvalRaises
  <2> QED
    BY <2>1, <2>2 DEF WorkFits, At, MarkFits, RunMarkOf, NoRunMark
<1>13. CASE EvalFails(w)
  <2>1. work'[w] = work[w] /\ runMark'[w] = runMark[w] /\ At(w, "none")
        /\ pc'[w] \in {"loop", "delaying"}
    BY <1>13 DEF EvalFails, FailRetry, ScheduleRetry, FailDeadLetter, BackToLoop
  <2> QED
    BY <2>1 DEF WorkFits, At
<1>14. CASE EvalCrash(w)
  <2>1. work'[w].pc = "none" /\ runMark'[w] = NoRunMark /\ pc'[w] = "down"
    BY <1>14 DEF EvalCrash, Crash
  <2> QED
    BY <2>1 DEF WorkFits, At, MarkFits, NoRunMark
<1> QED
  BY <1>1, <1>2, <1>3, <1>4, <1>5, <1>6, <1>7, <1>8, <1>9, <1>10, <1>11, <1>12, <1>13, <1>14
  DEF EvalWorkerStep

\* What a request's own step does to its snapshot and its mark.
LEMMA RequestStepFits ==
    ASSUME TypeOK, EvalTypeOK, NEW r \in Requests, RequeueFits(r), EvalRequestStep(r)
    PROVE  RequeueFits(r)' /\ MarkFits(r)'
<1>0. /\ r \in Actors /\ request[r] \in Request
      /\ \A x : request' = [request EXCEPT ![r] = x] => request'[r] = x
      /\ \A x : runMark' = [runMark EXCEPT ![r] = x] => runMark'[r] = x
  BY ActorsContain DEF TypeOK, EvalTypeOK
<1> USE <1>0
<1>1. ASSUME NEW j \in Jobs, StartRun(r, j) PROVE runMark'[r].pc = "none" /\ request'[r].op = "enqueue"
  BY <1>1 DEF StartRun, CreateJob, Free, NoRequest
<1>2. CASE EvalRequest(r)
  <2>1. runMark'[r].pc = "none" /\ request'[r].op # "requeue"
    BY <1>2 DEF EvalRequest, CancelRead, Enqueue, EnqueueLost, Free, NoRequest
  <2> QED
    BY <2>1 DEF RequeueFits, MarkFits
<1>3. CASE EvalCancelCommit(r)
  <2>1. request'[r].op = "none" /\ request[r].job \in Jobs
    BY <1>3 DEF EvalCancelCommit, CancelCommit, NoRequest, TypeOK
  <2>2. runMark'[r].pc = "none" \/ runMark'[r] = RunMarkOf(request[r].job, "cancelled")
    BY <1>3 DEF EvalCancelCommit, Free
  <2> QED
    BY <2>1, <2>2 DEF RequeueFits, MarkFits, RunMarkOf
<1>4. ASSUME NEW j \in Jobs, EvalRequeueRead(r, j)
      PROVE  /\ runMark'[r].pc = "requeue" /\ runMark'[r].job = j
             /\ request'[r].op = "requeue" /\ request'[r].job = j
             /\ request'[r].saw.status \in Requeueable
  <2>1. /\ request'[r] = [op |-> "requeue", job |-> j, saw |-> job[j]]
        /\ job[j].status \in Requeueable
        /\ runMark'[r] = [NoRunMark EXCEPT !.pc = "requeue", !.job = j, !.saw = run[j]]
    BY <1>4 DEF EvalRequeueRead, RequeueRead
  <2> QED
    BY <2>1 DEF NoRunMark
<1>5. CASE EvalRequeueCommit(r)
  <2>1. runMark'[r].pc = "none" /\ request'[r].op = "enqueue"
    <3>1. NoRunMark.pc = "none" /\ \A j : [NoRequest EXCEPT !.op = "enqueue", !.job = j].op = "enqueue"
      BY DEF NoRunMark, NoRequest
    <3> QED
      BY <1>5, <3>1 DEF EvalRequeueCommit, RequeueCommit
  <2> QED
    BY <2>1 DEF RequeueFits, MarkFits
<1> QED
  BY <1>1, <1>2, <1>3, <1>4, <1>5 DEF EvalRequestStep, RequeueFits, MarkFits

LEMMA StepSessionsFit ==
    ASSUME TypeOK, EvalTypeOK, SessionsFit, [EvalNext]_evalAllVars
    PROVE  SessionsFit'
<1>0. /\ Workers \cap Requests = {} /\ Actors = Workers \cup Requests
      /\ \A w \in Workers : w \in Actors \ Requests
      /\ \A r \in Requests : r \in Actors \ Workers
  BY ActorsAssumption DEF Actors
<1>1. ASSUME NEW w \in Workers, EvalWorkerStep(w) \/ EvalCrash(w) PROVE SessionsFit'
  <2>1. /\ \A v \in Workers \ {w} : pc'[v] = pc[v] /\ task'[v] = task[v] /\ work'[v] = work[v]
        /\ \A a \in Actors \ {w} : runMark'[a] = runMark[a]
        /\ request' = request
    BY <1>1, EvalWorkerFrame
  <2>2. \A v \in Workers \ {w} : WorkFits(v)'
    BY <1>0, <2>1 DEF SessionsFit, WorkFits, At
  <2>3. \A r \in Requests : RequeueFits(r)'
    BY <1>0, <2>1 DEF SessionsFit, RequeueFits
  <2>4. WorkFits(w)' /\ MarkFits(w)'
    BY <1>0, <1>1, WorkerStepFits DEF SessionsFit, MarkFits
  <2> QED
    BY <2>1, <2>2, <2>3, <2>4 DEF SessionsFit, MarkFits
<1>2. ASSUME NEW r \in Requests, EvalRequestStep(r) PROVE SessionsFit'
  <2>1. /\ UNCHANGED <<pc, task, work>>
        /\ \A a \in Actors \ {r} : runMark'[a] = runMark[a]
        /\ \A s \in Requests \ {r} : request'[s] = request[s]
    BY <1>2, EvalRequestFrame
  <2>2. \A w \in Workers : WorkFits(w)'
    BY <1>0, <2>1 DEF SessionsFit, WorkFits, At
  <2>3. \A s \in Requests \ {r} : RequeueFits(s)'
    BY <1>0, <2>1 DEF SessionsFit, RequeueFits
  <2>4. RequeueFits(r)' /\ MarkFits(r)'
    BY <1>2, RequestStepFits DEF SessionsFit
  <2> QED
    BY <2>1, <2>2, <2>3, <2>4 DEF SessionsFit, MarkFits
<1>3. ASSUME NEW a \in Actors, RunMarkRead(a) PROVE SessionsFit'
  <2>1. /\ UNCHANGED <<pc, task, work, request>>
        /\ \A b \in Actors \ {a} : runMark'[b] = runMark[b]
        /\ runMark[a].pc = "read" /\ runMark'[a].pc = "commit"
        /\ runMark'[a].job = runMark[a].job /\ runMark'[a].to = runMark[a].to
    BY <1>3 DEF RunMarkRead, vars, EvalTypeOK, RunMark
  <2> QED
    BY <1>0, <2>1 DEF SessionsFit, WorkFits, At, RequeueFits, MarkFits
<1>4. ASSUME NEW a \in Actors, RunMarkCommit(a) PROVE SessionsFit'
  <2>1. /\ UNCHANGED <<pc, task, request>>
        /\ \A b \in Actors \ {a} : runMark'[b] = runMark[b]
        /\ runMark[a].pc = "commit" /\ runMark'[a].pc = "none"
        /\ \A w \in Workers \ {a} : work'[w] = work[w]
        /\ a \in Workers => work'[a].pc = "none"
    BY <1>4, EvalRecords DEF RunMarkCommit, vars, EvalTypeOK, Close
  <2> QED
    BY <1>0, <2>1 DEF SessionsFit, WorkFits, At, RequeueFits, MarkFits
<1>5. CASE EvalEnvironment \/ UNCHANGED evalAllVars
  <2>1. UNCHANGED <<task, work, runMark, request>>
    BY <1>5 DEF EvalEnvironment, HeartbeatTick, Restart, HeartbeatExpires, HeartbeatStalls,
                RetryDelayElapses, RedisLoss, evalAllVars, vars
  <2>2. \A w \in Workers : pc'[w] = pc[w] \/ (pc[w] = "down" /\ pc'[w] = "starting")
    BY <1>5 DEF EvalEnvironment, HeartbeatTick, Restart, HeartbeatExpires, HeartbeatStalls,
                RetryDelayElapses, RedisLoss, evalAllVars, vars, TypeOK
  <2> QED
    BY <2>1, <2>2 DEF SessionsFit, WorkFits, At, RequeueFits, MarkFits
<1> QED
  BY <1>1, <1>2, <1>3, <1>4, <1>5 DEF EvalNext

LEMMA NewResultsType ==
    ASSUME TypeOK, NEW w \in Workers, NEW n \in Nat, n < Checkpoints
    PROVE  NewResults(w, n) \subseteq Result
<1>1. task[w].era \in Nat /\ task[w].attempt \in Nat
  BY TaskTypes
<1>2. 1..n \subseteq Cases
  BY CheckpointsAssumption DEF Cases
<1> QED
  BY <1>1, <1>2 DEF NewResults, Result

LEMMA CommitRunType ==
    ASSUME TypeOK, EvalTypeOK, NEW w \in Workers, NEW n \in Nat, n < Checkpoints,
           NEW status \in RunStatus, CommitRun(w, status, n), task[w].job \in Jobs
    PROVE  run' \in [Jobs -> RunStatus] /\ results' \in [Jobs -> SUBSET Result]
<1>1. Committed(w, n) \subseteq Result
  BY NewResultsType DEF Committed, EvalTypeOK
<1> QED
  BY <1>1 DEF CommitRun, EvalTypeOK

LEMMA StepEvalTypeOK ==
    ASSUME TypeOK, EvalTypeOK, SessionsFit, [EvalNext]_evalAllVars
    PROVE  EvalTypeOK'
<1>0. /\ run \in [Jobs -> RunStatus] /\ results \in [Jobs -> SUBSET Result]
      /\ work \in [Workers -> Work] /\ runMark \in [Actors -> RunMark] /\ crossed \in SUBSET Jobs
  BY DEF EvalTypeOK
<1>1. ASSUME NEW w \in Workers, EvalWorkerStep(w) \/ EvalCrash(w) PROVE EvalTypeOK'
  <2>0. w \in Actors /\ task[w] \in Task /\ work[w] \in Work /\ WorkFits(w)
    BY <1>0, ActorsContain, TaskTypes DEF SessionsFit
  <2>1. work' \in [Workers -> Work]
    <3>1. \A p \in {"load", "open", "stop", "mark", "saved", "done"} :
              Go(w, p) => work' \in [Workers -> Work]
      BY <1>0, <2>0 DEF Go, Work
    <3>2. Close(w) => work' \in [Workers -> Work]
      BY <1>0, EvalRecords DEF Close
    <3>3. DeleteResults(w) => work' \in [Workers -> Work]
      <4>1. SUFFICES ASSUME DeleteResults(w) PROVE work' \in [Workers -> Work]
        OBVIOUS
      <4>2. task[w].job \in Jobs
        BY <4>1, TaskTypes DEF DeleteResults, Executing
      <4>3. [pc |-> "wait", gone |-> results[task[w].job]] \in Work
        BY <1>0, <4>2 DEF Work
      <4> QED
        BY <1>0, <4>1, <4>3 DEF DeleteResults
    <3>4. EvalRaises(w) => work' \in [Workers -> Work]
      BY <1>0, <3>2, EvalRecords DEF EvalRaises
    <3> QED
      BY <1>0, <1>1, <3>1, <3>2, <3>3, <3>4
      DEF EvalWorkerStep, EvalLoop, EvalClaim, LockRun, EvaluateCase, StopEvaluation, RunCancelled,
          MarkCancelled, RunCompleted, RefreshRun, EvalReturnNone, EvalFinish, EvalFails, EvalCrash
  <2>2. runMark' \in [Actors -> RunMark]
    <3>1. \A m \in RunMark : [runMark EXCEPT ![w] = m] \in [Actors -> RunMark]
      BY <1>0
    <3>2. NoRunMark \in RunMark
      BY EvalRecords
    <3>3. task[w].job \in Jobs => /\ RunMarkOf(task[w].job, "cancelled") \in RunMark
                                  /\ RunMarkOf(task[w].job, "failed") \in RunMark
      BY EvalRecords
    <3>4. RunCancelled(w) \/ RefreshRun(w) \/ EvalRaises(w) => task[w].job \in Jobs
      BY <2>0, TaskTypes DEF RunCancelled, RefreshRun, EvalRaises, HandlerRaises, WorkFits, At, Executing
    <3> QED
      BY <1>0, <1>1, <3>1, <3>2, <3>3, <3>4
      DEF EvalWorkerStep, EvalLoop, EvalClaim, DeleteResults, LockRun, EvaluateCase, StopEvaluation,
          RunCancelled, MarkCancelled, RunCompleted, RefreshRun, EvalReturnNone, EvalFinish,
          EvalRaises, EvalFails, EvalCrash
  <2>3. run' \in [Jobs -> RunStatus] /\ results' \in [Jobs -> SUBSET Result]
    <3>1. CASE RunCancelled(w)
      <4>1. task[w].job \in Jobs /\ task[w].step \in Nat /\ task[w].step < Checkpoints
        BY <2>0, <3>1, TaskTypes, CheckpointsAssumption DEF RunCancelled, WorkFits, At, Executing, Task
      <4> QED
        BY <3>1, <4>1, CommitRunType DEF RunCancelled, RunStatus
    <3>2. CASE RunCompleted(w)
      <4>1. task[w].job \in Jobs /\ task[w].step = Checkpoints
        BY <3>2, TaskTypes DEF RunCompleted, Executing
      <4>2. CASE Checkpoints = 0
        <5>1. NewResults(w, Checkpoints - 1) = {}
          BY <4>2 DEF NewResults
        <5>2. Committed(w, Checkpoints - 1) \subseteq Result
          BY <1>0, <4>1, <5>1 DEF Committed
        <5> QED
          BY <1>0, <3>2, <5>2 DEF RunCompleted, CommitRun, RunStatus
      <4>3. CASE Checkpoints # 0
        <5>1. Checkpoints - 1 \in Nat /\ Checkpoints - 1 < Checkpoints
          BY <4>3, CheckpointsAssumption
        <5> QED
          BY <3>2, <4>1, <5>1, CommitRunType DEF RunCompleted, RunStatus
      <4> QED
        BY <4>2, <4>3
    <3> QED
      BY <1>0, <1>1, <3>1, <3>2
      DEF EvalWorkerStep, EvalLoop, EvalClaim, DeleteResults, LockRun, EvaluateCase, StopEvaluation,
          RefreshRun, EvalReturnNone, EvalFinish, EvalRaises, EvalFails, EvalCrash
  <2>4. crossed' \in SUBSET Jobs
    <3>1. EvalClaim(w) => task[w].job \in Jobs
      BY TaskTypes DEF EvalClaim, Claim
    <3> QED
      BY <1>0, <1>1, <3>1
      DEF EvalWorkerStep, EvalLoop, EvalClaim, DeleteResults, LockRun, EvaluateCase, StopEvaluation,
          RunCancelled, RunCompleted, RefreshRun, EvalReturnNone, EvalFinish, EvalRaises, EvalFails,
          EvalCrash
  <2> QED
    BY <2>1, <2>2, <2>3, <2>4 DEF EvalTypeOK
<1>2. ASSUME NEW r \in Requests, EvalRequestStep(r) PROVE EvalTypeOK'
  <2>0. r \in Actors /\ RequeueFits(r)
    BY ActorsContain DEF SessionsFit
  <2>1. work' = work /\ results' = results
    BY <1>2, EvalRequestFrame
  <2>2. ASSUME NEW j \in Jobs, StartRun(r, j) PROVE EvalTypeOK'
    BY <1>0, <2>2 DEF StartRun, EvalTypeOK, RunStatus
  <2>3. CASE EvalRequest(r)
    BY <1>0, <2>3 DEF EvalRequest, EvalTypeOK
  <2>4. CASE EvalCancelCommit(r)
    <3>1. request[r].job \in Jobs
      BY <2>4 DEF EvalCancelCommit, CancelCommit, TypeOK
    <3>2. RunMarkOf(request[r].job, "cancelled") \in RunMark
      BY <3>1, EvalRecords
    <3> QED
      BY <1>0, <2>4, <3>2 DEF EvalCancelCommit, EvalTypeOK
  <2>5. ASSUME NEW j \in Jobs, EvalRequeueRead(r, j) PROVE EvalTypeOK'
    <3>1. [NoRunMark EXCEPT !.pc = "requeue", !.job = j, !.saw = run[j]] \in RunMark
      BY <1>0, EvalRecords
    <3> QED
      BY <1>0, <2>5, <3>1 DEF EvalRequeueRead, EvalTypeOK
  <2>6. CASE EvalRequeueCommit(r)
    <3> DEFINE j == runMark[r].job
    <3>1. j \in Jobs
      BY <2>0, <2>6 DEF EvalRequeueCommit, RequeueCommit, TypeOK, RequeueFits
    <3>2. RequeuedRun(run[j], runMark[r].saw) \in RunStatus
      BY <1>0, <3>1 DEF RequeuedRun, Column, RunStatus
    <3>3. NoRunMark \in RunMark
      BY EvalRecords
    <3> QED
      BY <1>0, <2>6, <3>1, <3>2, <3>3 DEF EvalRequeueCommit, EvalTypeOK
  <2> QED
    BY <1>2, <2>2, <2>3, <2>4, <2>5, <2>6 DEF EvalRequestStep
<1>3. ASSUME NEW a \in Actors, RunMarkRead(a) PROVE EvalTypeOK'
  <2>1. runMark[a] \in RunMark /\ \A s \in RunStatus : [runMark[a] EXCEPT !.pc = "commit", !.saw = s] \in RunMark
    BY <1>0 DEF RunMark
  <2>2. runMark[a].job \in Jobs => run[runMark[a].job] \in RunStatus
    BY <1>0
  <2>3. runMark[a].job \in Jobs
    BY <1>3 DEF RunMarkRead, SessionsFit, MarkFits
  <2> QED
    BY <1>0, <1>3, <2>1, <2>2, <2>3 DEF RunMarkRead, EvalTypeOK
<1>4. ASSUME NEW a \in Actors, RunMarkCommit(a) PROVE EvalTypeOK'
  <2>1. NoRunMark \in RunMark /\ NoWork \in Work /\ runMark[a].to \in RunStatus
    BY <1>0, EvalRecords DEF RunMark
  <2>2. \A j \in Jobs : Column(run[j], runMark[a].saw, runMark[a].to) \in RunStatus
    BY <1>0, <2>1 DEF Column
  <2> QED
    BY <1>0, <1>4, <2>1, <2>2 DEF RunMarkCommit, EvalTypeOK, Close
<1>5. CASE EvalEnvironment \/ UNCHANGED evalAllVars
  BY <1>0, <1>5 DEF EvalEnvironment, evalAllVars, EvalTypeOK
<1> QED
  BY <1>1, <1>2, <1>3, <1>4, <1>5 DEF EvalNext

\* What the proofs about one job keep assuming.
EvalKnown == TypeOK /\ EvalTypeOK /\ SessionsFit

LEMMA ExecutesOnlyClaimed ==
    ASSUME EvalKnown, [EvalNext]_evalAllVars, NEW w \in Workers, NEW j \in Jobs, Executes(w, j)'
    PROVE  \/ Executes(w, j)
           \/ EvalClaim(w) /\ task[w].job = j
<1> USE DEF EvalKnown
<1>1. CASE EvalWorkerStep(w) \/ EvalCrash(w)
  <2>1. CASE EvalLoop(w)
    <3>1. pc'[w] \notin Executing
      BY <2>1 DEF EvalLoop, LoopStep, RecoverScan, RecoverPublish, RecoverCommit, PromoteScan,
                  Promote, Pop, PopTimeout, ClaimCancelled, ClaimNothing, ClaimSkipsLocked,
                  BackToLoop, TypeOK, Executing
    <3> QED
      BY <3>1 DEF Executes
  <2>2. CASE EvalClaim(w)
    BY <2>2 DEF EvalClaim, Claim, Executes, TypeOK
  <2>3. CASE DeleteResults(w) \/ LockRun(w) \/ RunCancelled(w) \/ RunCompleted(w)
    BY <2>3 DEF DeleteResults, LockRun, RunCancelled, RunCompleted, vars, Executes
  <2>4. CASE RefreshRun(w)
    <3>1. pc[w] = "running" /\ task' = task
      BY <2>4 DEF RefreshRun, At, SessionsFit, WorkFits
    <3> QED
      BY <3>1 DEF Executes, Executing
  <2>5. CASE EvaluateCase(w) \/ StopEvaluation(w)
    BY <2>5 DEF EvaluateCase, StopEvaluation, Progress, ProgressSeesCancel, ProgressCancels,
                Executes, Executing, TypeOK, Task
  <2>6. CASE EvalRaises(w)
    BY <2>6 DEF EvalRaises, HandlerRaises, Executes, Executing, TypeOK, Task
  <2>7. CASE EvalReturnNone(w) \/ EvalFinish(w) \/ EvalFails(w)
    BY <2>7 DEF EvalReturnNone, EvalFinish, EvalFails, ReturnNone, FinishRead, FinishSeesCancelled,
                FinishCommit, FailRetry, ScheduleRetry, FailDeadLetter, BackToLoop, Executes,
                Executing, TypeOK, Task
  <2>8. CASE EvalCrash(w)
    BY <2>8 DEF EvalCrash, Crash, Executes, Executing, TypeOK
  <2> QED
    BY <1>1, <2>1, <2>2, <2>3, <2>4, <2>5, <2>6, <2>7, <2>8 DEF EvalWorkerStep
<1>2. ASSUME NEW v \in Workers \ {w}, EvalWorkerStep(v) \/ EvalCrash(v) PROVE Executes(w, j)
  BY <1>2, EvalWorkerFrame DEF Executes
<1>3. ASSUME NEW r \in Requests, EvalRequestStep(r) PROVE Executes(w, j)
  BY <1>3, EvalRequestFrame DEF Executes
<1>4. CASE (\E a \in Actors : RunMarkRead(a) \/ RunMarkCommit(a)) \/ UNCHANGED evalAllVars
  BY <1>4 DEF RunMarkRead, RunMarkCommit, evalAllVars, vars, Executes
<1>5. CASE EvalEnvironment
  BY <1>5 DEF EvalEnvironment, HeartbeatTick, Restart, HeartbeatExpires, HeartbeatStalls,
              RetryDelayElapses, RedisLoss, Executes, Executing, TypeOK
<1> QED
  BY <1>1, <1>2, <1>3, <1>4, <1>5 DEF EvalNext

LEMMA CrossedGrows == [EvalNext]_evalAllVars => crossed \subseteq crossed'
BY DEF EvalNext, EvalRequestStep, EvalWorkerStep, StartRun, EvalRequest, EvalCancelCommit,
       EvalRequeueRead, EvalRequeueCommit, EvalLoop, EvalClaim, DeleteResults, LockRun,
       EvaluateCase, StopEvaluation, RunCancelled, RunCompleted, RefreshRun, EvalReturnNone,
       EvalFinish, EvalRaises, EvalFails, EvalCrash, RunMarkRead, RunMarkCommit, EvalEnvironment,
       evalAllVars

\* A requeue that is not crossed finds nobody at work on the job, and queues it.
LEMMA RequeueUncrossed ==
    ASSUME EvalKnown, [EvalNext]_evalAllVars, NEW j \in Jobs \ crossed',
           NEW r \in Requests, RequeueCommit(r), request[r].job = j
    PROVE  /\ EvalRequeueCommit(r) /\ runMark[r].job = j
           /\ ~UnderWay(j) /\ ~CancelUnderWay(j)
           /\ job'[j].status = "queued" /\ ~UnderWay(j)'
<1> USE DEF EvalKnown
<1>1. EvalRequeueCommit(r) /\ runMark[r].job = j
  <2>1. request[r].op = "requeue" /\ request'[r].op = "enqueue" /\ request'[r] # request[r]
    <3>1. \A k : [NoRequest EXCEPT !.op = "enqueue", !.job = k].op = "enqueue"
      BY DEF NoRequest
    <3> QED
      BY <3>1 DEF RequeueCommit, TypeOK
  <2>2. ASSUME NEW w \in Workers, EvalWorkerStep(w) \/ EvalCrash(w) PROVE FALSE
    BY <2>1, <2>2, EvalWorkerFrame
  <2>3. ASSUME NEW s \in Requests \ {r}, EvalRequestStep(s) PROVE FALSE
    BY <2>1, <2>3, EvalRequestFrame
  <2>4. CASE EvalEnvironment \/ (\E a \in Actors : RunMarkRead(a) \/ RunMarkCommit(a))
             \/ UNCHANGED evalAllVars
    BY <2>1, <2>4 DEF EvalEnvironment, HeartbeatTick, Restart, HeartbeatExpires, HeartbeatStalls,
              RetryDelayElapses, RedisLoss, RunMarkRead, RunMarkCommit, evalAllVars, vars
  <2>5. CASE EvalRequestStep(r)
    <3>1. EvalRequeueCommit(r)
      BY <2>1, <2>5 DEF EvalRequestStep, StartRun, CreateJob, EvalRequest, CancelRead, Enqueue,
                        EnqueueLost, EvalCancelCommit, CancelCommit, EvalRequeueRead, RequeueRead
    <3>2. RequeueFits(r)
      BY DEF SessionsFit
    <3> QED
      BY <3>1, <3>2 DEF RequeueFits, EvalRequeueCommit
  <2> QED
    BY <2>2, <2>3, <2>4, <2>5 DEF EvalNext
<1>2. ~UnderWay(j) /\ ~CancelUnderWay(j)
  BY <1>1 DEF EvalRequeueCommit
<1>3. job'[j].status = "queued"
  <2>1. request[r].saw.status \in Requeueable
    BY DEF RequeueCommit, SessionsFit, RequeueFits
  <2>2. job'[j] = Flush(job[j], request[r].saw, RequeuedRow(request[r].saw))
    BY DEF RequeueCommit, TypeOK
  <2> QED
    BY <2>1, <2>2 DEF Flush, Column, RequeuedRow, Requeueable
<1>4. ~UnderWay(j)'
  BY <1>2 DEF RequeueCommit, UnderWay, Executes
<1> QED
  BY <1>1, <1>2, <1>3, <1>4

LEMMA StepAlone ==
    ASSUME EvalKnown, [EvalNext]_evalAllVars, NEW j \in Jobs \ crossed', Alone(j)
    PROVE  Alone(j)'
<1> USE DEF EvalKnown
<1>1. ASSUME NEW w \in Workers, EvalClaim(w), task[w].job = j
      PROVE  /\ \A v \in Workers \ {w} : ~Executes(v, j)'
             /\ job'[j].status = "running"
  <2>1. ~UnderWay(j) /\ EvalWorkerStep(w)
    BY <1>1 DEF EvalClaim, EvalWorkerStep
  <2>2. \A v \in Workers \ {w} : pc'[v] = pc[v] /\ task'[v] = task[v]
    BY <2>1, EvalWorkerFrame
  <2>3. job'[j] = ClaimedRow(job[j])
    BY <1>1 DEF EvalClaim, Claim, TypeOK
  <2> QED
    BY <2>1, <2>2, <2>3, JobTypes, ClaimedRowFields DEF UnderWay, Executes
<1>2. ASSUME NEW v \in Workers, NEW w \in Workers, Executes(v, j)', Executes(w, j)' PROVE v = w
  BY <1>1, <1>2, ExecutesOnlyClaimed DEF Alone
<1>3. ASSUME job'[j].status \in {"absent", "succeeded"}, NEW v \in Workers, Executes(v, j)'
      PROVE  FALSE
  <2>1. Executes(v, j)
    BY <1>1, <1>3, ExecutesOnlyClaimed
  <2>2. CASE NoRequeue(j)
    <3>1. job'[j].status # job[j].status
      BY <1>3, <2>1 DEF Alone, UnderWay
    <3>2. PICK w \in Workers : pc[w] = "finishing" /\ pc'[w] = "loop" /\ task[w].job = j
      BY <1>3, <2>2, <3>1 DEF NoRequeue
    <3>3. v = w
      BY <2>1, <3>2 DEF Alone, Executes, Executing
    <3> QED
      BY <1>3, <3>2, <3>3 DEF Executes, Executing
  <2>3. CASE \E r \in Requests : RequeueCommit(r) /\ request[r].job = j
    BY <1>3, <2>3, RequeueUncrossed
  <2> QED
    BY <2>2, <2>3, EvalRowStep
<1> QED
  BY <1>2, <1>3 DEF Alone, UnderWay

LEMMA StepCancelStands ==
    ASSUME EvalKnown, [EvalNext]_evalAllVars, NEW j \in Jobs \ crossed', CancelStands(j)
    PROVE  CancelStands(j)'
<1> USE DEF EvalKnown
<1> DEFINE Asks(r) == request[r].op = "cancel" /\ request[r].job = j /\ request[r].saw.cancel
           Marks(r) == runMark[r].pc \in {"read", "commit"} /\ runMark[r].job = j
<1>0. /\ \A r \in Requests : r \in Actors /\ r \notin Workers
      /\ \A w \in Workers : w \in Actors /\ w \notin Requests
  BY ActorsAssumption, ActorsContain
<1>1. SUFFICES ASSUME NEW r \in Requests, Asks(r)' \/ Marks(r)' PROVE job'[j].cancel
  BY DEF CancelStands
<1>2. CASE NoRequeue(j)
  <2>1. CASE Asks(r) \/ Marks(r)
    BY <1>2, <2>1 DEF CancelStands, NoRequeue
  <2>2. CASE EvalRequestStep(r)
    <3>1. ASSUME NEW k \in Jobs, StartRun(r, k) PROVE FALSE
      BY <1>0, <1>1, <3>1 DEF StartRun, CreateJob, Free, NoRequest, TypeOK
    <3>2. CASE EvalRequest(r)
      <4>1. ASSUME NEW k \in Jobs, CancelRead(r, k), Asks(r)' PROVE job'[j].cancel
        BY <4>1 DEF CancelRead, TypeOK
      <4> QED
        BY <1>1, <3>2, <4>1 DEF EvalRequest, Enqueue, EnqueueLost, NoRequest, TypeOK, Free
    <3>3. CASE EvalCancelCommit(r)
      <4> DEFINE saw == request[r].saw
      <4>1. request[r].job = j /\ request[r].op = "cancel"
        <5>1. request'[r].op = "none"
          BY <3>3 DEF EvalCancelCommit, CancelCommit, NoRequest, TypeOK
        <5>2. runMark'[r] = RunMarkOf(request[r].job, "cancelled")
          BY <1>0, <1>1, <3>3, <5>1 DEF EvalCancelCommit, EvalTypeOK, Free
        <5> QED
          BY <1>1, <3>3, <5>1, <5>2 DEF RunMarkOf, EvalCancelCommit, CancelCommit
      <4>2. job'[j].cancel = Column(job[j].cancel, saw.cancel, CancelledRow(saw).cancel)
        BY <3>3, <4>1 DEF EvalCancelCommit, CancelCommit, TypeOK, Flush
      <4>3. CancelledRow(saw).cancel = TRUE /\ saw.cancel \in BOOLEAN
        BY DEF CancelledRow, TypeOK, Request, Row
      <4>4. CASE saw.cancel
        BY <1>2, <2>1, <4>1, <4>4
      <4>5. CASE ~saw.cancel
        BY <4>2, <4>3, <4>5 DEF Column
      <4> QED
        BY <4>4, <4>5
    <3>4. ASSUME NEW k \in Jobs, EvalRequeueRead(r, k) PROVE FALSE
      BY <1>0, <1>1, <3>4 DEF EvalRequeueRead, RequeueRead, NoRunMark, TypeOK, EvalTypeOK
    <3>5. CASE EvalRequeueCommit(r)
      <4>1. \A k : [NoRequest EXCEPT !.op = "enqueue", !.job = k].op = "enqueue"
        BY DEF NoRequest
      <4> QED
        BY <1>0, <1>1, <3>5, <4>1
        DEF EvalRequeueCommit, RequeueCommit, NoRunMark, TypeOK, EvalTypeOK
    <3> QED
      BY <2>2, <3>1, <3>2, <3>3, <3>4, <3>5 DEF EvalRequestStep
  <2>3. ASSUME NEW s \in Requests \ {r}, EvalRequestStep(s) PROVE Asks(r) \/ Marks(r)
    BY <1>0, <1>1, <2>3, EvalRequestFrame
  <2>4. ASSUME NEW w \in Workers, EvalWorkerStep(w) \/ EvalCrash(w) PROVE Asks(r) \/ Marks(r)
    BY <1>0, <1>1, <2>4, EvalWorkerFrame
  <2>5. ASSUME NEW a \in Actors, RunMarkRead(a) \/ RunMarkCommit(a) PROVE Asks(r) \/ Marks(r)
    <3>1. request' = request /\ (Marks(r)' => Marks(r))
      BY <1>0, <2>5 DEF RunMarkRead, RunMarkCommit, vars, EvalTypeOK, RunMark, NoRunMark
    <3> QED
      BY <1>1, <3>1
  <2>6. CASE EvalEnvironment \/ UNCHANGED evalAllVars
    BY <1>1, <2>1, <2>6 DEF EvalEnvironment, HeartbeatTick, Restart, HeartbeatExpires,
              HeartbeatStalls, RetryDelayElapses, RedisLoss, evalAllVars, vars
  <2> QED
    BY <2>1, <2>2, <2>3, <2>4, <2>5, <2>6 DEF EvalNext
<1>3. ASSUME NEW s \in Requests, RequeueCommit(s), request[s].job = j PROVE FALSE
  <2>1. /\ EvalRequeueCommit(s) /\ ~CancelUnderWay(j)
    BY <1>3, RequeueUncrossed
  <2>2. ~Asks(r) /\ ~Marks(r)
    BY <2>1 DEF CancelUnderWay
  <2>3. CASE s = r
    <3>1. \A k : [NoRequest EXCEPT !.op = "enqueue", !.job = k].op = "enqueue"
      BY DEF NoRequest
    <3> QED
      BY <1>0, <1>1, <2>1, <2>3, <3>1
      DEF EvalRequeueCommit, RequeueCommit, NoRunMark, TypeOK, EvalTypeOK
  <2>4. CASE s # r
    BY <1>0, <1>1, <2>1, <2>2, <2>4, EvalRequestFrame DEF EvalRequestStep
  <2> QED
    BY <2>3, <2>4
<1> QED
  BY <1>2, <1>3, EvalRowStep

\* Who may write the run of a job: its creation, a requeue, the worker that executes it, a
\* terminal mark.
LEMMA RunWriters ==
    ASSUME EvalKnown, [EvalNext]_evalAllVars, NEW j \in Jobs
    PROVE  \/ run'[j] = run[j] /\ results'[j] = results[j]
              /\ ~ \E w \in Workers : RunCompleted(w) /\ task[w].job = j
           \/ \E r \in Requests : StartRun(r, j)
           \/ \E r \in Requests : EvalRequeueCommit(r) /\ runMark[r].job = j
           \/ \E w \in Workers : (RunCancelled(w) \/ RunCompleted(w)) /\ task[w].job = j
           \/ \E a \in Actors : RunMarkCommit(a) /\ runMark[a].job = j
<1> USE DEF EvalKnown
<1>1. ASSUME NEW w \in Workers, EvalWorkerStep(w) \/ EvalCrash(w), ~RunCancelled(w), ~RunCompleted(w)
      PROVE  run' = run /\ results' = results
  BY <1>1 DEF EvalWorkerStep, EvalLoop, EvalClaim, DeleteResults, LockRun, EvaluateCase,
              StopEvaluation, RefreshRun, EvalReturnNone, EvalFinish, EvalRaises, EvalFails, EvalCrash
<1>2. ASSUME NEW w \in Workers, RunCancelled(w) \/ RunCompleted(w), task[w].job # j
      PROVE  run'[j] = run[j] /\ results'[j] = results[j]
  BY <1>2 DEF RunCancelled, RunCompleted, CommitRun, EvalTypeOK
<1>3. ASSUME NEW r \in Requests, EvalRequestStep(r), ~StartRun(r, j),
             ~(EvalRequeueCommit(r) /\ runMark[r].job = j)
      PROVE  run'[j] = run[j] /\ results'[j] = results[j]
  BY <1>3 DEF EvalRequestStep, StartRun, EvalRequest, EvalCancelCommit, EvalRequeueRead,
              EvalRequeueCommit, EvalTypeOK
<1>4. ASSUME NEW a \in Actors, RunMarkRead(a) \/ RunMarkCommit(a),
             ~(RunMarkCommit(a) /\ runMark[a].job = j)
      PROVE  run'[j] = run[j] /\ results'[j] = results[j]
  BY <1>4 DEF RunMarkRead, RunMarkCommit, EvalTypeOK
<1>5. CASE EvalEnvironment \/ UNCHANGED evalAllVars
  BY <1>5 DEF EvalEnvironment, evalAllVars
<1> QED
  BY <1>1, <1>2, <1>3, <1>4, <1>5 DEF EvalNext

\* How an execution that goes on moves through its transaction.
LEMMA WorkMoves ==
    ASSUME EvalKnown, [EvalNext]_evalAllVars, NEW w \in Workers
    PROVE  /\ work'[w].pc \in {"saved", "done"} =>
                 work[w].pc \in {"saved", "done"} \/ RunCompleted(w)
           /\ work'[w].pc \in {"wait", "open", "stop"} =>
                 \/ work[w].pc \in {"wait", "open", "stop"} /\ work'[w].gone = work[w].gone
                 \/ DeleteResults(w) /\ work'[w].gone = results[task[w].job]
           /\ EvalClaim(w) => work'[w].pc = "load"
<1> USE DEF EvalKnown
<1>0. work[w] \in Work /\ work \in [Workers -> Work] /\ NoWork.pc = "none"
  BY DEF EvalTypeOK, NoWork
<1>1. ASSUME NEW v \in Workers \ {w}, EvalWorkerStep(v) \/ EvalCrash(v)
      PROVE  work'[w] = work[w] /\ ~EvalClaim(w)
  <2>1. work'[w] = work[w] /\ pc'[w] = pc[w]
    BY <1>1, EvalWorkerFrame
  <2>2. ~EvalClaim(w)
    BY <2>1 DEF EvalClaim, Claim, TypeOK
  <2> QED
    BY <2>1, <2>2
<1>2. ASSUME UNCHANGED <<pc, work>> PROVE work'[w] = work[w] /\ ~EvalClaim(w)
  BY <1>2 DEF EvalClaim, Claim, TypeOK
<1>3. ASSUME NEW r \in Requests, EvalRequestStep(r) PROVE UNCHANGED <<pc, work>>
  BY <1>3, EvalRequestFrame
<1>4. ASSUME NEW a \in Actors, RunMarkRead(a) \/ RunMarkCommit(a)
      PROVE  ~EvalClaim(w) /\ (work'[w] = work[w] \/ work'[w] = NoWork)
  BY <1>0, <1>4 DEF RunMarkRead, RunMarkCommit, Close, EvalClaim, Claim, vars, TypeOK
<1>5. CASE EvalEnvironment \/ UNCHANGED evalAllVars
  BY <1>5 DEF EvalEnvironment, evalAllVars, EvalClaim, Claim, TypeOK, HeartbeatTick, Restart,
              HeartbeatExpires, HeartbeatStalls, RetryDelayElapses, RedisLoss, vars
<1>6. CASE EvalWorkerStep(w) \/ EvalCrash(w)
  <2>1. \A p : Go(w, p) => work'[w].pc = p /\ work'[w].gone = work[w].gone
    BY <1>0 DEF Go, Work
  <2>2. Close(w) => work'[w].pc = "none"
    BY <1>0 DEF Close
  <2>3. DeleteResults(w) => work'[w] = [pc |-> "wait", gone |-> results[task[w].job]]
    BY <1>0 DEF DeleteResults
  <2>4. EvalRaises(w) => work'[w].pc \in {"none", "mark"}
    BY <1>0, <2>2 DEF EvalRaises
  <2>5. CASE EvalLoop(w) \/ EvaluateCase(w) \/ EvalReturnNone(w) \/ EvalFails(w) \/ EvalCrash(w)
    <3>1. work'[w] = work[w] \/ work'[w].pc = "none"
      BY <2>2, <2>5 DEF EvalLoop, EvaluateCase, EvalReturnNone, EvalFails, EvalCrash
    <3>2. ~EvalClaim(w)
      BY <1>0, <2>1, <2>2, <2>5
      DEF EvalLoop, EvaluateCase, EvalReturnNone, EvalFails, EvalCrash, EvalClaim, At, SessionsFit, WorkFits, Claim
    <3> QED
      BY <3>1, <3>2
  <2>6. CASE EvalClaim(w)
    BY <2>1, <2>6 DEF EvalClaim
  <2>7. CASE EvalFinish(w)
    BY <2>1, <2>2, <2>7 DEF EvalFinish, EvalClaim, Claim, At, SessionsFit, WorkFits
  <2>8. CASE LockRun(w) \/ StopEvaluation(w) \/ RunCancelled(w) \/ RunCompleted(w) \/ RefreshRun(w)
    BY <2>1, <2>8 DEF LockRun, StopEvaluation, RunCancelled, RunCompleted, RefreshRun, MarkCancelled,
                      EvalClaim, Claim, At, SessionsFit, WorkFits
  <2> QED
    BY <1>6, <2>3, <2>4, <2>5, <2>6, <2>7, <2>8 DEF EvalWorkerStep, EvalClaim, EvalRaises, DeleteResults, Claim, HandlerRaises
<1> QED
  BY <1>0, <1>1, <1>2, <1>3, <1>4, <1>5, <1>6 DEF EvalNext

\* The commit of an execution that is alone leaves exactly its own results.
LEMMA CompletedResults ==
    ASSUME EvalKnown, NEW w \in Workers, RunCompleted(w), NEW j \in Jobs, task[w].job = j, RunFits(j)
    PROVE  run'[j] = "completed" /\ OneExecution(results'[j])
<1> USE DEF EvalKnown
<1>1. Executes(w, j) /\ work[w].gone = results[j]
  BY DEF RunFits, RunCompleted, At, Executes, Executing
<1>2. run'[j] = "completed" /\ results'[j] = NewResults(w, Checkpoints - 1)
  BY <1>1 DEF RunCompleted, CommitRun, Committed, EvalTypeOK
<1>3. OneExecution(NewResults(w, Checkpoints - 1))
  <2> DEFINE all == NewResults(w, Checkpoints - 1)
             made(c) == [era |-> task[w].era, attempt |-> task[w].attempt, case |-> c]
  <2>1. all = {made(c) : c \in Cases}
    BY DEF NewResults, Cases
  <2>2. \A c : made(c).case = c /\ made(c).era = task[w].era /\ made(c).attempt = task[w].attempt
    OBVIOUS
  <2> HIDE DEF all, made
  <2>3. {x.case : x \in all} \subseteq Cases
    BY <2>1, <2>2
  <2>4. Cases \subseteq {x.case : x \in all}
    <3>1. SUFFICES ASSUME NEW c \in Cases PROVE \E x \in all : x.case = c
      OBVIOUS
    <3>2. made(c) \in all
      BY <2>1
    <3> QED
      BY <2>2, <3>2
  <2>5. \A x, y \in all : x.era = y.era /\ x.attempt = y.attempt
    BY <2>1, <2>2
  <2> QED
    BY <2>3, <2>4, <2>5 DEF OneExecution, all
<1> QED
  BY <1>2, <1>3

LEMMA StepRunFits ==
    ASSUME EvalKnown, [EvalNext]_evalAllVars, NEW j \in Jobs \ crossed',
           Alone(j), CancelStands(j), RunFits(j)
    PROVE  RunFits(j)'
<1> USE DEF EvalKnown
<1>0. /\ Workers \cap Requests = {} /\ Actors = Workers \cup Requests
      /\ \A w \in Workers : WorkFits(w)
      /\ \A a \in Actors : MarkFits(a)
  BY ActorsAssumption DEF Actors, SessionsFit
\* The run and its results are not written.
<1>1. CASE run'[j] = run[j] /\ results'[j] = results[j]
           /\ ~ \E w \in Workers : RunCompleted(w) /\ task[w].job = j
  <2>1. CASE NoRequeue(j)
    <3>1. job[j].cancel => job'[j].cancel
      BY <2>1 DEF NoRequeue
    <3>2. ASSUME NEW w \in Workers, Executes(w, j)'
          PROVE  /\ work'[w].pc \in {"saved", "done"} => run[j] = "completed" \/ job[j].cancel
                 /\ work'[w].pc \in {"wait", "open", "stop"} => work'[w].gone = results[j]
      <4>1. CASE EvalClaim(w)
        BY <4>1, WorkMoves
      <4>2. CASE ~EvalClaim(w)
        <5>1. Executes(w, j)
          BY <3>2, <4>2, ExecutesOnlyClaimed
        <5>2. task[w].job = j
          BY <5>1 DEF Executes
        <5> QED
          BY <1>1, <5>1, <5>2, WorkMoves DEF RunFits
      <4> QED
        BY <4>1, <4>2
    <3>3. job'[j].status = "succeeded" => run[j] = "completed" \/ job[j].cancel
      <4>1. SUFFICES ASSUME job'[j].status = "succeeded", job[j].status # "succeeded"
                     PROVE  run[j] = "completed" \/ job[j].cancel
        BY DEF RunFits
      <4>2. PICK w \in Workers : pc[w] = "finishing" /\ task[w].job = j
        BY <2>1, <4>1 DEF NoRequeue
      <4>3. work[w].pc = "done"
        BY <1>0, <4>2 DEF WorkFits, At, EvalTypeOK, Work
      <4> QED
        BY <4>2, <4>3 DEF RunFits, Executes, Executing
    <3> QED
      BY <1>1, <3>1, <3>2, <3>3 DEF RunFits
  <2>2. ASSUME NEW r \in Requests, RequeueCommit(r), request[r].job = j PROVE RunFits(j)'
    BY <1>1, <2>2, RequeueUncrossed DEF RunFits, UnderWay
  <2> QED
    BY <2>1, <2>2, EvalRowStep
<1>2. ASSUME NEW r \in Requests, StartRun(r, j) PROVE RunFits(j)'
  <2>1. job[j].status = "absent" /\ job'[j].status # "succeeded" /\ run'[j] = "queued"
        /\ UNCHANGED <<pc, task>>
    BY <1>2 DEF StartRun, CreateJob, EvalTypeOK, TypeOK, Row
  <2>2. ~UnderWay(j)
    BY <2>1 DEF Alone
  <2> QED
    BY <2>1, <2>2 DEF RunFits, UnderWay, Executes
<1>3. ASSUME NEW r \in Requests, EvalRequeueCommit(r), runMark[r].job = j PROVE RunFits(j)'
  <2>1. RequeueCommit(r) /\ request[r].job = j
    BY <1>3 DEF EvalRequeueCommit, SessionsFit, RequeueFits
  <2>2. job'[j].status = "queued" /\ ~UnderWay(j)'
    BY <2>1, RequeueUncrossed
  <2>3. results'[j] = results[j] /\ (run'[j] = "completed" => run[j] = "completed")
    BY <1>3 DEF EvalRequeueCommit, RequeuedRun, Column, EvalTypeOK
  <2> QED
    BY <2>2, <2>3 DEF RunFits, UnderWay
<1>4. ASSUME NEW w \in Workers, RunCancelled(w) \/ RunCompleted(w), task[w].job = j
      PROVE  RunFits(j)'
  <2>1. Executes(w, j) /\ UNCHANGED <<job, pc, task>>
    BY <1>4 DEF RunCancelled, RunCompleted, Executes, Executing, vars
  <2>2. job'[j].status # "succeeded" /\ \A v \in Workers : Executes(v, j)' => v = w
    BY <2>1 DEF Alone, UnderWay, Executes
  <2>3. CASE RunCompleted(w)
    <3>1. work'[w].pc = "saved"
      BY <2>3 DEF RunCompleted, Go, EvalTypeOK, Work
    <3> QED
      BY <1>4, <2>2, <2>3, <3>1, CompletedResults DEF RunFits
  <2>4. CASE RunCancelled(w)
    <3>1. work'[w].pc = "mark"
      BY <2>4 DEF RunCancelled, MarkCancelled, Go, EvalTypeOK, Work
    <3>2. run'[j] = "cancelled"
      BY <1>4, <2>4 DEF RunCancelled, CommitRun, EvalTypeOK
    <3> QED
      BY <2>2, <3>1, <3>2 DEF RunFits
  <2> QED
    BY <1>4, <2>3, <2>4
<1>5. ASSUME NEW a \in Actors, RunMarkCommit(a), runMark[a].job = j PROVE RunFits(j)'
  <2>1. UNCHANGED <<job, pc, task, results>> /\ runMark[a].pc = "commit"
    BY <1>5 DEF RunMarkCommit, vars
  <2>2. run'[j] = "completed" => run[j] = "completed"
    <3>1. runMark[a].to # "completed"
      BY <1>0, <2>1 DEF MarkFits
    <3> QED
      BY <1>5, <3>1 DEF RunMarkCommit, Column, EvalTypeOK
  <2>3. CASE a \in Workers
    <3>1. Executes(a, j) /\ work'[a].pc = "none"
      BY <1>0, <1>5, <2>1, <2>3
      DEF WorkFits, At, RunMarkCommit, Close, NoWork, EvalTypeOK, Executes, Executing
    <3>2. job'[j].status # "succeeded" /\ \A v \in Workers : Executes(v, j)' => v = a
      BY <2>1, <2>3, <3>1 DEF Alone, UnderWay, Executes
    <3> QED
      BY <2>1, <2>2, <3>1, <3>2 DEF RunFits
  <2>4. CASE a \in Requests
    <3>1. job'[j].cancel
      BY <1>5, <2>1, <2>4 DEF CancelStands
    <3>2. work' = work /\ \A w \in Workers : Executes(w, j)' = Executes(w, j)
      BY <1>0, <1>5, <2>1, <2>4 DEF RunMarkCommit, Executes
    <3> QED
      BY <2>1, <2>2, <3>1, <3>2 DEF RunFits
  <2> QED
    BY <1>0, <2>3, <2>4
<1> QED
  BY <1>1, <1>2, <1>3, <1>4, <1>5, RunWriters

LEMMA InitRunInv == EvalInit => EvalKnown /\ RunInv
<1> SUFFICES ASSUME EvalInit PROVE EvalKnown /\ RunInv
  OBVIOUS
<1>1. TypeOK
  BY InitTypeOK DEF EvalInit
<1>2. EvalTypeOK
  BY EvalRecords DEF EvalInit, EvalTypeOK, RunStatus
<1>3. /\ \A w \in Workers : work[w].pc = "none" /\ pc[w] = "starting" /\ runMark[w].pc = "none"
      /\ \A r \in Requests : runMark[r].pc = "none" /\ request[r].op = "none"
      /\ \A a \in Actors : runMark[a].pc = "none"
  BY ActorsContain DEF EvalInit, Init, NoWork, NoRunMark, NoRequest
<1>4. SessionsFit
  BY <1>3 DEF SessionsFit, WorkFits, At, RequeueFits, MarkFits
<1>5. ASSUME NEW j \in Jobs PROVE Alone(j) /\ CancelStands(j) /\ RunFits(j)
  <2>1. \A w \in Workers : ~Executes(w, j)
    BY <1>3 DEF Executes, Executing
  <2>2. job[j].status = "absent" /\ run[j] = "absent"
    BY DEF EvalInit, Init, NewRow
  <2> QED
    BY <1>3, <2>1, <2>2 DEF Alone, UnderWay, CancelStands, RunFits
<1> QED
  BY <1>1, <1>2, <1>4, <1>5 DEF EvalKnown, RunInv

LEMMA StepRunInv == EvalKnown /\ RunInv /\ [EvalNext]_evalAllVars => (EvalKnown /\ RunInv)'
<1> SUFFICES ASSUME EvalKnown, RunInv, [EvalNext]_evalAllVars PROVE (EvalKnown /\ RunInv)'
  OBVIOUS
<1>1. EvalKnown'
  BY EvalStepTypeOK, StepEvalTypeOK, StepSessionsFit DEF EvalKnown
<1>2. ASSUME NEW j \in Jobs \ crossed' PROVE (Alone(j) /\ CancelStands(j) /\ RunFits(j))'
  <2>1. Alone(j) /\ CancelStands(j) /\ RunFits(j)
    BY <1>2, CrossedGrows DEF RunInv
  <2> QED
    BY <1>2, <2>1, StepAlone, StepCancelStands, StepRunFits
<1> QED
  BY <1>1, <1>2 DEF EvalKnown, RunInv

\* However many workers and requests there are, and whatever crashes, retries or is requeued:
\* while no two executions of a job overlap and no requeue overtakes one (or a cancellation),
\* a succeeded job nobody cancelled has a completed run, and a completed run has one result
\* per case, all of one execution (run_evaluation_job, RagEvaluationService.run).
THEOREM EvaluationsAgree == EvalSpec => []JobRunAndResultsAgree
<1>1. EvalKnown /\ RunInv => JobRunAndResultsAgree
  BY DEF EvalKnown, RunInv, RunFits, JobRunAndResultsAgree, SucceededMeansCompleted, OneResultPerCase
<1> QED
  BY <1>1, InitRunInv, StepRunInv, PTL DEF EvalSpec

\* The evaluation jobs keep every promise of the queue, although a worker may leave the
\* handler without a transaction on the job (evaluation_jobs.py inside jobs/worker.py).
THEOREM EvaluationsKeepPromises ==
    EvalSpec => /\ [](AttemptsWithinBudget /\ DeadLetterMeansExhausted /\ NoOverlapWithoutRevival)
                /\ AttemptsHeedCancel
<1>1. EvalInit => AttemptInv
  BY InitAttemptInv DEF EvalInit
<1>2. EvalKnown /\ AttemptInv
      => AttemptsWithinBudget /\ DeadLetterMeansExhausted /\ NoOverlapWithoutRevival
  BY InvGivesBudget, InvGivesExhaustion, InvGivesExclusion DEF EvalKnown
<1>3. EvalKnown /\ AttemptInv /\ [EvalNext]_evalAllVars => AttemptInv'
  <2> SUFFICES ASSUME EvalKnown, AttemptInv, [EvalNext]_evalAllVars PROVE AttemptInv'
    OBVIOUS
  <2>1. TypeOK /\ TypeOK'
    BY EvalStepTypeOK DEF EvalKnown
  <2>2. CASE [Next]_vars
    BY <2>1, <2>2, StepAttemptInv
  <2>3. ASSUME NEW w \in Workers, RefreshRun(w), pc' = [pc EXCEPT ![w] = "returning"]
        PROVE  AttemptInv'
    <3>1. pc[w] = "running" /\ UNCHANGED <<job, task, hist>>
      BY <2>3 DEF EvalKnown, RefreshRun, At, SessionsFit, WorkFits
    <3>2. \A v \in Workers : pc'[v] \in Executing => pc[v] \in Executing
      BY <2>1, <2>3, <3>1 DEF Executing, TypeOK
    <3>3. ASSUME NEW j \in Jobs PROVE QuietJob(j) /\ SameExecutors(j)
      BY <2>1, <3>1, <3>2, UnchangedQuiet DEF SameExecutors, Executes
    <3> QED
      BY <2>1, <3>3, QuietPreserves DEF AttemptInv
  <2> QED
    BY <2>2, <2>3, EvalQueueStep
<1>4. EvalKnown /\ CancelKept /\ [EvalNext]_evalAllVars
      => [\A j \in Jobs : hist[j].asked => job'[j].attempts <= job[j].attempts]_vars
  <2> SUFFICES ASSUME EvalKnown, CancelKept, [EvalNext]_evalAllVars, NEW j \in Jobs, job[j].cancel
               PROVE  job'[j].attempts <= job[j].attempts
    BY DEF CancelKept
  <2>1. CASE [Next]_vars
    BY <2>1, OnlyClaimAddsAttempts DEF EvalKnown
  <2>2. CASE \E w \in Workers : RefreshRun(w)
    <3>1. job' = job /\ job[j].attempts \in Nat
      BY <2>2, JobTypes DEF RefreshRun, EvalKnown
    <3> QED
      BY <3>1
  <2> QED
    BY <2>1, <2>2, EvalQueueStep
<1>5. EvalInit => CancelKept
  BY InitCancelKept DEF EvalInit
<1>6. EvalKnown /\ CancelKept /\ [EvalNext]_evalAllVars => CancelKept'
  <2> SUFFICES ASSUME EvalKnown, CancelKept, [EvalNext]_evalAllVars PROVE CancelKept'
    OBVIOUS
  <2>1. CASE [Next]_vars
    BY <2>1, StepCancelKept DEF EvalKnown
  <2>2. CASE \E w \in Workers : RefreshRun(w)
    BY <2>2 DEF RefreshRun, CancelKept
  <2> QED
    BY <2>1, <2>2, EvalQueueStep
<1> QED
  BY <1>1, <1>2, <1>3, <1>4, <1>5, <1>6, InitRunInv, StepRunInv, PTL DEF EvalSpec, AttemptsHeedCancel
=============================================================================
