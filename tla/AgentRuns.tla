---------------------------- MODULE AgentRuns ----------------------------
(* One multi-agent run (agents/coordinator.py, agents/repository.py): the     *)
(* coordinator working through the plan inside a chat turn, next to the       *)
(* owner's cancellations (api/routes/agents.py) and approval resolutions      *)
(* (agents/api.py), and the recovery at the start of an API process.          *)
(*                                                                            *)
(* The coordinator and a resumed run work on loaded objects (proc[p].run,     *)
(* proc[p].task) and write rows that others see only after a commit. A row    *)
(* lock is held from the first write of a transaction until it ends.          *)
EXTENDS Naturals, FiniteSets, FiniteSetsExt

CONSTANTS
  Tasks,        \* the plan, by sequence number
  Deps,         \* dependencies_json of each task
  Askers,       \* tasks that may ask for an approval (the memory agent)
  Synthesizers, \* tasks of the conversation agent
  MaxSteps,     \* maximum_steps of the run
  MaxRetries,   \* maximum_retries of a task
  Coordinator,  \* the chat turn that runs the plan
  Resolvers,    \* approve and reject requests, each served once
  Cancels,      \* cancel requests, each served once
  Remote        \* the cancel requests that reach another API process

ASSUME AgentConstants ==
  /\ Tasks \subseteq Nat /\ IsFiniteSet(Tasks)
  /\ Deps \in [Tasks -> SUBSET Tasks]
  /\ Askers \cup Synthesizers \subseteq Tasks
  /\ {MaxSteps, MaxRetries} \subseteq Nat
  /\ Coordinator \notin Resolvers
  /\ Remote \subseteq Cancels

VARIABLES
  run,      \* the agent_runs row
  task,     \* the agent_tasks rows
  approval, \* status of the agent_approvals row
  proc,     \* the coordinator and the approval requests
  cancel,   \* the cancel requests
  acted     \* how often an approved action has been committed

vars == <<run, task, approval, proc, cancel, acted>>

Procs == {Coordinator} \cup Resolvers

TerminalRun == {"completed", "failed", "cancelled", "timed_out"}
ActiveRun == {"pending", "planning", "running"}
RunStatus == {"none", "awaiting_approval"} \cup ActiveRun \cup TerminalRun
TerminalTask == {"succeeded", "failed", "skipped", "cancelled", "timed_out"}
OpenTask == {"pending", "ready", "running", "awaiting_approval"}
TaskStatus == {"none"} \cup OpenTask \cup TerminalTask
ApprovalStatus == {"none", "pending", "approved", "rejected", "cancelled"}

Run == [status: RunStatus, steps: 0..MaxSteps, synthesized: BOOLEAN]
Task == [status: TaskStatus, started: BOOLEAN, retries: 0..MaxRetries]

(* "between" is just after a checkpoint or a task, "asking" just after the    *)
(* checkpoint of a task that asked; "returning" has flushed its result and    *)
(* waits for the commit of its caller; "gone" left its transaction undone.    *)
Proc == [pc: {"idle", "started", "planning", "locked", "between", "ready", "running",
              "settled", "asking", "returning", "done", "gone"},
         run: Run, task: [Tasks -> Task], approval: ApprovalStatus,
         wroteRun: BOOLEAN, wrote: SUBSET Tasks,
         cur: Tasks \cup {0}, asks: BOOLEAN, steps: 0..MaxSteps]

(* "overruled" has cancelled a run that its coordinator goes on with. *)
CancelRequest == [pc: {"idle", "waiting", "locked", "done", "overruled"}, seen: RunStatus]

----------------------------------------------------------------------------
NoTask == [status |-> "none", started |-> FALSE, retries |-> 0]
NoRun == [status |-> "none", steps |-> 0, synthesized |-> FALSE]
IdleProc == [pc |-> "idle", run |-> NoRun, task |-> [t \in Tasks |-> NoTask],
             approval |-> "none", wroteRun |-> FALSE, wrote |-> {},
             cur |-> 0, asks |-> FALSE, steps |-> 0]

Init ==
  /\ run = NoRun
  /\ task = [t \in Tasks |-> NoTask]
  /\ approval = "none"
  /\ proc = [p \in Procs |-> IdleProc]
  /\ cancel = [c \in Cancels |-> [pc |-> "idle", seen |-> "none"]]
  /\ acted = 0

(* Uncommitted writes: the rows are locked, and inserted events hold the run  *)
(* row against SELECT ... FOR UPDATE.                                         *)
Writing(p) == proc[p].wroteRun \/ proc[p].wrote # {}
CancelLocked == \E c \in Cancels : cancel[c].pc = "locked"
MayWrite(p) == Writing(p) \/ ~CancelLocked

(* Mutant: get_owned_approval without FOR UPDATE. *)
ApprovalNeverLocked == FALSE

Busy(w) == w.pc \notin {"idle", "done", "gone"}

ApprovalLocked == \E r \in Resolvers : Busy(proc[r])

(* repository.cancel_queued_tasks on a set of task rows *)
CancelQueued(T) ==
  [t \in Tasks |-> IF T[t].status \in OpenTask THEN [T[t] EXCEPT !.status = "cancelled"] ELSE T[t]]

(* What the database holds once p commits: only written rows change. *)
CommittedRun(w) == IF w.wroteRun THEN w.run ELSE run
CommittedTasks(w) == [t \in Tasks |-> IF t \in w.wrote THEN w.task[t] ELSE task[t]]
Commit(w) ==
  /\ run' = CommittedRun(w)
  /\ task' = CommittedTasks(w)
  /\ approval' = IF w.approval = "none" THEN approval ELSE w.approval

(* repository.transition_run and transition_task on the loaded objects *)
SetRun(w, status) == [w EXCEPT !.run.status = status, !.wroteRun = TRUE]
SetTask(w, t, status) == [w EXCEPT !.task[t].status = status, !.wrote = @ \cup {t}]

(* The session of p is rolled back or closed: its writes are gone. *)
Abandon(p, pc) == proc' = [proc EXCEPT ![p] = [IdleProc EXCEPT !.pc = pc]]

----------------------------------------------------------------------------
(* create_run and the start checkpoint *)
StartRun ==
  /\ proc[Coordinator].pc = "idle"
  /\ run' = [NoRun EXCEPT !.status = "pending"]
  /\ proc' = [proc EXCEPT ![Coordinator].pc = "started", ![Coordinator].run = run']
  /\ UNCHANGED <<task, approval, cancel, acted>>

BeginPlanning ==
  /\ proc[Coordinator].pc = "started"
  /\ MayWrite(Coordinator)
  /\ proc' = [proc EXCEPT ![Coordinator] = [SetRun(@, "planning") EXCEPT !.pc = "planning"]]
  /\ UNCHANGED <<run, task, approval, cancel, acted>>

(* The plan passes the safety review; its tasks are persisted, and the plan   *)
(* checkpoint refreshes the run and the tasks.                                *)
AcceptPlan ==
  LET w == [SetRun(proc[Coordinator], "running") EXCEPT
              !.task = [t \in Tasks |-> [NoTask EXCEPT !.status = "pending"]], !.wrote = Tasks]
  IN  /\ proc[Coordinator].pc = "planning"
      /\ Commit(w)
      /\ proc' = [proc EXCEPT ![Coordinator] =
                    [w EXCEPT !.pc = "between", !.wroteRun = FALSE, !.wrote = {}]]
      /\ UNCHANGED <<cancel, acted>>

(* Mutant: the tasks are cancelled, the run is left as it is. *)
FailTasksOnly(w, status) ==
  [w EXCEPT !.task = CancelQueued(@), !.pc = "returning", !.cur = 0,
            !.wrote = @ \cup {t \in Tasks : w.task[t].status \in OpenTask}]

(* _fail_run: cancel what is left, snapshot the budget, flush *)
FailRun(w, status) ==
  LET x == SetRun([w EXCEPT !.run.steps = w.steps], status)
  IN  [x EXCEPT !.task = CancelQueued(@), !.pc = "returning", !.cur = 0,
                !.wrote = @ \cup {t \in Tasks : w.task[t].status \in OpenTask}]

(* An error ends p's work. An approval request rolls everything back, and so  *)
(* does the end of the chat turn when the loaded run is already terminal.     *)
StopsRun(p, w, status) ==
  IF p = Coordinator /\ w.run.status \notin TerminalRun
  THEN proc' = [proc EXCEPT ![p] = FailRun(w, status)]
  ELSE Abandon(p, "done")

(* The plan is invalid, or the safety review blocks it. *)
RefusePlan ==
  /\ proc[Coordinator].pc = "planning"
  /\ StopsRun(Coordinator, proc[Coordinator], "failed")
  /\ UNCHANGED <<run, task, approval, cancel, acted>>

(* except Exception: roll back, load the durable run, record the failure. A   *)
(* durable run that is terminal refuses the transition, and nothing is kept.  *)
UnexpectedFailure ==
  /\ proc[Coordinator].pc \in {"started", "planning", "between", "running", "asking"}
  /\ ~CancelLocked
  /\ StopsRun(Coordinator, [proc[Coordinator] EXCEPT !.run = run, !.task = task,
                              !.wroteRun = FALSE, !.wrote = {}], "failed")
  /\ UNCHANGED <<run, task, approval, cancel, acted>>

----------------------------------------------------------------------------
(* The loop over the tasks, in the coordinator and after an approval.         *)
Waiting(p) == {t \in Tasks : proc[p].task[t].status = "pending"}
NextTask(p) == Min(Waiting(p))

(* Mutant: only a failed dependency stops a task. *)
NoDependencyFailed(w, t) == \A d \in Deps[t] : w.task[d].status # "failed"

DependenciesSucceeded(w, t) == \A d \in Deps[t] : w.task[d].status = "succeeded"

SkipTask(p) ==
  /\ proc[p].pc = "between" /\ Waiting(p) # {}
  /\ MayWrite(p)
  /\ ~DependenciesSucceeded(proc[p], NextTask(p))
  /\ proc' = [proc EXCEPT ![p] = SetTask(@, NextTask(p), "skipped")]
  /\ UNCHANGED <<run, task, approval, cancel, acted>>

ReadyTask(p) ==
  /\ proc[p].pc = "between" /\ Waiting(p) # {}
  /\ MayWrite(p)
  /\ DependenciesSucceeded(proc[p], NextTask(p))
  /\ proc' = [proc EXCEPT ![p] =
       [SetTask(@, NextTask(p), "ready") EXCEPT !.pc = "ready", !.cur = NextTask(p)]]
  /\ UNCHANGED <<run, task, approval, cancel, acted>>

RequireStep(p) == proc[p].steps < MaxSteps

(* consume_step, then the task is handed to its agent *)
BeginAttempt(p) ==
  LET w == proc[p]
      x == SetTask(w, w.cur, "running")
  IN  /\ w.pc = "ready"
      /\ RequireStep(p)
      /\ proc' = [proc EXCEPT ![p] = [x EXCEPT
                    !.task[w.cur].started = TRUE, !.steps = w.steps + 1, !.pc = "running"]]
      /\ UNCHANGED <<run, task, approval, cancel, acted>>

(* A budget is exhausted before the attempt (steps) or by it (LLM and tool    *)
(* calls, context), or the run's time is over: the error leaves the loop.     *)
StepsExhausted(p) ==
  /\ proc[p].pc = "ready"
  /\ ~RequireStep(p)
  /\ StopsRun(p, proc[p], "failed")
  /\ UNCHANGED <<run, task, approval, cancel, acted>>

CallsExhausted(p) ==
  /\ proc[p].pc = "running"
  /\ StopsRun(p, SetTask(proc[p], proc[p].cur, "failed"), "failed")
  /\ UNCHANGED <<run, task, approval, cancel, acted>>

RunTimesOut(p) ==
  /\ \/ proc[p].pc = "ready"
     \/ p = Coordinator /\ proc[p].pc = "between" /\ Waiting(p) # {}
  /\ MayWrite(p)
  /\ StopsRun(p, proc[p], "timed_out")
  /\ UNCHANGED <<run, task, approval, cancel, acted>>

(* The attempt of the current task ends with status. *)
Settle(p, status, asks) ==
  proc' = [proc EXCEPT ![p] = [SetTask(@, @.cur, status) EXCEPT !.pc = "settled", !.asks = asks]]

Retry(p) ==
  LET w == proc[p]
      x == SetTask(w, w.cur, "ready")
  IN  /\ w.task[w.cur].retries < MaxRetries
      /\ proc' = [proc EXCEPT ![p] = [x EXCEPT
                    !.task[w.cur].retries = w.task[w.cur].retries + 1, !.pc = "ready"]]

RetryOr(p, status) ==
  \/ Retry(p)
  \/ Settle(p, status, FALSE)

AttemptTimesOut(p) ==
  /\ proc[p].pc = "running"
  /\ IF proc[p].cur \in Synthesizers
     THEN Settle(p, "succeeded", FALSE)
     ELSE RetryOr(p, "timed_out")
  /\ UNCHANGED <<run, task, approval, cancel, acted>>

AttemptRaises(p) ==
  /\ proc[p].pc = "running"
  /\ IF proc[p].cur \in Synthesizers
     THEN Settle(p, "succeeded", FALSE)
     ELSE RetryOr(p, "failed")
  /\ UNCHANGED <<run, task, approval, cancel, acted>>

(* The task stays running when it asks for an approval. *)
AttemptReturns(p) ==
  /\ proc[p].pc = "running"
  /\ \/ Settle(p, "succeeded", FALSE)
     \/ proc[p].cur \in Askers /\ Settle(p, "running", TRUE)
  /\ UNCHANGED <<run, task, approval, cancel, acted>>

AttemptFails(p) ==
  /\ proc[p].pc = "running"
  /\ RetryOr(p, "failed")
  /\ UNCHANGED <<run, task, approval, cancel, acted>>

----------------------------------------------------------------------------
(* The checkpoint between two tasks refreshes the run and the current task.   *)
Checkpoint ==
  LET w == proc[Coordinator]
  IN  /\ w.pc = "settled"
      /\ Commit(w)
      /\ proc' = [proc EXCEPT ![Coordinator] = [w EXCEPT
            !.run = run', !.task[w.cur] = task'[w.cur], !.wroteRun = FALSE, !.wrote = {},
            !.pc = IF w.asks THEN "asking" ELSE "between"]]
      /\ UNCHANGED <<cancel, acted>>

(* A resumed run goes on in the same transaction; a second approval fails it. *)
ContinueResumed(r) ==
  /\ proc[r].pc = "settled"
  /\ IF proc[r].asks
     THEN Abandon(r, "done")
     ELSE proc' = [proc EXCEPT ![r].pc = "between"]
  /\ UNCHANGED <<run, task, approval, cancel, acted>>

(* create_approval, and the durable pause *)
AskForApproval ==
  LET w == proc[Coordinator]
  IN  /\ w.pc = "asking"
      /\ ~CancelLocked
      /\ IF w.run.status \in TerminalRun
         THEN Abandon(Coordinator, "done")
         ELSE proc' = [proc EXCEPT ![Coordinator] =
                [SetRun(SetTask(w, w.cur, "awaiting_approval"), "awaiting_approval") EXCEPT
                   !.approval = "pending", !.run.steps = w.steps, !.pc = "returning"]]
      /\ UNCHANGED <<run, task, approval, cancel, acted>>

(* All tasks are done. Without an answer of the conversation agent the        *)
(* coordinator writes one itself, which takes a step.                         *)
Answered(w) == \E t \in Synthesizers : w.task[t].status = "succeeded"

CompleteRun(p) ==
  LET synthesizes == p = Coordinator /\ ~Answered(proc[p])
      steps == IF synthesizes THEN proc[p].steps + 1 ELSE proc[p].steps
  IN  /\ proc[p].pc = "between" /\ Waiting(p) = {}
      /\ MayWrite(p)
      /\ IF steps > MaxSteps \/ proc[p].run.status \in TerminalRun
         THEN StopsRun(p, proc[p], "failed")
         ELSE proc' = [proc EXCEPT ![p] = [SetRun(@, "completed") EXCEPT
                !.run.steps = steps, !.run.synthesized = synthesizes,
                !.pc = "returning", !.cur = 0]]
      /\ UNCHANGED <<run, task, approval, cancel, acted>>

(* The commit of the chat turn, or of the approval request. *)
CommitResult(p) ==
  LET w == proc[p]
  IN  /\ w.pc = "returning"
      /\ Commit(w)
      /\ proc' = [proc EXCEPT ![p] = [IdleProc EXCEPT !.pc = "done"]]
      /\ acted' = IF p # Coordinator /\ w.approval = "approved" THEN acted + 1 ELSE acted
      /\ UNCHANGED cancel

(* The client disconnects or the process dies: the transaction is undone and  *)
(* nobody works on the run any more.                                          *)
Lose(p) ==
  /\ proc[p].pc \notin {"idle", "done", "gone"}
  /\ Abandon(p, "gone")
  /\ UNCHANGED <<run, task, approval, cancel, acted>>

(* recover_stale_runs, at the start of an API process: the run row has not    *)
(* been touched for agent_stale_run_after_seconds, longer than any run lasts. *)
RecoverStaleRun ==
  /\ proc[Coordinator].pc \in {"done", "gone"}
  /\ run.status \in ActiveRun
  /\ ~CancelLocked
  /\ \A p \in Procs : ~Writing(p)
  /\ task' = CancelQueued(task)
  /\ run' = [run EXCEPT !.status = "failed"]
  /\ UNCHANGED <<approval, proc, cancel, acted>>

----------------------------------------------------------------------------
(* cancel_run: the run is loaded without a lock and the coordinator of this   *)
(* process is interrupted; a coordinator that has returned is not.            *)
RequestCancel(c) ==
  /\ cancel[c].pc = "idle"
  /\ run.status # "none"
  /\ cancel' = [cancel EXCEPT ![c] = [pc |-> "waiting", seen |-> run.status]]
  /\ IF c \in Remote \/ proc[Coordinator].pc \in {"returning", "done", "gone"}
     THEN UNCHANGED proc
     ELSE Abandon(Coordinator, "gone")
  /\ UNCHANGED <<run, task, approval, acted>>

(* SELECT ... FOR UPDATE waits for the lock, but the loaded status stays. *)
LockForCancel(c) ==
  /\ cancel[c].pc = "waiting"
  /\ ~CancelLocked
  /\ \A p \in Procs : ~Writing(p)
  /\ cancel' = [cancel EXCEPT
       ![c].pc = IF cancel[c].seen \in TerminalRun THEN "done" ELSE "locked"]
  /\ UNCHANGED <<run, task, approval, proc, acted>>

CancelRun(c) ==
  /\ cancel[c].pc = "locked"
  /\ approval = "pending" => ~ApprovalLocked
  /\ task' = CancelQueued(task)
  /\ run' = [run EXCEPT !.status = "cancelled"]
  /\ approval' = IF approval = "pending" THEN "cancelled" ELSE approval
  /\ cancel' = [cancel EXCEPT ![c].pc = IF Busy(proc[Coordinator]) THEN "overruled" ELSE "done"]
  /\ UNCHANGED <<proc, acted>>

(* Mutant: the resumed run starts with a fresh budget. *)
FreshSteps == 0

(* RunBudget(steps_used=run.steps_used) *)
StepsUsedSoFar == run.steps

(* resolve_approval: the approval is locked, the run is loaded. A terminal    *)
(* run or a resolved approval is left as it is.                               *)
LockApproval(r) ==
  /\ proc[r].pc = "idle"
  /\ approval # "none"
  /\ ~ApprovalLocked
  /\ IF run.status \in TerminalRun \/ approval # "pending"
     THEN Abandon(r, "done")
     ELSE proc' = [proc EXCEPT ![r] = [IdleProc EXCEPT
            !.pc = "locked", !.run = run, !.task = task, !.steps = StepsUsedSoFar]]
  /\ UNCHANGED <<run, task, approval, cancel, acted>>

Asking(w) == {t \in Tasks : w.task[t].status = "awaiting_approval"}

Resolved(w, answer, outcome, status) ==
  LET T == Asking(w)
  IN  [SetRun(w, status) EXCEPT
         !.approval = answer, !.wrote = T,
         !.task = [t \in Tasks |-> IF t \in T THEN [w.task[t] EXCEPT !.status = outcome] ELSE w.task[t]]]

(* The approved action is applied and the run is resumed. *)
Approve(r) ==
  /\ proc[r].pc = "locked"
  /\ ~CancelLocked
  /\ proc' = [proc EXCEPT ![r] = [Resolved(@, "approved", "succeeded", "running") EXCEPT
                                     !.pc = "between"]]
  /\ UNCHANGED <<run, task, approval, cancel, acted>>

(* The action fails: everything is rolled back. *)
ApprovedActionFails(r) ==
  /\ proc[r].pc = "locked"
  /\ Abandon(r, "done")
  /\ UNCHANGED <<run, task, approval, cancel, acted>>

(* The tasks that have not started are skipped and the run completes. *)
Reject(r) ==
  LET w == Resolved(proc[r], "rejected", "skipped", "completed")
      S == {t \in Tasks : w.task[t].status \in {"pending", "ready"}}
  IN  /\ proc[r].pc = "locked"
      /\ ~CancelLocked
      /\ proc' = [proc EXCEPT ![r] = [w EXCEPT
           !.pc = "returning", !.wrote = @ \cup S,
           !.task = [t \in Tasks |-> IF t \in S THEN [w.task[t] EXCEPT !.status = "skipped"]
                                                 ELSE w.task[t]]]]
      /\ UNCHANGED <<run, task, approval, cancel, acted>>

(* The cancellation holds the run and needs the approval, the resolution      *)
(* holds the approval and needs the run: PostgreSQL ends one of them.         *)
DeadlockVictim ==
  \E c \in Cancels, r \in Resolvers :
    /\ cancel[c].pc = "locked" /\ approval = "pending" /\ proc[r].pc = "locked"
    /\ \/ cancel' = [cancel EXCEPT ![c].pc = "done"] /\ UNCHANGED proc
       \/ Abandon(r, "done") /\ UNCHANGED cancel
    /\ UNCHANGED <<run, task, approval, acted>>

----------------------------------------------------------------------------
RunsTasks(p) ==
  \/ SkipTask(p) \/ ReadyTask(p) \/ BeginAttempt(p)
  \/ StepsExhausted(p) \/ CallsExhausted(p) \/ RunTimesOut(p)
  \/ AttemptTimesOut(p) \/ AttemptRaises(p) \/ AttemptReturns(p) \/ AttemptFails(p)
  \/ CompleteRun(p) \/ CommitResult(p)

CoordinatorStep ==
  \/ StartRun \/ BeginPlanning \/ AcceptPlan \/ RefusePlan
  \/ RunsTasks(Coordinator) \/ Checkpoint \/ AskForApproval

ResolverStep(r) ==
  \/ Approve(r) \/ ApprovedActionFails(r) \/ Reject(r)
  \/ RunsTasks(r) \/ ContinueResumed(r)

CancelStep(c) == LockForCancel(c) \/ CancelRun(c)

Next ==
  \/ CoordinatorStep
  \/ UnexpectedFailure
  \/ \E p \in Procs : Lose(p)
  \/ RecoverStaleRun
  \/ \E c \in Cancels : RequestCancel(c) \/ CancelStep(c)
  \/ \E r \in Resolvers : LockApproval(r) \/ ResolverStep(r)
  \/ DeadlockVictim

Spec == Init /\ [][Next]_vars

(* A started turn, a started request and PostgreSQL's deadlock detection go   *)
(* on; nobody has to disconnect, crash, restart a process, cancel or answer.  *)
FairSpec ==
  /\ Spec
  /\ WF_vars(CoordinatorStep)
  /\ WF_vars(DeadlockVictim)
  /\ \A c \in Cancels : WF_vars(CancelStep(c))
  /\ \A r \in Resolvers : WF_vars(ResolverStep(r))

----------------------------------------------------------------------------
TypeOK ==
  /\ run \in Run
  /\ task \in [Tasks -> Task]
  /\ approval \in ApprovalStatus
  /\ proc \in [Procs -> Proc]
  /\ cancel \in [Cancels -> CancelRequest]
  /\ acted \in Nat

(* The rows as RunLifecycle sees them *)
RunPhase ==
  CASE run.status = "none" -> "none"
    [] run.status \in ActiveRun -> "open"
    [] run.status = "awaiting_approval" -> "waiting"
    [] OTHER -> "closed"

TaskStage ==
  [t \in Tasks |-> CASE task[t].status = "none" -> "absent"
                     [] task[t].status \in OpenTask -> "unfinished"
                     [] OTHER -> "finished"]

ApprovalGate ==
  CASE approval = "approved" -> "granted"
    [] approval = "rejected" -> "refused"
    [] approval = "cancelled" -> "withdrawn"
    [] OTHER -> approval

Lifecycle == INSTANCE RunLifecycle WITH
  phase <- RunPhase, stage <- TaskStage, gate <- ApprovalGate

(* A cancellation served by another process than the coordinator's has been   *)
(* committed while the coordinator was at work, and does not stop it.         *)
Overruled == \E c \in Cancels : cancel[c].pc = "overruled"

(* Whatever the coordinator, the cancellations, the answers to the approval   *)
(* and the recovery do to the rows of a run and in which order, the run keeps *)
(* the promises of RunLifecycle, until a cancellation is overruled.           *)
KeepsLifecycle == Lifecycle!Init /\ [][Lifecycle!Next \/ Overruled']_Lifecycle!vars

(* A task is handed to its agent only when every task it depends on has       *)
(* succeeded: not after one that failed, was skipped, was refused by the user *)
(* or still waits for the user's answer, before or after a resumption.        *)
DependentsWait ==
  /\ TypeOK
  /\ \A t \in Tasks : task[t].started => \A d \in Deps[t] : task[d].status = "succeeded"

(* Every attempt of every task, as the task rows T record them: the first one *)
(* of a started task has number 0, its retries have the numbers 1, 2, ...     *)
AttemptsIn(T) ==
  Cardinality({e \in Tasks \X (0..MaxRetries) : T[e[1]].started /\ e[2] <= T[e[1]].retries})

(* The steps recorded in a completed run account for every attempt of every   *)
(* task, those before and those after its approval, and for the answer the    *)
(* coordinator wrote itself; so the step limit holds across the resumption.   *)
StepsAccountForAttempts ==
  run.status = "completed" => run.steps = AttemptsIn(task) + IF run.synthesized THEN 1 ELSE 0

(* A started run is finished or paused for its owner, unless the turn that    *)
(* works on it is lost; every cancellation and every answer to an approval    *)
(* gets its response, even when the two wait for each other's rows.           *)
RunSettles ==
  /\ run.status \in ActiveRun ~>
       (run.status \in TerminalRun \cup {"awaiting_approval"} \/ proc[Coordinator].pc = "gone")
  /\ \A c \in Cancels : cancel[c].pc = "waiting" ~> cancel[c].pc \in {"done", "overruled"}
  /\ \A r \in Resolvers : proc[r].pc = "locked" ~> proc[r].pc \in {"done", "gone"}
----------------------------------------------------------------------------
(* The inductive invariant behind KeepsLifecycle and DependentsWait. What     *)
(* an overruled cancellation takes from it is named where it does.            *)
OpenIn(T, S) == \A t \in Tasks : T[t].status \in OpenTask => T[t].status \in S
Persisted(T) == \A t \in Tasks : T[t].status # "none"
Unplanned(T) == T = [t \in Tasks |-> NoTask]
DependentsWaitIn(T) ==
  \A t \in Tasks : T[t].started => \A d \in Deps[t] : T[d].status = "succeeded"

(* The rows agree with each other. *)
RowsInv ==
  /\ run.status = "none" => Unplanned(task)
  /\ run.status \in {"none"} \cup ActiveRun => approval = "none"
  /\ run.status = "awaiting_approval" <=> approval = "pending"
  /\ run.status = "awaiting_approval" =>
       Persisted(task) /\ OpenIn(task, {"pending", "awaiting_approval"})
  /\ run.status \in TerminalRun => OpenIn(task, {}) \/ Overruled
  /\ DependentsWaitIn(task)

(* Who works on the run, and who waits: never two at a time. *)
TurnsInv ==
  /\ proc[Coordinator].pc = "idle" <=> run.status = "none"
  /\ Busy(proc[Coordinator]) => run.status \in ActiveRun \/ (Overruled /\ run.status = "cancelled")
  /\ Busy(proc[Coordinator]) => approval = "none"
  /\ approval = "none" => \A r \in Resolvers : proc[r].pc = "idle"
  /\ \A r \in Resolvers : Busy(proc[r]) => approval = "pending"
  /\ \A q, r \in Resolvers : Busy(proc[q]) /\ Busy(proc[r]) => q = r
  /\ \A c \in Cancels : cancel[c].pc # "idle" => run.status # "none"
  /\ \A c \in Cancels \ Remote : /\ cancel[c].pc # "idle" => proc[Coordinator].pc \in {"returning", "done", "gone"}
                                /\ cancel[c].pc # "overruled"
  /\ CancelLocked => \A p \in Procs : ~Writing(p)

(* What a process has loaded and changed, against the rows: nobody else has   *)
(* changed them but for cancelling an open task, and a task that finished in  *)
(* another way stays as it is.                                                *)
Cancelled(x) == [x EXCEPT !.status = "cancelled"]

LoadedInv(w) ==
  /\ ~w.wroteRun => w.run = run \/ Overruled
  /\ \A t \in Tasks : t \notin w.wrote =>
       \/ w.task[t] = task[t]
       \/ Overruled /\ w.task[t].status \in OpenTask /\ task[t] = Cancelled(w.task[t])
  /\ \A t \in Tasks :
       /\ task[t].status \in TerminalTask =>
            w.task[t].status = task[t].status \/ (Overruled /\ task[t].status = "cancelled")
       /\ task[t].status # "none" => w.task[t].status # "none"
  /\ DependentsWaitIn(w.task)

(* What is open fits where the process is in its loop. *)
AtTasks(w) ==
  /\ w.run.status = "running" \/ Overruled
  /\ Persisted(w.task)
  /\ w.pc = "between" => OpenIn(w.task, {"pending"})
  /\ w.pc # "between" =>
        /\ w.cur \in Tasks
        /\ \A t \in Tasks \ {w.cur} : w.task[t].status \in OpenTask => w.task[t].status = "pending"
  /\ w.pc \in {"ready", "running", "settled"} => w.cur \in w.wrote
  /\ w.pc \in {"ready", "running"} => w.task[w.cur].status = w.pc /\ DependenciesSucceeded(w, w.cur)
  /\ w.pc = "settled" => IF w.asks THEN w.task[w.cur].status = "running"
                                   ELSE w.task[w.cur].status \in TerminalTask
  /\ w.pc = "asking" => w.task[w.cur].status = "running"

CoordinatorInv(w) ==
  /\ w.pc # "locked"
  /\ w.pc = "idle" => w = IdleProc
  /\ w.pc \in {"started", "planning"} =>
       w.wrote = {} /\ Unplanned(w.task) /\ w.run.status \in ActiveRun
  /\ w.pc = "planning" => w.wroteRun
  /\ w.pc \in {"between", "ready", "running", "settled", "asking"} => AtTasks(w) /\ ~w.wroteRun
  /\ Busy(w) /\ w.pc # "returning" => w.approval = "none"
  /\ w.pc = "returning" =>
       /\ w.wroteRun
       /\ \/ w.run.status \in TerminalRun /\ w.approval = "none" /\ OpenIn(w.task, {})
          \/ /\ w.run.status = "awaiting_approval" /\ w.approval = "pending"
             /\ Persisted(w.task) /\ OpenIn(w.task, {"pending", "awaiting_approval"})

ResolverInv(w) ==
  /\ w.pc \notin {"started", "planning", "asking"}
  /\ w.pc = "locked" => w.task = task /\ w.wrote = {}
  /\ w.pc \in {"between", "ready", "running", "settled"} =>
       AtTasks(w) /\ w.wroteRun /\ w.approval = "approved"
  /\ w.pc = "returning" => /\ w.wroteRun /\ w.run.status = "completed"
                           /\ w.approval \in {"approved", "rejected"} /\ OpenIn(w.task, {})

(* With TypeOK, inductive (AgentRunsProofs). *)
RunInv ==
  /\ RowsInv
  /\ TurnsInv
  /\ \A p \in Procs : Busy(proc[p]) => LoadedInv(proc[p])
  /\ CoordinatorInv(proc[Coordinator])
  /\ \A r \in Resolvers : ResolverInv(proc[r])

(* The inductive invariant behind StepsAccountForAttempts, next to RunInv:    *)
(* the steps a process has consumed are the attempts its loaded tasks show,   *)
(* one fewer while a retry waits for its step.                                *)
RetriesFollowStarts(T) ==
  \A t \in Tasks : /\ T[t].status = "pending" => ~T[t].started
                   /\ ~T[t].started => T[t].retries = 0
Accounted(T, r) == r.steps = AttemptsIn(T) + IF r.synthesized THEN 1 ELSE 0

StepsFit(w) ==
  /\ RetriesFollowStarts(w.task)
  /\ w.run.status \notin TerminalRun => ~w.run.synthesized
  /\ w.pc \in {"started", "planning"} => w.steps = 0
  /\ w.pc \in {"locked", "between", "running", "settled", "asking"} => w.steps = AttemptsIn(w.task)
  /\ w.pc = "locked" => w.run.status = "awaiting_approval" /\ w.run.steps = w.steps
  /\ w.pc = "running" => w.task[w.cur].started
  /\ w.pc = "ready" =>
       AttemptsIn(w.task) = w.steps + IF w.task[w.cur].started THEN 1 ELSE 0
  /\ w.pc = "returning" /\ w.run.status \in {"completed", "awaiting_approval"} =>
       Accounted(w.task, w.run)

RowsAccounted ==
  /\ RetriesFollowStarts(task)
  /\ run.status \notin TerminalRun => ~run.synthesized
  /\ run.status \in {"completed", "awaiting_approval"} => Accounted(task, run)

StepsInv == RowsAccounted /\ \A p \in Procs : StepsFit(proc[p])
=============================================================================
