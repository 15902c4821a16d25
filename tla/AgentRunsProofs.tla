-------------------------- MODULE AgentRunsProofs --------------------------
(* Proofs about AgentRuns: the inductive invariant RunInv, and from it that a *)
(* task waits for its dependencies (DependentsWait) and that the rows keep    *)
(* the promises of RunLifecycle (KeepsLifecycle); next to it StepsInv, from   *)
(* which a completed run has counted its steps (StepsAccountForAttempts). All *)
(* of it for every plan, every number of answers and of cancellations, in     *)
(* whichever process they are served, and every limit. What a cancellation    *)
(* that its coordinator overrules leaves of it is said by Overruled.          *)
EXTENDS AgentRuns, TLAPS, WellFoundedInduction, FiniteSetTheorems

IInv == TypeOK /\ RunInv

----------------------------------------------------------------------------
(* Records: what the loaded objects are after a write.                        *)

LEMMA ProcFields ==
  ASSUME NEW w \in Proc
  PROVE  /\ w.run \in Run /\ w.task \in [Tasks -> Task] /\ w.approval \in ApprovalStatus
         /\ w.wroteRun \in BOOLEAN /\ w.wrote \subseteq Tasks
         /\ w.cur \in Tasks \cup {0} /\ w.asks \in BOOLEAN /\ w.steps \in 0..MaxSteps
  BY DEF Proc

LEMMA RunFields ==
  ASSUME NEW x \in Run
  PROVE  x.status \in RunStatus /\ x.steps \in 0..MaxSteps /\ x.synthesized \in BOOLEAN
  BY DEF Run

LEMMA TaskFields ==
  ASSUME NEW x \in Task
  PROVE  x.status \in TaskStatus /\ x.started \in BOOLEAN /\ x.retries \in 0..MaxRetries
  BY DEF Task

LEMMA Idle ==
  ASSUME NEW pc \in {"idle", "done", "gone"}
  PROVE  /\ IdleProc \in Proc
         /\ [IdleProc EXCEPT !.pc = pc] \in Proc
         /\ [IdleProc EXCEPT !.pc = pc].pc = pc
         /\ [IdleProc EXCEPT !.pc = pc].wroteRun = FALSE
         /\ [IdleProc EXCEPT !.pc = pc].wrote = {}
<1>1. NoTask \in Task /\ NoRun \in Run
  BY AgentConstants DEF NoTask, NoRun, Task, Run, TaskStatus, RunStatus
<1>2. [t \in Tasks |-> NoTask] \in [Tasks -> Task]
  BY <1>1
<1>3. 0 \in 0..MaxSteps
  BY AgentConstants
<1>4. IdleProc \in Proc
  BY <1>1, <1>2, <1>3 DEF IdleProc, Proc, ApprovalStatus
<1> QED BY <1>4 DEF Proc, IdleProc

(* transition_run on a loaded run *)
LEMMA RunWritten ==
  ASSUME NEW w \in Proc, NEW s \in RunStatus
  PROVE  LET v == SetRun(w, s)
         IN  /\ v \in Proc
             /\ v.run = [w.run EXCEPT !.status = s] /\ v.run.status = s /\ v.wroteRun = TRUE
             /\ v.pc = w.pc /\ v.task = w.task /\ v.approval = w.approval /\ v.wrote = w.wrote
             /\ v.cur = w.cur /\ v.asks = w.asks /\ v.steps = w.steps
<1>1. [w.run EXCEPT !.status = s] \in Run /\ [w.run EXCEPT !.status = s].status = s
  BY ProcFields DEF Run
<1> DEFINE x == [w.run EXCEPT !.status = s]
<1>2. SetRun(w, s) = [[w EXCEPT !.run = x] EXCEPT !.wroteRun = TRUE]
  BY DEF SetRun, Proc
<1> HIDE DEF x
<1>3. x \in Run /\ x.status = s
  BY <1>1 DEF x
<1>4. SetRun(w, s) \in Proc /\ SetRun(w, s).run = x /\ SetRun(w, s).wroteRun = TRUE
  BY <1>2, <1>3 DEF Proc
<1>5. LET v == SetRun(w, s)
      IN  /\ v.pc = w.pc /\ v.task = w.task /\ v.approval = w.approval /\ v.wrote = w.wrote
          /\ v.cur = w.cur /\ v.asks = w.asks /\ v.steps = w.steps
  BY <1>2 DEF Proc
<1> QED BY <1>3, <1>4, <1>5 DEF x

(* transition_task on a loaded task *)
LEMMA TaskWritten ==
  ASSUME NEW w \in Proc, NEW t \in Tasks, NEW s \in TaskStatus
  PROVE  LET v == SetTask(w, t, s)
         IN  /\ v \in Proc
             /\ v.task = [w.task EXCEPT ![t].status = s] /\ v.wrote = w.wrote \cup {t}
             /\ v.pc = w.pc /\ v.run = w.run /\ v.approval = w.approval
             /\ v.wroteRun = w.wroteRun
             /\ v.cur = w.cur /\ v.asks = w.asks /\ v.steps = w.steps
<1> DEFINE x == [w.task EXCEPT ![t].status = s]
           y == w.wrote \cup {t}
<1>1. x \in [Tasks -> Task] /\ y \in SUBSET Tasks
  BY ProcFields DEF Task
<1>2. SetTask(w, t, s) = [[w EXCEPT !.task = x] EXCEPT !.wrote = y]
  BY DEF SetTask, Proc
<1> HIDE DEF x, y
<1>3. SetTask(w, t, s) \in Proc /\ SetTask(w, t, s).task = x /\ SetTask(w, t, s).wrote = y
  BY <1>1, <1>2 DEF Proc
<1>4. LET v == SetTask(w, t, s)
      IN  /\ v.pc = w.pc /\ v.run = w.run /\ v.approval = w.approval
          /\ v.wroteRun = w.wroteRun
          /\ v.cur = w.cur /\ v.asks = w.asks /\ v.steps = w.steps
  BY <1>2 DEF Proc
<1> QED BY <1>3, <1>4 DEF x, y

(* cancel_queued_tasks leaves nothing open, and what is closed alone. *)
LEMMA QueuedCancelled ==
  ASSUME NEW T \in [Tasks -> Task]
  PROVE  /\ CancelQueued(T) \in [Tasks -> Task]
         /\ OpenIn(CancelQueued(T), {})
         /\ \A t \in Tasks :
              /\ T[t].status \notin OpenTask => CancelQueued(T)[t] = T[t]
              /\ T[t].status \in OpenTask => CancelQueued(T)[t].status = "cancelled"
              /\ CancelQueued(T)[t].started = T[t].started
         /\ DependentsWaitIn(T) => DependentsWaitIn(CancelQueued(T))
<1> DEFINE U == CancelQueued(T)
<1>1. \A t \in Tasks :
         /\ U[t] \in Task
         /\ T[t].status \notin OpenTask => U[t] = T[t]
         /\ T[t].status \in OpenTask => U[t].status = "cancelled"
         /\ U[t].started = T[t].started
  <2> TAKE t \in Tasks
  <2> DEFINE x == T[t]
  <2>1. x \in Task
    OBVIOUS
  <2>2. U[t] = IF x.status \in OpenTask THEN [x EXCEPT !.status = "cancelled"] ELSE x
    BY DEF CancelQueued
  <2> HIDE DEF x, U
  <2>3. U[t] \in Task /\ (x.status \notin OpenTask => U[t] = x)
        /\ (x.status \in OpenTask => U[t].status = "cancelled") /\ U[t].started = x.started
    BY <2>1, <2>2 DEF Task, TaskStatus, TerminalTask
  <2> QED BY <2>3 DEF x
<1>2. U \in [Tasks -> Task]
  BY <1>1 DEF CancelQueued
<1>3. OpenIn(U, {})
  BY <1>1 DEF OpenIn, OpenTask
<1>4. ASSUME DependentsWaitIn(T) PROVE DependentsWaitIn(U)
  BY <1>1, <1>4, AgentConstants DEF DependentsWaitIn, OpenTask
<1> QED BY <1>1, <1>2, <1>3, <1>4

----------------------------------------------------------------------------
(* What a step of one process must show to preserve the invariant.            *)

(* A write to an unfinished task keeps the loaded tasks in step with the rows. *)
LEMMA TaskMoved ==
  ASSUME NEW w \in Proc, NEW v \in Proc, NEW t \in Tasks, NEW x \in Task,
         LoadedInv(w), w.task[t].status \in OpenTask, x.status # "none",
         x.started => w.task[t].started \/ DependenciesSucceeded(w, t),
         v.task = [w.task EXCEPT ![t] = x], t \in v.wrote, w.wrote \subseteq v.wrote,
         v.run = w.run, v.wroteRun = w.wroteRun
  PROVE  LoadedInv(v)
<1>1. w.task \in [Tasks -> Task]
  BY ProcFields
<1>2. v.task[t] = x /\ \A u \in Tasks \ {t} : v.task[u] = w.task[u]
  BY <1>1
<1>3. \A u \in Tasks : u \notin v.wrote =>
        \/ v.task[u] = task[u]
        \/ Overruled /\ v.task[u].status \in OpenTask /\ task[u] = Cancelled(v.task[u])
  BY <1>2 DEF LoadedInv
<1>4. \A u \in Tasks :
        /\ task[u].status \in TerminalTask =>
             v.task[u].status = task[u].status \/ (Overruled /\ task[u].status = "cancelled")
        /\ task[u].status # "none" => v.task[u].status # "none"
  BY <1>2 DEF LoadedInv, OpenTask, TerminalTask
<1>5. \A u \in Tasks : v.task[u].started => \A d \in Deps[u] : w.task[d].status = "succeeded"
  BY <1>2 DEF LoadedInv, DependentsWaitIn, DependenciesSucceeded
<1>6. DependentsWaitIn(v.task)
  <2> SUFFICES ASSUME NEW u \in Tasks, v.task[u].started, NEW d \in Deps[u]
               PROVE  v.task[d].status = "succeeded"
    BY DEF DependentsWaitIn
  <2>1. d \in Tasks /\ w.task[d].status = "succeeded"
    BY <1>5, AgentConstants
  <2>2. d # t
    BY <2>1 DEF OpenTask
  <2> QED BY <2>1, <2>2, <1>2
<1> QED BY <1>3, <1>4, <1>6 DEF LoadedInv

(* A process whose transaction has written may go on writing: a cancellation  *)
(* that holds the run row has waited for its end.                             *)
LEMMA LoopMayWrite ==
  ASSUME IInv, NEW p \in Procs, Busy(proc[p]), proc[p].pc \notin {"locked", "returning"},
         p = Coordinator => proc[p].pc \in {"planning", "ready", "running", "settled"}
  PROVE  MayWrite(p)
<1>1. CASE p = Coordinator
  <2>1. proc[p].wroteRun \/ proc[p].cur \in proc[p].wrote
    BY <1>1 DEF IInv, RunInv, CoordinatorInv, AtTasks
  <2> QED BY <2>1 DEF MayWrite, Writing
<1>2. CASE p \in Resolvers
  <2>1. proc[p].wroteRun
    BY <1>2 DEF IInv, RunInv, ResolverInv, TypeOK, Proc, Busy
  <2> QED BY <2>1 DEF MayWrite, Writing
<1> QED BY <1>1, <1>2 DEF Procs

(* A step on loaded objects alone. *)
LEMMA LocalStep ==
  ASSUME IInv, NEW p \in Procs, NEW v \in Proc,
         Busy(proc[p]), Busy(v), proc[p].pc # "returning",
         MayWrite(p) \/ ~(v.wroteRun \/ v.wrote # {}),
         proc' = [proc EXCEPT ![p] = v], UNCHANGED <<run, task, approval, cancel>>,
         acted' \in Nat,
         LoadedInv(v),
         p = Coordinator => CoordinatorInv(v),
         p \in Resolvers => ResolverInv(v)
  PROVE  IInv'
<1>1. Overruled' <=> Overruled
  BY DEF Overruled
<1>2. proc \in [Procs -> Proc] /\ Coordinator \in Procs /\ Resolvers \subseteq Procs
      /\ Coordinator \notin Resolvers
  BY AgentConstants DEF IInv, TypeOK, Procs
<1>3. proc'[p] = v /\ \A q \in Procs \ {p} : proc'[q] = proc[q]
  BY <1>2
<1>4. TypeOK'
  BY <1>2 DEF IInv, TypeOK
<1>5. RowsInv'
  BY <1>1 DEF IInv, RunInv, RowsInv, Unplanned, Persisted, OpenIn, DependentsWaitIn
<1>6. TurnsInv'
  <2>1. \A q \in Procs : Busy(proc'[q]) <=> Busy(proc[q])
    BY <1>3
  <2>2. \A q \in Procs : proc'[q].pc = "idle" <=> proc[q].pc = "idle"
    BY <1>3 DEF Busy
  <2>3. CancelLocked' <=> CancelLocked
    BY DEF CancelLocked
  <2>4. CancelLocked' => \A q \in Procs : ~Writing(q)'
    BY <1>3, <2>3 DEF IInv, RunInv, TurnsInv, Writing, MayWrite
  <2>5. \A c \in Cancels \ Remote :
           /\ cancel[c].pc # "idle" => proc'[Coordinator].pc \in {"returning", "done", "gone"}
           /\ cancel[c].pc # "overruled"
    BY <1>2, <1>3 DEF IInv, RunInv, TurnsInv, Busy
  <2> QED BY <1>1, <1>2, <2>1, <2>2, <2>4, <2>5 DEF IInv, RunInv, TurnsInv
<1>7. \A q \in Procs : Busy(proc'[q]) => LoadedInv(proc[q])'
  <2>1. LoadedInv(v)'
    BY <1>1 DEF LoadedInv
  <2> QED BY <1>1, <1>3, <2>1 DEF IInv, RunInv, LoadedInv
<1>8. CoordinatorInv(proc[Coordinator])'
  <2>1. CoordinatorInv(proc'[Coordinator])
    BY <1>2, <1>3 DEF IInv, RunInv
  <2> QED BY <1>1, <2>1 DEF CoordinatorInv, AtTasks, Busy, OpenIn, Persisted, Unplanned, DependenciesSucceeded
<1>9. \A r \in Resolvers : ResolverInv(proc[r])'
  <2>1. \A r \in Resolvers : ResolverInv(proc'[r])
    BY <1>2, <1>3 DEF IInv, RunInv
  <2> QED BY <1>1, <2>1 DEF ResolverInv, AtTasks, OpenIn, Persisted, DependenciesSucceeded
<1> QED BY <1>4, <1>5, <1>6, <1>7, <1>8, <1>9 DEF IInv, RunInv

(* A process gives up: its writes are gone, and nobody depends on them. *)
LEMMA AbandonStep ==
  ASSUME IInv, NEW p \in Procs, NEW pc \in {"done", "gone"},
         p = Coordinator => proc[p].pc # "idle",
         p \in Resolvers => approval # "none",
         Abandon(p, pc), UNCHANGED <<run, task, approval>>, acted' \in Nat,
         cancel' \in [Cancels -> CancelRequest], CancelLocked' => CancelLocked,
         Overruled' <=> Overruled,
         \A c \in Cancels \ Remote : cancel'[c].pc # "overruled",
         \A c \in Cancels : cancel'[c].pc # "idle" => run.status # "none",
         p = Coordinator \/ UNCHANGED cancel
  PROVE  IInv'
<1> DEFINE v == [IdleProc EXCEPT !.pc = pc]
<1>1. proc \in [Procs -> Proc] /\ Coordinator \in Procs /\ Resolvers \subseteq Procs
      /\ Coordinator \notin Resolvers
  BY AgentConstants DEF IInv, TypeOK, Procs
<1>2. v \in Proc /\ v.pc = pc /\ v.wroteRun = FALSE /\ v.wrote = {}
  BY Idle
<1>3. proc' = [proc EXCEPT ![p] = v]
  BY DEF Abandon
<1> HIDE DEF v
<1>4. proc'[p] = v /\ \A q \in Procs \ {p} : proc'[q] = proc[q]
  BY <1>1, <1>3
<1>5. TypeOK'
  BY <1>1, <1>2, <1>3 DEF IInv, TypeOK
<1>6. RowsInv'
  BY DEF IInv, RunInv, RowsInv, Unplanned, Persisted, OpenIn, DependentsWaitIn
<1>7. ~Busy(proc'[p]) /\ proc'[p].pc # "idle"
  BY <1>2, <1>4 DEF Busy
<1>8. TurnsInv'
  <2>1. \A q \in Procs : Busy(proc'[q]) => Busy(proc[q])
    BY <1>4, <1>7
  <2>2. \A q \in Procs \ {p} : proc'[q].pc = "idle" <=> proc[q].pc = "idle"
    BY <1>4
  <2>3. CancelLocked' => \A q \in Procs : ~Writing(q)'
    BY <1>2, <1>4 DEF IInv, RunInv, TurnsInv, Writing
  <2>4. \A c \in Cancels \ Remote :
           cancel'[c].pc # "idle" => proc'[Coordinator].pc \in {"returning", "done", "gone"}
    BY <1>1, <1>2, <1>4 DEF IInv, RunInv, TurnsInv
  <2>5. proc'[Coordinator].pc = "idle" <=> run.status = "none"
    BY <1>1, <1>4, <1>7 DEF IInv, RunInv, TurnsInv
  <2>6. approval = "none" => \A r \in Resolvers : proc'[r].pc = "idle"
    BY <1>1, <1>4 DEF IInv, RunInv, TurnsInv
  <2>7. Busy(proc'[Coordinator]) => Busy(proc[Coordinator])
    BY <1>1, <2>1
  <2> QED BY <1>1, <2>1, <2>7, <2>3, <2>4, <2>5, <2>6 DEF IInv, RunInv, TurnsInv
<1>9. \A q \in Procs : Busy(proc'[q]) => LoadedInv(proc[q])'
  BY <1>4, <1>7 DEF IInv, RunInv, LoadedInv
<1>10. CoordinatorInv(proc[Coordinator])'
  <2>1. CoordinatorInv(proc'[Coordinator])
    BY <1>1, <1>2, <1>4 DEF IInv, RunInv, CoordinatorInv, Busy
  <2> QED BY <2>1 DEF CoordinatorInv, AtTasks, Busy, OpenIn, Persisted, Unplanned, DependenciesSucceeded
<1>11. \A r \in Resolvers : ResolverInv(proc[r])'
  <2>1. \A r \in Resolvers : ResolverInv(proc'[r])
    BY <1>1, <1>2, <1>4 DEF IInv, RunInv, ResolverInv
  <2> QED BY <2>1 DEF ResolverInv, AtTasks, OpenIn, Persisted, DependenciesSucceeded
<1> QED BY <1>5, <1>6, <1>8, <1>9, <1>10, <1>11 DEF IInv, RunInv

(* _fail_run on the loaded objects *)
LEMMA RunFailed ==
  ASSUME NEW w \in Proc, NEW s \in TerminalRun, LoadedInv(w), w.approval = "none"
  PROVE  LET v == FailRun(w, s)
         IN  /\ v \in Proc /\ v.pc = "returning" /\ v.wroteRun /\ v.run.status = s
             /\ v.approval = "none" /\ OpenIn(v.task, {}) /\ LoadedInv(v)
<1> DEFINE y == [w EXCEPT !.run = [w.run EXCEPT !.steps = w.steps]]
           x == SetRun(y, s)
           v == FailRun(w, s)
           O == {t \in Tasks : w.task[t].status \in OpenTask}
<1>1. y \in Proc /\ y.task = w.task /\ y.wrote = w.wrote /\ y.approval = w.approval
  <2> DEFINE z == [w.run EXCEPT !.steps = w.steps]
  <2>1. z \in Run
    BY ProcFields DEF Run
  <2>2. y = [w EXCEPT !.run = z]
    OBVIOUS
  <2> HIDE DEF z, y
  <2> QED BY <2>1, <2>2 DEF Proc
<1>2. /\ x \in Proc /\ x.task = w.task /\ x.wrote = w.wrote /\ x.approval = w.approval
      /\ x.wroteRun = TRUE /\ x.run.status = s
  <2>1. s \in RunStatus
    BY DEF RunStatus
  <2> HIDE DEF y
  <2> QED BY <1>1, <2>1, RunWritten
<1>3. v = [x EXCEPT !.task = CancelQueued(x.task), !.pc = "returning", !.cur = 0,
                    !.wrote = x.wrote \cup O]
  <2>1. y = [w EXCEPT !.run.steps = w.steps]
    BY DEF Proc
  <2> QED BY <2>1, <1>2 DEF FailRun
<1>4. w.task \in [Tasks -> Task]
  BY ProcFields
<1>5. CancelQueued(w.task) \in [Tasks -> Task] /\ x.wrote \cup O \in SUBSET Tasks
  BY <1>2, <1>4, ProcFields, QueuedCancelled
<1>6. /\ v \in Proc /\ v.pc = "returning" /\ v.wroteRun = TRUE /\ v.run.status = s
      /\ v.approval = w.approval /\ v.task = CancelQueued(w.task) /\ v.wrote = w.wrote \cup O
  <2> DEFINE T == CancelQueued(x.task)
             W == x.wrote \cup O
  <2>1. T \in [Tasks -> Task] /\ W \in SUBSET Tasks
    BY <1>2, <1>5
  <2> HIDE DEF v, x, T, W
  <2>2. v = [x EXCEPT !.task = T, !.pc = "returning", !.cur = 0, !.wrote = W]
    BY <1>3 DEF T, W
  <2>3. v \in Proc /\ v.pc = "returning" /\ v.wroteRun = x.wroteRun /\ v.run = x.run
        /\ v.approval = x.approval /\ v.task = T /\ v.wrote = W
    BY <2>1, <2>2, <1>2 DEF Proc
  <2> QED BY <2>3, <1>2 DEF T, W
<1> HIDE DEF v
<1>7. OpenIn(v.task, {}) /\ DependentsWaitIn(v.task)
  BY <1>4, <1>6, QueuedCancelled DEF LoadedInv
<1>8. \A t \in Tasks : t \notin v.wrote => v.task[t] = task[t]
  BY <1>4, <1>6, QueuedCancelled DEF LoadedInv
<1>9. \A t \in Tasks :
        /\ task[t].status \in TerminalTask =>
             v.task[t].status = task[t].status \/ (Overruled /\ task[t].status = "cancelled")
        /\ task[t].status # "none" => v.task[t].status # "none"
  BY <1>4, <1>6, QueuedCancelled DEF LoadedInv, OpenTask, TerminalTask
<1>10. LoadedInv(v)
  BY <1>6, <1>7, <1>8, <1>9 DEF LoadedInv
<1> QED BY <1>6, <1>7, <1>10 DEF v

(* An error ends a process. *)
LEMMA StopsStep ==
  ASSUME IInv, NEW p \in Procs, NEW w \in Proc, NEW s \in {"failed", "timed_out"},
         Busy(proc[p]), proc[p].pc # "returning", MayWrite(p),
         p = Coordinator => LoadedInv(w) /\ w.approval = "none",
         StopsRun(p, w, s), UNCHANGED <<run, task, approval, cancel, acted>>
  PROVE  IInv'
<1>1. CASE p = Coordinator /\ w.run.status \notin TerminalRun
  <2> DEFINE v == FailRun(w, s)
  <2>1. s \in TerminalRun
    BY DEF TerminalRun
  <2>2. /\ v \in Proc /\ v.pc = "returning" /\ v.wroteRun /\ v.run.status = s
        /\ v.approval = "none" /\ OpenIn(v.task, {}) /\ LoadedInv(v)
    BY <1>1, <2>1, RunFailed
  <2>3. proc' = [proc EXCEPT ![p] = v]
    BY <1>1 DEF StopsRun
  <2> HIDE DEF v
  <2>4. Busy(v) /\ CoordinatorInv(v)
    BY <2>1, <2>2 DEF Busy, CoordinatorInv
  <2>5. p \notin Resolvers /\ acted' \in Nat
    BY <1>1, AgentConstants DEF IInv, TypeOK
  <2> QED BY <2>2, <2>3, <2>4, <2>5, LocalStep
<1>2. CASE ~(p = Coordinator /\ w.run.status \notin TerminalRun)
  <2>1. Abandon(p, "done")
    BY <1>2 DEF StopsRun
  <2>2. /\ acted' \in Nat /\ cancel' \in [Cancels -> CancelRequest]
        /\ proc[p].pc # "idle"
        /\ p \in Resolvers => approval # "none"
    BY DEF IInv, RunInv, TypeOK, TurnsInv, Busy
  <2>3. (CancelLocked' => CancelLocked) /\ (Overruled' <=> Overruled)
    BY DEF CancelLocked, Overruled
  <2>4. /\ \A c \in Cancels \ Remote : cancel'[c].pc # "overruled"
        /\ \A c \in Cancels : cancel'[c].pc # "idle" => run.status # "none"
    BY DEF IInv, RunInv, TurnsInv
  <2> QED BY <2>1, <2>2, <2>3, <2>4, AbandonStep
<1> QED BY <1>1, <1>2

LEMMA GivesUp ==
  ASSUME IInv, NEW p \in Procs, Busy(proc[p]), NEW pc \in {"done", "gone"}, Abandon(p, pc),
         UNCHANGED <<run, task, approval, cancel, acted>>
  PROVE  IInv'
<1>1. /\ acted' \in Nat /\ cancel' \in [Cancels -> CancelRequest] /\ proc[p].pc # "idle"
      /\ p \in Resolvers => approval # "none"
  BY DEF IInv, RunInv, TypeOK, TurnsInv, Busy
<1>2. (CancelLocked' => CancelLocked) /\ (Overruled' <=> Overruled)
  BY DEF CancelLocked, Overruled
<1>3. /\ \A c \in Cancels \ Remote : cancel'[c].pc # "overruled"
      /\ \A c \in Cancels : cancel'[c].pc # "idle" => run.status # "none"
  BY DEF IInv, RunInv, TurnsInv
<1> QED BY <1>1, <1>2, <1>3, AbandonStep
----------------------------------------------------------------------------
(* What the invariant says of a process inside the loop over the tasks.       *)

LEMMA WhatIsLoaded ==
  ASSUME IInv, NEW p \in Procs
  PROVE  /\ proc[p] \in Proc
         /\ Busy(proc[p]) => LoadedInv(proc[p])
         /\ p = Coordinator => CoordinatorInv(proc[p])
         /\ p # Coordinator => p \in Resolvers /\ ResolverInv(proc[p])
         /\ proc' = [proc EXCEPT ![p] = proc'[p]] => \A q \in Procs \ {p} : proc'[q] = proc[q]
  BY DEF IInv, RunInv, TypeOK, Procs

LEMMA InTheLoop ==
  ASSUME IInv, NEW p \in Procs,
         proc[p].pc \in {"between", "ready", "running", "settled", "asking"}
  PROVE  /\ proc[p] \in Proc /\ Busy(proc[p]) /\ LoadedInv(proc[p]) /\ AtTasks(proc[p])
         /\ p \in Resolvers \/ proc[p].pc \in {"ready", "running", "settled"} => MayWrite(p)
         /\ p = Coordinator => proc[p].approval = "none" /\ proc[p].wroteRun = FALSE
         /\ p \in Resolvers => proc[p].wroteRun = TRUE /\ proc[p].approval = "approved"
<1>1. Busy(proc[p])
  BY DEF Busy
<1>2. p \in Resolvers \/ proc[p].pc \in {"ready", "running", "settled"} => MayWrite(p)
  BY <1>1, LoopMayWrite, AgentConstants
<1>3. AtTasks(proc[p])
  BY WhatIsLoaded DEF CoordinatorInv, ResolverInv
<1>4. p = Coordinator => proc[p].approval = "none" /\ proc[p].wroteRun = FALSE
  BY <1>1, WhatIsLoaded, ProcFields DEF CoordinatorInv
<1>5. p \in Resolvers => proc[p].wroteRun = TRUE /\ proc[p].approval = "approved"
  BY WhatIsLoaded, AgentConstants, ProcFields DEF ResolverInv
<1> QED BY <1>1, <1>2, <1>3, <1>4, <1>5, WhatIsLoaded

(* A step from one place in the loop to another. *)
LEMMA LoopStep ==
  ASSUME IInv, NEW p \in Procs, NEW v \in Proc,
         proc[p].pc \in {"between", "ready", "running", "settled", "asking"},
         v.pc \in {"between", "ready", "running", "settled"},
         v.approval = proc[p].approval, v.wroteRun = proc[p].wroteRun,
         MayWrite(p), LoadedInv(v), AtTasks(v),
         proc' = [proc EXCEPT ![p] = v], UNCHANGED <<run, task, approval, cancel, acted>>
  PROVE  IInv'
<1>1. Busy(v) /\ Busy(proc[p]) /\ proc[p].pc # "returning"
  BY InTheLoop DEF Busy
<1>2. p = Coordinator => CoordinatorInv(v)
  BY InTheLoop DEF CoordinatorInv
<1>3. p \in Resolvers => ResolverInv(v)
  BY InTheLoop DEF ResolverInv
<1>4. acted' \in Nat
  BY DEF IInv, TypeOK
<1> QED BY <1>1, <1>2, <1>3, <1>4, LocalStep

(* transition_task on an unfinished task of the loop *)
LEMMA TaskAdvanced ==
  ASSUME NEW w \in Proc, LoadedInv(w), AtTasks(w),
         NEW t \in Tasks, NEW s \in TaskStatus, s # "none",
         w.task[t].status \in OpenTask
  PROVE  LET v == SetTask(w, t, s)
         IN  /\ v \in Proc /\ LoadedInv(v)
             /\ v.task[t].status = s /\ v.task[t].started = w.task[t].started
             /\ v.task[t].retries = w.task[t].retries
             /\ \A u \in Tasks \ {t} : v.task[u] = w.task[u]
<1> DEFINE v == SetTask(w, t, s)
           x == [w.task[t] EXCEPT !.status = s]
<1>1. w.task \in [Tasks -> Task] /\ w.task[t] \in Task
  BY ProcFields
<1>2. x \in Task /\ x.status = s /\ x.started = w.task[t].started /\ x.retries = w.task[t].retries
  BY <1>1 DEF Task
<1>3. /\ v \in Proc /\ v.task = [w.task EXCEPT ![t] = x] /\ v.wrote = w.wrote \cup {t}
      /\ v.run = w.run /\ v.wroteRun = w.wroteRun
  BY TaskWritten
<1> HIDE DEF v, x
<1>4. v.task[t] = x /\ \A u \in Tasks \ {t} : v.task[u] = w.task[u]
  BY <1>1, <1>3
<1>5. LoadedInv(v)
  BY <1>2, <1>3, TaskMoved
<1> QED BY <1>2, <1>3, <1>4, <1>5 DEF v

(* The minimum of a set of task numbers *)
Before == OpToRel(<, Nat)

LEMMA BeforeIsLess == Before = {ss \in Nat \X Nat : ss[1] < ss[2]}
  BY DEF Before, OpToRel

LEMMA BeforeWellFounded == IsWellFoundedOn(Before, Nat)
  BY NatLessThanWellFounded DEF Before

LEMMA LeastElement ==
  ASSUME NEW S, S \subseteq Nat, S # {}
  PROVE  Min(S) \in S /\ \A y \in S : Min(S) =< y
<1>1. PICK x \in S : \A y \in S : <<y, x>> \notin Before
  BY BeforeWellFounded, WFMin
<1>2. \A y \in S : x =< y
  <2> TAKE y \in S
  <2>1. y \in Nat /\ x \in Nat
    OBVIOUS
  <2>2. y < x => <<y, x>> \in Before
    <3> DEFINE p == <<y, x>>
    <3>1. p \in Nat \X Nat /\ p[1] = y /\ p[2] = x
      BY <2>1
    <3>2. p \in Before <=> p[1] < p[2]
      BY <3>1, BeforeIsLess, Zenon
    <3> QED BY <3>1, <3>2
  <2> QED BY <1>1, <2>1, <2>2
<1> QED BY <1>2, Zenon DEF Min

LEMMA NextTaskWaits ==
  ASSUME NEW p \in Procs, Waiting(p) # {}
  PROVE  NextTask(p) \in Tasks /\ proc[p].task[NextTask(p)].status = "pending"
<1>1. Waiting(p) \subseteq Nat
  BY AgentConstants DEF Waiting
<1>2. NextTask(p) \in Waiting(p)
  BY <1>1, LeastElement DEF NextTask
<1> QED BY <1>2 DEF Waiting
----------------------------------------------------------------------------
(* The loop over the tasks: every action preserves the invariant.             *)

LEMMA SkipTaskStep ==
  ASSUME IInv, NEW p \in Procs, SkipTask(p)
  PROVE  IInv'
<1> DEFINE w == proc[p]
           t == NextTask(p)
           v == SetTask(w, t, "skipped")
<1>1. w.pc = "between" /\ MayWrite(p) /\ proc' = [proc EXCEPT ![p] = v]
      /\ UNCHANGED <<run, task, approval, cancel, acted>>
  BY DEF SkipTask
<1>2. t \in Tasks /\ w.task[t].status = "pending"
  BY NextTaskWaits DEF SkipTask
<1>3. w \in Proc /\ LoadedInv(w) /\ AtTasks(w)
  BY <1>1, InTheLoop
<1> HIDE DEF t, w
<1>4. /\ v \in Proc /\ LoadedInv(v) /\ v.task[t].status = "skipped"
      /\ \A u \in Tasks \ {t} : v.task[u] = w.task[u]
  BY <1>2, <1>3, TaskAdvanced DEF OpenTask, TaskStatus, TerminalTask
<1>5. v.pc = w.pc /\ v.run = w.run /\ v.approval = w.approval /\ v.wroteRun = w.wroteRun
  <2>1. "skipped" \in TaskStatus
    BY DEF TaskStatus, TerminalTask
  <2> QED BY <1>2, <1>3, <2>1, TaskWritten
<1> HIDE DEF v
<1>6. AtTasks(v)
  BY <1>1, <1>3, <1>4, <1>5 DEF AtTasks, Persisted, OpenIn, OpenTask
<1> USE DEF w
<1> QED BY <1>1, <1>4, <1>5, <1>6, LoopStep

LEMMA ReadyTaskStep ==
  ASSUME IInv, NEW p \in Procs, ReadyTask(p)
  PROVE  IInv'
<1> DEFINE w == proc[p]
           t == NextTask(p)
           x == SetTask(w, t, "ready")
           v == [x EXCEPT !.pc = "ready", !.cur = t]
<1>1. w.pc = "between" /\ MayWrite(p) /\ proc' = [proc EXCEPT ![p] = v] /\ DependenciesSucceeded(w, t)
      /\ UNCHANGED <<run, task, approval, cancel, acted>>
  BY DEF ReadyTask
<1>2. t \in Tasks /\ w.task[t].status = "pending"
  BY NextTaskWaits DEF ReadyTask
<1>3. w \in Proc /\ LoadedInv(w) /\ AtTasks(w)
  BY <1>1, InTheLoop
<1> HIDE DEF t, w
<1>4. /\ x \in Proc /\ LoadedInv(x) /\ x.task[t].status = "ready"
      /\ \A u \in Tasks \ {t} : x.task[u] = w.task[u]
  BY <1>2, <1>3, TaskAdvanced DEF OpenTask, TaskStatus
<1>5. x.run = w.run /\ x.approval = w.approval /\ x.wroteRun = w.wroteRun /\ t \in x.wrote
  <2>1. "ready" \in TaskStatus
    BY DEF TaskStatus, OpenTask
  <2>2. /\ x.run = w.run /\ x.approval = w.approval /\ x.wroteRun = w.wroteRun
        /\ x.wrote = w.wrote \cup {t}
    BY <1>2, <1>3, <2>1, TaskWritten, Zenon
  <2> HIDE DEF x
  <2> QED BY <2>2
<1> HIDE DEF x
<1>6. /\ v \in Proc /\ v.pc = "ready" /\ v.cur = t
      /\ v.run = w.run /\ v.approval = w.approval /\ v.wroteRun = w.wroteRun
      /\ v.task = x.task /\ v.wrote = x.wrote
  BY <1>2, <1>4, <1>5 DEF Proc
<1> HIDE DEF v
<1>7. LoadedInv(v)
  BY <1>4, <1>5, <1>6 DEF LoadedInv
<1>8. DependenciesSucceeded(v, t)
  <2> SUFFICES ASSUME NEW d \in Deps[t] PROVE v.task[d].status = "succeeded"
    BY DEF DependenciesSucceeded
  <2>1. d \in Tasks /\ w.task[d].status = "succeeded"
    BY <1>1, <1>2, AgentConstants DEF DependenciesSucceeded
  <2> QED BY <2>1, <1>2, <1>4, <1>6
<1>9. AtTasks(v)
  BY <1>1, <1>2, <1>3, <1>4, <1>5, <1>6, <1>8 DEF AtTasks, Persisted, OpenIn, OpenTask
<1> USE DEF w
<1> QED BY <1>1, <1>6, <1>7, <1>9, LoopStep

(* consume_step, and the task is handed to its agent *)
LEMMA BeginAttemptStep ==
  ASSUME IInv, NEW p \in Procs, BeginAttempt(p)
  PROVE  IInv'
<1> DEFINE w == proc[p]
           t == w.cur
           x == SetTask(w, t, "running")
           y == [x.task[t] EXCEPT !.started = TRUE]
           v == [x EXCEPT !.task[t].started = TRUE, !.steps = w.steps + 1, !.pc = "running"]
<1>1. w.pc = "ready" /\ proc' = [proc EXCEPT ![p] = v] /\ w.steps < MaxSteps
      /\ UNCHANGED <<run, task, approval, cancel, acted>>
  <2>1. w.pc = "ready" /\ w.steps < MaxSteps /\ UNCHANGED <<run, task, approval, cancel, acted>>
    BY DEF BeginAttempt, RequireStep
  <2>2. proc' = [proc EXCEPT ![p] = v]
    BY Zenon DEF BeginAttempt
  <2> QED BY <2>1, <2>2
<1>2. w \in Proc /\ LoadedInv(w) /\ AtTasks(w) /\ MayWrite(p)
  BY <1>1, InTheLoop
<1>3. t \in Tasks /\ w.task[t].status = "ready" /\ DependenciesSucceeded(w, t)
  BY <1>1, <1>2 DEF AtTasks
<1> HIDE DEF w
<1>4. /\ x \in Proc /\ LoadedInv(x) /\ x.task[t].status = "running"
      /\ \A u \in Tasks \ {t} : x.task[u] = w.task[u]
  BY <1>2, <1>3, TaskAdvanced DEF OpenTask, TaskStatus
<1>5. /\ x.run = w.run /\ x.approval = w.approval /\ x.wroteRun = w.wroteRun
      /\ x.cur = t /\ x.steps = w.steps /\ t \in x.wrote
  <2>1. "running" \in TaskStatus
    BY DEF TaskStatus, OpenTask
  <2>2. /\ x.run = w.run /\ x.approval = w.approval /\ x.wroteRun = w.wroteRun
        /\ x.cur = w.cur /\ x.steps = w.steps /\ x.wrote = w.wrote \cup {t}
    BY <1>2, <1>3, <2>1, TaskWritten, Zenon
  <2> HIDE DEF x
  <2> QED BY <2>2
<1> HIDE DEF x, t
<1>6. x.task \in [Tasks -> Task] /\ y \in Task /\ y.status = x.task[t].status /\ y.started = TRUE
  <2>1. x.task \in [Tasks -> Task] /\ x.task[t] \in Task
    BY <1>3, <1>4, ProcFields
  <2> QED BY <2>1 DEF Task
<1>7. x.steps + 1 \in 0..MaxSteps
  BY <1>1, <1>2, <1>5, AgentConstants, ProcFields
<1>8. v = [x EXCEPT !.task = [x.task EXCEPT ![t] = y], !.steps = x.steps + 1, !.pc = "running"]
  BY <1>4, <1>5 DEF Proc
<1>9. /\ v \in Proc /\ v.pc = "running" /\ v.cur = t
      /\ v.run = w.run /\ v.approval = w.approval /\ v.wroteRun = w.wroteRun
      /\ v.task = [x.task EXCEPT ![t] = y] /\ v.wrote = x.wrote
  <2> DEFINE T == [x.task EXCEPT ![t] = y]
             n == x.steps + 1
  <2>1. T \in [Tasks -> Task] /\ n \in 0..MaxSteps
    BY <1>3, <1>6, <1>7
  <2> HIDE DEF T, n, v, y
  <2>2. v = [x EXCEPT !.task = T, !.steps = n, !.pc = "running"]
    BY <1>8 DEF T, n
  <2>3. v \in Proc /\ v.pc = "running" /\ v.cur = x.cur /\ v.run = x.run /\ v.approval = x.approval
        /\ v.wroteRun = x.wroteRun /\ v.task = T /\ v.wrote = x.wrote
    BY <2>1, <2>2, <1>4 DEF Proc
  <2> QED BY <2>3, <1>5 DEF T
<1> HIDE DEF v, y
<1>10. \A d \in Deps[t] : d \in Tasks /\ d # t /\ w.task[d].status = "succeeded"
  BY <1>3, AgentConstants DEF DependenciesSucceeded
<1>11. DependenciesSucceeded(x, t)
  BY <1>4, <1>10 DEF DependenciesSucceeded
<1>12. LoadedInv(v)
  BY <1>3, <1>4, <1>5, <1>6, <1>9, <1>11, TaskMoved DEF OpenTask
<1>13. v.task[t].status = "running" /\ \A u \in Tasks \ {t} : v.task[u] = w.task[u]
  BY <1>3, <1>4, <1>6, <1>9
<1>14. DependenciesSucceeded(v, t)
  BY <1>10, <1>13 DEF DependenciesSucceeded
<1>15. AtTasks(v)
  <2>1. (v.run.status = "running" \/ Overruled) /\ Persisted(v.task)
    BY <1>2, <1>9, <1>13 DEF AtTasks, Persisted
  <2>2. \A u \in Tasks \ {t} : v.task[u].status \in OpenTask => v.task[u].status = "pending"
    BY <1>1, <1>2, <1>13 DEF AtTasks, t
  <2>3. t \in v.wrote
    BY <1>5, <1>9
  <2> QED BY <2>1, <2>2, <2>3, <1>3, <1>9, <1>13, <1>14 DEF AtTasks
<1> USE DEF w
<1> QED BY <1>1, <1>2, <1>9, <1>12, <1>15, LoopStep

LEMMA SettleStep ==
  ASSUME IInv, NEW p \in Procs, proc[p].pc = "running",
         NEW s \in TaskStatus, NEW asks \in BOOLEAN,
         IF asks THEN s = "running" ELSE s \in TerminalTask,
         Settle(p, s, asks), UNCHANGED <<run, task, approval, cancel, acted>>
  PROVE  IInv'
<1> DEFINE w == proc[p]
           t == w.cur
           x == SetTask(w, t, s)
           v == [x EXCEPT !.pc = "settled", !.asks = asks]
<1>1. proc' = [proc EXCEPT ![p] = v]
  BY Zenon DEF Settle
<1>2. w \in Proc /\ LoadedInv(w) /\ AtTasks(w) /\ MayWrite(p) /\ w.pc = "running"
  BY InTheLoop
<1>3. t \in Tasks /\ w.task[t].status = "running"
  BY <1>2 DEF AtTasks
<1> HIDE DEF w
<1>4. /\ x \in Proc /\ LoadedInv(x) /\ x.task[t].status = s
      /\ \A u \in Tasks \ {t} : x.task[u] = w.task[u]
  BY <1>2, <1>3, TaskAdvanced DEF OpenTask, TerminalTask
<1>5. /\ x.run = w.run /\ x.approval = w.approval /\ x.wroteRun = w.wroteRun
      /\ x.cur = t /\ t \in x.wrote
  <2>1. /\ x.run = w.run /\ x.approval = w.approval /\ x.wroteRun = w.wroteRun
        /\ x.cur = t /\ x.wrote = w.wrote \cup {t}
    BY <1>2, <1>3, TaskWritten, Zenon
  <2> HIDE DEF x
  <2> QED BY <2>1
<1> HIDE DEF x, t
<1>6. /\ v \in Proc /\ v.pc = "settled" /\ v.cur = t /\ v.asks = asks
      /\ v.run = w.run /\ v.approval = w.approval /\ v.wroteRun = w.wroteRun
      /\ v.task = x.task /\ v.wrote = x.wrote
  BY <1>4, <1>5 DEF Proc
<1> HIDE DEF v
<1>7. LoadedInv(v)
  BY <1>4, <1>5, <1>6 DEF LoadedInv
<1>8. AtTasks(v)
  <2>1. v.run.status = "running" \/ Overruled
    BY <1>2, <1>6 DEF AtTasks
  <2>2. Persisted(v.task)
    BY <1>2, <1>4, <1>6 DEF AtTasks, Persisted, TerminalTask
  <2>3. \A u \in Tasks \ {t} : v.task[u].status \in OpenTask => v.task[u].status = "pending"
    BY <1>2, <1>4, <1>6 DEF AtTasks, t
  <2> QED BY <2>1, <2>2, <2>3, <1>3, <1>4, <1>5, <1>6 DEF AtTasks
<1> USE DEF w
<1> QED BY <1>1, <1>2, <1>6, <1>7, <1>8, LoopStep

LEMMA RetryStep ==
  ASSUME IInv, NEW p \in Procs, proc[p].pc = "running",
         Retry(p), UNCHANGED <<run, task, approval, cancel, acted>>
  PROVE  IInv'
<1> DEFINE w == proc[p]
           t == w.cur
           x == SetTask(w, t, "ready")
           n == w.task[t].retries + 1
           y == [x.task[t] EXCEPT !.retries = n]
           v == [x EXCEPT !.task[t].retries = n, !.pc = "ready"]
<1>1. w.task[t].retries < MaxRetries /\ proc' = [proc EXCEPT ![p] = v]
  BY Zenon DEF Retry
<1>2. w \in Proc /\ LoadedInv(w) /\ AtTasks(w) /\ MayWrite(p) /\ w.pc = "running"
  BY InTheLoop
<1>3. t \in Tasks /\ w.task[t].status = "running" /\ DependenciesSucceeded(w, t)
  BY <1>2 DEF AtTasks
<1> HIDE DEF w
<1>4. /\ x \in Proc /\ LoadedInv(x) /\ x.task[t].status = "ready"
      /\ x.task[t].started = w.task[t].started
      /\ \A u \in Tasks \ {t} : x.task[u] = w.task[u]
  BY <1>2, <1>3, TaskAdvanced DEF OpenTask, TaskStatus
<1>5. x.run = w.run /\ x.approval = w.approval /\ x.wroteRun = w.wroteRun /\ x.cur = t /\ t \in x.wrote
  <2>1. "ready" \in TaskStatus
    BY DEF TaskStatus, OpenTask
  <2>2. /\ x.run = w.run /\ x.approval = w.approval /\ x.wroteRun = w.wroteRun
        /\ x.cur = w.cur /\ x.wrote = w.wrote \cup {t}
    BY <1>2, <1>3, <2>1, TaskWritten, Zenon
  <2> HIDE DEF x
  <2> QED BY <2>2
<1>6. n \in 0..MaxRetries
  <2>1. w.task[t] \in Task
    BY <1>2, <1>3, ProcFields
  <2> QED BY <1>1, <2>1, AgentConstants, TaskFields
<1> HIDE DEF x, t, n
<1>7. /\ x.task \in [Tasks -> Task] /\ y \in Task
      /\ y.status = x.task[t].status /\ y.started = x.task[t].started
  <2>1. x.task \in [Tasks -> Task] /\ x.task[t] \in Task
    BY <1>3, <1>4, ProcFields
  <2> QED BY <1>6, <2>1 DEF Task
<1>8. v = [x EXCEPT !.task = [x.task EXCEPT ![t] = y], !.pc = "ready"]
  BY <1>4 DEF Proc
<1>9. /\ v \in Proc /\ v.pc = "ready" /\ v.cur = t
      /\ v.run = w.run /\ v.approval = w.approval /\ v.wroteRun = w.wroteRun
      /\ v.task = [x.task EXCEPT ![t] = y] /\ v.wrote = x.wrote
  <2> DEFINE T == [x.task EXCEPT ![t] = y]
  <2>1. T \in [Tasks -> Task]
    BY <1>3, <1>7
  <2> HIDE DEF T, v, y
  <2>2. v = [x EXCEPT !.task = T, !.pc = "ready"]
    BY <1>8 DEF T
  <2>3. v \in Proc /\ v.pc = "ready" /\ v.cur = x.cur /\ v.run = x.run /\ v.approval = x.approval
        /\ v.wroteRun = x.wroteRun /\ v.task = T /\ v.wrote = x.wrote
    BY <2>1, <2>2, <1>4 DEF Proc
  <2> QED BY <2>3, <1>5 DEF T
<1> HIDE DEF v, y
<1>10. LoadedInv(v)
  BY <1>3, <1>4, <1>5, <1>7, <1>9, TaskMoved DEF OpenTask
<1>11. v.task[t].status = "ready" /\ \A u \in Tasks \ {t} : v.task[u] = w.task[u]
  BY <1>3, <1>4, <1>7, <1>9
<1>12. DependenciesSucceeded(v, t)
  <2>1. \A d \in Deps[t] : d \in Tasks /\ d # t /\ w.task[d].status = "succeeded"
    BY <1>3, AgentConstants DEF DependenciesSucceeded
  <2> QED BY <2>1, <1>11 DEF DependenciesSucceeded
<1>13. AtTasks(v)
  <2>1. (v.run.status = "running" \/ Overruled) /\ Persisted(v.task)
    BY <1>2, <1>9, <1>11 DEF AtTasks, Persisted
  <2>2. \A u \in Tasks \ {t} : v.task[u].status \in OpenTask => v.task[u].status = "pending"
    BY <1>2, <1>11 DEF AtTasks, t
  <2> QED BY <2>1, <2>2, <1>3, <1>5, <1>9, <1>11, <1>12 DEF AtTasks
<1> USE DEF w
<1> QED BY <1>1, <1>2, <1>9, <1>10, <1>13, LoopStep

LEMMA AttemptStep ==
  ASSUME IInv, NEW p \in Procs,
         AttemptTimesOut(p) \/ AttemptRaises(p) \/ AttemptReturns(p) \/ AttemptFails(p)
  PROVE  IInv'
<1>1. proc[p].pc = "running" /\ UNCHANGED <<run, task, approval, cancel, acted>>
  BY DEF AttemptTimesOut, AttemptRaises, AttemptReturns, AttemptFails
<1>2. \/ Retry(p)
      \/ \E s \in {"succeeded", "timed_out", "failed"} : Settle(p, s, FALSE)
      \/ Settle(p, "running", TRUE)
  BY Zenon DEF AttemptTimesOut, AttemptRaises, AttemptReturns, AttemptFails, RetryOr
<1>3. CASE Retry(p)
  BY <1>1, <1>3, RetryStep
<1>4. CASE \E s \in {"succeeded", "timed_out", "failed"} : Settle(p, s, FALSE)
  <2>1. PICK s \in {"succeeded", "timed_out", "failed"} : Settle(p, s, FALSE)
    BY <1>4
  <2>2. s \in TaskStatus /\ s \in TerminalTask /\ FALSE \in BOOLEAN
    BY DEF TaskStatus, TerminalTask
  <2> QED BY <1>1, <2>1, <2>2, SettleStep
<1>5. CASE Settle(p, "running", TRUE)
  <2>1. "running" \in TaskStatus /\ TRUE \in BOOLEAN
    BY DEF TaskStatus, OpenTask
  <2> QED BY <1>1, <1>5, <2>1, SettleStep
<1> QED BY <1>2, <1>3, <1>4, <1>5

(* A budget or the time of the run is exhausted. *)
LEMMA ExhaustedStep ==
  ASSUME IInv, NEW p \in Procs, StepsExhausted(p) \/ CallsExhausted(p) \/ RunTimesOut(p)
  PROVE  IInv'
<1> DEFINE w == proc[p]
<1>1. /\ w.pc \in {"between", "ready", "running"} /\ (w.pc = "between" => MayWrite(p))
      /\ UNCHANGED <<run, task, approval, cancel, acted>>
      /\ \/ StopsRun(p, w, "failed") \/ StopsRun(p, w, "timed_out")
         \/ w.pc = "running" /\ StopsRun(p, SetTask(w, w.cur, "failed"), "failed")
  BY DEF StepsExhausted, CallsExhausted, RunTimesOut
<1>2. /\ w \in Proc /\ Busy(w) /\ LoadedInv(w) /\ AtTasks(w) /\ MayWrite(p)
      /\ p = Coordinator => w.approval = "none"
  BY <1>1, InTheLoop
<1>3. CASE StopsRun(p, w, "failed") \/ StopsRun(p, w, "timed_out")
  BY <1>1, <1>2, <1>3, StopsStep
<1>4. CASE w.pc = "running" /\ StopsRun(p, SetTask(w, w.cur, "failed"), "failed")
  <2> DEFINE t == w.cur
             x == SetTask(w, t, "failed")
  <2>1. t \in Tasks /\ w.task[t].status = "running"
    BY <1>2, <1>4 DEF AtTasks
  <2>2. "failed" \in TaskStatus
    BY DEF TaskStatus, TerminalTask
  <2>3. x \in Proc /\ LoadedInv(x)
    BY <1>2, <2>1, <2>2, TaskAdvanced DEF OpenTask
  <2>4. x.approval = w.approval
    BY <1>2, <2>1, <2>2, TaskWritten, Zenon
  <2> HIDE DEF x
  <2>5. StopsRun(p, x, "failed")
    BY <1>4 DEF x
  <2> QED BY <1>1, <1>2, <1>4, <2>3, <2>4, <2>5, StopsStep
<1> QED BY <1>1, <1>3, <1>4

LEMMA CompleteRunStep ==
  ASSUME IInv, NEW p \in Procs, CompleteRun(p)
  PROVE  IInv'
<1> DEFINE w == proc[p]
           synthesizes == p = Coordinator /\ ~Answered(w)
           n == IF synthesizes THEN w.steps + 1 ELSE w.steps
           x == SetRun(w, "completed")
           y == [x.run EXCEPT !.steps = n, !.synthesized = synthesizes]
           v == [x EXCEPT !.run.steps = n, !.run.synthesized = synthesizes,
                          !.pc = "returning", !.cur = 0]
<1>1. /\ w.pc = "between" /\ Waiting(p) = {} /\ MayWrite(p)
      /\ UNCHANGED <<run, task, approval, cancel, acted>>
      /\ IF n > MaxSteps \/ w.run.status \in TerminalRun
         THEN StopsRun(p, w, "failed")
         ELSE proc' = [proc EXCEPT ![p] = v]
  BY Zenon DEF CompleteRun
<1>2. /\ w \in Proc /\ Busy(w) /\ LoadedInv(w) /\ AtTasks(w)
      /\ p = Coordinator => w.approval = "none"
      /\ p \in Resolvers => w.approval = "approved"
  BY <1>1, InTheLoop
<1>3. CASE n > MaxSteps \/ w.run.status \in TerminalRun
  <2>1. StopsRun(p, w, "failed")
    BY <1>1, <1>3
  <2> QED BY <1>1, <1>2, <2>1, StopsStep
<1>4. CASE ~(n > MaxSteps \/ w.run.status \in TerminalRun)
  <2>1. proc' = [proc EXCEPT ![p] = v]
    BY <1>1, <1>4
  <2>2. n \in 0..MaxSteps
    <3>1. w.steps \in 0..MaxSteps /\ MaxSteps \in Nat
      BY <1>2, ProcFields, AgentConstants
    <3> QED BY <1>4, <3>1
  <2>3. OpenIn(w.task, {})
    BY <1>1, <1>2 DEF AtTasks, OpenIn, Waiting
  <2> HIDE DEF w
  <2>4. synthesizes \in BOOLEAN
    OBVIOUS
  <2> HIDE DEF n, synthesizes
  <2>5. /\ x \in Proc /\ x.run.status = "completed" /\ x.wroteRun = TRUE
        /\ x.task = w.task /\ x.approval = w.approval /\ x.wrote = w.wrote
    <3>1. "completed" \in RunStatus
      BY DEF RunStatus, TerminalRun
    <3> QED BY <1>2, <3>1, RunWritten
  <2> HIDE DEF x
  <2>6. y \in Run /\ y.status = "completed"
    <3>1. x.run \in Run
      BY <2>5, ProcFields
    <3> QED BY <2>2, <2>4, <2>5, <3>1 DEF Run
  <2>7. v = [x EXCEPT !.run = y, !.pc = "returning", !.cur = 0]
    BY <2>5 DEF Proc
  <2> HIDE DEF y, v
  <2>8. /\ v \in Proc /\ v.pc = "returning" /\ v.run = y /\ v.wroteRun = x.wroteRun
        /\ v.task = x.task /\ v.approval = x.approval /\ v.wrote = x.wrote
    BY <2>5, <2>6, <2>7 DEF Proc
  <2>9. LoadedInv(v)
    BY <1>2, <2>5, <2>8 DEF LoadedInv
  <2>10. v.wroteRun /\ v.run.status = "completed" /\ OpenIn(v.task, {}) /\ Busy(v)
    BY <2>3, <2>5, <2>6, <2>8 DEF Busy
  <2>11. p = Coordinator => CoordinatorInv(v)
    BY <1>2, <2>5, <2>8, <2>10 DEF CoordinatorInv, TerminalRun
  <2>12. p \in Resolvers => ResolverInv(v)
    BY <1>2, <2>5, <2>8, <2>10 DEF ResolverInv
  <2>13. acted' \in Nat /\ w.pc # "returning"
    BY <1>1 DEF IInv, TypeOK
  <2> USE DEF w
  <2> QED BY <1>1, <1>2, <2>1, <2>8, <2>9, <2>10, <2>11, <2>12, <2>13, LocalStep
<1> QED BY <1>3, <1>4

----------------------------------------------------------------------------
(* The coordinator outside its loop.                                          *)

(* A planning coordinator: nothing is planned, no approval is asked. *)
LEMMA BeforeTheLoop ==
  ASSUME IInv, proc[Coordinator].pc \in {"started", "planning"}
  PROVE  /\ Coordinator \in Procs /\ proc[Coordinator] \in Proc /\ Busy(proc[Coordinator])
         /\ LoadedInv(proc[Coordinator])
         /\ proc[Coordinator].pc = "planning" => MayWrite(Coordinator)
         /\ proc[Coordinator].approval = "none" /\ Unplanned(proc[Coordinator].task)
         /\ proc[Coordinator].wrote = {} /\ Unplanned(task)
         /\ proc[Coordinator].run.status \in ActiveRun
<1>1. Coordinator \in Procs /\ Busy(proc[Coordinator])
  BY DEF Procs, Busy
<1>2. CoordinatorInv(proc[Coordinator]) /\ proc[Coordinator] \in Proc /\ LoadedInv(proc[Coordinator])
  BY <1>1, WhatIsLoaded
<1>3. proc[Coordinator].pc = "planning" => MayWrite(Coordinator)
  BY <1>1, LoopMayWrite
<1>4. proc[Coordinator].wrote = {} /\ Unplanned(proc[Coordinator].task)
  BY <1>2 DEF CoordinatorInv
<1>5. Unplanned(task)
  <2>1. task \in [Tasks -> Task]
    BY DEF IInv, TypeOK
  <2>2. NoTask.status \notin OpenTask
    BY DEF NoTask, OpenTask
  <2>3. \A t \in Tasks : task[t] = NoTask
    BY <1>2, <1>4, <2>2 DEF LoadedInv, Unplanned
  <2> QED BY <2>1, <2>3 DEF Unplanned
<1> QED BY <1>1, <1>2, <1>3, <1>4, <1>5 DEF CoordinatorInv

LEMMA BeginPlanningStep ==
  ASSUME IInv, BeginPlanning
  PROVE  IInv'
<1> DEFINE w == proc[Coordinator]
           x == SetRun(w, "planning")
           v == [x EXCEPT !.pc = "planning"]
<1>1. w.pc = "started" /\ MayWrite(Coordinator) /\ proc' = [proc EXCEPT ![Coordinator] = v]
      /\ UNCHANGED <<run, task, approval, cancel, acted>>
  BY DEF BeginPlanning
<1>2. /\ Coordinator \in Procs /\ w \in Proc /\ Busy(w) /\ LoadedInv(w)
      /\ w.approval = "none" /\ Unplanned(w.task) /\ w.wrote = {}
  BY <1>1, BeforeTheLoop
<1> HIDE DEF w
<1>3. /\ x \in Proc /\ x.run.status = "planning" /\ x.wroteRun = TRUE
      /\ x.task = w.task /\ x.approval = w.approval /\ x.wrote = w.wrote
  <2>1. "planning" \in RunStatus
    BY DEF RunStatus, ActiveRun
  <2> QED BY <1>2, <2>1, RunWritten
<1> HIDE DEF x
<1>4. /\ v \in Proc /\ v.pc = "planning" /\ v.run = x.run /\ v.wroteRun = TRUE
      /\ v.task = w.task /\ v.approval = w.approval /\ v.wrote = w.wrote
  BY <1>3 DEF Proc
<1> HIDE DEF v
<1>5. LoadedInv(v)
  BY <1>2, <1>4 DEF LoadedInv
<1>6. Busy(v) /\ CoordinatorInv(v) /\ w.pc # "returning" /\ Coordinator \notin Resolvers
  BY <1>1, <1>2, <1>3, <1>4, AgentConstants DEF Busy, CoordinatorInv, ActiveRun
<1>7. acted' \in Nat
  BY <1>1 DEF IInv, TypeOK
<1> USE DEF w
<1> QED BY <1>1, <1>2, <1>4, <1>5, <1>6, <1>7, LocalStep

LEMMA RefusePlanStep ==
  ASSUME IInv, RefusePlan
  PROVE  IInv'
<1> DEFINE w == proc[Coordinator]
<1>1. w.pc = "planning" /\ StopsRun(Coordinator, w, "failed")
      /\ UNCHANGED <<run, task, approval, cancel, acted>>
  BY DEF RefusePlan
<1> QED BY <1>1, BeforeTheLoop, StopsStep

(* The durable run is loaded again before the failure is recorded. *)
LEMMA UnexpectedFailureStep ==
  ASSUME IInv, UnexpectedFailure
  PROVE  IInv'
<1> DEFINE w == proc[Coordinator]
           v == [w EXCEPT !.run = run, !.task = task, !.wroteRun = FALSE, !.wrote = {}]
<1>1. /\ w.pc \in {"started", "planning", "between", "running", "asking"}
      /\ StopsRun(Coordinator, v, "failed") /\ MayWrite(Coordinator)
      /\ UNCHANGED <<run, task, approval, cancel, acted>>
  BY DEF UnexpectedFailure, MayWrite
<1>2. /\ Coordinator \in Procs /\ w \in Proc /\ Busy(w)
      /\ w.approval = "none" /\ w.pc # "returning"
  BY <1>1, BeforeTheLoop, InTheLoop DEF Procs
<1>3. run \in Run /\ task \in [Tasks -> Task] /\ DependentsWaitIn(task)
  BY DEF IInv, TypeOK, RunInv, RowsInv
<1> HIDE DEF w
<1>4. /\ v \in Proc /\ v.run = run /\ v.task = task /\ v.wroteRun = FALSE /\ v.wrote = {}
      /\ v.approval = w.approval
  BY <1>2, <1>3 DEF Proc
<1> HIDE DEF v
<1>5. LoadedInv(v)
  BY <1>3, <1>4 DEF LoadedInv
<1> USE DEF w
<1> QED BY <1>1, <1>2, <1>4, <1>5, StopsStep

(* create_approval and the durable pause *)
LEMMA AskForApprovalStep ==
  ASSUME IInv, AskForApproval
  PROVE  IInv'
<1> DEFINE w == proc[Coordinator]
           t == w.cur
           x == SetTask(w, t, "awaiting_approval")
           y == SetRun(x, "awaiting_approval")
           z == [y.run EXCEPT !.steps = w.steps]
           v == [y EXCEPT !.approval = "pending", !.run.steps = w.steps, !.pc = "returning"]
<1>1. /\ w.pc = "asking" /\ UNCHANGED <<run, task, approval, cancel, acted>>
      /\ MayWrite(Coordinator)
      /\ IF w.run.status \in TerminalRun THEN Abandon(Coordinator, "done")
                                        ELSE proc' = [proc EXCEPT ![Coordinator] = v]
  BY DEF AskForApproval, MayWrite
<1>2. /\ Coordinator \in Procs /\ w \in Proc /\ Busy(w) /\ LoadedInv(w) /\ AtTasks(w)
  BY <1>1, InTheLoop DEF Procs
<1>3. t \in Tasks /\ w.task[t].status = "running"
  BY <1>1, <1>2 DEF AtTasks
<1>4. CASE w.run.status \in TerminalRun
  BY <1>4, <1>1, <1>2, GivesUp
<1>5. CASE w.run.status \notin TerminalRun
  <2> HIDE DEF w
  <2>1. /\ x \in Proc /\ LoadedInv(x) /\ x.task[t].status = "awaiting_approval"
        /\ \A u \in Tasks \ {t} : x.task[u] = w.task[u]
    BY <1>2, <1>3, TaskAdvanced DEF OpenTask, TaskStatus
  <2> HIDE DEF x, t
  <2>2. /\ y \in Proc /\ y.run.status = "awaiting_approval" /\ y.wroteRun = TRUE
        /\ y.task = x.task /\ y.wrote = x.wrote
    <3>1. "awaiting_approval" \in RunStatus
      BY DEF RunStatus
    <3> QED BY <2>1, <3>1, RunWritten
  <2> HIDE DEF y
  <2>3. z \in Run /\ z.status = "awaiting_approval"
    <3>1. y.run \in Run /\ w.steps \in 0..MaxSteps
      BY <1>2, <2>2, ProcFields
    <3> QED BY <2>2, <3>1 DEF Run
  <2>4. v = [y EXCEPT !.run = z, !.approval = "pending", !.pc = "returning"]
    BY <2>2 DEF Proc
  <2> HIDE DEF v, z
  <2>5. /\ v \in Proc /\ v.pc = "returning" /\ v.run = z /\ v.approval = "pending"
        /\ v.wroteRun = TRUE /\ v.task = x.task /\ v.wrote = x.wrote
    BY <2>2, <2>3, <2>4 DEF Proc, ApprovalStatus
  <2>6. LoadedInv(v)
    BY <2>1, <2>5 DEF LoadedInv
  <2>7. Persisted(v.task) /\ OpenIn(v.task, {"pending", "awaiting_approval"})
    <3>1. \A u \in Tasks \ {t} : w.task[u].status \in OpenTask => w.task[u].status = "pending"
      BY <1>1, <1>2 DEF AtTasks, t
    <3> QED BY <3>1, <1>2, <1>3, <2>1, <2>5 DEF AtTasks, Persisted, OpenIn
  <2>8. Busy(v) /\ CoordinatorInv(v) /\ Coordinator \notin Resolvers
    BY <2>3, <2>5, <2>7, AgentConstants DEF Busy, CoordinatorInv
  <2>9. acted' \in Nat /\ w.pc # "returning"
    BY <1>1 DEF IInv, TypeOK
  <2> USE DEF w
  <2> QED BY <1>1, <1>2, <1>5, <2>5, <2>6, <2>8, <2>9, LocalStep
<1> QED BY <1>4, <1>5

----------------------------------------------------------------------------
(* The answers to the approval.                                               *)

LEMMA ContinueResumedStep ==
  ASSUME IInv, NEW r \in Resolvers, ContinueResumed(r)
  PROVE  IInv'
<1> DEFINE w == proc[r]
           v == [w EXCEPT !.pc = "between"]
<1>1. w.pc = "settled" /\ UNCHANGED <<run, task, approval, cancel, acted>>
  BY DEF ContinueResumed
<1>2. r \in Procs /\ w \in Proc /\ Busy(w) /\ LoadedInv(w) /\ AtTasks(w) /\ MayWrite(r)
  BY <1>1, InTheLoop DEF Procs
<1>3. CASE w.asks
  BY <1>1, <1>2, <1>3, GivesUp DEF ContinueResumed
<1>4. CASE ~w.asks
  <2>1. proc' = [proc EXCEPT ![r] = v]
    BY <1>2, <1>4 DEF ContinueResumed, IInv, TypeOK
  <2> HIDE DEF w
  <2>2. /\ v \in Proc /\ v.pc = "between" /\ v.run = w.run /\ v.approval = w.approval
        /\ v.wroteRun = w.wroteRun /\ v.task = w.task /\ v.wrote = w.wrote
    BY <1>2 DEF Proc
  <2> HIDE DEF v
  <2>3. LoadedInv(v)
    BY <1>2, <2>2 DEF LoadedInv
  <2>4. AtTasks(v)
    BY <1>1, <1>2, <1>4, <2>2 DEF AtTasks, OpenIn, OpenTask, TerminalTask
  <2> USE DEF w
  <2> QED BY <1>1, <1>2, <2>1, <2>2, <2>3, <2>4, LoopStep
<1> QED BY <1>3, <1>4

(* An answer marks the task that asked and the run; the tasks it leaves       *)
(* unfinished are pending.                                                    *)
LEMMA Answer ==
  ASSUME IInv, NEW r \in Resolvers, proc[r].pc = "locked",
         NEW a \in ApprovalStatus, NEW o \in TerminalTask, NEW s \in RunStatus
  PROVE  LET w == proc[r]
             v == Resolved(w, a, o, s)
         IN  /\ r \in Procs /\ w \in Proc /\ Busy(w) /\ v \in Proc
             /\ v.run.status = s /\ v.wroteRun = TRUE /\ v.approval = a
             /\ LoadedInv(v) /\ Persisted(v.task)
             /\ OpenIn(v.task, {"pending"})
<1> DEFINE w == proc[r]
           T == Asking(w)
           x == SetRun(w, s)
           U == [t \in Tasks |-> IF t \in T THEN [w.task[t] EXCEPT !.status = o] ELSE w.task[t]]
           v == Resolved(w, a, o, s)
<1>1. r \in Procs /\ w \in Proc /\ Busy(w) /\ LoadedInv(w)
  BY WhatIsLoaded DEF Procs, Busy
<1>2. /\ w.task = task /\ Persisted(task) /\ OpenIn(task, {"pending", "awaiting_approval"})
      /\ DependentsWaitIn(task) /\ T \in SUBSET Tasks
  <2>1. w.task = task
    BY DEF IInv, RunInv, ResolverInv
  <2>2. /\ run.status = "awaiting_approval" /\ Persisted(task) /\ DependentsWaitIn(task)
        /\ OpenIn(task, {"pending", "awaiting_approval"})
    BY <1>1 DEF IInv, RunInv, TurnsInv, RowsInv
  <2> QED BY <2>1, <2>2 DEF Asking
<1> HIDE DEF w
<1>3. /\ x \in Proc /\ x.run.status = s /\ x.wroteRun = TRUE
      /\ x.task = w.task /\ x.wrote = w.wrote
  BY <1>1, RunWritten
<1>4. v = [x EXCEPT !.approval = a, !.wrote = T, !.task = U]
  BY DEF Resolved
<1> HIDE DEF x, T, v
<1>5. w.task \in [Tasks -> Task] /\ o \in TaskStatus
  BY <1>1, ProcFields DEF TaskStatus
<1>6. \A t \in Tasks :
        /\ U[t] \in Task
        /\ t \notin T => U[t] = w.task[t]
        /\ t \in T => U[t].status = o
        /\ U[t].started = w.task[t].started
  <2> TAKE t \in Tasks
  <2>1. w.task[t] \in Task
    BY <1>5
  <2> QED BY <1>5, <2>1 DEF Task
<1>7. U \in [Tasks -> Task]
  BY <1>6
<1> HIDE DEF U
<1>8. /\ v \in Proc /\ v.run = x.run /\ v.wroteRun = TRUE /\ v.approval = a
      /\ v.wrote = T /\ v.task = U
  BY <1>2, <1>3, <1>4, <1>7 DEF Proc
<1>9. \A t \in Tasks : t \in T <=> w.task[t].status = "awaiting_approval"
  BY DEF T, Asking
<1>10. DependentsWaitIn(U)
  <2> SUFFICES ASSUME NEW t \in Tasks, U[t].started, NEW d \in Deps[t]
               PROVE  U[d].status = "succeeded"
    BY DEF DependentsWaitIn
  <2>1. d \in Tasks /\ w.task[d].status = "succeeded"
    BY <1>2, <1>6, AgentConstants DEF DependentsWaitIn
  <2> QED BY <2>1, <1>6, <1>9
<1>11. LoadedInv(v)
  BY <1>2, <1>6, <1>8, <1>9, <1>10 DEF LoadedInv, TerminalTask
<1>12. Persisted(U) /\ OpenIn(U, {"pending"})
  BY <1>2, <1>6, <1>9 DEF Persisted, OpenIn, OpenTask, TerminalTask
<1> QED BY <1>1, <1>3, <1>8, <1>11, <1>12 DEF w, v

LEMMA ApproveStep ==
  ASSUME IInv, NEW r \in Resolvers, Approve(r)
  PROVE  IInv'
<1> DEFINE w == proc[r]
           x == Resolved(w, "approved", "succeeded", "running")
           v == [x EXCEPT !.pc = "between"]
<1>1. /\ w.pc = "locked" /\ ~CancelLocked /\ proc' = [proc EXCEPT ![r] = v]
      /\ UNCHANGED <<run, task, approval, cancel, acted>>
  BY DEF Approve
<1>2. "approved" \in ApprovalStatus /\ "succeeded" \in TerminalTask /\ "running" \in RunStatus
  BY DEF ApprovalStatus, TerminalTask, RunStatus, ActiveRun
<1>3. /\ r \in Procs /\ w \in Proc /\ Busy(w) /\ x \in Proc
      /\ x.run.status = "running" /\ x.wroteRun = TRUE /\ x.approval = "approved"
      /\ LoadedInv(x) /\ Persisted(x.task) /\ OpenIn(x.task, {"pending"})
  BY <1>1, <1>2, Answer
<1> HIDE DEF w, x
<1>4. /\ v \in Proc /\ v.pc = "between" /\ v.run = x.run /\ v.wroteRun = x.wroteRun
      /\ v.approval = x.approval /\ v.task = x.task /\ v.wrote = x.wrote
  BY <1>3 DEF Proc
<1> HIDE DEF v
<1>5. LoadedInv(v)
  BY <1>3, <1>4 DEF LoadedInv
<1>6. AtTasks(v)
  BY <1>3, <1>4 DEF AtTasks
<1>7. Busy(v) /\ ResolverInv(v) /\ r # Coordinator /\ MayWrite(r)
  BY <1>1, <1>3, <1>4, <1>6, AgentConstants DEF Busy, ResolverInv, MayWrite
<1>8. acted' \in Nat /\ w.pc # "returning"
  BY <1>1 DEF IInv, TypeOK
<1> USE DEF w
<1> QED BY <1>1, <1>3, <1>4, <1>5, <1>7, <1>8, LocalStep

LEMMA RejectStep ==
  ASSUME IInv, NEW r \in Resolvers, Reject(r)
  PROVE  IInv'
<1> DEFINE w == proc[r]
           x == Resolved(w, "rejected", "skipped", "completed")
           S == {t \in Tasks : x.task[t].status \in {"pending", "ready"}}
           U == [t \in Tasks |-> IF t \in S THEN [x.task[t] EXCEPT !.status = "skipped"] ELSE x.task[t]]
           W == x.wrote \cup S
           v == [x EXCEPT !.pc = "returning", !.wrote = W, !.task = U]
<1>1. /\ w.pc = "locked" /\ ~CancelLocked /\ proc' = [proc EXCEPT ![r] = v]
      /\ UNCHANGED <<run, task, approval, cancel, acted>>
  BY Zenon DEF Reject
<1>2. "rejected" \in ApprovalStatus /\ "skipped" \in TerminalTask /\ "completed" \in RunStatus
  BY DEF ApprovalStatus, TerminalTask, RunStatus, TerminalRun
<1>3. /\ r \in Procs /\ w \in Proc /\ Busy(w) /\ x \in Proc
      /\ x.run.status = "completed" /\ x.wroteRun = TRUE /\ x.approval = "rejected"
      /\ LoadedInv(x) /\ Persisted(x.task) /\ OpenIn(x.task, {"pending"})
  <2>1. w.pc = "locked"
    BY <1>1
  <2> HIDE DEF S, U, W, v
  <2> QED BY <1>2, <2>1, Answer
<1> HIDE DEF w, x
<1>4. W \in SUBSET Tasks /\ x.task \in [Tasks -> Task]
  BY <1>3, ProcFields
<1>5. \A t \in Tasks :
        /\ U[t] \in Task
        /\ t \notin S => U[t] = x.task[t]
        /\ t \in S => x.task[t].status \in {"pending", "ready"} /\ U[t].status = "skipped"
        /\ U[t].started = x.task[t].started
  <2> TAKE t \in Tasks
  <2>1. x.task[t] \in Task
    BY <1>4
  <2> QED BY <2>1 DEF Task, TaskStatus, TerminalTask
<1>6. U \in [Tasks -> Task]
  BY <1>5
<1>7. OpenIn(U, {})
  <2>1. \A t \in Tasks \ S : x.task[t].status # "pending"
    OBVIOUS
  <2> HIDE DEF S, U
  <2> QED BY <2>1, <1>3, <1>5 DEF OpenIn, OpenTask
<1> HIDE DEF U, W, S
<1>8. /\ v \in Proc /\ v.pc = "returning" /\ v.run = x.run /\ v.wroteRun = x.wroteRun
      /\ v.approval = x.approval /\ v.task = U /\ v.wrote = W
  BY <1>3, <1>4, <1>6 DEF Proc
<1> HIDE DEF v
<1>9. DependentsWaitIn(U)
  <2> SUFFICES ASSUME NEW t \in Tasks, U[t].started, NEW d \in Deps[t]
               PROVE  U[d].status = "succeeded"
    BY DEF DependentsWaitIn
  <2>1. d \in Tasks /\ x.task[d].status = "succeeded"
    BY <1>3, <1>5, AgentConstants DEF LoadedInv, DependentsWaitIn
  <2> QED BY <2>1, <1>5
<1>10. LoadedInv(v)
  BY <1>3, <1>5, <1>8, <1>9 DEF LoadedInv, TerminalTask, W
<1>11. Busy(v) /\ ResolverInv(v) /\ r # Coordinator /\ MayWrite(r)
  BY <1>1, <1>3, <1>7, <1>8, AgentConstants DEF Busy, ResolverInv, MayWrite
<1>12. acted' \in Nat /\ w.pc # "returning"
  BY <1>1 DEF IInv, TypeOK
<1> USE DEF w
<1> QED BY <1>1, <1>3, <1>8, <1>10, <1>11, <1>12, LocalStep

(* The approval is locked, the run is loaded. *)
LEMMA LockApprovalStep ==
  ASSUME IInv, NEW r \in Resolvers, LockApproval(r)
  PROVE  IInv'
<1> DEFINE v == [IdleProc EXCEPT !.pc = "locked", !.run = run, !.task = task, !.steps = StepsUsedSoFar]
<1>1. /\ proc[r].pc = "idle" /\ approval # "none" /\ ~ApprovalLocked
      /\ UNCHANGED <<run, task, approval, cancel, acted>>
  BY DEF LockApproval
<1>2. r \in Procs /\ r # Coordinator /\ Resolvers \subseteq Procs /\ Coordinator \in Procs
      /\ proc \in [Procs -> Proc]
  BY AgentConstants DEF Procs, IInv, TypeOK
<1>3. CASE run.status \in TerminalRun \/ approval # "pending"
  <2>1. Abandon(r, "done")
    BY <1>3 DEF LockApproval
  <2>2. /\ acted' \in Nat /\ cancel' \in [Cancels -> CancelRequest]
        /\ CancelLocked' => CancelLocked
        /\ Overruled' <=> Overruled
    BY <1>1 DEF IInv, TypeOK, CancelLocked, Overruled
  <2>3. /\ \A c \in Cancels \ Remote : cancel'[c].pc # "overruled"
        /\ \A c \in Cancels : cancel'[c].pc # "idle" => run.status # "none"
    BY <1>1 DEF IInv, RunInv, TurnsInv
  <2> QED BY <1>1, <1>2, <2>1, <2>2, <2>3, AbandonStep
<1>4. CASE run.status \notin TerminalRun /\ approval = "pending"
  <2>1. proc' = [proc EXCEPT ![r] = v]
    BY <1>4 DEF LockApproval
  <2>2. /\ run \in Run /\ task \in [Tasks -> Task] /\ DependentsWaitIn(task)
        /\ StepsUsedSoFar \in 0..MaxSteps
    BY DEF IInv, TypeOK, RunInv, RowsInv, StepsUsedSoFar, Run
  <2>3. IdleProc \in Proc
    BY Idle
  <2>4. /\ v \in Proc /\ v.pc = "locked" /\ v.run = run /\ v.task = task
        /\ v.wroteRun = FALSE /\ v.wrote = {}
    BY <2>2, <2>3 DEF Proc, IdleProc
  <2> HIDE DEF v
  <2>5. proc'[r] = v /\ \A q \in Procs \ {r} : proc'[q] = proc[q]
    BY <1>2, <2>1
  <2>6. TypeOK'
    BY <1>1, <1>2, <2>1, <2>4 DEF IInv, TypeOK
  <2>7. Overruled' <=> Overruled
    BY <1>1 DEF Overruled
  <2>8. RowsInv'
    BY <1>1, <2>7 DEF IInv, RunInv, RowsInv, Unplanned, Persisted, OpenIn, DependentsWaitIn
  <2>9. Busy(v) /\ ~Busy(proc[r])
    BY <1>1, <2>4 DEF Busy
  <2>10. \A q \in Resolvers : Busy(proc'[q]) <=> q = r
    BY <1>1, <1>2, <2>5, <2>9 DEF ApprovalLocked, Busy
  <2>11. TurnsInv'
    <3>1. proc'[Coordinator] = proc[Coordinator]
      BY <1>2, <2>5
    <3>2. CancelLocked' => \A q \in Procs : ~Writing(q)'
      BY <1>1, <2>4, <2>5 DEF IInv, RunInv, TurnsInv, Writing, CancelLocked
    <3> QED BY <1>1, <1>4, <2>7, <2>10, <3>1, <3>2 DEF IInv, RunInv, TurnsInv
  <2>12. \A q \in Procs : Busy(proc'[q]) => LoadedInv(proc[q])'
    <3>1. LoadedInv(proc[r])'
      BY <1>1, <2>2, <2>4, <2>5 DEF LoadedInv
    <3> QED BY <1>1, <2>5, <2>7, <3>1 DEF IInv, RunInv, LoadedInv
  <2>13. CoordinatorInv(proc[Coordinator])'
    <3>1. CoordinatorInv(proc'[Coordinator])
      BY <1>2, <2>5 DEF IInv, RunInv
    <3> QED BY <2>7, <3>1 DEF CoordinatorInv, AtTasks, Busy, OpenIn, Persisted, Unplanned,
                             DependenciesSucceeded
  <2>14. \A q \in Resolvers : ResolverInv(proc[q])'
    <3>1. ResolverInv(v)
      BY <2>4 DEF ResolverInv
    <3>2. \A q \in Resolvers : ResolverInv(proc'[q])
      BY <1>2, <2>5, <3>1 DEF IInv, RunInv
    <3> QED BY <1>1, <2>7, <3>2 DEF ResolverInv, AtTasks, OpenIn, Persisted, DependenciesSucceeded
  <2> QED BY <2>6, <2>8, <2>11, <2>12, <2>13, <2>14 DEF IInv, RunInv
<1> QED BY <1>3, <1>4

----------------------------------------------------------------------------
(* The cancel requests.                                                       *)

LEMMA CancelMoves ==
  ASSUME IInv, UNCHANGED <<run, task, approval, proc, acted>>,
         cancel' \in [Cancels -> CancelRequest],
         CancelLocked' => CancelLocked \/ \A p \in Procs : ~Writing(p),
         \A c \in Cancels : cancel'[c].pc = "overruled" <=> cancel[c].pc = "overruled",
         \A c \in Cancels : cancel'[c].pc # "idle" => cancel[c].pc # "idle" \/ run.status # "none",
         \A c \in Cancels \ Remote : cancel'[c].pc # "idle" =>
            cancel[c].pc # "idle" \/ proc[Coordinator].pc \in {"returning", "done", "gone"}
  PROVE  IInv'
<1>1. Overruled' <=> Overruled
  BY DEF Overruled
<1>2. TypeOK' /\ RowsInv'
  BY <1>1 DEF IInv, TypeOK, RunInv, RowsInv, Unplanned, Persisted, OpenIn, DependentsWaitIn
<1>3. TurnsInv'
  BY <1>1 DEF IInv, RunInv, TurnsInv, Writing
<1>4. \A q \in Procs : Busy(proc[q])' => LoadedInv(proc[q])'
  BY <1>1 DEF IInv, RunInv, LoadedInv
<1>5. CoordinatorInv(proc[Coordinator])' /\ \A r \in Resolvers : ResolverInv(proc[r])'
  BY <1>1 DEF IInv, RunInv, CoordinatorInv, ResolverInv, AtTasks
<1> QED BY <1>2, <1>3, <1>4, <1>5 DEF IInv, RunInv

LEMMA LockForCancelStep ==
  ASSUME IInv, NEW c \in Cancels, LockForCancel(c)
  PROVE  IInv'
<1>1. cancel \in [Cancels -> CancelRequest] /\ cancel[c].pc = "waiting"
  BY DEF LockForCancel, IInv, TypeOK
<1>2. cancel' \in [Cancels -> CancelRequest] /\ \A d \in Cancels \ {c} : cancel'[d] = cancel[d]
  BY <1>1 DEF LockForCancel, CancelRequest
<1>3. UNCHANGED <<run, task, approval, proc, acted>> /\ \A p \in Procs : ~Writing(p)
  BY DEF LockForCancel
<1>4. cancel'[c].pc \notin {"idle", "overruled"}
  BY <1>1 DEF LockForCancel
<1> QED BY <1>1, <1>2, <1>3, <1>4, CancelMoves

LEMMA DeadlockVictimStep ==
  ASSUME IInv, DeadlockVictim
  PROVE  IInv'
<1>1. PICK c \in Cancels, r \in Resolvers :
        /\ cancel[c].pc = "locked" /\ proc[r].pc = "locked"
        /\ \/ cancel' = [cancel EXCEPT ![c].pc = "done"] /\ UNCHANGED proc
           \/ Abandon(r, "done") /\ UNCHANGED cancel
        /\ UNCHANGED <<run, task, approval, acted>>
  BY DEF DeadlockVictim
<1>2. cancel \in [Cancels -> CancelRequest]
  BY DEF IInv, TypeOK
<1>3. CASE cancel' = [cancel EXCEPT ![c].pc = "done"] /\ UNCHANGED proc
  <2>1. /\ cancel' \in [Cancels -> CancelRequest] /\ cancel'[c].pc = "done"
        /\ \A d \in Cancels \ {c} : cancel'[d] = cancel[d]
    BY <1>2, <1>3 DEF CancelRequest
  <2>2. CancelLocked' => CancelLocked
    BY <2>1 DEF CancelLocked
  <2> QED BY <1>1, <1>3, <2>1, <2>2, CancelMoves
<1>4. CASE Abandon(r, "done") /\ UNCHANGED cancel
  <2>1. r \in Procs /\ Busy(proc[r])
    BY <1>1 DEF Procs, Busy
  <2> QED BY <1>1, <1>4, <2>1, GivesUp
<1> QED BY <1>1, <1>3, <1>4

LEMMA RequestCancelStep ==
  ASSUME IInv, NEW c \in Cancels, RequestCancel(c)
  PROVE  IInv'
<1>1. /\ cancel \in [Cancels -> CancelRequest] /\ run.status \in RunStatus
      /\ Coordinator \in Procs
  BY RunFields DEF IInv, TypeOK, Procs
<1>2. /\ cancel' \in [Cancels -> CancelRequest] /\ cancel'[c].pc = "waiting"
      /\ \A d \in Cancels \ {c} : cancel'[d] = cancel[d]
  BY <1>1 DEF RequestCancel, CancelRequest
<1>3. CancelLocked' => CancelLocked
  BY <1>2 DEF CancelLocked
<1>4. cancel[c].pc = "idle" /\ \A d \in Cancels : cancel'[d].pc = "overruled" <=> cancel[d].pc = "overruled"
  BY <1>2 DEF RequestCancel
<1>5. run.status # "none" /\ UNCHANGED <<run, task, approval, acted>>
  BY DEF RequestCancel
<1>6. CASE c \in Remote \/ proc[Coordinator].pc \in {"returning", "done", "gone"}
  <2>1. UNCHANGED proc
    BY <1>6 DEF RequestCancel
  <2>2. \A d \in Cancels \ Remote : cancel'[d].pc # "idle" =>
           cancel[d].pc # "idle" \/ proc[Coordinator].pc \in {"returning", "done", "gone"}
    BY <1>2, <1>6
  <2> QED BY <1>2, <1>3, <1>5, <1>4, <2>1, <2>2, CancelMoves
<1>7. CASE ~(c \in Remote \/ proc[Coordinator].pc \in {"returning", "done", "gone"})
  <2>1. Abandon(Coordinator, "gone")
    BY <1>7 DEF RequestCancel
  <2>2. proc[Coordinator].pc # "idle" /\ Coordinator \notin Resolvers /\ acted' \in Nat
    BY <1>5, AgentConstants DEF IInv, RunInv, TurnsInv, TypeOK
  <2>3. /\ Overruled' <=> Overruled
        /\ \A d \in Cancels \ Remote : cancel'[d].pc # "overruled"
    BY <1>4 DEF Overruled, IInv, RunInv, TurnsInv
  <2> QED BY <1>1, <1>2, <1>3, <1>5, <2>1, <2>2, <2>3, AbandonStep
<1> QED BY <1>6, <1>7
----------------------------------------------------------------------------
(* The steps that write rows.                                                 *)

(* Two processes never work on the run at a time. *)
LEMMA OneAtWork ==
  ASSUME IInv, NEW p \in Procs, NEW q \in Procs, Busy(proc[p]), Busy(proc[q])
  PROVE  p = q
<1>1. \A r \in Resolvers : Busy(proc[r]) => approval = "pending"
  BY DEF IInv, RunInv, TurnsInv
<1>2. Busy(proc[Coordinator]) => approval = "none"
  BY DEF IInv, RunInv, TurnsInv
<1>3. \A a, b \in Resolvers : Busy(proc[a]) /\ Busy(proc[b]) => a = b
  BY DEF IInv, RunInv, TurnsInv
<1> QED BY <1>1, <1>2, <1>3 DEF Procs

(* A commit makes the rows what the process has loaded and changed; what a   *)
(* cancellation has cancelled meanwhile and the process has not written stays *)
(* cancelled.                                                                 *)
LEMMA CommitMerges ==
  ASSUME NEW w \in Proc, task \in [Tasks -> Task], LoadedInv(w), Commit(w)
  PROVE  /\ w.wroteRun => run' = w.run
         /\ ~w.wroteRun => run' = run
         /\ approval' = IF w.approval = "none" THEN approval ELSE w.approval
         /\ task' \in [Tasks -> Task]
         /\ \A t \in Tasks :
              \/ task'[t] = w.task[t]
              \/ /\ Overruled /\ t \notin w.wrote
                 /\ w.task[t].status \in OpenTask /\ task'[t] = Cancelled(w.task[t])
         /\ DependentsWaitIn(task')
<1>1. w.task \in [Tasks -> Task]
  BY ProcFields
<1>2. task' = [t \in Tasks |-> IF t \in w.wrote THEN w.task[t] ELSE task[t]]
  BY DEF Commit, CommittedTasks
<1>3. task' \in [Tasks -> Task]
  BY <1>1, <1>2
<1>4. \A t \in Tasks : task'[t] = IF t \in w.wrote THEN w.task[t] ELSE task[t]
  BY <1>2
<1>5. \A t \in Tasks :
        \/ task'[t] = w.task[t]
        \/ /\ Overruled /\ t \notin w.wrote
           /\ w.task[t].status \in OpenTask /\ task'[t] = Cancelled(w.task[t])
  BY <1>4 DEF LoadedInv
<1>6. DependentsWaitIn(task')
  <2> SUFFICES ASSUME NEW t \in Tasks, task'[t].started, NEW d \in Deps[t]
               PROVE  task'[d].status = "succeeded"
    BY DEF DependentsWaitIn
  <2>1. w.task[t].started
    BY <1>1, <1>5 DEF Cancelled, Task
  <2>2. d \in Tasks /\ w.task[d].status = "succeeded"
    BY <2>1, AgentConstants DEF LoadedInv, DependentsWaitIn
  <2> QED BY <1>5, <2>2 DEF OpenTask
<1> QED BY <1>3, <1>5, <1>6 DEF Commit, CommittedRun

(* What is open after a commit was open in the loaded tasks. *)
LEMMA MergedTasks ==
  ASSUME NEW T \in [Tasks -> Task], NEW U \in [Tasks -> Task],
         \A t \in Tasks : U[t] = T[t] \/ (T[t].status \in OpenTask /\ U[t] = Cancelled(T[t]))
  PROVE  /\ \A t \in Tasks : /\ U[t].status \in OpenTask => U[t] = T[t]
                             /\ T[t].status \notin OpenTask => U[t] = T[t]
                             /\ U[t].started = T[t].started /\ U[t].retries = T[t].retries
                             /\ U[t].status = "pending" => T[t].status = "pending"
         /\ \A S : OpenIn(T, S) => OpenIn(U, S)
         /\ Persisted(T) => Persisted(U)
<1>1. \A t \in Tasks : U[t] # T[t] =>
        /\ U[t].status = "cancelled" /\ T[t].status \in OpenTask
        /\ U[t].started = T[t].started /\ U[t].retries = T[t].retries
  BY DEF Cancelled, Task
<1>2. \A S : OpenIn(T, S) => OpenIn(U, S)
  BY <1>1 DEF OpenIn, OpenTask
<1>3. Persisted(T) => Persisted(U)
  BY <1>1 DEF Persisted
<1> QED BY <1>1, <1>2, <1>3 DEF OpenTask

(* A step that changes the rows while nobody but p works on them. *)
LEMMA RowsStep ==
  ASSUME IInv, NEW p \in Procs, NEW v \in Proc,
         proc' = [proc EXCEPT ![p] = v], \A q \in Procs \ {p} : ~Busy(proc[q]),
         run' \in Run, task' \in [Tasks -> Task], approval' \in ApprovalStatus,
         UNCHANGED cancel, acted' \in Nat,
         RowsInv', TurnsInv',
         Busy(v) =>
           /\ v.run = run' /\ DependentsWaitIn(v.task)
           /\ \A t \in Tasks :
                \/ v.task[t] = task'[t]
                \/ Overruled /\ v.task[t].status \in OpenTask /\ task'[t] = Cancelled(v.task[t]),
         p = Coordinator => CoordinatorInv(v),
         p \in Resolvers => v.pc = "done"
  PROVE  IInv'
<1>1. proc \in [Procs -> Proc] /\ Coordinator \in Procs /\ Resolvers \subseteq Procs
      /\ Coordinator \notin Resolvers
  BY AgentConstants DEF IInv, TypeOK, Procs
<1>2. proc'[p] = v /\ \A q \in Procs \ {p} : proc'[q] = proc[q]
  BY <1>1
<1>3. Overruled' <=> Overruled
  BY DEF Overruled
<1>4. TypeOK'
  BY <1>1 DEF IInv, TypeOK
<1>5. \A q \in Procs : Busy(proc'[q]) => LoadedInv(proc[q])'
  <2>1. \A x \in Task : Cancelled(x).status = "cancelled"
    BY DEF Cancelled, Task
  <2>2. Busy(v) => \A t \in Tasks :
           /\ task'[t].status \in TerminalTask =>
                v.task[t].status = task'[t].status \/ (Overruled /\ task'[t].status = "cancelled")
           /\ task'[t].status # "none" => v.task[t].status # "none"
    <3> SUFFICES ASSUME Busy(v), NEW t \in Tasks, v.task[t] # task'[t]
                 PROVE  /\ Overruled /\ task'[t].status = "cancelled"
                        /\ v.task[t].status # "none"
      OBVIOUS
    <3>1. v.task[t] \in Task
      BY ProcFields
    <3> QED BY <2>1, <3>1 DEF OpenTask
  <2>3. Busy(v) => LoadedInv(proc[p])'
    BY <1>2, <1>3, <2>2 DEF LoadedInv, DependentsWaitIn
  <2> QED BY <1>2, <2>3
<1>6. CoordinatorInv(proc[Coordinator])'
  <2>1. CoordinatorInv(proc'[Coordinator])
    BY <1>1, <1>2 DEF IInv, RunInv
  <2> QED BY <1>3, <2>1 DEF CoordinatorInv, AtTasks, Busy, OpenIn, Persisted, Unplanned, DependenciesSucceeded
<1>7. \A r \in Resolvers : ResolverInv(proc[r])'
  <2>1. \A r \in Resolvers : proc'[r].pc \in {"idle", "done", "gone"}
    BY <1>1, <1>2 DEF Busy
  <2> QED BY <2>1 DEF ResolverInv
<1> QED BY <1>4, <1>5, <1>6, <1>7 DEF IInv, RunInv

LEMMA StartRunStep ==
  ASSUME IInv, StartRun
  PROVE  IInv'
<1> DEFINE w == proc[Coordinator]
           n == [NoRun EXCEPT !.status = "pending"]
           v == [w EXCEPT !.pc = "started", !.run = n]
<1>1. /\ w.pc = "idle" /\ run' = n /\ proc' = [proc EXCEPT ![Coordinator] = v]
      /\ UNCHANGED <<task, approval, cancel, acted>>
  BY DEF StartRun, IInv, TypeOK, Procs
<1>2. Coordinator \in Procs /\ w \in Proc /\ proc \in [Procs -> Proc]
      /\ Resolvers \subseteq Procs /\ Coordinator \notin Resolvers
  BY AgentConstants DEF Procs, IInv, TypeOK
<1>3. n \in Run /\ n.status = "pending"
  <2>1. NoRun \in Run
    BY AgentConstants DEF NoRun, Run, RunStatus
  <2>2. "pending" \in RunStatus
    BY DEF RunStatus, ActiveRun
  <2> QED BY <2>1, <2>2 DEF Run
<1>4. /\ run.status = "none" /\ Unplanned(task) /\ approval = "none"
      /\ \A r \in Resolvers : proc[r].pc = "idle"
      /\ \A c \in Cancels : cancel[c].pc = "idle"
  BY <1>1 DEF IInv, RunInv, TurnsInv, RowsInv
<1>5. w = IdleProc
  BY <1>1 DEF IInv, RunInv, CoordinatorInv
<1> HIDE DEF w, n
<1>6. /\ v \in Proc /\ v.pc = "started" /\ v.run = n /\ v.task = w.task
      /\ v.approval = w.approval /\ v.wrote = w.wrote /\ v.wroteRun = w.wroteRun
  BY <1>2, <1>3 DEF Proc
<1>7. w.task = [t \in Tasks |-> NoTask] /\ w.approval = "none" /\ w.wrote = {} /\ w.wroteRun = FALSE
  BY <1>5 DEF IdleProc
<1> HIDE DEF v
<1>8. proc'[Coordinator] = v /\ \A q \in Procs \ {Coordinator} : proc'[q] = proc[q]
  BY <1>1, <1>2
<1>9. CoordinatorInv(v) /\ Busy(v)
  BY <1>3, <1>6, <1>7 DEF CoordinatorInv, Busy, Unplanned, NoTask, ActiveRun
<1>10. RowsInv'
  <2>1. \A t \in Tasks : task[t].started => \A d \in Deps[t] : task[d].status = "succeeded"
    BY DEF IInv, RunInv, RowsInv, DependentsWaitIn
  <2> QED BY <1>1, <1>3, <1>4, <2>1 DEF RowsInv, DependentsWaitIn, ActiveRun, TerminalRun
<1>11. TurnsInv'
  <2>1. ~CancelLocked'
    BY <1>1, <1>4 DEF CancelLocked
  <2>2. \A r \in Resolvers : proc'[r].pc = "idle" /\ ~Busy(proc'[r])
    BY <1>2, <1>4, <1>8 DEF Busy
  <2> QED BY <1>1, <1>3, <1>4, <1>6, <1>8, <2>1, <2>2 DEF TurnsInv, ActiveRun
<1>12. v.run = run' /\ v.task = task' /\ DependentsWaitIn(v.task)
  <2>1. v.run = run' /\ v.task = task'
    BY <1>1, <1>4, <1>6, <1>7 DEF Unplanned
  <2> QED BY <1>10, <2>1 DEF RowsInv, DependentsWaitIn
<1>13. \A q \in Procs \ {Coordinator} : ~Busy(proc[q])
  BY <1>4 DEF Procs, Busy
<1>14. /\ run' \in Run /\ task' \in [Tasks -> Task] /\ approval' \in ApprovalStatus
       /\ UNCHANGED cancel /\ acted' \in Nat
  BY <1>1, <1>3 DEF IInv, TypeOK
<1> USE DEF w
<1> QED BY <1>1, <1>2, <1>6, <1>9, <1>10, <1>11, <1>12, <1>13, <1>14, RowsStep

(* The plan is persisted. *)
LEMMA AcceptPlanStep ==
  ASSUME IInv, AcceptPlan
  PROVE  IInv'
<1> DEFINE w == proc[Coordinator]
           x == SetRun(w, "running")
           T == [t \in Tasks |-> [NoTask EXCEPT !.status = "pending"]]
           y == [x EXCEPT !.task = T, !.wrote = Tasks]
           v == [y EXCEPT !.pc = "between", !.wroteRun = FALSE, !.wrote = {}]
<1>1. /\ w.pc = "planning" /\ Commit(y) /\ proc' = [proc EXCEPT ![Coordinator] = v]
      /\ UNCHANGED <<cancel, acted>>
  BY Zenon DEF AcceptPlan
<1>2. /\ Coordinator \in Procs /\ w \in Proc /\ Busy(w) /\ LoadedInv(w)
      /\ w.approval = "none" /\ Unplanned(task)
  BY <1>1, BeforeTheLoop
<1>3. ~CancelLocked
  <2>1. Writing(Coordinator)
    BY <1>1, <1>2 DEF IInv, RunInv, CoordinatorInv, Writing
  <2> QED BY <1>2, <2>1 DEF IInv, RunInv, TurnsInv
<1>4. /\ Resolvers \subseteq Procs /\ Coordinator \notin Resolvers /\ proc \in [Procs -> Proc]
  BY AgentConstants DEF Procs, IInv, TypeOK
<1> HIDE DEF w
<1>5. /\ x \in Proc /\ x.run.status = "running" /\ x.wroteRun = TRUE /\ x.approval = "none"
  <2>1. "running" \in RunStatus
    BY DEF RunStatus, ActiveRun
  <2> QED BY <1>2, <2>1, RunWritten
<1>6. T \in [Tasks -> Task] /\ \A t \in Tasks : T[t].status = "pending" /\ T[t].started = FALSE
  <2>1. NoTask \in Task /\ NoTask.started = FALSE
    BY AgentConstants DEF NoTask, Task, TaskStatus
  <2>2. "pending" \in TaskStatus
    BY DEF TaskStatus, OpenTask
  <2>3. LET new == [NoTask EXCEPT !.status = "pending"]
        IN  new \in Task /\ new.status = "pending" /\ new.started = FALSE
    BY <2>1, <2>2 DEF Task
  <2> QED BY <2>3
<1> HIDE DEF x, T
<1>7. /\ y \in Proc /\ y.run = x.run /\ y.wroteRun = TRUE /\ y.approval = "none"
      /\ y.task = T /\ y.wrote = Tasks
  BY <1>5, <1>6 DEF Proc
<1> HIDE DEF y
<1>8. DependentsWaitIn(T)
  BY <1>6 DEF DependentsWaitIn
<1>9. run' = x.run /\ task' = T /\ approval' = approval
  <2>1. task' = [t \in Tasks |-> T[t]]
    BY <1>1, <1>7 DEF Commit, CommittedTasks
  <2> QED BY <1>1, <1>6, <1>7, <2>1 DEF Commit, CommittedRun
<1>10. /\ v \in Proc /\ v.pc = "between" /\ v.run = x.run /\ v.task = T /\ v.approval = "none"
       /\ v.wroteRun = FALSE /\ v.wrote = {}
  BY <1>7 DEF Proc
<1> HIDE DEF v
<1>11. Busy(v) /\ CoordinatorInv(v)
  BY <1>5, <1>6, <1>10 DEF Busy, CoordinatorInv, AtTasks, Persisted, OpenIn
<1>12. /\ approval = "none"
       /\ \A r \in Resolvers : proc[r].pc = "idle"
       /\ \A c \in Cancels \ Remote : cancel[c].pc = "idle" /\ cancel[c].pc # "overruled"
  BY <1>1, <1>2 DEF IInv, RunInv, TurnsInv, RowsInv, w
<1>13. RowsInv'
  BY <1>5, <1>8, <1>9, <1>12 DEF RowsInv, DependentsWaitIn, ActiveRun, TerminalRun
<1>14. TurnsInv'
  <2>1. ~CancelLocked'
    BY <1>1, <1>3 DEF CancelLocked
  <2>2. proc'[Coordinator] = v /\ \A r \in Resolvers : proc'[r].pc = "idle" /\ ~Busy(proc'[r])
    BY <1>1, <1>2, <1>4, <1>12 DEF Busy
  <2> QED BY <1>1, <1>5, <1>9, <1>10, <1>12, <2>1, <2>2 DEF TurnsInv, ActiveRun
<1>15. \A q \in Procs \ {Coordinator} : ~Busy(proc[q])
  BY <1>12 DEF Procs, Busy
<1>16. /\ run' \in Run /\ task' \in [Tasks -> Task] /\ approval' \in ApprovalStatus
       /\ UNCHANGED cancel /\ acted' \in Nat
  BY <1>1, <1>5, <1>6, <1>9, ProcFields DEF IInv, TypeOK
<1> USE DEF w
<1> QED BY <1>1, <1>2, <1>4, <1>8, <1>9, <1>10, <1>11, <1>13, <1>14, <1>15, <1>16, RowsStep

(* The checkpoint between two tasks commits and refreshes. *)
LEMMA CheckpointStep ==
  ASSUME IInv, Checkpoint
  PROVE  IInv'
<1> DEFINE w == proc[Coordinator]
           pc == IF w.asks THEN "asking" ELSE "between"
           v == [w EXCEPT !.run = run', !.task[w.cur] = task'[w.cur], !.wroteRun = FALSE,
                          !.wrote = {}, !.pc = pc]
<1>1. /\ w.pc = "settled" /\ Commit(w) /\ proc' = [proc EXCEPT ![Coordinator] = v]
      /\ UNCHANGED <<cancel, acted>>
  BY Zenon DEF Checkpoint
<1>2. /\ Coordinator \in Procs /\ w \in Proc /\ LoadedInv(w) /\ AtTasks(w)
      /\ w.approval = "none" /\ w.wroteRun = FALSE
  BY <1>1, InTheLoop DEF Procs
<1>3. /\ Resolvers \subseteq Procs /\ Coordinator \notin Resolvers /\ proc \in [Procs -> Proc]
      /\ task \in [Tasks -> Task] /\ run \in Run
  BY AgentConstants DEF Procs, IInv, TypeOK
<1>4. /\ run' = run
      /\ approval' = approval /\ task' \in [Tasks -> Task] /\ DependentsWaitIn(task')
      /\ \A t \in Tasks :
           \/ task'[t] = w.task[t]
           \/ /\ Overruled /\ t \notin w.wrote
              /\ w.task[t].status \in OpenTask /\ task'[t] = Cancelled(w.task[t])
  BY <1>1, <1>2, <1>3, CommitMerges
<1>5. /\ approval = "none"
      /\ \A r \in Resolvers : proc[r].pc = "idle"
      /\ \A c \in Cancels \ Remote : cancel[c].pc = "idle" /\ cancel[c].pc # "overruled"
      /\ run.status \in ActiveRun \/ (Overruled /\ run.status = "cancelled")
  BY <1>1 DEF IInv, RunInv, TurnsInv, Busy
<1>6. w.cur \in Tasks /\ w.cur \in w.wrote /\ w.task \in [Tasks -> Task] /\ w.run \in Run
  BY <1>1, <1>2, ProcFields DEF AtTasks
<1>7. ~CancelLocked /\ (Overruled' <=> Overruled)
  <2>1. Writing(Coordinator)
    BY <1>6 DEF Writing
  <2> QED BY <1>1, <1>2, <2>1 DEF IInv, RunInv, TurnsInv, Overruled
<1>8. /\ run' = run
      /\ ~Overruled => run = w.run /\ task' = w.task /\ run.status = "running"
  <2>1. ~Overruled => task' = w.task
    BY <1>4, <1>6
  <2> QED BY <1>2, <1>4, <2>1 DEF AtTasks, LoadedInv
<1>9. /\ \A t \in Tasks : /\ task'[t].status \in OpenTask => task'[t] = w.task[t]
                        /\ w.task[t].status \notin OpenTask => task'[t] = w.task[t]
      /\ Persisted(task')
  BY <1>2, <1>4, <1>6, MergedTasks DEF AtTasks
<1> HIDE DEF w
<1>10. [w.task EXCEPT ![w.cur] = task'[w.cur]] = w.task
  BY <1>4, <1>6
<1>11. v = [w EXCEPT !.run = run', !.task = w.task, !.wroteRun = FALSE, !.wrote = {}, !.pc = pc]
  BY <1>2, <1>10 DEF Proc
<1>12. pc \in {"asking", "between"}
  OBVIOUS
<1> HIDE DEF v, pc
<1>13. /\ v \in Proc /\ v.pc = pc /\ v.run = run' /\ v.task = w.task /\ v.cur = w.cur
       /\ v.approval = "none" /\ v.wroteRun = FALSE /\ v.wrote = {}
  <2>1. v \in Proc
    BY <1>2, <1>3, <1>6, <1>8, <1>11, <1>12 DEF Proc
  <2> QED BY <1>2, <1>11, <2>1 DEF Proc
<1>14. AtTasks(v)
  <2>1. v.run.status = "running" \/ Overruled
    BY <1>8, <1>13
  <2>2. CASE w.asks
    BY <1>1, <1>2, <1>13, <2>1, <2>2 DEF AtTasks, pc
  <2>3. CASE ~w.asks
    BY <1>1, <1>2, <1>13, <2>1, <2>3 DEF AtTasks, pc, OpenIn, OpenTask, TerminalTask
  <2> QED BY <2>2, <2>3
<1>15. Busy(v) /\ CoordinatorInv(v)
  BY <1>12, <1>13, <1>14 DEF Busy, CoordinatorInv
<1>16. RowsInv'
  <2>1. run'.status \in ActiveRun \/ (Overruled' /\ run'.status = "cancelled")
    BY <1>5, <1>7, <1>8
  <2>2. "cancelled" \notin {"none", "awaiting_approval"} \cup ActiveRun
    BY DEF ActiveRun
  <2> QED BY <1>4, <1>5, <2>1, <2>2 DEF RowsInv, DependentsWaitIn, ActiveRun, TerminalRun
<1>17. TurnsInv'
  <2>1. ~CancelLocked'
    BY <1>1, <1>7 DEF CancelLocked
  <2>2. proc'[Coordinator] = v /\ \A r \in Resolvers : proc'[r].pc = "idle" /\ ~Busy(proc'[r])
    BY <1>1, <1>2, <1>3, <1>5 DEF Busy
  <2>3. run'.status \in ActiveRun \/ (Overruled' /\ run'.status = "cancelled")
    BY <1>5, <1>7, <1>8
  <2>4. run'.status # "none"
    BY <2>3 DEF ActiveRun
  <2> QED BY <1>1, <1>4, <1>5, <1>12, <1>13, <2>1, <2>2, <2>3, <2>4 DEF TurnsInv
<1>18. \A q \in Procs \ {Coordinator} : ~Busy(proc[q])
  BY <1>5 DEF Procs, Busy
<1>19. /\ run' \in Run /\ task' \in [Tasks -> Task] /\ approval' \in ApprovalStatus
       /\ UNCHANGED cancel /\ acted' \in Nat
  BY <1>1, <1>3, <1>4, <1>8 DEF IInv, TypeOK
<1>20. /\ v.run = run' /\ DependentsWaitIn(v.task)
       /\ \A t \in Tasks :
            \/ v.task[t] = task'[t]
            \/ Overruled /\ v.task[t].status \in OpenTask /\ task'[t] = Cancelled(v.task[t])
  BY <1>2, <1>4, <1>13 DEF LoadedInv
<1> USE DEF w
<1> QED BY <1>1, <1>2, <1>3, <1>13, <1>15, <1>16, <1>17, <1>18, <1>19, <1>20, RowsStep

(* What a returning process commits *)
LEMMA ResultFacts ==
  ASSUME IInv, NEW p \in Procs, CommitResult(p)
  PROVE  LET w == proc[p]
         IN  /\ w \in Proc /\ Busy(w) /\ w.wroteRun = TRUE
             /\ run' = w.run /\ LoadedInv(w)
             /\ task' \in [Tasks -> Task] /\ DependentsWaitIn(task')
             /\ ~Overruled => task' = w.task /\ (p = Coordinator => run.status \in ActiveRun)
             /\ \A t \in Tasks :
                  \/ task'[t] = w.task[t]
                  \/ w.task[t].status \in OpenTask /\ task'[t] = Cancelled(w.task[t])
             /\ \A q \in Procs \ {p} : ~Busy(proc[q])
             /\ \/ /\ p = Coordinator /\ run.status # "none" /\ approval = "none"
                   /\ w.run.status \in TerminalRun /\ OpenIn(w.task, {}) /\ w.approval = "none"
                   /\ approval' = "none"
                \/ /\ p = Coordinator /\ run.status # "none" /\ approval = "none"
                   /\ w.run.status = "awaiting_approval" /\ w.approval = "pending"
                   /\ Persisted(w.task) /\ OpenIn(w.task, {"pending", "awaiting_approval"})
                   /\ approval' = "pending"
                \/ /\ p # Coordinator /\ run.status = "awaiting_approval" /\ approval = "pending"
                   /\ w.run.status = "completed" /\ OpenIn(w.task, {})
                   /\ w.approval \in {"approved", "rejected"} /\ approval' = w.approval
<1> DEFINE w == proc[p]
<1>1. w.pc = "returning" /\ Commit(w)
  BY DEF CommitResult
<1>2. w \in Proc /\ Busy(w) /\ LoadedInv(w)
  BY <1>1, WhatIsLoaded DEF Busy
<1>3. /\ w.wroteRun => run' = w.run
      /\ approval' = IF w.approval = "none" THEN approval ELSE w.approval
      /\ task' \in [Tasks -> Task] /\ DependentsWaitIn(task')
      /\ \A t \in Tasks :
           \/ task'[t] = w.task[t]
           \/ Overruled /\ w.task[t].status \in OpenTask /\ task'[t] = Cancelled(w.task[t])
  <2>1. task \in [Tasks -> Task]
    BY DEF IInv, TypeOK
  <2> HIDE DEF w
  <2> QED BY <1>1, <1>2, <2>1, CommitMerges
<1>4. ~Overruled => task' = w.task
  <2>1. w.task \in [Tasks -> Task]
    BY <1>2, ProcFields
  <2> QED BY <1>3, <2>1
<1>5. \A q \in Procs \ {p} : ~Busy(proc[q])
  BY <1>2, OneAtWork
<1>6. CASE p = Coordinator
  <2>1. approval = "none" /\ run.status # "none" /\ (~Overruled => run.status \in ActiveRun)
    BY <1>1, <1>2, <1>6 DEF IInv, RunInv, TurnsInv
  <2>2. /\ w.wroteRun
        /\ \/ w.run.status \in TerminalRun /\ w.approval = "none" /\ OpenIn(w.task, {})
           \/ /\ w.run.status = "awaiting_approval" /\ w.approval = "pending"
              /\ Persisted(w.task) /\ OpenIn(w.task, {"pending", "awaiting_approval"})
    BY <1>1, <1>6, WhatIsLoaded DEF CoordinatorInv
  <2>3. w.wroteRun = TRUE
    BY <1>2, <2>2, ProcFields
  <2> QED BY <1>2, <1>3, <1>5, <1>6, <1>4, <2>1, <2>2, <2>3
<1>7. CASE p # Coordinator
  <2>1. p \in Resolvers /\ run.status = "awaiting_approval" /\ approval = "pending"
    BY <1>2, <1>7 DEF IInv, RunInv, TurnsInv, RowsInv, Procs
  <2>2. w.wroteRun /\ w.run.status = "completed" /\ w.approval \in {"approved", "rejected"}
        /\ OpenIn(w.task, {})
    BY <1>1, <1>7, WhatIsLoaded DEF ResolverInv
  <2>3. w.wroteRun = TRUE
    BY <1>2, <2>2, ProcFields
  <2> QED BY <1>2, <1>3, <1>5, <1>7, <1>4, <2>1, <2>2, <2>3
<1> QED BY <1>6, <1>7

(* The commit of the chat turn, or of the approval request *)
LEMMA CommitResultStep ==
  ASSUME IInv, NEW p \in Procs, CommitResult(p)
  PROVE  IInv'
<1> DEFINE w == proc[p]
           v == [IdleProc EXCEPT !.pc = "done"]
<1>1. proc' = [proc EXCEPT ![p] = v] /\ UNCHANGED cancel
      /\ acted' = IF p # Coordinator /\ w.approval = "approved" THEN acted + 1 ELSE acted
  BY Zenon DEF CommitResult
<1>2. /\ Resolvers \subseteq Procs /\ Coordinator \notin Resolvers /\ Coordinator \in Procs
      /\ proc \in [Procs -> Proc]
  BY AgentConstants DEF Procs, IInv, TypeOK
<1>3. v \in Proc /\ v.pc = "done" /\ v.wroteRun = FALSE /\ v.wrote = {}
  BY Idle
<1> HIDE DEF v
<1>4. /\ w \in Proc /\ Busy(w) /\ run' = w.run /\ DependentsWaitIn(task') /\ task' \in [Tasks -> Task]
      /\ \A q \in Procs \ {p} : ~Busy(proc[q])
  BY ResultFacts
<1>5. proc'[p] = v /\ \A q \in Procs \ {p} : proc'[q] = proc[q]
  BY <1>1, <1>2
<1>6. DependentsWaitIn(task')
  BY <1>4
<1>7. \/ /\ run'.status \in TerminalRun /\ OpenIn(task', {}) /\ approval' \in {"none", "approved", "rejected"}
      \/ /\ run'.status = "awaiting_approval" /\ approval' = "pending"
         /\ Persisted(task') /\ OpenIn(task', {"pending", "awaiting_approval"})
  <2>1. "completed" \in TerminalRun
    BY DEF TerminalRun
  <2>2. w.task \in [Tasks -> Task]
    BY <1>4, ProcFields
  <2>3. /\ \A S : OpenIn(w.task, S) => OpenIn(task', S)
        /\ Persisted(w.task) => Persisted(task')
    BY <1>4, <2>2, ResultFacts, MergedTasks
  <2> QED BY <2>1, <2>3, ResultFacts
<1>8. RowsInv'
  BY <1>6, <1>7 DEF RowsInv, DependentsWaitIn, Persisted, OpenIn, ActiveRun, TerminalRun
<1>9. TurnsInv'
  <2>1. \A q \in Procs : ~Busy(proc'[q])
    BY <1>3, <1>4, <1>5 DEF Busy
  <2>2. CancelLocked' => \A q \in Procs : ~Writing(q)'
    BY <1>1, <1>3, <1>5 DEF IInv, RunInv, TurnsInv, Writing, CancelLocked
  <2>3. proc'[Coordinator].pc # "idle"
    <3>1. CASE p = Coordinator
      BY <1>3, <1>5, <3>1
    <3>2. CASE p # Coordinator
      <4>1. run.status # "none"
        BY <3>2, ResultFacts
      <4> QED BY <1>2, <1>5, <3>2, <4>1 DEF IInv, RunInv, TurnsInv
    <3> QED BY <3>1, <3>2
  <2>4. run'.status # "none"
    BY <1>7 DEF TerminalRun
  <2>5. approval' = "none" => \A r \in Resolvers : proc'[r].pc = "idle"
    <3>1. approval' = "none" => p = Coordinator /\ approval = "none"
      BY ResultFacts
    <3> QED BY <1>2, <1>5, <3>1 DEF IInv, RunInv, TurnsInv
  <2>6. \A c \in Cancels \ Remote :
           /\ cancel'[c].pc # "idle" => proc'[Coordinator].pc \in {"returning", "done", "gone"}
           /\ cancel'[c].pc # "overruled"
    BY <1>1, <1>2, <1>3, <1>5 DEF IInv, RunInv, TurnsInv
  <2> QED BY <1>2, <2>1, <2>2, <2>3, <2>4, <2>5, <2>6 DEF TurnsInv
<1>10. /\ run' \in Run /\ task' \in [Tasks -> Task] /\ approval' \in ApprovalStatus
       /\ UNCHANGED cancel /\ acted' \in Nat
  BY <1>1, <1>4, <1>7, ProcFields DEF IInv, TypeOK, ApprovalStatus
<1>11. ~Busy(v) /\ CoordinatorInv(v)
  BY <1>3 DEF Busy, CoordinatorInv
<1> QED BY <1>1, <1>3, <1>4, <1>8, <1>9, <1>10, <1>11, RowsStep

(* A run that nobody works on is closed by the recovery or a cancellation. *)
LEMMA ClosesAlone ==
  ASSUME IInv, \A q \in Procs : ~Busy(proc[q]), UNCHANGED proc,
         task' = CancelQueued(task), NEW s \in TerminalRun, run' = [run EXCEPT !.status = s],
         approval' = IF approval = "pending" THEN "cancelled" ELSE approval,
         cancel' \in [Cancels -> CancelRequest], acted' \in Nat, CancelLocked' => CancelLocked,
         \A c \in Cancels : cancel'[c].pc # "idle" => cancel[c].pc # "idle",
         \A c \in Cancels \ Remote : cancel'[c].pc # "overruled",
         run.status # "none"
  PROVE  IInv'
<1>1. /\ Coordinator \in Procs /\ Coordinator \notin Resolvers /\ proc \in [Procs -> Proc]
      /\ run \in Run /\ task \in [Tasks -> Task] /\ approval \in ApprovalStatus
  BY AgentConstants DEF Procs, IInv, TypeOK
<1>2. run' \in Run /\ run'.status = s
  BY <1>1 DEF Run, RunStatus
<1>3. task' \in [Tasks -> Task] /\ OpenIn(task', {}) /\ DependentsWaitIn(task')
  BY <1>1, QueuedCancelled DEF IInv, RunInv, RowsInv
<1>4. approval' \in ApprovalStatus /\ approval' # "pending"
  BY <1>1 DEF ApprovalStatus
<1>5. RowsInv'
  BY <1>2, <1>3, <1>4 DEF RowsInv, DependentsWaitIn, OpenIn, ActiveRun, TerminalRun
<1>6. TurnsInv'
  <2>1. CancelLocked' => \A q \in Procs : ~Writing(q)'
    BY DEF IInv, RunInv, TurnsInv, Writing
  <2>2. approval' = "none" => approval = "none"
    OBVIOUS
  <2>3. \A q \in Procs : ~Busy(proc'[q])
    OBVIOUS
  <2>4. run'.status # "none" /\ proc'[Coordinator].pc # "idle"
    BY <1>2 DEF IInv, RunInv, TurnsInv, TerminalRun
  <2>5. \A c \in Cancels \ Remote :
           /\ cancel'[c].pc # "idle" => proc'[Coordinator].pc \in {"returning", "done", "gone"}
           /\ cancel'[c].pc # "overruled"
    BY DEF IInv, RunInv, TurnsInv
  <2>6. approval' = "none" => \A r \in Resolvers : proc'[r].pc = "idle"
    BY <2>2 DEF IInv, RunInv, TurnsInv
  <2>7. ~Busy(proc'[Coordinator]) /\ \A r \in Resolvers : ~Busy(proc'[r])
    BY <1>1, <2>3 DEF Procs
  <2> QED BY <2>1, <2>4, <2>5, <2>6, <2>7 DEF TurnsInv
<1>7. TypeOK'
  BY <1>1, <1>2, <1>3, <1>4 DEF TypeOK
<1>8. CoordinatorInv(proc[Coordinator])'
  <2>1. /\ proc'[Coordinator].pc \in {"idle", "done", "gone"}
        /\ proc'[Coordinator].pc = "idle" => proc'[Coordinator] = IdleProc
    BY <1>1 DEF IInv, RunInv, CoordinatorInv, Busy
  <2> QED BY <2>1 DEF CoordinatorInv, Busy
<1>9. \A r \in Resolvers : ResolverInv(proc[r])'
  <2>1. \A r \in Resolvers : proc'[r].pc \in {"idle", "done", "gone"}
    BY DEF Busy, Procs
  <2> QED BY <2>1 DEF ResolverInv
<1> QED BY <1>5, <1>6, <1>7, <1>8, <1>9 DEF IInv, RunInv

(* Nobody works on a run that the recovery finds, ... *)
LEMMA RecoveryFindsNobody ==
  ASSUME IInv, RecoverStaleRun
  PROVE  approval = "none" /\ \A q \in Procs : ~Busy(proc[q])
<1>1. run.status \in ActiveRun /\ proc[Coordinator].pc \in {"done", "gone"}
  BY DEF RecoverStaleRun
<1>2. approval = "none" /\ \A r \in Resolvers : proc[r].pc = "idle"
  BY <1>1 DEF IInv, RunInv, TurnsInv, RowsInv
<1> QED BY <1>1, <1>2 DEF Procs, Busy

LEMMA RecoverStaleRunStep ==
  ASSUME IInv, RecoverStaleRun
  PROVE  IInv'
<1>1. /\ run.status \in ActiveRun /\ UNCHANGED <<approval, proc, cancel, acted>>
      /\ task' = CancelQueued(task) /\ run' = [run EXCEPT !.status = "failed"]
  BY DEF RecoverStaleRun
<1>2. approval = "none" /\ \A q \in Procs : ~Busy(proc[q])
  BY RecoveryFindsNobody
<1>3. "failed" \in TerminalRun /\ run.status # "none"
  BY <1>1 DEF TerminalRun, ActiveRun
<1>4. /\ cancel' \in [Cancels -> CancelRequest] /\ acted' \in Nat /\ (CancelLocked' => CancelLocked)
      /\ \A c \in Cancels : cancel'[c].pc # "idle" => cancel[c].pc # "idle"
      /\ \A c \in Cancels \ Remote : cancel'[c].pc # "overruled"
  BY <1>1 DEF IInv, TypeOK, CancelLocked, RunInv, TurnsInv
<1> QED BY <1>1, <1>2, <1>3, <1>4, ClosesAlone

(* ... or that a cancellation has locked when it gets to the approval. *)
LEMMA CancellationFindsNobody ==
  ASSUME IInv, NEW c \in Cancels, CancelRun(c), ~Busy(proc[Coordinator])
  PROVE  run.status # "none" /\ \A q \in Procs : ~Busy(proc[q])
<1>1. cancel[c].pc = "locked" /\ (approval = "pending" => ~ApprovalLocked)
  BY DEF CancelRun
<1>2. \A r \in Resolvers : ~Busy(proc[r])
  BY <1>1 DEF IInv, RunInv, TurnsInv, ApprovalLocked
<1>3. run.status # "none"
  BY <1>1 DEF IInv, RunInv, TurnsInv
<1> QED BY <1>2, <1>3 DEF Procs

(* A coordinator at work that a cancellation overtakes has written nothing,   *)
(* and the request went to another process.                                   *)
LEMMA OverruledStep ==
  ASSUME IInv, NEW c \in Cancels, CancelRun(c), Busy(proc[Coordinator])
  PROVE  IInv'
<1> DEFINE w == proc[Coordinator]
<1>1. /\ UNCHANGED <<proc, acted>>
      /\ task' = CancelQueued(task) /\ run' = [run EXCEPT !.status = "cancelled"]
      /\ approval' = IF approval = "pending" THEN "cancelled" ELSE approval
      /\ cancel[c].pc = "locked" /\ cancel' = [cancel EXCEPT ![c].pc = "overruled"]
  BY DEF CancelRun
<1>2. /\ Coordinator \in Procs /\ w \in Proc /\ task \in [Tasks -> Task] /\ run \in Run
      /\ cancel \in [Cancels -> CancelRequest] /\ approval = "none"
      /\ LoadedInv(w) /\ CoordinatorInv(w) /\ DependentsWaitIn(task)
      /\ run.status # "none" /\ w.pc # "idle"
  BY DEF IInv, RunInv, TypeOK, TurnsInv, RowsInv, Procs, Busy
<1>3. \A q \in Procs : ~Writing(q)
  BY <1>1 DEF IInv, RunInv, TurnsInv, CancelLocked
<1>4. ~w.wroteRun /\ w.wrote = {}
  BY <1>2, <1>3 DEF Writing
<1>5. w.pc \in {"started", "between", "asking"}
  BY <1>2, <1>4 DEF CoordinatorInv, AtTasks, Proc, Busy
<1>6. c \in Remote
  BY <1>1, <1>5 DEF IInv, RunInv, TurnsInv
<1>7. /\ cancel' \in [Cancels -> CancelRequest] /\ cancel'[c].pc = "overruled"
      /\ \A d \in Cancels \ {c} : cancel'[d] = cancel[d]
  BY <1>1, <1>2 DEF CancelRequest
<1>8. Overruled'
  BY <1>7 DEF Overruled
<1>9. /\ run' \in Run /\ run'.status = "cancelled"
      /\ task' \in [Tasks -> Task] /\ OpenIn(task', {}) /\ DependentsWaitIn(task')
  BY <1>1, <1>2, QueuedCancelled DEF Run, RunStatus, TerminalRun
<1>10. TypeOK' /\ approval' = "none"
  BY <1>1, <1>2, <1>7, <1>9 DEF IInv, TypeOK
<1>11. RowsInv'
  BY <1>9, <1>10 DEF RowsInv, DependentsWaitIn, OpenIn, ActiveRun, TerminalRun
<1>12. TurnsInv'
  <2>1. \A q \in Procs : Busy(proc'[q]) <=> Busy(proc[q])
    BY <1>1
  <2>2. \A q \in Procs : ~Writing(q)'
    BY <1>1, <1>3 DEF Writing
  <2>3. \A r \in Resolvers : proc'[r].pc = "idle" /\ ~Busy(proc'[r])
    BY <1>1, <1>2 DEF IInv, RunInv, TurnsInv, Busy
  <2>4. \A d \in Cancels \ Remote :
           /\ cancel'[d].pc # "idle" => proc'[Coordinator].pc \in {"returning", "done", "gone"}
           /\ cancel'[d].pc # "overruled"
    BY <1>1, <1>6, <1>7 DEF IInv, RunInv, TurnsInv
  <2>5. proc'[Coordinator].pc # "idle" /\ run'.status # "none"
    BY <1>1, <1>2, <1>9
  <2> QED BY <1>8, <1>9, <1>10, <2>2, <2>3, <2>4, <2>5 DEF TurnsInv
<1>13. \A q \in Procs : Busy(proc[q])' => LoadedInv(proc[q])'
  <2>1. \A q \in Procs : Busy(proc'[q]) => proc'[q] = w
    BY <1>1, <1>2 DEF IInv, RunInv, TurnsInv, Procs, Busy
  <2>2. \A t \in Tasks :
          \/ w.task[t] = task'[t]
          \/ w.task[t].status \in OpenTask /\ task'[t] = Cancelled(w.task[t])
    <3> TAKE t \in Tasks
    <3>1. task'[t] = IF task[t].status \in OpenTask THEN Cancelled(task[t]) ELSE task[t]
      BY <1>1 DEF CancelQueued, Cancelled
    <3>2. Cancelled(w.task[t]).status \notin OpenTask
      BY <1>2, ProcFields DEF Cancelled, Task, OpenTask
    <3>3. \/ w.task[t] = task[t]
          \/ w.task[t].status \in OpenTask /\ task[t] = Cancelled(w.task[t])
      BY <1>2, <1>4 DEF LoadedInv
    <3> QED BY <3>1, <3>2, <3>3
  <2>3. \A t \in Tasks :
          /\ task'[t].status \in TerminalTask =>
               w.task[t].status = task'[t].status \/ task'[t].status = "cancelled"
          /\ task'[t].status # "none" => w.task[t].status # "none"
    <3> TAKE t \in Tasks
    <3>1. Cancelled(w.task[t]).status = "cancelled"
      BY <1>2, ProcFields DEF Cancelled, Task
    <3> QED BY <2>2, <3>1 DEF OpenTask
  <2>4. DependentsWaitIn(w.task)
    BY <1>2 DEF LoadedInv
  <2> HIDE DEF w
  <2> QED BY <1>8, <2>1, <2>2, <2>3, <2>4 DEF LoadedInv, DependentsWaitIn
<1>14. CoordinatorInv(proc[Coordinator])'
  <2>1. proc'[Coordinator] = w
    BY <1>1
  <2> QED BY <1>2, <1>8, <2>1 DEF CoordinatorInv, AtTasks, Busy, OpenIn, Persisted, Unplanned,
                                  DependenciesSucceeded
<1>15. \A r \in Resolvers : ResolverInv(proc[r])'
  <2>1. \A r \in Resolvers : proc'[r].pc = "idle"
    BY <1>1, <1>2 DEF IInv, RunInv, TurnsInv
  <2> QED BY <2>1 DEF ResolverInv
<1> QED BY <1>10, <1>11, <1>12, <1>13, <1>14, <1>15 DEF IInv, RunInv

LEMMA CancelRunStep ==
  ASSUME IInv, NEW c \in Cancels, CancelRun(c)
  PROVE  IInv'
<1>1. CASE Busy(proc[Coordinator])
  BY <1>1, OverruledStep
<1>2. CASE ~Busy(proc[Coordinator])
  <2>1. /\ UNCHANGED <<proc, acted>>
        /\ task' = CancelQueued(task) /\ run' = [run EXCEPT !.status = "cancelled"]
        /\ approval' = IF approval = "pending" THEN "cancelled" ELSE approval
        /\ cancel[c].pc = "locked" /\ cancel' = [cancel EXCEPT ![c].pc = "done"]
    BY <1>2 DEF CancelRun
  <2>2. run.status # "none" /\ \A q \in Procs : ~Busy(proc[q])
    BY <1>2, CancellationFindsNobody
  <2>3. "cancelled" \in TerminalRun
    BY DEF TerminalRun
  <2>4. /\ cancel \in [Cancels -> CancelRequest] /\ acted' \in Nat
        /\ \A d \in Cancels \ Remote : cancel[d].pc # "overruled"
    BY <2>1 DEF IInv, TypeOK, RunInv, TurnsInv
  <2>5. /\ cancel' \in [Cancels -> CancelRequest] /\ cancel'[c].pc = "done"
        /\ \A d \in Cancels \ {c} : cancel'[d] = cancel[d]
    BY <2>1, <2>4 DEF CancelRequest
  <2>6. /\ CancelLocked' => CancelLocked
        /\ \A d \in Cancels : cancel'[d].pc # "idle" => cancel[d].pc # "idle"
        /\ \A d \in Cancels \ Remote : cancel'[d].pc # "overruled"
    BY <2>1, <2>4, <2>5 DEF CancelLocked
  <2> QED BY <2>1, <2>2, <2>3, <2>4, <2>5, <2>6, ClosesAlone
<1> QED BY <1>1, <1>2

----------------------------------------------------------------------------
(* The invariant, and what follows from it.                                   *)

LEMMA InitInv ==
  ASSUME Init
  PROVE  IInv
<1>1. NoTask \in Task /\ NoRun \in Run /\ IdleProc \in Proc
  BY AgentConstants, Idle DEF NoTask, NoRun, Task, Run, TaskStatus, RunStatus
<1>2. TypeOK
  BY <1>1 DEF Init, TypeOK, ApprovalStatus, CancelRequest, RunStatus
<1>3. RowsInv
  BY DEF Init, RowsInv, NoRun, NoTask, Unplanned, TerminalRun, DependentsWaitIn
<1>4. \A p \in Procs : proc[p] = IdleProc /\ proc[p].pc = "idle" /\ ~Busy(proc[p])
  BY DEF Init, IdleProc, Busy
<1>5. TurnsInv
  BY <1>4 DEF Init, TurnsInv, CancelLocked, NoRun, Procs
<1>6. CoordinatorInv(proc[Coordinator]) /\ \A r \in Resolvers : ResolverInv(proc[r])
  BY <1>4 DEF CoordinatorInv, ResolverInv, Procs, Busy
<1> QED BY <1>2, <1>3, <1>4, <1>5, <1>6 DEF IInv, RunInv

LEMMA LoopSteps ==
  ASSUME IInv, NEW p \in Procs, RunsTasks(p)
  PROVE  IInv'
<1>1. CASE SkipTask(p)
  BY <1>1, SkipTaskStep
<1>2. CASE ReadyTask(p)
  BY <1>2, ReadyTaskStep
<1>3. CASE BeginAttempt(p)
  BY <1>3, BeginAttemptStep
<1>4. CASE StepsExhausted(p) \/ CallsExhausted(p) \/ RunTimesOut(p)
  BY <1>4, ExhaustedStep
<1>5. CASE AttemptTimesOut(p) \/ AttemptRaises(p) \/ AttemptReturns(p) \/ AttemptFails(p)
  BY <1>5, AttemptStep
<1>6. CASE CompleteRun(p)
  BY <1>6, CompleteRunStep
<1>7. CASE CommitResult(p)
  BY <1>7, CommitResultStep
<1> QED BY <1>1, <1>2, <1>3, <1>4, <1>5, <1>6, <1>7 DEF RunsTasks

LEMMA NextInv ==
  ASSUME IInv, [Next]_vars
  PROVE  IInv'
<1>1. Coordinator \in Procs /\ Resolvers \subseteq Procs
  BY DEF Procs
<1>2. CASE CoordinatorStep
  BY <1>1, <1>2, StartRunStep, BeginPlanningStep, AcceptPlanStep, RefusePlanStep, LoopSteps,
     CheckpointStep, AskForApprovalStep DEF CoordinatorStep
<1>3. CASE UnexpectedFailure
  BY <1>3, UnexpectedFailureStep
<1>4. ASSUME NEW p \in Procs, Lose(p) PROVE IInv'
  BY <1>4, GivesUp DEF Lose, Busy
<1>5. CASE RecoverStaleRun
  BY <1>5, RecoverStaleRunStep
<1>6. ASSUME NEW c \in Cancels, RequestCancel(c) \/ CancelStep(c) PROVE IInv'
  BY <1>6, RequestCancelStep, LockForCancelStep, CancelRunStep DEF CancelStep
<1>7. ASSUME NEW r \in Resolvers, LockApproval(r) PROVE IInv'
  BY <1>7, LockApprovalStep
<1>8. ASSUME NEW r \in Resolvers, ApprovedActionFails(r) PROVE IInv'
  BY <1>1, <1>8, GivesUp DEF ApprovedActionFails, Busy
<1>9. ASSUME NEW r \in Resolvers, ResolverStep(r) PROVE IInv'
  BY <1>1, <1>8, <1>9, ApproveStep, RejectStep, LoopSteps, ContinueResumedStep DEF ResolverStep
<1>10. CASE DeadlockVictim
  BY <1>10, DeadlockVictimStep
<1>11. CASE UNCHANGED vars
  <2>1. Overruled' <=> Overruled
    BY <1>11 DEF vars, Overruled
  <2>2. TypeOK' /\ RowsInv' /\ TurnsInv'
    BY <1>11, <2>1 DEF vars, IInv, RunInv, TypeOK, RowsInv, TurnsInv, Unplanned, Persisted, OpenIn,
                 DependentsWaitIn, CancelLocked, Writing
  <2>3. \A p \in Procs : Busy(proc[p])' => LoadedInv(proc[p])'
    BY <1>11, <2>1 DEF vars, IInv, RunInv, LoadedInv
  <2>4. CoordinatorInv(proc[Coordinator])' /\ \A r \in Resolvers : ResolverInv(proc[r])'
    BY <1>11, <2>1 DEF vars, IInv, RunInv, CoordinatorInv, ResolverInv, AtTasks
  <2> QED BY <2>2, <2>3, <2>4 DEF IInv, RunInv
<1> QED
  BY <1>2, <1>3, <1>4, <1>5, <1>6, <1>7, <1>9, <1>10, <1>11 DEF Next

(* The rows, the loaded objects and the requests of a run agree at every      *)
(* moment (RunInv), and every variable keeps its type.                        *)
THEOREM RunInvariant ==
  Spec => [](TypeOK /\ RunInv)
<1>1. Init => IInv
  BY InitInv
<1>2. IInv /\ [Next]_vars => IInv'
  BY NextInv
<1>3. IInv <=> TypeOK /\ RunInv
  BY DEF IInv
<1> QED BY <1>1, <1>2, <1>3, PTL DEF Spec

(* A task is handed to its agent only when every task it depends on has       *)
(* succeeded, for every plan and every interleaving.                          *)
THEOREM DependenciesComeFirst ==
  Spec => []DependentsWait
<1>1. TypeOK /\ RunInv => DependentsWait
  BY DEF RunInv, RowsInv, DependentsWaitIn, DependentsWait
<1> QED BY <1>1, RunInvariant, PTL

----------------------------------------------------------------------------
(* The attempts that task rows record.                                        *)

SameAttempts(T, U) ==
  \A t \in Tasks :
    /\ U[t].started = T[t].started /\ U[t].retries = T[t].retries
    /\ U[t].status = "pending" => T[t].status = "pending"

LEMMA AttemptsKept ==
  ASSUME NEW T, NEW U, SameAttempts(T, U)
  PROVE  AttemptsIn(U) = AttemptsIn(T) /\ (RetriesFollowStarts(T) => RetriesFollowStarts(U))
<1>1. \A e \in Tasks \X (0..MaxRetries) :
        U[e[1]].started = T[e[1]].started /\ U[e[1]].retries = T[e[1]].retries
  BY DEF SameAttempts
<1>2. AttemptsIn(U) = AttemptsIn(T)
  BY <1>1 DEF AttemptsIn
<1>3. RetriesFollowStarts(T) => RetriesFollowStarts(U)
  BY DEF SameAttempts, RetriesFollowStarts
<1> QED BY <1>2, <1>3

LEMMA AttemptsFinite ==
  ASSUME NEW T
  PROVE  /\ IsFiniteSet({e \in Tasks \X (0..MaxRetries) : T[e[1]].started /\ e[2] <= T[e[1]].retries})
         /\ AttemptsIn(T) \in Nat
<1> DEFINE A == {e \in Tasks \X (0..MaxRetries) : T[e[1]].started /\ e[2] <= T[e[1]].retries}
           P == Tasks \X (0..MaxRetries)
<1>1. IsFiniteSet(Tasks) /\ MaxRetries \in Int /\ 0 \in Int
  BY AgentConstants
<1>2. IsFiniteSet(0..MaxRetries)
  BY <1>1, FS_Interval
<1>3. IsFiniteSet(P)
  BY <1>1, <1>2, FS_Product
<1>4. A \subseteq P
  OBVIOUS
<1> HIDE DEF A, P
<1>5. IsFiniteSet(A)
  BY <1>3, <1>4, FS_Subset
<1>6. Cardinality(A) \in Nat
  BY <1>5, FS_CardinalityType
<1> QED BY <1>5, <1>6 DEF A, AttemptsIn

LEMMA NoAttempts ==
  ASSUME NEW T, \A t \in Tasks : ~T[t].started
  PROVE  AttemptsIn(T) = 0
<1>1. {e \in Tasks \X (0..MaxRetries) : T[e[1]].started /\ e[2] <= T[e[1]].retries} = {}
  OBVIOUS
<1> QED BY <1>1, FS_EmptySet DEF AttemptsIn

(* A first attempt, or a retry of a started task *)
LEMMA OneMoreAttempt ==
  ASSUME NEW T \in [Tasks -> Task], NEW U \in [Tasks -> Task], NEW t \in Tasks,
         \A u \in Tasks \ {t} : U[u].started = T[u].started /\ U[u].retries = T[u].retries,
         U[t].started,
         \/ ~T[t].started /\ U[t].retries = 0
         \/ T[t].started /\ U[t].retries = T[t].retries + 1
  PROVE  AttemptsIn(U) = AttemptsIn(T) + 1
<1> DEFINE A(V) == {e \in Tasks \X (0..MaxRetries) : V[e[1]].started /\ e[2] <= V[e[1]].retries}
           new == <<t, U[t].retries>>
<1>1. /\ T[t].retries \in 0..MaxRetries /\ U[t].retries \in 0..MaxRetries
      /\ MaxRetries \in Nat
  BY TaskFields, AgentConstants
<1>2. new \notin A(T)
  BY <1>1
<1>3. new \in A(U)
  BY <1>1
<1>4. ASSUME NEW u \in Tasks, NEW n \in 0..MaxRetries
      PROVE  <<u, n>> \in A(U) <=> <<u, n>> \in A(T) \/ <<u, n>> = new
  <2>1. CASE u # t
    BY <2>1
  <2>2. CASE u = t
    BY <1>1, <2>2
  <2> QED BY <2>1, <2>2
<1>5. A(U) = A(T) \cup {new}
  <2>1. \A e \in Tasks \X (0..MaxRetries) : e = <<e[1], e[2]>> /\ e[1] \in Tasks /\ e[2] \in 0..MaxRetries
    OBVIOUS
  <2>2. \A e \in Tasks \X (0..MaxRetries) : e \in A(U) <=> e \in A(T) \/ e = new
    BY <1>4, <2>1
  <2>3. A(U) \subseteq Tasks \X (0..MaxRetries) /\ A(T) \subseteq Tasks \X (0..MaxRetries)
        /\ new \in Tasks \X (0..MaxRetries)
    BY <1>1
  <2> HIDE DEF A, new
  <2> QED BY <2>2, <2>3
<1>6. IsFiniteSet(A(T))
  BY AttemptsFinite
<1> HIDE DEF A, new
<1>7. Cardinality(A(U)) = Cardinality(A(T)) + 1
  BY <1>2, <1>5, <1>6, FS_AddElement
<1> QED BY <1>7 DEF A, AttemptsIn

----------------------------------------------------------------------------
(* What a step must show to keep the steps accounted for.                     *)

LEMMA IdleFits ==
  ASSUME NEW pc \in {"idle", "done", "gone"}
  PROVE  StepsFit([IdleProc EXCEPT !.pc = pc])
<1> DEFINE v == [IdleProc EXCEPT !.pc = pc]
<1>1. v.pc = pc /\ v.run = NoRun /\ v.task = [t \in Tasks |-> NoTask]
  BY DEF IdleProc
<1> HIDE DEF v
<1>2. RetriesFollowStarts(v.task)
  BY <1>1 DEF RetriesFollowStarts, NoTask
<1> QED BY <1>1, <1>2 DEF StepsFit, NoRun, v

LEMMA LocalFits ==
  ASSUME IInv, StepsInv, NEW p \in Procs, NEW v, StepsFit(v),
         proc' = [proc EXCEPT ![p] = v], UNCHANGED <<run, task>>
  PROVE  StepsInv'
<1>1. \A q \in Procs : StepsFit(proc'[q])
  BY DEF IInv, TypeOK, StepsInv
<1>2. RowsAccounted'
  BY DEF StepsInv, RowsAccounted, RetriesFollowStarts, Accounted
<1>3. \A q \in Procs : StepsFit(proc[q])'
  BY <1>1 DEF StepsFit, RetriesFollowStarts, Accounted
<1> QED BY <1>2, <1>3 DEF StepsInv

LEMMA AbandonFits ==
  ASSUME IInv, StepsInv, NEW p \in Procs, NEW pc \in {"done", "gone"},
         Abandon(p, pc), UNCHANGED <<run, task>>
  PROVE  StepsInv'
<1>1. StepsFit([IdleProc EXCEPT !.pc = pc])
  BY IdleFits
<1>2. proc' = [proc EXCEPT ![p] = [IdleProc EXCEPT !.pc = pc]]
  BY DEF Abandon
<1> QED BY <1>1, <1>2, LocalFits

(* Only the rows change, and nobody is at work on them. *)
LEMMA RowsFit ==
  ASSUME StepsInv, UNCHANGED proc, RowsAccounted'
  PROVE  StepsInv'
<1>1. \A q \in Procs : StepsFit(proc[q])'
  BY DEF StepsInv, StepsFit, RetriesFollowStarts, Accounted
<1> QED BY <1>1 DEF StepsInv

LEMMA CancelKeepsAttempts ==
  ASSUME NEW T \in [Tasks -> Task]
  PROVE  SameAttempts(T, CancelQueued(T))
<1> SUFFICES ASSUME NEW t \in Tasks
             PROVE  /\ CancelQueued(T)[t].started = T[t].started
                    /\ CancelQueued(T)[t].retries = T[t].retries
                    /\ CancelQueued(T)[t].status = "pending" => T[t].status = "pending"
  BY DEF SameAttempts
<1> DEFINE x == T[t]
<1>1. x \in Task
  OBVIOUS
<1>2. CancelQueued(T)[t] = IF x.status \in OpenTask THEN [x EXCEPT !.status = "cancelled"] ELSE x
  BY DEF CancelQueued
<1> HIDE DEF x
<1> QED BY <1>1, <1>2 DEF Task, x

LEMMA StatusKeepsAttempts ==
  ASSUME NEW w \in Proc, NEW t \in Tasks, NEW s \in TaskStatus \ {"pending"}
  PROVE  SameAttempts(w.task, SetTask(w, t, s).task)
<1>1. SetTask(w, t, s).task = [w.task EXCEPT ![t].status = s]
  BY TaskWritten
<1>2. w.task \in [Tasks -> Task]
  BY ProcFields
<1> HIDE DEF SetTask
<1> QED BY <1>1, <1>2 DEF SameAttempts, Task

LEMMA FailureFits ==
  ASSUME NEW w \in Proc, NEW s \in {"failed", "timed_out"}, RetriesFollowStarts(w.task)
  PROVE  StepsFit(FailRun(w, s))
<1> DEFINE v == FailRun(w, s)
<1>1. v.pc = "returning" /\ v.run.status = s /\ v.task = CancelQueued(w.task)
  <2> DEFINE z == [w.run EXCEPT !.steps = w.steps]
             y == [w EXCEPT !.run = z]
             x == SetRun(y, s)
  <2>1. z \in Run
    BY ProcFields DEF Run
  <2> HIDE DEF z
  <2>2. y \in Proc /\ y.task = w.task
    BY <2>1 DEF Proc
  <2>3. y = [w EXCEPT !.run.steps = w.steps]
    BY DEF z, Proc
  <2> HIDE DEF y
  <2>4. s \in RunStatus
    BY DEF RunStatus, TerminalRun
  <2>5. x \in Proc /\ x.task = w.task /\ x.run.status = s
    BY <2>2, <2>4, RunWritten
  <2>6. v = [x EXCEPT !.task = CancelQueued(x.task), !.pc = "returning", !.cur = 0,
                    !.wrote = @ \cup {t \in Tasks : w.task[t].status \in OpenTask}]
    BY <2>3, <2>5 DEF FailRun
  <2> HIDE DEF x, v
  <2> QED BY <2>5, <2>6 DEF Proc
<1>2. w.task \in [Tasks -> Task]
  BY ProcFields
<1> HIDE DEF v
<1>3. RetriesFollowStarts(v.task)
  BY <1>1, <1>2, CancelKeepsAttempts, AttemptsKept
<1> QED BY <1>1, <1>3 DEF StepsFit, TerminalRun, v

LEMMA StopsFit ==
  ASSUME IInv, StepsInv, NEW p \in Procs, NEW w \in Proc, NEW s \in {"failed", "timed_out"},
         RetriesFollowStarts(w.task), StopsRun(p, w, s), UNCHANGED <<run, task>>
  PROVE  StepsInv'
<1>1. CASE p = Coordinator /\ w.run.status \notin TerminalRun
  <2>1. proc' = [proc EXCEPT ![p] = FailRun(w, s)]
    BY <1>1 DEF StopsRun
  <2> QED BY <2>1, FailureFits, LocalFits
<1>2. CASE ~(p = Coordinator /\ w.run.status \notin TerminalRun)
  <2>1. Abandon(p, "done")
    BY <1>2 DEF StopsRun
  <2> QED BY <2>1, AbandonFits
<1> QED BY <1>1, <1>2
----------------------------------------------------------------------------
(* The steps of the loop.                                                     *)

(* The loaded objects in the loop *)
LEMMA LoadedFits ==
  ASSUME IInv, StepsInv, NEW p \in Procs
  PROVE  StepsFit(proc[p]) /\ proc[p] \in Proc /\ RetriesFollowStarts(proc[p].task)
  BY WhatIsLoaded DEF StepsInv, StepsFit

LEMMA SkipTaskFits ==
  ASSUME IInv, StepsInv, NEW p \in Procs, SkipTask(p)
  PROVE  StepsInv'
<1> DEFINE w == proc[p]
           t == NextTask(p)
           v == SetTask(w, t, "skipped")
<1>1. w.pc = "between" /\ Waiting(p) # {} /\ proc' = [proc EXCEPT ![p] = v] /\ UNCHANGED <<run, task>>
  BY DEF SkipTask
<1>2. t \in Tasks /\ w \in Proc /\ StepsFit(w)
  BY <1>1, NextTaskWaits, LoadedFits DEF Waiting
<1>3. "skipped" \in TaskStatus \ {"pending"}
  BY DEF TaskStatus, TerminalTask
<1>4. SameAttempts(w.task, v.task) /\ v.pc = w.pc /\ v.run = w.run /\ v.steps = w.steps
  <2> HIDE DEF t, w
  <2>1. SameAttempts(w.task, v.task)
    BY <1>2, <1>3, StatusKeepsAttempts
  <2>2. v.pc = w.pc /\ v.run = w.run /\ v.steps = w.steps
    BY <1>2, <1>3, TaskWritten, Zenon
  <2> QED BY <2>1, <2>2
<1> HIDE DEF v, w
<1>5. StepsFit(v)
  BY <1>1, <1>2, <1>4, AttemptsKept DEF StepsFit
<1> USE DEF w
<1> QED BY <1>1, <1>5, LocalFits

LEMMA ReadyTaskFits ==
  ASSUME IInv, StepsInv, NEW p \in Procs, ReadyTask(p)
  PROVE  StepsInv'
<1> DEFINE w == proc[p]
           t == NextTask(p)
           x == SetTask(w, t, "ready")
           v == [x EXCEPT !.pc = "ready", !.cur = t]
<1>1. /\ w.pc = "between" /\ Waiting(p) # {} /\ proc' = [proc EXCEPT ![p] = v]
      /\ UNCHANGED <<run, task>>
  BY DEF ReadyTask
<1>2. /\ t \in Tasks /\ w \in Proc /\ StepsFit(w) /\ w.task[t].status = "pending"
  BY <1>1, NextTaskWaits, LoadedFits
<1>3. "ready" \in TaskStatus \ {"pending"}
  BY DEF TaskStatus, OpenTask
<1>4. /\ x \in Proc /\ SameAttempts(w.task, x.task)
      /\ x.pc = w.pc /\ x.run = w.run /\ x.steps = w.steps
  <2> HIDE DEF t, w
  <2>1. SameAttempts(w.task, x.task)
    BY <1>2, <1>3, StatusKeepsAttempts
  <2>2. x \in Proc /\ x.pc = w.pc /\ x.run = w.run /\ x.steps = w.steps
    BY <1>2, <1>3, TaskWritten, Zenon
  <2> QED BY <2>1, <2>2
<1> HIDE DEF x, w, t
<1>5. v.pc = "ready" /\ v.cur = t /\ v.task = x.task /\ v.run = x.run /\ v.steps = x.steps
  BY <1>2, <1>4 DEF Proc
<1> HIDE DEF v
<1>6. ~v.task[t].started
  BY <1>2, <1>4, <1>5 DEF SameAttempts, StepsFit, RetriesFollowStarts
<1>7. AttemptsIn(v.task) = w.steps /\ RetriesFollowStarts(v.task)
  BY <1>1, <1>2, <1>4, <1>5, AttemptsKept DEF StepsFit
<1>8. w.steps \in Nat
  BY <1>2, ProcFields
<1>9. StepsFit(v)
  BY <1>2, <1>4, <1>5, <1>6, <1>7, <1>8 DEF StepsFit
<1> USE DEF w
<1> QED BY <1>1, <1>9, LocalFits

LEMMA BeginAttemptFits ==
  ASSUME IInv, StepsInv, NEW p \in Procs, BeginAttempt(p)
  PROVE  StepsInv'
<1> DEFINE w == proc[p]
           t == w.cur
           x == SetTask(w, t, "running")
           y == [x.task[t] EXCEPT !.started = TRUE]
           v == [x EXCEPT !.task[t].started = TRUE, !.steps = w.steps + 1, !.pc = "running"]
<1>1. w.pc = "ready" /\ proc' = [proc EXCEPT ![p] = v] /\ UNCHANGED <<run, task>>
  <2>1. w.pc = "ready" /\ UNCHANGED <<run, task>>
    BY DEF BeginAttempt
  <2>2. proc' = [proc EXCEPT ![p] = v]
    BY Zenon DEF BeginAttempt
  <2> QED BY <2>1, <2>2
<1>2. w \in Proc /\ StepsFit(w) /\ LoadedInv(w) /\ AtTasks(w)
  BY <1>1, InTheLoop, LoadedFits
<1>3. t \in Tasks /\ w.task[t].status = "ready"
  BY <1>1, <1>2 DEF AtTasks
<1> HIDE DEF w
<1>4. /\ x \in Proc /\ x.task[t].status = "running"
      /\ x.task[t].started = w.task[t].started /\ x.task[t].retries = w.task[t].retries
      /\ \A u \in Tasks \ {t} : x.task[u] = w.task[u]
  BY <1>2, <1>3, TaskAdvanced DEF OpenTask, TaskStatus
<1>5. x.run = w.run /\ x.steps = w.steps /\ x.cur = t
  <2>1. "running" \in TaskStatus
    BY DEF TaskStatus, OpenTask
  <2> QED BY <1>2, <1>3, <2>1, TaskWritten, Zenon
<1> HIDE DEF x, t
<1>6. /\ x.task \in [Tasks -> Task] /\ y \in Task /\ y.status = x.task[t].status
      /\ y.started = TRUE /\ y.retries = x.task[t].retries
  <2>1. x.task \in [Tasks -> Task] /\ x.task[t] \in Task
    BY <1>3, <1>4, ProcFields
  <2> QED BY <2>1 DEF Task
<1>7. v = [x EXCEPT !.task = [x.task EXCEPT ![t] = y], !.steps = x.steps + 1, !.pc = "running"]
  BY <1>4, <1>5 DEF Proc
<1>8. v.pc = "running" /\ v.cur = t /\ v.run = w.run /\ v.steps = w.steps + 1
      /\ v.task = [x.task EXCEPT ![t] = y]
  <2> DEFINE T == [x.task EXCEPT ![t] = y]
             n == x.steps + 1
  <2> HIDE DEF T, n, v, y
  <2>1. v = [x EXCEPT !.task = T, !.steps = n, !.pc = "running"]
    BY <1>7 DEF T, n
  <2>2. v.pc = "running" /\ v.cur = x.cur /\ v.run = x.run /\ v.task = T /\ v.steps = n
    BY <2>1, <1>4 DEF Proc
  <2> QED BY <2>2, <1>5 DEF T, n
<1> HIDE DEF v, y
<1>9. /\ v.task \in [Tasks -> Task] /\ v.task[t] = y
      /\ \A u \in Tasks \ {t} : v.task[u] = w.task[u]
  BY <1>3, <1>4, <1>6, <1>8
<1>10. RetriesFollowStarts(v.task)
  BY <1>2, <1>3, <1>4, <1>6, <1>9 DEF RetriesFollowStarts, StepsFit
<1>11. w.steps \in Nat /\ AttemptsIn(w.task) \in Nat /\ w.task \in [Tasks -> Task]
  <2>1. w.steps \in Nat /\ w.task \in [Tasks -> Task]
    BY <1>2, ProcFields
  <2>2. AttemptsIn(w.task) \in Nat
    BY AttemptsFinite, Zenon
  <2> QED BY <2>1, <2>2
<1>12. AttemptsIn(w.task) = w.steps + IF w.task[t].started THEN 1 ELSE 0
  BY <1>1, <1>2 DEF StepsFit, t
<1>13. AttemptsIn(v.task) = w.steps + 1
  <2>1. CASE w.task[t].started
    <3>1. SameAttempts(w.task, v.task)
      BY <1>4, <1>6, <1>9, <2>1, <1>11, <1>3, TaskFields DEF SameAttempts
    <3> QED BY <3>1, <1>12, <2>1, AttemptsKept
  <2>2. CASE ~w.task[t].started
    <3>1. v.task[t].started /\ v.task[t].retries = 0
      BY <1>2, <1>3, <1>4, <1>6, <1>9, <2>2 DEF StepsFit, RetriesFollowStarts
    <3>2. AttemptsIn(v.task) = AttemptsIn(w.task) + 1
      BY <1>3, <1>9, <1>11, <2>2, <3>1, OneMoreAttempt
    <3> QED BY <3>2, <1>11, <1>12, <2>2
  <2> QED BY <2>1, <2>2
<1>14. StepsFit(v)
  BY <1>2, <1>6, <1>8, <1>9, <1>10, <1>13 DEF StepsFit
<1> USE DEF w
<1> QED BY <1>1, <1>14, LocalFits

LEMMA SettleFits ==
  ASSUME IInv, StepsInv, NEW p \in Procs, proc[p].pc = "running",
         NEW s \in TaskStatus \ {"pending"}, NEW asks \in BOOLEAN, Settle(p, s, asks),
         UNCHANGED <<run, task>>
  PROVE  StepsInv'
<1> DEFINE w == proc[p]
           t == w.cur
           x == SetTask(w, t, s)
           v == [x EXCEPT !.pc = "settled", !.asks = asks]
<1>1. proc' = [proc EXCEPT ![p] = v]
  BY Zenon DEF Settle
<1>2. w \in Proc /\ StepsFit(w) /\ AtTasks(w) /\ w.pc = "running"
  BY InTheLoop, LoadedFits
<1>3. t \in Tasks
  BY <1>2 DEF AtTasks
<1> HIDE DEF w
<1>4. x \in Proc /\ SameAttempts(w.task, x.task) /\ x.run = w.run /\ x.steps = w.steps
  BY <1>2, <1>3, StatusKeepsAttempts, TaskWritten
<1> HIDE DEF x, t
<1>5. v.pc = "settled" /\ v.task = x.task /\ v.run = x.run /\ v.steps = x.steps
  BY <1>4 DEF Proc
<1> HIDE DEF v
<1>6. StepsFit(v)
  BY <1>2, <1>4, <1>5, AttemptsKept DEF StepsFit
<1> USE DEF w
<1> QED BY <1>1, <1>6, LocalFits

LEMMA RetryFits ==
  ASSUME IInv, StepsInv, NEW p \in Procs, proc[p].pc = "running", Retry(p), UNCHANGED <<run, task>>
  PROVE  StepsInv'
<1> DEFINE w == proc[p]
           t == w.cur
           x == SetTask(w, t, "ready")
           n == w.task[t].retries + 1
           y == [x.task[t] EXCEPT !.retries = n]
           v == [x EXCEPT !.task[t].retries = n, !.pc = "ready"]
<1>1. w.task[t].retries < MaxRetries /\ proc' = [proc EXCEPT ![p] = v]
  BY Zenon DEF Retry
<1>2. w \in Proc /\ StepsFit(w) /\ LoadedInv(w) /\ AtTasks(w) /\ w.pc = "running"
  BY InTheLoop, LoadedFits
<1>3. t \in Tasks /\ w.task[t].status = "running"
  BY <1>2 DEF AtTasks
<1> HIDE DEF w
<1>4. /\ x \in Proc /\ x.task[t].status = "ready"
      /\ x.task[t].started = w.task[t].started /\ x.task[t].retries = w.task[t].retries
      /\ \A u \in Tasks \ {t} : x.task[u] = w.task[u]
  BY <1>2, <1>3, TaskAdvanced DEF OpenTask, TaskStatus
<1>5. x.run = w.run /\ x.steps = w.steps /\ x.cur = t
  <2>1. "ready" \in TaskStatus
    BY DEF TaskStatus, OpenTask
  <2> QED BY <1>2, <1>3, <2>1, TaskWritten, Zenon
<1>6. w.task \in [Tasks -> Task] /\ w.task[t] \in Task /\ w.steps \in Nat /\ AttemptsIn(w.task) = w.steps
  BY <1>2, <1>3, ProcFields DEF StepsFit
<1>7. n \in 0..MaxRetries
  BY <1>1, <1>6, AgentConstants, TaskFields
<1> HIDE DEF x, t, n
<1>8. /\ x.task \in [Tasks -> Task] /\ y \in Task /\ y.status = x.task[t].status
      /\ y.started = x.task[t].started /\ y.retries = n
  <2>1. x.task \in [Tasks -> Task] /\ x.task[t] \in Task
    BY <1>3, <1>4, ProcFields
  <2> QED BY <1>7, <2>1 DEF Task
<1>9. v = [x EXCEPT !.task = [x.task EXCEPT ![t] = y], !.pc = "ready"]
  BY <1>4 DEF Proc
<1>10. /\ v.pc = "ready" /\ v.cur = t /\ v.run = w.run /\ v.steps = w.steps
       /\ v.task = [x.task EXCEPT ![t] = y]
  <2> DEFINE T == [x.task EXCEPT ![t] = y]
  <2> HIDE DEF T, v, y
  <2>1. v = [x EXCEPT !.task = T, !.pc = "ready"]
    BY <1>9 DEF T
  <2>2. v.pc = "ready" /\ v.cur = x.cur /\ v.run = x.run /\ v.steps = x.steps /\ v.task = T
    BY <2>1, <1>4 DEF Proc
  <2> QED BY <2>2, <1>5 DEF T
<1> HIDE DEF v, y
<1>11. /\ v.task \in [Tasks -> Task] /\ v.task[t] = y
       /\ \A u \in Tasks \ {t} : v.task[u] = w.task[u]
  BY <1>3, <1>4, <1>8, <1>10
<1>12. w.task[t].started
  BY <1>2 DEF StepsFit, t
<1>13. RetriesFollowStarts(v.task)
  BY <1>2, <1>4, <1>8, <1>11, <1>12 DEF RetriesFollowStarts, StepsFit
<1>14. v.task[t].started /\ v.task[t].retries = w.task[t].retries + 1
  BY <1>4, <1>8, <1>11, <1>12 DEF n
<1>15. AttemptsIn(v.task) = w.steps + 1
  BY <1>3, <1>6, <1>11, <1>12, <1>14, OneMoreAttempt
<1>16. StepsFit(v)
  BY <1>2, <1>6, <1>10, <1>13, <1>14, <1>15 DEF StepsFit
<1> USE DEF w
<1> QED BY <1>1, <1>16, LocalFits

LEMMA AttemptFits ==
  ASSUME IInv, StepsInv, NEW p \in Procs,
         AttemptTimesOut(p) \/ AttemptRaises(p) \/ AttemptReturns(p) \/ AttemptFails(p)
  PROVE  StepsInv'
<1>1. proc[p].pc = "running" /\ UNCHANGED <<run, task>>
  BY DEF AttemptTimesOut, AttemptRaises, AttemptReturns, AttemptFails
<1>2. \/ Retry(p)
      \/ \E s \in {"succeeded", "timed_out", "failed"} : Settle(p, s, FALSE)
      \/ Settle(p, "running", TRUE)
  BY Zenon DEF AttemptTimesOut, AttemptRaises, AttemptReturns, AttemptFails, RetryOr
<1>3. {"succeeded", "timed_out", "failed", "running"} \subseteq TaskStatus \ {"pending"}
      /\ {TRUE, FALSE} \subseteq BOOLEAN
  BY DEF TaskStatus, OpenTask, TerminalTask
<1>4. CASE Retry(p)
  BY <1>1, <1>4, RetryFits
<1>5. CASE \E s \in {"succeeded", "timed_out", "failed"} : Settle(p, s, FALSE)
  BY <1>1, <1>3, <1>5, SettleFits
<1>6. CASE Settle(p, "running", TRUE)
  BY <1>1, <1>3, <1>6, SettleFits
<1> QED BY <1>2, <1>4, <1>5, <1>6

LEMMA ExhaustedFits ==
  ASSUME IInv, StepsInv, NEW p \in Procs, StepsExhausted(p) \/ CallsExhausted(p) \/ RunTimesOut(p)
  PROVE  StepsInv'
<1> DEFINE w == proc[p]
<1>1. /\ w.pc \in {"between", "ready", "running"} /\ UNCHANGED <<run, task>>
      /\ \/ StopsRun(p, w, "failed") \/ StopsRun(p, w, "timed_out")
         \/ w.pc = "running" /\ StopsRun(p, SetTask(w, w.cur, "failed"), "failed")
  BY DEF StepsExhausted, CallsExhausted, RunTimesOut
<1>2. w \in Proc /\ RetriesFollowStarts(w.task) /\ AtTasks(w)
  BY <1>1, InTheLoop, LoadedFits
<1>3. CASE StopsRun(p, w, "failed") \/ StopsRun(p, w, "timed_out")
  BY <1>1, <1>2, <1>3, StopsFit
<1>4. CASE w.pc = "running" /\ StopsRun(p, SetTask(w, w.cur, "failed"), "failed")
  <2> DEFINE t == w.cur
             x == SetTask(w, t, "failed")
  <2>1. t \in Tasks
    BY <1>2, <1>4 DEF AtTasks
  <2>2. "failed" \in TaskStatus \ {"pending"}
    BY DEF TaskStatus, TerminalTask
  <2>3. x \in Proc
    BY <1>2, <2>1, <2>2, TaskWritten
  <2>4. SameAttempts(w.task, x.task)
    BY <1>2, <2>1, <2>2, StatusKeepsAttempts
  <2>5. RetriesFollowStarts(x.task)
    BY <1>2, <2>4, AttemptsKept
  <2>6. StopsRun(p, x, "failed")
    BY <1>4
  <2> HIDE DEF x
  <2> QED BY <1>1, <2>3, <2>5, <2>6, StopsFit
<1> QED BY <1>1, <1>3, <1>4

(* The answer of the coordinator itself takes a step more. *)
LEMMA CompleteRunFits ==
  ASSUME IInv, StepsInv, NEW p \in Procs, CompleteRun(p)
  PROVE  StepsInv'
<1> DEFINE w == proc[p]
           synthesizes == p = Coordinator /\ ~Answered(w)
           n == IF synthesizes THEN w.steps + 1 ELSE w.steps
           x == SetRun(w, "completed")
           y == [x.run EXCEPT !.steps = n, !.synthesized = synthesizes]
           v == [x EXCEPT !.run.steps = n, !.run.synthesized = synthesizes,
                          !.pc = "returning", !.cur = 0]
<1>1. /\ w.pc = "between" /\ UNCHANGED <<run, task>>
      /\ IF n > MaxSteps \/ w.run.status \in TerminalRun
         THEN StopsRun(p, w, "failed")
         ELSE proc' = [proc EXCEPT ![p] = v]
  BY Zenon DEF CompleteRun
<1>2. w \in Proc /\ StepsFit(w) /\ RetriesFollowStarts(w.task)
  BY LoadedFits
<1>3. CASE n > MaxSteps \/ w.run.status \in TerminalRun
  <2>1. StopsRun(p, w, "failed")
    BY <1>1, <1>3
  <2> QED BY <1>1, <1>2, <2>1, StopsFit
<1>4. CASE ~(n > MaxSteps \/ w.run.status \in TerminalRun)
  <2>1. proc' = [proc EXCEPT ![p] = v]
    BY <1>1, <1>4
  <2> HIDE DEF w
  <2>2. w.steps \in Nat /\ w.steps = AttemptsIn(w.task)
    BY <1>1, <1>2, ProcFields DEF StepsFit
  <2>3. synthesizes \in BOOLEAN /\ n = AttemptsIn(w.task) + IF synthesizes THEN 1 ELSE 0
    BY <2>2
  <2> HIDE DEF n, synthesizes
  <2>4. x \in Proc /\ x.run.status = "completed" /\ x.task = w.task
    <3>1. "completed" \in RunStatus
      BY DEF RunStatus, TerminalRun
    <3> QED BY <1>2, <3>1, RunWritten
  <2> HIDE DEF x
  <2>5. y.steps = n /\ y.synthesized = synthesizes /\ y.status = "completed"
    <3>1. x.run \in Run
      BY <2>4, ProcFields
    <3> QED BY <2>4, <3>1 DEF Run
  <2>6. v = [x EXCEPT !.run = y, !.pc = "returning", !.cur = 0]
    BY <2>4 DEF Proc
  <2> HIDE DEF y, v
  <2>7. v.pc = "returning" /\ v.run = y /\ v.task = x.task
    BY <2>4, <2>6 DEF Proc
  <2>8. StepsFit(v)
    BY <1>2, <2>3, <2>4, <2>5, <2>7 DEF StepsFit, Accounted, TerminalRun
  <2> USE DEF w
  <2> QED BY <1>1, <2>1, <2>8, LocalFits
<1> QED BY <1>3, <1>4

(* The rows become what the process accounted for. *)
LEMMA CommitResultFits ==
  ASSUME IInv, StepsInv, NEW p \in Procs, CommitResult(p)
  PROVE  StepsInv'
<1> DEFINE w == proc[p]
           v == [IdleProc EXCEPT !.pc = "done"]
<1>1. w.pc = "returning" /\ proc' = [proc EXCEPT ![p] = v] /\ run' = w.run
  BY ResultFacts DEF CommitResult
<1>2. StepsFit(w)
  BY LoadedFits
<1>3. AttemptsIn(task') = AttemptsIn(w.task) /\ RetriesFollowStarts(task')
  <2>1. w \in Proc /\ w.task \in [Tasks -> Task]
    BY LoadedFits, ProcFields
  <2>2. /\ task' \in [Tasks -> Task]
        /\ \A t \in Tasks :
             task'[t] = w.task[t] \/ (w.task[t].status \in OpenTask /\ task'[t] = Cancelled(w.task[t]))
    BY ResultFacts
  <2>3. SameAttempts(w.task, task')
    <3> HIDE DEF w
    <3> QED BY <2>1, <2>2, MergedTasks DEF SameAttempts
  <2> QED BY <1>2, <2>3, AttemptsKept DEF StepsFit
<1>4. RowsAccounted'
  <2>1. /\ run'.status \notin TerminalRun => ~run'.synthesized
        /\ run'.status \in {"completed", "awaiting_approval"} =>
             run'.steps = AttemptsIn(task') + IF run'.synthesized THEN 1 ELSE 0
    BY <1>1, <1>2, <1>3 DEF StepsFit, Accounted
  <2>2. AttemptsIn(task)' = AttemptsIn(task')
    BY DEF AttemptsIn
  <2> QED BY <1>3, <2>1, <2>2 DEF RowsAccounted, RetriesFollowStarts, Accounted
<1>5. StepsFit(v)
  BY IdleFits
<1>6. \A q \in Procs : StepsFit(proc'[q])
  BY <1>1, <1>5 DEF IInv, TypeOK, StepsInv
<1>7. \A q \in Procs : StepsFit(proc[q])'
  BY <1>6 DEF StepsFit, RetriesFollowStarts, Accounted
<1> QED BY <1>4, <1>7 DEF StepsInv

LEMMA LoopFits ==
  ASSUME IInv, StepsInv, NEW p \in Procs, RunsTasks(p)
  PROVE  StepsInv'
  BY SkipTaskFits, ReadyTaskFits, BeginAttemptFits, ExhaustedFits, AttemptFits, CompleteRunFits,
     CommitResultFits DEF RunsTasks
----------------------------------------------------------------------------
(* The coordinator outside its loop, and the answers.                         *)

LEMMA StartRunFits ==
  ASSUME IInv, StepsInv, StartRun
  PROVE  StepsInv'
<1> DEFINE w == proc[Coordinator]
           n == [NoRun EXCEPT !.status = "pending"]
           v == [w EXCEPT !.pc = "started", !.run = n]
<1>1. /\ w.pc = "idle" /\ run' = n /\ proc' = [proc EXCEPT ![Coordinator] = v] /\ task' = task
  BY DEF StartRun, IInv, TypeOK, Procs
<1>2. w \in Proc /\ Coordinator \in Procs /\ w = IdleProc
  BY <1>1, WhatIsLoaded DEF Procs, CoordinatorInv
<1>3. n.steps = 0 /\ n.synthesized = FALSE /\ n.status = "pending"
  BY DEF NoRun
<1> HIDE DEF n
<1>4. v.pc = "started" /\ v.run = n /\ v.task = [t \in Tasks |-> NoTask] /\ v.steps = 0
  BY <1>2 DEF Proc, IdleProc
<1> HIDE DEF v
<1>5. RetriesFollowStarts(v.task)
  BY <1>4 DEF RetriesFollowStarts, NoTask
<1>6. StepsFit(v)
  BY <1>3, <1>4, <1>5 DEF StepsFit
<1>7. RowsAccounted'
  BY <1>1, <1>3 DEF StepsInv, RowsAccounted, RetriesFollowStarts
<1>8. \A q \in Procs : StepsFit(proc'[q])
  BY <1>1, <1>6 DEF IInv, TypeOK, StepsInv
<1>9. \A q \in Procs : StepsFit(proc[q])'
  BY <1>8 DEF StepsFit, RetriesFollowStarts, Accounted
<1> QED BY <1>7, <1>9 DEF StepsInv

LEMMA BeginPlanningFits ==
  ASSUME IInv, StepsInv, BeginPlanning
  PROVE  StepsInv'
<1> DEFINE w == proc[Coordinator]
           x == SetRun(w, "planning")
           v == [x EXCEPT !.pc = "planning"]
<1>1. w.pc = "started" /\ proc' = [proc EXCEPT ![Coordinator] = v] /\ UNCHANGED <<run, task>>
  BY DEF BeginPlanning
<1>2. /\ Coordinator \in Procs /\ w \in Proc /\ StepsFit(w) /\ w.run.status \in ActiveRun
  BY <1>1, BeforeTheLoop, LoadedFits
<1> HIDE DEF w
<1>3. /\ x \in Proc /\ x.run = [w.run EXCEPT !.status = "planning"] /\ x.task = w.task /\ x.steps = w.steps
  <2>1. "planning" \in RunStatus
    BY DEF RunStatus, ActiveRun
  <2> QED BY <1>2, <2>1, RunWritten
<1>4. x.run.status = "planning" /\ x.run.synthesized = w.run.synthesized
  BY <1>2, <1>3, ProcFields DEF Run
<1> HIDE DEF x
<1>5. v.pc = "planning" /\ v.run = x.run /\ v.task = w.task /\ v.steps = w.steps
  BY <1>3 DEF Proc
<1> HIDE DEF v
<1>6. StepsFit(v)
  BY <1>1, <1>2, <1>4, <1>5 DEF StepsFit, TerminalRun, ActiveRun
<1> USE DEF w
<1> QED BY <1>1, <1>2, <1>6, LocalFits

LEMMA AcceptPlanFits ==
  ASSUME IInv, StepsInv, AcceptPlan
  PROVE  StepsInv'
<1> DEFINE w == proc[Coordinator]
           x == SetRun(w, "running")
           new == [NoTask EXCEPT !.status = "pending"]
           T == [t \in Tasks |-> new]
           y == [x EXCEPT !.task = T, !.wrote = Tasks]
           v == [y EXCEPT !.pc = "between", !.wroteRun = FALSE, !.wrote = {}]
<1>1. /\ w.pc = "planning" /\ Commit(y) /\ proc' = [proc EXCEPT ![Coordinator] = v]
  BY Zenon DEF AcceptPlan
<1>2. /\ Coordinator \in Procs /\ w \in Proc /\ StepsFit(w) /\ w.run.status \in ActiveRun
  BY <1>1, BeforeTheLoop, LoadedFits
<1> HIDE DEF w
<1>3. /\ x \in Proc /\ x.run = [w.run EXCEPT !.status = "running"] /\ x.steps = w.steps
      /\ x.wroteRun = TRUE
  <2>1. "running" \in RunStatus
    BY DEF RunStatus, ActiveRun
  <2> QED BY <1>2, <2>1, RunWritten
<1>4. x.run.status = "running" /\ x.run.synthesized = w.run.synthesized
  BY <1>2, <1>3, ProcFields DEF Run
<1>5. new.status = "pending" /\ new.started = FALSE /\ new.retries = 0
  BY DEF NoTask
<1> HIDE DEF x, new
<1>6. T \in [Tasks -> {new}]
  OBVIOUS
<1>7. RetriesFollowStarts(T) /\ \A t \in Tasks : ~T[t].started
  BY <1>5 DEF RetriesFollowStarts
<1> HIDE DEF T
<1>8. AttemptsIn(T) = 0
  BY <1>7, NoAttempts
<1>9. y.run = x.run /\ y.wroteRun = TRUE /\ y.task = T /\ y.wrote = Tasks /\ y.steps = w.steps
  BY <1>3 DEF Proc
<1>10. v.pc = "between" /\ v.run = x.run /\ v.task = T /\ v.steps = w.steps
  BY <1>3 DEF Proc
<1> HIDE DEF y, v
<1>11. StepsFit(v)
  BY <1>1, <1>2, <1>4, <1>7, <1>8, <1>10 DEF StepsFit, TerminalRun, ActiveRun
<1>12. run' = x.run /\ task' = T
  <2>1. run' = x.run
    BY <1>1, <1>9 DEF Commit, CommittedRun
  <2>2. CommittedTasks(y) = [t \in Tasks |-> T[t]]
    BY <1>9 DEF CommittedTasks
  <2>3. T = [t \in Tasks |-> T[t]]
    BY <1>6
  <2> QED BY <1>1, <2>1, <2>2, <2>3 DEF Commit
<1>13. RowsAccounted'
  <2>1. RetriesFollowStarts(task')
    BY <1>7, <1>12
  <2>2. run'.status = "running" /\ ~run'.synthesized
    BY <1>2, <1>4, <1>12 DEF StepsFit, TerminalRun, ActiveRun
  <2> QED BY <2>1, <2>2 DEF RowsAccounted, RetriesFollowStarts
<1>14. \A q \in Procs : StepsFit(proc'[q])
  BY <1>1, <1>11 DEF IInv, TypeOK, StepsInv
<1>15. \A q \in Procs : StepsFit(proc[q])'
  BY <1>14 DEF StepsFit, RetriesFollowStarts, Accounted
<1> QED BY <1>13, <1>15 DEF StepsInv

LEMMA FailureStepsFit ==
  ASSUME IInv, StepsInv, RefusePlan \/ UnexpectedFailure
  PROVE  StepsInv'
<1> DEFINE w == proc[Coordinator]
           v == [w EXCEPT !.run = run, !.task = task, !.wroteRun = FALSE, !.wrote = {}]
<1>1. Coordinator \in Procs
  BY DEF Procs
<1>2. w \in Proc /\ RetriesFollowStarts(w.task)
  BY <1>1, LoadedFits
<1>3. CASE RefusePlan
  <2>1. StopsRun(Coordinator, w, "failed") /\ UNCHANGED <<run, task>>
    BY <1>3 DEF RefusePlan
  <2> QED BY <1>1, <1>2, <2>1, StopsFit
<1>4. CASE UnexpectedFailure
  <2>1. StopsRun(Coordinator, v, "failed") /\ UNCHANGED <<run, task>>
    BY <1>4 DEF UnexpectedFailure
  <2>2. run \in Run /\ task \in [Tasks -> Task] /\ RetriesFollowStarts(task)
    BY DEF IInv, TypeOK, StepsInv, RowsAccounted
  <2> HIDE DEF w
  <2>3. v \in Proc /\ v.task = task
    BY <1>2, <2>2 DEF Proc
  <2> HIDE DEF v
  <2> QED BY <1>1, <2>1, <2>2, <2>3, StopsFit
<1> QED BY <1>3, <1>4

LEMMA CheckpointFits ==
  ASSUME IInv, StepsInv, Checkpoint
  PROVE  StepsInv'
<1> DEFINE w == proc[Coordinator]
           pc == IF w.asks THEN "asking" ELSE "between"
           v == [w EXCEPT !.run = run', !.task[w.cur] = task'[w.cur], !.wroteRun = FALSE,
                          !.wrote = {}, !.pc = pc]
<1>1. w.pc = "settled" /\ Commit(w) /\ proc' = [proc EXCEPT ![Coordinator] = v]
  BY Zenon DEF Checkpoint
<1>2. /\ Coordinator \in Procs /\ w \in Proc /\ LoadedInv(w) /\ AtTasks(w) /\ StepsFit(w)
  BY <1>1, InTheLoop, LoadedFits DEF Procs
<1>3. /\ run' = run /\ task' \in [Tasks -> Task] /\ task'[w.cur] = w.task[w.cur]
      /\ \A t \in Tasks :
           task'[t] = w.task[t] \/ (w.task[t].status \in OpenTask /\ task'[t] = Cancelled(w.task[t]))
  <2>1. task \in [Tasks -> Task] /\ w.wroteRun = FALSE /\ w.cur \in w.wrote /\ w.cur \in Tasks
    BY <1>1, <1>2, InTheLoop DEF IInv, TypeOK, AtTasks
  <2>2. run' = run
    BY <1>1, <2>1 DEF Commit, CommittedRun
  <2> HIDE DEF w
  <2> QED BY <1>1, <1>2, <2>1, <2>2, CommitMerges
<1>4. w.cur \in Tasks /\ w.task \in [Tasks -> Task] /\ run.status \in ActiveRun \cup {"cancelled"}
  BY <1>1, <1>2, ProcFields DEF AtTasks, IInv, RunInv, TurnsInv, Busy
<1> HIDE DEF w
<1>5. [w.task EXCEPT ![w.cur] = task'[w.cur]] = w.task
  BY <1>3, <1>4
<1>6. v = [w EXCEPT !.run = run', !.task = w.task, !.wroteRun = FALSE, !.wrote = {}, !.pc = pc]
  BY <1>2, <1>5 DEF Proc
<1> HIDE DEF v
<1>7. v.pc \in {"asking", "between"} /\ v.run = run /\ v.task = w.task /\ v.steps = w.steps
  BY <1>2, <1>3, <1>6 DEF Proc
<1>8. StepsFit(v)
  <2>1. run.status \notin TerminalRun => ~run.synthesized
    BY DEF StepsInv, RowsAccounted
  <2> QED BY <1>1, <1>2, <1>7, <2>1 DEF StepsFit
<1>9. RowsAccounted'
  <2>1. RetriesFollowStarts(task')
    <3>1. SameAttempts(w.task, task')
      BY <1>3, <1>4, MergedTasks DEF SameAttempts
    <3> QED BY <1>2, <3>1, AttemptsKept DEF StepsFit
  <2>2. run'.status \notin {"completed", "awaiting_approval"}
    BY <1>3, <1>4 DEF ActiveRun
  <2>3. run'.status \notin TerminalRun => ~run'.synthesized
    BY <1>3 DEF StepsInv, RowsAccounted
  <2> QED BY <2>1, <2>2, <2>3 DEF RowsAccounted, RetriesFollowStarts
<1>10. \A q \in Procs : StepsFit(proc'[q])
  BY <1>1, <1>8 DEF IInv, TypeOK, StepsInv
<1>11. \A q \in Procs : StepsFit(proc[q])'
  BY <1>10 DEF StepsFit, RetriesFollowStarts, Accounted
<1> QED BY <1>9, <1>11 DEF StepsInv

LEMMA AskForApprovalFits ==
  ASSUME IInv, StepsInv, AskForApproval
  PROVE  StepsInv'
<1> DEFINE w == proc[Coordinator]
           x == SetTask(w, w.cur, "awaiting_approval")
           y == SetRun(x, "awaiting_approval")
           z == [y.run EXCEPT !.steps = w.steps]
           v == [y EXCEPT !.approval = "pending", !.run.steps = w.steps, !.pc = "returning"]
<1>1. /\ w.pc = "asking" /\ UNCHANGED <<run, task>>
      /\ IF w.run.status \in TerminalRun THEN Abandon(Coordinator, "done")
         ELSE proc' = [proc EXCEPT ![Coordinator] = v]
  BY Zenon DEF AskForApproval
<1>2. Coordinator \in Procs /\ w \in Proc /\ StepsFit(w) /\ AtTasks(w)
  BY <1>1, InTheLoop, LoadedFits DEF Procs
<1>3. w.cur \in Tasks
  BY <1>1, <1>2 DEF AtTasks
<1>4. CASE w.run.status \in TerminalRun
  BY <1>1, <1>2, <1>4, AbandonFits
<1>5. CASE w.run.status \notin TerminalRun
  <2> HIDE DEF w
  <2>1. x \in Proc /\ x.run = w.run /\ SameAttempts(w.task, x.task) /\ x.steps = w.steps
    <3>1. "awaiting_approval" \in TaskStatus \ {"pending"}
      BY DEF TaskStatus, OpenTask
    <3>2. SameAttempts(w.task, x.task)
      BY <1>2, <1>3, <3>1, StatusKeepsAttempts
    <3>3. x \in Proc /\ x.run = w.run /\ x.steps = w.steps
      BY <1>2, <1>3, <3>1, TaskWritten, Zenon
    <3> QED BY <3>2, <3>3
  <2> HIDE DEF x
  <2>2. y \in Proc /\ y.run = [x.run EXCEPT !.status = "awaiting_approval"] /\ y.task = x.task
    <3>1. "awaiting_approval" \in RunStatus
      BY DEF RunStatus
    <3> QED BY <2>1, <3>1, RunWritten
  <2>3. y.run.status = "awaiting_approval" /\ y.run.synthesized = w.run.synthesized
    BY <1>2, <2>1, <2>2, ProcFields DEF Run
  <2> HIDE DEF y
  <2>4. z.status = "awaiting_approval" /\ z.synthesized = w.run.synthesized /\ z.steps = w.steps
    BY <2>2, <2>3, ProcFields DEF Run
  <2>5. v = [y EXCEPT !.approval = "pending", !.run = z, !.pc = "returning"]
    BY <2>2 DEF Proc
  <2> HIDE DEF z, v
  <2>6. v.pc = "returning" /\ v.run = z /\ v.task = x.task
    BY <2>2, <2>5 DEF Proc
  <2>7. w.steps = AttemptsIn(w.task) /\ ~w.run.synthesized /\ w.steps \in Nat
    BY <1>1, <1>2, <1>5, ProcFields DEF StepsFit
  <2>8. StepsFit(v)
    BY <1>2, <2>1, <2>4, <2>6, <2>7, AttemptsKept DEF StepsFit, Accounted
  <2> USE DEF w
  <2> QED BY <1>1, <1>2, <1>5, <2>8, LocalFits
<1> QED BY <1>4, <1>5

LEMMA ContinueResumedFits ==
  ASSUME IInv, StepsInv, NEW r \in Resolvers, ContinueResumed(r)
  PROVE  StepsInv'
<1> DEFINE w == proc[r]
           v == [w EXCEPT !.pc = "between"]
<1>1. w.pc = "settled" /\ UNCHANGED <<run, task>>
  BY DEF ContinueResumed
<1>2. r \in Procs /\ w \in Proc /\ StepsFit(w)
  BY LoadedFits DEF Procs
<1>3. CASE w.asks
  BY <1>1, <1>2, <1>3, AbandonFits DEF ContinueResumed
<1>4. CASE ~w.asks
  <2>1. proc' = [proc EXCEPT ![r] = v]
    BY <1>2, <1>4 DEF ContinueResumed, IInv, TypeOK
  <2> HIDE DEF w
  <2>2. v.pc = "between" /\ v.run = w.run /\ v.task = w.task /\ v.steps = w.steps
    BY <1>2 DEF Proc
  <2> HIDE DEF v
  <2>3. StepsFit(v)
    BY <1>1, <1>2, <2>2 DEF StepsFit
  <2> USE DEF w
  <2> QED BY <1>1, <1>2, <2>1, <2>3, LocalFits
<1> QED BY <1>3, <1>4

(* An answer changes statuses, no attempt and no step. *)
LEMMA AnswerKeepsSteps ==
  ASSUME IInv, StepsInv, NEW r \in Resolvers, proc[r].pc = "locked",
         NEW a \in ApprovalStatus, NEW o \in TerminalTask, NEW s \in RunStatus
  PROVE  LET w == proc[r]
             v == Resolved(w, a, o, s)
         IN  /\ r \in Procs /\ v \in Proc /\ v.run.status = s /\ ~v.run.synthesized
             /\ RetriesFollowStarts(v.task) /\ v.steps = AttemptsIn(v.task)
             /\ v.run.steps = v.steps /\ v.steps \in Nat
<1> DEFINE w == proc[r]
           T == Asking(w)
           x == SetRun(w, s)
           U == [t \in Tasks |-> IF t \in T THEN [w.task[t] EXCEPT !.status = o] ELSE w.task[t]]
           v == Resolved(w, a, o, s)
<1>1. r \in Procs /\ w \in Proc /\ StepsFit(w) /\ v \in Proc
  <2>1. r \in Procs
    BY DEF Procs
  <2>2. w \in Proc /\ StepsFit(w)
    BY <2>1, LoadedFits
  <2>3. v \in Proc
    BY Answer, Zenon
  <2> QED BY <2>1, <2>2, <2>3
<1>2. /\ RetriesFollowStarts(w.task) /\ w.steps = AttemptsIn(w.task)
      /\ w.run.steps = w.steps /\ ~w.run.synthesized
  BY <1>1 DEF StepsFit, TerminalRun
<1> HIDE DEF w
<1>3. x \in Proc /\ x.run = [w.run EXCEPT !.status = s] /\ x.task = w.task /\ x.steps = w.steps
  BY <1>1, RunWritten
<1>4. x.run.status = s /\ x.run.steps = w.run.steps /\ x.run.synthesized = w.run.synthesized
  BY <1>1, <1>3, ProcFields DEF Run
<1>5. v = [x EXCEPT !.approval = a, !.wrote = T, !.task = U]
  BY DEF Resolved
<1> HIDE DEF x, T, v
<1>6. w.task \in [Tasks -> Task] /\ o # "pending"
  BY <1>1, ProcFields DEF TerminalTask
<1>7. SameAttempts(w.task, U)
  <2> SUFFICES ASSUME NEW t \in Tasks
               PROVE  /\ U[t].started = w.task[t].started /\ U[t].retries = w.task[t].retries
                      /\ U[t].status = "pending" => w.task[t].status = "pending"
    BY DEF SameAttempts
  <2>1. w.task[t] \in Task
    BY <1>6
  <2> QED BY <1>6, <2>1 DEF Task
<1> HIDE DEF U
<1>8. v.run = x.run /\ v.task = U /\ v.steps = w.steps
  BY <1>3, <1>5 DEF Proc
<1>9. w.steps \in Nat
  BY <1>1, ProcFields
<1>10. AttemptsIn(U) = AttemptsIn(w.task) /\ RetriesFollowStarts(U)
  BY <1>2, <1>7, AttemptsKept
<1> QED BY <1>1, <1>2, <1>4, <1>8, <1>9, <1>10 DEF v, w

LEMMA ApproveFits ==
  ASSUME IInv, StepsInv, NEW r \in Resolvers, Approve(r)
  PROVE  StepsInv'
<1> DEFINE w == proc[r]
           x == Resolved(w, "approved", "succeeded", "running")
           v == [x EXCEPT !.pc = "between"]
<1>1. w.pc = "locked" /\ proc' = [proc EXCEPT ![r] = v] /\ UNCHANGED <<run, task>>
  BY DEF Approve
<1>2. "approved" \in ApprovalStatus /\ "succeeded" \in TerminalTask /\ "running" \in RunStatus
  BY DEF ApprovalStatus, TerminalTask, RunStatus, ActiveRun
<1>3. /\ r \in Procs /\ x \in Proc /\ ~x.run.synthesized
      /\ RetriesFollowStarts(x.task) /\ x.steps = AttemptsIn(x.task)
  BY <1>1, <1>2, AnswerKeepsSteps
<1> HIDE DEF x
<1>4. v.pc = "between" /\ v.run = x.run /\ v.task = x.task /\ v.steps = x.steps
  BY <1>3 DEF Proc
<1> HIDE DEF v
<1>5. StepsFit(v)
  BY <1>3, <1>4 DEF StepsFit
<1> QED BY <1>1, <1>3, <1>5, LocalFits

LEMMA RejectFits ==
  ASSUME IInv, StepsInv, NEW r \in Resolvers, Reject(r)
  PROVE  StepsInv'
<1> DEFINE w == proc[r]
           x == Resolved(w, "rejected", "skipped", "completed")
           S == {t \in Tasks : x.task[t].status \in {"pending", "ready"}}
           U == [t \in Tasks |-> IF t \in S THEN [x.task[t] EXCEPT !.status = "skipped"] ELSE x.task[t]]
           W == x.wrote \cup S
           v == [x EXCEPT !.pc = "returning", !.wrote = W, !.task = U]
<1>1. w.pc = "locked" /\ proc' = [proc EXCEPT ![r] = v] /\ UNCHANGED <<run, task>>
  BY Zenon DEF Reject
<1>2. "rejected" \in ApprovalStatus /\ "skipped" \in TerminalTask /\ "completed" \in RunStatus
  BY DEF ApprovalStatus, TerminalTask, RunStatus, TerminalRun
<1>3. /\ r \in Procs /\ x \in Proc /\ ~x.run.synthesized /\ x.run.status = "completed"
      /\ RetriesFollowStarts(x.task) /\ x.steps = AttemptsIn(x.task)
      /\ x.run.steps = x.steps /\ x.steps \in Nat
  BY <1>1, <1>2, AnswerKeepsSteps
<1> HIDE DEF x
<1>4. x.task \in [Tasks -> Task]
  BY <1>3, ProcFields
<1>5. SameAttempts(x.task, U)
  <2> SUFFICES ASSUME NEW t \in Tasks
               PROVE  /\ U[t].started = x.task[t].started /\ U[t].retries = x.task[t].retries
                      /\ U[t].status = "pending" => x.task[t].status = "pending"
    BY DEF SameAttempts
  <2>1. x.task[t] \in Task
    BY <1>4
  <2> QED BY <2>1 DEF Task
<1> HIDE DEF U, W
<1>6. v.pc = "returning" /\ v.run = x.run /\ v.task = U /\ v.steps = x.steps
  BY <1>3 DEF Proc
<1>7. AttemptsIn(U) = AttemptsIn(x.task) /\ RetriesFollowStarts(U)
  BY <1>3, <1>5, AttemptsKept
<1> HIDE DEF v
<1>8. StepsFit(v)
  BY <1>3, <1>6, <1>7 DEF StepsFit, Accounted, TerminalRun
<1> QED BY <1>1, <1>3, <1>8, LocalFits

LEMMA LockApprovalFits ==
  ASSUME IInv, StepsInv, NEW r \in Resolvers, LockApproval(r)
  PROVE  StepsInv'
<1> DEFINE v == [IdleProc EXCEPT !.pc = "locked", !.run = run, !.task = task, !.steps = StepsUsedSoFar]
<1>1. UNCHANGED <<run, task>> /\ r \in Procs
  BY DEF LockApproval, Procs
<1>2. CASE run.status \in TerminalRun \/ approval # "pending"
  <2>1. Abandon(r, "done")
    BY <1>2 DEF LockApproval
  <2> QED BY <1>1, <2>1, AbandonFits
<1>3. CASE run.status \notin TerminalRun /\ approval = "pending"
  <2>1. proc' = [proc EXCEPT ![r] = v]
    BY <1>3 DEF LockApproval
  <2>2. v.pc = "locked" /\ v.run = run /\ v.task = task /\ v.steps = run.steps
    BY DEF IdleProc, StepsUsedSoFar
  <2> HIDE DEF v
  <2>3. /\ run.status = "awaiting_approval" /\ RetriesFollowStarts(task) /\ ~run.synthesized
        /\ Accounted(task, run) /\ run.steps \in Nat
    BY <1>3 DEF IInv, TypeOK, RunInv, RowsInv, StepsInv, RowsAccounted, Run, TerminalRun
  <2>4. AttemptsIn(task) = run.steps
    <3>1. AttemptsIn(task) \in Nat
      BY AttemptsFinite, Zenon
    <3> QED BY <2>3, <3>1 DEF Accounted
  <2>5. StepsFit(v)
    BY <2>2, <2>3, <2>4 DEF StepsFit
  <2> QED BY <1>1, <2>1, <2>5, LocalFits
<1> QED BY <1>2, <1>3

(* The recovery and the cancellation close the run. *)
LEMMA ClosingFits ==
  ASSUME IInv, StepsInv, RecoverStaleRun \/ \E c \in Cancels : CancelRun(c)
  PROVE  StepsInv'
<1>1. PICK s \in {"failed", "cancelled"} :
        task' = CancelQueued(task) /\ run' = [run EXCEPT !.status = s]
  BY DEF RecoverStaleRun, CancelRun
<1>2. task \in [Tasks -> Task] /\ run \in Run
  BY DEF IInv, TypeOK
<1>3. proc' = proc
  BY DEF RecoverStaleRun, CancelRun
<1>4. RetriesFollowStarts(task')
  BY <1>1, <1>2, CancelKeepsAttempts, AttemptsKept DEF StepsInv, RowsAccounted
<1>5. run'.status = s
  BY <1>1, <1>2 DEF Run
<1>6. RowsAccounted'
  BY <1>4, <1>5 DEF RowsAccounted, RetriesFollowStarts, TerminalRun
<1> QED BY <1>3, <1>6, RowsFit

LEMMA NextFits ==
  ASSUME IInv, StepsInv, [Next]_vars
  PROVE  StepsInv'
<1>1. Coordinator \in Procs /\ Resolvers \subseteq Procs
  BY DEF Procs
<1>2. CASE CoordinatorStep
  BY <1>1, <1>2, StartRunFits, BeginPlanningFits, AcceptPlanFits, FailureStepsFit, LoopFits,
     CheckpointFits, AskForApprovalFits DEF CoordinatorStep
<1>3. CASE UnexpectedFailure
  BY <1>3, FailureStepsFit
<1>4. ASSUME NEW p \in Procs, Lose(p) PROVE StepsInv'
  BY <1>4, AbandonFits DEF Lose
<1>5. CASE RecoverStaleRun
  BY <1>5, ClosingFits
<1>6. ASSUME NEW c \in Cancels, RequestCancel(c) \/ CancelStep(c) PROVE StepsInv'
  <2>1. CASE RequestCancel(c)
    <3>1. UNCHANGED <<run, task>> /\ (UNCHANGED proc \/ Abandon(Coordinator, "gone"))
      BY <2>1 DEF RequestCancel
    <3>2. CASE UNCHANGED proc
      <4>1. RowsAccounted'
        BY <3>1 DEF StepsInv, RowsAccounted, RetriesFollowStarts, Accounted
      <4> QED BY <3>2, <4>1, RowsFit
    <3> QED BY <1>1, <3>1, <3>2, AbandonFits
  <2>2. CASE LockForCancel(c)
    <3>1. UNCHANGED <<run, task, proc>>
      BY <2>2 DEF LockForCancel
    <3>2. RowsAccounted'
      BY <3>1 DEF StepsInv, RowsAccounted, RetriesFollowStarts, Accounted
    <3> QED BY <3>1, <3>2, RowsFit
  <2> QED BY <1>6, <2>1, <2>2, ClosingFits DEF CancelStep
<1>7. ASSUME NEW r \in Resolvers, LockApproval(r) PROVE StepsInv'
  BY <1>7, LockApprovalFits
<1>8. ASSUME NEW r \in Resolvers, ApprovedActionFails(r) PROVE StepsInv'
  BY <1>1, <1>8, AbandonFits DEF ApprovedActionFails
<1>9. ASSUME NEW r \in Resolvers, ResolverStep(r) PROVE StepsInv'
  BY <1>1, <1>8, <1>9, ApproveFits, RejectFits, LoopFits, ContinueResumedFits DEF ResolverStep
<1>10. CASE DeadlockVictim
  <2>1. UNCHANGED <<run, task>> /\ (UNCHANGED proc \/ \E r \in Resolvers : Abandon(r, "done"))
    BY <1>10 DEF DeadlockVictim
  <2>2. CASE UNCHANGED proc
    <3>1. RowsAccounted'
      BY <2>1 DEF StepsInv, RowsAccounted, RetriesFollowStarts, Accounted
    <3> QED BY <2>2, <3>1, RowsFit
  <2> QED BY <1>1, <2>1, <2>2, AbandonFits
<1>11. CASE UNCHANGED vars
  <2>1. RowsAccounted' /\ UNCHANGED proc
    BY <1>11 DEF vars, StepsInv, RowsAccounted, RetriesFollowStarts, Accounted
  <2> QED BY <2>1, RowsFit
<1> QED
  BY <1>2, <1>3, <1>4, <1>5, <1>6, <1>7, <1>9, <1>10, <1>11 DEF Next

LEMMA InitFits ==
  ASSUME Init
  PROVE  StepsInv
<1>1. \A p \in Procs : StepsFit(proc[p])
  <2>1. [IdleProc EXCEPT !.pc = "idle"] = IdleProc
    <3>1. IdleProc \in Proc /\ IdleProc.pc = "idle"
      BY Idle DEF IdleProc
    <3> QED BY <3>1 DEF Proc
  <2>2. StepsFit(IdleProc)
    BY <2>1, IdleFits
  <2> QED BY <2>2 DEF Init
<1>2. RowsAccounted
  BY DEF Init, RowsAccounted, RetriesFollowStarts, NoTask, NoRun
<1> QED BY <1>1, <1>2 DEF StepsInv

(* The steps recorded in a completed run are its attempts, those before and   *)
(* those after its approval, and the answer the coordinator wrote itself, for *)
(* every plan, every limit and every interleaving.                            *)
THEOREM CompletedRunsAreAccountedFor ==
  Spec => []StepsAccountForAttempts
<1>1. Init => IInv /\ StepsInv
  BY InitInv, InitFits
<1>2. (IInv /\ StepsInv) /\ [Next]_vars => (IInv /\ StepsInv)'
  BY NextInv, NextFits
<1>3. IInv /\ StepsInv => StepsAccountForAttempts
  BY DEF StepsInv, RowsAccounted, Accounted, StepsAccountForAttempts
<1> QED BY <1>1, <1>2, <1>3, PTL DEF Spec

----------------------------------------------------------------------------
(* The rows implement RunLifecycle: every commit is one of its steps, and     *)
(* whatever is not committed is invisible.                                    *)

Promise == [Lifecycle!Next]_Lifecycle!vars

LEMMA Phases ==
  ASSUME NEW s \in RunStatus
  PROVE  /\ s \in ActiveRun => s # "none" /\ s # "awaiting_approval" /\ s \notin TerminalRun
         /\ s \in TerminalRun => s # "none" /\ s # "awaiting_approval" /\ s \notin ActiveRun
         /\ s = "none" \/ s = "awaiting_approval" \/ s \in ActiveRun \/ s \in TerminalRun
  BY DEF RunStatus, ActiveRun, TerminalRun

LEMMA PhaseIs ==
  ASSUME run.status \in RunStatus
  PROVE  /\ run.status = "none" => RunPhase = "none"
         /\ run.status \in ActiveRun => RunPhase = "open"
         /\ run.status = "awaiting_approval" => RunPhase = "waiting"
         /\ run.status \in TerminalRun => RunPhase = "closed"
  BY Phases DEF RunPhase, ActiveRun, TerminalRun

LEMMA PhaseIsNext ==
  ASSUME run'.status \in RunStatus
  PROVE  /\ run'.status = "none" => RunPhase' = "none"
         /\ run'.status \in ActiveRun => RunPhase' = "open"
         /\ run'.status = "awaiting_approval" => RunPhase' = "waiting"
         /\ run'.status \in TerminalRun => RunPhase' = "closed"
  BY Phases DEF RunPhase, ActiveRun, TerminalRun

StageOf(s) == CASE s = "none" -> "absent" [] s \in OpenTask -> "unfinished" [] OTHER -> "finished"

LEMMA Stages ==
  ASSUME NEW s \in TaskStatus
  PROVE  /\ StageOf(s) \in {"absent", "unfinished", "finished"}
         /\ StageOf(s) = "absent" <=> s = "none"
         /\ StageOf(s) = "unfinished" <=> s \in OpenTask
         /\ StageOf(s) = "finished" <=> s \in TerminalTask
  BY DEF StageOf, TaskStatus, OpenTask, TerminalTask

(* Tasks move forward. *)
LEMMA MovesForward ==
  ASSUME task \in [Tasks -> Task], task' \in [Tasks -> Task],
         \A t \in Tasks :
           /\ task[t].status \in TerminalTask => task'[t].status \in TerminalTask
           /\ task[t].status # "none" => task'[t].status # "none"
  PROVE  /\ Lifecycle!Forward
         /\ OpenIn(task', {}) => Lifecycle!NothingLeft
<1>1. /\ TaskStage = [t \in Tasks |-> StageOf(task[t].status)]
      /\ TaskStage' = [t \in Tasks |-> StageOf(task'[t].status)]
  BY DEF TaskStage, StageOf
<1>2. \A t \in Tasks : task[t].status \in TaskStatus /\ task'[t].status \in TaskStatus
  BY TaskFields
<1>3. TaskStage' \in [Tasks -> {"absent", "unfinished", "finished"}]
  BY <1>1, <1>2, Stages
<1>4. \A t \in Tasks :
        /\ TaskStage[t] = "finished" => TaskStage'[t] = "finished"
        /\ TaskStage[t] = "unfinished" => TaskStage'[t] # "absent"
  BY <1>1, <1>2, Stages DEF OpenTask
<1>5. OpenIn(task', {}) => \A t \in Tasks : TaskStage'[t] # "unfinished"
  BY <1>1, <1>2, Stages DEF OpenIn
<1> QED BY <1>3, <1>4, <1>5 DEF Lifecycle!Forward, Lifecycle!NothingLeft

LEMMA RowsKept ==
  ASSUME UNCHANGED <<run, task, approval, acted>>
  PROVE  Promise
<1>1. UNCHANGED <<RunPhase, TaskStage, ApprovalGate, acted>>
  BY DEF RunPhase, TaskStage, ApprovalGate
<1> QED BY <1>1 DEF Promise, Lifecycle!vars

LEMMA GateIs ==
  /\ approval = "none" => ApprovalGate = "none"
  /\ approval = "pending" => ApprovalGate = "pending"
  /\ approval = "approved" => ApprovalGate = "granted"
  /\ approval = "rejected" => ApprovalGate = "refused"
  /\ approval = "cancelled" => ApprovalGate = "withdrawn"
  BY DEF ApprovalGate

LEMMA GateIsNext ==
  /\ approval' = "none" => ApprovalGate' = "none"
  /\ approval' = "pending" => ApprovalGate' = "pending"
  /\ approval' = "approved" => ApprovalGate' = "granted"
  /\ approval' = "rejected" => ApprovalGate' = "refused"
  /\ approval' = "cancelled" => ApprovalGate' = "withdrawn"
  BY DEF ApprovalGate

LEMMA InitPromise ==
  ASSUME Init
  PROVE  Lifecycle!Init
<1>1. /\ run.status = "none" /\ approval = "none" /\ acted = 0
      /\ task = [t \in Tasks |-> NoTask] /\ NoTask.status = "none"
  BY DEF Init, NoRun, NoTask
<1>2. RunPhase = "none" /\ ApprovalGate = "none"
  BY <1>1, PhaseIs, GateIs DEF RunStatus
<1>3. \A t \in Tasks : task[t].status = "none"
  BY <1>1
<1>4. TaskStage = [t \in Tasks |-> "absent"]
  <2>1. TaskStage = [t \in Tasks |-> StageOf(task[t].status)]
    BY DEF TaskStage, StageOf
  <2>2. \A t \in Tasks : StageOf(task[t].status) = "absent"
    BY <1>3, Stages DEF TaskStatus
  <2> QED BY <2>1, <2>2
<1> QED BY <1>1, <1>2, <1>4 DEF Lifecycle!Init

(* A committed result pauses the run, closes it, or answers its approval. *)
LEMMA ResultPromise ==
  ASSUME IInv, ~Overruled, NEW p \in Procs, CommitResult(p)
  PROVE  Promise
<1> DEFINE w == proc[p]
<1>1. acted' = IF p # Coordinator /\ w.approval = "approved" THEN acted + 1 ELSE acted
  BY DEF CommitResult
<1>2. /\ w \in Proc /\ run' = w.run /\ task' = w.task /\ LoadedInv(w)
  BY ResultFacts
<1>3. /\ run.status \in RunStatus /\ run'.status \in RunStatus
      /\ task \in [Tasks -> Task] /\ task' \in [Tasks -> Task]
  BY <1>2, ProcFields, RunFields DEF IInv, TypeOK
<1>4. Lifecycle!Forward /\ (OpenIn(task', {}) => Lifecycle!NothingLeft)
  BY <1>2, <1>3, MovesForward DEF LoadedInv, TerminalTask
<1> HIDE DEF w
<1>5. CASE /\ p = Coordinator /\ run.status \in ActiveRun /\ approval = "none"
           /\ w.run.status \in TerminalRun /\ OpenIn(w.task, {}) /\ approval' = "none"
  <2>1. RunPhase = "open" /\ RunPhase' = "closed"
    BY <1>2, <1>3, <1>5, PhaseIs, PhaseIsNext
  <2>2. ApprovalGate = "none" /\ ApprovalGate' = "none" /\ acted' = acted
    BY <1>1, <1>5, GateIs, GateIsNext
  <2>3. Lifecycle!NothingLeft
    BY <1>2, <1>4, <1>5
  <2>4. Lifecycle!Close
    BY <1>4, <2>1, <2>2, <2>3 DEF Lifecycle!Close
  <2> QED BY <2>4 DEF Promise, Lifecycle!Next
<1>6. CASE /\ p = Coordinator /\ run.status \in ActiveRun /\ approval = "none"
           /\ w.run.status = "awaiting_approval" /\ approval' = "pending"
  <2>1. RunPhase = "open" /\ RunPhase' = "waiting"
    BY <1>2, <1>3, <1>6, PhaseIs, PhaseIsNext
  <2>2. ApprovalGate = "none" /\ ApprovalGate' = "pending" /\ acted' = acted
    BY <1>1, <1>6, GateIs, GateIsNext
  <2>3. Lifecycle!Ask
    BY <1>4, <2>1, <2>2 DEF Lifecycle!Ask
  <2> QED BY <2>3 DEF Promise, Lifecycle!Next
<1>7. CASE /\ p # Coordinator /\ run.status = "awaiting_approval" /\ approval = "pending"
           /\ w.run.status = "completed" /\ OpenIn(w.task, {})
           /\ w.approval \in {"approved", "rejected"} /\ approval' = w.approval
  <2>1. RunPhase = "waiting" /\ RunPhase' = "closed"
    BY <1>2, <1>3, <1>7, PhaseIs, PhaseIsNext DEF TerminalRun
  <2>2. Lifecycle!NothingLeft
    BY <1>2, <1>4, <1>7
  <2>3. CASE w.approval = "approved"
    <3>1. ApprovalGate' = "granted" /\ acted' = acted + 1
      BY <1>1, <1>7, <2>3, GateIsNext
    <3>2. Lifecycle!Resolve("granted")
      BY <1>4, <2>1, <2>2, <3>1 DEF Lifecycle!Resolve
    <3> QED BY <3>2 DEF Promise, Lifecycle!Next
  <2>4. CASE w.approval = "rejected"
    <3>1. ApprovalGate' = "refused" /\ acted' = acted
      BY <1>1, <1>7, <2>4, GateIsNext
    <3>2. Lifecycle!Resolve("refused")
      BY <1>4, <2>1, <2>2, <3>1 DEF Lifecycle!Resolve
    <3> QED BY <3>2 DEF Promise, Lifecycle!Next
  <2> QED BY <1>7, <2>3, <2>4
<1> QED BY <1>5, <1>6, <1>7, ResultFacts DEF w

(* The recovery and a cancellation withdraw what waits and close the run. *)
LEMMA ClosingPromise ==
  ASSUME IInv, ~Overruled, NEW s \in TerminalRun, run.status # "none",
         run' = [run EXCEPT !.status = s], task' = CancelQueued(task),
         approval' = IF approval = "pending" THEN "cancelled" ELSE approval, acted' = acted
  PROVE  Promise
<1>1. run \in Run /\ task \in [Tasks -> Task] /\ s \in RunStatus
  BY DEF IInv, TypeOK, RunStatus
<1>2. run.status \in RunStatus /\ run'.status = s
  BY <1>1 DEF Run
<1>3. /\ task' \in [Tasks -> Task] /\ OpenIn(task', {})
      /\ \A t \in Tasks :
           /\ task[t].status \in TerminalTask => task'[t].status \in TerminalTask
           /\ task[t].status # "none" => task'[t].status # "none"
  BY <1>1, QueuedCancelled DEF OpenTask, TerminalTask
<1>4. Lifecycle!Forward /\ Lifecycle!NothingLeft
  BY <1>1, <1>3, MovesForward
<1>5. RunPhase' = "closed"
  BY <1>1, <1>2, PhaseIsNext
<1>6. CASE run.status = "awaiting_approval"
  <2>1. approval = "pending"
    BY <1>6 DEF IInv, RunInv, RowsInv
  <2>2. RunPhase = "waiting" /\ ApprovalGate' = "withdrawn"
    BY <1>2, <1>6, <2>1, PhaseIs, GateIsNext
  <2>3. Lifecycle!Resolve("withdrawn")
    BY <1>4, <1>5, <2>2 DEF Lifecycle!Resolve
  <2> QED BY <2>3 DEF Promise, Lifecycle!Next
<1>7. CASE run.status \in ActiveRun
  <2>1. approval = "none" /\ approval' = "none"
    BY <1>7 DEF IInv, RunInv, RowsInv
  <2>2. RunPhase = "open" /\ ApprovalGate = "none" /\ ApprovalGate' = "none"
    BY <1>2, <1>7, <2>1, PhaseIs, GateIs, GateIsNext
  <2>3. Lifecycle!Close
    BY <1>4, <1>5, <2>2 DEF Lifecycle!Close
  <2> QED BY <2>3 DEF Promise, Lifecycle!Next
<1>8. CASE run.status \in TerminalRun
  <2>1. approval' = approval
    BY <1>2, <1>8, Phases DEF IInv, RunInv, RowsInv
  <2>2. \A t \in Tasks : task[t].status \notin OpenTask
    BY <1>8 DEF IInv, RunInv, RowsInv, OpenIn
  <2>3. task' = task
    <3>1. \A t \in Tasks : task'[t] = task[t]
      BY <1>1, <2>2, QueuedCancelled
    <3> QED BY <1>1, <1>3, <3>1
  <2>4. RunPhase' = RunPhase
    BY <1>2, <1>5, <1>8, PhaseIs
  <2>5. ApprovalGate' = ApprovalGate /\ TaskStage' = TaskStage
    BY <2>1, <2>3 DEF ApprovalGate, TaskStage
  <2> QED BY <2>4, <2>5 DEF Promise, Lifecycle!vars
<1> QED BY <1>2, <1>6, <1>7, <1>8, Phases

(* A checkpoint, and the persisted plan *)
LEMMA AdvancePromise ==
  ASSUME run.status \in ActiveRun, run'.status \in ActiveRun, UNCHANGED <<approval, acted>>,
         task \in [Tasks -> Task], task' \in [Tasks -> Task],
         \A t \in Tasks :
           /\ task[t].status \in TerminalTask => task'[t].status \in TerminalTask
           /\ task[t].status # "none" => task'[t].status # "none"
  PROVE  Promise
<1>1. RunPhase = "open" /\ RunPhase' = "open"
  BY PhaseIs, PhaseIsNext DEF RunStatus
<1>2. ApprovalGate' = ApprovalGate
  BY DEF ApprovalGate
<1>3. Lifecycle!Advance
  BY <1>1, <1>2, MovesForward DEF Lifecycle!Advance
<1> QED BY <1>3 DEF Promise, Lifecycle!Next

LEMMA AcceptPlanPromise ==
  ASSUME IInv, ~Overruled, AcceptPlan
  PROVE  Promise
<1> DEFINE w == proc[Coordinator]
           x == SetRun(w, "running")
           T == [t \in Tasks |-> [NoTask EXCEPT !.status = "pending"]]
           y == [x EXCEPT !.task = T, !.wrote = Tasks]
<1>1. w.pc = "planning" /\ Commit(y) /\ UNCHANGED acted
  BY Zenon DEF AcceptPlan
<1>2. w \in Proc /\ w.approval = "none" /\ Unplanned(task) /\ task \in [Tasks -> Task]
      /\ Busy(w) /\ Coordinator \in Procs
  BY <1>1, BeforeTheLoop DEF IInv, TypeOK
<1>3. run.status \in ActiveRun
  BY <1>2 DEF IInv, RunInv, TurnsInv, Overruled
<1> HIDE DEF w
<1>4. x \in Proc /\ x.run.status = "running" /\ x.wroteRun = TRUE /\ x.approval = "none"
  BY <1>2, RunWritten DEF RunStatus, ActiveRun
<1> HIDE DEF x
<1>5. task' \in [Tasks -> Task] /\ run'.status = "running" /\ approval' = approval
  <2>1. IInv'
    BY AcceptPlanStep
  <2>2. y.run = x.run /\ y.wroteRun = TRUE /\ y.approval = "none"
    BY <1>4 DEF Proc
  <2> HIDE DEF y
  <2> QED BY <1>1, <1>4, <2>1, <2>2 DEF IInv, TypeOK, Commit, CommittedRun
<1>6. \A t \in Tasks : task[t].status = "none"
  BY <1>2 DEF Unplanned, NoTask
<1> QED BY <1>1, <1>2, <1>3, <1>5, <1>6, AdvancePromise DEF ActiveRun, TerminalTask

LEMMA CheckpointPromise ==
  ASSUME IInv, ~Overruled, Checkpoint
  PROVE  Promise
<1> DEFINE w == proc[Coordinator]
<1>1. w.pc = "settled" /\ Commit(w) /\ UNCHANGED acted
  BY DEF Checkpoint
<1>2. /\ Coordinator \in Procs /\ w \in Proc /\ Busy(w) /\ LoadedInv(w)
      /\ w.run.status = "running" /\ w.approval = "none"
  BY <1>1, InTheLoop DEF Procs, AtTasks
<1>3. run.status \in ActiveRun /\ task \in [Tasks -> Task]
  BY <1>2 DEF IInv, RunInv, TurnsInv, TypeOK
<1>4. run' = run /\ task' = w.task /\ approval' = approval
  <2>1. ~w.wroteRun
    BY <1>1, <1>2, InTheLoop
  <2>2. run' = run /\ approval' = approval /\ task' \in [Tasks -> Task]
        /\ \A t \in Tasks : task'[t] = w.task[t]
    BY <1>1, <1>2, <1>3, <2>1, CommitMerges
  <2>3. w.task \in [Tasks -> Task]
    BY <1>2, ProcFields
  <2> QED BY <2>2, <2>3
<1>5. /\ task' \in [Tasks -> Task]
      /\ \A t \in Tasks :
           /\ task[t].status \in TerminalTask => task'[t].status \in TerminalTask
           /\ task[t].status # "none" => task'[t].status # "none"
  BY <1>2, <1>4, ProcFields DEF LoadedInv, TerminalTask
<1> QED BY <1>1, <1>2, <1>3, <1>4, <1>5, AdvancePromise DEF ActiveRun

LEMMA StartPromise ==
  ASSUME IInv, StartRun
  PROVE  Promise
<1>1. run' = [NoRun EXCEPT !.status = "pending"] /\ UNCHANGED <<task, approval, acted>>
      /\ proc[Coordinator].pc = "idle"
  BY DEF StartRun
<1>2. run.status = "none" /\ run'.status = "pending"
  BY <1>1 DEF NoRun, IInv, RunInv, TurnsInv
<1>3. RunPhase = "none" /\ RunPhase' = "open"
  BY <1>2, PhaseIs, PhaseIsNext DEF RunStatus, ActiveRun
<1>4. UNCHANGED <<TaskStage, ApprovalGate, acted>>
  BY <1>1 DEF TaskStage, ApprovalGate
<1>5. Lifecycle!Start
  BY <1>3, <1>4 DEF Lifecycle!Start
<1> QED BY <1>5 DEF Promise, Lifecycle!Next

LEMMA LoopPromise ==
  ASSUME IInv, ~Overruled, NEW p \in Procs, RunsTasks(p)
  PROVE  Promise
<1>1. CASE CommitResult(p)
  BY <1>1, ResultPromise
<1>2. CASE ~CommitResult(p)
  <2>1. UNCHANGED <<run, task, approval, acted>>
    BY <1>2 DEF RunsTasks, SkipTask, ReadyTask, BeginAttempt, StepsExhausted, CallsExhausted,
       RunTimesOut, AttemptTimesOut, AttemptRaises, AttemptReturns, AttemptFails, CompleteRun
  <2> QED BY <2>1, RowsKept
<1> QED BY <1>1, <1>2

(* Every step is a step of RunLifecycle, or invisible to it. *)
LEMMA StepPromise ==
  ASSUME IInv, ~Overruled, ~Overruled', [Next]_vars
  PROVE  Promise
<1>1. Coordinator \in Procs /\ Resolvers \subseteq Procs
  BY DEF Procs
<1>2. CASE CoordinatorStep
  <2>1. CASE BeginPlanning \/ RefusePlan \/ AskForApproval
    BY <2>1, RowsKept DEF BeginPlanning, RefusePlan, AskForApproval
  <2> QED BY <1>1, <1>2, <2>1, StartPromise, AcceptPlanPromise, LoopPromise, CheckpointPromise
          DEF CoordinatorStep
<1>3. CASE UnexpectedFailure
  BY <1>3, RowsKept DEF UnexpectedFailure
<1>4. ASSUME NEW p \in Procs, Lose(p) PROVE Promise
  BY <1>4, RowsKept DEF Lose
<1>5. CASE RecoverStaleRun
  <2>1. /\ run.status \in ActiveRun /\ UNCHANGED <<approval, acted>>
        /\ task' = CancelQueued(task) /\ run' = [run EXCEPT !.status = "failed"]
    BY <1>5 DEF RecoverStaleRun
  <2>2. approval = "none"
    BY <1>5, RecoveryFindsNobody
  <2>3. "failed" \in TerminalRun /\ run.status # "none"
    BY <2>1 DEF TerminalRun, ActiveRun
  <2> QED BY <2>1, <2>2, <2>3, ClosingPromise
<1>6. ASSUME NEW c \in Cancels, RequestCancel(c) \/ CancelStep(c) PROVE Promise
  <2>1. CASE RequestCancel(c) \/ LockForCancel(c)
    BY <2>1, RowsKept DEF RequestCancel, LockForCancel
  <2>2. CASE CancelRun(c)
    <3>1. /\ acted' = acted
          /\ task' = CancelQueued(task) /\ run' = [run EXCEPT !.status = "cancelled"]
          /\ approval' = IF approval = "pending" THEN "cancelled" ELSE approval
      BY <2>2 DEF CancelRun
    <3>2. run.status # "none" /\ "cancelled" \in TerminalRun
      <4>1. ~Busy(proc[Coordinator])
        BY <2>2 DEF CancelRun, Overruled, IInv, TypeOK
      <4> QED BY <2>2, <4>1, CancellationFindsNobody DEF TerminalRun
    <3> QED BY <3>1, <3>2, ClosingPromise
  <2> QED BY <1>6, <2>1, <2>2 DEF CancelStep
<1>7. ASSUME NEW r \in Resolvers, LockApproval(r) \/ ResolverStep(r) PROVE Promise
  <2>1. CASE RunsTasks(r)
    BY <1>1, <2>1, LoopPromise
  <2>2. CASE LockApproval(r) \/ Approve(r) \/ ApprovedActionFails(r) \/ Reject(r) \/ ContinueResumed(r)
    BY <2>2, RowsKept DEF LockApproval, Approve, ApprovedActionFails, Reject, ContinueResumed
  <2> QED BY <1>7, <2>1, <2>2 DEF ResolverStep
<1>8. CASE DeadlockVictim
  BY <1>8, RowsKept DEF DeadlockVictim
<1>9. CASE UNCHANGED vars
  BY <1>9, RowsKept DEF vars
<1> QED BY <1>2, <1>3, <1>4, <1>5, <1>6, <1>7, <1>8, <1>9 DEF Next

(* An overruled cancellation stays one. *)
LEMMA OverruledForGood ==
  ASSUME IInv, Overruled, [Next]_vars
  PROVE  Overruled'
<1>1. PICK d \in Cancels : cancel[d].pc = "overruled"
  BY DEF Overruled
<1>2. cancel \in [Cancels -> CancelRequest]
  BY DEF IInv, TypeOK
<1>3. CASE UNCHANGED cancel
  BY <1>1, <1>3 DEF Overruled
<1>4. ASSUME NEW c \in Cancels, cancel[c].pc # "overruled", \A e \in Cancels \ {c} : cancel'[e] = cancel[e]
      PROVE  Overruled'
  BY <1>1, <1>4 DEF Overruled
<1>5. \/ UNCHANGED cancel
      \/ \E c \in Cancels : /\ cancel[c].pc # "overruled"
                            /\ \A e \in Cancels \ {c} : cancel'[e] = cancel[e]
  <2>1. CASE UnexpectedFailure \/ RecoverStaleRun \/ (\E p \in Procs : Lose(p)) \/ UNCHANGED vars
    BY <2>1 DEF UnexpectedFailure, RecoverStaleRun, Lose, vars
  <2>2. CASE DeadlockVictim
    BY <1>2, <2>2 DEF DeadlockVictim
  <2>3. ASSUME NEW p \in Procs, RunsTasks(p) PROVE UNCHANGED cancel
    BY <2>3 DEF RunsTasks, SkipTask, ReadyTask, BeginAttempt, StepsExhausted, CallsExhausted,
       RunTimesOut, AttemptTimesOut, AttemptRaises, AttemptReturns, AttemptFails, CompleteRun,
       CommitResult
  <2>4. CASE CoordinatorStep
    BY <2>3, <2>4 DEF Procs, CoordinatorStep, StartRun, BeginPlanning, AcceptPlan, RefusePlan, Checkpoint,
       AskForApproval
  <2>5. ASSUME NEW r \in Resolvers, LockApproval(r) \/ ResolverStep(r) PROVE UNCHANGED cancel
    BY <2>3, <2>5 DEF Procs, LockApproval, ResolverStep, Approve, ApprovedActionFails, Reject,
       ContinueResumed
  <2>6. ASSUME NEW c \in Cancels, RequestCancel(c) \/ CancelStep(c)
        PROVE  cancel[c].pc # "overruled" /\ \A e \in Cancels \ {c} : cancel'[e] = cancel[e]
    BY <1>2, <2>6 DEF RequestCancel, CancelStep, LockForCancel, CancelRun
  <2> QED BY <2>1, <2>2, <2>4, <2>5, <2>6 DEF Next
<1> QED BY <1>3, <1>4, <1>5

(* Whatever the coordinator, the cancellations, the answers and the recovery  *)
(* do and in which order, the rows of a run keep the promises of              *)
(* RunLifecycle until a cancellation is overruled: a closed run stays closed  *)
(* and has nothing unfinished, and the approved action is applied once when   *)
(* it was approved, never otherwise.                                          *)
THEOREM RunsKeepLifecycle ==
  Spec => KeepsLifecycle
<1>1. Init => Lifecycle!Init
  BY InitPromise
<1>2. TypeOK /\ RunInv /\ [Next]_vars => [Lifecycle!Next \/ Overruled']_Lifecycle!vars
  BY StepPromise, OverruledForGood DEF IInv, Promise
<1> QED BY <1>1, <1>2, RunInvariant, PTL DEF Spec, KeepsLifecycle

(* With one API process no cancellation is overruled, and the rows keep the   *)
(* promises of RunLifecycle to the end.                                       *)
THEOREM OneProcessKeepsLifecycle ==
  ASSUME Remote = {}
  PROVE  Spec => Lifecycle!Spec
<1>1. TypeOK /\ RunInv => ~Overruled
  BY DEF RunInv, TurnsInv, Overruled
<1>2. ~Overruled' /\ [Lifecycle!Next \/ Overruled']_Lifecycle!vars => [Lifecycle!Next]_Lifecycle!vars
  OBVIOUS
<1> QED BY <1>1, <1>2, RunInvariant, RunsKeepLifecycle, PTL DEF KeepsLifecycle, Lifecycle!Spec

(* The approved action has been committed exactly once when the approval row  *)
(* says approved, and never otherwise: not by a second answer, after a        *)
(* cancellation, or by a resolution that was rolled back.                     *)
AppliedOnce == acted = IF approval = "approved" THEN 1 ELSE 0

(* Only the commit of a turn or of an answer, and a cancellation, change what *)
(* it speaks of.                                                              *)
LEMMA StepAppliesOnce ==
  ASSUME IInv, AppliedOnce, [Next]_vars
  PROVE  AppliedOnce'
<1>1. ASSUME NEW p \in Procs, CommitResult(p) PROVE AppliedOnce'
  <2>1. acted' = IF p # Coordinator /\ proc[p].approval = "approved" THEN acted + 1 ELSE acted
    BY <1>1 DEF CommitResult
  <2>2. CASE p = Coordinator
    <3>1. approval = "none" /\ approval' \in {"none", "pending"} /\ acted' = acted
      BY <1>1, <2>1, <2>2, ResultFacts DEF Procs
    <3> QED BY <3>1 DEF AppliedOnce
  <2>3. CASE p # Coordinator
    <3>1. /\ approval = "pending" /\ approval' = proc[p].approval
          /\ proc[p].approval \in {"approved", "rejected"}
      BY <1>1, <2>3, ResultFacts
    <3>2. acted = 0
      BY <3>1 DEF AppliedOnce
    <3> QED BY <2>1, <2>3, <3>1, <3>2 DEF AppliedOnce
  <2> QED BY <2>2, <2>3
<1>2. ASSUME NEW c \in Cancels, CancelRun(c) PROVE AppliedOnce'
  BY <1>2 DEF CancelRun, AppliedOnce
<1>3. CASE AcceptPlan
  <2>1. proc[Coordinator].approval = "none" /\ proc[Coordinator] \in Proc
    BY <1>3, BeforeTheLoop DEF AcceptPlan
  <2>2. UNCHANGED <<approval, acted>>
    BY <1>3, <2>1 DEF AcceptPlan, Commit, SetRun, Proc
  <2> QED BY <2>2 DEF AppliedOnce
<1>4. CASE Checkpoint
  <2>1. Coordinator \in Procs
    BY DEF Procs
  <2>2. proc[Coordinator].approval = "none"
    BY <1>4, <2>1, InTheLoop DEF Checkpoint
  <2> QED BY <1>4, <2>2 DEF Checkpoint, Commit, AppliedOnce
<1>5. ASSUME NEW p \in Procs, RunsTasks(p) PROVE AppliedOnce'
  <2>1. CASE UNCHANGED <<approval, acted>>
    BY <2>1 DEF AppliedOnce
  <2>2. CASE CommitResult(p)
    BY <1>1, <2>2
  <2> QED BY <1>5, <2>1, <2>2 DEF RunsTasks, SkipTask, ReadyTask, BeginAttempt, StepsExhausted,
            CallsExhausted, RunTimesOut, AttemptTimesOut, AttemptRaises, AttemptReturns,
            AttemptFails, CompleteRun
<1>6. CASE UNCHANGED <<approval, acted>>
  BY <1>6 DEF AppliedOnce
<1>7. Coordinator \in Procs /\ Resolvers \subseteq Procs
  BY DEF Procs
<1>8. \/ \E p \in Procs : RunsTasks(p)
      \/ \E c \in Cancels : CancelRun(c)
      \/ AcceptPlan \/ Checkpoint
      \/ UNCHANGED <<approval, acted>>
  <2>1. CASE CoordinatorStep
    BY <1>7, <2>1 DEF CoordinatorStep, StartRun, BeginPlanning, RefusePlan, AskForApproval
  <2>2. CASE UnexpectedFailure \/ RecoverStaleRun \/ DeadlockVictim \/ \E p \in Procs : Lose(p)
    BY <2>2 DEF UnexpectedFailure, RecoverStaleRun, DeadlockVictim, Lose
  <2>3. ASSUME NEW c \in Cancels, RequestCancel(c) \/ CancelStep(c)
        PROVE  CancelRun(c) \/ UNCHANGED <<approval, acted>>
    BY <2>3 DEF RequestCancel, CancelStep, LockForCancel
  <2>4. ASSUME NEW r \in Resolvers, LockApproval(r) \/ ResolverStep(r)
        PROVE  RunsTasks(r) \/ UNCHANGED <<approval, acted>>
    BY <2>4 DEF LockApproval, ResolverStep, Approve, ApprovedActionFails, Reject, ContinueResumed
  <2>5. CASE UNCHANGED vars
    BY <2>5 DEF vars
  <2> QED BY <1>7, <2>1, <2>2, <2>3, <2>4, <2>5 DEF Next
<1> QED BY <1>2, <1>3, <1>4, <1>5, <1>6, <1>8

(* It holds at every moment, whatever process serves the cancellations.       *)
THEOREM ApprovedActionAppliedOnce ==
  Spec => []AppliedOnce
<1>1. Init => IInv /\ AppliedOnce
  BY InitInv DEF Init, AppliedOnce
<1>2. IInv /\ AppliedOnce /\ [Next]_vars => IInv' /\ AppliedOnce'
  BY NextInv, StepAppliesOnce
<1> QED BY <1>1, <1>2, PTL DEF Spec
=============================================================================
