# Cortexa: a TLA+ verification project

Cortexa is a FastAPI backend with PostgreSQL (pgvector) and Redis: users upload documents,
chat with an assistant grounded in them, with tools, specialists and a long-term memory, and
administrators manage accounts and run evaluations.  The program's hard part is what happens
*between* database transactions: jobs that live in PostgreSQL and are delivered through Redis,
workers that die and are restarted, chat turns whose first and last transaction are a minute
apart, requests that decide from a row they read before somebody else wrote it.  These modules
model that part, and the decisions a turn takes between the transactions.

The code has no row versions and few row locks.  Almost every operation is an ORM
read, a decision, and a commit of the columns that changed (`db/session.py:41-46`:
`autoflush=False`, `expire_on_commit=False`, READ COMMITTED).  The models take this
literally: a read is one step, the commit is another, and the commit writes exactly the
columns whose new value differs from the value that was read.

## 1. Inventory

### Components, state, operations

| Component (under `src/backend/app`) | State | Operations | Modules |
|---|---|---|---|
| Worker, queue (`jobs/worker.py`) | `background_jobs` rows; Redis list and sorted set; local variables of `_execute` | claim, progress, success, retry, dead letter, heartbeat, recovery pass, promotion, boot | `JobQueue` |
| Job service (`jobs/service.py`) | the same rows | `create_job`, `enqueue`, `cancel_job`, `requeue_job` | `JobQueue`, `DocumentJobs`, `EvaluationJobs` |
| Document jobs (`jobs/document_ingestion.py`) | `documents`, `document_chunks`, `knowledge_documents` | `process_document_job`, `mark_document_job_terminal` | `DocumentJobs`, `Indexing` |
| Knowledge versions (`services/documents.py`) | the same, archive and lifecycle flags | upload, activate, archive, restore, re-index, delete | `KnowledgeVersions` |
| Validation, extraction, chunking, embedding (`documents/`, `embeddings/`) | text on its way to vectors | validate, extract, chunk, embed in batches | `Indexing` |
| Retrieval, prompt, citations (`services/retrieval.py`, `rag.py`, `conversations/`) | none | scope, search, select, build, validate markers | `TurnContext` |
| Evaluations (`evaluations/`, `jobs/evaluation_jobs.py`) | `rag_evaluation_runs`, results | start, run, cancel, requeue, terminal mark | `EvaluationJobs` |
| Chat (`services/chat.py`, `messages.py`, `conversations.py`) | conversations, messages | send, stream, regenerate, edit, delete, rename, archive, replay | `ChatTurns` |
| Agent runs (`agents/coordinator.py`, `api.py`, `state_machine.py`) | `agent_runs`, tasks, approvals | run, retry, pause, cancel, resolve, resume, stale-run recovery | `AgentRuns`, `RunLifecycle` |
| Planning (`agents/classifier.py`, `deterministic_planner.py`, `registry.py`, ...) | agent registry overrides | classify, select tools, plan, validate, review | `Planning` |
| Specialists (`agents/specialists/`) | results of tasks | retrieve, propose, calculate, answer, apply an approval | `Specialists` |
| Tools (`agents/orchestrator.py`, `tools/executor.py`) | `tool_executions`, tool configuration and its copy in memory | tool loop, execution, admin update and reset | `ToolTurn` |
| Memory (`memory/`) | `user_memories`, settings | create, suggest, confirm, reject, archive, restore, supersede, edit, delete, expire | `UserMemories` |
| Auth, reset, administration (`services/auth.py`, `password_reset.py`, `admin/`) | `users`, `refresh_sessions`, `password_reset_tokens` | login, register, refresh, logout, forgot, reset, command-line reset, role and status change, revoke all, delete | `Accounts` |
| LLM providers, file storage, start-up, settings, health, legacy migration, frontend, Alembic | files, HTTP, configuration | I/O and wiring | left out (section 15) |

### How they interact

* An upload (`api/routes/documents.py:33-83`) commits a pending version, then a job row, then
  pushes the job id to Redis, then stores the job id on the version: four effects in sequence,
  none of them atomic with the next.
* A worker pops an id, claims the row with `FOR UPDATE SKIP LOCKED`, runs the handler of the
  job type, and writes the outcome in a transaction of its own.  The handler of a document job
  has its own transactions, the last of which swaps the chunks and activates the version.
* At boot and every 30 seconds each worker runs a recovery pass over all rows that are
  queued, retrying, or running with a heartbeat older than 45 seconds.
* Cancelling writes the job row first and the resource (document, evaluation run) afterwards.
* A chat turn stores question and pending answer under the conversation's row lock, then
  classifies, retrieves, plans, generates and calls tools, and settles the answer without the lock.
* A multi-agent run is part of a chat turn until it asks for an approval; the request that
  approves it applies the action and works off the rest of the plan in one transaction.
* Retrieval reads versions that are ready, not archived and active.

### What is hard, and what makes each component correct

`PROJECT.json` lists the hazards at their lines with the properties that watch them.  In short:

* **Queue**: an accepted job is eventually finished whatever gets lost between PostgreSQL and
  Redis; a job is not executed more often than its attempts, recoveries and requeues pay for;
  two workers do not run a job together without a reason; cancellation is final.
* **Document jobs**: retrieval never sees a version without its complete index; re-indexing
  never costs the version it rebuilds; documents do not stay in `processing`.
* **Versions**: at most one active version, the pointer agrees with it, archived versions stay
  out of retrieval, under concurrent requests and finalizations.
* **Evaluations**: job, run and results agree at the end.
* **Chat**: a well-formed transcript with one pending answer at most and never for ever; a
  replayed request gets the answer of the original one; the counters are those of the rows.
* **Agents**: terminal runs stay terminal; an approved action runs once; budgets bound
  a run across retries and an approval; a plan asks only for what is enabled.
* **Turn**: tool results follow their calls, what is stored is what was shown, citations name
  what the model saw, an index holds the whole document.
* **Memory, accounts**: limits hold under concurrent requests up to a stated slack; what is
  deleted stays deleted; a token is spent once; an administrator remains.

A few hazards of less weight are not in that list: two submissions with one idempotency key
(`jobs/service.py:89`), a back-off that a duplicate id in Redis cuts short (`worker.py:135`),
files left by a crash after an account's deletion (`admin/deletion.py:176`), and the creation of
a user's memory settings by two requests (`memory/repository.py:189`).

## 2. The modules and the plan

| Layer | Modules |
|---|---|
| Jobs | `JobQueue`; `DocumentJobs` and `EvaluationJobs` extend it |
| Rows under concurrent transactions | `KnowledgeVersions`, `ChatTurns`, `AgentRuns`, `Accounts`, `UserMemories` |
| What one request computes and decides | `ToolTurn`, `Planning`, `Specialists`, `TurnContext`, `Indexing`; `Request` composes them, `MCRequest` runs them |
| Abstract specification | `RunLifecycle`, implemented by `AgentRuns` |
| Proofs | `JobProofs` (queue, document and evaluation jobs), `KnowledgeVersionsProofs`, `ChatTurnsProofs`, `UserMemoriesProofs`, `RunLifecycleProofs`, `AgentRunsProofs`, `AccountsProofs`, `RequestProofs` (tools, planning, specialists, prompts, indexing) |

The five request modules fit into the gaps of the others: `Planning` and `Specialists` say what
the steps of `AgentRuns` do, `ToolTurn`, `TurnContext` what happens in the state `generating`
of `ChatTurns`, `Indexing` what an attempt in `DocumentJobs` computes.

Left of the plan, in this order:

1. `JobLifecycle`: an abstract job that `JobQueue` implements when the stale commits of
   `cancel_job` are set aside.
2. `JobSubmission`: the insert race of the idempotency key, and `bulk_action`.
3. The event stream and the handoff records of a run; exports of evaluations.

## 3. `JobQueue`

| Variable | In the code |
|---|---|
| `job` | `background_jobs`: `status`, `cancellation_requested`, `attempt_count`; `"absent"` before the insert |
| `waiting` | rows whose `available_at` lies in the future |
| `stale` | rows whose `heartbeat_at` is null or older than 45 s |
| `ready`, `delayed` | the Redis list `cortexa:jobs:ready` as a bag, and the sorted set of delayed ids |
| `pc`, `task` | the program point of each worker and the local variables of `_execute` |
| `plan` | the rows a recovery pass (or a promotion) has loaded and what it will do with each |
| `request` | API requests between their read and their last effect |
| `faults` | crashes, Redis losses, stalled heartbeats, claims that skip a locked row, so far |
| `hist` | history for the properties: requeue era, attempt numbers that ended in a retry, revivals, a cancellation asked for |

Each worker goes round `RecoverScan`, `RecoverPublish` per row, `RecoverCommit`, `PromoteScan`,
`Promote`, `Pop` or `PopTimeout`, `Claim` (or one of its three early returns), then `Progress`
steps and one of the outcomes.  `ProgressSeesCancel`/`ProgressCancels`, `FinishRead`/`FinishCommit`
and `HandlerRaises`/`FailRetry` or `FailDeadLetter` are the read and the commit of one
transaction each.  `ReturnNone` is the return after a cancelled handler; until then an exception
(of the document's or the evaluation's terminal mark, `worker.py:174-180`) still leads to the
`except` block.  A revival (`hist.revived`) is a commit that makes a row claimable that was not
and that is neither its creation nor a retry: the recovery pass or a stale write.

Abstractions: the Redis list is a bag with at most `MaxCopies` copies of an id, so any id may
be the head; the retry's `available_at` and its sorted-set score pass together; `_set_progress`
without a cancellation, the heartbeat and the claim are single steps (the claim holds the row
lock; the others write only `heartbeat_at`); progress percentages, messages, `locked_by` and
result payloads are left out; the claim's skipping of a locked row is counted as a fault
because the lock lasts for one commit; the insert of a row never conflicts (each job id is
submitted once, then resubmitted).

## 4. `DocumentJobs`

Extends `JobQueue`: each of its actions takes a `JobQueue` action together with what it does to
the documents, or is a transaction of the document pipeline between two of them.  `doc` holds
the version rows, `chunks` the versions whose complete chunk set is stored, `pointer` the
logical document's `active_version_id`, `phase` the position of a worker in
`process_document_job`, and `mark` the terminal-mark transactions that workers and requests are
in.  One logical document is modelled: version `Current` is active at first, every job in
`IngestJobs` uploads one more version, the other jobs re-index `Current`.  The finalization is
one step: it holds the row lock of its version, and with a single ingestion nobody else
activates; concurrent activations need statement granularity and are modelled in
`KnowledgeVersions`.  The proofs do not use that there is a single ingestion, and
`VisibleIndexComplete` and `SucceededMeansIndexed` have premises that only several uploads or
larger bounds need (section 14).  The first transaction of a handler and the document write of a requeue are
single steps.  An upload whose route dies before `create_job` stays pending (`DocumentSettles`
excludes it: nothing in the code repairs it).

## 5. `KnowledgeVersions`

The versions of one logical document under concurrent transactions.

| Variable | In the code |
|---|---|
| `ver` | the committed `documents` rows: status, `lifecycle_state`, `is_active_version`, whether `archived_at` is set |
| `pointer` | `knowledge_documents.active_version_id`, as committed |
| `indexing` | versions whose `background_job_id` names a job that is queued, running or retrying |
| `txn` | per session: the operation, the next statement, the rows as loaded, and what it has written without committing |
| `begun` | transactions begun (bounded by `MaxBegun`) |
| `overlapped`, `raced` | observations for the properties: whose transaction was open while another one committed, and whether such a transaction has committed since |

| Operation | Actions |
|---|---|
| `activate_version`, `set_archived(archived=False)` | `ActivateRead`, `UpdateStart`, `UpdateRows`, `LoadKnowledge`, `ActivateCommit` |
| finalization of an ingestion | `IngestRead` (locks its row), then the same from `UpdateStart` on |
| finalization of a re-index | `Reindexed` |
| `set_archived(archived=True)` | `ArchiveRead`, `ArchiveCheck`, `ArchiveCommit` |
| `delete_document` | `DeleteRead`, `DeleteRow`, `DeleteScan`, then `UpdateStart`, `UpdateRows`, `ActivateCommit` for a replacement, or `DeleteCommit`, or `DeleteLast` |
| upload, job of a version | `Upload`, `LinkJob`, `JobEnds` |

The statements follow PostgreSQL's READ COMMITTED.  The UPDATE of `_activate_version` chooses
its rows from what is committed when it starts (`UpdateStart`), waits until nobody else has them
locked, and tests its condition again before it writes (`UpdateRows`).  A session that commits
writes the columns whose value differs from the loaded one (`Flushed`), so an activation of a
version that was loaded as active writes no column of it.  Locks are derived from `txn` (`Locks`);
`NoVersion` among them is the row of the logical document.

Abstractions: titles, folders and tags; history events, except that the version they refer to
must still exist; `pending` stands for every status before `ready`, and an ingestion fails, or
runs again on an active version, in `DocumentJobs` only; consecutive reads with no write of the
session between them are one step (the job and the logical document in `ArchiveCheck`, the
remaining versions and the logical document in `DeleteScan`); the DELETE of the logical
document and the commit after it are one step.  A `pending` version always has its job by the time it is
finalized, but the link to it is a step of its own, so that an archive request may come before it.
`JobEnds` may come at any time after the finalization.  Deleting every version ends the
system, and so does `MaxBegun`: the run does not look for deadlocks.  Lock waits that form a
cycle end with a `Rollback`, as in PostgreSQL.

What holds and what does not.  If no transaction that commits has been overlapped by another
commit, one version at most is active, and the pointer agrees (`SerialOneActiveVersion`, checked and
proved).  With overlap that is lost, in several ways (section 14): two
publications leave two active versions; activating the active version while another one is
activated leaves none, because the unchanged column is not written; archiving a version while it is
activated leaves it active and archived.  Two promises survive every overlap: the pointer never
names a version that is deleted or was never ingested (`PointsToReadyVersion`), and
the next activation that runs undisturbed cleans up (`ActivationRepairs`).

## 6. `EvaluationJobs`

Extends `JobQueue`: `run` is the status of the `rag_evaluation_runs` row of each job, `results`
the committed results with the era, the attempt and the case they come from, `work` the one long
transaction in which a worker evaluates, `runMark` the transactions of `_mark_evaluation_terminal`,
`cancel_job` and `requeue_job`.  `crossed` is history: the jobs of which two executions have
overlapped, or whose requeue has committed while an execution or a cancellation was under way.

`DeleteResults` deletes what is committed (and not what commits later: `gone`), `LockRun` locks the
row of the run by writing it, `EvaluateCase` is one progress boundary, `CommitRun` commits results
and outcome together.  Because of the long transaction, `running` is never visible to a reader.
`RefreshRun` models the `session.refresh` after the commit that may read `cancelled`.

`JobRunAndResultsAgree` and `RunSettles` are about jobs that are not `crossed`, because the code
promises no more: with two workers that overlap after a recovery both sets of results survive,
and of two overlapping requeues the second can put the run back to `queued` while an execution
has its results saved (section 14).  The run has one worker, as in `docker-compose.yml`, and one
request, so that liveness can be checked; the theorem holds for any number of both, and its
invariant `RunInv` was also checked, within the bounds of a few minutes, with two workers and with
two requests.  Metrics, cases and exports are left out.

## 7. `ChatTurns`

| Variable | In the code |
|---|---|
| `conv` | the `conversations` row: status, `message_count`, title, whether it was generated |
| `msg` | `messages` by sequence number: role, status, `is_active`, `client_request_id`, and the question an answer belongs to |
| `req` | each request: where it is, the rows it loaded, the locks it holds |
| `losses` | turns whose end is never written (crash, broken session) |
| `hist` | whether an edit superseded a pending answer, discarded answers, renames during a turn |

`Send`, `Replay`, `Regenerate` are the first transaction; they need the conversation's lock
(`RequireActive`) and no pending answer (`MayAnswer`).  The end of a turn is two steps:
`SettleFlush` writes the message row and counts, `SettleCommit` then needs the conversation's row,
so that an edit, which locks the other way round, may deadlock with it (`DeadlockAbort`).
A deletion takes its rows in the order of the ORM, which cascades by itself
(`models/conversation.py:133`): the messages it has loaded, without the conversation's lock
(`DeleteMessages`), then the conversation (`DeleteLock`), and with it, by the foreign key, the messages
that were added meanwhile (`DeleteWrite`).  So it deadlocks with an edit or a regeneration
(`DeadlockAbort`, `RegenerateDeadlock`); with a settlement only about a row that was added after it
loaded the messages.  Its deletes of single messages are one step, which waits until none of
their rows is locked.
Each way a stream can end (early reply, agents, tools, plain text; answered, failed, disconnected)
is a disjunct of `Settle`, because they store different things.  The memory flag and the
summary of a conversation are left out; what is generated is in `ToolTurn` and `TurnContext`.

The count drifts when an edit supersedes a pending answer (its settlement still counts), which
`ConversationRowRight` excepts, and a turn that is lost leaves its answer pending and the
conversation blocked for good, which `ConversationUnblocks` excepts: nothing in the code repairs it.

## 8. `AgentRuns` and `RunLifecycle`

`run`, `task` and `approval` are the committed rows; `proc` holds what the coordinator and each
approval request have loaded and written, `cancel` the cancel requests, `acted` how often an
approved action has been committed.  A row is locked from the first write of a transaction to its
end (`Writing`), and a cancellation and an approval may wait for each other (`DeadlockVictim`).

* The coordinator: `StartRun`, `BeginPlanning`, `AcceptPlan` or `RefusePlan`, per task `SkipTask`
  or `ReadyTask`, `BeginAttempt`, then how the attempt ends (`AttemptReturns`, `AttemptFails`,
  `AttemptTimesOut`, `AttemptRaises`) or a budget that is used up, and `Checkpoint`, which
  refreshes the run and sees a cancellation of this process.
* `AskForApproval` pauses the run; `LockApproval` and `Approve`, `Reject` or `ApprovedActionFails`
  answer; a resumed run goes on inside the resolver's transaction and commits once (`CommitResult`).
* `RequestCancel`, `LockForCancel`, `CancelRun`; `Lose` drops a transaction at any time;
  `RecoverStaleRun` is the recovery at the start of a process.

`RunLifecycle` is what an owner is promised: a closed run stays closed and leaves no task
unfinished, a finished task is never taken up again, the approved action is applied once if
granted and never otherwise.  `KeepsLifecycle` is the refinement: phases, stages and the gate
are state functions of the rows.  The cancel flag lives in the memory of a process, and
`Dockerfile.production:29` starts two: `Remote` says which cancel requests are served by another
process than the coordinator's.  One of these commits its cancellation beside a coordinator that
does not learn of it and goes on to commit what it has loaded; from then on the run is
`Overruled`, and `KeepsLifecycle` promises nothing more of it (difference 16).  Without such a
request the promise is the whole of `RunLifecycle` (`OneProcessKeepsLifecycle`).  The other
properties do not depend on `Remote`.  Durations, `expires_at` (never set), events and handoffs are left
out, and the recovery is one step.  A client that disconnects leaves its run active until the next
start of a process that finds it old enough, so `RunSettles` excepts lost turns.

## 9. `Accounts`

Users, sessions and reset tokens under transactions of statements with PostgreSQL's row locks: a
read sees the last commit; an UPDATE ... WHERE takes a snapshot and waits for its rows; an
inserted foreign key takes a KEY SHARE lock on the row it refers to.  `Needs` says what locks a
request waits for, `WaitsFor` and `InCycle` what PostgreSQL's deadlock detector finds.  These
foreign-key locks, which nobody wrote down in the code, are why a reset leaves no live older
session (`ResetEndsTheOld`) and why two administrators who delete each other leave one
(`DeletionsKeepAnAdmin`, through the audit event's actor).  The same does not hold for role and
status changes: their UPDATE leaves the key alone, so it does not wait for the KEY SHARE lock of
an audit row (`Accounts_last_admin`).

`pw` and `resets` count password changes so that properties can tell sessions before and after
one; `at` counts resets by link only, because the command line's reset does not lock the user
first.  Rate limits and the cool-down are nondeterministic refusals; delivery of a mail succeeds or
refuses; access tokens expire by themselves and are left out.  `TokensSpentOnce` allows a family
of two live sessions after two overlapping refreshes of one token, which the code permits (the
frontend serialises them within one tab only).

An INSERT takes a row that has never been used (`RoomForSession`, `RoomForToken`): the bounds of the
model, `MaxSessions` and `MaxTokens`, stop a request when there is none.  The UPDATE that revokes a
family or all sessions of a user takes its row locks at once (`RevokeSessions`): PostgreSQL takes them
one by one, but two of these UPDATEs scan the table in the same order, so each waits for the other at
the first row they share or not at all.  A user is a row, so the e-mail of a deleted account, which is
free again, registers as another user.  At least one administrator exists at the start
(`cli/create_user.py --role admin`); the other constants are free.

## 10. `UserMemories`

`memory` is the rows of one user, `request` the transactions in flight with what they loaded,
`limit` the setting; `highest`, `expiries`, `started`, `erased`, `exceeded` and `lost` are history.
A creation searches (`Supersede`), counts (`CountActive`), stores (`StoreCreation`) or gives up
(`GiveUpRemembering`, in a chat turn, which commits what it had done); edits load a row
(`LoadMemory`) and commit the changed columns (`CommitEdit`).  None of these statements locks
before it writes, so the limit is exceeded by overlap; `ActiveWithinLimit` says by how much at
most.  Texts carry their category; whether embeddings are available is a choice; superseding
locks its rows at once; use counts, versions, audit rows and the filter for sensitive content are
left out.

## 11. A request, part by part: `Request` and `MCRequest`

`Request` is the composition of `ToolTurn`, `Planning`, `Specialists`, `TurnContext` and `Indexing`, each with
a state of its own, and names their properties; `MCRequest` adds the values of the instance.
Each behaviour of the run is one of a single part, because the parts hand each other data the
modules abstract from.  An upload, a tool's administration and a run's approval are requests too.

**`ToolTurn`**: the loop of `agents/orchestrator.py`, the executor, and what `services/chat.py` stores.
The turn has one session: records of executions are flushed and commit with the answer.  An answer with
citations is normalised after it was sent and after the check that it is not blank (`Normalized`: any
part of the text may be taken out), so the stored text may be shorter than the one that was shown
(difference 9).  The message records whether it was (`grounded`).  A disconnect cancels at any await; a
failure of the database inside a tool breaks the session (`ToolBreaksSession`, `Lost`).  All built-in
tools are read-only, so role and recursion checks are unreachable and left out; `failed` stands for
timed out too.  A second part of the run (`settings`) has administrators who change a tool while the
registry of the process is refreshed after their commits; other processes do not learn of it until they
restart or list the tools.  Ids only tell calls apart, so the calls of an answer are drawn as those on
the allow-list and the others, each in its order (`GenerateCalls`): the loop sorts them that way before
it does anything with them.

**`Planning`**: from a message (the set of patterns and terms it matches) to an accepted plan:
both classifications, the choice of tools, plans by rule or by the model, validation and review, beside an
administrator who switches agents off.  Between the classifications a turn may end with the reply to
a memory command or with the standing answer that nothing was found (`AnswerAtOnce`).  The review
checks the plan (`Review`); for an unusual request it awaits the safety model before it accepts it
(`ModelReview`), without checking again.  The command that switches memory off for a conversation,
which ends a turn in the same way, is not among the messages.  The compatibility templates are dead code and are
modelled only as far as the fall-back uses them; the checks for cycles and unknown agents cannot fail.

**`Specialists`**: what each task finds, asks for and executes, through retries, time-outs, a pause and
its resumption; the rows and overlapping requests of the same run are in `AgentRuns`. Retries execute
tools again, and the calls of an attempt that timed out are not counted (`uncounted`).  What of the
earlier results reaches an answer is cut three times: to the last `MaxResults` (`Latest`; eight,
`agents/context.py:24`), to the characters that history, memories and documents leave
(`agents/context.py:63-98`), and to the 8000 characters of the prompt (`conversation.py:252`).  The last
two keep the beginning, so `Material` is a prefix whose end is chosen freely unless the question says
that all `fits`; a result that is cut in the middle counts as lost.  After a resumption only summaries
reach the answer, and the answer never reaches the transcript.

**`TurnContext`**: scope, search, choice of passages, the prompt within its limits, citations.
One unit of length is about 4000 characters (message 8000, RAG 12000, context 24000, history
16000, summary 1500), with a narrow setting beside the default ones.  `RoomForAll` names the settings
under which citations and prompt agree.  The loops over passages and messages are recursive functions
(`Leading`, `Dedupe`, `Fitting`, `TakeBack`); `TakeBack` gives the number of messages taken from the end.
No message of a history is empty, because the builder leaves blank ones out (`context.py:83`).

**`Indexing`**: a text is a sequence of characters, white space as 0 and any other by its place in the
document, so that "every character is covered" can be stated.  Segments, chunks with overlap, batches,
the fall-back to one text at a time, the exchange of the chunks, over two attempts with different
settings.  The embedding service answers in the order of its inputs.  The loops of the chunker are
recursive functions whose rounds are operators of their own (`Split`, `Gather`, `Keep`).

A chunk shorter than the minimum is dropped (`chunking.py:78`), so not every document is covered.
`Regular` names when it is: the overlap is at least the minimum, two characters below the size, and no
run of white space inside a block is longer than overlap + 2 - minimum.  With the default settings
(1200/200/40) that is 162.  Then the end of the chunk before brings every chunk but the first ones to
the minimum, and what is lost is a beginning made of blocks shorter than the minimum.  Without overlap a
short tail is lost; so is one behind a longer run of white space, because the end of the chunk before is
stripped together with the tail.  A document of which every chunk is too short fails as a whole.  Text
beyond `embedding_max_input` is not in the vector (truncated without a word).  Metadata of chunks is not
modelled.

## 12. Runs

| Run | Instance | Shows |
|---|---|---|
| `JobQueue_races` | 2 workers beside 1 request, and 1 worker beside 2, 2 attempts, 1 fault, 1 requeue | budget, dead letters, overlap, cancellation |
| `DocumentJobs_replicas` | 1 upload, 2 workers, 1 fault, failing marks | visible versions are complete; pointer and flag agree |
| `DocumentJobs_pair` | 1 upload, 1 re-index, 2 workers | the re-indexed version stays ready until superseded |
| `DocumentJobs_settle` | 1 upload, 1 worker, 2 faults, 1 requeue, fair | jobs and documents settle; an undisturbed success means an index |
| `KnowledgeVersions_overlap` | 2 sessions, 3 versions, 1 of them re-indexable, 3 transactions | one active version without overlap; a pointer that never dangles; repair |
| `EvaluationJobs_settle` | 1 run of 2 cases, 1 worker, 2 faults, 1 requeue, fair | job, run and results agree; runs settle |
| `ChatTurns_overlap` | 3 requests, 5 messages, 1 command, 1 lost turn, fair | transcript, replay, counters; conversations unblock |
| `AgentRuns_lifecycle` | 3 tasks, 2 resolvers, 2 cancellations, 1 of another process, 1 retry, 4 steps, fair | refinement of `RunLifecycle`; dependencies; steps; settling |
| `Accounts_overlap` | 3 users, 3 requests of which 2 are open together | resets, tokens, deletions, deadlocks |
| `Accounts_last_admin` | violated | two administrators who demote each other leave none |
| `UserMemories_limit` | 3 memories, limit 1 or 2, 2 requests, 4 started, 1 expiry | limit, redaction, nothing lost |
| `Request_parts` | see the cfg and `MCRequest` | eleven properties of the five request modules |

Type invariants are conjuncts of the first property of a module rather than properties of their own.

Bounds.  One job suffices where the property is about one row: jobs meet only in the recovery pass's
single commit (modelled for every job set; the proofs hold for any) and in the list. Two workers give
overlap, stale recovery passes and lost claims; a third adds no new pair of steps.  Two requests are a
cancellation and a requeue that read the row before one another; that they meet one worker only keeps
the run within minutes (`Casts` in `MCJobQueue`).  One progress boundary separates "before" and "after"
a cancellation check; the proofs cover any number.  Two attempts give a retry and a last attempt.
`MaxCopies = 1` is enough for a duplicate: one copy in the list while another was popped.  One or two
faults allow a crash during the recovery from a first one.  Three versions are the least with an old
active version and two that compete to replace it, and three transactions are a race of two and one that
follows it; two sessions give every overlap of two transactions.  Three requests of a conversation are a
turn, another that overlaps with it, and a third that meets what both left; five messages are two
questions, their answers and a regenerated one.  Three tasks are a dependency, its dependent and the
answer; two answers to one approval and two cancellations are each a race, and one cancellation of each
process is each of the two ways it can go.  In `Accounts` the third request presents a token that the
two open ones fight about.  Two overlapping creations exceed a limit by one; a third memory is what they
compete for.  Two results in view (`MaxResults`) of up to three before the answer are one that is
dropped.  The messages of `Planning` combine any two of its phrases, because every rule of the
classifier and the planner looks at one or two of them.

Fairness (`Fairness` of the queue, which `DocFairness` and `EvalFairness` restate for their own
steps; `DocumentSettles` includes `EveryJobSettles`).  A worker process is one loop
without blocking waits other than BLPOP with a time-out, so its next step is weakly fair; Docker
restarts it (`restart: unless-stopped`).  The 30-second timer makes the recovery pass recur, and the
Redis list is first-in first-out, so an id that is in the list again and again when the worker
pops is popped at some time: both strong fairness.  Time passes, so heartbeats expire and
delays elapse.  API requests and handler progress need no fairness of their own.  A request that
cancels may stay between its read and its commit for ever; no property depends on it.
`DocFairness` adds that a terminal mark which has begun goes on, because its caller awaits it.
In `ChatTurns` a turn that has begun goes on (providers are called with time-outs) and PostgreSQL
resolves deadlocks; in `AgentRuns` the same for the coordinator and for requests that have been
received.  Nobody has to send, cancel, approve or restart anything, and a crash may always come first.

## 13. Proofs

`JobProofs` proves of `JobQueue`, for any sets of jobs, workers and requests and any bounds:

* `TypeCorrect`: `Spec => []TypeOK`.
* `AttemptInvariant`: `Spec => [](TypeOK /\ AttemptInv)`.  The budget property is not
  inductive: one has to know that executions in progress carry distinct attempt numbers which no
  retry has used up (`AttemptNumbers`), that only numbers below `max_attempts` are retried
  (`RetriedNumbers`), and that attempts made plus the attempt on offer never exceed creation plus
  retries plus revivals (`BudgetSpent`); `ExclusiveUnlessRevived` says who may be executing.
  A job's retried numbers lie in `1..MaxAttempts-1`, so their cardinality is at most
  `MaxAttempts - 1`, which closes the argument.
* From it `AttemptsStayWithinBudget`, `DeadLettersExhausted` and `ExclusiveWithoutRevival`.
* `CancelStopsAttempts`: `Spec => AttemptsHeedCancel`.  That the claim refuses a cancelled job is its
  guard; that the job is still cancelled when the claim comes is not.  `CancelKept`: every commit
  (progress, outcome, recovery, retry, a requeue that had not seen the request) writes the columns
  it has changed against its own read, and none of these changes the flag back.

Assumptions: `MaxAttempts` is a positive natural, the other bounds are naturals, and (for the
jobs with documents or runs) a worker is not a request (`ActorsAssumption`).  Most actions
leave a job's attempts, offer and history alone; `QuietJob` and `SameExecutors` say so once, and
`QuietPreserves` carries the invariant over them, so that only the claim, the retry, the dead
letter and the requeue need an argument of their own.

Of `DocumentJobs` it proves, for any sets of uploads, re-index jobs, workers and requests and any
bounds:

* `PipelineKeepsPromises`: the queue's four properties hold of `DocSpec`.  Every step of the
  pipeline is a step of `JobQueue` or one that leaves jobs, Redis and workers alone
  (`QueueStep`), so the step lemmas of the queue apply.
* `DocTypeCorrect`: `DocSpec => []DocTypeOK`.
* `VisibleVersionsAreIndexed`, `PointerFollowsActivation` and `ReindexIsHarmless`, from `IndexInv`:
  an active version is pointed to and has its chunks, and as long as no other upload has been
  finalized its flag and its chunk count come and go together, in the row and in what any
  terminal mark has loaded of it.  A mark that read the row before its finalization writes its
  columns after it; what it loaded has to be part of the invariant.
* `SuccessLeavesAnIndex`: `DocSpec => []SucceededMeansIndexed`, from `SuccessInv`: where a worker is
  in the queue fits where it is in the pipeline (`PhaseInv`), a job of the first era whose
  cancellation somebody has seen keeps it (`RequestInv`), and an undisturbed job has no terminal
  mark and, once finalized, an index (`IndexedOnce`).  That only one execution is under way is
  `ExclusiveUnlessRevived` of the queue.

Of `EvaluationJobs` it proves, for any jobs, workers, requests and bounds:

* `EvaluationsKeepPromises`: the queue's four properties hold of `EvalSpec`.  `RefreshRun`, which
  moves a worker to its return, is the only step that is neither one of the queue nor silent to it.
* `EvaluationsAgree`: `EvalSpec => []JobRunAndResultsAgree`, from `RunInv`.  `SessionsFit` ties the
  place of a worker in the queue to its long transaction and its mark, and a requeue to the row it
  has read.  Of a job that is not `crossed`: one worker executes it, and none when it has
  succeeded (`Alone`); a cancellation that somebody has read is on the row (`CancelStands`), so a
  mark that overwrites a completed run is that of a cancelled job; and the DELETE of an execution
  has seen all the results there are, and finds its run completed from its commit on (`RunFits`).

`KnowledgeVersionsProofs` proves, for any sessions and any number of versions and transactions:

* `VersionsTypeCorrect`: `Spec => []TypeOK`.
* `SerialHistoriesKeepOneVersion`: `Spec => []SerialOneActiveVersion`.  The inductive invariant
  `SerialInv` adds to it that a transaction which nothing has overlapped has a current view
  (`CurrentView`): the rows and the pointer it loaded are those committed now, and the rows its UPDATE
  chose or wrote are all the other active versions.  A statement takes one view to the next
  (`StatementStaysCurrent`), an upload disturbs none (`ViewKeptByUpload`), a commit leaves every other
  transaction overlapped (`NoViewAfterCommit`), and a commit with a current view keeps one active
  version (`ActivateKeepsOne`, `ArchiveKeepsOne`, `DeleteKeepsOne`, `ReindexKeepsOne`).
* `PointerNeverDangles`: `Spec => []PointsToReadyVersion`, and `ActivationRepairsRaces`:
  `Spec => ActivationRepairs`, for histories with races.  `RaceInv` keeps what overlap cannot
  destroy: only ready versions are active or pointed to (`RowsInv`), a deletion knows whether the
  pointer was on what it removes and nobody else can set it there (`GoneInv`), a version loaded as
  ready can only have been deleted since (`SeenInv`), and the view of an activation that nothing
  has overlapped is right about the *other* versions, whatever state they are in (`ActivatingInv`);
  `SerialInv` could not be used, because it knows the rows only as long as nothing has raced.

Its assumptions: there is at least one version, and the bound is a natural number.

`ChatTurnsProofs` proves, for any requests, keys and numbers of rows and any bounds:

* `ChatInvariant`: `Spec => []ChatInv`.  A settlement commits what its turn loaded and counted
  without the conversation's lock, so the rows alone say too little.  `LockInv`: the lock has one holder, and an
  edit that holds it has loaded the rows that are there now.  `TurnInv`: a turn in flight owns the
  row of its answer, which disappears only with the conversation; nobody else settles it, and no
  new row takes its number.  `DeletionInv`: a deletion has not locked the row of an answer that is being
  settled.  `CountInv`: until an edit has superseded a pending answer, a turn in flight is
  the only one, because its answer is pending and a pending answer is the last row of all
  (`PendingIsLast`), so what it has counted is still right when it commits.  `TitleInv`: a turn that began
  after a rename has loaded a title it will not replace.
* `TranscriptWellFormed`: `Spec => []Transcript`, from `AnswersFit`.  A question goes behind
  everything (`AskFits`), an answer behind a question that is the last active row (`BeginFits`,
  `LatestIsLast`); rows leave the transcript from behind, or are answers (`DeactivatedFits`,
  `SettledFits`).
* `ReplaysAnswerTheirQuestion`: `Spec => []ReplayAnswersItsQuestion`, from `AnswersStay`: the row behind a
  question with a key is its answer, active or not, until it is discarded.
* `ConversationRowIsRight`: `Spec => []ConversationRowRight`, from `CountInv` and `TitleInv`.

The assumptions are those of `ChatConstants`, and that `None` is neither a row nor a number
(`NoneAssumption`).  TLC has checked `ChatInv` on the instance of `ChatTurns_overlap` as well.

`UserMemoriesProofs` proves, for any finite sets of memories and requests and any limits:

* `MemoriesTypeCorrect`: `Spec => []TypeOK`.
* `LimitHolds`: `Spec => []ActiveWithinLimit`.  What has to be counted is not the memories in use
  but what they will be: for *every* set S of requests that have passed the count (`Activating`),
  the memories in use less those that S will archive, plus one for each request in S, are at
  most the highest limit, the number of requests less one, and the expiries (`LimitInv`).  A request
  that counts joins S with a count below the limit; a commit moves one unit from S to the rows;
  S empty gives the property.
* `DeletionsLast`: `Spec => []DeletedStaysRedacted`, from `DeletedInv`: nobody holds an erased row.
* `NothingIsLost`: `Spec => []NothingLostWithinLimit`, from `LossInv`.  As long as no setting in use
  was exceeded, a turn that is refused room has counted as many without what it supersedes as
  are in use at all (`GivesUpAtLimit`), so it supersedes nothing in use (`NothingGivenUp`); nobody
  else can bring such a row back, because it is locked and no stored row is ever absent again.

`RunLifecycleProofs` proves of the abstract run, for any set of tasks: `ClosedRunsAreFinished`,
`ApprovedActionsHappenOnce`, and `ClosedIsFinal`, `Spec => [][phase # "closed"]_vars`.  The
inductive invariant `LifecycleInv` adds that the gate follows the phase (`GateFollowsPhase`): it is
pending exactly while the run waits and open to nobody afterwards.  Whatever implements
`RunLifecycle` has these properties.

`AgentRunsProofs` proves, for any plan (tasks and dependencies that point to earlier tasks), any
numbers of answers to the approval and of cancellations, and any limits, that `AgentRuns` does:

* `RunInvariant`: `Spec => [](TypeOK /\ RunInv)`.  Nothing can be said of the rows alone, because a
  commit writes what its process loaded long before.  `RunInv` says who may be at work (`TurnsInv`:
  the coordinator while the run is active, one answer while the approval is pending, a locked
  cancellation only when nobody has written), that what a process has loaded and not
  changed is what is committed (`LoadedInv`), and that the open tasks fit the place in its loop
  (`AtTasks`, `CoordinatorInv`, `ResolverInv`).
* `DependenciesComeFirst`: `Spec => []DependentsWait`.  That the task the loop takes next has its
  dependencies behind it is a minimum over the positions of the open tasks (`NextTaskWaits`).
* `CompletedRunsAreAccountedFor`: `Spec => []StepsAccountForAttempts`.  `StepsInv` says of what is
  committed and of what each process has loaded that the steps are the attempts its tasks show, one
  fewer while a retry waits for its step (`RowsAccounted`, `StepsFit`), and that only a task that was
  started is retried (`RetriesFollowStarts`).  The attempts are counted as a set of pairs of a task and
  a number, so that a start or a retry adds one member.
* `RunsKeepLifecycle`: `Spec => KeepsLifecycle`, the refinement: every commit is a step of
  `RunLifecycle`, everything before it a stutter.
* `OneProcessKeepsLifecycle`: if `Remote = {}`, then `Spec => Lifecycle!Spec`: nothing is ever overruled.
* `ApprovedActionAppliedOnce`: `Spec => []AppliedOnce`.  Once something is overruled this no longer
  follows from the lifecycle, so it has a proof of its own: an answer commits while the approval is
  pending, and the coordinator before there is one.

All of these but `OneProcessKeepsLifecycle` hold for any `Remote`, hence for the two processes of the
production image.
The invariant then says of a coordinator at work that the run is active, or cancelled with
`Overruled`; what it has loaded may differ from the rows by that cancellation only (`LoadedInv`).

`AccountsProofs` proves, for any accounts, any requests and operations they ask for, any changes by
administrators and any bounds:

* `AccountsInvariant`: `Spec => []AccountsInv`.  The rows alone say too little, because a commit
  writes what its transaction decided statements ago.  `RequestInv` says for each request where
  its operation can stand (`Placed`), which row locks its later statements rely on (`Locking`), and
  what it has read and must still be so (`Current`): after `LockUser` a reset's account stays
  active, its token outstanding, and no token or session that is not in its snapshot appears.
  `LocksExclude` says that no two transactions hold conflicting locks.  A step that writes no row
  changes the facts of its own request only (`LocalStep`); a commit takes nothing from a request that
  holds a lock on it (`UserFrame`, `SessionFrame`, `TokenFrame`, carried over by `OtherKept`), either
  because it holds a conflicting lock itself or because it has waited for one (`Alone`).
* `ResetsEndTheOld`: `Spec => []ResetEndsTheOld`.  A login, refresh or request for a link that read the
  account before the reset needs a KEY SHARE or UPDATE lock on its row to insert; with the reset's
  FOR UPDATE it comes either before the snapshot, or after the commit with the new count.
* `TokensAreSpentOnce`: `Spec => []TokensSpentOnce`.  `CountInv` counts used tokens until an account is
  deleted.  `FamilyInv` says that every later session of a family was exchanged for a revoked one of
  it; if two are live, the revoked ones are fewer than the later ones, so two share a parent
  (`SharedParent`, by the pigeonhole principle).
* `DeletionsAreSafe`: `Spec => []DeletionsKeepAnAdmin`, from `AdminInv`: as long as nobody changed a role
  or a status, whoever deletes is an active administrator or deleted, and the audit event's
  lock on the actor's row keeps it there until the commit.

* `SessionRequestsAreNeverVictims`: `Spec => []SessionRequestsNeverDeadlock`.  `Accounts` says "in a
  cycle" without a transitive closure: a request is in one when it is one of several that are tied
  together (`Tied`: whichever of them one takes, one of those waits for one of the rest), so each of them
  waits for one and is waited for by one (`TiedBothWays`).  `ModestInv` says what those hold that wait:
  a login or a logout nothing (`EmptyHanded`), a refresh that has inserted its session only the KEY SHARE
  lock on its account.  Whoever wants that lock has locked the token of a reset, and whoever wants
  that one would hold the account already, which `LocksExclude` forbids (`NoCycle`).

The assumptions are those of `AccountConstants`.  TLC has checked `AccountsInv` and `ModestInv` on the
instance of `Accounts_overlap` as well.

`RequestProofs` is about the composition `Request`, which extends `Specialists` and has instances of
`ToolTurn` (`T`), `Planning` (`P`), `TurnContext` (`C`) and `Indexing` (`I`) with parameters and
variables of their own, so that nothing is assumed of how the parts follow each other.

Of `Specialists`, for any plans, questions, passages and limits that are `Configured` (plans
are sequences, questions carry passages, the limits are natural numbers):

* `WritesAreApproved`: `Spec => []WritesAwaitApproval`.  The invariant `PauseInv` adds that the run
  waits exactly while its approval is pending and where it was saved, and that the task that
  asked is a memory task which a resumption does not come back to; so whoever asks again is
  another one (`TwoMembers`).
* `ToolCallsAreLimited`: `Spec => []ToolCallsWithinBudget`, from `BudgetInv`: the calls counted
  cover those executed, now and at the point a rolled-back answer returns to.
* `AnswersUseFindings`: `Spec => []AnswerUsesFindings`, from `FindingsInv`: before an approval the
  tasks are worked off in order (`InOrder`), what has succeeded is shown to those after it, and an
  answer keeps what it was written from: a prefix, without a gap, of the last `MaxResults` results, which
  is all of them when the question fits.  Type correctness is part of it.

Of `ToolTurn`, for any tools, administrators, patches and bounds that are `ToolConstants` (the bounds
are natural numbers, a patch sets two fields or leaves them out, `Ghost` and `None` are no tools):

* `PromptsAreAnswered`: `T!Spec => []CallsAnsweredInOrder`.  While calls are executed the prompt is
  incomplete; `AnswersFollow` says that the answer to a call stands behind its message at its
  distance or is in the executor's queue at the place it will have.  `AnswerGoesBehind` and
  `CallsComeLast` carry that over one answer and over one round.
* `StoredTurnIsShown`: `T!Spec => []StoredIsShown`, from `RecordsInv`: the ids collected for the answer
  name the records flushed so far, in order, none of them running; the one record without an id is
  that of the tool at work, and stays so when the tool breaks the session.  `StoredFits`: the text is the
  one that was sent, or with citations what the normalisation leaves of it.
* `RegistryIsCurrent`: `T!Spec => []RegistryFollowsConfig`, from `SerialUpdates`: one request at a time,
  what it has loaded is current until it commits, and what it wrote is in the database until the
  registry has been read.

Of `Planning`, for any messages, offers, plans of the model and limits (`PlannerConstants`: plans have
the fields of a plan, the replans are a natural number):

* `DeferredWritesArePlanned`: `P!Spec => []DeferredWriteIsProposed`.  The two classifications see
  different flags and tools.  `LeftToSpecialists`: the first one leaves a write to the specialists
  only for a message that also needs documents, a calculation or the time, because without a
  selected tool nothing else adds a second specialist; so the model is never asked.  `NeedsGrow`,
  `CombinedIsMulti`: the second finds at least these needs, hence the same mode with the memory
  agent among its suggestions.  `MemoryIsPlanned`: the deterministic plan for it exists and begins
  with the memory agent.
  Between the classifications only a search that found nothing ends such a turn, because a deferred
  write is not a command.
* `AcceptedPlansAreEnabled`: `P!Spec => AcceptedAsConfigured`.  The review accepts by the registry of
  that moment and leaves the tasks as they are; while the safety model is awaited the registry may
  change, so the invariant keeps that the plan passed by the one that was `checked`.

* `OnlyTheLongChainFails`: `P!Spec => []OnlyTheLongChainIsRejected`, if the limits on tasks, depth and calls
  are at least the defaults (`PlanLimits`: 4, 2 and 8, `config.py:527`, `528`, `531`).  A plan by rule
  is one of a few shapes, whatever the message; `RuleInv` keeps that a plan which was not replaced is one
  of them.  That the depths of its tasks exist is shown for plans of up to four tasks (`DepthsExist`).

Of `TurnContext`, for any passages, near-duplicates, requests and settings of the right types
(`ContextConstants`):

* `ContextIsCitedAsShown`: `C!Spec => []PromptMatchesCitations`, from `ContextInv`: what was found is usable
  (`FoundIsUsable`: selected, and there when the search ran), what is cited stands in the prompt under its
  number (`CitedIsShown`), and the prompt keeps to its limit and holds the longest recent history
  that fits (`PromptFits`).  `SelectedPassages`: selecting again what was selected changes nothing, so the
  citations, which are deduplicated once more, keep the numbers of the prompt (`DedupedOnce`).
  `BlocksFit`: with room for all, the context block is never cut, even when it is the summary that does not
  fit.  `LongestHistory`: the history is taken back twice, within its own limit and within what is left;
  as no message is empty, every longer one exceeds one of the two (`TrailingGrows`, `TakesBack`).

Of `Indexing`, for any documents whose characters come in order, any settings with an overlap below the
size, and any number of attempts (`IndexConstants`):

* `IndexedDocumentsAreWhole`: `I!Spec => []IndexCoversDocument`, from `IndexInv`: how far a job is says what
  it has got (`JobData`), what waits for its vectors is fit to be indexed (`ChunksReady`), and so is every
  index (`IndexFits`).  The argument follows a document through the chunker, one predicate for each stage,
  each carried over the loop of its stage by one lemma for a round: `SegmentList` (`SegmentsAre`: segments
  are in order and hold every character; white space stays within its bound when they are joined, and each
  ends with a block that is not longer), `PiecesUpTo` (`SplitKeeps`: the pieces up to a start hold what is
  before it), `RawList` (`GatherKeeps`: nothing is lost, and up to the first text that is long enough each
  is whole, that is, no other holds any of it), `KeptUpTo` (`KeepKeeps`: once a chunk is kept, every later
  text is).  `MergedParts` is the reason for the last: the end of a chunk of the least length, with its
  white space bounded, is long enough to bring any text behind it to that length.

The loops of `TurnContext` and `Indexing` are recursive functions over an interval.  The prover's
library gives such a function only by an induction theorem with an operator as its parameter, so
`RequestProofs` derives what it needs from well-foundedness: every set of naturals has a least element
(`Lowest`), hence what holds of 0 and is carried upwards holds throughout (`Upwards`), and a step
function has a run of any length (`Recursion`), which is what the CHOOSE behind a recursive function
finds.

Only model-checked is liveness (`DocumentSettles`, `RunSettles` of evaluations and of agent runs,
`ConversationUnblocks`): the prover does not treat fairness.

## 14. Where the code and its documents differ

One difference is a run (`Accounts_last_admin`): `admin/service.py:356` counts the active
administrators without a lock.  The others are stated here; the models contain the behaviour,
and the properties' premises leave it out.

Jobs and documents:

1. Recovery does not look at `max_attempts` (`worker.py:147`, `299-308`): a crash during the last
   attempt is followed by another.
2. A cancel that read before the success commits after it and turns a succeeded job into a
   cancelled one, or the reverse for an evaluation and its run.  A second cancellation of a job that read the
   flag of the first has no column to write; if a requeue clears the flag in between, it is lost
   although it was answered with success (`AttemptsHeedCancel` counts cancellations that are
   recorded).
3. The claim ignores `available_at`: a duplicate id in Redis cuts the back-off short.
4. Finalization and success are two transactions; a repeated ingestion of the active version that
   fails leaves no active version.  `PHASE11_2_KNOWLEDGE_LIFECYCLE_VERSION_CONTROL.md:29`: "A failed
   upload never replaces the current active version".
   A terminal mark that loaded its version before the version became ready and commits
   afterwards resets the chunk count it saw as unset; with another upload finalized in between, a
   version can be ready, active and searchable with a chunk count of 0 (two uploads, three workers
   and two stalls; found while proving `VisibleIndexComplete`, whose statement allows for it).
   Likewise two overlapping executions, or a requeue that overtakes a mark, can leave a succeeded
   job with a failed document; `SucceededMeansIndexed` is about jobs nothing has disturbed.
5. The claim and the recovery pass cancel a job without marking the document, which stays in
   `processing`, or the evaluation run, which stays `queued`; `PHASE12_3` has `failed` and `cancelled` as
   terminal states of a run.
6. Publications that overlap do not see each other's version: two stay active.
7. With overlapping workers both sets of results of an evaluation survive ("Evaluation jobs are
   idempotent per run").  The second of two overlapping requeues of an evaluation writes the run
   `queued` from what it read before the first, even when a worker has saved the results of the
   execution in between: the job succeeds, the run stays queued (two requests; found while
   proving `JobRunAndResultsAgree`, whose premise `crossed` leaves it out).
8. A file whose content is any archive passes the upload's validation as `.docx` and fails at extraction;
   a dimension mismatch of the legacy embedding endpoint is not retried.  `documents/extractors/base.py:19`
   says that extreme runs of white space are collapsed; lines only lose their trailing blanks, so a long run
   stays, and text behind it can be lost as too short a chunk (section 11; found while proving
   `IndexCoversDocument`, whose premise `Regular` leaves it out).

Chat and tools:

9. `run()` collects `agent_failed` and `error` events without looking, and `chat.py:934` completes a
   turn that is not streamed with whatever text there is, also when it is blank; `chat.py:1801`: "Do not
   persist a blank completed assistant message."  For a streamed answer the check comes before
   `normalize_grounded_answer` (`chat.py:1822`), which takes out lines that name a source, repeated phrases
   and markers of no citation: the stored text differs from the one that was streamed, and an answer made
   of such lines only is stored blank.  `StoredIsShown` allows for both and for nothing else.
10. At the limit of iterations the orchestrator does not do what the comment at
    `orchestrator.py:342-345` says; refused calls put tool messages before their assistant message.
11. A narrow `conversation_max_context_characters` cuts the RAG block, and citations name passages the
    model did not see (`PHASE10_4_RETRIEVAL_QUALITY.md:9`: "citations are generated only for passages
    actually sent to the model").  History has priority over the summary in the docstring, not in
    `reserved`; messages dropped by the second loop get no summary; the limit counts neither system
    prompt nor fixed words; a RAG query with an empty `document_ids` searches everything; the answer for "no
    context" comes even if tools were asked for.

Agents:

12. Knowledge, a tool, a proposal and the answer make a chain of depth 3, above `agent_max_depth` 2:
    `_validate` raises and the run fails.  `PHASE9_8_DETERMINISTIC_PLANNER.md:9`: "It returns a
    validated `AgentPlan` or `None`", and :23 offers the proposal within the four-task cap.
13. A forced run with "Remember that ..." defers the write and plans no task for it: it is lost; so is
    an inline "remember the final decision", and a tool task for which the planner has no term.
    A turn that asks to remember something and to look into documents defers the write as well;
    if the search finds nothing, `chat.py:1212-1270` ends it with the standing answer and the write is
    lost (`DeferredWriteIsProposed` names this exit).
    With the default settings the answer of a run can miss findings: `enforce_budgets` drops later
    results when history, memories and documents fill `agent_context_max_characters` (24000), only the
    last eight are passed on, and the prompt is cut at 8000 characters (`AnswerUsesFindings` says
    which are left).
14. An unusual request is put to the safety model after its plan was checked (`safety.py:216-224`), and
    nothing is checked again: an agent that an administrator disables in that await is in the accepted
    plan (`AcceptedAsConfigured` promises such a plan the configuration at its check only).
    A plan by the model may end without an answer; an exception of the provider during planning is not
    replanned; an update of an agent reaches the registry before its commit.
15. A task after an approval that asks again makes every grant fail with 409 until the approval is
    rejected; `MULTI_AGENT_ORCHESTRATION_DESIGN.md:238` has "running ⇄ awaiting_approval".
16. A cancellation that loaded the run before its completion committed overwrites it
    (`api/routes/agents.py:160`: "Completed agent runs cannot be cancelled").  A cancellation served by
    another process than the coordinator's (`Dockerfile.production:29`: `--workers 2`) does not
    stop it: its next commit writes the columns it has changed over the cancelled ones, and the run may
    complete, or stay cancelled with tasks that succeed (`Overruled`).

Memory and accounts (the premises of `SerialOneActiveVersion`, `ResetEndsTheOld`, `DeletedStaysRedacted` and
`RegistryFollowsConfig` leave the overlaps named in 6, 17 and 19 out, as they must):

17. An update, confirm or restore that overlaps with a delete puts content back or revives the memory
    ("Soft-delete a memory (content redacted)").
18. A suggestion supersedes active preferences before it is confirmed; at the limit a chat turn commits
    the supersession of proposed near-duplicates without storing its own; an edit of `expires_at`
    passes by the limit.
19. A login that checked the old password waits for the reset's lock on the user's row and commits a
    live session after it; `ResetEndsTheOld` counts sessions by their commit.  Two administrators who
    change one tool at the same time may leave the older configuration in the registry of the process.
    A refresh that overlaps with a deactivation, a revocation or a logout can leave a live session; the
    tokens of a user can exceed `password_reset_max_active_tokens`; a mail can carry a link that a
    rolled-back commit never stored.

## 15. Not modelled

LLM providers and the stream parser, file storage, parsing of PDF and DOCX files (I/O; the modules see
text, success or an exception), start-up, settings and health, the one-shot legacy migration,
the frontend, schema migrations.  Password hashing and token formats are data.  Retrieval's ranking
and the evaluation's scores are arithmetic on model output.  Within modelled components: the insert
race of an idempotency key and `bulk_action`, folders and tags, events and handoffs of agent runs,
listings and dashboards, exports, use counts of memories, rate limits.  The cost of a turn in time
(durations, run time-outs) is a choice of the step that notices it.

## Running

    tlc -workers 2 -config JobQueue_races.cfg MCJobQueue
    tlc -workers 2 -config Request_parts.cfg MCRequest
    tlapm JobProofs.tla
    tlapm KnowledgeVersionsProofs.tla
    tlapm ChatTurnsProofs.tla
    tlapm UserMemoriesProofs.tla
    tlapm RunLifecycleProofs.tla
    tlapm AgentRunsProofs.tla
    tlapm AccountsProofs.tla
    tlapm RequestProofs.tla

and likewise for the other runs: a cfg is named after the module it is for, without `MC`
(`Request_parts.cfg` for `MCRequest`).

Definitions whose comment begins with "Mutant" are deliberately wrong variants of the
definition that follows them; replacing one by the other must make the property named in
`PROJECT.json` fail.
