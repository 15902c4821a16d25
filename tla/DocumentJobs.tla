---------------------------- MODULE DocumentJobs ----------------------------
(***************************************************************************)
(* The document jobs: JobQueue composed with the rows they work on.        *)
(*                                                                         *)
(* An upload adds a version to a logical document and creates an ingestion *)
(* job for it; a re-index job rebuilds the version that is active already. *)
(* The worker prepares the chunks outside the database and swaps them in   *)
(* one finalization transaction, before the transaction that marks the job *)
(* succeeded.  Cancelling and dead-lettering write the document in yet     *)
(* another transaction.  Each step of JobQueue is taken together with what *)
(* it does to the documents, or between two such steps.                    *)
(***************************************************************************)
EXTENDS JobQueue

CONSTANTS
    IngestJobs,  \* the jobs of type document.ingestion; the others are document.reindex
    Current,     \* the version that is active before the uploads
    MarksMayFail \* whether the transactions of mark_document_job_terminal may fail

ASSUME IngestJobsAssumption == IngestJobs \subseteq Jobs /\ Current \notin Jobs /\ MarksMayFail \in BOOLEAN

\* The version an ingestion job indexes is named by its job.
Documents == IngestJobs \cup {Current}
Target(j) == IF j \in IngestJobs THEN j ELSE Current

VARIABLES
    doc,      \* documents rows: status, lifecycle_state, is_active_version, chunk_count > 0
    chunks,   \* versions whose complete chunk set is in document_chunks
    pointer,  \* knowledge_documents.active_version_id
    phase,    \* where each worker is between the steps of JobQueue
    mark      \* transactions of mark_document_job_terminal, per worker or request

docVars == <<doc, chunks, pointer>>
pipelineVars == <<phase, mark>>
allVars == <<vars, docVars, pipelineVars>>

Doc == [status : {"absent", "pending", "processing", "ready", "failed"},
        lifecycle : {"processing", "active", "superseded", "failed"},
        active : BOOLEAN, counted : BOOLEAN]
NewVersion == [status |-> "absent", lifecycle |-> "processing", active |-> FALSE, counted |-> FALSE]
ActiveVersion == [status |-> "ready", lifecycle |-> "active", active |-> TRUE, counted |-> TRUE]

\* "start": before the first transaction of process_document_job; "index": preparing
\* chunks; "indexed": finalization committed; "mark": a terminal mark is due.
Phase == {"none", "start", "index", "indexed", "mark"}

Mark == [pc : {"none", "read", "commit"}, job : Jobs \cup {NoJob}, saw : Doc]
NoMark == [pc |-> "none", job |-> NoJob, saw |-> NewVersion]

\* What RAG retrieval may return chunks of.
Visible(d) == doc[d].status = "ready" /\ doc[d].active

DocInit ==
    /\ Init
    /\ doc = [d \in Documents |-> IF d = Current THEN ActiveVersion ELSE NewVersion]
    /\ chunks = {Current}
    /\ pointer = Current
    /\ phase = [w \in Workers |-> "none"]
    /\ mark = [a \in Actors |-> NoMark]

SetPhase(w, p) == phase' = [phase EXCEPT ![w] = p]
Idle(a) == mark[a].pc = "none"

-----------------------------------------------------------------------------
(* The API: upload, re-index, cancel, requeue *)

\* create_pending_upload commits the version before create_job commits the job.
Upload(d) ==
    /\ d \in IngestJobs
    /\ doc[d].status = "absent"
    /\ doc' = [doc EXCEPT ![d].status = "pending"]
    /\ UNCHANGED <<vars, chunks, pointer, pipelineVars>>

DocCreateJob(r, j) ==
    /\ Idle(r)
    /\ doc[Target(j)].status # "absent"
    /\ CreateJob(r, j)
    /\ UNCHANGED <<docVars, pipelineVars>>

\* Steps of a request that touch no document.
DocRequest(r) ==
    /\ Idle(r)
    /\ \/ \E j \in Jobs : ResubmitJob(r, j) \/ CancelRead(r, j) \/ RequeueRead(r, j)
       \/ Enqueue(r)
       \/ EnqueueLost(r)
    /\ UNCHANGED <<docVars, pipelineVars>>

\* cancel_job goes on to mark the document only if it cancelled the job itself.
DocCancelCommit(r) ==
    /\ Idle(r)
    /\ CancelCommit(r)
    /\ mark' = IF CancelledRow(request[r].saw).status = "cancelled"
               THEN [mark EXCEPT ![r] = [NoMark EXCEPT !.pc = "read", !.job = request[r].job]]
               ELSE mark
    /\ UNCHANGED <<docVars, phase>>

\* _prepare_resource_for_requeue writes the document in the commit that requeues the job.
DocRequeueCommit(r) ==
    /\ Idle(r)
    /\ RequeueCommit(r)
    /\ doc' = IF request[r].job \in IngestJobs
              THEN [doc EXCEPT ![request[r].job].status = "pending",
                               ![request[r].job].lifecycle = "processing"]
              ELSE doc
    /\ UNCHANGED <<chunks, pointer, pipelineVars>>

-----------------------------------------------------------------------------
(* The worker: process_document_job *)

DocLoopStep(w) ==
    /\ phase[w] = "none"
    /\ LoopStep(w) \/ ClaimCancelled(w) \/ ClaimNothing(w) \/ ClaimSkipsLocked(w)
    /\ UNCHANGED <<docVars, pipelineVars>>

DocClaim(w) ==
    /\ Claim(w)
    /\ SetPhase(w, "start")
    /\ UNCHANGED <<docVars, mark>>

\* The first transaction: an ingestion, first attempt or not, goes to processing.
Start(w) ==
    /\ pc[w] = "running"
    /\ phase[w] = "start"
    /\ SetPhase(w, "index")
    /\ doc' = IF task[w].job \in IngestJobs
              THEN [doc EXCEPT ![task[w].job].status = "processing",
                               ![task[w].job].lifecycle = "processing"]
              ELSE doc
    /\ UNCHANGED <<vars, chunks, pointer, mark>>

\* Extraction, chunking and embedding, between progress boundaries.
Index(w) ==
    /\ phase[w] = "index"
    /\ Progress(w) \/ ProgressSeesCancel(w)
    /\ UNCHANGED <<docVars, pipelineVars>>

\* Mutant: the versions that were active stay active.
ActivatedBeside(docs, d) ==
    [docs EXCEPT ![d].active = TRUE, ![d].lifecycle = "active"]

\* _activate_version: the other active versions are superseded, this one is active.
Activated(docs, d) ==
    [e \in Documents |->
        IF e = d THEN [docs[e] EXCEPT !.active = TRUE, !.lifecycle = "active"]
        ELSE IF docs[e].active THEN [docs[e] EXCEPT !.active = FALSE, !.lifecycle = "superseded"]
        ELSE docs[e]]

Reindexed(row) == [row EXCEPT !.lifecycle = IF row.active THEN "active" ELSE "superseded"]

\* Mutant: chunk_count is not written.
FinalizedUncounted(row) == [row EXCEPT !.status = "ready"]

Finalized(row) == [row EXCEPT !.status = "ready", !.counted = TRUE]

\* The finalization transaction, under the row lock of the version.
Finalize(w) ==
    /\ pc[w] = "running"
    /\ phase[w] = "index"
    /\ task[w].step = Checkpoints
    /\ LET d == Target(task[w].job)
           swapped == [doc EXCEPT ![d] = Finalized(@)]
       IN  /\ chunks' = chunks \cup {d}
           /\ IF task[w].job \in IngestJobs
              THEN doc' = Activated(swapped, d) /\ pointer' = d
              ELSE doc' = [swapped EXCEPT ![d] = Reindexed(@)] /\ UNCHANGED pointer
    /\ SetPhase(w, "indexed")
    /\ UNCHANGED <<vars, mark>>

\* The worker's next transaction is a terminal mark.
MarkNext(w) ==
    /\ SetPhase(w, "mark")
    /\ mark' = [mark EXCEPT ![w] = [NoMark EXCEPT !.pc = "read", !.job = task[w].job]]

\* The handler returned None: the job is cancelled already, the document is marked next.
CancelIndexing(w) ==
    /\ phase[w] = "index"
    /\ ProgressCancels(w)
    /\ MarkNext(w)
    /\ UNCHANGED docVars

DocReturnNone(w) ==
    /\ phase[w] = "none"
    /\ ReturnNone(w)
    /\ UNCHANGED <<docVars, pipelineVars>>

\* Mutant: the job is marked succeeded before the finalization commits.
DocFinishEarly(w) ==
    /\ phase[w] \in {"index", "indexed"}
    /\ \/ FinishRead(w) /\ UNCHANGED phase
       \/ (FinishSeesCancelled(w) \/ FinishCommit(w)) /\ SetPhase(w, "none")
    /\ UNCHANGED <<docVars, mark>>

DocFinish(w) ==
    /\ phase[w] = "indexed"
    /\ \/ FinishRead(w) /\ UNCHANGED phase
       \/ (FinishSeesCancelled(w) \/ FinishCommit(w)) /\ SetPhase(w, "none")
    /\ UNCHANGED <<docVars, mark>>

\* Mutant: the last attempt does not mark the document.
DocRaisesUnmarked(w) ==
    /\ HandlerRaises(w)
    /\ SetPhase(w, "none")
    /\ mark' = [mark EXCEPT ![w] = NoMark]
    /\ UNCHANGED docVars

\* The except block reads the job first; the last attempt then marks the document.  The
\* terminal mark of a cancelled job raises into it too, and the job is retried.
DocRaises(w) ==
    /\ HandlerRaises(w)
    /\ pc[w] = "returning" => phase[w] = "mark"
    /\ IF RetryLeft(task[w].attempt)
       THEN SetPhase(w, "none") /\ mark' = [mark EXCEPT ![w] = NoMark]
       ELSE MarkNext(w)
    /\ UNCHANGED docVars

DocRetry(w) ==
    /\ FailRetry(w) \/ ScheduleRetry(w)
    /\ UNCHANGED <<docVars, pipelineVars>>

DocDeadLetter(w) ==
    /\ phase[w] = "none"
    /\ FailDeadLetter(w)
    /\ UNCHANGED <<docVars, pipelineVars>>

-----------------------------------------------------------------------------
(* mark_document_job_terminal *)

MarkDone(a) ==
    /\ mark' = [mark EXCEPT ![a] = NoMark]
    /\ IF a \in Workers THEN SetPhase(a, "none") ELSE UNCHANGED phase

MarkRead(a) ==
    /\ mark[a].pc = "read"
    /\ mark' = [mark EXCEPT ![a].pc = "commit", ![a].saw = doc[Target(mark[a].job)]]
    /\ UNCHANGED <<vars, docVars, phase>>

\* The columns of an ingested version that differ from the loaded ones are written;
\* its chunk rows and the logical document's pointer are left as they are.
FailedDoc(row, saw) ==
    [status    |-> Column(row.status, saw.status, "failed"),
     lifecycle |-> Column(row.lifecycle, saw.lifecycle, "failed"),
     active    |-> Column(row.active, saw.active, FALSE),
     counted   |-> Column(row.counted, saw.counted, FALSE)]

\* Mutant: the mark does not look at the type of the job.
MarkCommitAnyJob(a) ==
    /\ mark[a].pc = "commit"
    /\ LET d == Target(mark[a].job)
       IN  doc' = [doc EXCEPT ![d] = FailedDoc(@, mark[a].saw)]
    /\ MarkDone(a)
    /\ UNCHANGED <<vars, chunks, pointer>>

MarkCommit(a) ==
    /\ mark[a].pc = "commit"
    /\ doc' = IF mark[a].job \in IngestJobs
              THEN [doc EXCEPT ![mark[a].job] = FailedDoc(@, mark[a].saw)]
              ELSE doc
    /\ MarkDone(a)
    /\ UNCHANGED <<vars, chunks, pointer>>

\* cancel_job and the except block log and swallow an exception of it.
MarkFails(a) ==
    /\ MarksMayFail
    /\ mark[a].pc # "none"
    /\ a \in Workers => pc[a] = "failing"
    /\ faults < MaxFaults
    /\ faults' = faults + 1
    /\ MarkDone(a)
    /\ UNCHANGED <<jobVars, redisVars, workerVars, request, hist, docVars>>

-----------------------------------------------------------------------------
(* Crashes lose what a worker was about to do *)

DocCrash(w) ==
    /\ Crash(w)
    /\ SetPhase(w, "none")
    /\ mark' = [mark EXCEPT ![w] = NoMark]
    /\ UNCHANGED docVars

DocEnvironment ==
    /\ \/ \E w \in Workers : HeartbeatTick(w) \/ Restart(w)
       \/ \E j \in Jobs : HeartbeatExpires(j) \/ HeartbeatStalls(j) \/ RetryDelayElapses(j)
       \/ RedisLoss
    /\ UNCHANGED <<docVars, pipelineVars>>

DocRequestStep(r) ==
    \/ \E j \in Jobs : DocCreateJob(r, j)
    \/ DocRequest(r) \/ DocCancelCommit(r) \/ DocRequeueCommit(r)

DocWorkerStep(w) ==
    \/ DocLoopStep(w) \/ DocClaim(w) \/ Start(w) \/ Index(w) \/ Finalize(w) \/ CancelIndexing(w)
    \/ DocReturnNone(w) \/ DocFinish(w) \/ DocRaises(w) \/ DocRetry(w) \/ DocDeadLetter(w)

DocNext ==
    \/ \E d \in Documents : Upload(d)
    \/ \E r \in Requests : DocRequestStep(r)
    \/ \E w \in Workers : DocWorkerStep(w) \/ DocCrash(w)
    \/ \E a \in Actors : MarkRead(a) \/ MarkCommit(a) \/ MarkFails(a)
    \/ DocEnvironment

DocSpec == DocInit /\ [][DocNext]_allVars

\* As in JobQueue, and a terminal mark that has begun goes on.
DocFairness ==
    /\ \A a \in Actors : WF_allVars(MarkRead(a) \/ MarkCommit(a))
    /\ \A w \in Workers :
          /\ WF_allVars(DocWorkerStep(w))
          /\ WF_allVars(Restart(w) /\ UNCHANGED <<docVars, pipelineVars>>)
          /\ SF_allVars(RecoverScan(w) /\ phase[w] = "none" /\ UNCHANGED <<docVars, pipelineVars>>)
          /\ \A j \in Jobs : SF_allVars(Pop(w, j) /\ UNCHANGED <<docVars, pipelineVars>>)
    /\ \A j \in Jobs :
          /\ WF_allVars(HeartbeatExpires(j) /\ UNCHANGED <<docVars, pipelineVars>>)
          /\ WF_allVars(RetryDelayElapses(j) /\ UNCHANGED <<docVars, pipelineVars>>)

DocFairSpec == DocSpec /\ DocFairness

-----------------------------------------------------------------------------
(* Properties *)

\* Every variable has its type.
DocTypeOK ==
    /\ TypeOK
    /\ doc \in [Documents -> Doc]
    /\ chunks \subseteq Documents
    /\ pointer \in Documents
    /\ phase \in [Workers -> Phase]
    /\ mark \in [Actors -> Mark]

\* Retrieval never sees a version without its complete index, whatever executions, retries
\* and terminal marks of its job overlap.  Its chunk count is there as well until another
\* upload has been finalized: from then on a row may be active without a count, or not
\* active with one, and a mark that loaded such a row writes one column and not the other.
VisibleIndexComplete ==
    \A d \in Documents : Visible(d) =>
        d \in chunks /\ (doc[d].counted \/ \E e \in IngestJobs \ {d} : e \in chunks)

\* Cancelling, failing, retrying or losing a re-index never takes the version it
\* rebuilds away ("re-index cancellation preserves the existing ready index"): it stays
\* ready and complete, and active until another version supersedes it.
ReindexKeepsVersionReady ==
    /\ doc[Current].status = "ready" /\ doc[Current].counted
    /\ Current \in chunks
    /\ doc[Current].lifecycle = (IF doc[Current].active THEN "active" ELSE "superseded")

\* The active version is the one the logical document points to, also while a later
\* version is being finalized, marked failed or ingested again.
ActiveVersionIsPointedTo ==
    \A d \in Documents : doc[d].active => pointer = d

\* No administrator has requeued the job, and two executions of it cannot have overlapped.
Undisturbed(j) ==
    hist[j].era = 0 /\ (hist[j].revived = 0 \/ \A v, w \in Workers : v = w)

\* A job that succeeded without any cancellation has left its version in retrieval's
\* reach, through retries, and with one worker also through crashes and recoveries.  (A
\* second execution that dies between its terminal mark and its dead letter, or the mark of
\* a cancellation that a requeue has overtaken, may fail the version of a succeeded job.)
SucceededMeansIndexed ==
    /\ DocTypeOK
    /\ \A j \in IngestJobs :
          job[j].status = "succeeded" /\ ~job[j].cancel /\ Undisturbed(j)
          => doc[j].status = "ready" /\ j \in chunks

\* With one worker, every job comes to an end, and a version whose job nobody cancels ends
\* ready or failed, through crashes between any two of the transactions that write the job
\* and the document (if MarksMayFail is FALSE: a terminal mark whose exception is swallowed
\* is lost).
DocumentSettles ==
    /\ EveryJobSettles
    /\ \A j \in IngestJobs :
        []~job[j].cancel => <>[](job[j].status = "absent" \/ doc[j].status \in {"ready", "failed"})

-----------------------------------------------------------------------------
(* The inductive invariants behind the document properties                  *)

\* An active version has its chunks.  While at most one upload has been finalized, its row
\* and every row that one of its terminal marks has loaded are counted exactly if active.
IndexInv ==
    /\ ReindexKeepsVersionReady
    /\ \A d \in Documents : doc[d].active => pointer = d /\ d \in chunks
    /\ \A j \in IngestJobs : chunks \cap IngestJobs \subseteq {j} =>
          /\ doc[j].active = doc[j].counted
          /\ \A a \in Actors : mark[a].pc = "commit" /\ mark[a].job = j
                               => mark[a].saw.active = mark[a].saw.counted

\* Nothing is "failed"; what a requeue of the first era has loaded was attempted, and a
\* cancellation that a request of the first era has loaded is still there.
RequestInv ==
    /\ \A j \in Jobs : job[j].status # "failed"
    /\ \A r \in Requests : request[r].op # "none" /\ hist[request[r].job].era = 0 =>
          /\ request[r].op = "requeue" => request[r].saw.attempts > 0
          /\ request[r].saw.cancel => job[request[r].job].cancel

\* Where a worker is in the queue fits where it is in the pipeline.
PhaseFits(w) ==
    /\ mark[w].pc # "none" => phase[w] = "mark" /\ mark[w].job = task[w].job
    /\ phase[w] = "mark" => pc[w] \in {"returning", "failing"}
    /\ phase[w] = "mark" /\ pc[w] = "failing" => ~RetryLeft(task[w].attempt)
    /\ pc[w] = "finishing" => phase[w] = "indexed"

PhaseInv == \A w \in Workers : PhaseFits(w)

Indexed(j) == doc[j].status = "ready" /\ j \in chunks

\* No request marks the version, no execution saw a cancellation, and from its finalization
\* on the version is indexed.
IndexedOnce(j) ==
    /\ \A r \in Requests : mark[r].pc # "none" => mark[r].job # j
    /\ \A w \in Workers : task[w].job = j => pc[w] \notin {"cancelling", "returning"}
    /\ \A w \in Workers : Executes(w, j) /\ phase[w] = "indexed" => Indexed(j)
    /\ job[j].status = "succeeded" => Indexed(j) /\ \A w \in Workers : ~Executes(w, j)

UndisturbedInv(j) == ~job[j].cancel /\ Undisturbed(j) => IndexedOnce(j)

\* With the invariants of the queue, inductive (JobProofs).
SuccessInv == RequestInv /\ PhaseInv /\ \A j \in IngestJobs : UndisturbedInv(j)

=============================================================================
