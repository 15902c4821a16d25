-------------------------- MODULE KnowledgeVersions --------------------------
(***************************************************************************)
(* The versions of one logical document, written by concurrent database   *)
(* sessions: requests that activate, restore, archive and delete versions, *)
(* and workers that finalize an ingestion or a re-index.                   *)
(*                                                                         *)
(* A session runs one transaction, statement by statement, under           *)
(* PostgreSQL's READ COMMITTED: a SELECT reads what is committed when it   *)
(* runs and locks nothing, an UPDATE chooses its rows when it starts and   *)
(* waits for those another transaction has locked, and the flush of a      *)
(* commit writes only the columns that differ from what was loaded.  What  *)
(* a transaction has written but not committed is in its txn record; the   *)
(* rows hold what is committed.                                            *)
(***************************************************************************)
EXTENDS Naturals

CONSTANTS
    Sessions,    \* database sessions of requests and workers
    NumVersions, \* how many versions may be uploaded
    Reindexable, \* the versions a re-index may be requested of
    MaxBegun     \* bound: transactions begun

ASSUME VersionsAssumption == NumVersions \in Nat \ {0} /\ MaxBegun \in Nat

\* A version is named by its place in upload order, which is that of version_number.
Versions == 1 .. NumVersions
NoVersion == 0

VARIABLES
    ver,       \* documents rows, as committed
    pointer,   \* knowledge_documents.active_version_id, as committed
    indexing,  \* versions whose background_job_id names a queued, running or retrying job
    txn,       \* the open transaction of each session
    begun,     \* transactions begun
    \* Observations the code does not make:
    overlapped, \* sessions whose open transaction began before another one committed
    raced       \* whether an overlapped transaction has committed

dbVars == <<ver, pointer>>
vars == <<ver, pointer, indexing, txn, begun, overlapped, raced>>

Lifecycle == {"processing", "active", "superseded", "archived"}
Version == [status : {"absent", "pending", "ready", "deleted"}, lifecycle : Lifecycle,
            active : BOOLEAN, archived : BOOLEAN]
NoRow == [status |-> "absent", lifecycle |-> "processing", active |-> FALSE, archived |-> FALSE]

Txn == [op : {"none", "activate", "ingest", "archive", "delete"},
        pc : {"none", "check", "remove", "scan", "update", "rows", "knowledge", "commit", "close"},
        doc : Versions \cup {NoVersion},    \* the Document the transaction works on
        saw : Version,                      \* ... as it was loaded
        targets : SUBSET Versions,          \* rows the UPDATE chose
        demoted : SUBSET Versions,          \* rows the UPDATE wrote
        gone : SUBSET Versions,             \* rows the DELETE removed
        nulled : BOOLEAN,                   \* whether the DELETE reset the pointer
        known : Versions \cup {NoVersion}]  \* the pointer as it was loaded
NoTxn == [op |-> "none", pc |-> "none", doc |-> NoVersion, saw |-> NoRow, targets |-> {},
          demoted |-> {}, gone |-> {}, nulled |-> FALSE, known |-> NoVersion]

Exists(v) == ver[v].status \in {"pending", "ready"}

\* Rows a transaction has locked; the row of the logical document is NoVersion.
Locks(s) == txn[s].demoted \cup txn[s].gone
            \cup (IF txn[s].op = "ingest" THEN {txn[s].doc} ELSE {})
            \cup (IF txn[s].nulled THEN {NoVersion} ELSE {})
Kept(s, v) == \A other \in Sessions \ {s} : v \notin txn[other].gone
FreeFor(s, row) == \A other \in Sessions \ {s} : row \notin Locks(other)

Init ==
    /\ ver = [v \in Versions |-> IF v = 1
                                 THEN [status |-> "ready", lifecycle |-> "active",
                                       active |-> TRUE, archived |-> FALSE]
                                 ELSE NoRow]
    /\ pointer = 1
    /\ indexing = {}
    /\ txn = [s \in Sessions |-> NoTxn]
    /\ begun = 0
    /\ overlapped = {}
    /\ raced = FALSE

At(s, place) == txn[s].pc = place
Go(s, next) ==
    /\ txn' = [txn EXCEPT ![s] = next]
    /\ UNCHANGED <<dbVars, indexing, overlapped, raced>>
Begin(s, first) ==
    /\ At(s, "none")
    /\ begun < MaxBegun
    /\ begun' = begun + 1
    /\ Go(s, first)
Continue(s, next) == Go(s, next) /\ UNCHANGED begun

\* The other sessions with an open transaction.
Others(s) == {other \in Sessions \ {s} : ~At(other, "none")}

\* The end of a transaction that wrote something.
End(s) ==
    /\ txn' = [txn EXCEPT ![s] = NoTxn]
    /\ raced' = (raced \/ s \in overlapped)
    /\ overlapped' = Others(s)
    /\ UNCHANGED <<indexing, begun>>

-----------------------------------------------------------------------------
(* Uploads and jobs *)

\* create_pending_upload inserts the next version of a logical document that still exists.
Upload(v) ==
    /\ ver[v].status = "absent"
    /\ \A u \in Versions : ver[u].status = "absent" => v <= u
    /\ \E u \in Versions : Exists(u)
    /\ ver' = [ver EXCEPT ![v].status = "pending"]
    /\ UNCHANGED <<pointer, indexing, txn, begun, overlapped, raced>>

\* The route of an upload or a re-index commits background_job_id after the job.
LinkJob(v) ==
    /\ Exists(v)
    /\ v \in Reindexable \/ ver[v].status = "pending"
    /\ \A s \in Sessions : v \notin Locks(s)
    /\ indexing' = indexing \cup {v}
    /\ UNCHANGED <<dbVars, txn, begun, overlapped, raced>>

JobEnds(v) ==
    /\ v \in indexing
    /\ ver[v].status # "pending"
    /\ indexing' = indexing \ {v}
    /\ UNCHANGED <<dbVars, txn, begun, overlapped, raced>>

\* The finalization of a re-index: one row, locked from its first read to the commit.
Reindexed(s, v) ==
    /\ At(s, "none")
    /\ ver[v].status = "ready"
    /\ FreeFor(s, v)
    /\ v \in indexing
    /\ ver' = [ver EXCEPT ![v].lifecycle = IF ver[v].active THEN "active" ELSE "superseded"]
    /\ overlapped' = Others(s)
    /\ UNCHANGED <<pointer, indexing, txn, begun, raced>>

-----------------------------------------------------------------------------
(* _activate_version, for activate, restore, a finalized ingestion and the
   replacement of a deleted version *)

ActivateRead(s, v) ==
    /\ ver[v].status = "ready"
    /\ Begin(s, [NoTxn EXCEPT !.op = "activate", !.pc = "update", !.doc = v, !.saw = ver[v]])

\* The finalization locks the row before it marks it ready.
IngestRead(s, v) ==
    /\ ver[v].status = "pending"
    /\ FreeFor(s, v)
    /\ Begin(s, [NoTxn EXCEPT !.op = "ingest", !.pc = "update", !.doc = v, !.saw = ver[v]])

\* Mutant of UpdateTargets: demotes only the version the logical document points to.
UpdateTargetsPointed(s) == ({pointer} \cap Versions) \ ({txn[s].doc} \cup txn[s].gone)

\* UPDATE documents ... WHERE is_active_version: the rows are chosen ...
UpdateTargets(s) ==
    {v \in Versions : Exists(v) /\ ver[v].active /\ v # txn[s].doc} \ txn[s].gone
UpdateStart(s) ==
    /\ At(s, "update")
    /\ Continue(s, [txn[s] EXCEPT !.pc = "rows", !.targets = UpdateTargets(s)])

\* ... and, once their locks are free, tested again and written.
UpdateRows(s) ==
    /\ At(s, "rows")
    /\ \A v \in txn[s].targets : FreeFor(s, v)
    /\ Continue(s, [txn[s] EXCEPT
                 !.pc = IF txn[s].op = "delete" THEN "commit" ELSE "knowledge",
                 !.targets = {},
                 !.demoted = {v \in txn[s].targets : Exists(v) /\ ver[v].active}])

LoadKnowledge(s) ==
    /\ At(s, "knowledge")
    /\ Continue(s, [txn[s] EXCEPT !.pc = "commit", !.known = pointer])

\* A flush writes a column only if the new value differs from the loaded one.
Flushed(row, saw, new) ==
    [field \in DOMAIN row |-> IF new[field] = saw[field] THEN row[field] ELSE new[field]]

ActivatedRow ==
    [status |-> "ready", lifecycle |-> "active", active |-> TRUE, archived |-> FALSE]
Demoted(row) == [row EXCEPT !.active = FALSE, !.lifecycle = "superseded"]
Deleted == [NoRow EXCEPT !.status = "deleted"]

\* What the versions are once the statements so far of a transaction are committed.
Written(s) ==
    [v \in Versions |-> IF v \in txn[s].gone THEN Deleted
                        ELSE IF v \in txn[s].demoted THEN Demoted(ver[v])
                        ELSE ver[v]]

\* A row with nothing to write is not locked, but the event inserted with it needs it to stay.
ActivateCommit(s) ==
    LET v == txn[s].doc
    IN  /\ At(s, "commit")
        /\ txn[s].op \in {"activate", "ingest", "delete"}
        /\ v # NoVersion
        /\ Exists(v)
        /\ FreeFor(s, v) \/ (txn[s].saw = ActivatedRow /\ Kept(s, v))
        /\ txn[s].known # v => FreeFor(s, NoVersion)
        /\ ver' = [Written(s) EXCEPT ![v] = Flushed(ver[v], txn[s].saw, ActivatedRow)]
        /\ pointer' = IF txn[s].known # v THEN v ELSE pointer
        /\ End(s)

-----------------------------------------------------------------------------
(* set_archived(archived=True) *)

ArchiveRead(s, v) ==
    /\ Exists(v)
    /\ Begin(s, [NoTxn EXCEPT !.op = "archive", !.pc = "check", !.doc = v, !.saw = ver[v]])

\* Refused while the version's job is active.
ArchiveCheck(s) ==
    /\ At(s, "check")
    /\ txn[s].doc \notin indexing
    /\ Continue(s, [txn[s] EXCEPT !.pc = "commit",
                            !.known = IF txn[s].saw.active THEN pointer ELSE NoVersion])

\* Mutant of ArchivedRow: an archived version stays the active one.
ArchivedActive(saw) == [saw EXCEPT !.archived = TRUE, !.lifecycle = "archived"]
ArchivedRow(saw) == [saw EXCEPT !.archived = TRUE, !.lifecycle = "archived", !.active = FALSE]

\* archived_at gets a new time, so it is written whatever was loaded.
ArchiveCommit(s) ==
    LET v == txn[s].doc
    IN  /\ At(s, "commit")
        /\ txn[s].op = "archive"
        /\ Exists(v)
        /\ FreeFor(s, v)
        /\ txn[s].known # NoVersion => FreeFor(s, NoVersion)
        /\ ver' = [ver EXCEPT ![v] = [Flushed(ver[v], txn[s].saw, ArchivedRow(txn[s].saw))
                                         EXCEPT !.archived = TRUE]]
        /\ pointer' = IF txn[s].known # NoVersion THEN NoVersion ELSE pointer
        /\ End(s)

-----------------------------------------------------------------------------
(* delete_document *)

DeleteRead(s, v) ==
    /\ Exists(v)
    /\ Begin(s, [NoTxn EXCEPT !.op = "delete", !.pc = "remove", !.doc = v, !.saw = ver[v]])

\* Mutant of ResetsPointer: a foreign key that leaves the pointer alone.
ResetsNoPointer(v) == FALSE

\* The foreign key of active_version_id is ON DELETE SET NULL.
ResetsPointer(v) == pointer = v

\* The DELETE is flushed; it waits for the locks of the rows it writes.
DeleteRow(s) ==
    LET v == txn[s].doc
    IN  /\ At(s, "remove")
        /\ v # NoVersion
        /\ FreeFor(s, v)
        /\ ResetsPointer(v) => FreeFor(s, NoVersion)
        /\ Continue(s, [txn[s] EXCEPT !.pc = "scan", !.doc = NoVersion, !.gone = {v},
                                !.nulled = ResetsPointer(v)])

Remaining(s) == {v \in Versions : Exists(v)} \ txn[s].gone
Replacements(s) == {v \in Remaining(s) : ver[v].status = "ready" /\ ~ver[v].archived}
KnownPointer(s) == IF txn[s].nulled THEN NoVersion ELSE pointer

\* The remaining versions and the logical document are loaded, and decide what follows.
DeleteScan(s) ==
    /\ At(s, "scan")
    /\ \/ /\ txn[s].saw.active
          /\ \E v \in Replacements(s) :
                /\ \A u \in Replacements(s) : u <= v
                /\ Continue(s, [txn[s] EXCEPT !.pc = "update", !.doc = v, !.saw = ver[v],
                                        !.known = KnownPointer(s)])
       \/ /\ Remaining(s) # {}
          /\ txn[s].saw.active => Replacements(s) = {}
          /\ Continue(s, [txn[s] EXCEPT !.pc = "commit", !.known = KnownPointer(s)])
       \/ /\ Remaining(s) = {}
          /\ Continue(s, [txn[s] EXCEPT !.pc = "close"])

\* A deletion that activates nothing; of an active version it clears the pointer.
DeleteCommit(s) ==
    /\ At(s, "commit")
    /\ txn[s].op = "delete"
    /\ txn[s].doc = NoVersion
    /\ txn[s].saw.active /\ txn[s].known # NoVersion => FreeFor(s, NoVersion)
    /\ ver' = Written(s)
    /\ pointer' = IF txn[s].nulled \/ (txn[s].saw.active /\ txn[s].known # NoVersion)
                  THEN NoVersion
                  ELSE pointer
    /\ End(s)

\* The logical document goes with its last version, unless a version has been
\* uploaded since: it would lose its parent, and the deletion fails.
DeleteLast(s) ==
    /\ At(s, "close")
    /\ Remaining(s) = {}
    /\ FreeFor(s, NoVersion)
    /\ ver' = Written(s)
    /\ pointer' = NoVersion
    /\ End(s)

\* A transaction that has not committed may be rolled back: the connection or the
\* process is lost, the request is refused, a row it needs has been deleted, or it
\* is the victim of a deadlock.
Rollback(s) ==
    /\ ~At(s, "none")
    /\ txn' = [txn EXCEPT ![s] = NoTxn]
    /\ overlapped' = overlapped \ {s}
    /\ UNCHANGED <<dbVars, indexing, begun, raced>>

-----------------------------------------------------------------------------

JobStep == \E v \in Versions : Upload(v) \/ LinkJob(v) \/ JobEnds(v)

ReadStep(s) == \E v \in Versions :
    ActivateRead(s, v) \/ IngestRead(s, v) \/ ArchiveRead(s, v) \/ DeleteRead(s, v)

Statement(s) == UpdateStart(s) \/ UpdateRows(s) \/ LoadKnowledge(s) \/ ArchiveCheck(s)
                \/ DeleteRow(s) \/ DeleteScan(s)

Commit(s) == ActivateCommit(s) \/ ArchiveCommit(s) \/ DeleteCommit(s) \/ DeleteLast(s)
             \/ \E v \in Versions : Reindexed(s, v)

Next == JobStep \/ \E s \in Sessions : ReadStep(s) \/ Statement(s) \/ Commit(s) \/ Rollback(s)

Spec == Init /\ [][Next]_vars

-----------------------------------------------------------------------------
(* Properties *)

\* Type invariant.
TypeOK ==
    /\ ver \in [Versions -> Version]
    /\ pointer \in Versions \cup {NoVersion}
    /\ indexing \subseteq Versions
    /\ txn \in [Sessions -> Txn]
    /\ overlapped \subseteq Sessions
    /\ begun \in 0 .. MaxBegun
    /\ raced \in BOOLEAN

\* The version that is active is ready, not archived, and the one the logical
\* document points to; there is none exactly when it points to none.
OneActiveVersion ==
    /\ \A v \in Versions : ver[v].active => pointer = v
    /\ pointer # NoVersion => ver[pointer] = ActivatedRow

\* As long as no transaction commits that was overlapped by another one's commit,
\* every sequence of uploads, finalizations, activations, archivings, restores and
\* deletions leaves one active version or none, and the logical document agrees.
SerialOneActiveVersion == ~raced => OneActiveVersion

\* Whatever state earlier races have left, an activation (or restore, finalized
\* ingestion, or deletion of an active version) that is not overlapped leaves its
\* version as the only active one, unarchived, and pointed to.
ActivationRepairs ==
    [][\A s \in Sessions : ActivateCommit(s) /\ s \notin overlapped =>
          LET v == txn[s].doc
          IN  /\ ver'[v] = ActivatedRow
              /\ pointer' = v
              /\ \A u \in Versions \ {v} : ~ver'[u].active]_vars

\* However transactions overlap, the logical document never points to a version that
\* has been deleted or was never ingested.
PointsToReadyVersion == pointer # NoVersion => ver[pointer].status = "ready"
=============================================================================
