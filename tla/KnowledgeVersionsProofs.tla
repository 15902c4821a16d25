----------------------- MODULE KnowledgeVersionsProofs -----------------------
(***************************************************************************)
(* Machine-checked proofs about KnowledgeVersions, for every set of        *)
(* sessions and every number of versions and transactions.                 *)
(***************************************************************************)
EXTENDS KnowledgeVersions, TLAPS

USE VersionsAssumption DEF dbVars

-----------------------------------------------------------------------------
(* The inductive invariant *)

Actives == {v \in Versions : ver[v].active}

\* What a transaction loaded is still what is committed.
Loaded(s) == txn[s].doc \in Versions /\ Exists(txn[s].doc) /\ txn[s].saw = ver[txn[s].doc]

ActivationInv(s) ==
    /\ txn[s].pc \in {"update", "rows", "knowledge", "commit"}
    /\ Loaded(s)
    /\ txn[s].gone = {}
    /\ txn[s].op = "activate" => txn[s].saw.status = "ready"
    /\ At(s, "rows") => txn[s].targets = Actives \ {txn[s].doc}
    /\ txn[s].pc \in {"knowledge", "commit"} => txn[s].demoted = Actives \ {txn[s].doc}
    /\ At(s, "commit") => txn[s].known = pointer

ArchiveInv(s) ==
    /\ txn[s].pc \in {"check", "commit"}
    /\ Loaded(s)
    /\ At(s, "commit") => txn[s].known = IF txn[s].saw.active THEN pointer ELSE NoVersion

\* A deletion that has found a replacement.
ReplacementInv(s) ==
    /\ txn[s].pc \in {"update", "rows", "commit"}
    /\ Loaded(s)
    /\ txn[s].saw.status = "ready"
    /\ txn[s].gone = {pointer}
    /\ txn[s].doc # pointer
    /\ txn[s].targets = {}
    /\ txn[s].demoted = {}
    /\ txn[s].known = NoVersion

RemovalInv(s) ==
    /\ txn[s].pc \in {"scan", "commit", "close"}
    /\ txn[s].doc = NoVersion
    /\ txn[s].demoted = {}
    /\ txn[s].targets = {}
    /\ \E g \in Versions : txn[s].gone = {g} /\ txn[s].nulled = (pointer = g)
    /\ txn[s].saw.active = txn[s].nulled

DeleteInv(s) ==
    \/ /\ At(s, "remove")
       /\ Loaded(s)
       /\ txn[s].demoted = {}
       /\ txn[s].targets = {}
    \/ RemovalInv(s)
    \/ ReplacementInv(s)

TxnInv(s) ==
    /\ txn[s].op # "none"
    /\ txn[s].op \in {"activate", "ingest"} => ActivationInv(s)
    /\ txn[s].op = "archive" => ArchiveInv(s)
    /\ txn[s].op = "delete" => DeleteInv(s)

\* A transaction that no commit has overlapped has a current view of the database.
CurrentView == \A s \in Sessions : ~At(s, "none") /\ s \notin overlapped => TxnInv(s)

SerialInv == TypeOK /\ (~raced => OneActiveVersion /\ CurrentView)

-----------------------------------------------------------------------------
(* Types *)

LEMMA RowTypes ==
    /\ NoRow \in Version
    /\ ActivatedRow \in Version
    /\ Deleted \in Version
    /\ \A row \in Version : Demoted(row) \in Version /\ ArchivedRow(row) \in Version
BY DEF NoRow, ActivatedRow, Deleted, Demoted, ArchivedRow, Version, Lifecycle

\* A flush writes nothing but values of the two rows it compares.
LEMMA FlushedType ==
    ASSUME NEW row \in Version, NEW saw \in Version, NEW new \in Version
    PROVE  /\ Flushed(row, saw, new) \in Version
           /\ row = saw => Flushed(row, saw, new) = new
<1> DEFINE Fields == {"status", "lifecycle", "active", "archived"}
<1>1. DOMAIN row = Fields /\ DOMAIN new = Fields
  BY DEF Version
<1>2. Flushed(row, saw, new) =
        [status |-> IF new.status = saw.status THEN row.status ELSE new.status,
         lifecycle |-> IF new.lifecycle = saw.lifecycle THEN row.lifecycle ELSE new.lifecycle,
         active |-> IF new.active = saw.active THEN row.active ELSE new.active,
         archived |-> IF new.archived = saw.archived THEN row.archived ELSE new.archived]
  BY <1>1 DEF Flushed
<1>3. Flushed(row, saw, new) \in Version
  BY <1>2 DEF Version
<1>4. ASSUME row = saw
      PROVE  Flushed(row, saw, new) = new
  BY <1>2, <1>4 DEF Version
<1> QED
  BY <1>3, <1>4

LEMMA WrittenType ==
    ASSUME TypeOK, NEW s \in Sessions
    PROVE  Written(s) \in [Versions -> Version]
BY RowTypes DEF Written, TypeOK

\* The records that the first statements build.
LEMMA FirstTxn ==
    ASSUME NEW v \in Versions, NEW row \in Version
    PROVE  /\ NoTxn \in Txn
           /\ \A op \in {"activate", "ingest", "archive", "delete"},
                 pc \in {"check", "remove", "update"} :
                 [NoTxn EXCEPT !.op = op, !.pc = pc, !.doc = v, !.saw = row] \in Txn
BY RowTypes DEF NoTxn, Txn

LEMMA GoType ==
    ASSUME TypeOK, NEW s \in Sessions, NEW next \in Txn
    PROVE  /\ Continue(s, next) => TypeOK'
           /\ Begin(s, next) => TypeOK'
<1>1. Go(s, next) => txn' \in [Sessions -> Txn]
  BY DEF Go, TypeOK
<1>2. begun < MaxBegun /\ begun' = begun + 1 => begun' \in 0 .. MaxBegun
  BY DEF TypeOK
<1> QED
  BY <1>1, <1>2 DEF Continue, Begin, Go, TypeOK

LEMMA TypeStep ==
    ASSUME TypeOK, [Next]_vars
    PROVE  TypeOK'
<1> USE DEF TypeOK
<1>1. NoTxn \in Txn
  BY RowTypes DEF NoTxn, Txn
<1>2. CASE JobStep
  <2>1. \A v \in Versions : [ver[v] EXCEPT !.status = "pending"] \in Version
    BY DEF Version
  <2> QED
    BY <1>2, <2>1 DEF JobStep, Upload, LinkJob, JobEnds
<1>3. ASSUME NEW s \in Sessions, ReadStep(s)
      PROVE  TypeOK'
  <2>1. PICK v \in Versions : ActivateRead(s, v) \/ IngestRead(s, v)
                              \/ ArchiveRead(s, v) \/ DeleteRead(s, v)
    BY <1>3 DEF ReadStep
  <2>2. ver[v] \in Version
    OBVIOUS
  <2>3. PICK op \in {"activate", "ingest", "archive", "delete"},
            pc \in {"check", "remove", "update"} :
            Begin(s, [NoTxn EXCEPT !.op = op, !.pc = pc, !.doc = v, !.saw = ver[v]])
    BY <2>1 DEF ActivateRead, IngestRead, ArchiveRead, DeleteRead
  <2>4. [NoTxn EXCEPT !.op = op, !.pc = pc, !.doc = v, !.saw = ver[v]] \in Txn
    BY <2>2, FirstTxn
  <2> QED
    BY <2>3, <2>4, GoType
<1>4. ASSUME NEW s \in Sessions, Statement(s)
      PROVE  TypeOK'
  <2>1. txn[s] \in Txn
    OBVIOUS
  <2>2. CASE UpdateStart(s)
    <3>1. UpdateTargets(s) \in SUBSET Versions
      BY DEF UpdateTargets
    <3>2. [txn[s] EXCEPT !.pc = "rows", !.targets = UpdateTargets(s)] \in Txn
      BY <2>1, <3>1 DEF Txn
    <3> QED
      BY <2>2, <3>2, GoType DEF UpdateStart
  <2>3. CASE UpdateRows(s)
    <3> DEFINE next(pc, rows) == [txn[s] EXCEPT !.pc = pc, !.targets = {}, !.demoted = rows]
    <3>1. \A pc \in {"commit", "knowledge"}, rows \in SUBSET Versions : next(pc, rows) \in Txn
      BY <2>1 DEF Txn
    <3>2. {v \in txn[s].targets : Exists(v) /\ ver[v].active} \in SUBSET Versions
      BY <2>1 DEF Txn
    <3>3. PICK pc \in {"commit", "knowledge"}, rows \in SUBSET Versions : Continue(s, next(pc, rows))
      BY <2>3, <3>2 DEF UpdateRows
    <3> QED
      BY <3>1, <3>3, GoType
  <2>4. CASE LoadKnowledge(s)
    <3>1. [txn[s] EXCEPT !.pc = "commit", !.known = pointer] \in Txn
      BY <2>1 DEF Txn
    <3> QED
      BY <2>4, <3>1, GoType DEF LoadKnowledge
  <2>5. CASE ArchiveCheck(s)
    <3>1. \A known \in Versions \cup {NoVersion} :
             [txn[s] EXCEPT !.pc = "commit", !.known = known] \in Txn
      BY <2>1 DEF Txn
    <3>2. (IF txn[s].saw.active THEN pointer ELSE NoVersion) \in Versions \cup {NoVersion}
      OBVIOUS
    <3> QED
      BY <2>5, <3>1, <3>2, GoType DEF ArchiveCheck
  <2>6. CASE DeleteRow(s)
    <3>1. txn[s].doc \in Versions
      BY <2>6, <2>1 DEF DeleteRow, Txn
    <3>2. ResetsPointer(txn[s].doc) \in BOOLEAN
      BY DEF ResetsPointer
    <3>3. [txn[s] EXCEPT !.pc = "scan", !.doc = NoVersion, !.gone = {txn[s].doc},
                         !.nulled = ResetsPointer(txn[s].doc)] \in Txn
      BY <2>1, <3>1, <3>2 DEF Txn
    <3> QED
      BY <2>6, <3>3, GoType DEF DeleteRow
  <2>7. CASE DeleteScan(s)
    <3> DEFINE known == KnownPointer(s)
    <3>1. known \in Versions \cup {NoVersion}
      BY DEF KnownPointer
    <3>2. \A v \in Versions :
             [txn[s] EXCEPT !.pc = "update", !.doc = v, !.saw = ver[v], !.known = known] \in Txn
      BY <2>1, <3>1 DEF Txn
    <3>3. /\ [txn[s] EXCEPT !.pc = "commit", !.known = known] \in Txn
          /\ [txn[s] EXCEPT !.pc = "close"] \in Txn
      BY <2>1, <3>1 DEF Txn
    <3>4. Replacements(s) \subseteq Versions
      BY DEF Replacements, Remaining
    <3> HIDE DEF known
    <3>5. \/ \E v \in Versions : Continue(s, [txn[s] EXCEPT !.pc = "update", !.doc = v,
                                                !.saw = ver[v], !.known = known])
          \/ Continue(s, [txn[s] EXCEPT !.pc = "commit", !.known = known])
          \/ Continue(s, [txn[s] EXCEPT !.pc = "close"])
      BY <2>7, <3>4 DEF DeleteScan, known
    <3> QED
      BY <3>2, <3>3, <3>5, GoType
  <2> QED
    BY <1>4, <2>2, <2>3, <2>4, <2>5, <2>6, <2>7 DEF Statement
<1>5. ASSUME NEW s \in Sessions, Commit(s)
      PROVE  TypeOK'
  <2>1. Written(s) \in [Versions -> Version]
    BY WrittenType
  <2>2. ASSUME NEW w, End(s), ver' \in [Versions -> Version],
               pointer' \in Versions \cup {NoVersion}
        PROVE  TypeOK'
    BY <2>2, <1>1 DEF End, Others
  <2>3. CASE ActivateCommit(s)
    BY <2>3, <2>1, <2>2, RowTypes, FlushedType DEF ActivateCommit, Txn
  <2>4. CASE ArchiveCommit(s)
    <3> DEFINE v == txn[s].doc
               row == Flushed(ver[v], txn[s].saw, ArchivedRow(txn[s].saw))
    <3>1. txn[s].saw \in Version
      BY DEF Txn
    <3>2. v \in Versions => row \in Version
      BY <3>1, RowTypes, FlushedType
    <3>3. v \in Versions => [row EXCEPT !.archived = TRUE] \in Version
      BY <3>2 DEF Version
    <3>4. [ver EXCEPT ![v] = [row EXCEPT !.archived = TRUE]] \in [Versions -> Version]
      BY <3>3
    <3> QED
      BY <2>4, <3>4, <2>2 DEF ArchiveCommit
  <2>5. CASE DeleteCommit(s) \/ DeleteLast(s)
    BY <2>5, <2>1, <2>2 DEF DeleteCommit, DeleteLast
  <2>6. ASSUME NEW v \in Versions, Reindexed(s, v)
        PROVE  TypeOK'
    BY <2>6 DEF Reindexed, Others, Version, Lifecycle
  <2> QED
    BY <1>5, <2>3, <2>4, <2>5, <2>6 DEF Commit
<1>6. ASSUME NEW s \in Sessions, Rollback(s)
      PROVE  TypeOK'
  BY <1>6, <1>1 DEF Rollback
<1>7. CASE UNCHANGED vars
  BY <1>7 DEF vars
<1> QED
  BY <1>2, <1>3, <1>4, <1>5, <1>6, <1>7 DEF Next

-----------------------------------------------------------------------------
(* Transactions that go on *)

\* While the rows stay, the view of a transaction that does not move stays current.
LEMMA ViewKept ==
    ASSUME UNCHANGED <<ver, pointer>>, NEW t \in Sessions, txn'[t] = txn[t], TxnInv(t)
    PROVE  TxnInv(t)'
<1> USE DEF At, Loaded, Exists, Actives
<1>1. CASE txn[t].op \in {"activate", "ingest"}
  BY <1>1 DEF TxnInv, ActivationInv
<1>2. CASE txn[t].op = "archive"
  BY <1>2 DEF TxnInv, ArchiveInv
<1>3. CASE txn[t].op = "delete"
  BY <1>3 DEF TxnInv, DeleteInv, RemovalInv, ReplacementInv
<1> QED
  BY <1>1, <1>2, <1>3 DEF TxnInv

\* An upload adds a row that no current transaction has read and that is not active.
LEMMA ViewKeptByUpload ==
    ASSUME TypeOK, NEW v \in Versions, Upload(v), ~ver[v].active,
           NEW t \in Sessions, TxnInv(t)
    PROVE  TxnInv(t)'
<1>1. /\ ver' = [ver EXCEPT ![v].status = "pending"]
      /\ ver[v].status = "absent"
      /\ pointer' = pointer /\ txn' = txn
  BY DEF Upload
<1>2. Actives' = Actives
  BY <1>1 DEF Actives, TypeOK, Version
<1>3. Loaded(t) => Loaded(t)'
  BY <1>1 DEF Loaded, Exists, TypeOK
<1>4. CASE txn[t].op \in {"activate", "ingest"}
  BY <1>1, <1>2, <1>3, <1>4 DEF TxnInv, ActivationInv, At
<1>5. CASE txn[t].op = "archive"
  BY <1>1, <1>3, <1>5 DEF TxnInv, ArchiveInv, At
<1>6. CASE txn[t].op = "delete"
  BY <1>1, <1>3, <1>6 DEF TxnInv, DeleteInv, RemovalInv, ReplacementInv, At
<1> QED
  BY <1>1, <1>4, <1>5, <1>6 DEF TxnInv

LEMMA ReadIsCurrent ==
    ASSUME TypeOK, NEW s \in Sessions, ReadStep(s)
    PROVE  TxnInv(s)'
<1>1. PICK v \in Versions : ActivateRead(s, v) \/ IngestRead(s, v)
                            \/ ArchiveRead(s, v) \/ DeleteRead(s, v)
  BY DEF ReadStep
<1> USE <1>1 DEF Begin, Go, TypeOK, NoTxn, At, TxnInv, Loaded, Exists
<1>2. CASE ActivateRead(s, v)
  BY <1>2 DEF ActivateRead, ActivationInv
<1>3. CASE IngestRead(s, v)
  BY <1>3 DEF IngestRead, ActivationInv
<1>4. CASE ArchiveRead(s, v)
  BY <1>4 DEF ArchiveRead, ArchiveInv
<1>5. CASE DeleteRead(s, v)
  BY <1>5 DEF DeleteRead, DeleteInv
<1> QED
  BY <1>2, <1>3, <1>4, <1>5

LEMMA ActiveIsPointed ==
    ASSUME TypeOK, OneActiveVersion, NEW v \in Versions, ver[v].active
    PROVE  /\ pointer = v
           /\ ver[v] = ActivatedRow
           /\ Exists(v)
<1>1. pointer = v /\ v # NoVersion
  BY DEF OneActiveVersion, Versions, NoVersion
<1> QED
  BY <1>1 DEF OneActiveVersion, ActivatedRow, Exists

LEMMA StatementStaysCurrent ==
    ASSUME TypeOK, OneActiveVersion, NEW s \in Sessions, Statement(s), TxnInv(s)
    PROVE  TxnInv(s)'
<1> DEFINE T == txn[s]
<1> USE DEF Continue, Go, TypeOK, At, TxnInv, Loaded, Exists
<1>0. T \in Txn /\ T.op \in {"activate", "ingest", "archive", "delete"}
  BY DEF Txn
<1>1. CASE UpdateStart(s)
  <2>1. CASE T.op \in {"activate", "ingest"}
    <3>1. UpdateTargets(s) = Actives \ {T.doc}
      BY <2>1, ActiveIsPointed DEF UpdateTargets, Actives, ActivationInv
    <3> QED
      BY <1>1, <2>1, <3>1, <1>0 DEF UpdateStart, ActivationInv, Actives, Txn
  <2>2. CASE T.op = "delete"
    <3>1. ReplacementInv(s)
      BY <1>1, <2>2 DEF UpdateStart, DeleteInv, RemovalInv
    <3>2. UpdateTargets(s) = {}
      BY <3>1 DEF UpdateTargets, ReplacementInv, OneActiveVersion
    <3> QED
      BY <1>1, <2>2, <3>1, <3>2, <1>0 DEF UpdateStart, DeleteInv, ReplacementInv, Txn
  <2> QED
    BY <1>0, <1>1, <2>1, <2>2 DEF UpdateStart, ArchiveInv
<1>2. CASE UpdateRows(s)
  <2>1. CASE T.op \in {"activate", "ingest"}
    <3>1. {v \in T.targets : Exists(v) /\ ver[v].active} = Actives \ {T.doc}
      BY <1>2, <2>1, ActiveIsPointed DEF UpdateRows, Actives, ActivationInv
    <3> QED
      BY <1>2, <2>1, <3>1, <1>0 DEF UpdateRows, ActivationInv, Actives, Txn
  <2>2. CASE T.op = "delete"
    <3>1. ReplacementInv(s)
      BY <1>2, <2>2 DEF UpdateRows, DeleteInv, RemovalInv
    <3> QED
      BY <1>2, <2>2, <3>1, <1>0 DEF UpdateRows, DeleteInv, ReplacementInv, Txn
  <2> QED
    BY <1>0, <1>2, <2>1, <2>2 DEF UpdateRows, ArchiveInv
<1>3. CASE LoadKnowledge(s)
  <2>1. T.op \in {"activate", "ingest"}
    BY <1>0, <1>3 DEF LoadKnowledge, ArchiveInv, DeleteInv, RemovalInv, ReplacementInv
  <2> QED
    BY <1>0, <1>3, <2>1 DEF LoadKnowledge, ActivationInv, Actives, Txn
<1>4. CASE ArchiveCheck(s)
  <2>1. T.op = "archive"
    BY <1>0, <1>4 DEF ArchiveCheck, ActivationInv, DeleteInv, RemovalInv, ReplacementInv
  <2> QED
    BY <1>0, <1>4, <2>1 DEF ArchiveCheck, ArchiveInv, Txn
<1>5. CASE DeleteRow(s)
  <2>1. T.op = "delete"
    BY <1>0, <1>5 DEF DeleteRow, ArchiveInv, ActivationInv
  <2>2. T.doc \in Versions /\ T.saw = ver[T.doc] /\ T.demoted = {} /\ T.targets = {}
    BY <1>5, <2>1 DEF DeleteRow, DeleteInv, RemovalInv, ReplacementInv
  <2>3. T.saw.active = (pointer = T.doc)
    BY <2>2 DEF OneActiveVersion, ActivatedRow, NoVersion, Versions, Version
  <2>4. RemovalInv(s)'
    BY <1>0, <1>5, <2>2, <2>3 DEF DeleteRow, ResetsPointer, RemovalInv, Txn
  <2> QED
    BY <1>0, <1>5, <2>1, <2>4 DEF DeleteRow, DeleteInv, Txn
<1>6. CASE DeleteScan(s)
  <2>1. T.op = "delete"
    BY <1>0, <1>6 DEF DeleteScan, ArchiveInv, ActivationInv
  <2>2. RemovalInv(s)
    BY <1>6, <2>1 DEF DeleteScan, DeleteInv, ReplacementInv
  <2>3. PICK g \in Versions : T.gone = {g} /\ T.nulled = (pointer = g)
    BY <2>2 DEF RemovalInv
  <2>4. ASSUME T.saw.active, NEW v \in Replacements(s),
               Continue(s, [T EXCEPT !.pc = "update", !.doc = v, !.saw = ver[v],
                                     !.known = KnownPointer(s)])
        PROVE  TxnInv(s)'
    <3>1. T.nulled /\ pointer = g /\ KnownPointer(s) = NoVersion
      BY <2>2, <2>3, <2>4 DEF RemovalInv, KnownPointer
    <3>2. v \in Versions /\ v # g /\ ver[v].status = "ready"
      BY <2>3, <2>4 DEF Replacements, Remaining
    <3>3. ReplacementInv(s)'
      BY <1>0, <2>2, <2>3, <2>4, <3>1, <3>2 DEF ReplacementInv, RemovalInv, Txn
    <3> QED
      BY <1>0, <2>1, <2>4, <3>3 DEF DeleteInv, Txn
  <2>5. ASSUME NEW next, Continue(s, next), next.pc \in {"commit", "close"},
               next.op = "delete", next.doc = T.doc, next.saw = T.saw,
               next.demoted = T.demoted, next.targets = T.targets,
               next.gone = T.gone, next.nulled = T.nulled
        PROVE  TxnInv(s)'
    <3>1. txn'[s] = next /\ pointer' = pointer
      BY <2>5
    <3>2. RemovalInv(s)'
      BY <2>2, <2>5, <3>1 DEF RemovalInv
    <3> QED
      BY <2>5, <3>1, <3>2 DEF DeleteInv
  <2>6. CASE Continue(s, [T EXCEPT !.pc = "commit", !.known = KnownPointer(s)])
    BY <1>0, <2>1, <2>5, <2>6 DEF Txn
  <2>7. CASE Continue(s, [T EXCEPT !.pc = "close"])
    BY <1>0, <2>1, <2>5, <2>7 DEF Txn
  <2> QED
    BY <1>6, <2>4, <2>6, <2>7 DEF DeleteScan
<1> QED
  BY <1>1, <1>2, <1>3, <1>4, <1>5, <1>6 DEF Statement

-----------------------------------------------------------------------------
(* Commits *)

\* A commit ends its own transaction and overlaps every other one that is open.
LEMMA NoViewAfterCommit ==
    ASSUME TypeOK, NEW s \in Sessions, Commit(s)
    PROVE  CurrentView'
<1>1. /\ \A t \in Sessions \ {s} : txn'[t] = txn[t]
      /\ txn'[s].pc = "none"
      /\ overlapped' = Others(s)
  BY DEF Commit, ActivateCommit, ArchiveCommit, DeleteCommit, DeleteLast, Reindexed, End,
         TypeOK, NoTxn, At
<1> QED
  BY <1>1 DEF CurrentView, Others, At

\* A transaction with a current view that ends with an activation leaves one active version.
LEMMA ActivateKeepsOne ==
    ASSUME TypeOK, OneActiveVersion, NEW s \in Sessions, TxnInv(s), ActivateCommit(s)
    PROVE  OneActiveVersion'
<1> DEFINE v == txn[s].doc
<1>1. /\ v \in Versions /\ v # NoVersion
      /\ txn[s].saw = ver[v]
      /\ \A u \in Versions : ver[u].active /\ u # v => u \in txn[s].demoted \cup txn[s].gone
      /\ v \notin txn[s].gone
      /\ txn[s].known = v => pointer = v
  <2>1. CASE txn[s].op \in {"activate", "ingest"}
    BY <2>1 DEF ActivateCommit, TxnInv, ActivationInv, Loaded, At, Actives
  <2>2. CASE txn[s].op = "delete"
    BY <2>2 DEF ActivateCommit, TxnInv, DeleteInv, RemovalInv, ReplacementInv, Loaded, At,
                OneActiveVersion
  <2> QED
    BY <2>1, <2>2 DEF ActivateCommit
<1>2. ver[v] \in Version /\ Flushed(ver[v], txn[s].saw, ActivatedRow) = ActivatedRow
  BY <1>1, RowTypes, FlushedType DEF TypeOK
<1>3. ver'[v] = ActivatedRow
  BY <1>1, <1>2, WrittenType DEF ActivateCommit
<1>4. \A u \in Versions \ {v} : ~ver'[u].active
  <2> SUFFICES ASSUME NEW u \in Versions \ {v}
               PROVE  ~ver'[u].active
    OBVIOUS
  <2>1. ver'[u] = Written(s)[u]
    BY WrittenType DEF ActivateCommit
  <2>2. ~Deleted.active /\ ~Demoted(ver[u]).active
    BY DEF Deleted, NoRow, Demoted, TypeOK, Version
  <2> QED
    BY <1>1, <2>1, <2>2 DEF Written
<1>5. pointer' = v
  BY <1>1 DEF ActivateCommit
<1> HIDE DEF v
<1>6. ASSUME NEW u \in Versions, ver'[u].active
      PROVE  pointer' = u
  <2>1. u = v
    BY <1>4, <1>6
  <2> QED
    BY <2>1, <1>5
<1>7. ver'[pointer'] = ActivatedRow
  BY <1>3, <1>5
<1> QED
  BY <1>6, <1>7 DEF OneActiveVersion

LEMMA ArchiveKeepsOne ==
    ASSUME TypeOK, OneActiveVersion, NEW s \in Sessions, TxnInv(s), ArchiveCommit(s)
    PROVE  OneActiveVersion'
<1> DEFINE v == txn[s].doc
           row == Flushed(ver[v], txn[s].saw, ArchivedRow(txn[s].saw))
<1>1. /\ v \in Versions
      /\ txn[s].saw = ver[v]
      /\ txn[s].known = IF ver[v].active THEN pointer ELSE NoVersion
  BY DEF ArchiveCommit, TxnInv, ArchiveInv, Loaded, At
<1>2. ver[v] \in Version /\ row = ArchivedRow(ver[v])
  BY <1>1, RowTypes, FlushedType DEF TypeOK
<1>3. ver' = [ver EXCEPT ![v] = [row EXCEPT !.archived = TRUE]]
  BY DEF ArchiveCommit
<1>4. ~ver'[v].active
  BY <1>1, <1>2, <1>3 DEF ArchivedRow, TypeOK, Version
<1>5. \A u \in Versions \ {v} : ver'[u] = ver[u]
  BY <1>3 DEF TypeOK
<1>6. CASE ver[v].active
  <2>1. pointer = v /\ pointer' = NoVersion
    BY <1>1, <1>6, ActiveIsPointed DEF ArchiveCommit, Versions, NoVersion
  <2> QED
    BY <1>4, <1>5, <2>1 DEF OneActiveVersion
<1>7. CASE ~ver[v].active
  <2>1. pointer' = pointer
    BY <1>1, <1>7 DEF ArchiveCommit
  <2>2. pointer # v
    BY <1>1, <1>7 DEF OneActiveVersion, ActivatedRow, Versions, NoVersion
  <2>3. pointer # NoVersion => pointer \in Versions
    BY DEF TypeOK
  <2> QED
    BY <1>4, <1>5, <2>1, <2>2, <2>3 DEF OneActiveVersion
<1> QED
  BY <1>6, <1>7

LEMMA DeleteKeepsOne ==
    ASSUME TypeOK, OneActiveVersion, NEW s \in Sessions, TxnInv(s),
           DeleteCommit(s) \/ DeleteLast(s)
    PROVE  OneActiveVersion'
<1>0. /\ \A v \in Versions : ver'[v] = Written(s)[v]
      /\ ~Deleted.active
  BY WrittenType DEF DeleteCommit, DeleteLast, Deleted, NoRow
<1>1. CASE DeleteCommit(s)
  <2>1. RemovalInv(s)
    BY <1>1 DEF DeleteCommit, TxnInv, DeleteInv, ReplacementInv, Loaded, At, Versions, NoVersion
  <2>2. PICK g \in Versions : txn[s].gone = {g} /\ txn[s].nulled = (pointer = g)
    BY <2>1 DEF RemovalInv
  <2>3. ver'[g] = Deleted /\ \A v \in Versions \ {g} : ver'[v] = ver[v]
    BY <1>0, <2>1, <2>2 DEF Written, RemovalInv
  <2>4. CASE pointer = g
    <3>1. pointer' = NoVersion
      BY <1>1, <2>2, <2>4 DEF DeleteCommit
    <3>2. \A v \in Versions : ~ver'[v].active
      BY <1>0, <2>3, <2>4 DEF OneActiveVersion
    <3> QED
      BY <3>1, <3>2 DEF OneActiveVersion
  <2>5. CASE pointer # g
    <3>1. pointer' = pointer
      BY <1>1, <2>1, <2>2, <2>5 DEF DeleteCommit, RemovalInv
    <3>2. pointer # NoVersion => pointer \in Versions
      BY DEF TypeOK
    <3> QED
      BY <1>0, <2>3, <2>5, <3>1, <3>2 DEF OneActiveVersion
  <2> QED
    BY <2>4, <2>5
<1>2. CASE DeleteLast(s)
  <2>1. \A v \in Versions : ver[v].active => v \in txn[s].gone
    BY <1>2, ActiveIsPointed DEF DeleteLast, Remaining
  <2>2. \A v \in Versions : ~ver'[v].active
    BY <1>0, <2>1 DEF Written, Demoted, TypeOK, Version
  <2>3. pointer' = NoVersion
    BY <1>2 DEF DeleteLast
  <2> QED
    BY <2>2, <2>3 DEF OneActiveVersion
<1> QED
  BY <1>1, <1>2

LEMMA ReindexKeepsOne ==
    ASSUME TypeOK, OneActiveVersion, NEW s \in Sessions, NEW v \in Versions, Reindexed(s, v)
    PROVE  OneActiveVersion'
<1>1. \A u \in Versions : ver'[u].active = ver[u].active
  BY DEF Reindexed, TypeOK, Version
<1>2. pointer' = pointer
  BY DEF Reindexed
<1>3. \A u \in Versions : ver[u].active => ver'[u] = ver[u]
  BY ActiveIsPointed DEF Reindexed, TypeOK, ActivatedRow
<1>4. pointer # NoVersion => pointer \in Versions /\ ver[pointer].active
  BY DEF TypeOK, OneActiveVersion, ActivatedRow
<1> QED
  BY <1>1, <1>2, <1>3, <1>4 DEF OneActiveVersion

-----------------------------------------------------------------------------
(* The theorems *)

LEMMA SerialInit == Init => SerialInv
<1> SUFFICES ASSUME Init
             PROVE  SerialInv
  OBVIOUS
<1>1. 1 \in Versions /\ 1 # NoVersion
  BY DEF Versions, NoVersion
<1>2. NoTxn \in Txn
  BY RowTypes DEF NoTxn, Txn
<1>3. TypeOK
  <2>1. ver \in [Versions -> Version]
    BY RowTypes DEF Init, ActivatedRow
  <2>2. begun \in 0 .. MaxBegun
    BY DEF Init
  <2> QED
    BY <1>1, <1>2, <2>1, <2>2 DEF Init, TypeOK
<1>4. OneActiveVersion
  BY <1>1 DEF Init, OneActiveVersion, ActivatedRow, NoRow
<1>5. CurrentView
  BY DEF Init, CurrentView, At, NoTxn
<1> QED
  BY <1>3, <1>4, <1>5 DEF SerialInv

LEMMA SerialStep == SerialInv /\ [Next]_vars => SerialInv'
<1> SUFFICES ASSUME SerialInv, [Next]_vars, ~raced'
             PROVE  OneActiveVersion' /\ CurrentView'
  BY TypeStep DEF SerialInv
<1>0. TypeOK
  BY DEF SerialInv
<1>1. ~raced
  BY DEF Next, JobStep, Upload, LinkJob, JobEnds, ReadStep, ActivateRead, IngestRead, ArchiveRead,
         DeleteRead, Begin, Statement, UpdateStart, UpdateRows, LoadKnowledge, ArchiveCheck,
         DeleteRow, DeleteScan, Continue, Go, Commit, ActivateCommit, ArchiveCommit,
         DeleteCommit, DeleteLast, Reindexed, End, Rollback, vars
<1>2. OneActiveVersion /\ CurrentView
  BY <1>1 DEF SerialInv
<1>3. CASE JobStep
  <2>1. ASSUME NEW v \in Versions, Upload(v)
        PROVE  OneActiveVersion' /\ CurrentView'
    <3>1. ~ver[v].active
      BY <1>0, <1>2, <2>1, ActiveIsPointed DEF Upload, Exists
    <3>2. CurrentView'
      BY <1>0, <1>2, <2>1, <3>1, ViewKeptByUpload DEF CurrentView, Upload, At
    <3>3. pointer # v
      BY <1>2, <3>1 DEF OneActiveVersion, ActivatedRow, Versions, NoVersion
    <3>4. OneActiveVersion'
      BY <1>0, <1>2, <2>1, <3>1, <3>3 DEF OneActiveVersion, Upload, TypeOK, Version
    <3> QED
      BY <3>2, <3>4
  <2>2. ASSUME NEW v \in Versions, LinkJob(v) \/ JobEnds(v)
        PROVE  OneActiveVersion' /\ CurrentView'
    <3>1. UNCHANGED <<ver, pointer, txn, overlapped>>
      BY <2>2 DEF LinkJob, JobEnds
    <3> QED
      BY <1>2, <3>1, ViewKept DEF CurrentView, At, OneActiveVersion
  <2> QED
    BY <1>3, <2>1, <2>2 DEF JobStep
<1>4. ASSUME NEW s \in Sessions, ReadStep(s) \/ Statement(s) \/ Rollback(s)
      PROVE  OneActiveVersion' /\ CurrentView'
  <2>1. /\ UNCHANGED <<ver, pointer>>
        /\ \A t \in Sessions \ {s} : txn'[t] = txn[t]
        /\ \A t \in Sessions \ {s} : t \notin overlapped' => t \notin overlapped
    BY <1>0, <1>4 DEF ReadStep, ActivateRead, IngestRead, ArchiveRead, DeleteRead, Begin, Statement,
         UpdateStart, UpdateRows, LoadKnowledge, ArchiveCheck, DeleteRow, DeleteScan, Continue,
         Go, Rollback, TypeOK
  <2>2. OneActiveVersion'
    BY <1>2, <2>1 DEF OneActiveVersion
  <2>3. ASSUME NEW t \in Sessions \ {s}, ~At(t, "none")', t \notin overlapped'
        PROVE  TxnInv(t)'
    BY <1>2, <2>1, <2>3, ViewKept DEF CurrentView, At
  <2>4. ASSUME ~At(s, "none")', s \notin overlapped'
        PROVE  TxnInv(s)'
    <3>1. CASE ReadStep(s)
      BY <1>0, <3>1, ReadIsCurrent
    <3>2. CASE Statement(s)
      <4>1. overlapped' = overlapped /\ ~At(s, "none")
        BY <3>2 DEF Statement, UpdateStart, UpdateRows, LoadKnowledge, ArchiveCheck, DeleteRow,
                    DeleteScan, Continue, Go, At
      <4>2. TxnInv(s)
        BY <1>2, <2>4, <4>1 DEF CurrentView
      <4> QED
        BY <1>0, <1>2, <3>2, <4>2, StatementStaysCurrent
    <3>3. CASE Rollback(s)
      BY <1>0, <2>4, <3>3 DEF Rollback, At, NoTxn, TypeOK
    <3> QED
      BY <1>4, <3>1, <3>2, <3>3
  <2> QED
    BY <2>2, <2>3, <2>4 DEF CurrentView
<1>5. ASSUME NEW s \in Sessions, Commit(s)
      PROVE  OneActiveVersion' /\ CurrentView'
  <2>1. CurrentView'
    BY <1>0, <1>5, NoViewAfterCommit
  <2>2. ASSUME End(s), ~At(s, "none")
        PROVE  TxnInv(s)
    BY <1>2, <2>2 DEF End, CurrentView
  <2>3. CASE ActivateCommit(s)
    BY <1>0, <1>2, <2>2, <2>3, ActivateKeepsOne, <2>1 DEF ActivateCommit, At
  <2>4. CASE ArchiveCommit(s)
    BY <1>0, <1>2, <2>2, <2>4, ArchiveKeepsOne, <2>1 DEF ArchiveCommit, At
  <2>5. CASE DeleteCommit(s) \/ DeleteLast(s)
    BY <1>0, <1>2, <2>2, <2>5, DeleteKeepsOne, <2>1 DEF DeleteCommit, DeleteLast, At
  <2>6. CASE \E v \in Versions : Reindexed(s, v)
    BY <1>0, <1>2, <2>6, ReindexKeepsOne, <2>1
  <2> QED
    BY <1>5, <2>3, <2>4, <2>5, <2>6 DEF Commit
<1>6. CASE UNCHANGED vars
  BY <1>2, <1>6, ViewKept DEF vars, CurrentView, At, OneActiveVersion
<1> QED
  BY <1>3, <1>4, <1>5, <1>6 DEF Next

THEOREM SerialInvariant == Spec => []SerialInv
BY SerialInit, SerialStep, PTL DEF Spec

\* Every reachable state is well typed.
THEOREM VersionsTypeCorrect == Spec => []TypeOK
<1>1. SerialInv => TypeOK
  BY DEF SerialInv
<1> QED
  BY <1>1, SerialInvariant, PTL

\* Without overlapped commits there is at most one active version, it is ready and not
\* archived, and the logical document points to it, whatever is uploaded, finalized,
\* activated, archived, restored or deleted in whatever order.
THEOREM SerialHistoriesKeepOneVersion == Spec => []SerialOneActiveVersion
<1>1. SerialInv => SerialOneActiveVersion
  BY DEF SerialInv, SerialOneActiveVersion
<1> QED
  BY <1>1, SerialInvariant, PTL

-----------------------------------------------------------------------------
(* Transactions that overlap *)

\* Only a version that is ready is active or pointed to.
RowsInv ==
    /\ \A v \in Versions : ver[v].active => ver[v].status = "ready"
    /\ PointsToReadyVersion

\* Where a transaction is.  On a version that a deletion has removed nobody can set the
\* pointer any more, and the deletion knows whether the pointer was on it.
GoneInv(s) ==
    /\ txn[s].op # "none" => ~At(s, "none")
    /\ txn[s].pc \in {"remove", "scan", "close"} => txn[s].op = "delete"
    /\ txn[s].pc \in {"scan", "close"} => txn[s].doc = NoVersion
    /\ txn[s].op = "archive" => txn[s].doc # NoVersion
    /\ txn[s].gone # {} => /\ txn[s].op = "delete"
                           /\ txn[s].pc \in {"scan", "update", "rows", "commit", "close"}
    /\ txn[s].doc \notin txn[s].gone
    /\ pointer \in txn[s].gone => txn[s].nulled
    /\ txn[s].nulled => txn[s].gone # {}
    /\ txn[s].nulled /\ txn[s].pc \in {"update", "rows", "commit"} => txn[s].known = NoVersion

\* The transaction is to make its doc the active version.
Activating(s) ==
    \/ txn[s].op \in {"activate", "ingest"}
    \/ txn[s].op = "delete" /\ txn[s].doc # NoVersion /\ ~At(s, "remove")

\* A version loaded as ready can only have been deleted since, and a transaction that
\* does not load its version as ready will write that it is.
SeenInv(s) ==
    /\ txn[s].doc # NoVersion /\ txn[s].saw.status = "ready" =>
          ver[txn[s].doc].status \in {"ready", "deleted"}
    /\ Activating(s) /\ txn[s].op # "ingest" => txn[s].saw.status = "ready"

\* The view of an activation that no commit has overlapped, whatever the rows are.
ActivatingInv(s) ==
    /\ Loaded(s)
    /\ txn[s].pc \in {"update", "rows", "knowledge", "commit"}
    /\ At(s, "rows") => txn[s].targets = Actives \ ({txn[s].doc} \cup txn[s].gone)
    /\ txn[s].pc \in {"knowledge", "commit"} =>
          txn[s].demoted = Actives \ ({txn[s].doc} \cup txn[s].gone)
    /\ txn[s].known \in {pointer, NoVersion}

SessionInv(s) ==
    /\ GoneInv(s)
    /\ SeenInv(s)
    /\ s \notin overlapped /\ Activating(s) => ActivatingInv(s)

RaceInv == RowsInv /\ \A s \in Sessions : SessionInv(s)

LEMMA SessionKept ==
    ASSUME UNCHANGED <<ver, pointer>>, NEW t \in Sessions, txn'[t] = txn[t],
           t \notin overlapped' => t \notin overlapped, SessionInv(t)
    PROVE  SessionInv(t)'
<1>1. GoneInv(t)'
  BY DEF SessionInv, GoneInv, At
<1>2. SeenInv(t)'
  BY DEF SessionInv, SeenInv, Activating, At
<1>3. ASSUME t \notin overlapped', Activating(t)'
      PROVE  ActivatingInv(t)'
  BY <1>3 DEF SessionInv, Activating, ActivatingInv, Loaded, Exists, Actives, At
<1> QED
  BY <1>1, <1>2, <1>3 DEF SessionInv

LEMMA SessionKeptByUpload ==
    ASSUME TypeOK, RowsInv, NEW v \in Versions, Upload(v), NEW t \in Sessions, SessionInv(t)
    PROVE  SessionInv(t)'
<1>1. /\ ver' = [ver EXCEPT ![v].status = "pending"]
      /\ ver[v].status = "absent"
      /\ pointer' = pointer /\ txn' = txn /\ overlapped' = overlapped
  BY DEF Upload
<1>2. Actives' = Actives
  BY <1>1 DEF Actives, TypeOK, Version
<1>3. Loaded(t) => Loaded(t)'
  BY <1>1 DEF Loaded, Exists, TypeOK
<1>4. GoneInv(t)'
  BY <1>1 DEF SessionInv, GoneInv, At
<1>5. SeenInv(t)'
  <2>1. \A u \in Versions : ver[u].status # "absent" => ver'[u] = ver[u]
    BY <1>1 DEF TypeOK
  <2>2. txn[t].doc # NoVersion => txn[t].doc \in Versions
    BY DEF TypeOK, Txn
  <2> QED
    BY <1>1, <2>1, <2>2 DEF SessionInv, SeenInv, Activating, At
<1>6. ASSUME t \notin overlapped', Activating(t)'
      PROVE  ActivatingInv(t)'
  BY <1>1, <1>2, <1>3, <1>6 DEF SessionInv, Activating, ActivatingInv, At
<1> QED
  BY <1>4, <1>5, <1>6 DEF SessionInv

LEMMA SessionRead ==
    ASSUME TypeOK, NEW s \in Sessions, ReadStep(s)
    PROVE  SessionInv(s)'
<1>1. PICK v \in Versions : ActivateRead(s, v) \/ IngestRead(s, v)
                            \/ ArchiveRead(s, v) \/ DeleteRead(s, v)
  BY DEF ReadStep
<1>2. v # NoVersion
  BY DEF Versions, NoVersion
<1>3. PICK op \in {"activate", "ingest", "archive", "delete"}, pc \in {"check", "remove", "update"} :
         /\ Begin(s, [NoTxn EXCEPT !.op = op, !.pc = pc, !.doc = v, !.saw = ver[v]])
         /\ op \in {"activate", "ingest"} => pc = "update" /\ Exists(v)
         /\ op = "archive" => pc = "check"
         /\ op = "delete" => pc = "remove"
         /\ op = "activate" => ver[v].status = "ready"
  BY <1>1 DEF ActivateRead, IngestRead, ArchiveRead, DeleteRead, Exists
<1>4. /\ txn'[s] = [op |-> op, pc |-> pc, doc |-> v, saw |-> ver[v], targets |-> {},
                   demoted |-> {}, gone |-> {}, nulled |-> FALSE, known |-> NoVersion]
      /\ ver' = ver
  BY <1>3 DEF Begin, Go, TypeOK, NoTxn
<1>5. GoneInv(s)'
  BY <1>2, <1>3, <1>4 DEF GoneInv, At
<1>6. SeenInv(s)'
  BY <1>3, <1>4 DEF SeenInv, Activating, At
<1>7. Activating(s)' => ActivatingInv(s)'
  BY <1>3, <1>4 DEF Activating, ActivatingInv, Loaded, Exists, At
<1> QED
  BY <1>5, <1>6, <1>7 DEF SessionInv

LEMMA SessionStatement ==
    ASSUME TypeOK, RowsInv, NEW s \in Sessions, Statement(s), SessionInv(s)
    PROVE  SessionInv(s)'
<1> DEFINE T == txn[s]
<1>0. /\ T \in Txn
      /\ GoneInv(s) /\ SeenInv(s)
      /\ s \notin overlapped /\ Activating(s) => ActivatingInv(s)
  BY DEF TypeOK, SessionInv
<1>a. /\ UNCHANGED <<ver, pointer, overlapped>>
      /\ \A next : Continue(s, next) => txn'[s] = next
  BY DEF Statement, UpdateStart, UpdateRows, LoadKnowledge, ArchiveCheck, DeleteRow, DeleteScan,
         Continue, Go, TypeOK
<1>1. CASE UpdateStart(s)
  <2>1. txn'[s] = [T EXCEPT !.pc = "rows", !.targets = UpdateTargets(s)] /\ T.pc = "update"
    BY <1>a, <1>1 DEF UpdateStart, At
  <2>2. UpdateTargets(s) = Actives \ ({T.doc} \cup T.gone)
    BY DEF RowsInv, UpdateTargets, Actives, Exists
  <2>3. GoneInv(s)'
    BY <1>0, <1>a, <2>1 DEF GoneInv, At, Txn
  <2>4. SeenInv(s)'
    BY <1>0, <1>a, <2>1 DEF SeenInv, Activating, At, Txn
  <2>5. ASSUME s \notin overlapped', Activating(s)'
        PROVE  ActivatingInv(s)'
    <3>1. ActivatingInv(s) /\ Actives' = Actives
      BY <1>0, <1>a, <2>1, <2>5 DEF Activating, Actives, At, Txn
    <3>2. /\ txn'[s].doc = T.doc /\ txn'[s].gone = T.gone /\ txn'[s].saw = T.saw
          /\ txn'[s].known = T.known /\ txn'[s].pc = "rows"
          /\ txn'[s].targets = UpdateTargets(s)
      BY <1>0, <2>1 DEF Txn
    <3> QED
      BY <1>a, <2>2, <3>1, <3>2 DEF ActivatingInv, Loaded, Exists, At
  <2> QED
    BY <2>3, <2>4, <2>5 DEF SessionInv
<1>2. CASE UpdateRows(s)
  <2> DEFINE rows == {v \in T.targets : Exists(v) /\ ver[v].active}
  <2>1. PICK pc \in {"commit", "knowledge"} :
           /\ txn'[s] = [T EXCEPT !.pc = pc, !.targets = {}, !.demoted = rows]
           /\ pc = "commit" <=> T.op = "delete"
    BY <1>a, <1>2 DEF UpdateRows
  <2>2. T.pc = "rows"
    BY <1>2 DEF UpdateRows, At
  <2>3. T.targets = Actives \ ({T.doc} \cup T.gone) => rows = T.targets
    BY DEF RowsInv, Actives, Exists
  <2> HIDE DEF rows
  <2>4. GoneInv(s)'
    BY <1>0, <1>a, <2>1, <2>2 DEF GoneInv, At, Txn
  <2>5. SeenInv(s)'
    BY <1>0, <1>a, <2>1, <2>2 DEF SeenInv, Activating, At, Txn
  <2>6. ASSUME s \notin overlapped', Activating(s)'
        PROVE  ActivatingInv(s)'
    BY <1>0, <1>a, <2>1, <2>2, <2>3, <2>6
       DEF Activating, ActivatingInv, Loaded, Exists, Actives, At, Txn
  <2> QED
    BY <2>4, <2>5, <2>6 DEF SessionInv
<1>3. CASE LoadKnowledge(s)
  <2>1. txn'[s] = [T EXCEPT !.pc = "commit", !.known = pointer] /\ T.pc = "knowledge"
    BY <1>a, <1>3 DEF LoadKnowledge, At
  <2>3. GoneInv(s)'
    BY <1>0, <1>a, <2>1 DEF GoneInv, At, Txn
  <2>4. SeenInv(s)'
    BY <1>0, <1>a, <2>1 DEF SeenInv, Activating, At, Txn
  <2>5. ASSUME s \notin overlapped', Activating(s)'
        PROVE  ActivatingInv(s)'
    BY <1>0, <1>a, <2>1, <2>5 DEF Activating, ActivatingInv, Loaded, Exists, Actives, At, Txn
  <2> QED
    BY <2>3, <2>4, <2>5 DEF SessionInv
<1>4. CASE ArchiveCheck(s)
  <2>1. PICK known : txn'[s] = [T EXCEPT !.pc = "commit", !.known = known]
    BY <1>a, <1>4 DEF ArchiveCheck
  <2>2. T.pc = "check"
    BY <1>4 DEF ArchiveCheck, At
  <2>3. GoneInv(s)'
    BY <1>0, <1>a, <2>1, <2>2 DEF GoneInv, At, Txn
  <2>4. SeenInv(s)' /\ ~(s \notin overlapped /\ Activating(s)')
    BY <1>0, <1>a, <2>1, <2>2 DEF SeenInv, Activating, ActivatingInv, At, Txn
  <2> QED
    BY <1>a, <2>3, <2>4 DEF SessionInv
<1>5. CASE DeleteRow(s)
  <2>1. /\ txn'[s] = [T EXCEPT !.pc = "scan", !.doc = NoVersion, !.gone = {T.doc},
                               !.nulled = (pointer = T.doc)]
        /\ T.pc = "remove" /\ T.doc # NoVersion
    BY <1>a, <1>5 DEF DeleteRow, ResetsPointer, At
  <2>2. T.op = "delete" /\ (pointer = T.doc) \in BOOLEAN
    BY <1>0, <2>1 DEF GoneInv
  <2>3. /\ txn'[s].op = T.op /\ txn'[s].pc = "scan" /\ txn'[s].doc = NoVersion
        /\ txn'[s].gone = {T.doc} /\ txn'[s].nulled = (pointer = T.doc)
    BY <1>0, <2>1 DEF Txn
  <2>4. GoneInv(s)'
    BY <1>a, <2>1, <2>2, <2>3 DEF GoneInv, At
  <2>5. SeenInv(s)' /\ ~Activating(s)'
    BY <2>2, <2>3 DEF SeenInv, Activating
  <2> QED
    BY <2>4, <2>5 DEF SessionInv
<1>6. CASE DeleteScan(s)
  <2> DEFINE known == KnownPointer(s)
  <2>0. /\ T.pc = "scan" /\ T.op = "delete"
        /\ known \in {pointer, NoVersion}
        /\ T.nulled => known = NoVersion
    BY <1>0, <1>6 DEF DeleteScan, At, GoneInv, KnownPointer
  <2> HIDE DEF known
  <2>1. ASSUME NEW v \in Replacements(s),
               txn'[s] = [T EXCEPT !.pc = "update", !.doc = v, !.saw = ver[v], !.known = known]
        PROVE  SessionInv(s)'
    <3>1. v \in Versions /\ v # NoVersion /\ v \notin T.gone /\ ver[v].status = "ready"
      BY DEF Replacements, Remaining, Versions, NoVersion
    <3>2. GoneInv(s)'
      BY <1>0, <1>a, <2>0, <2>1, <3>1 DEF GoneInv, At, Txn
    <3>3. SeenInv(s)'
      BY <1>0, <1>a, <2>0, <2>1, <3>1 DEF SeenInv, Activating, At, Txn
    <3>4. ActivatingInv(s)'
      BY <1>0, <1>a, <2>0, <2>1, <3>1 DEF ActivatingInv, Loaded, Exists, At, Txn
    <3> QED
      BY <3>2, <3>3, <3>4 DEF SessionInv
  <2>2. CASE \/ txn'[s] = [T EXCEPT !.pc = "commit", !.known = known]
             \/ txn'[s] = [T EXCEPT !.pc = "close"]
    <3>1. /\ txn'[s].op = T.op /\ txn'[s].doc = T.doc /\ txn'[s].gone = T.gone
          /\ txn'[s].nulled = T.nulled
          /\ \/ txn'[s].pc = "commit" /\ txn'[s].known = known
             \/ txn'[s].pc = "close"
      BY <1>0, <2>2 DEF Txn
    <3>2. GoneInv(s)'
      BY <1>0, <1>a, <2>0, <3>1 DEF GoneInv, At
    <3>3. SeenInv(s)' /\ ~Activating(s)'
      BY <1>0, <2>0, <3>1 DEF GoneInv, SeenInv, Activating, At
    <3> QED
      BY <3>2, <3>3 DEF SessionInv
  <2> QED
    BY <1>a, <1>6, <2>1, <2>2 DEF DeleteScan, known
<1> QED
  BY <1>1, <1>2, <1>3, <1>4, <1>5, <1>6 DEF Statement


\* What the statements of a transaction write, but for the version it activates or archives.
LEMMA WrittenRows ==
    ASSUME TypeOK, NEW s \in Sessions, NEW v \in Versions
    PROVE  /\ v \in txn[s].gone =>
                 Written(s)[v].status = "deleted" /\ ~Written(s)[v].active
           /\ v \notin txn[s].gone => /\ Written(s)[v].status = ver[v].status
                                      /\ Written(s)[v].active => ver[v].active
BY DEF Written, Deleted, NoRow, Demoted, TypeOK, Version

\* A flush changes the status of a row only if it was loaded with another one than the
\* new one, and so for whether it is active.
LEMMA FlushedFields ==
    ASSUME NEW row \in Version, NEW saw \in Version, NEW new \in Version
    PROVE  /\ Flushed(row, saw, new).status =
                 IF new.status = saw.status THEN row.status ELSE new.status
           /\ Flushed(row, saw, new).active =
                 IF new.active = saw.active THEN row.active ELSE new.active
BY DEF Flushed, Version

\* What a commit does to the rows that overlapped transactions have seen.
Advance(s) ==
    /\ \A v \in Versions : /\ ver[v].status = "ready" => ver'[v].status \in {"ready", "deleted"}
                           /\ ver[v].status = "deleted" => ver'[v].status = "deleted"
    /\ \A t \in Sessions \ {s} : pointer' \in txn[t].gone => pointer' = pointer

LEMMA ActivateRows ==
    ASSUME TypeOK, RaceInv, NEW s \in Sessions, ActivateCommit(s)
    PROVE  RowsInv' /\ Advance(s)
<1> DEFINE v == txn[s].doc
           row == Flushed(ver[v], txn[s].saw, ActivatedRow)
<1>1. /\ v \in Versions /\ v # NoVersion
      /\ ver[v] \in Version /\ txn[s].saw \in Version
      /\ ActivatedRow \in Version
      /\ GoneInv(s) /\ SeenInv(s) /\ RowsInv
      /\ txn[s].gone \subseteq Versions
  BY RowTypes DEF ActivateCommit, TypeOK, Txn, RaceInv, SessionInv
<1>2. /\ Exists(v) /\ At(s, "commit")
      /\ \A t \in Sessions \ {s} : v \notin txn[t].gone
      /\ ver' = [Written(s) EXCEPT ![v] = row]
      /\ pointer' = IF txn[s].known # v THEN v ELSE pointer
  BY DEF ActivateCommit, FreeFor, Kept, Locks
<1>3. Activating(s)
  BY <1>1, <1>2 DEF Activating, ActivateCommit, At
<1>4. row.status = "ready"
  <2>1. row.status = IF txn[s].saw.status = "ready" THEN ver[v].status ELSE "ready"
    BY <1>1, FlushedFields DEF ActivatedRow
  <2> QED
    BY <1>1, <1>2, <2>1 DEF SeenInv, Exists
<1> HIDE DEF row
<1>5. /\ ver'[v].status = "ready"
      /\ \A u \in Versions \ {v} : ver'[u] = Written(s)[u]
  BY <1>1, <1>2, <1>4, WrittenType
<1>6. \A u \in Versions : ver'[u].active => ver'[u].status = "ready"
  BY <1>1, <1>5, WrittenRows DEF RowsInv
<1>7. PointsToReadyVersion'
  <2>1. CASE pointer' = v
    BY <1>5, <2>1 DEF PointsToReadyVersion
  <2>2. CASE pointer' # v /\ pointer # NoVersion
    <3>1. pointer' = pointer /\ txn[s].known = v /\ pointer \in Versions
      BY <1>2, <2>2 DEF TypeOK
    <3>2. pointer \notin txn[s].gone
      BY <1>1, <1>2, <1>3, <3>1 DEF GoneInv, At
    <3>3. ver[pointer].status = "ready"
      BY <1>1, <2>2 DEF RowsInv, PointsToReadyVersion
    <3> QED
      BY <1>5, <2>2, <3>1, <3>2, <3>3, WrittenRows DEF PointsToReadyVersion
  <2>3. CASE pointer' # v /\ pointer = NoVersion
    BY <1>2, <2>3 DEF PointsToReadyVersion
  <2> QED
    BY <2>1, <2>2, <2>3
<1>8. Advance(s)
  <2>1. \A u \in Versions : ver[u].status = "deleted" => u # v
    BY <1>2 DEF Exists
  <2> QED
    BY <1>2, <1>5, <2>1, WrittenRows DEF Advance
<1> QED
  BY <1>6, <1>7, <1>8 DEF RowsInv

LEMMA ArchiveRows ==
    ASSUME TypeOK, RaceInv, NEW s \in Sessions, ArchiveCommit(s)
    PROVE  RowsInv' /\ Advance(s)
<1> DEFINE v == txn[s].doc
           row == Flushed(ver[v], txn[s].saw, ArchivedRow(txn[s].saw))
<1>1. /\ v \in Versions /\ txn[s].saw \in Version
      /\ ArchivedRow(txn[s].saw) \in Version
      /\ RowsInv
  BY RowTypes DEF TypeOK, Txn, RaceInv, SessionInv, GoneInv, ArchiveCommit
<1>2. /\ ver' = [ver EXCEPT ![v] = [row EXCEPT !.archived = TRUE]]
      /\ pointer' \in {pointer, NoVersion}
  BY DEF ArchiveCommit
<1>3. ver[v] \in Version
  BY <1>1 DEF TypeOK
<1>4. row \in Version /\ row.status = ver[v].status /\ (row.active => ver[v].active)
  <2> DEFINE new == ArchivedRow(txn[s].saw)
  <2>1. new \in Version /\ new.status = txn[s].saw.status /\ ~new.active
    BY <1>1 DEF ArchivedRow, Version
  <2> HIDE DEF new
  <2>2. /\ Flushed(ver[v], txn[s].saw, new) \in Version
        /\ Flushed(ver[v], txn[s].saw, new).status = ver[v].status
    <3> DEFINE seen == ver[v]
               saw == txn[s].saw
    <3>1. seen \in Version /\ saw \in Version
      BY <1>1, <1>3
    <3> HIDE DEF seen, saw
    <3>2. Flushed(seen, saw, new) \in Version
      BY <2>1, <3>1, FlushedType
    <3>3. Flushed(seen, saw, new).status =
             IF new.status = saw.status THEN seen.status ELSE new.status
      BY <2>1, <3>1, FlushedFields
    <3> QED
      BY <2>1, <3>2, <3>3 DEF seen, saw
  <2>3. Flushed(ver[v], txn[s].saw, new).active =
           IF new.active = txn[s].saw.active THEN ver[v].active ELSE new.active
    BY <1>1, <1>3, <2>1, FlushedFields
  <2> QED
    BY <2>1, <2>2, <2>3 DEF new
<1> HIDE DEF row
<1>5. /\ ver'[v].status = ver[v].status /\ (ver'[v].active => ver[v].active)
      /\ \A u \in Versions \ {v} : ver'[u] = ver[u]
  BY <1>1, <1>2, <1>3, <1>4 DEF TypeOK, Version
<1>6. \A u \in Versions : ver'[u].status = ver[u].status /\ (ver'[u].active => ver[u].active)
  BY <1>5
<1>7. pointer' # NoVersion => pointer' = pointer /\ pointer \in Versions
  BY <1>2 DEF TypeOK
<1>8. RowsInv'
  BY <1>1, <1>6, <1>7 DEF RowsInv, PointsToReadyVersion
<1>9. Advance(s)
  <2>1. \A t \in Sessions : NoVersion \notin txn[t].gone
    BY DEF TypeOK, Txn, Versions, NoVersion
  <2> QED
    BY <1>2, <1>6, <2>1 DEF Advance
<1> QED
  BY <1>8, <1>9

LEMMA DeleteRows ==
    ASSUME TypeOK, RaceInv, NEW s \in Sessions, DeleteCommit(s) \/ DeleteLast(s)
    PROVE  RowsInv' /\ Advance(s)
<1>1. GoneInv(s) /\ RowsInv
  BY DEF RaceInv, SessionInv
<1>2. /\ \A v \in Versions : ver'[v] = Written(s)[v]
      /\ pointer' = pointer \/ pointer' = NoVersion
  BY DEF DeleteCommit, DeleteLast
<1>3. pointer' # NoVersion => /\ pointer' = pointer /\ pointer \in Versions
                              /\ pointer \notin txn[s].gone
  <2>1. ASSUME pointer' # NoVersion
        PROVE  ~txn[s].nulled
    BY <2>1 DEF DeleteCommit, DeleteLast
  <2> QED
    BY <1>1, <1>2, <2>1 DEF GoneInv, TypeOK
<1>4. RowsInv'
  <2>1. \A v \in Versions : ver'[v].active => ver'[v].status = "ready"
    BY <1>1, <1>2, WrittenRows DEF RowsInv
  <2>2. PointsToReadyVersion'
    BY <1>1, <1>2, <1>3, WrittenRows DEF RowsInv, PointsToReadyVersion
  <2> QED
    BY <2>1, <2>2 DEF RowsInv
<1>5. Advance(s)
  <2>1. \A t \in Sessions : NoVersion \notin txn[t].gone
    BY DEF TypeOK, Txn, Versions, NoVersion
  <2> QED
    BY <1>2, <2>1, WrittenRows DEF Advance
<1> QED
  BY <1>4, <1>5

LEMMA ReindexRows ==
    ASSUME TypeOK, RaceInv, NEW s \in Sessions, NEW v \in Versions, Reindexed(s, v)
    PROVE  RowsInv' /\ Advance(s)
<1>1. /\ \A u \in Versions : ver'[u].status = ver[u].status /\ ver'[u].active = ver[u].active
      /\ pointer' = pointer
  BY DEF Reindexed, TypeOK, Version
<1>2. pointer # NoVersion => pointer \in Versions
  BY DEF TypeOK
<1> QED
  BY <1>1, <1>2 DEF RaceInv, RowsInv, PointsToReadyVersion, Advance

\* A commit overlaps every other open transaction, and leaves them right about what is gone.
LEMMA SessionAfterCommit ==
    ASSUME TypeOK, NEW s \in Sessions, Advance(s), NEW t \in Sessions,
           txn'[t] = txn[t], pointer' \in txn[t].gone => pointer' = pointer,
           t \in overlapped' \/ At(t, "none"), SessionInv(t)
    PROVE  SessionInv(t)'
<1>1. GoneInv(t)'
  BY DEF SessionInv, GoneInv, At
<1>2. SeenInv(t)'
  <2>1. txn[t].doc # NoVersion => txn[t].doc \in Versions
    BY DEF TypeOK, Txn
  <2> QED
    BY <2>1 DEF Advance, SessionInv, SeenInv, Activating, At
<1>3. t \in overlapped' \/ ~Activating(t)'
  BY DEF SessionInv, GoneInv, Activating, At
<1> QED
  BY <1>1, <1>2, <1>3 DEF SessionInv

LEMMA NoTransaction ==
    ASSUME NEW s \in Sessions, txn'[s] = NoTxn
    PROVE  SessionInv(s)'
BY DEF SessionInv, GoneInv, SeenInv, Activating, At, NoTxn

LEMMA RaceAfterCommit ==
    ASSUME TypeOK, RaceInv, NEW s \in Sessions, Commit(s)
    PROVE  RaceInv'
<1>1. RowsInv' /\ Advance(s)
  BY ActivateRows, ArchiveRows, DeleteRows, ReindexRows DEF Commit
<1>2. /\ \A t \in Sessions \ {s} : txn'[t] = txn[t]
      /\ txn'[s] = NoTxn \/ (txn'[s] = txn[s] /\ At(s, "none") /\ pointer' = pointer)
      /\ overlapped' = Others(s)
  BY DEF Commit, ActivateCommit, ArchiveCommit, DeleteCommit, DeleteLast, Reindexed, End, TypeOK
<1>3. ASSUME NEW t \in Sessions \ {s}
      PROVE  SessionInv(t)'
  BY <1>1, <1>2, <1>3, SessionAfterCommit DEF Advance, Others, RaceInv
<1>4. SessionInv(s)'
  BY <1>1, <1>2, NoTransaction, SessionAfterCommit DEF RaceInv
<1> QED
  BY <1>1, <1>3, <1>4 DEF RaceInv

LEMMA RaceInit == Init => RaceInv
<1> SUFFICES ASSUME Init
             PROVE  RaceInv
  OBVIOUS
<1>1. RowsInv
  BY DEF Init, RowsInv, PointsToReadyVersion, NoRow, Versions, NoVersion
<1>2. \A s \in Sessions : SessionInv(s)
  BY DEF Init, SessionInv, GoneInv, SeenInv, Activating, At, NoTxn
<1> QED
  BY <1>1, <1>2 DEF RaceInv

LEMMA RaceStep == TypeOK /\ RaceInv /\ [Next]_vars => RaceInv'
<1> SUFFICES ASSUME TypeOK, RaceInv, [Next]_vars
             PROVE  RaceInv'
  OBVIOUS
<1>0. RowsInv /\ \A s \in Sessions : SessionInv(s)
  BY DEF RaceInv
<1>1. ASSUME NEW v \in Versions, Upload(v)
      PROVE  RaceInv'
  <2>1. \A t \in Sessions : SessionInv(t)'
    BY <1>0, <1>1, SessionKeptByUpload
  <2>2. pointer' = pointer /\ (pointer # NoVersion => pointer \in Versions)
    BY <1>1 DEF Upload, TypeOK
  <2>3. RowsInv'
    BY <1>0, <1>1, <2>2 DEF RowsInv, PointsToReadyVersion, Upload, TypeOK, Version
  <2> QED
    BY <2>1, <2>3 DEF RaceInv
<1>2. ASSUME NEW v \in Versions, LinkJob(v) \/ JobEnds(v)
      PROVE  RaceInv'
  <2>1. UNCHANGED <<ver, pointer, txn, overlapped>>
    BY <1>2 DEF LinkJob, JobEnds
  <2> QED
    BY <1>0, <2>1, SessionKept DEF RaceInv, RowsInv, PointsToReadyVersion
<1>3. ASSUME NEW s \in Sessions, ReadStep(s) \/ Statement(s) \/ Rollback(s)
      PROVE  RaceInv'
  <2>1. /\ UNCHANGED <<ver, pointer>>
        /\ \A t \in Sessions \ {s} : txn'[t] = txn[t]
        /\ \A t \in Sessions \ {s} : t \notin overlapped' => t \notin overlapped
    BY <1>3 DEF ReadStep, ActivateRead, IngestRead, ArchiveRead, DeleteRead, Begin, Statement,
         UpdateStart, UpdateRows, LoadKnowledge, ArchiveCheck, DeleteRow, DeleteScan, Continue,
         Go, Rollback, TypeOK
  <2>2. RowsInv'
    BY <1>0, <2>1 DEF RowsInv, PointsToReadyVersion
  <2>3. \A t \in Sessions \ {s} : SessionInv(t)'
    BY <1>0, <2>1, SessionKept
  <2>4. SessionInv(s)'
    <3>1. CASE ReadStep(s)
      BY <3>1, SessionRead
    <3>2. CASE Statement(s)
      BY <1>0, <3>2, SessionStatement
    <3>3. CASE Rollback(s)
      BY <3>3, NoTransaction DEF Rollback, TypeOK
    <3> QED
      BY <1>3, <3>1, <3>2, <3>3
  <2> QED
    BY <2>2, <2>3, <2>4 DEF RaceInv
<1>4. ASSUME NEW s \in Sessions, Commit(s)
      PROVE  RaceInv'
  BY <1>4, RaceAfterCommit
<1>5. CASE UNCHANGED vars
  BY <1>0, <1>5, SessionKept DEF vars, RaceInv, RowsInv, PointsToReadyVersion
<1> QED
  BY <1>1, <1>2, <1>3, <1>4, <1>5 DEF Next, JobStep

\* The rows and the views of the open transactions, however they overlap.
THEOREM RaceInvariant == Spec => []RaceInv
BY RaceInit, RaceStep, VersionsTypeCorrect, PTL DEF Spec

\* However transactions overlap, the pointer of a logical document is on a version that
\* has been ingested and not deleted: a deletion either resets it or keeps it from being
\* set, because the row of the deleted version is locked until the commit.
THEOREM PointerNeverDangles == Spec => []PointsToReadyVersion
<1>1. RaceInv => PointsToReadyVersion
  BY DEF RaceInv, RowsInv
<1> QED
  BY <1>1, RaceInvariant, PTL

\* An activation that no commit overlaps repairs what earlier races have left: its
\* version is then the only active one, unarchived, and pointed to.
THEOREM ActivationRepairsRaces == Spec => ActivationRepairs
<1> DEFINE Repaired(v) == /\ ver'[v] = ActivatedRow
                          /\ pointer' = v
                          /\ \A u \in Versions \ {v} : ~ver'[u].active
<1>1. ASSUME TypeOK, RaceInv, NEW s \in Sessions, ActivateCommit(s), s \notin overlapped
      PROVE  Repaired(txn[s].doc)
  <2> DEFINE v == txn[s].doc
  <2>1. /\ v \in Versions /\ v # NoVersion
        /\ At(s, "commit") /\ Activating(s)
        /\ GoneInv(s) /\ ActivatingInv(s)
    <3>1. At(s, "commit") /\ Activating(s)
      BY <1>1 DEF ActivateCommit, Activating, At
    <3>2. SessionInv(s) /\ v \in Versions /\ v # NoVersion
      BY <1>1 DEF RaceInv, ActivateCommit, TypeOK, Txn
    <3> QED
      BY <1>1, <3>1, <3>2 DEF SessionInv
  <2>2. /\ ver' = [Written(s) EXCEPT ![v] = Flushed(ver[v], txn[s].saw, ActivatedRow)]
        /\ pointer' = IF txn[s].known # v THEN v ELSE pointer
    BY <1>1 DEF ActivateCommit
  <2>3. Flushed(ver[v], txn[s].saw, ActivatedRow) = ActivatedRow
    BY <1>1, <2>1, RowTypes, FlushedType DEF ActivatingInv, Loaded, TypeOK
  <2>4. ver'[v] = ActivatedRow
    BY <1>1, <2>1, <2>2, <2>3, WrittenType
  <2>5. pointer' = v
    BY <2>1, <2>2 DEF ActivatingInv
  <2>6. ASSUME NEW u \in Versions \ {v}
        PROVE  ~ver'[u].active
    <3>1. ver'[u] = Written(s)[u]
      BY <1>1, <2>2, WrittenType
    <3>2. ~Deleted.active /\ ~Demoted(ver[u]).active
      BY <1>1 DEF Deleted, NoRow, Demoted, TypeOK, Version
    <3>3. txn[s].demoted = Actives \ ({v} \cup txn[s].gone)
      BY <2>1 DEF ActivatingInv, At
    <3> QED
      BY <3>1, <3>2, <3>3 DEF Written, Actives
  <2> QED
    BY <2>4, <2>5, <2>6
<1>2. TypeOK /\ RaceInv =>
         \A s \in Sessions : ActivateCommit(s) /\ s \notin overlapped => Repaired(txn[s].doc)
  BY <1>1
<1> QED
  BY <1>2, RaceInvariant, VersionsTypeCorrect, PTL DEF ActivationRepairs
=============================================================================
