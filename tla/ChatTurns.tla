----------------------------- MODULE ChatTurns -----------------------------
(* Turns of one conversation: send, stream, regenerate and edit requests of   *)
(* one user (services/chat.py, services/messages.py), next to rename, archive *)
(* and delete (services/conversations.py).                                    *)
(*                                                                            *)
(* A turn has a first transaction under SELECT ... FOR UPDATE of the          *)
(* conversation, which appends the question and a pending assistant message,  *)
(* and much later a second one, without that lock, which settles the          *)
(* assistant message. The second one locks the message row first (flush) and  *)
(* the conversation row second (refresh_counters), as a deletion does for all *)
(* the messages it loaded; an edit and a regeneration lock them the other way *)
(* round, and so does the rest of a deletion, the cascade.                    *)
EXTENDS Naturals, FiniteSets, FiniteSetsExt

CONSTANTS
  Requests,      \* the HTTP requests that may arrive, each served once
  Keys,          \* client_request_id values
  None,          \* no key, no row, no lock holder
  MaxSeq,        \* bound on sequence numbers
  MaxCommands,   \* bound on rename, archive and unarchive commands
  MaxLosses,     \* bound on turns whose end is never written
  Commands       \* which of the user's other operations take part

ASSUME ChatConstants ==
  /\ {MaxSeq, MaxCommands, MaxLosses} \subseteq Nat
  /\ None \notin Requests \cup Keys
  /\ Commands \subseteq {"regenerate", "edit", "delete", "rename", "archive"}

Seqs == 1..MaxSeq

VARIABLES
  conv,     \* the conversation's row
  msg,      \* message rows by sequence number, None where there is no row
  req,      \* the requests: place in the code, loaded objects, locks
  commands, \* rename, archive and unarchive commands so far
  losses,   \* turns lost so far
  hist      \* observed by the properties only

vars == <<conv, msg, req, commands, losses, hist>>

MessageStatus == {"pending", "complete", "failed", "cancelled"}

Conversation == [status: {"active", "archived", "deleted"}, count: 0..MaxSeq,
                 title: {"default", "generated", "chosen"}, auto: BOOLEAN]

Message == [role: {"user", "assistant"}, status: MessageStatus, active: BOOLEAN,
            key: Keys \cup {None}, of: Seqs \cup {None}]

ASSUME NoneAssumption == None \notin Message \cup Seqs

(* "generating" is every point between the two transactions; "flushed" has    *)
(* written the assistant row and counted, uncommitted, and now needs the      *)
(* conversation row; "emptied" has deleted the messages (rows) that it had    *)
(* loaded, uncommitted, and needs the conversation row as well; "locked"      *)
(* holds the conversation row; "titling" is the title transaction of a stream.*)
Request == [pc: {"idle", "generating", "flushed", "emptied", "locked", "titling", "done"},
            op: {"none", "send", "stream", "regenerate", "edit", "delete", "replay"},
            q: Seqs \cup {None}, a: Seqs \cup {None}, rows: SUBSET Seqs,
            out: {"none", "complete", "failed", "cancelled", "discarded"},
            count: 0..MaxSeq, seen: 0..MaxSeq, titled: BOOLEAN,
            title: {"never", "inline", "after"}]

History == [superseded: BOOLEAN,       \* an edit superseded a pending answer
            discarded: SUBSET Seqs,    \* questions whose answer was discarded
            renameOverlapped: BOOLEAN, \* a rename met a turn in progress
            renamed: BOOLEAN]

----------------------------------------------------------------------------
Rows(M) == {s \in Seqs : M[s] # None}
Active(M) == {s \in Rows(M) : M[s].active}
Users(M) == {s \in Active(M) : M[s].role = "user"}
Answers(M) == {s \in Active(M) : M[s].role = "assistant"}
Pending(M) == {s \in Answers(M) : M[s].status = "pending"}

(* MessageService._next_sequence *)
NextSequence(M) == IF Rows(M) = {} THEN 1 ELSE Max(Rows(M)) + 1

LatestUser == Max(Users(msg))

(* MessageService.find_by_client_request_id *)
FindByClientRequestId(k) == {s \in Rows(msg) : k # None /\ msg[s].key = k}

AssistantsAfter(q) == {s \in Rows(msg) : s > q /\ msg[s].role = "assistant"}

(* Mutant: ordered by sequence number, descending. *)
FollowingAssistantLatest(q) == Max(AssistantsAfter(q))

(* ChatService._following_assistant, whatever is_active says *)
FollowingAssistant(q) == Min(AssistantsAfter(q))

Unlocked == \A r \in Requests : req[r].pc # "locked"
Deleting(r) == req[r].op = "delete" /\ req[r].pc \in {"emptied", "locked"}
RowLocked(s) ==
  \E r \in Requests : \/ req[r].pc = "flushed" /\ req[r].a = s
                      \/ Deleting(r) /\ s \in req[r].rows

(* require_active_conversation(for_update=True) *)
RequireActive == Unlocked /\ conv.status = "active"

Question(k) == [role |-> "user", status |-> "complete", active |-> TRUE, key |-> k, of |-> None]
PendingAnswer(q) ==
  [role |-> "assistant", status |-> "pending", active |-> TRUE, key |-> None, of |-> q]

Deactivate(M, S) == [s \in Seqs |-> IF s \in S THEN [M[s] EXCEPT !.active = FALSE] ELSE M[s]]

----------------------------------------------------------------------------
Idle == [pc |-> "idle", op |-> "none", q |-> None, a |-> None, rows |-> {}, out |-> "none",
         count |-> 0, seen |-> 0, titled |-> FALSE, title |-> "never"]
Done == [Idle EXCEPT !.pc = "done"]

Init ==
  /\ conv = [status |-> "active", count |-> 0, title |-> "default", auto |-> TRUE]
  /\ msg = [s \in Seqs |-> None]
  /\ req = [r \in Requests |-> Idle]
  /\ commands = 0
  /\ losses = 0
  /\ hist = [superseded |-> FALSE, discarded |-> {}, renameOverlapped |-> FALSE, renamed |-> FALSE]

(* create_pending_assistant refuses while an active answer is pending *)
MayAnswer(M) == Pending(M) = {}

(* create_pending_assistant and the commit of the first transaction: M holds  *)
(* the rows with the turn's question q.                                       *)
BeginAnswer(r, op, M, q) ==
  LET a == NextSequence(M)
      N == [M EXCEPT ![a] = PendingAnswer(q)]
      n == Cardinality(Active(N))
  IN  /\ a \in Seqs
      /\ MayAnswer(M)
      /\ msg' = N
      /\ conv' = [conv EXCEPT !.count = n]
      /\ req' = [req EXCEPT ![r] = [Idle EXCEPT
           !.pc = "generating", !.op = op, !.q = q, !.a = a, !.count = n,
           !.titled = ~(conv.auto /\ conv.title = "default")]]

(* send_message and stream_message with a new request *)
Send(r, op, k) ==
  LET q == NextSequence(msg)
  IN  /\ req[r].pc = "idle"
      /\ RequireActive
      /\ FindByClientRequestId(k) = {}
      /\ q \in Seqs
      /\ BeginAnswer(r, op, [msg EXCEPT ![q] = Question(k)], q)
      /\ UNCHANGED <<commands, losses, hist>>

(* _idempotent_replay and the replay of stream_message: the question is known. *)
(* The request's a becomes the question that the returned answer answers.     *)
Replay(r, op, k) ==
  /\ req[r].pc = "idle"
  /\ RequireActive
  /\ \E q \in FindByClientRequestId(k) :
       /\ AssistantsAfter(q) # {}
       /\ LET a == FollowingAssistant(q)
          IN  /\ op = "stream" => msg[a].status = "complete"
              /\ req' = [req EXCEPT ![r] = [Done EXCEPT !.op = "replay",
                                                        !.q = q, !.a = msg[a].of]]
  /\ UNCHANGED <<conv, msg, commands, losses, hist>>

(* The answer a regeneration replaces, if there is one *)
LatestAnswer ==
  LET current == {s \in Answers(msg) : s > LatestUser}
  IN  IF current = {} THEN {} ELSE {Max(current)}

MayRegenerate(r) ==
  /\ "regenerate" \in Commands
  /\ req[r].pc = "idle"
  /\ RequireActive
  /\ Users(msg) # {}
  /\ \A s \in LatestAnswer : msg[s].status # "pending"

(* regenerate: prepare_regeneration deactivates the current answer *)
Regenerate(r) ==
  /\ MayRegenerate(r)
  /\ \A s \in LatestAnswer : ~RowLocked(s)
  /\ BeginAnswer(r, "regenerate", Deactivate(msg, LatestAnswer), LatestUser)
  /\ UNCHANGED <<commands, losses, hist>>

----------------------------------------------------------------------------
(* Mutant: only the edited question is superseded. *)
SupersededAlone(q) == {q}

(* The edited question and the active messages that follow it *)
Superseded(q) == {s \in Active(msg) : s >= q}

(* edit_message: lock the conversation, load the latest question and what     *)
(* follows it. The pending check of a new turn is not made here.              *)
EditLock(r) ==
  /\ "edit" \in Commands
  /\ req[r].pc = "idle"
  /\ RequireActive
  /\ Users(msg) # {}
  /\ NextSequence(msg) \in Seqs
  /\ req' = [req EXCEPT ![r] = [Idle EXCEPT !.pc = "locked", !.op = "edit", !.q = LatestUser,
                                   !.rows = Superseded(LatestUser)]]
  /\ UNCHANGED <<conv, msg, commands, losses, hist>>

(* edit_latest_user_message: deactivate, append the replacement, commit *)
EditWrite(r) ==
  LET gone == Deactivate(msg, req[r].rows)
      q == NextSequence(gone)
      N == [gone EXCEPT ![q] = Question(None)]
  IN  /\ req[r].pc = "locked" /\ req[r].op = "edit"
      /\ \A s \in req[r].rows : ~RowLocked(s)
      /\ msg' = N
      /\ conv' = [conv EXCEPT !.count = Cardinality(Active(N))]
      /\ req' = [req EXCEPT ![r] = Done]
      /\ hist' = [hist EXCEPT !.superseded = @ \/ req[r].rows \cap Pending(msg) # {}]
      /\ UNCHANGED <<commands, losses>>

(* delete_conversation: the ORM deletes the messages it has loaded, without   *)
(* the conversation's lock, ...                                               *)
DeleteMessages(r) ==
  /\ "delete" \in Commands
  /\ req[r].pc = "idle"
  /\ conv.status # "deleted"
  /\ \A s \in Rows(msg) : ~RowLocked(s)
  /\ req' = [req EXCEPT ![r] = [Idle EXCEPT !.pc = "emptied", !.op = "delete", !.rows = Rows(msg)]]
  /\ UNCHANGED <<conv, msg, commands, losses, hist>>

(* ... then the conversation's row, ...                                       *)
DeleteLock(r) ==
  /\ req[r].pc = "emptied" /\ req[r].op = "delete"
  /\ Unlocked
  /\ req' = [req EXCEPT ![r].pc = "locked"]
  /\ UNCHANGED <<conv, msg, commands, losses, hist>>

(* ... and ON DELETE CASCADE takes the messages that were added meanwhile.    *)
DeleteWrite(r) ==
  /\ req[r].pc = "locked" /\ req[r].op = "delete"
  /\ \A s \in Rows(msg) \ req[r].rows : ~RowLocked(s)
  /\ conv' = [conv EXCEPT !.status = "deleted", !.count = 0]
  /\ msg' = [s \in Seqs |-> None]
  /\ req' = [req EXCEPT ![r] = Done]
  /\ UNCHANGED <<commands, losses, hist>>

----------------------------------------------------------------------------
(* A settlement writes the assistant row and counts the active messages, but  *)
(* commits nothing yet. "title" says where the path updates the title.        *)
SettleFlush(r, out, title) ==
  LET a == req[r].a
  IN  /\ req[r].pc = "generating"
      /\ msg[a] # None
      /\ ~RowLocked(a)
      /\ req' = [req EXCEPT
           ![r].pc = "flushed", ![r].out = out, ![r].title = title,
           ![r].seen = Cardinality(Active(msg) \ IF out = "discarded" THEN {a} ELSE {})]
      /\ UNCHANGED <<conv, msg, commands, losses, hist>>

(* _generate_into_assistant: the answer and its title in one transaction *)
GeneratedAnswer(r) ==
  /\ req[r].op \in {"send", "regenerate"}
  /\ SettleFlush(r, "complete", "inline")

(* _mark_failed after a rollback that expired nothing (no SQL was open) *)
GenerationMarkedFailed(r) ==
  /\ req[r].op \in {"send", "regenerate"}
  /\ SettleFlush(r, "failed", "never")

(* _stream_into_assistant: the retrieval raises a domain error *)
RetrievalFailed(r) == req[r].op = "stream" /\ SettleFlush(r, "failed", "never")

(* A memory command or the no-context reply answers before any model call. *)
EarlyReply(r) == req[r].op = "stream" /\ SettleFlush(r, "complete", "inline")

(* The multi-agent branch: no title; an error code, a missing run or an empty *)
(* result fails the answer; a disconnect discards it.                         *)
AgentsAnswer(r) == req[r].op = "stream" /\ SettleFlush(r, "complete", "never")
AgentsFailed(r) == req[r].op = "stream" /\ SettleFlush(r, "failed", "never")
AgentsDisconnected(r) == req[r].op = "stream" /\ SettleFlush(r, "discarded", "never")

(* The branch with tools: errors, a cancelled task and a closed generator all *)
(* reach the row; title and summary follow in a transaction of their own.     *)
ToolsAnswer(r) == req[r].op = "stream" /\ SettleFlush(r, "complete", "after")
ToolsFailed(r) == req[r].op = "stream" /\ SettleFlush(r, "failed", "never")
ToolsDisconnected(r) == req[r].op = "stream" /\ SettleFlush(r, "cancelled", "never")

(* The branch without tools; a closed generator is a StreamTorn here. *)
PlainAnswer(r) == req[r].op = "stream" /\ SettleFlush(r, "complete", "after")
PlainFailed(r) == req[r].op = "stream" /\ SettleFlush(r, "failed", "never")
PlainDisconnected(r) == req[r].op = "stream" /\ SettleFlush(r, "cancelled", "never")

Settle(r) ==
  \/ GeneratedAnswer(r) \/ GenerationMarkedFailed(r)
  \/ RetrievalFailed(r) \/ EarlyReply(r)
  \/ AgentsAnswer(r) \/ AgentsFailed(r) \/ AgentsDisconnected(r)
  \/ ToolsAnswer(r) \/ ToolsFailed(r) \/ ToolsDisconnected(r)
  \/ PlainAnswer(r) \/ PlainFailed(r) \/ PlainDisconnected(r)

(* Mutant: a cancelled answer stays as it was. *)
SettledRowUncancelled(row, out) ==
  IF out = "discarded" THEN None ELSE IF out = "cancelled" THEN row ELSE [row EXCEPT !.status = out]

(* finalize_assistant, fail_assistant, cancel_assistant, discard_empty_assistant *)
SettledRow(row, out) == IF out = "discarded" THEN None ELSE [row EXCEPT !.status = out]

(* _maybe_update_title decides from the conversation as the turn loaded it *)
TitleDue(r, M) ==
  /\ ~req[r].titled
  /\ Cardinality({s \in Answers(M) : M[s].status = "complete"}) = 1

Titled(c, due) == IF due THEN [c EXCEPT !.title = "generated"] ELSE c

(* Mutant: discard_empty_assistant does not refresh the counters. *)
RecountedUnlessDiscarded(c, r) == IF req[r].out = "discarded" THEN c ELSE [c EXCEPT !.count = req[r].seen]

(* refresh_counters: message_count is written when it differs from the value  *)
(* the turn has loaded or written before                                      *)
Recounted(c, r) == IF req[r].seen = req[r].count THEN c ELSE [c EXCEPT !.count = req[r].seen]

(* The conversation row's update and the commit *)
SettleCommit(r) ==
  LET N == [msg EXCEPT ![req[r].a] = SettledRow(@, req[r].out)]
  IN  /\ req[r].pc = "flushed"
      /\ Unlocked
      /\ msg' = N
      /\ conv' = Titled(Recounted(conv, r), req[r].title = "inline" /\ TitleDue(r, N))
      /\ req' = [req EXCEPT ![r] = IF req[r].title = "after" THEN [Done EXCEPT !.pc = "titling", !.titled = req[r].titled]
                                               ELSE Done]
      /\ hist' = [hist EXCEPT !.discarded = IF req[r].out = "discarded"
                                            THEN @ \cup {req[r].q} ELSE @]
      /\ UNCHANGED <<commands, losses>>

(* A stream's title transaction after the answer's commit. Any exception of   *)
(* it is swallowed: it may write nothing.                                     *)
TitleCommit(r) ==
  /\ req[r].pc = "titling"
  /\ Unlocked
  /\ \/ UNCHANGED conv
     \/ conv.status # "deleted" /\ conv' = Titled(conv, TitleDue(r, msg))
  /\ req' = [req EXCEPT ![r] = Done]
  /\ UNCHANGED <<msg, commands, losses, hist>>

(* The conversation was deleted under the turn: its writes match no row. *)
SettleOnDeleted(r) ==
  /\ req[r].pc = "generating"
  /\ msg[req[r].a] = None
  /\ req' = [req EXCEPT ![r] = Done]
  /\ UNCHANGED <<conv, msg, commands, losses, hist>>

(* Message rows r has written while it needs the conversation's row, and      *)
(* those e needs while it holds that row                                      *)
Holds(r) ==
  CASE req[r].pc = "flushed" -> {req[r].a}
    [] req[r].pc = "emptied" -> req[r].rows
    [] OTHER -> {}
Needs(e) == IF req[e].op = "delete" THEN Rows(msg) \ req[e].rows ELSE req[e].rows

(* PostgreSQL breaks the cycle "message row, then conversation row" against   *)
(* "conversation row, then message rows" by aborting one transaction. An      *)
(* aborted settlement leaves its answer pending: a stream has no handler      *)
(* there, and after the rollback of the others assistant.id is expired.       *)
DeadlockAbort(r, e) ==
  /\ req[e].pc = "locked"
  /\ Holds(r) \cap Needs(e) # {}
  /\ \E victim \in {r, e} : req' = [req EXCEPT ![victim] = Done]
  /\ UNCHANGED <<conv, msg, commands, losses, hist>>

(* The same between a deletion r and a regeneration e, which takes the        *)
(* conversation row and the answer in one step (Regenerate).                  *)
RegenerateDeadlock(r, e) ==
  /\ MayRegenerate(e)
  /\ Holds(r) \cap LatestAnswer # {}
  /\ \E victim \in {r, e} : req' = [req EXCEPT ![victim] = Done]
  /\ UNCHANGED <<conv, msg, commands, losses, hist>>

Lose(r) ==
  /\ losses < MaxLosses
  /\ req[r].pc = "generating"
  /\ losses' = losses + 1
  /\ req' = [req EXCEPT ![r] = Done]
  /\ UNCHANGED <<conv, msg, commands, hist>>

(* send_message: a domain error of the generation is raised with the failed   *)
(* status flushed but not committed; the closing session rolls it back.       *)
SendDomainError(r) == req[r].op = "send" /\ Lose(r)

(* regenerate: the rollback expires the assistant object, and reading its id  *)
(* for _mark_failed raises. send_message does the same for other errors.      *)
RegenerateError(r) == req[r].op = "regenerate" /\ Lose(r)

(* event_stream: a disconnect or an error reaches the generator outside its   *)
(* guarded blocks (retrieval, memory, context) or the process stops; the      *)
(* route rolls the session back.                                              *)
StreamTorn(r) == req[r].op = "stream" /\ Lose(r)

----------------------------------------------------------------------------
InTurn == \E r \in Requests : req[r].pc \in {"generating", "flushed", "titling"}

(* rename_conversation *)
Rename ==
  /\ "rename" \in Commands
  /\ commands < MaxCommands
  /\ Unlocked
  /\ conv.status # "deleted"
  /\ conv' = [conv EXCEPT !.title = "chosen", !.auto = FALSE]
  /\ commands' = commands + 1
  /\ hist' = [hist EXCEPT !.renamed = TRUE, !.renameOverlapped = @ \/ InTurn]
  /\ UNCHANGED <<msg, req, losses>>

(* archive_conversation, unarchive_conversation *)
SetStatus(s) ==
  /\ "archive" \in Commands
  /\ commands < MaxCommands
  /\ Unlocked
  /\ conv.status \notin {"deleted", s}
  /\ conv' = [conv EXCEPT !.status = s]
  /\ commands' = commands + 1
  /\ UNCHANGED <<msg, req, losses, hist>>

Step(r) ==
  \/ \E op \in {"send", "stream"}, k \in Keys \cup {None} : Send(r, op, k) \/ Replay(r, op, k)
  \/ Regenerate(r)
  \/ EditLock(r) \/ EditWrite(r)
  \/ DeleteMessages(r) \/ DeleteLock(r) \/ DeleteWrite(r)
  \/ Settle(r)
  \/ SettleCommit(r) \/ TitleCommit(r) \/ SettleOnDeleted(r)
  \/ \E e \in Requests : DeadlockAbort(r, e) \/ RegenerateDeadlock(r, e)
  \/ SendDomainError(r) \/ RegenerateError(r) \/ StreamTorn(r)

Next == (\E r \in Requests : Step(r)) \/ Rename \/ (\E s \in {"active", "archived"} : SetStatus(s))

Spec == Init /\ [][Next]_vars

(* What a running process carries out by itself: a generation ends (provider  *)
(* timeouts), a transaction gets its lock or is aborted.                      *)
Finish(r) ==
  \/ Settle(r)
  \/ SettleCommit(r) \/ TitleCommit(r) \/ SettleOnDeleted(r)
  \/ EditWrite(r) \/ DeleteLock(r) \/ DeleteWrite(r)
  \/ \E e \in Requests : DeadlockAbort(r, e)

FairSpec == Spec /\ \A r \in Requests : WF_vars(Finish(r))

----------------------------------------------------------------------------
(* Every variable keeps its shape: rows, requests and counters of the         *)
(* conversation stay in the sets the columns and objects allow.               *)
TypeOK ==
  /\ conv \in Conversation
  /\ msg \in [Seqs -> Message \cup {None}]
  /\ req \in [Requests -> Request]
  /\ commands \in 0..MaxCommands
  /\ losses \in 0..MaxLosses
  /\ hist \in History

(* The visible transcript is well formed: every active answer stands behind   *)
(* its own, active question with nothing active between them, and at most one *)
(* answer is pending. An edit during a generation, a regeneration, an aborted *)
(* transaction and a late settlement must all keep this.                      *)
Transcript ==
  /\ TypeOK
  /\ Cardinality(Pending(msg)) <= 1
  /\ \A a \in Answers(msg) :
        /\ msg[a].of \in Users(msg)
        /\ msg[a].of < a
        /\ \A s \in Active(msg) : ~(msg[a].of < s /\ s < a)

(* A retried request gets an answer to its own question. The one exception is *)
(* a question whose empty answer was discarded: its sequence number is free   *)
(* again and the next turn's answer follows it.                               *)
ReplayAnswersItsQuestion ==
  \A r \in Requests :
    req[r].op = "replay" => req[r].a = req[r].q \/ req[r].q \in hist.discarded

(* What overlapping requests write to the conversation's row. As long as no   *)
(* edit superseded a pending answer, message_count is the number of active    *)
(* messages in every committed state, although settlements count without the  *)
(* conversation's lock and write only what they think changed. A title the    *)
(* user chose is overwritten by the generated one only if a turn that had     *)
(* loaded the default title was in progress at the rename.                    *)
ConversationRowRight ==
  /\ hist.superseded \/ conv.count = Cardinality(Active(msg))
  /\ hist.renamed /\ ~hist.renameOverlapped => conv.title = "chosen"

(* A conversation stays blocked by a pending answer only if a turn was lost:  *)
(* otherwise the answer is settled, discarded or superseded, also when the    *)
(* settlement deadlocks with an edit or a deletion.                           *)
ConversationUnblocks == (Pending(msg) # {}) ~> (Pending(msg) = {} \/ losses > 0)

----------------------------------------------------------------------------
(* The inductive invariant behind Transcript, ReplayAnswersItsQuestion and    *)
(* ConversationRowRight                                                       *)

InFlight(r) == req[r].pc \in {"generating", "flushed"}
Answered(r) == msg[req[r].a] # None

(* The conversation's lock has one holder, and an edit that holds it has      *)
(* loaded what is there now.                                                  *)
LockInv ==
  /\ \A r, p \in Requests : req[r].pc = "locked" /\ req[p].pc = "locked" => r = p
  /\ \A r \in Requests : req[r].pc = "locked" /\ req[r].op = "edit" =>
        /\ Users(msg) # {}
        /\ req[r].rows = Superseded(LatestUser)
        /\ NextSequence(msg) \in Seqs

(* A deletion has not locked the row of an answer that is being settled.      *)
DeletionInv ==
  \A r, p \in Requests : Deleting(r) /\ req[p].pc = "flushed" => req[p].a \notin req[r].rows

(* A turn in flight owns the row of its answer, which is gone only with the   *)
(* conversation: nobody else settles it, and no new row takes its number.     *)
TurnInv ==
  /\ conv.status = "deleted" => Rows(msg) = {}
  /\ \A r \in Requests : InFlight(r) =>
        /\ req[r].q \in Seqs /\ req[r].a \in Seqs
        /\ Answered(r) => msg[req[r].a].role = "assistant" /\ msg[req[r].a].of = req[r].q
        /\ ~Answered(r) => conv.status = "deleted" /\ req[r].pc = "generating"
        /\ req[r].pc = "flushed" => req[r].out # "none"
  /\ \A r, p \in Requests : InFlight(r) /\ InFlight(p) /\ req[r].a = req[p].a => r = p

(* A pending answer is the last row of all. *)
PendingIsLast(M) == \A p \in Pending(M), s \in Rows(M) : s <= p

AnswersFit(M) ==
  \A a \in Answers(M) :
     /\ M[a].of \in Users(M)
     /\ M[a].of < a
     /\ \A s \in Active(M) : ~(M[a].of < s /\ s < a)

(* The answer to a question with a key stays behind it, active or not, unless *)
(* it was discarded.                                                          *)
AnswersStay(M, discarded) ==
  \A q \in Rows(M) : M[q].key # None /\ q \notin discarded =>
     /\ q + 1 \in Rows(M)
     /\ M[q + 1].role = "assistant" /\ M[q + 1].of = q

(* Until an edit has superseded a pending answer, a turn in flight is the     *)
(* only one, its answer is pending, and what it has counted is right.         *)
CountInv == ~hist.superseded =>
  /\ conv.count = Cardinality(Active(msg))
  /\ \A r \in Requests : InFlight(r) /\ Answered(r) =>
        /\ req[r].a \in Pending(msg)
        /\ req[r].count = Cardinality(Active(msg))
        /\ req[r].pc = "flushed" =>
             req[r].seen = Cardinality(Active(msg) \ IF req[r].out = "discarded" THEN {req[r].a} ELSE {})

(* A turn that began after a rename does not write the title.                 *)
TitleInv ==
  /\ hist.renamed => ~conv.auto
  /\ hist.renamed /\ ~hist.renameOverlapped =>
        /\ conv.title = "chosen"
        /\ \A r \in Requests : req[r].pc \in {"generating", "flushed", "titling"} => req[r].titled

ChatInv ==
  /\ TypeOK
  /\ LockInv
  /\ DeletionInv
  /\ TurnInv
  /\ PendingIsLast(msg)
  /\ AnswersFit(msg)
  /\ AnswersStay(msg, hist.discarded)
  /\ ReplayAnswersItsQuestion
  /\ CountInv
  /\ TitleInv
=============================================================================
