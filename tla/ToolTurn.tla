------------------------------ MODULE ToolTurn ------------------------------
(* One chat turn that may call tools: the loop of agents/orchestrator.py, the *)
(* executor of tools/executor.py, and what services/chat.py stores of it,     *)
(* beside administrators who change the configuration of the tools.           *)
(*                                                                            *)
(* The whole turn is one task with one database session.  The pending answer  *)
(* is committed before the loop starts; everything the loop writes (the       *)
(* execution records) is flushed only and commits together with the answer.   *)
(* The model behind the provider answers what it likes.  A client that goes   *)
(* away cancels a streamed turn at any await.                                 *)
EXTENDS Naturals, Sequences, FiniteSets

CONSTANTS
  Tools,          \* names in the registry
  Ghost,          \* a name that is not on the allow-list of any turn
  MaxIterations,  \* agent_max_tool_iterations
  MaxCalls,       \* bound on tool calls in one answer of the model
  MaxChunks,      \* bound on deltas in one answer of the model
  Admins,         \* concurrent administrative requests
  Patches,        \* the changes they may ask for: <<enabled, confirmation_required_override>>
  MaxUpdates,     \* bound on administrative requests
  None            \* no configuration row, a field left out of a PATCH

\* What the constants may be; Request assumes it of its instance.
ToolConstants ==
  /\ {MaxIterations, MaxChunks} \subseteq Nat \ {0}
  /\ {MaxCalls, MaxUpdates} \subseteq Nat
  /\ Patches \subseteq {TRUE, FALSE, None} \X {TRUE, FALSE, None}
  /\ Ghost \notin Tools /\ None \notin Tools \cup {Ghost}

VARIABLES
  pc,          \* where the turn is, at last how it ended
  mode,        \* "stream", or "send": the answer is collected first
  selected,    \* selected_tool_names of the turn
  iterations,
  asked,       \* calls the model has requested
  queue,       \* authorized_calls still to be executed
  working,     \* the messages added to the prompt
  rows,        \* tool_executions flushed by the session of the turn
  ids,         \* tool_execution_ids of the orchestrator
  left,        \* deltas still to come of the answer being spoken
  shown,       \* deltas handed to the consumer (accumulated, content)
  broken,      \* the transaction is aborted or the connection invalidated
  message,     \* the committed assistant message
  saved        \* the committed tool_executions of the message

VARIABLES
  config,      \* tool_configurations
  registry,    \* overrides in the memory of the process
  admin,       \* administrative requests in progress
  updates,     \* how many there have been
  overlapped   \* whether the registry has been set by overlapping requests

turnVars == <<pc, mode, selected, iterations, asked, queue, working, rows, ids, left, shown,
              broken, message, saved>>
adminVars == <<config, registry, admin, updates, overlapped>>
vars == <<turnVars, adminVars>>

Busy == {"generate", "calls", "tool", "plain", "synthesis", "pieces", "spoken", "failing"}
Ended == {"answered", "failed", "cancelled", "lost"}

\* "failed" stands for timed_out too.
RecordStatus == {"running", "succeeded", "failed", "denied"}
Record == [call : Nat, status : RecordStatus]
Call == [id : Nat, tool : Tools \cup {Ghost}]
Config == [enabled : BOOLEAN, confirm : {TRUE, FALSE, None}]

Enabled(t) == registry[t] # None => registry[t].enabled
NeedsConfirmation(t) == registry[t] # None /\ registry[t].confirm = TRUE

Init ==
  /\ pc = "idle" /\ mode = "stream" /\ selected = {}
  /\ iterations = 0 /\ asked = 0 /\ left = 0 /\ shown = 0
  /\ queue = <<>> /\ working = <<>> /\ rows = <<>> /\ ids = <<>> /\ saved = <<>>
  /\ broken = FALSE
  /\ message = [status |-> "pending", chunks |-> 0, grounded |-> FALSE, ids |-> <<>>]
  /\ config = [t \in Tools |-> None]
  /\ registry = config
  /\ admin = [a \in Admins |-> [pc |-> "idle", tool |-> None, saw |-> None, new |-> None]]
  /\ updates = 0 /\ overlapped = FALSE

-----------------------------------------------------------------------------
(* The loop *)

\* The selection policy picks among the tools that are enabled now.
Start ==
  /\ pc = "idle"
  /\ \E m \in {"stream", "send"}, S \in SUBSET {t \in Tools : Enabled(t)} :
       /\ mode' = m
       /\ selected' = S
       /\ IF S = {}
          THEN pc' = "plain" /\ left' \in 0..MaxChunks
          ELSE pc' = "generate" /\ UNCHANGED left
  /\ UNCHANGED <<iterations, asked, queue, working, rows, ids, shown, broken, message, saved, adminVars>>

ToolMessage(call) == [role |-> "tool", call |-> call.id]
ToolMessages(calls) == [i \in DOMAIN calls |-> ToolMessage(calls[i])]
AssistantMessage(calls) == [role |-> "assistant", calls |-> [i \in DOMAIN calls |-> calls[i].id]]

\* Tool calls the model asks for; the ids tell them apart, and no more.
Requested(names, before) == [i \in DOMAIN names |-> [id |-> before + i, tool |-> names[i]]]

\* Mutant: calls off the allow-list are kept in the assistant message.
PromptWithRefusedCalls(calls, authorized, refused) ==
  ToolMessages(refused) \o (IF authorized = <<>> THEN <<>> ELSE <<AssistantMessage(calls)>>)

\* Refused calls are answered at once; then comes the message with the others.
PromptAfter(calls, authorized, refused) ==
  ToolMessages(refused) \o (IF authorized = <<>> THEN <<>> ELSE <<AssistantMessage(authorized)>>)

\* generate() answers with tool calls, some on the allow-list of the turn, the others not.
\* How the two are mixed does not matter: the loop sorts them first, each in its order.
GenerateCalls(allowed, others) ==
  /\ pc = "generate"
  /\ iterations < MaxIterations
  /\ LET authorized == Requested(allowed, asked)
         refused == Requested(others, asked + Len(allowed))
     IN  /\ working' = working \o PromptAfter(authorized \o refused, authorized, refused)
         /\ queue' = authorized
         /\ iterations' = iterations + 1
         /\ pc' = IF authorized = <<>> THEN "generate" ELSE "calls"
  /\ asked' = asked + Len(allowed) + Len(others)
  /\ UNCHANGED <<mode, selected, rows, ids, left, shown, broken, message, saved, adminVars>>

\* generate() answers with n pieces of text.  A blank answer after tools is asked for
\* again, without tools; without them it stays blank.
GenerateText(n) ==
  /\ pc = "generate"
  /\ iterations < MaxIterations
  /\ iterations' = iterations + 1
  /\ IF n = 0 /\ ids # <<>>
     THEN pc' = "synthesis" /\ left' \in 0..MaxChunks
     ELSE pc' = "pieces" /\ left' = n
  /\ UNCHANGED <<mode, selected, asked, queue, working, rows, ids, shown, broken, message, saved, adminVars>>

\* The loop is used up: one canned sentence.
LimitReached ==
  /\ pc = "generate"
  /\ iterations = MaxIterations
  /\ pc' = "pieces"
  /\ left' = 1
  /\ UNCHANGED <<mode, selected, iterations, asked, queue, working, rows, ids, shown, broken, message,
                 saved, adminVars>>

\* generate() raises, or the provider's stream ends with an error event or raises.
ProviderFails ==
  /\ pc \in {"generate", "plain", "synthesis"}
  /\ pc = "generate" => iterations < MaxIterations
  /\ pc' = "failing"
  /\ UNCHANGED <<mode, selected, iterations, asked, queue, working, rows, ids, left, shown, broken,
                 message, saved, adminVars>>

\* A delta event reaches the consumer.
Delta ==
  /\ pc \in {"plain", "synthesis", "pieces"}
  /\ left > 0
  /\ left' = left - 1
  /\ shown' = shown + 1
  /\ UNCHANGED <<pc, mode, selected, iterations, asked, queue, working, rows, ids, broken, message,
                 saved, adminVars>>

\* assistant_completed and agent_completed.
Spoken ==
  /\ pc \in {"plain", "synthesis", "pieces"}
  /\ left = 0
  /\ pc' = "spoken"
  /\ UNCHANGED <<mode, selected, iterations, asked, queue, working, rows, ids, left, shown, broken,
                 message, saved, adminVars>>

-----------------------------------------------------------------------------
(* The executor *)

Answered(call) ==
  /\ working' = Append(working, ToolMessage(call))
  /\ queue' = Tail(queue)

Recorded(call, status) == Append(rows, [call |-> call.id, status |-> status])

\* The tool has been switched off or made subject to confirmation since the turn
\* selected it, or its arguments do not validate: a terminal record at once.
CallRefused(status) ==
  /\ pc = "calls" /\ queue # <<>>
  /\ LET call == Head(queue)
     IN  /\ status = "denied" <=> ~Enabled(call.tool) \/ NeedsConfirmation(call.tool)
         /\ rows' = Recorded(call, status)
         /\ ids' = Append(ids, call.id)
         /\ Answered(call)
  /\ UNCHANGED <<pc, mode, selected, iterations, asked, left, shown, broken, message, saved, adminVars>>

CallStarts ==
  /\ pc = "calls" /\ queue # <<>>
  /\ LET call == Head(queue)
     IN  /\ Enabled(call.tool) /\ ~NeedsConfirmation(call.tool)
         /\ rows' = Append(rows, [call |-> call.id, status |-> "running"])
  /\ pc' = "tool"
  /\ UNCHANGED <<mode, selected, iterations, asked, queue, working, ids, left, shown, broken, message,
                 saved, adminVars>>

\* The tool returns, raises or times out, and the record is updated.
ToolEnds(status) ==
  /\ pc = "tool"
  /\ rows' = [rows EXCEPT ![Len(rows)].status = status]
  /\ ids' = Append(ids, Head(queue).id)
  /\ Answered(Head(queue))
  /\ pc' = "calls"
  /\ UNCHANGED <<mode, selected, iterations, asked, left, shown, broken, message, saved, adminVars>>

\* A statement of the tool fails, or the timeout cancels one: the update of the
\* record raises, and so does everything after it until the session is rolled back.
ToolBreaksSession ==
  /\ pc = "tool"
  /\ broken' = TRUE
  /\ pc' = "failing"
  /\ UNCHANGED <<mode, selected, iterations, asked, queue, working, rows, ids, left, shown, message,
                 saved, adminVars>>

NextRound ==
  /\ pc = "calls" /\ queue = <<>>
  /\ pc' = "generate"
  /\ UNCHANGED <<mode, selected, iterations, asked, queue, working, rows, ids, left, shown, broken,
                 message, saved, adminVars>>

-----------------------------------------------------------------------------
(* What the chat service stores *)

\* The task ends: its local variables and its session are gone.
Leave(how) ==
  /\ pc' = how
  /\ selected' = {} /\ queue' = <<>> /\ working' = <<>> /\ rows' = <<>> /\ ids' = <<>>
  /\ iterations' = 0 /\ asked' = 0 /\ broken' = FALSE
  /\ UNCHANGED <<mode, left, shown, adminVars>>

\* normalize_grounded_answer takes things out of the text of an answer with citations: lines
\* that name a source, phrases said twice, markers of no citation. What is left may be blank.
Normalized(n) == 0..n

\* Only a completed message is grounded. Whether the turn has citations, which it had before
\* the loop, is looked at here alone.
Store(status, meta) ==
  /\ \E grounded \in {FALSE, status = "complete"}, n \in Normalized(shown) :
       /\ ~grounded => n = shown
       /\ message' = [status |-> status, chunks |-> n, grounded |-> grounded, ids |-> meta]
  /\ saved' = rows

\* Mutant: a blank answer is complete.
OutcomeUnchecked == "complete"

\* A streamed answer that is blank has failed; it is normalized only after that.
Outcome == IF mode = "stream" /\ shown = 0 THEN "failed" ELSE "complete"

AnswerStored ==
  /\ pc = "spoken"
  /\ Leave(IF Outcome = "complete" THEN "answered" ELSE "failed")
  /\ Store(Outcome, IF Outcome = "complete" THEN ids ELSE <<>>)

\* An error event fails the streamed message.  run() only collects events: the message
\* of a "send" is completed with what there is.
FailureStored ==
  /\ pc = "failing" /\ ~broken
  /\ IF mode = "stream"
     THEN Leave("failed") /\ Store("failed", <<>>)
     ELSE Leave("answered") /\ Store("complete", ids)

\* The client of a streamed turn is gone: CancelledError inside the loop, or the
\* generator is closed between two events.
Disconnect ==
  /\ mode = "stream"
  /\ pc \in Busy \ {"spoken", "failing"}
  /\ Leave("cancelled")
  /\ Store("cancelled", <<>>)

\* The process dies, the clean-up of a cancelled turn is cancelled too, or the session is
\* broken and nothing more can be written: the transaction is rolled back.
Lost ==
  /\ pc \in Busy
  /\ Leave("lost")
  /\ UNCHANGED <<message, saved>>

-----------------------------------------------------------------------------
(* The configuration of the tools *)

SetAdmin(a, r) == admin' = [admin EXCEPT ![a] = r]
AdminIdle == [pc |-> "idle", tool |-> None, saw |-> None, new |-> None]
Others(a) == {b \in Admins \ {a} : admin[b].pc # "idle"}

\* PATCH: fields left out keep the loaded value, or the tool's default.
Patched(saw, enabled, confirm) ==
  [enabled |-> IF enabled # None THEN enabled ELSE saw = None \/ saw.enabled,
   confirm |-> IF confirm # None \/ saw = None THEN confirm ELSE saw.confirm]

UpdateLoads(a, t) ==
  /\ admin[a].pc = "idle"
  /\ updates < MaxUpdates
  /\ updates' = updates + 1
  /\ \E change \in Patches :
       SetAdmin(a, [pc |-> "commit", tool |-> t, saw |-> config[t],
                    new |-> Patched(config[t], change[1], change[2])])
  /\ overlapped' = (overlapped \/ Others(a) # {})
  /\ UNCHANGED <<turnVars, config, registry>>

\* DELETE of the configuration; without a row it answers 404.
ResetLoads(a, t) ==
  /\ admin[a].pc = "idle"
  /\ config[t] # None
  /\ updates < MaxUpdates
  /\ updates' = updates + 1
  /\ SetAdmin(a, [pc |-> "commit", tool |-> t, saw |-> config[t], new |-> None])
  /\ overlapped' = (overlapped \/ Others(a) # {})
  /\ UNCHANGED <<turnVars, config, registry>>

Column(current, saw, new) == IF new = saw THEN current ELSE new

\* The columns that differ from the loaded row; a row that was not there is inserted.
Written(row, saw, new) ==
  IF new = None \/ saw = None THEN new
  ELSE [enabled |-> Column(row.enabled, saw.enabled, new.enabled),
        confirm |-> Column(row.confirm, saw.confirm, new.confirm)]

\* Mutant: the registry is reloaded only when a row is written.
UpdateCommitsReset(a) ==
  /\ admin[a].pc = "commit"
  /\ LET r == admin[a]
     IN  IF r.new # None /\ (r.saw = None) # (config[r.tool] = None)
         THEN UNCHANGED config /\ SetAdmin(a, AdminIdle)
         ELSE /\ config' = [config EXCEPT ![r.tool] = Written(@, r.saw, r.new)]
              /\ SetAdmin(a, IF r.new = None THEN AdminIdle ELSE [r EXCEPT !.pc = "refresh"])
  /\ UNCHANGED <<turnVars, registry, updates, overlapped>>

\* An insert beside another one violates uniqueness, and an update of a deleted row
\* matches nothing: the request fails.
UpdateCommits(a) ==
  /\ admin[a].pc = "commit"
  /\ LET r == admin[a]
     IN  IF r.new # None /\ (r.saw = None) # (config[r.tool] = None)
         THEN UNCHANGED config /\ SetAdmin(a, AdminIdle)
         ELSE /\ config' = [config EXCEPT ![r.tool] = Written(@, r.saw, r.new)]
              /\ SetAdmin(a, [r EXCEPT !.pc = "refresh"])
  /\ UNCHANGED <<turnVars, registry, updates, overlapped>>

\* refresh_tool_overrides in the same session, and again in list_tools: the row that the
\* request has written is still as the session knows it, the others are read.
UpdateRefreshes(a) ==
  /\ admin[a].pc \in {"refresh", "list"}
  /\ LET r == admin[a]
     IN  /\ registry' = [config EXCEPT ![r.tool] = IF @ = None \/ r.new = None THEN @ ELSE r.new]
         /\ SetAdmin(a, IF r.pc = "refresh" THEN [r EXCEPT !.pc = "list"] ELSE AdminIdle)
  /\ UNCHANGED <<turnVars, config, updates, overlapped>>

\* GET /admin/tools: a fresh session.
ListTools ==
  /\ registry # config
  /\ registry' = config
  /\ overlapped' = (overlapped /\ \E a \in Admins : admin[a].pc # "idle")
  /\ UNCHANGED <<turnVars, config, admin, updates>>

-----------------------------------------------------------------------------
Calls(names) == UNION {[1..n -> names] : n \in 0..MaxCalls}

Loop ==
  \/ Start
  \/ \E allowed \in Calls(selected), others \in Calls((Tools \cup {Ghost}) \ selected) :
       Len(allowed) + Len(others) \in 1..MaxCalls /\ GenerateCalls(allowed, others)
  \/ \E n \in 0..MaxChunks : GenerateText(n)
  \/ LimitReached \/ ProviderFails \/ Delta \/ Spoken \/ NextRound

Execute ==
  \/ \E status \in {"denied", "failed"} : CallRefused(status)
  \/ CallStarts
  \/ \E status \in {"succeeded", "failed"} : ToolEnds(status)
  \/ ToolBreaksSession

Close == AnswerStored \/ FailureStored \/ Disconnect \/ Lost

Administration ==
  \/ \E a \in Admins : \/ \E t \in Tools : UpdateLoads(a, t) \/ ResetLoads(a, t)
                       \/ UpdateCommits(a) \/ UpdateRefreshes(a)
  \/ ListTools

Next == Loop \/ Execute \/ Close \/ Administration

Spec == Init /\ [][Next]_vars

-----------------------------------------------------------------------------
(* Properties *)

\* Every variable has its type.
TypeOK ==
  /\ pc \in {"idle"} \cup Busy \cup Ended
  /\ mode \in {"stream", "send"} /\ selected \subseteq Tools
  /\ iterations \in 0..MaxIterations /\ asked \in Nat /\ left \in Nat /\ shown \in Nat
  /\ queue \in Seq(Call) /\ rows \in Seq(Record) /\ saved \in Seq(Record) /\ ids \in Seq(Nat)
  /\ \A i \in DOMAIN working :
        \/ working[i].role = "tool" /\ working[i].call \in Nat
        \/ working[i].role = "assistant" /\ working[i].calls \in Seq(Nat)
  /\ broken \in BOOLEAN
  /\ message \in [status : {"pending", "complete", "failed", "cancelled"}, chunks : Nat,
                 grounded : BOOLEAN, ids : Seq(Nat)]
  /\ config \in [Tools -> Config \cup {None}]
  /\ registry \in [Tools -> Config \cup {None}]
  /\ updates \in Nat /\ overlapped \in BOOLEAN

\* Whenever the provider is called, every call of every assistant message in the prompt
\* is followed, in order, by its one result, whether the call was executed, denied, failed or
\* timed out (the order in which chat providers require them).
CallsAnsweredInOrder ==
  /\ TypeOK
  /\ pc \in {"generate", "synthesis"} =>
       \A i \in DOMAIN working : working[i].role = "assistant" =>
         \A k \in DOMAIN working[i].calls :
           /\ i + k \in DOMAIN working
           /\ working[i + k] = [role |-> "tool", call |-> working[i].calls[k]]

\* What is stored about a turn agrees with what happened in it. The text of a streamed turn,
\* failed, cancelled, or complete without citations, consists of the deltas the client was sent,
\* and a complete one is not blank. With citations, when the text is rewritten after it was sent,
\* nothing is stored that was not sent, and something was sent to its end. A completed answer
\* names exactly the executions recorded for it, refused ones included, in order, in either
\* mode; a record is left running only when the turn was cancelled while its tool ran.
StoredIsShown ==
  /\ mode = "stream" /\ message.status # "pending" =>
       /\ message.chunks \in IF message.grounded THEN Normalized(shown) ELSE {shown}
       /\ message.status = "complete" => shown > 0 /\ left = 0
  /\ message.grounded => message.status = "complete"
  /\ message.status = "complete" => message.ids = [i \in DOMAIN saved |-> saved[i].call]
  /\ \A i \in DOMAIN saved : saved[i].status = "running" => message.status = "cancelled" /\ i = Len(saved)

\* With no update in progress the registry of the process that serves the administrators
\* has the configuration of the database, as long as no two updates have overlapped.
RegistryFollowsConfig ==
  ~overlapped /\ (\A a \in Admins : admin[a].pc = "idle") => registry = config

=============================================================================
