----------------------------- MODULE Specialists -----------------------------
(* What the specialists find, ask for and execute while a plan is worked off  *)
(* (agents/specialists/*.py as agents/coordinator.py calls them, task after   *)
(* task, with retries and time-outs), the pause for an approval, and the      *)
(* answers to it (agents/api.py, api/routes/agents.py): one transaction that  *)
(* stores the memory and works off the rest of the plan, or is rolled back.   *)
(*                                                                            *)
(* AgentRuns has the rows of such a run and the requests that overlap with    *)
(* it; here one request is at work, and what the tasks do is looked at.       *)
EXTENDS Naturals, Sequences, FiniteSets, FiniteSetsExt

CONSTANTS
  Plans,         \* accepted plans, each a sequence of tasks
  Questions,     \* what a request may bring along
  Passages,      \* passages of documents, each with what it is
  MaxToolCalls,  \* agent_max_tool_calls
  MaxRetries,    \* agent_max_retries and maximum_retries of a task
  MaxResults,    \* max_prior_task_results
  MaxRefusals    \* bound on the answers to an approval that are rolled back

\* What the coordinator hands to the specialists: plans of any length, questions with passages,
\* and limits that are natural numbers (config.py).
ASSUME Configured ==
  /\ \A p \in Plans : Len(p) \in Nat /\ DOMAIN p = 1..Len(p)
  /\ \A q \in Questions : q.context \subseteq Passages
  /\ {MaxToolCalls, MaxRetries, MaxResults} \subseteq Nat

VARIABLES
  pc,        \* where the run is
  question,  \* the request, as the tasks see it
  plan,
  status,    \* of each task
  results,   \* results_by_seq
  cur,       \* the task at work
  attempt,   \* retries of it
  spent,     \* tool_calls_used of the budget
  executed,  \* tool calls really made
  uncounted, \* those of attempts and resumptions that were given up
  approval,  \* "none" or the status of the approval request
  stored,    \* memory writes of the run
  saved,     \* what an answer to the approval goes back to if it fails
  refusals,  \* why such answers failed, one after the other
  answer     \* what the answer of the run was written from

vars == <<pc, question, plan, status, results, cur, attempt, spent, executed, uncounted,
          approval, stored, saved, refusals, answer>>
turnVars == <<question, plan>>
approvalVars == <<approval, stored, saved, refusals>>
toolVars == <<spent, executed, uncounted>>

\* A request: what its message asks of memory, whether memory is on, the passages of the turn
\* that its context has room for, whether documents are selected, the tools its words suggest,
\* whether there is something to calculate, whether tasks that time out are tried again, and
\* whether it all fits: message, history, memories, documents and results in
\* agent_context_max_characters, and message and results in the 8000 characters of a prompt or
\* of an answer.
Question == [writes : BOOLEAN, memory : BOOLEAN, context : SUBSET Passages, documents : BOOLEAN,
             words : SUBSET {"calculator", "current_datetime"}, expression : BOOLEAN, retryTimeouts : BOOLEAN,
             fits : BOOLEAN]

NoQuestion == [writes |-> FALSE, memory |-> FALSE, context |-> {}, documents |-> FALSE,
               words |-> {}, expression |-> FALSE, retryTimeouts |-> FALSE,
               fits |-> TRUE]
\* Whether later tasks are given the result, and the facts in it.
Result(shown, facts) == [shown |-> shown, facts |-> facts]
Unanswered == [by |-> 0, blank |-> TRUE, from |-> {}, facts |-> {}]

Tasks == DOMAIN plan
Task == plan[cur]
Resumed == approval = "approved"
AtWork == pc = "working"
ToolAgentTools == {"calculator", "current_datetime", "conversation_summary"}

Init ==
  /\ pc = "idle" /\ question = NoQuestion /\ plan = <<>>
  /\ status = <<>> /\ results = <<>> /\ cur = 0 /\ attempt = 0
  /\ spent = 0 /\ executed = 0 /\ uncounted = 0
  /\ approval = "none" /\ stored = 0 /\ saved = <<>> /\ refusals = <<>> /\ answer = Unanswered

Begin(p, q) ==
  /\ pc = "idle"
  /\ pc' = "next" /\ plan' = p /\ question' = q /\ cur' = 1
  /\ status' = [t \in DOMAIN p |-> "pending"] /\ results' = [t \in DOMAIN p |-> Result(FALSE, {})]
  /\ UNCHANGED <<attempt, toolVars, approvalVars, answer>>

-----------------------------------------------------------------------------
(* The task loop                                                              *)

Ready == \A d \in Task.deps : status[d] = "succeeded"
Left == status[cur] = "pending"

Goto(t) == cur' = t /\ attempt' = 0 /\ pc' = "next"

\* A resumption passes over the tasks that have been worked off.
PassOver ==
  /\ pc = "next" /\ cur \in Tasks /\ ~Left
  /\ Goto(cur + 1)
  /\ UNCHANGED <<turnVars, status, results, toolVars, approvalVars, answer>>

Skip ==
  /\ pc = "next" /\ cur \in Tasks /\ Left /\ ~Ready
  /\ status' = [status EXCEPT ![cur] = "skipped"]
  /\ Goto(cur + 1)
  /\ UNCHANGED <<turnVars, results, toolVars, approvalVars, answer>>

Dispatch ==
  /\ pc = "next" /\ cur \in Tasks /\ Left /\ Ready
  /\ pc' = "working"
  /\ UNCHANGED <<turnVars, status, results, cur, attempt, toolVars, approvalVars, answer>>

Succeed(facts) ==
  /\ status' = [status EXCEPT ![cur] = "succeeded"]
  /\ results' = [results EXCEPT ![cur] = Result(TRUE, facts)]
  /\ Goto(cur + 1)

\* A failure the classifier takes for transient is tried again at once; the last one, or one
\* that is not, is the task's, and the run goes on. A resumption also shows failures.
Fail(retryable) ==
  IF retryable /\ attempt < MaxRetries
  THEN attempt' = attempt + 1 /\ UNCHANGED <<pc, status, results, cur>>
  ELSE /\ status' = [status EXCEPT ![cur] = "failed"]
       /\ results' = [results EXCEPT ![cur] = Result(Resumed, {})]
       /\ Goto(cur + 1)

Working(agent) == AtWork /\ Task.agent = agent

-----------------------------------------------------------------------------
(* specialists/knowledge.py                                                   *)

\* Mutant: what a passage says is taken for a fact whoever wrote it.
FactsOfAll(found) == found

\* Passages that read like instructions stay data.
Facts(found) == {p \in found : ~p.instructs}

\* After an approval neither the passages nor the selected documents are there any more.
FromContext ==
  /\ Working("knowledge")
  /\ ~Resumed /\ question.context # {}
  /\ Succeed(Facts(question.context))
  /\ UNCHANGED <<turnVars, toolVars, approvalVars, answer>>

NoContext ==
  /\ Working("knowledge")
  /\ Resumed \/ (question.context = {} /\ ~question.documents)
  /\ Succeed({})
  /\ UNCHANGED <<turnVars, toolVars, approvalVars, answer>>

Searches == Working("knowledge") /\ ~Resumed /\ question.context = {} /\ question.documents

FromSearch(passages) ==
  /\ Searches
  /\ Succeed(Facts(passages))
  /\ UNCHANGED <<turnVars, toolVars, approvalVars, answer>>

\* knowledge_retrieval_failed counts as transient whatever the error was.
SearchFails ==
  /\ Searches
  /\ Fail(TRUE)
  /\ UNCHANGED <<turnVars, toolVars, approvalVars, answer>>

-----------------------------------------------------------------------------
(* specialists/memory.py                                                      *)

MemoryOn == Resumed \/ question.memory

\* A write is never made here: it asks for approval, also as the outcome of a task that was
\* planned to read when the message itself is a request to remember or to forget.
WantsWrite ==
  Working("memory") /\ MemoryOn /\ (Task.type = "propose_write" \/ question.writes)

\* Also without looking, when memory is off for the conversation.
MemoryRead ==
  /\ Working("memory") /\ ~WantsWrite
  /\ Succeed({})
  /\ UNCHANGED <<turnVars, toolVars, approvalVars, answer>>

MemoryReadFails ==
  /\ Working("memory") /\ ~WantsWrite /\ MemoryOn
  /\ Fail(TRUE)
  /\ UNCHANGED <<turnVars, toolVars, approvalVars, answer>>

\* The run is committed and waits.
AskApproval ==
  /\ WantsWrite /\ ~Resumed
  /\ status' = [status EXCEPT ![cur] = "awaiting_approval"]
  /\ approval' = "pending"
  /\ saved' = [status |-> status', results |-> results, spent |-> spent, executed |-> executed,
               uncounted |-> uncounted]
  /\ pc' = "waiting" /\ cur' = 0 /\ attempt' = 0 /\ answer' = Unanswered
  /\ UNCHANGED <<turnVars, results, toolVars, stored, refusals>>

-----------------------------------------------------------------------------
(* specialists/tool_agent.py                                                  *)

Remaining == IF spent < MaxToolCalls THEN MaxToolCalls - spent ELSE 0

Allowed ==
  LET listed == Task.tools \cap ToolAgentTools
  IN IF listed # {} THEN listed ELSE question.words

\* The order of preference, cut to the calls that are left.
Preferred(t) == IF t \in Allowed THEN <<t>> ELSE <<>>

Selected ==
  LET wanted == Preferred("calculator") \o Preferred("current_datetime") \o Preferred("conversation_summary")
  IN SubSeq(wanted, 1, IF Len(wanted) < Remaining THEN Len(wanted) ELSE Remaining)

\* Without an expression the calculator is counted, but not called.
Calls(n) == Cardinality({i \in 1..n : Selected[i] # "calculator" \/ question.expression})

ToolsSucceed ==
  /\ Working("tool") /\ Selected # <<>>
  /\ Succeed({})
  /\ spent' = spent + Len(Selected)
  /\ executed' = executed + Calls(Len(Selected))
  /\ UNCHANGED <<turnVars, uncounted, approvalVars, answer>>

\* The n-th tool fails; a time-out of the tool itself counts as transient. The attempt that
\* follows executes the earlier ones again.
ToolFails(n, retryable) ==
  /\ Working("tool") /\ n \in DOMAIN Selected
  /\ Fail(retryable)
  /\ spent' = spent + n
  /\ executed' = executed + Calls(n)
  /\ UNCHANGED <<turnVars, uncounted, approvalVars, answer>>

\* tool_budget_exceeded, tool_not_allowed
NoTool ==
  /\ Working("tool") /\ Selected = <<>>
  /\ Fail(FALSE)
  /\ UNCHANGED <<turnVars, toolVars, approvalVars, answer>>

-----------------------------------------------------------------------------
(* specialists/conversation.py                                                *)

\* prior_task_results
InView == {t \in Tasks : results[t].shown}

\* enforce_budgets passes on the last results, and of these, oldest first, those there is room
\* for after the history, the memories and the documents.
Latest(shown) == {t \in shown : Cardinality({u \in shown : u > t}) < MaxResults}

\* The end of the text made of them is cut off too. Nothing after the task "last" gets through.
Material(shown, last) == {t \in Latest(shown) : t <= last}

Room(last) == question.fits => last = Len(plan)

Written(view, kind) ==
  [by |-> cur, blank |-> kind = "blank", from |-> view, facts |-> UNION {results[t].facts : t \in view}]

\* The model's answer, which may be blank, or after a time-out or an error of the provider
\* the summaries of the results.
Answers(kind, last) ==
  /\ Working("conversation") /\ Room(last)
  /\ answer' = IF kind = "blank" THEN answer ELSE Written(Material(InView, last), kind)
  /\ Succeed({})
  /\ UNCHANGED <<turnVars, toolVars, approvalVars>>

-----------------------------------------------------------------------------
(* Time-outs of the task, and the end of the run                              *)

\* The calls of an attempt that is cut off never reach the budget.
TimesOut(n) ==
  /\ AtWork /\ Task.agent # "conversation"
  /\ n = 0 \/ (Task.agent = "tool" /\ n \in DOMAIN Selected)
  /\ Fail(~Resumed /\ question.retryTimeouts)
  /\ executed' = executed + Calls(n) /\ uncounted' = uncounted + Calls(n)
  /\ UNCHANGED <<turnVars, spent, approvalVars, answer>>

\* No task has written an answer: the coordinator has one written from all results.
SynthesizeFallback(kind, last) ==
  /\ pc = "next" /\ cur \notin Tasks /\ ~Resumed /\ answer = Unanswered /\ Room(last)
  /\ answer' = Written(Material(Tasks, last), kind)
  /\ UNCHANGED <<pc, turnVars, status, results, cur, attempt, toolVars, approvalVars>>

Complete ==
  /\ pc = "next" /\ cur \notin Tasks
  /\ Resumed \/ answer # Unanswered
  /\ pc' = "completed"
  /\ UNCHANGED <<turnVars, status, results, cur, attempt, toolVars, approvalVars, answer>>

\* The run's time or one of its limits is exceeded (_fail_run).
FailRun ==
  /\ pc \in {"next", "working"} /\ ~Resumed
  /\ pc' = "failed"
  /\ UNCHANGED <<turnVars, status, results, cur, attempt, toolVars, approvalVars, answer>>

-----------------------------------------------------------------------------
(* The answer to an approval request                                          *)

\* Mutant: the resumption has a budget of its own.
FreshBudget == 0

SpentSoFar == saved.spent

\* The write is applied, its task has succeeded, and the rest of the plan is worked off from
\* what the rows say: the status and a summary of each task that is over.
Approve ==
  /\ pc = "waiting"
  /\ approval' = "approved" /\ stored' = stored + 1
  /\ status' = [t \in Tasks |-> IF status[t] = "awaiting_approval" THEN "succeeded" ELSE status[t]]
  /\ results' = [t \in Tasks |-> Result(status'[t] # "pending", {})]
  /\ spent' = SpentSoFar
  /\ Goto(1)
  /\ UNCHANGED <<turnVars, executed, uncounted, saved, refusals, answer>>

\* The memory service refuses the write: 409, and everything is as before.
ApplyFails ==
  /\ pc = "waiting" /\ Len(refusals) < MaxRefusals
  /\ refusals' = Append(refusals, "write")
  /\ UNCHANGED <<pc, turnVars, status, results, cur, attempt, toolVars, approval, stored, saved, answer>>

\* Mutant: the memory is committed before the run is resumed.
KeepsWrite == stored

RolledBackWrite == stored - 1

\* A second approval, or the end of the run's time or limits: the transaction that began with
\* the answer is rolled back and the run still waits (409 agent_approval_resume_failed).
RollBack(why) ==
  /\ Len(refusals) < MaxRefusals
  /\ refusals' = Append(refusals, why)
  /\ approval' = "pending" /\ stored' = RolledBackWrite
  /\ status' = saved.status /\ results' = saved.results /\ spent' = saved.spent
  /\ uncounted' = saved.uncounted + (executed - saved.executed)
  /\ pc' = "waiting" /\ cur' = 0 /\ attempt' = 0 /\ answer' = Unanswered
  /\ UNCHANGED <<turnVars, executed, saved>>

NestedApproval == WantsWrite /\ Resumed /\ RollBack("nested")

ResumptionFails == pc \in {"next", "working"} /\ Resumed /\ RollBack("cut")

Reject ==
  /\ pc = "waiting"
  /\ approval' = "rejected"
  /\ status' = [t \in Tasks |-> IF status[t] \in {"awaiting_approval", "pending"} THEN "skipped" ELSE status[t]]
  /\ pc' = "completed"
  /\ UNCHANGED <<turnVars, results, cur, attempt, toolVars, stored, saved, refusals, answer>>

Next ==
  \/ \E p \in Plans, q \in Questions : Begin(p, q)
  \/ PassOver \/ Skip \/ Dispatch
  \/ FromContext \/ NoContext \/ (\E S \in SUBSET Passages : FromSearch(S)) \/ SearchFails
  \/ MemoryRead \/ MemoryReadFails \/ AskApproval
  \/ ToolsSucceed \/ (\E n \in 1..3, r \in BOOLEAN : ToolFails(n, r)) \/ NoTool
  \/ (\E kind \in {"written", "summaries", "blank"}, last \in 0..Len(plan) : Answers(kind, last))
  \/ (\E n \in 0..3 : TimesOut(n))
  \/ (\E kind \in {"written", "summaries", "blank"}, last \in 0..Len(plan) : SynthesizeFallback(kind, last))
  \/ Complete \/ FailRun
  \/ Approve \/ ApplyFails \/ NestedApproval \/ ResumptionFails \/ Reject

Spec == Init /\ [][Next]_vars

-----------------------------------------------------------------------------
(* Properties                                                                 *)

TypeOK ==
  /\ pc \in {"idle", "next", "working", "waiting", "completed", "failed"}
  /\ question \in Questions \cup {NoQuestion} /\ plan \in Plans \cup {<<>>}
  /\ status \in [Tasks -> {"pending", "succeeded", "failed", "skipped", "awaiting_approval"}]
  /\ results \in [Tasks -> [shown : BOOLEAN, facts : SUBSET Passages]]
  /\ cur \in Nat /\ attempt \in 0..MaxRetries
  /\ approval \in {"none", "pending", "approved", "rejected"}
  /\ \A i \in DOMAIN refusals : refusals[i] \in {"write", "nested", "cut"}

\* The tasks that had succeeded when one of them wrote the answer; all if the coordinator wrote it.
Earlier == {t \in Tasks : t < answer.by /\ (status[t] = "succeeded" \/ answer.by > Len(plan))}

\* If all fits, all the latest of them; if not, the oldest of these, without a gap.
UsesFindingsOf(tasks) ==
  /\ question.fits => Latest(tasks) \subseteq answer.from
  /\ \A t \in answer.from :
        /\ t \in Latest(tasks) /\ results[t].facts \subseteq answer.facts
        /\ \A u \in Latest(tasks) : u < t => u \in answer.from

\* A run that completes without a pause has its answer written with the findings of the earlier
\* tasks that succeeded, after however many attempts: of the last MaxResults of them when request,
\* context and results fit, and of no other task unless the coordinator writes it itself. When
\* they do not fit, what is lost is the findings of the later tasks. Passages that read like
\* instructions are never among the facts an answer is written from.
AnswerUsesFindings ==
  /\ TypeOK
  /\ \A p \in answer.facts : ~p.instructs
  /\ pc = "completed" /\ approval = "none" => UsesFindingsOf(Earlier)

\* Nothing is stored without the user's approval, and once only, however often an answer is
\* rolled back and given again. Only a plan with a second task that asks can have a granted
\* approval rolled back for asking again.
WritesAwaitApproval ==
  /\ stored = IF approval = "approved" THEN 1 ELSE 0
  /\ (\E i \in DOMAIN refusals : refusals[i] = "nested") =>
       Cardinality({t \in Tasks : plan[t].agent = "memory"}) > 1

\* The tool calls a run makes stay within its limit over retries and a resumption. The budget
\* misses those of attempts that timed out and of resumptions that were rolled back, no others.
ToolCallsWithinBudget == executed - uncounted <= spent /\ spent <= MaxToolCalls

=============================================================================
