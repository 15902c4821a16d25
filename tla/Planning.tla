------------------------------ MODULE Planning ------------------------------
(* From a question to a plan: the classifier (agents/classifier.py) and the   *)
(* tool policy (agents/tool_selection.py) as services/chat.py calls them, the *)
(* planners (agents/deterministic_planner.py, agents/specialists/planning.py),*)
(* the registry's validation (agents/registry.py) and the safety review       *)
(* (agents/specialists/safety.py), beside administrators who switch agents    *)
(* off or take tools from them while the model is awaited.                    *)
(*                                                                            *)
(* A message is the set of the patterns and terms that match it.              *)
EXTENDS Naturals, Sequences, FiniteSets, FiniteSetsExt, Functions

CONSTANTS
  Messages,      \* sets of features, each a message a user can write
  Offers,        \* sets of tool names enabled for the user
  ModelPlans,    \* plans the model behind the planner may return
  MaxTasks,      \* agent_max_tasks, fast mode included
  MaxDepth,      \* agent_max_depth
  MaxToolCalls,  \* agent_max_tool_calls
  MaxReplans,    \* agent_max_replans
  Updates        \* bound on administrative updates

VARIABLES
  pc,        \* where the turn is, at last how it ended
  turn,      \* what the user sent, and the settings that apply
  deferred,  \* defer_persistent_writes of the memory preparation
  tools,     \* selected_tool_names
  decision,  \* AgentComplexityDecision
  plan,      \* AgentPlan
  attempts,  \* replans so far
  registry,  \* overrides of the agent registry
  updates,   \* how many there have been
  checked    \* the overrides the safety review has looked at

vars == <<pc, turn, deferred, tools, decision, plan, attempts, registry, updates, checked>>

Agents == {"planning", "conversation", "knowledge", "memory", "tool", "safety", "coordinator"}
Required == {"coordinator", "safety"}
ClassTools == [a \in Agents |->
  CASE a = "knowledge" -> {"knowledge_search"}
    [] a = "memory"    -> {"memory_list", "memory_search"}
    [] a = "tool"      -> {"calculator", "current_datetime", "conversation_summary"}
    [] OTHER           -> {}]
KnownTools == UNION {ClassTools[a] : a \in Agents}

\* docs: "none" is an empty list of documents (general chat), "all" is no list.
Turn == [says : Messages, docs : {"none", "all", "some"}, found : BOOLEAN,
         memoryFlag : BOOLEAN, memory : BOOLEAN, offered : Offers, forced : BOOLEAN]
NoTurn == [says |-> {}, docs |-> "none", found |-> FALSE, memoryFlag |-> FALSE, memory |-> FALSE,
           offered |-> {}, forced |-> FALSE]
NoDecision == [mode |-> "none", codes |-> {}, suggests |-> {}, planning |-> FALSE,
               approval |-> FALSE]
Task(seq, agent, type, deps, allowed, approval) ==
  [seq |-> seq, agent |-> agent, type |-> type, deps |-> deps, tools |-> allowed, approval |-> approval]
NoPlan == [tasks |-> <<>>, approval |-> FALSE, strategy |-> "none"]

\* What the constants may be; Request assumes it of its instance.
PlannerConstants ==
  /\ MaxReplans \in Nat
  /\ \A p \in ModelPlans : DOMAIN p = DOMAIN NoPlan

-----------------------------------------------------------------------------
(* The tool policy *)

Matches(says, features) == says \cap features # {}

AsksTime(says) == Matches(says, {"datetime"}) \/ {"zoneName", "dateWord"} \subseteq says

ToolWanted(t, says, memory) ==
  CASE t = "calculator"           -> Matches(says, {"calc"})
    [] t = "current_datetime"     -> AsksTime(says)
    [] t = "knowledge_search"     -> turn.found /\ (turn.docs # "none" \/ Matches(says, {"searchDocuments"}))
    [] t = "memory_list"          -> memory /\ Matches(says, {"memoryList"})
    [] t = "memory_search"        -> memory /\ Matches(says, {"memorySearch"})
    [] t = "conversation_summary" -> Matches(says, {"recap"})

SelectedTools == {t \in turn.offered \cap KnownTools : ToolWanted(t, turn.says, turn.memory)}

-----------------------------------------------------------------------------
(* The classifier *)

\* The patterns are anchored at the start of the message: at most one matches.
MemoryIntent(says) ==
  LET kinds == says \cap {"remember", "forget", "update", "list"}
  IN IF kinds = {} THEN "none" ELSE CHOOSE k \in kinds : TRUE

WriteIntent(says) == MemoryIntent(says) \in {"remember", "forget", "update"}

\* What the message needs, from its text and from the tools already selected.
Needs(memory, intent) ==
  LET says == turn.says IN
  {n \in {"calc", "datetime", "knowledge", "read", "write", "recommend", "conversation", "summary"} :
     CASE n = "calc"      -> Matches(says, {"calc"}) \/ "calculator" \in intent
       [] n = "datetime"  -> AsksTime(says) \/ "current_datetime" \in intent
       [] n = "knowledge" -> \/ turn.docs # "none" \/ Matches(says, {"searchDocuments"})
                             \/ "knowledge_search" \in intent
       [] n = "read"      -> \/ memory /\ Matches(says, {"memoryList", "memorySearch", "savedPreferences", "list"})
                             \/ intent \cap {"memory_list", "memory_search"} # {}
       [] n = "write"     -> memory /\ (WriteIntent(says) \/ Matches(says, {"inlineRemember"}))
       [] n = "recommend" -> Matches(says, {"recommend"})
       [] n = "conversation" -> Matches(says, {"rewrite", "explain", "summarize"})
       [] n = "summary"   -> "conversation_summary" \in intent}

Has(needs, some) == needs \cap some # {}
UsesTool(needs) == Has(needs, {"calc", "datetime"})
UsesMemory(needs) == Has(needs, {"read", "write"})

Specialists(needs) ==
  {a \in {"knowledge", "tool", "memory"} :
     CASE a = "knowledge" -> Has(needs, {"knowledge"})
       [] a = "tool"      -> Has(needs, {"calc", "datetime", "summary"})
       [] a = "memory"    -> UsesMemory(needs)}

\* Without a specialist, or for a request to write or explain, the conversation answers.
Suggested(needs) ==
  Specialists(needs) \cup
    (IF Specialists(needs) = {} \/ Has(needs, {"recommend", "conversation"}) THEN {"conversation"} ELSE {})

CapabilityCodes(needs) ==
  {c \in {"capability_knowledge", "capability_calculator", "capability_datetime",
          "capability_memory_write", "capability_memory_read"} :
     CASE c = "capability_knowledge"    -> "knowledge" \in needs
       [] c = "capability_calculator"   -> "calc" \in needs
       [] c = "capability_datetime"     -> "datetime" \in needs
       [] c = "capability_memory_write" -> "write" \in needs
       [] c = "capability_memory_read"  -> "read" \in needs /\ "write" \notin needs}

\* Each raises multi_signals by one.
ComboCodes(needs) ==
  {c \in {"combo_knowledge_tool", "combo_knowledge_memory", "combo_memory_tool",
          "combo_knowledge_recommend", "combo_memory_knowledge_synthesis",
          "combo_document_calc_recommend", "multi_dependent_operations"} :
     CASE c = "combo_knowledge_tool"      -> "knowledge" \in needs /\ UsesTool(needs)
       [] c = "combo_knowledge_memory"    -> "knowledge" \in needs /\ UsesMemory(needs)
       [] c = "combo_memory_tool"         -> UsesMemory(needs) /\ UsesTool(needs)
       [] c = "combo_knowledge_recommend" -> {"knowledge", "recommend"} \subseteq needs
       [] c = "combo_memory_knowledge_synthesis" -> {"write", "knowledge", "recommend"} \subseteq needs
       [] c = "combo_document_calc_recommend" -> "knowledge" \in needs /\ Matches(turn.says, {"contingency"})
       [] c = "multi_dependent_operations" -> Matches(turn.says, {"connective"}) /\ Cardinality(Specialists(needs)) >= 2}

Single(codes, suggests, approval) ==
  [mode |-> "single_agent", codes |-> codes, suggests |-> suggests, planning |-> FALSE, approval |-> approval]

\* The first of the simple cases that applies names the specialist beside the conversation.
SimpleDecision(needs, codes) ==
  LET without(some) == ~Has(needs, some) IN
  IF "write" \in needs /\ without({"knowledge", "calc"})
  THEN Single(codes \cup {"simple_memory_write"}, {"conversation"}, TRUE)
  ELSE IF "calc" \in needs /\ without({"knowledge", "read", "recommend"})
  THEN Single(codes \cup {"simple_calculator"}, {"conversation", "tool"}, FALSE)
  ELSE IF "datetime" \in needs /\ without({"knowledge", "calc", "recommend"})
  THEN Single(codes \cup {"simple_datetime"}, {"conversation", "tool"}, FALSE)
  ELSE IF "knowledge" \in needs /\ without({"calc", "write", "recommend"})
  THEN Single(codes \cup {"simple_document_lookup"}, {"conversation", "knowledge"}, FALSE)
  ELSE IF "read" \in needs /\ without({"knowledge", "calc"})
  THEN Single(codes \cup {"simple_memory_lookup"}, {"conversation", "memory"}, FALSE)
  ELSE Single(codes, IF "conversation" \in needs THEN {"conversation"} ELSE Suggested(needs), FALSE)

ClassifyDeterministic(memory, intent) ==
  IF turn.says = {} \/ "greeting" \in turn.says THEN Single({}, {"conversation"}, FALSE)
  ELSE LET needs == Needs(memory, intent)
           combos == ComboCodes(needs)
           codes == CapabilityCodes(needs) \cup combos
           agents == Specialists(needs)
       IN IF combos = {} /\ Cardinality(agents) <= 1 THEN SimpleDecision(needs, codes)
          ELSE IF combos # {} /\ Cardinality(agents) >= 2
          THEN [mode |-> "multi_agent", codes |-> codes \cup {"multi_agent_required"},
                suggests |-> agents \cup {"conversation"}, planning |-> TRUE,
                approval |-> "write" \in needs]
          ELSE [mode |-> "single_agent", codes |-> codes \cup {"ambiguous"},
                suggests |-> Suggested(needs), planning |-> FALSE,
                approval |-> "write" \in needs]

\* The model may choose either mode and name any reasons, fail, or answer nonsense.
ModelDecisions(base) ==
  LET assisted(mode, codes) ==
        [base EXCEPT !.mode = mode, !.codes = codes \cup {"model_assisted"},
                     !.planning = (mode = "multi_agent"),
                     !.suggests = IF mode = "multi_agent" THEN @ \cup {"conversation"} ELSE @]
      fallback == [base EXCEPT !.mode = "single_agent", !.suggests = {"conversation"},
                               !.planning = FALSE, !.approval = FALSE]
  IN {fallback} \cup {assisted(mode, codes) : mode \in {"single_agent", "multi_agent"},
                                              codes \in {base.codes, {"reasons_of_the_model"}}}

Decisions(memory, intent) ==
  LET base == ClassifyDeterministic(memory, intent)
  IN IF "ambiguous" \in base.codes THEN ModelDecisions(base) ELSE {base}

ForcedDecision ==
  [mode |-> "multi_agent", codes |-> {"user_forced_multi_agent"},
   suggests |-> {"planning", "knowledge", "conversation"}, planning |-> TRUE,
   approval |-> FALSE]

ShouldUseMultiAgent(d) == d.mode = "multi_agent" /\ d.planning

-----------------------------------------------------------------------------
(* The planners *)

About(word) ==
  CASE word = "knowledge" -> {"capability_knowledge", "combo_knowledge_tool", "combo_knowledge_memory",
                              "combo_knowledge_recommend", "combo_memory_knowledge_synthesis",
                              "combo_document_calc_recommend"}
    [] word = "tool"      -> {"capability_calculator", "capability_datetime", "combo_knowledge_tool",
                              "combo_memory_tool", "combo_document_calc_recommend"}
    [] word = "memory"    -> {"capability_memory_read", "capability_memory_write", "combo_knowledge_memory",
                              "combo_memory_tool", "combo_memory_knowledge_synthesis"}

Hinted(word) == word \in decision.suggests \/ decision.codes \cap About(word) # {}

KnowledgeSignal == Hinted("knowledge") \/ turn.docs = "some" \/ Matches(turn.says, {"knowledgeTerm"})

\* Mutant: only the terms for a saved preference make the planner read memories.
ReadTermsOnly == turn.memory /\ Matches(turn.says, {"readTerm"})

ReadSignal == turn.memory /\ (Hinted("memory") \/ Matches(turn.says, {"readTerm"}))

Signals ==
  {s \in {"knowledge", "tool", "read", "write", "recommendation"} :
     CASE s = "knowledge" -> KnowledgeSignal
       [] s = "tool"      -> Hinted("tool") \/ Matches(turn.says, {"calcTerm", "dateTerm"})
       [] s = "read"      -> ReadSignal
       [] s = "write"     -> turn.memory /\ Matches(turn.says, {"writeTerm"})
       [] s = "recommendation" -> Matches(turn.says, {"recommendTerm"})}

PlannedTools ==
  {t \in tools : \/ t = "calculator" /\ Matches(turn.says, {"calcTerm"})
                 \/ t = "current_datetime" /\ Matches(turn.says, {"dateTerm"})}

\* Writes and the answer wait for everything, tools for the documents.
Dependencies(step, i, steps) ==
  CASE step \in {"write", "answer"} -> 1..(i - 1)
    [] step = "tool" -> {j \in DOMAIN steps : steps[j] = "knowledge"}
    [] OTHER -> {}

PlannedTask(step, i, steps) ==
  LET deps == Dependencies(step, i, steps) IN
  CASE step = "read"      -> Task(i, "memory", "retrieve_memories", deps, {}, FALSE)
    [] step = "knowledge" -> Task(i, "knowledge", "retrieve", deps, {}, FALSE)
    [] step = "tool"      -> Task(i, "tool", "compute", deps, PlannedTools, FALSE)
    [] step = "write"     -> Task(i, "memory", "propose_write", deps, {}, TRUE)
    [] step = "answer"    -> Task(i, "conversation", "synthesize", deps, {}, FALSE)

\* Mutant: the write is planned whatever there is room for, and displaces nothing.
RoomToWrite(reads) == TRUE

\* A write is planned only while it leaves room for the answer in four tasks.
Writes(reads) == Len(reads) <= 2

DeterministicPlan ==
  LET signals == Signals
      wanted == {s \in signals : s # "tool" \/ PlannedTools # {}}
      only(s) == IF s \in wanted THEN <<s>> ELSE <<>>
      reads == only("read") \o only("knowledge") \o only("tool")
      writes == "write" \in signals /\ Writes(reads)
      steps == reads \o (IF writes THEN <<"write">> ELSE <<>>) \o <<"answer">>
  IN IF signals = {} \/ Len(steps) > 4 THEN NoPlan
     ELSE [tasks |-> [i \in DOMAIN steps |-> PlannedTask(steps[i], i, steps)],
           approval |-> writes, strategy |-> "deterministic"]

\* The plans for the reason codes of earlier classifiers.
TemplateSteps ==
  LET knowledge == "knowledge" \in decision.suggests \/ turn.docs = "some"
      tool == "tool" \in decision.suggests
              \/ decision.codes \cap {"capability_calculator", "capability_datetime", "combo_knowledge_tool",
                                      "combo_document_calc_recommend"} # {}
      memory == "memory" \in decision.suggests \/ decision.codes \cap About("memory") # {}
      write == decision.approval \/ "capability_memory_write" \in decision.codes
  IN IF ~knowledge THEN <<>>
     ELSE CASE tool /\ ~(memory /\ write) -> <<"knowledge", "tool", "answer">>
       [] memory /\ ~tool -> IF write THEN <<"read", "knowledge", "write", "answer">>
                                      ELSE <<"read", "knowledge", "answer">>
       [] tool /\ memory /\ write -> <<"read", "knowledge", "tool", "write", "answer">>
       [] OTHER -> IF "combo_knowledge_recommend" \in decision.codes THEN <<"knowledge", "answer">> ELSE <<>>

TemplateTools(steps) ==
  LET offered == tools \cap {"calculator", "current_datetime"}
  IN IF offered = {} /\ "write" \in Range(steps) THEN {"calculator"} ELSE offered

TemplatePlan ==
  LET steps == TemplateSteps
  IN IF steps = <<>> THEN NoPlan
     ELSE [tasks |-> [i \in DOMAIN steps |->
             LET task == PlannedTask(steps[i], i, steps)
             IN IF steps[i] = "tool" THEN [task EXCEPT !.tools = TemplateTools(steps)] ELSE task],
           approval |-> "write" \in Range(steps), strategy |-> "deterministic"]

FallbackPlan ==
  [tasks |-> <<Task(1, "conversation", "respond", {}, {}, FALSE)>>, approval |-> decision.approval,
   strategy |-> "fallback"]

-----------------------------------------------------------------------------
(* The registry *)

EnabledAgents == Agents \ registry.off
EffectiveTools(a) == ClassTools[a] \cap registry.tools[a]

Tasks(p) == Range(p.tasks)

\* depth_by_seq: tasks in order of sequence, a task one below the deepest it depends on.
DepthBySequence(p) ==
  LET depth[s \in 1..64] ==
        LET above == UNION {t.deps : t \in {u \in Tasks(p) : u.seq = s}}
        IN IF above = {} THEN 0 ELSE 1 + Max({depth[d] : d \in above})
  IN depth

TaskIsValid(t, p) ==
  /\ t.agent \in EnabledAgents
  /\ \A d \in t.deps : d < t.seq /\ d \in {u.seq : u \in Tasks(p)}
  /\ t.tools \subseteq EffectiveTools(t.agent) \cap tools

ValidatePlan(p) ==
  /\ p.tasks # <<>>
  /\ Len(p.tasks) <= MaxTasks
  /\ Cardinality({t.seq : t \in Tasks(p)}) = Len(p.tasks)
  /\ \A t \in Tasks(p) : TaskIsValid(t, p)
  /\ \A t \in Tasks(p) : DepthBySequence(p)[t.seq] <= MaxDepth
  /\ Cardinality(UNION {{t.seq} \X t.tools : t \in Tasks(p)}) <= MaxToolCalls
  /\ "conversation" \in EnabledAgents

-----------------------------------------------------------------------------
(* The turn *)

Init ==
  /\ pc = "idle" /\ turn = NoTurn /\ deferred = FALSE /\ tools = {}
  /\ decision = NoDecision /\ plan = NoPlan /\ attempts = 0
  /\ registry = [off |-> {}, tools |-> ClassTools] /\ updates = 0 /\ checked = registry

\* A streamed message. Memory can only be in use when the conversation does not switch it off.
Ask ==
  /\ pc = "idle"
  /\ \E t \in Turn :
       /\ t.docs = "none" => ~t.found
       /\ t.memory => t.memoryFlag
       /\ turn' = t
  /\ pc' = "asked"
  /\ UNCHANGED <<deferred, tools, decision, plan, attempts, registry, updates, checked>>

\* The first classification decides who writes memories, and goes by the flag of the conversation.
ClassifyEarly ==
  /\ pc = "asked"
  /\ \E d \in IF turn.forced THEN {ForcedDecision} ELSE Decisions(turn.memoryFlag, {}) :
       /\ decision' = d
       /\ deferred' = ShouldUseMultiAgent(d)
  /\ pc' = "prepared"
  /\ UNCHANGED <<turn, tools, plan, attempts, registry, updates, checked>>

\* Memory commands that are carried out before the model is asked. With memory off for the user
\* they are too, unless the deployment has none.
Commands == MemoryIntent(turn.says) = "list" \/ (~deferred /\ WriteIntent(turn.says))

FoundNothing == turn.docs # "none" /\ ~turn.found

\* The turn ends with the reply to a command, or with the standing answer to a question for
\* documents when none was found; what had been left to the specialists is not done then.
AnswerAtOnce ==
  /\ pc = "prepared"
  /\ Commands \/ FoundNothing
  /\ pc' = "answered"
  /\ UNCHANGED <<turn, deferred, tools, decision, plan, attempts, registry, updates, checked>>

\* The coordinator classifies again, by the memory setting in force and with the tools selected.
\* What it does not want any more was begun as a run and has failed.
ClassifyAgain ==
  /\ pc = "prepared"
  /\ ~(turn.memory /\ Commands) /\ ~FoundNothing
  /\ tools' = SelectedTools
  /\ IF deferred
     THEN \E d \in IF turn.forced THEN {ForcedDecision} ELSE Decisions(turn.memory, tools') :
            /\ decision' = d
            /\ pc' = IF ShouldUseMultiAgent(d) THEN "plan" ELSE "failed"
     ELSE pc' = "chat" /\ UNCHANGED decision
  /\ UNCHANGED <<turn, deferred, plan, attempts, registry, updates, checked>>

\* A plan by rule that does not pass the validation fails the run.
PlanByRule ==
  /\ pc = "plan"
  /\ LET ruled == IF DeterministicPlan # NoPlan THEN DeterministicPlan ELSE TemplatePlan IN
     IF ruled = NoPlan
     THEN pc' = "model" /\ UNCHANGED plan
     ELSE plan' = ruled /\ pc' = IF ValidatePlan(ruled) THEN "review" ELSE "rejected"
  /\ UNCHANGED <<turn, deferred, tools, decision, attempts, registry, updates, checked>>

\* The model is asked again after a plan that is malformed or not valid; the last resort is
\* a plan of one answer, refused only when the conversation agent is switched off.
PlanByModel ==
  /\ pc = "model"
  /\ \E p \in ModelPlans \cup {NoPlan} :
       IF p # NoPlan /\ ValidatePlan(p)
       THEN plan' = p /\ pc' = "review" /\ UNCHANGED attempts
       ELSE IF attempts < MaxReplans
       THEN attempts' = attempts + 1 /\ UNCHANGED <<plan, pc>>
       ELSE /\ plan' = FallbackPlan
            /\ pc' = IF ValidatePlan(FallbackPlan) THEN "review" ELSE "rejected"
            /\ UNCHANGED attempts
  /\ UNCHANGED <<turn, deferred, tools, decision, registry, updates, checked>>

\* The provider fails or does not answer in time: so does the run.
PlannerFails ==
  /\ pc = "model"
  /\ pc' = "rejected"
  /\ UNCHANGED <<turn, deferred, tools, decision, plan, attempts, registry, updates, checked>>

\* Mutant: the review trusts the validation that came before it.
ReviewTrusting == TRUE

ReviewPasses ==
  /\ \A t \in Tasks(plan) : t.agent \in EnabledAgents /\ t.tools \subseteq EffectiveTools(t.agent) \cap tools
  /\ Len(plan.tasks) <= MaxTasks

Accept(approval) ==
  /\ pc' = "accepted"
  /\ plan' = [plan EXCEPT !.approval = @ \/ approval \/ \E t \in Tasks(plan) : t.approval]

\* The checks; a request that looks unusual is put to the model as well.
Review ==
  /\ pc = "review"
  /\ checked' = registry
  /\ IF Matches(turn.says, {"unsafe"}) \/ ~ReviewPasses THEN pc' = "rejected" /\ UNCHANGED plan
     ELSE IF Matches(turn.says, {"unusual"}) THEN pc' = "asking" /\ UNCHANGED plan
     ELSE Accept(FALSE)
  /\ UNCHANGED <<turn, deferred, tools, decision, attempts, registry, updates>>

\* The model allows the plan, asks for an approval or blocks it, as its failure does; what
\* was checked before it was asked is not checked again.
ModelReview ==
  /\ pc = "asking"
  /\ \/ \E approval \in BOOLEAN : Accept(approval)
     \/ pc' = "rejected" /\ UNCHANGED plan
  /\ UNCHANGED <<turn, deferred, tools, decision, attempts, registry, updates, checked>>

\* PATCH /admin/agents: coordinator and safety stay enabled, tools are only ever taken away.
UpdateAgent(a, on, allowed) ==
  /\ updates < Updates
  /\ a \in Required => on
  /\ allowed \subseteq ClassTools[a]
  /\ registry' = [registry EXCEPT !.off = IF on THEN @ \ {a} ELSE @ \cup {a}, !.tools[a] = allowed]
  /\ updates' = updates + 1
  /\ UNCHANGED <<pc, turn, deferred, tools, decision, plan, attempts, checked>>

Next ==
  \/ Ask
  \/ ClassifyEarly
  \/ AnswerAtOnce
  \/ ClassifyAgain
  \/ PlanByRule
  \/ PlanByModel
  \/ PlannerFails
  \/ Review
  \/ ModelReview
  \/ \E a \in {"conversation", "tool", "safety"}, on \in BOOLEAN, allowed \in {{}, ClassTools["tool"]} :
       UpdateAgent(a, on, allowed)

Spec == Init /\ [][Next]_vars

-----------------------------------------------------------------------------
(* Properties *)

\* Values stay in their sets, and a turn is as far as its state says.
TypeOK ==
  /\ pc \in {"idle", "asked", "prepared", "plan", "model", "review", "asking", "accepted", "rejected", "chat",
            "answered", "failed"}
  /\ turn \in Turn \cup {NoTurn}
  /\ tools \subseteq turn.offered \cap KnownTools
  /\ attempts \in 0..MaxReplans
  /\ registry.off \subseteq Agents \ Required
  /\ \A a \in Agents : registry.tools[a] \subseteq ClassTools[a]
  /\ pc \in {"review", "asking", "accepted"} => plan.tasks # <<>>
  /\ pc \in {"plan", "model", "review", "asking", "accepted", "rejected"} => deferred /\ ShouldUseMultiAgent(decision)

\* A message that asks to remember, forget or change something, and whose write the memory
\* preparation left to the specialists because a first classification said so, is planned by
\* the second one with a task for the memory agent, which turns it into a proposal. The turn
\* ends without a plan only when documents were searched and nothing was found; then the write
\* is lost.
DeferredWriteIsProposed ==
  /\ TypeOK
  /\ deferred /\ ~turn.forced /\ turn.memory /\ WriteIntent(turn.says) =>
       /\ pc \notin {"chat", "model", "failed"}
       /\ pc = "answered" => FoundNothing
       /\ pc = "accepted" => \E t \in Tasks(plan) : t.agent = "memory"

Allows(r, t) == t.agent \notin r.off /\ t.tools \subseteq ClassTools[t.agent] \cap r.tools[t.agent] \cap tools

AcceptsWhatIsAllowed ==
  pc # "accepted" /\ pc' = "accepted" =>
    \A t \in Tasks(plan') :
      Allows(checked', t) /\ (Matches(turn.says, {"unusual"}) \/ Allows(registry, t))

\* What was validated may have been switched off since. Every agent of a plan that is accepted is
\* enabled and every tool allowed to its agent and the turn: when the review checks them, and,
\* unless the request looks unusual and the safety model is awaited after the checks, still
\* at the moment of the acceptance.
AcceptedAsConfigured == [][AcceptsWhatIsAllowed]_vars

\* With nothing switched off and no objection to the request, a plan by rule fails on one thing
\* only: documents, a tool that waits for them, a write that waits for both, and the answer.
OnlyTheLongChainIsRejected ==
  pc = "rejected" /\ plan.strategy = "deterministic" /\ updates = 0 /\ ~Matches(turn.says, {"unsafe", "unusual"}) =>
    [i \in DOMAIN plan.tasks |-> plan.tasks[i].agent] = <<"knowledge", "tool", "memory", "conversation">>
=============================================================================
