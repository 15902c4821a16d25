------------------------------ MODULE MCRequest -------------------------------
(* What a request has done for it, part by part, for TLC: a turn with tools,   *)
(* the plan of a turn, the work on a plan, the prompt of a turn, the index of  *)
(* an upload.  The parts hand each other data that the modules abstract from,  *)
(* so a behaviour is one of a single part.                                     *)
EXTENDS Request, SequencesExt

VARIABLE part

planVars == <<planPc, planTurn, planDeferred, planTools, planDecision, planPlan, planAttempts,
              planRegistry, planUpdates, planChecked>>
toolTurnVars == <<turnPc, turnMode, turnSelected, turnIterations, turnAsked, turnQueue,
                  turnWorking, turnRows, turnIds, turnLeft, turnShown, turnBroken,
                  turnMessage, turnSaved, turnConfig, turnRegistry, turnAdmin, turnUpdates,
                  turnOverlapped>>
ctxVars == <<ctxPc, ctxAsk, ctxLimits, ctxEligible, ctxFound, ctxPrompt, ctxCited, ctxMarkers>>
idxVars == <<idxPc, idxFile, idxSettings, idxSegments, idxChunks, idxVectors, idxLegacy, idxIndex,
             idxAttempts>>

-----------------------------------------------------------------------------
(* ToolTurn: a tool is switched off or made subject to confirmation, or reset,  *)
(* once during a turn, and by requests that overlap outside of one ("settings"). *)

MCPatches == {<<FALSE, None>>, <<None, TRUE>>}

-----------------------------------------------------------------------------
(* Planning: every one or two of these phrases, alone or after a start.        *)

MCPhrases ==
  {{"calc", "calcTerm"}, {"datetime", "dateTerm"}, {"knowledgeTerm"}, {"memoryList", "list"},
   {"savedPreferences", "readTerm"}, {"writeTerm", "connective"},
   {"inlineRemember", "connective"}, {"recommend", "recommendTerm"}, {"unusual"}}
MCStarts == {{}, {"remember"}, {"remember", "writeTerm"}}
\* A constant of its own, which TLC evaluates once.
AllMessages ==
  {UNION phrases \cup start : phrases \in UNION {kSubset(k, MCPhrases) : k \in 0..2}, start \in MCStarts}
    \cup {{"greeting"}, {"recap", "explain"}, {"zoneName", "dateWord", "contingency"}, {"unsafe", "knowledgeTerm", "calc", "calcTerm"}}
MCMessages == AllMessages
MCOffers == {{"calculator", "current_datetime", "knowledge_search", "memory_list"}, {"knowledge_search"}}

PlannedTask(seq, agent, type, deps, tools) ==
  [seq |-> seq, agent |-> agent, type |-> type, deps |-> deps, tools |-> tools, approval |-> FALSE]
Answer(seq, deps) == PlannedTask(seq, "conversation", "synthesize", deps, {})
ModelPlan(tasks) == [tasks |-> tasks, approval |-> FALSE, strategy |-> "llm"]
MCModelPlans ==
  {ModelPlan(<<PlannedTask(1, "knowledge", "retrieve", {}, {}), Answer(2, {1})>>),
   ModelPlan(<<PlannedTask(1, "knowledge", "retrieve", {2}, {}), Answer(2, {1})>>),
   ModelPlan(<<PlannedTask(1, "tool", "compute", {}, {"knowledge_search"})>>),
   ModelPlan(<<PlannedTask(1, "tool", "compute", {}, {"calculator"}), Answer(3, {1})>>)}

-----------------------------------------------------------------------------
(* Specialists: plans by rule, the templates' and the model's kind.            *)

Step(agent, type, deps, tools) == [agent |-> agent, type |-> type, deps |-> deps, tools |-> tools]
MCPlans ==
  {<<Step("knowledge", "retrieve", {}, {}), Step("tool", "compute", {1}, {"calculator", "current_datetime"}),
     Step("memory", "propose_write", {}, {}), Step("conversation", "final_response", {1, 2}, {})>>,
   <<Step("knowledge", "retrieve", {}, {}), Step("tool", "compute", {}, {"calculator"}),
     Step("conversation", "synthesize", {2}, {})>>,
   <<Step("memory", "retrieve_memories", {}, {}), Step("tool", "compute", {}, {}),
     Step("memory", "propose_write", {1}, {}), Step("tool", "compute", {}, {"conversation_summary"})>>}
MCFound == {[name |-> "plain", instructs |-> FALSE], [name |-> "odd", instructs |-> TRUE]}
MCQuestions ==
  [writes : BOOLEAN, memory : BOOLEAN, context : {{}, MCFound}, documents : BOOLEAN,
   words : {{}, {"calculator", "current_datetime"}}, expression : BOOLEAN, retryTimeouts : BOOLEAN, fits : BOOLEAN]

-----------------------------------------------------------------------------
(* TurnContext: a unit is some 4000 characters (messages of 8000, passages of   *)
(* 12000, a prompt of 24000), and a setting with less room for the prompt.      *)

MCDocuments == {"d1", "d2"}
MCNear == {{"t1", "t2"}}
MCPassages ==
  {[doc |-> "d1", text |-> "t1", size |-> 1], [doc |-> "d1", text |-> "t2", size |-> 1],
   [doc |-> "d2", text |-> "t3", size |-> 2]}
MCAsks ==
  [kind : {"chat"}, scope : {"all", "none"}, docs : {{}}, current : {1, 2}, history : SeqOf({1, 2}, 3),
   summary : {0, 1}, memories : {<<>>, <<1>>, <<2, 1>>}]
    \cup [kind : {"rag", "chat"}, scope : {"some", "all"}, docs : {{"d1"}}, current : {1},
          history : {<<>>}, summary : {0}, memories : {<<>>}]
MCLimits == {[messages |-> 2, history |-> 3, context |-> c, rag |-> 3, memory |-> 1] : c \in {3, 6}}

-----------------------------------------------------------------------------
(* Indexing: up to three blocks, shorter and longer than a chunk, every fifth   *)
(* character a blank; and files that are not what they say.                     *)

BlockLengths == {1, 2, 4, 9}
Block(lengths, i) ==
  LET before == FoldLeft(LAMBDA sum, n : sum + n, 0, SubSeq(lengths, 1, i - 1))
  IN [k \in 1..lengths[i] |-> IF (before + k) % 5 = 3 THEN 0 ELSE before + k]
MCBlocks == {[i \in DOMAIN lengths |-> Block(lengths, i)] : lengths \in SeqOf(BlockLengths, 3)}
File(extension, declared, holds, blocks) ==
  [extension |-> extension, declared |-> declared, holds |-> holds, blocks |-> blocks]
MCUploads ==
  {File("txt", "text/plain", "text", b) : b \in MCBlocks} \cup {File("docx", "", "docx", b) : b \in MCBlocks}
    \cup {File("pdf", "application/octet-stream", "pdf", <<<<0, 1, 2>>, <<3, 4, 5, 6>>>>),
          File("md", "text/plain", "latin", <<>>), File("docx", "application/zip", "archive", <<>>),
          File("pdf", "text/plain", "pdf", <<>>), File("txt", "", "binary", <<>>), File("exe", "", "binary", <<>>)}
Setting(size, overlap, min, max, input) ==
  [size |-> size, overlap |-> overlap, min |-> min, chunks |-> max, text |-> 20, batch |-> 2, input |-> input]
MCSettings == {Setting(5, 3, 3, 5, 8), Setting(4, 2, 2, 9, 5), Setting(3, 0, 1, 9, 8)}

-----------------------------------------------------------------------------
MCInit ==
  /\ part \in {"tools", "settings", "planning", "specialists", "context", "indexing"}
  /\ Init /\ P!Init /\ T!Init /\ C!Init /\ I!Init

MCNext ==
  /\ UNCHANGED part
  /\ \/ part = "tools" /\ T!Next /\ turnUpdates' <= 1 /\ UNCHANGED <<vars, planVars, ctxVars, idxVars>>
     \/ part = "settings" /\ T!Administration /\ UNCHANGED <<vars, planVars, ctxVars, idxVars>>
     \/ part = "planning" /\ P!Next /\ UNCHANGED <<vars, toolTurnVars, ctxVars, idxVars>>
     \/ part = "specialists" /\ Next /\ UNCHANGED <<toolTurnVars, planVars, ctxVars, idxVars>>
     \/ part = "context" /\ C!Next /\ UNCHANGED <<vars, toolTurnVars, planVars, idxVars>>
     \/ part = "indexing" /\ I!Next /\ UNCHANGED <<vars, toolTurnVars, planVars, ctxVars>>

MCSpec == MCInit /\ [][MCNext]_<<part, vars, toolTurnVars, planVars, ctxVars, idxVars>>

=============================================================================
