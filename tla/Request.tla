------------------------------- MODULE Request -------------------------------
(* A request of a user: a turn with tools (ToolTurn), the plan of a turn       *)
(* (Planning), the work on a plan (Specialists), the prompt of a turn and its  *)
(* citations (TurnContext), the index of an upload (Indexing).  Each part has  *)
(* parameters and a state of its own, and the modules abstract from the data   *)
(* they hand each other, so nothing is said here of how they follow each other. *)
EXTENDS Specialists

CONSTANTS Tools, Ghost, MaxIterations, MaxCalls, MaxChunks, Admins, Patches, MaxUpdates,
          None  \* of ToolTurn
CONSTANTS Messages, Offers, ModelPlans, MaxTasks, MaxDepth,
          MaxPlannedCalls,  \* MaxToolCalls of Planning
          MaxReplans, Updates
CONSTANTS Documents,
          Indexed,          \* Passages of TurnContext
          Near, Asks, Limits, TopK
CONSTANTS Uploads, Settings, MaxAttempts  \* of Indexing

VARIABLES
  planPc, planTurn, planDeferred, planTools, planDecision, planPlan, planAttempts, planRegistry,
  planUpdates, planChecked,
  turnPc, turnMode, turnSelected, turnIterations, turnAsked, turnQueue, turnWorking,
  turnRows, turnIds, turnLeft, turnShown, turnBroken, turnMessage, turnSaved, turnConfig,
  turnRegistry, turnAdmin, turnUpdates, turnOverlapped,
  ctxPc, ctxAsk, ctxLimits, ctxEligible, ctxFound, ctxPrompt, ctxCited, ctxMarkers,
  idxPc, idxFile, idxSettings, idxSegments, idxChunks, idxVectors, idxLegacy, idxIndex,
  idxAttempts

T == INSTANCE ToolTurn WITH pc <- turnPc, mode <- turnMode, selected <- turnSelected,
                            iterations <- turnIterations, asked <- turnAsked,
                            queue <- turnQueue, working <- turnWorking, rows <- turnRows,
                            ids <- turnIds, left <- turnLeft, shown <- turnShown,
                            broken <- turnBroken, message <- turnMessage, saved <- turnSaved,
                            config <- turnConfig, registry <- turnRegistry, admin <- turnAdmin,
                            updates <- turnUpdates, overlapped <- turnOverlapped

P == INSTANCE Planning WITH MaxToolCalls <- MaxPlannedCalls, pc <- planPc, turn <- planTurn,
                            deferred <- planDeferred, tools <- planTools,
                            decision <- planDecision, plan <- planPlan,
                            attempts <- planAttempts, registry <- planRegistry,
                            updates <- planUpdates, checked <- planChecked

C == INSTANCE TurnContext WITH Passages <- Indexed, pc <- ctxPc, ask <- ctxAsk, limits <- ctxLimits,
                               eligible <- ctxEligible, found <- ctxFound, prompt <- ctxPrompt,
                               cited <- ctxCited, markers <- ctxMarkers

I == INSTANCE Indexing WITH pc <- idxPc, file <- idxFile, settings <- idxSettings,
                            segments <- idxSegments, chunks <- idxChunks, vectors <- idxVectors,
                            legacy <- idxLegacy, index <- idxIndex, attempts <- idxAttempts

ASSUME ToolTurnConstants == T!ToolConstants
ASSUME PlanningConstants == P!PlannerConstants
ASSUME TurnContextConstants == C!ContextConstants
ASSUME IndexingConstants == I!IndexConstants

-----------------------------------------------------------------------------
(* The properties of the parts, under their names                             *)

\* The tool messages of a prompt answer the calls before them (ToolTurn).
CallsAnsweredInOrder == T!CallsAnsweredInOrder

\* What is stored of a turn is what its reader was shown (ToolTurn).
StoredIsShown == T!StoredIsShown

\* The registry of the process follows the configuration of the database (ToolTurn).
RegistryFollowsConfig == T!RegistryFollowsConfig

\* A write the memory preparation has left to the specialists is planned (Planning).
DeferredWriteIsProposed == P!DeferredWriteIsProposed

\* What is accepted was enabled and allowed when it was checked (Planning).
AcceptedAsConfigured == P!AcceptedAsConfigured

\* A plan by rule fails its validation only for one chain that is too long (Planning).
OnlyTheLongChainIsRejected == P!OnlyTheLongChainIsRejected

\* A citation number stands for the passage the model saw under it (TurnContext).
PromptMatchesCitations == C!PromptMatchesCitations

\* A document that is indexed is indexed whole, each chunk with its own vector (Indexing).
IndexCoversDocument == I!IndexCoversDocument
=============================================================================
