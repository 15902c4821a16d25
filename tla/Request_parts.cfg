\* One tool, two rounds of at most two calls, two administrators; messages of two phrases; one
\* retry of a task and one rolled-back approval; three passages; documents of three blocks.
CONSTANTS
    Tools = {calculator}
    Ghost = ghost
    Admins = {a1, a2}
    None = None
    Plans <- MCPlans
    Questions <- MCQuestions
    Passages <- MCFound
    MaxToolCalls = 3
    MaxRetries = 1
    MaxResults = 2
    MaxRefusals = 1
    MaxIterations = 2
    MaxCalls = 2
    MaxChunks = 1
    Patches <- MCPatches
    MaxUpdates = 3
    Messages <- MCMessages
    Offers <- MCOffers
    ModelPlans <- MCModelPlans
    MaxTasks = 4
    MaxDepth = 2
    MaxPlannedCalls = 8
    Documents <- MCDocuments
    Indexed <- MCPassages
    Near <- MCNear
    Asks <- MCAsks
    Limits <- MCLimits
    TopK = 3
    Uploads <- MCUploads
    Settings <- MCSettings
    MaxAttempts = 2
    MaxReplans = 1
    Updates = 1
SPECIFICATION MCSpec
INVARIANTS CallsAnsweredInOrder StoredIsShown RegistryFollowsConfig
INVARIANTS DeferredWriteIsProposed OnlyTheLongChainIsRejected
INVARIANTS AnswerUsesFindings WritesAwaitApproval ToolCallsWithinBudget
INVARIANTS PromptMatchesCitations IndexCoversDocument
PROPERTY AcceptedAsConfigured
CHECK_DEADLOCK FALSE
