\* An upload and a re-index of the version it supersedes, two workers.
CONSTANTS
    Jobs = {j1, j2}
    IngestJobs = {j1}
    Current = v0
    MarksMayFail = TRUE
    Workers = {w1, w2}
    Requests = {r1}
    MaxAttempts = 1
    Checkpoints = 0
    MaxCopies = 1
    MaxFaults = 0
    MaxRequeues = 0
SPECIFICATION DocSpec
SYMMETRY WorkerSymmetry
INVARIANT ReindexKeepsVersionReady
