\* One upload, two workers: overlapping executions.
CONSTANTS
    Jobs = {j1}
    IngestJobs = {j1}
    Current = v0
    MarksMayFail = TRUE
    Workers = {w1, w2}
    Requests = {r1}
    MaxAttempts = 1
    Checkpoints = 1
    MaxCopies = 1
    MaxFaults = 1
    MaxRequeues = 0
SPECIFICATION DocSpec
SYMMETRY WorkerSymmetry
INVARIANTS VisibleIndexComplete ActiveVersionIsPointedTo
