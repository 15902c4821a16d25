\* One upload, one worker as docker-compose deploys it, two faults and a requeue.
CONSTANTS
    Jobs = {j1}
    IngestJobs = {j1}
    Current = v0
    MarksMayFail = FALSE
    Workers = {w1}
    Requests = {r1}
    MaxAttempts = 2
    Checkpoints = 1
    MaxCopies = 1
    MaxFaults = 2
    MaxRequeues = 1
SPECIFICATION DocFairSpec
INVARIANT SucceededMeansIndexed
PROPERTY DocumentSettles
