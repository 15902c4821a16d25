\* Two worker replicas beside one API request, and one worker beside two requests, race for one
\* job, with a fault and a requeue.
CONSTANTS
    Jobs = {j1}
    Workers = {w1, w2}
    Requests = {r1, r2}
    Casts = {{w1, w2, r1}, {w1, r1, r2}}
    MaxAttempts = 2
    Checkpoints = 1
    MaxCopies = 1
    MaxFaults = 1
    MaxRequeues = 1
SPECIFICATION MCSpec
SYMMETRY Symmetry
INVARIANTS AttemptsWithinBudget DeadLetterMeansExhausted NoOverlapWithoutRevival
PROPERTY AttemptsHeedCancel
