\* One run of two cases, one worker, one request, two faults and a requeue.
CONSTANTS
    Jobs = {j1}
    Workers = {w1}
    Requests = {r1}
    MaxAttempts = 2
    Checkpoints = 3
    MaxCopies = 1
    MaxFaults = 2
    MaxRequeues = 1
SPECIFICATION EvalFairSpec
INVARIANT JobRunAndResultsAgree
PROPERTY RunSettles
