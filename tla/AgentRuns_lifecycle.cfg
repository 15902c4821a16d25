SPECIFICATION FairSpec
CONSTANTS
  Tasks <- MCTasks
  Deps <- MCDeps
  Askers = {1, 2}
  Synthesizers = {3}
  MaxSteps = 4
  MaxRetries = 1
  Coordinator = coordinator
  Resolvers = {r1, r2}
  Cancels = {c1, c2}
  Remote = {c2}
INVARIANTS
  DependentsWait
  StepsAccountForAttempts
PROPERTIES
  KeepsLifecycle
  RunSettles
CHECK_DEADLOCK FALSE
