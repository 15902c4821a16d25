SPECIFICATION Spec
CONSTANTS
  Users = {a, b, n}
  Admins = {a, b}
  Newcomers = {n}
  Clients = {b}
  Owner = b
  Requests = {1, 2, 3}
  MaxOpen = 2
  Changes <- MCChanges
  Menu <- MCMenu
  MaxActive = 2
  MaxSessions = 4
  MaxTokens = 5
  None = None
INVARIANTS
  ResetEndsTheOld
  TokensSpentOnce
  DeletionsKeepAnAdmin
  SessionRequestsNeverDeadlock
CHECK_DEADLOCK FALSE
