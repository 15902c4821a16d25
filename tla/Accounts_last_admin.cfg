SPECIFICATION Spec
CONSTANTS
  Users = {a, b, n}
  Admins = {a, b}
  Newcomers = {n}
  Clients = {b}
  Owner = b
  Requests = {1, 2, 3}
  MaxOpen = 2
  Changes <- MCDemotions
  Menu <- MCUpdates
  MaxActive = 2
  MaxSessions = 4
  MaxTokens = 5
  None = None
INVARIANTS
  LastAdminStays
CHECK_DEADLOCK FALSE
