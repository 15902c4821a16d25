\* Turns, edits, deletions and commands of one conversation overlapping freely.
CONSTANTS
  Requests = {r1, r2, r3}
  Keys = {k1}
  None = None
  MaxSeq = 5
  MaxCommands = 1
  MaxLosses = 1
  Commands = {"regenerate", "edit", "delete", "rename", "archive"}
SPECIFICATION FairSpec
CHECK_DEADLOCK FALSE
INVARIANT Transcript
INVARIANT ReplayAnswersItsQuestion
INVARIANT ConversationRowRight
PROPERTY ConversationUnblocks
