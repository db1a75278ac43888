SPECIFICATION Spec
CONSTANTS
  talk = talk
  Episodes = {e1}
  Lessons = {x1}
  Agents = {a1}
  Conversations = {talk}
  ConversationOf <- OneConversation
  MaxRequests = 4
  MaxOpen = 1
  MaxEdits = 2
  MaxAttempts = 2
  MaxFaults = 0
INVARIANTS
  DeletedLeavesNoVector
CHECK_DEADLOCK FALSE
