SPECIFICATION Spec
CONSTANTS
  talk = talk
  Episodes = {e1}
  Lessons = {x1}
  Agents = {a1}
  Conversations = {talk}
  ConversationOf <- OneConversation
  MaxRequests = 2
  MaxOpen = 2
  MaxEdits = 2
  MaxAttempts = 2
  MaxFaults = 2
INVARIANTS
  ForgottenIsNotRecalled
  ForgottenTextIsErased
  RecalledIsReviewed
  IndexTellsTruth
PROPERTIES
  SetAsideStays
  PausedLeavesIndex
CHECK_DEADLOCK FALSE
