SPECIFICATION Spec
CONSTANTS
  talk = talk
  Episodes = {e1}
  Lessons = {x1}
  Agents = {a1}
  Conversations = {talk}
  ConversationOf <- OneConversation
  MaxRequests = 3
  MaxOpen = 2
  MaxEdits = 2
  MaxAttempts = 2
  MaxFaults = 0
PROPERTIES
  PauseSurvivesLateResult
CHECK_DEADLOCK FALSE
