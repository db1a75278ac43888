SPECIFICATION Spec
CONSTANTS
  Servers = {s1}
  Tools = {act, propose, decide}
  Retired = {}
  MaxSchema = 2
  NoServer = NoServer
  d1 = d1
  d2 = d2
  Devices = {d1, d2}
  NoDevice = NoDevice
  ActTool = act
  ProposeTool = propose
  DecideTool = decide
  MaxReads = 3
  MaxAttempts = 2
  MaxTraces = 2
  Mixes <- TurnMixes
CHECK_DEADLOCK FALSE
INVARIANTS
  EnabledWasVetted
  ActionsWithinLimit
  RepairsFollowFailures
  NoActionIsForgotten
PROPERTIES
  FeedbackStands
