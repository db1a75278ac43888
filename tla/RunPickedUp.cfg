SPECIFICATION FairSpec
CONSTANTS
  NoRun = NoRun
  Runs = {r1}
  MaxStops = 0
  MaxRestarts = 0
  MaxFaults = 1
  MaxOutputs = 1
CHECK_DEADLOCK FALSE
PROPERTIES
  QueuedIsPickedUp
