SPECIFICATION FairSpec
CONSTANTS
  None = None
  Commands = {c1}
  Proposals = {p1}
  Devices = {d1}
  Keys = {k1}
  CommandTimeout = 1
  VerifyWindow = 1
  CommandTTL = 2
  ProposalTTL = 1
  RetryDelay = 1
  ClockSkew = 0
  MaxTime = 5
  LastRequest = 1
  MaxCrashes = 1
  MaxExecutions = 1
INVARIANTS
  TaskMirrorsCommand
  DeliveredIsConfirmed
PROPERTIES
  EveryCommandSettles
  EveryRepairIsJudged
