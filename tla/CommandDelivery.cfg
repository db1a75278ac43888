SPECIFICATION Spec
CONSTANTS
  None = None
  Commands = {c1}
  Proposals = {}
  Devices = {d1, d2}
  Keys = {k1}
  CommandTimeout = 1
  VerifyWindow = 1
  CommandTTL = 3
  ProposalTTL = 2
  RetryDelay = 1
  ClockSkew = 1
  MaxTime = 5
  LastRequest = 1
  MaxCrashes = 2
  MaxExecutions = 2
SYMMETRY Symmetry
INVARIANTS
  HandedAtMostOnce
  AbandonedNeverRuns
  AppliedWasExecuted
  ControlInv
PROPERTIES
  CertifiedByFreshEvidence
  KeepsPromise
