SPECIFICATION Spec
CONSTANTS
  None = None
  Commands = {c1, c2}
  Proposals = {p1, p2}
  Devices = {d1, d2}
  Keys = {k1, k2}
  CommandTimeout = 1
  VerifyWindow = 1
  CommandTTL = 0
  ProposalTTL = 1
  RetryDelay = 1
  ClockSkew = 0
  MaxTime = 3
  LastRequest = 3
  MaxCrashes = 0
  MaxExecutions = 1
SYMMETRY Symmetry
INVARIANTS
  OneActionPerKey
  ApprovedHasItsCommand
