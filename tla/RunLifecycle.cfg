SPECIFICATION FairSpec
CONSTANTS
  NoRun = NoRun
  Runs = {r1, r2}
  MaxStops = 2
  MaxRestarts = 2
  MaxFaults = 1
  MaxOutputs = 2
CHECK_DEADLOCK FALSE
INVARIANTS
  OutcomeIsTold
  OutcomesDoNotMix
  NeverStartedAgain
  NoRunIsForgotten
  RunInv
PROPERTIES
  EndedForGood
  EveryRunEnds
  RunKeepsPromise
