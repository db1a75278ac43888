SPECIFICATION Spec
CONSTANTS
  short = short
  long = long
  Documents = {d1}
  Bodies <- OneOrTwoChunks
  Threads = {t1, t2}
  BatchSize = 1
  MaxWrites = 3
  MaxFaults = 2
INVARIANT
  CollectionsMirrorDocuments
PROPERTY
  OutboxDrains
CHECK_DEADLOCK FALSE
