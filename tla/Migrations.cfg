SPECIFICATION Spec
CONSTANTS
    p1 = p1
    p2 = p2
    c1 = c1
    c2 = c2
    c3 = c3
    d1 = d1
    d2 = d2
    k1 = k1
    k2 = k2
    e1 = e1
    e2 = e2
    Setups <- AllSetups
    OldCommands = {c1, c2}
    NewCommands = {c3}
    Unverified = {c2}
    Devices = {d1, d2}
    StatusRows <- Rows_
    Documents = {k1}
    SeedDevice = d1
    SeedDocument = k2
    Entries = {e1, e2}
    CaseEntries = {e1}
INVARIANTS
    SchemaIsWhole
    CommandsKept
    DiagnosisRowsKept
PROPERTY UpgradesEnd
CHECK_DEADLOCK FALSE
