--------------------------- MODULE SchemaInvariant ---------------------------
(***************************************************************************)
(* The inductive invariants behind CommandsKept and DiagnosisRowsKept:     *)
(* where a process is in a script, what its open transaction holds there,  *)
(* and what the scripts that are recorded have left in the database; and   *)
(* the one behind SchemaIsWhole: how far a schema is from that of the      *)
(* version before and of the version itself while a script makes it.       *)
(***************************************************************************)
EXTENDS SchemaMigrations

-----------------------------------------------------------------------------
(* The records.                                                             *)

IsData(d) ==
    d = [commands |-> d.commands, copies |-> d.copies, outbox |-> d.outbox,
         windows |-> d.windows, statuses |-> d.statuses, current |-> d.current,
         unnamed |-> d.unnamed, fts |-> d.fts, open |-> d.open]
IsProc(r) ==
    r = [cmd |-> r.cmd, at |-> r.at, m |-> r.m, i |-> r.i, seen |-> r.seen,
         known |-> r.known, open |-> r.open, work |-> r.work]

IsWork(w) == w = [has |-> w.has, data |-> w.data] /\ IsData(w.data)

Shapes ==
    /\ proc = [p \in Procs |-> proc[p]]
    /\ db = [has |-> db.has, ver |-> db.ver, data |-> db.data]
    /\ IsData(db.data)

-----------------------------------------------------------------------------
(* The databases of the MCP services.                                       *)

Runs(r) == r.at = "run"

\* Versions are recorded one after the other.
VersionsInv ==
    /\ db.ver \subseteq DOMAIN Scripts[svc]
    /\ \A n \in db.ver : 1..n \subseteq db.ver

\* Nobody is in a script whose predecessors are not recorded, or serves before
\* the last one is; an open transaction is one of a script.
ProcFits(r) ==
    /\ IsProc(r)
    /\ r.at \notin IF svc = "backend" THEN {"init", "seed"} ELSE {"deploy", "stamp"}
    /\ r.known \subseteq db.ver
    /\ r.at \in {"seed", "serving"} => LastVersion \in db.ver
    /\ Runs(r) => /\ r.m \in DOMAIN Scripts[svc]
                  /\ r.i \in 1..(Len(Script(r.m)) + 1)
                  /\ 1..(r.m - 1) \subseteq db.ver
    /\ r.open \in BOOLEAN
    /\ r.open => Runs(r) /\ IsWork(r.work)

OneTransaction == \A p, q \in Procs : proc[p].open /\ proc[q].open => p = q

ServiceInv ==
    /\ Shapes
    /\ VersionsInv
    /\ \A p \in Procs : ProcFits(proc[p])
    /\ OneTransaction

-----------------------------------------------------------------------------
(* The control database.                                                    *)

Trigger == <<"device_command", Enqueue>>
TriggerInPlace(has) == \A o \in has : o[2] = Enqueue => o = Trigger

\* No command that was inserted without a trigger is due to be sent.
NoneDue(data, old) == \A c \in old \cap DOMAIN data.outbox : data.outbox[c] = "unknown"

AllQueued(data, old) ==
    /\ DOMAIN data.outbox = data.commands
    /\ NoneDue(data, old)

\* The transactions of the fourth and of the fifth script.
ControlPlace(r) ==
    Runs(r) =>
        /\ r.m \in 1..3 => ~r.open
        /\ r.m = 4 => /\ r.i \in 1..4 \cup {12} => ~r.open
                      /\ r.i \in {5, 6} => r.open
        /\ r.m = 5 => (r.open <=> r.i >= 3)

ControlWork(r, data, old) ==
    r.open =>
        /\ TriggerInPlace(r.work.has)
        /\ r.m = 4 =>
              /\ r.work.data.outbox = data.outbox /\ r.work.data.windows = data.windows
              /\ r.i = 5 => r.work.data.commands = data.commands
              /\ r.i \in {5, 6} => r.work.data.copies = data.commands
              /\ r.i > 6 => r.work.data.commands = data.commands
        /\ r.m = 5 =>
              /\ r.work.data.commands = data.commands
              /\ AllQueued(r.work.data, old)
              /\ r.i > 3 => Trigger \in r.work.has
              /\ r.i > 5 => old \cap Unverified \subseteq r.work.data.windows

ControlRows ==
    /\ TriggerInPlace(db.has)
    /\ unqueued \cup DOMAIN db.data.outbox \subseteq db.data.commands
    /\ NoneDue(db.data, unqueued)
    /\ 5 \in db.ver /\ "late" \notin oddly =>
          /\ Trigger \in db.has
          /\ AllQueued(db.data, unqueued)
          /\ unqueued \cap Unverified \subseteq db.data.windows

ControlInv ==
    /\ ControlRows
    /\ \A p \in Procs : ControlPlace(proc[p]) /\ ControlWork(proc[p], db.data, unqueued)

-----------------------------------------------------------------------------
(* The diagnosis database.                                                  *)

OldTable == TheTable("device_status")
FtsTable == TheTable(Fts)

\* The rows of device_status are all still there, or the newest of each device
\* is its state.  (Where the outbox is empty nobody can tell an old database
\* from a new one.)
IsCurrent(data) ==
    \A d \in Devices : d \in DOMAIN data.current /\ data.current[d] = Newest(StatusRows[d])
StatusesStand(data) ==
    data.open # {} => \/ data.statuses = Devices /\ DOMAIN data.current = {}
                      \/ data.statuses = {} /\ IsCurrent(data)

IndexedOnce(data, n) == \A x \in DOMAIN data.fts : data.fts[x] = n

LastOf(m) == Len(Diagnosis[m])

\* Where the transactions of the scripts are, and what was there to be seen.
DiagnosisPlace(r, has, data) ==
    Runs(r) =>
        /\ r.m = 1 => /\ r.open <=> r.i = LastOf(1)
                      /\ r.i > LastOf(1) => data.unnamed = {}
        /\ r.m = 2 => /\ r.open => r.i \in {10, 11}
                      /\ r.i = 8 /\ OldTable \notin r.seen => data.statuses = {}
                      /\ r.i \in {10, 11} /\ ~r.open => data.statuses = {}
                      /\ r.i = 12 => data.statuses = {}
        /\ r.m = 4 => /\ r.open <=> r.i \in {8, 9}
                      /\ fts5 /\ r.i > 6 => FtsTable \in has
                      /\ fts5 /\ r.i = 10 => IndexedOnce(data, 1)
        /\ r.m = 6 => (r.open <=> r.i = 8)

DiagnosisWork(r, has, data) ==
    r.open =>
        LET work == r.work.data
        IN  /\ FtsTable \in has => FtsTable \in r.work.has
            /\ work.statuses # {} => OldTable \in r.work.has
            /\ r.m # 1 => work.unnamed = data.unnamed
            /\ r.m = 1 => work.unnamed = {}
            /\ r.m # 2 => work.statuses = data.statuses /\ work.current = data.current
            /\ r.m = 2 => /\ work.open # {} => IsCurrent(work)
                          /\ r.i = 11 => work.statuses = {}
            /\ r.m # 4 => work.fts = data.fts
            /\ r.m = 4 => IndexedOnce(work, IF r.i = 8 THEN 0 ELSE 1)
            /\ r.m # 6 => work.open = data.open
            /\ r.m = 6 => work.open = data.open \ CaseEntries

DiagnosisRows ==
    LET data == db.data
    IN  /\ data.statuses # {} => OldTable \in db.has
        /\ StatusesStand(data)
        /\ 1 \in db.ver => data.unnamed = {}
        /\ 2 \in db.ver => data.statuses = {}
        /\ 4 \in db.ver /\ fts5 => FtsTable \in db.has /\ IndexedOnce(data, 1)
        /\ 6 \in db.ver => data.open \cap CaseEntries = {}

DiagnosisInv ==
    /\ DiagnosisRows
    /\ \A p \in Procs : /\ DiagnosisPlace(proc[p], db.has, db.data)
                        /\ DiagnosisWork(proc[p], db.has, db.data)

-----------------------------------------------------------------------------
SchemaInv ==
    /\ svc \in {"control", "diagnosis"} => ServiceInv
    /\ svc = "control" => ControlInv
    /\ svc = "diagnosis" => DiagnosisInv

-----------------------------------------------------------------------------
(* The schema, without the table of the versions.                           *)

Bare(has) == has \ {Ledger[svc]}

\* What there is of a schema in this SQLite.
Here(has) == {o \in has : fts5 \/ o[1] # Fts}

\* The schemas of the version before a script and of its own, and what an
\* uninterrupted run has made of the first one after i of its statements.
Low(m) == Here(Upgraded[svc][m - 1])
High(m) == Here(Upgraded[svc][m])
Made(m, i) == Passed(Script(m), Low(m))[i]

\* What a statement that adds to a schema asks for.
IsAdding(s) == s.op \in {"create", "part", "column"}
Asked(s) == IF s.op = "create" THEN TheTable(s.table) ELSE <<s.table, Only(s)>>
GotThrough(m, i) ==
    {Asked(s) : s \in {x \in {Script(m)[j] : j \in 1..(i - 1)} :
                           IsAdding(x) /\ (fts5 \/ x.table # Fts)}}

\* The scripts that only add to a schema, whatever has been done of them.
IsGrowing(m) ==
    \/ svc = "control" /\ m \in {1, 2, 3, 5}
    \/ svc = "diagnosis" /\ m \in {1, 3, 4, 5}

CaseTables == {"fault_case", "fault_case_feedback"}
FirstFails(m, has) == IsError(Script(m)[1], has)
QueuedAt == <<"agent_runs", "queued_at">>

\* What is in the database while version m is the first that is not recorded.
Stands(m, has) ==
    /\ m = LastVersion + 1 => has = Low(m)
    /\ IsGrowing(m) => Low(m) \subseteq has /\ has \subseteq High(m)
    /\ svc = "control" /\ m = 4 => has \in {Low(4), Made(4, 3), High(4)}
    /\ svc = "diagnosis" /\ m = 2 =>
           \/ Low(2) \subseteq has /\ has \subseteq Made(2, 9)
           \/ has = High(2)
    /\ svc = "diagnosis" /\ m = 6 =>
           /\ High(6) \subseteq has /\ has \subseteq Low(6)
           /\ \A t \in CaseTables : TheTable(t) \notin has => Of(t, has) = {}
    /\ svc = "backend" =>
           /\ m \in 1..LastVersion => has = Low(m) \/ FirstFails(m, has)
           /\ m > 2 => QueuedAt \in has

\* And what a process has there that is at the i-th statement of script m: in
\* the database, and in its own view of it.
Held(m, i, seen, has, view, open) ==
    /\ IsGrowing(m) =>
           /\ has \subseteq view /\ view \subseteq High(m)
           /\ seen \subseteq view /\ GotThrough(m, i) \subseteq view
           /\ svc = "diagnosis" /\ m = 4 /\ i \in 6..9 => fts5
    /\ svc = "control" /\ m = 4 =>
           /\ i = 2 => \/ seen = Of("device_command", Low(4))
                       \/ seen = Of("device_command", High(4)) /\ has = High(4)
           /\ i \in 3..11 => seen = Of("device_command", Low(4))
           /\ i \in 4..11 => has = Made(4, 3) /\ view = Made(4, i - 1)
           /\ i = 12 => has = High(4)
           /\ open <=> i \in 5..11
    /\ svc = "diagnosis" /\ m = 2 =>
           /\ \/ /\ Low(2) \subseteq view /\ view \subseteq Made(2, 9)
                 /\ seen \subseteq view /\ GotThrough(2, i) \subseteq view
                 /\ i < 11 /\ (i = 8 => OldTable \in seen)
              \/ view = High(2)
           /\ open => i \in {10, 11} /\ (i = 10 => view = has)
    /\ svc = "diagnosis" /\ m = 6 =>
           /\ i > 1 => Of("fault_case_feedback", has) = {}
           /\ i > 6 => Of("fault_case", has) = {}
           /\ view = has
    /\ svc = "backend" =>
           /\ i > 1 => view = Made(m, i - 1) /\ FirstFails(m, has)
           /\ open <=> \E j \in 1..(i - 1) : IsRows(Script(m)[j])
           /\ m > 2 \/ (m = 2 /\ i > 1) => QueuedAt \in view

\* Where no two processes are at once.
IsAlone(m, i) ==
    \/ svc = "control" /\ m = 4 /\ i \in 4..11
    \/ svc = "backend" /\ i > 1

IsAt(r, m) == Runs(r) /\ r.m = m

LedgerInPlace ==
    /\ db.ver # {} \/ (\E p \in Procs : Runs(proc[p])) => Ledger[svc] \in db.has
    /\ \A p \in Procs : proc[p].open => Ledger[svc] \in proc[p].work.has

Underway(m) ==
    /\ Stands(m, Bare(db.has))
    /\ \A p \in Procs : IsAt(proc[p], m) =>
           Held(m, proc[p].i, proc[p].seen, Bare(db.has), Bare(View(p).has), proc[p].open)
    /\ \A p, q \in Procs :
           /\ IsAt(proc[p], m) /\ IsAlone(m, proc[p].i)
           /\ IsAt(proc[q], m) /\ IsAlone(m, proc[q].i)
           => p = q

WholeInv ==
    /\ svc \in Services
    /\ svc # "diagnosis" => fts5
    /\ oddly = {} =>
           /\ ServiceInv
           /\ LedgerInPlace
           /\ \A m \in 1..(LastVersion + 1) : db.ver = 1..(m - 1) => Underway(m)
=============================================================================
