-------------------------- MODULE SchemaMigrations --------------------------
(***************************************************************************)
(* How a database is brought to the schema of the code: the migration      *)
(* runner of the MCP services (mcp-services/common/migrations.py), the     *)
(* deployment of the backend (backend/app/migrations.py), and what SQLite  *)
(* and its Python driver make of the statements of SchemaScripts.          *)
(*                                                                         *)
(* A process is killed between any two statements and started again; two   *)
(* processes may upgrade one database at once; a release that is already   *)
(* running goes on inserting commands.  A CREATE, ALTER or DROP is         *)
(* committed at once unless a transaction is open; writing a row opens     *)
(* one, which holds the write lock of the database until it is committed.  *)
(*                                                                         *)
(* The rows that a script moves are the data: the commands, their outbox   *)
(* entries and verification windows; the current state of the devices, the *)
(* documents, their index rows and the entries of the vector outbox.       *)
(***************************************************************************)
EXTENDS SchemaScripts, FiniteSets, Functions

CONSTANTS
    Setups,         \* bound: whose database it is, the processes that open it,
                    \*   and how often one of them is killed
    OldCommands,    \* commands of a database of an earlier release
    NewCommands,    \* commands that are inserted later
    Unverified,     \* the commands that were applied and never verified
    Devices,        \* devices with rows in device_status
    StatusRows,     \* device -> the <<timestamp, id>> of its status rows
    Documents,      \* rows of knowledge_document
    SeedDevice,     \* the device and the document that the diagnosis
    SeedDocument,   \*   server itself inserts when it starts
    Entries,        \* open entries of the vector outbox
    CaseEntries     \* those that carry a fault case

ASSUME SchemaAssumption ==
    /\ \A k \in Setups : k.service \in Services /\ k.crashes \in Nat /\ k.procs # {}
    /\ CaseEntries \subseteq Entries
    /\ OldCommands \cap NewCommands = {}
    /\ \A d \in Devices : StatusRows[d] \in (SUBSET (Nat \X Nat)) \ {{}}

VARIABLES
    svc,        \* the service the database belongs to
    fts5,       \* whether this SQLite has the FTS5 module
    db,         \* the committed database: [has, ver, data]
    proc,       \* process -> its command and where it is in it
    crashes,    \* how many more times a process is killed
    unqueued,   \* the commands inserted while no trigger queued them
    oddly       \* what brought the schema out of order: "late" or "stamped"

Procs == DOMAIN proc
vars == <<svc, fts5, db, proc, crashes, unqueued, oddly>>

Later(a, b) == a[1] > b[1] \/ (a[1] = b[1] /\ a[2] > b[2])
Newest(rows) == CHOOSE r \in rows : \A s \in rows \ {r} : Later(r, s)

-----------------------------------------------------------------------------
(***************************************************************************)
(* One statement.                                                          *)
(***************************************************************************)
Script(m) == Scripts[svc][m]
LastVersion == Len(Scripts[svc])
Only(s) == CHOOSE x \in s.names : TRUE
Of(t, has) == {o \in has : o[1] = t}
Named(has) == {o[2] : o \in has}

IsRows(s) ==
    s.op \in {"copy", "settle", "windows", "name", "newest", "unindex", "index",
              "govern", "cancel", "recover", "rebuild"}
IsSchema(s) == s.op \in {"create", "part", "column", "drop", "rename"}

(* A statement that has nothing to do: its object is there, or is gone, or *)
(* the column was seen.                                                    *)
IsIdle(s, has, seen) ==
    \/ s.op = "create" /\ ~s.strict /\ TheTable(s.table) \in has
    \/ s.op = "part" /\ ~s.strict /\ Only(s) \in Named(has)
    \/ s.op = "column" /\ ~s.strict /\ <<s.table, Only(s)>> \in seen
    \/ s.op = "drop" /\ ~s.strict /\ <<s.table, Only(s)>> \notin has

(* An error of SQLite: the object exists, or the table or the dropped      *)
(* object does not.                                                        *)
IsError(s, has) ==
    \/ s.op = "create" /\ TheTable(s.table) \in has
    \/ s.op \in {"part", "column"} /\ \/ TheTable(s.table) \notin has
                                      \/ <<s.table, Only(s)>> \in has
    \/ s.op = "drop" /\ <<s.table, Only(s)>> \notin has
    \/ s.op = "rename" /\ \/ TheTable(s.table) \notin has
                          \/ TheTable(Only(s)) \in has
    \/ IsRows(s) /\ TheTable(s.table) \notin has

SchemaAfter(s, has) ==
    CASE s.op = "create" -> has \cup {TheTable(s.table)} \cup Parts(s.table, s.names)
      [] s.op \in {"part", "column"} -> has \cup Parts(s.table, s.names)
      [] s.op = "drop" -> IF Only(s) = "" THEN has \ Of(s.table, has)
                          ELSE has \ Parts(s.table, s.names)
      [] s.op = "rename" -> (has \ Of(s.table, has))
                            \cup Parts(Only(s), Named(Of(s.table, has)))
      [] OTHER -> has

(* Rows that exist are left as they are, and those that do not are added.  *)
Added(rows, more) ==
    [x \in DOMAIN rows \cup DOMAIN more |-> IF x \in DOMAIN rows THEN rows[x] ELSE more[x]]

(* The rows that go with a table or that a statement writes.               *)
DataAfter(s, data) ==
    CASE s.op = "drop" /\ s.table = "device_command" -> [data EXCEPT !.commands = {}]
      [] s.op = "rename" /\ s.table = "device_command_new" ->
             [data EXCEPT !.commands = data.copies, !.copies = {}]
      [] s.op = "copy" -> [data EXCEPT !.copies = data.commands]
      [] s.op = "settle" ->
             [data EXCEPT !.outbox = Added(@, [c \in data.commands |-> "unknown"])]
      [] s.op = "windows" -> [data EXCEPT !.windows = @ \cup (data.commands \cap Unverified)]
      [] s.op = "name" -> [data EXCEPT !.unnamed = {}]
      [] s.op = "newest" ->
             [data EXCEPT !.current = Added(@, [d \in data.statuses |-> Newest(StatusRows[d])])]
      [] s.op = "rename" /\ s.table = "device_status" -> [data EXCEPT !.statuses = {}]
      [] s.op = "unindex" -> [data EXCEPT !.fts = [d \in DOMAIN @ |-> 0]]
      [] s.op = "index" -> [data EXCEPT !.fts = [d \in DOMAIN @ |-> @[d] + 1]]
      [] s.op = "cancel" -> [data EXCEPT !.open = @ \ CaseEntries]
      [] OTHER -> data

(* What the statements of a script make of a schema, one after the other,  *)
(* when nothing interferes.                                                *)
Passed(script, has) ==
    LET after[i \in 0..Len(script)] ==
            IF i = 0 THEN has
            ELSE LET h == after[i - 1]
                 IN  IF IsIdle(script[i], h, h) THEN h ELSE SchemaAfter(script[i], h)
    IN  after

(* The schema of each version, when an empty database is upgraded without  *)
(* an interruption.                                                        *)
Upgraded ==
    [v \in Services |->
        LET after[m \in 0..Len(Scripts[v])] ==
                IF m = 0 THEN {} ELSE Passed(Scripts[v][m], after[m - 1])[Len(Scripts[v][m])]
        IN  after]

Ledger == [v \in Services |-> TheTable(IF v = "backend" THEN "alembic_version"
                                       ELSE "schema_migrations")]
(* What the first script of each database adds: it only adds.              *)
Baseline == [v \in Services |-> UNION {SchemaAfter(s, {}) : s \in ToSet(Scripts[v][1])}]
Complete == [v \in Services |-> {Ledger[v]} \cup Upgraded[v][Len(Scripts[v])]]

-----------------------------------------------------------------------------
(***************************************************************************)
(* The beginning: an empty database, or one from before the versions,      *)
(* which lacks some of the columns that the first script adds.             *)
(***************************************************************************)
Compat(v) ==
    CASE v = "control" -> Parts("device_command", ToSet(CommandCompat))
                          \cup {<<"remediation_proposal", "diagnosis_id">>}
      [] v = "diagnosis" -> Parts("diagnosis_record", ToSet(RecordCompat))
                            \cup Parts("knowledge_document", {"document_id", "chunk_index"})
                            \cup {<<"external_sync_outbox", "claimed_at">>}
      [] OTHER -> {}

EmptyData ==
    [commands |-> {}, copies |-> {}, outbox |-> <<>>, windows |-> {}, statuses |-> {},
     current |-> <<>>, unnamed |-> {}, fts |-> <<>>, open |-> {}]
OldData(v) ==
    IF v = "control" THEN [EmptyData EXCEPT !.commands = OldCommands]
    ELSE [EmptyData EXCEPT !.statuses = Devices, !.unnamed = Documents,
                           !.fts = [d \in Documents |-> 0], !.open = Entries]

Idle(p) == [cmd |-> proc[p].cmd, at |-> "off", m |-> 0, i |-> 0, seen |-> {},
            known |-> {}, open |-> FALSE, work |-> <<>>]

Init ==
    /\ \E k \in Setups :
          /\ svc = k.service /\ crashes = k.crashes
          /\ proc \in [k.procs -> {[cmd |-> c, at |-> "off", m |-> 0, i |-> 0, seen |-> {},
                                   known |-> {}, open |-> FALSE, work |-> <<>>] :
                                   c \in {"migrate", "serve"}}]
    /\ fts5 \in IF svc = "diagnosis" THEN BOOLEAN ELSE {TRUE}
    /\ \/ db = [has |-> {}, ver |-> {}, data |-> EmptyData]
       \/ \E lacks \in {{}, Compat(svc)} :
             db = [has |-> Baseline[svc] \ lacks, ver |-> {}, data |-> OldData(svc)]
    /\ unqueued = db.data.commands
    /\ oddly = {}

-----------------------------------------------------------------------------
(***************************************************************************)
(* A process.  It runs the command of the container (upgrade or deploy,    *)
(* then the server) or the server alone.  A failed one exits and is        *)
(* started again.                                                          *)
(***************************************************************************)
Go(p, where) == proc' = [proc EXCEPT ![p] = [Idle(p) EXCEPT !.at = where]]
Unlocked(p) == \A q \in Procs \ {p} : ~proc[q].open

Start(p) ==
    /\ proc[p].at \in {"off", "failed", "refused"}
    /\ Go(p, CASE proc[p].cmd = "migrate" /\ svc = "backend" -> "deploy"
               [] proc[p].cmd = "migrate" \/ svc = "backend" -> "connect"
               [] OTHER -> "init")
    /\ UNCHANGED <<svc, fts5, db, crashes, unqueued, oddly>>

(* initialize: an empty database is upgraded, any other one only verified. *)
Initialize(p) ==
    /\ proc[p].at = "init"
    /\ Ledger[svc] \in db.has \/ Unlocked(p)
    /\ Go(p, IF db.ver = {} THEN "connect" ELSE "verify")
    /\ db' = [db EXCEPT !.has = @ \cup {Ledger[svc]}]
    /\ UNCHANGED <<svc, fts5, crashes, unqueued, oddly>>

Serve == IF svc = "diagnosis" THEN "seed" ELSE "serving"

(* verify, and the check of the backend's lifespan.                        *)
Verify(p) ==
    /\ proc[p].at = "verify"
    /\ Go(p, IF LastVersion \in db.ver THEN Serve ELSE "refused")
    /\ UNCHANGED <<svc, fts5, db, crashes, unqueued, oddly>>

(* deploy: a database without a version that has tables is taken for one   *)
(* of an earlier release.                                                  *)
Deploy(p) ==
    /\ proc[p].at = "deploy"
    /\ Go(p, CASE db.ver = {} /\ db.has = {} -> "connect"
               [] db.ver = {} /\ \A t \in BaselineKeyTables : TheTable(t) \in db.has -> "stamp"
               [] db.ver = {} -> "refused"
               [] LastVersion \in db.ver -> "verify"
               [] OTHER -> "connect")
    /\ UNCHANGED <<svc, fts5, db, crashes, unqueued, oddly>>

Stamp(p) ==
    /\ proc[p].at = "stamp" /\ Unlocked(p)
    /\ Go(p, "connect")
    /\ db' = [db EXCEPT !.has = @ \cup {Ledger[svc]}, !.ver = {1}]
    /\ oddly' = IF db.has \ {Ledger[svc]} = Baseline[svc] THEN oddly
                ELSE oddly \cup {"stamped"}
    /\ UNCHANGED <<svc, fts5, crashes, unqueued>>

(* The next script of an upgrade, among those not known to be applied.     *)
Continue(p, after, known) ==
    LET pending == {m \in DOMAIN Scripts[svc] : m > after /\ m \notin known}
    IN IF pending # {}
       THEN proc' = [proc EXCEPT ![p] =
                [Idle(p) EXCEPT !.at = "run", !.known = known, !.i = 1,
                    !.m = CHOOSE m \in pending : \A n \in pending : m <= n]]
       ELSE Go(p, CASE proc[p].cmd = "serve" -> Serve
                    [] svc = "backend" -> "verify"
                    [] OTHER -> "init")

Connect(p) ==
    /\ proc[p].at = "connect"
    /\ Ledger[svc] \in db.has \/ Unlocked(p)
    /\ Continue(p, 0, db.ver)
    /\ db' = [db EXCEPT !.has = @ \cup {Ledger[svc]}]
    /\ UNCHANGED <<svc, fts5, crashes, unqueued, oddly>>

-----------------------------------------------------------------------------
(***************************************************************************)
(* The statements of the script that a process is in.                      *)
(***************************************************************************)
At(p) == Script(proc[p].m)[proc[p].i]
InScript(p) == proc[p].at = "run" /\ proc[p].i <= Len(Script(proc[p].m))
View(p) == IF proc[p].open THEN proc[p].work ELSE [has |-> db.has, data |-> db.data]
Step(p) == [proc[p] EXCEPT !.i = @ + 1]
NoStep == UNCHANGED <<svc, fts5, crashes, unqueued>>

Look(p) ==
    /\ InScript(p) /\ At(p).op = "read"
    /\ proc' = [proc EXCEPT ![p] = [Step(p) EXCEPT !.seen = Of(At(p).table, View(p).has)]]
    /\ UNCHANGED <<db, oddly>> /\ NoStep

(* Nothing to do: the statement is passed over, or the script ends here.   *)
Pass(p) ==
    /\ InScript(p)
    /\ \/ /\ IsIdle(At(p), View(p).has, proc[p].seen)
          /\ proc' = [proc EXCEPT ![p] = Step(p)]
       \/ /\ At(p).op \in {"only", "fts5"}
          /\ LET on == IF At(p).op = "fts5" THEN fts5
                       ELSE Parts(At(p).table, At(p).names) \cap proc[p].seen # {}
             IN proc' = [proc EXCEPT ![p] =
                    [Step(p) EXCEPT !.i = IF on THEN proc[p].i + 1 ELSE Len(Script(proc[p].m)) + 1]]
    /\ UNCHANGED <<db, oddly>> /\ NoStep

(* A process whose script another one has recorded, or that has seen what  *)
(* is not there any more.                                                  *)
IsLate(p) == proc[p].m \in db.ver \/ ~(proc[p].seen \subseteq db.has)

(* A CREATE, ALTER or DROP: part of the transaction if one is open.        *)
Alter(p) ==
    LET s == At(p)
        after == [has |-> SchemaAfter(s, View(p).has), data |-> DataAfter(s, View(p).data)]
    IN /\ InScript(p) /\ IsSchema(s) /\ Unlocked(p)
       /\ ~IsIdle(s, View(p).has, proc[p].seen) /\ ~IsError(s, View(p).has)
       /\ IF proc[p].open
          THEN /\ proc' = [proc EXCEPT ![p] = [Step(p) EXCEPT !.work = after]]
               /\ UNCHANGED <<db, oddly>>
          ELSE /\ db' = [has |-> after.has, data |-> after.data, ver |-> db.ver]
               /\ oddly' = IF IsLate(p) THEN oddly \cup {"late"} ELSE oddly
               /\ proc' = [proc EXCEPT ![p] = Step(p)]
       /\ NoStep

(* Rows are written: the transaction is opened, if it is not.              *)
Write(p) ==
    LET s == At(p)
        after == [has |-> View(p).has, data |-> DataAfter(s, View(p).data)]
        opens == s.op # "newest" \/ View(p).data.statuses # {}
    IN /\ InScript(p) /\ IsRows(s) /\ Unlocked(p) /\ ~IsError(s, View(p).has)
       /\ proc' = [proc EXCEPT ![p] =
               IF opens THEN [Step(p) EXCEPT !.open = TRUE, !.work = after] ELSE Step(p)]
       /\ UNCHANGED <<db, oddly>> /\ NoStep

CommitRows(p) ==
    /\ InScript(p) /\ At(p).op = "commit"
    /\ db' = [has |-> View(p).has, data |-> View(p).data, ver |-> db.ver]
    /\ oddly' = IF proc[p].open /\ IsLate(p) /\ View(p).has # db.has
                THEN oddly \cup {"late"} ELSE oddly
    /\ proc' = [proc EXCEPT ![p] = [Step(p) EXCEPT !.open = FALSE, !.work = <<>>]]
    /\ NoStep

(* An error rolls the transaction back and ends the upgrade.               *)
Fail(p) ==
    /\ \/ /\ InScript(p) /\ Unlocked(p)
          /\ ~IsIdle(At(p), View(p).has, proc[p].seen) /\ IsError(At(p), View(p).has)
       \/ /\ proc[p].at = "run" /\ ~InScript(p)
          /\ proc[p].m \in db.ver
    /\ Go(p, "failed")
    /\ UNCHANGED <<db, oddly>> /\ NoStep

(* The version is written last, in the transaction that is still open.     *)
Record(p) ==
    /\ proc[p].at = "run" /\ ~InScript(p) /\ Unlocked(p)
    /\ proc[p].m \notin db.ver
    /\ db' = [has |-> View(p).has, data |-> View(p).data, ver |-> db.ver \cup {proc[p].m}]
    /\ Continue(p, proc[p].m, proc[p].known)
    /\ UNCHANGED oddly /\ NoStep

-----------------------------------------------------------------------------
(***************************************************************************)
(* The servers.                                                            *)
(***************************************************************************)
(* _seed: the example device and document of the diagnosis server.         *)
Seed(p) ==
    /\ proc[p].at = "seed" /\ Unlocked(p)
    /\ Go(p, "serving")
    /\ LET current == db.data.current
           indexed == [x \in {SeedDocument} |-> IF TheTable(Fts) \in db.has THEN 1 ELSE 0]
       IN db' = [db EXCEPT !.data = [db.data EXCEPT
              !.current = IF DOMAIN current = {} THEN [d \in {SeedDevice} |-> <<0, 0>>] ELSE current,
              !.fts = Added(db.data.fts, indexed)]]
    /\ UNCHANGED <<svc, fts5, crashes, unqueued, oddly>>

(* A command is inserted by a server, or by the earlier release that has   *)
(* not been stopped; the trigger queues it.                                *)
Insert(c) ==
    LET queued == <<"device_command", Enqueue>> \in db.has
        rows == db.data
    IN /\ svc = "control" /\ TheTable("device_command") \in db.has
       /\ \A p \in Procs : ~proc[p].open
       /\ rows.commands \cap OldCommands # {} \/ \E p \in Procs : proc[p].at = "serving"
       /\ c \notin rows.commands
       /\ db' = [db EXCEPT !.data = [rows EXCEPT
             !.commands = rows.commands \cup {c},
             !.outbox = IF queued THEN Added(rows.outbox, [x \in {c} |-> "pending"])
                        ELSE rows.outbox]]
       /\ unqueued' = IF queued THEN unqueued ELSE unqueued \cup {c}
       /\ UNCHANGED <<svc, fts5, proc, crashes, oddly>>

Crash(p) ==
    /\ crashes > 0
    /\ proc[p].at \notin {"off", "failed", "refused"}
    /\ proc' = [proc EXCEPT ![p] = Idle(p)]
    /\ crashes' = crashes - 1
    /\ UNCHANGED <<svc, fts5, db, unqueued, oddly>>

Running(p) ==
    \/ Start(p) \/ Initialize(p) \/ Verify(p) \/ Deploy(p) \/ Stamp(p) \/ Connect(p)
    \/ Look(p) \/ Pass(p) \/ Alter(p) \/ Write(p) \/ CommitRows(p) \/ Fail(p) \/ Record(p)
    \/ Seed(p)

Next ==
    \/ \E p \in Procs : Running(p) \/ Crash(p)
    \/ \E c \in NewCommands : Insert(c)

(* A process that is alive goes on, and a container that has exited is     *)
(* started again.                                                          *)
Spec == Init /\ [][Next]_vars /\ \A p \in UNION {k.procs : k \in Setups} : WF_vars(p \in Procs /\ Running(p))

-----------------------------------------------------------------------------
(***************************************************************************)
(* Properties.                                                             *)
(***************************************************************************)

(* Whatever database the upgrade started from, wherever it was interrupted *)
(* and whoever ran it as well, one that records the last version has the   *)
(* schema of an uninterrupted upgrade, no object more and none less.       *)
(* Excepted are the two ways the code allows it to go wrong: an upgrader   *)
(* whose script another one has already recorded, or whose reading of it   *)
(* another one has outdated, changes the schema once more, and deploy      *)
(* stamps a first revision that was not finished.                          *)
SchemaIsWhole ==
    LastVersion \in db.ver /\ oddly = {} =>
        db.has = Complete[svc] \ IF fts5 THEN {} ELSE Of(Fts, Complete[svc])

(* No script loses a command: those the database had and those inserted    *)
(* since are in device_command, although it is dropped on the way.  From   *)
(* the version with the outbox on, every command has an entry there, one   *)
(* that was inserted before is never due to be sent (it may have been      *)
(* executed), and one that was applied and not verified has its window.    *)
CommandsKept ==
    svc = "control" =>
        /\ unqueued \cup DOMAIN db.data.outbox \subseteq db.data.commands
        /\ 5 \in db.ver /\ "late" \notin oddly =>
              /\ db.data.commands = DOMAIN db.data.outbox
              /\ \A c \in unqueued :
                    /\ db.data.outbox[c] = "unknown"
                    /\ c \in Unverified => c \in db.data.windows

(* What the diagnosis scripts make of the rows, however often they are     *)
(* repeated: the newest status of each device is its current state, each   *)
(* document has its name and is indexed once, and no entry of the outbox   *)
(* is left that would bring a fault case back.                             *)
DiagnosisRowsKept ==
    svc = "diagnosis" =>
        /\ 1 \in db.ver => db.data.unnamed = {}
        /\ 2 \in db.ver /\ db.data.open # {} =>
               \A d \in Devices : db.data.current[d] = Newest(StatusRows[d])
        /\ 4 \in db.ver /\ fts5 => \A x \in DOMAIN db.data.fts : db.data.fts[x] = 1
        /\ 6 \in db.ver => db.data.open \cap CaseEntries = {}

(* A database of an MCP service reaches the last version if a container    *)
(* goes on being started that upgrades it, however its upgrades were       *)
(* interrupted.  Excepted is the one statement that fails for good when it *)
(* is repeated: the CREATE TABLE of a rebuild that was killed before the   *)
(* rows were moved.  (common/migrations.py:7 asks that every migration be  *)
(* safe to repeat.)                                                        *)
UpgradesEnd ==
    (svc # "backend" /\ \E p \in Procs : proc[p].cmd = "migrate")
        ~> (LastVersion \in db.ver \/ [](TheTable("device_command_new") \in db.has))
=============================================================================
