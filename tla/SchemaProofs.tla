----------------------------- MODULE SchemaProofs -----------------------------
(***************************************************************************)
(* What an upgrade does with the rows of the two databases of the MCP      *)
(* services, for any number of upgraders, kills and rows.                  *)
(***************************************************************************)
EXTENDS SchemaInvariant, SequenceTheorems, TLAPS

-----------------------------------------------------------------------------
(* Statements and scripts.                                                  *)

IsScript(s) == s \in Seq(ToSet(s))

\* A statement that adds to the schema, or does not change it, and is not about
\* the trigger of the outbox.
IsAddition(s) ==
  /\ s.op \in {"create", "part", "column", "read", "commit"}
  /\ Enqueue \notin s.names
  /\ s.op \in {"part", "column"} => \E x : s.names = {x}

OnlyAdds(s) == IsScript(s) /\ \A i \in 1..Len(s) : IsAddition(s[i])

LEMMA OnlyName ==
  ASSUME NEW s, NEW x, s.names = {x}
  PROVE  Only(s) = x
  BY DEF Only

\* The statements that only add.
LEMMA AdditionsAre ==
  /\ \A t : IsAddition(Read(t)) /\ IsAddition(Create(t, {})) /\ IsAddition(CreateNew(t, {}))
  /\ \A t, c : Enqueue \notin c => IsAddition(Create(t, c))
  /\ \A t, n : n # Enqueue => /\ IsAddition(Adds(t, n)) /\ IsAddition(AddsNew(t, n))
                              /\ IsAddition(ColumnUnseen(t, n))
  /\ IsAddition(Commit)
<1>1. /\ \A t : IsAddition(Read(t)) /\ IsAddition(Create(t, {})) /\ IsAddition(CreateNew(t, {}))
      /\ IsAddition(Commit)
  BY DEF IsAddition, Statement, Read, Create, CreateNew, Commit
<1>2. \A t, c : Enqueue \notin c => IsAddition(Create(t, c))
  BY DEF IsAddition, Statement, Create
<1>3. ASSUME NEW t, NEW n, n # Enqueue
      PROVE  IsAddition(Adds(t, n)) /\ IsAddition(AddsNew(t, n)) /\ IsAddition(ColumnUnseen(t, n))
  BY <1>3 DEF IsAddition, Statement, Adds, AddsNew, ColumnUnseen
<1> QED
  BY <1>1, <1>2, <1>3

LEMMA Cat ==
  ASSUME NEW s, IsScript(s), NEW t, IsScript(t)
  PROVE  /\ IsScript(s \o t)
         /\ Len(s) \in Nat /\ Len(t) \in Nat
         /\ Len(s \o t) = Len(s) + Len(t)
         /\ \A i \in 1..Len(s) : (s \o t)[i] = s[i]
         /\ \A i \in 1..Len(t) : (s \o t)[Len(s) + i] = t[i]
<1> DEFINE S == ToSet(s) \cup ToSet(t)
<1>1. s \in Seq(S) /\ t \in Seq(S)
  BY DEF IsScript
<1> HIDE DEF S
<1>2. /\ s \o t \in Seq(S)
      /\ Len(s) \in Nat /\ Len(t) \in Nat
      /\ Len(s \o t) = Len(s) + Len(t)
      /\ \A i \in 1..Len(s) : (s \o t)[i] = s[i]
      /\ \A i \in 1..Len(t) : (s \o t)[Len(s) + i] = t[i]
  BY <1>1
<1>3. \A u \in Seq(S) : IsScript(u)
  BY DEF IsScript, ToSet
<1> QED
  BY <1>2, <1>3

LEMMA CatAdds ==
  ASSUME NEW s, OnlyAdds(s), NEW t, OnlyAdds(t)
  PROVE  OnlyAdds(s \o t)
<1>1. IsScript(s) /\ IsScript(t)
  BY DEF OnlyAdds
<1>2. ASSUME NEW i \in 1..Len(s \o t) PROVE IsAddition((s \o t)[i])
  <2>0. Len(s) \in Nat /\ Len(t) \in Nat /\ i \in 1..(Len(s) + Len(t))
    BY <1>1, <1>2, Cat
  <2>1. CASE i <= Len(s)
    <3>1. i \in 1..Len(s)
      BY <2>0, <2>1
    <3> QED
      BY <1>1, <3>1, Cat DEF OnlyAdds
  <2>2. CASE i > Len(s)
    <3>1. PICK j \in 1..Len(t) : i = Len(s) + j
      <4>2. i - Len(s) \in 1..Len(t) /\ i = Len(s) + (i - Len(s))
        BY <2>0, <2>2
      <4> QED
        BY <4>2
    <3>2. (s \o t)[i] = t[j]
      BY <1>1, <3>1, Cat
    <3>3. IsAddition(t[j])
      BY <3>1 DEF OnlyAdds
    <3> QED
      BY <3>2, <3>3, Zenon
  <2> QED
    BY <2>0, <2>1, <2>2
<1> QED
  BY <1>1, <1>2, Cat DEF OnlyAdds

\* One statement per name.
LEMMA EachIsAdded ==
  ASSUME NEW t, NEW names, IsScript(names), \A i \in 1..Len(names) : names[i] # Enqueue
  PROVE  OnlyAdds(EachAdds(t, names)) /\ OnlyAdds(ColumnsUnseen(t, names))
<1>1. DOMAIN names = 1..Len(names) /\ Len(names) \in Nat
  BY DEF IsScript
<1>2. \A f : (f = [i \in 1..Len(names) |-> f[i]]) => IsScript(f) /\ Len(f) = Len(names)
  BY <1>1 DEF IsScript, ToSet
<1>3. OnlyAdds(EachAdds(t, names))
  <2> DEFINE s == EachAdds(t, names)
  <2>1. s = [i \in 1..Len(names) |-> s[i]] /\ \A i \in 1..Len(names) : IsAddition(s[i])
    BY <1>1, AdditionsAre DEF EachAdds
  <2> HIDE DEF s
  <2>2. OnlyAdds(s)
    BY <1>2, <2>1 DEF OnlyAdds
  <2> QED
    BY <2>2 DEF s
<1>4. OnlyAdds(ColumnsUnseen(t, names))
  <2> DEFINE s == ColumnsUnseen(t, names)
  <2>1. s = [i \in 1..Len(names) |-> s[i]] /\ \A i \in 1..Len(names) : IsAddition(s[i])
    BY <1>1, AdditionsAre DEF ColumnsUnseen
  <2> HIDE DEF s
  <2>2. OnlyAdds(s)
    BY <1>2, <2>1 DEF OnlyAdds
  <2> QED
    BY <2>2 DEF s
<1> QED
  BY <1>3, <1>4


LEMMA Control1Adds == OnlyAdds(Control1)
<1> DEFINE a == <<Create("device_command", CaseColumns \cup {"diagnosis_id"}),
                  Adds("device_command", "idx_command_device"),
                  Create("remediation_proposal", {"diagnosis_id"}),
                  Adds("remediation_proposal", "idx_proposal_status"),
                  Read("device_command")>>
           b == ColumnsUnseen("device_command", CommandCompat)
           c == <<Read("remediation_proposal"),
                  ColumnUnseen("remediation_proposal", "diagnosis_id"), Commit>>
<1>1. OnlyAdds(a)
  <2>1. Enqueue \notin CaseColumns \cup {"diagnosis_id"} /\ Enqueue \notin {"diagnosis_id"}
        /\ Enqueue # "idx_command_device" /\ Enqueue # "idx_proposal_status"
    BY DEF CaseColumns, Enqueue
  <2>2. IsScript(a) /\ Len(a) = 5
    BY DEF IsScript, ToSet
  <2>3. IsAddition(a[1]) /\ IsAddition(a[2]) /\ IsAddition(a[3]) /\ IsAddition(a[4]) /\ IsAddition(a[5])
    BY <2>1, AdditionsAre
  <2> QED
    BY <2>2, <2>3 DEF OnlyAdds
<1>2. OnlyAdds(b)
  <2>1. IsScript(CommandCompat) /\ \A i \in 1..Len(CommandCompat) : CommandCompat[i] # Enqueue
    BY DEF IsScript, ToSet, CommandCompat, Enqueue
  <2> QED
    BY <2>1, EachIsAdded
<1>3. OnlyAdds(c)
  <2>1. Enqueue # "diagnosis_id"
    BY DEF Enqueue
  <2>2. IsScript(c) /\ Len(c) = 3
    BY DEF IsScript, ToSet
  <2>3. IsAddition(c[1]) /\ IsAddition(c[2]) /\ IsAddition(c[3])
    BY <2>1, AdditionsAre
  <2> QED
    BY <2>2, <2>3 DEF OnlyAdds
<1>4. Control1 = a \o b \o c
  BY DEF Control1
<1> HIDE DEF a, b, c
<1> QED
  BY <1>1, <1>2, <1>3, <1>4, CatAdds, Zenon

LEMMA Control2Adds == OnlyAdds(Control2)
<1> DEFINE a == <<Adds("device_command", "idx_command_diagnosis"),
                  Adds("remediation_proposal", "idx_proposal_diagnosis")>>
           b == EachAdds("device_command", CommandTriggers)
           c == EachAdds("remediation_proposal", ProposalTriggers)
           d == <<Commit>>
<1>1. OnlyAdds(a)
  <2>1. Enqueue # "idx_command_diagnosis" /\ Enqueue # "idx_proposal_diagnosis"
    BY DEF Enqueue
  <2>2. IsScript(a) /\ Len(a) = 2 /\ IsAddition(a[1]) /\ IsAddition(a[2])
    BY <2>1, AdditionsAre DEF IsScript, ToSet
  <2> QED
    BY <2>2 DEF OnlyAdds
<1>2. OnlyAdds(b) /\ OnlyAdds(c)
  <2>1. /\ IsScript(CommandTriggers) /\ \A i \in 1..Len(CommandTriggers) : CommandTriggers[i] # Enqueue
        /\ IsScript(ProposalTriggers) /\ \A i \in 1..Len(ProposalTriggers) : ProposalTriggers[i] # Enqueue
    BY DEF IsScript, ToSet, CommandTriggers, ProposalTriggers, Enqueue
  <2> QED
    BY <2>1, EachIsAdded
<1>3. OnlyAdds(d)
  BY AdditionsAre DEF OnlyAdds, IsScript, ToSet
<1>4. Control2 = a \o b \o c \o d
  BY DEF Control2
<1> HIDE DEF a, b, c, d
<1> QED
  BY <1>1, <1>2, <1>3, <1>4, CatAdds, Zenon

LEMMA Control3Adds == OnlyAdds(Control3)
<1>1. Len(Control3) = 2 /\ IsScript(Control3)
  BY DEF Control3, IsScript, ToSet
<1>2. IsAddition(Control3[1]) /\ IsAddition(Control3[2])
  BY AdditionsAre DEF Control3
<1> QED
  BY <1>1, <1>2 DEF OnlyAdds

\* The scripts of the control service, statement by statement.
LEMMA Control4Is ==
  /\ Len(Control4) = 11
  /\ \A i \in {1, 3, 7, 8, 9, 10, 11} : IsAddition(Control4[i])
  /\ Control4[1] = Read("device_command")
  /\ Control4[2] = OnlyIfSeen("device_command", CaseColumns)
  /\ Control4[3] = CreateNew("device_command_new", {})
  /\ Control4[4] = Rows("copy", "device_command_new")
  /\ Control4[5] = DropStrict("device_command", "")
  /\ Control4[6] = Rename("device_command_new", "device_command")
  /\ Control4[11] = Commit
<1>1. Len(Control4) = 11
  BY DEF Control4
<1>2. /\ Control4[1] = Read("device_command")
      /\ Control4[2] = OnlyIfSeen("device_command", CaseColumns)
      /\ Control4[3] = CreateNew("device_command_new", {})
      /\ Control4[4] = Rows("copy", "device_command_new")
      /\ Control4[5] = DropStrict("device_command", "")
      /\ Control4[6] = Rename("device_command_new", "device_command")
      /\ Control4[7] = Adds("device_command", "idx_command_device")
      /\ Control4[8] = Adds("device_command", "idx_command_diagnosis")
      /\ Control4[9] = AddsNew("device_command", CommandTriggers[1])
      /\ Control4[10] = AddsNew("device_command", CommandTriggers[2])
      /\ Control4[11] = Commit
  BY DEF Control4
<1>3. /\ Enqueue # "idx_command_device" /\ Enqueue # "idx_command_diagnosis"
      /\ Enqueue # CommandTriggers[1] /\ Enqueue # CommandTriggers[2]
  BY DEF Enqueue, CommandTriggers
<1>4. /\ IsAddition(Control4[1]) /\ IsAddition(Control4[3]) /\ IsAddition(Control4[7])
      /\ IsAddition(Control4[8]) /\ IsAddition(Control4[9]) /\ IsAddition(Control4[10])
      /\ IsAddition(Control4[11])
  BY <1>2, <1>3, AdditionsAre
<1> QED
  BY <1>1, <1>2, <1>4

LEMMA Control5Is ==
  /\ Len(Control5) = 7
  /\ \A i \in {1, 4, 6, 7} : IsAddition(Control5[i]) /\ Control5[i].op # "commit"
  /\ Control5[2] = Rows("settle", "command_outbox")
  /\ Control5[3] = Adds("device_command", Enqueue)
  /\ Control5[5] = Rows("windows", "command_verification")
<1>1. Len(Control5) = 7
  BY DEF Control5
<1>2. /\ Control5[1] = Create("command_outbox", {})
      /\ Control5[2] = Rows("settle", "command_outbox")
      /\ Control5[3] = Adds("device_command", Enqueue)
      /\ Control5[4] = Create("command_verification", {})
      /\ Control5[5] = Rows("windows", "command_verification")
      /\ Control5[6] = Adds("command_outbox", "idx_outbox_pending")
      /\ Control5[7] = Adds("command_verification", "idx_verification_device")
  BY DEF Control5
<1>3. Enqueue # "idx_outbox_pending" /\ Enqueue # "idx_verification_device"
  BY DEF Enqueue
<1>4. /\ IsAddition(Control5[1]) /\ IsAddition(Control5[4]) /\ IsAddition(Control5[6])
      /\ IsAddition(Control5[7])
  BY <1>2, <1>3, AdditionsAre
<1>5. /\ \A t : Create(t, {}).op = "create"
      /\ \A t, n : Adds(t, n).op = "part"
  BY DEF Create, Adds, Statement
<1>6. /\ Control5[1].op # "commit" /\ Control5[4].op # "commit"
      /\ Control5[6].op # "commit" /\ Control5[7].op # "commit"
  BY <1>2, <1>5
<1> QED
  BY <1>1, <1>2, <1>4, <1>6

LEMMA ControlScripts ==
  /\ Scripts["control"] = Control
  /\ Len(Control) = 5 /\ DOMAIN Control = 1..5
  /\ Control[1] = Control1 /\ Control[2] = Control2 /\ Control[3] = Control3
  /\ Control[4] = Control4 /\ Control[5] = Control5
  /\ \A m \in 1..5 : Len(Control[m]) \in Nat
  /\ \A m \in 1..5 : \A i \in 1..Len(Control[m]) :
        \/ IsAddition(Control[m][i])
        \/ m = 4 /\ i \in {2, 4, 5, 6}
        \/ m = 5 /\ i \in {2, 3, 5}
<1>1. Scripts["control"] = Control /\ Len(Control) = 5 /\ DOMAIN Control = 1..5
  BY DEF Scripts, Control
<1>2. /\ Control[1] = Control1 /\ Control[2] = Control2 /\ Control[3] = Control3
      /\ Control[4] = Control4 /\ Control[5] = Control5
  BY DEF Control
<1>3. \A s : OnlyAdds(s) => Len(s) \in Nat /\ \A i \in 1..Len(s) : IsAddition(s[i])
  BY DEF OnlyAdds, IsScript
<1>4. \A m \in 1..3 : OnlyAdds(Control[m])
  BY <1>2, Control1Adds, Control2Adds, Control3Adds
<1>5. ASSUME NEW m \in 1..5
      PROVE  /\ Len(Control[m]) \in Nat
             /\ \A i \in 1..Len(Control[m]) : \/ IsAddition(Control[m][i])
                                              \/ m = 4 /\ i \in {2, 4, 5, 6}
                                              \/ m = 5 /\ i \in {2, 3, 5}
  <2>1. CASE m \in 1..3
    BY <1>3, <1>4, <2>1
  <2>2. CASE m = 4
    <3>1. Len(Control[m]) = 11 /\ \A i \in {1, 3, 7, 8, 9, 10, 11} : IsAddition(Control[m][i])
      BY <1>2, <2>2, Control4Is
    <3> QED
      BY <2>2, <3>1
  <2>3. CASE m = 5
    <3>1. Len(Control[m]) = 7 /\ \A i \in {1, 4, 6, 7} : IsAddition(Control[m][i])
      BY <1>2, <2>3, Control5Is
    <3> QED
      BY <2>3, <3>1
  <2> QED
    BY <2>1, <2>2, <2>3
<1> QED
  BY <1>1, <1>2, <1>5


\* The scripts of the diagnosis service.
LEMMA Diagnosis1Is ==
  /\ Len(Diagnosis1) \in Nat /\ Len(Diagnosis1) > 2
  /\ \A i \in 1..(Len(Diagnosis1) - 2) : IsAddition(Diagnosis1[i])
  /\ Diagnosis1[Len(Diagnosis1) - 1] = Rows("name", "knowledge_document")
  /\ Diagnosis1[Len(Diagnosis1)] = Commit
<1> DEFINE a == <<Create("device", {}),
      Create("device_status", {}), Adds("device_status", "ix_device_status_latest"),
      Create("device_log", {}), Adds("device_log", "ix_device_log_latest"),
      Create("knowledge_document", {"document_id", "chunk_index"}),
      Create("fault_case", {}),
      Create("diagnosis_record", ToSet(RecordCompat)),
      Create("external_sync_outbox", {"claimed_at"}),
      Adds("external_sync_outbox", "ix_external_sync_pending"),
      Read("diagnosis_record")>>
    b == ColumnsUnseen("diagnosis_record", RecordCompat)
    c == <<Read("knowledge_document"),
         ColumnUnseen("knowledge_document", "document_id"),
         ColumnUnseen("knowledge_document", "chunk_index"),
         Read("external_sync_outbox"),
         ColumnUnseen("external_sync_outbox", "claimed_at"),
         Rows("name", "knowledge_document"), Commit>>
<1>1. IsScript(a) /\ Len(a) = 11 /\ OnlyAdds(a)
  <2>1. /\ Enqueue \notin {"document_id", "chunk_index"} /\ Enqueue \notin ToSet(RecordCompat)
        /\ Enqueue \notin {"claimed_at"} /\ Enqueue # "ix_device_status_latest"
        /\ Enqueue # "ix_device_log_latest" /\ Enqueue # "ix_external_sync_pending"
    BY DEF Enqueue, RecordCompat, ToSet
  <2>2. IsScript(a) /\ Len(a) = 11
    BY DEF IsScript, ToSet
  <2>3. /\ IsAddition(a[1]) /\ IsAddition(a[2]) /\ IsAddition(a[3]) /\ IsAddition(a[4])
        /\ IsAddition(a[5]) /\ IsAddition(a[6]) /\ IsAddition(a[7]) /\ IsAddition(a[8])
        /\ IsAddition(a[9]) /\ IsAddition(a[10]) /\ IsAddition(a[11])
    BY <2>1, AdditionsAre
  <2> QED
    BY <2>2, <2>3 DEF OnlyAdds
<1>2. OnlyAdds(b)
  <2>1. IsScript(RecordCompat) /\ \A i \in 1..Len(RecordCompat) : RecordCompat[i] # Enqueue
    BY DEF IsScript, ToSet, RecordCompat, Enqueue
  <2> QED
    BY <2>1, EachIsAdded
<1>3. /\ IsScript(c) /\ Len(c) = 7 /\ \A i \in 1..5 : IsAddition(c[i])
      /\ c[6] = Rows("name", "knowledge_document") /\ c[7] = Commit
  <2>1. Enqueue # "document_id" /\ Enqueue # "chunk_index" /\ Enqueue # "claimed_at"
    BY DEF Enqueue
  <2>2. IsScript(c) /\ Len(c) = 7
    BY DEF IsScript, ToSet
  <2>3. /\ IsAddition(c[1]) /\ IsAddition(c[2]) /\ IsAddition(c[3]) /\ IsAddition(c[4])
        /\ IsAddition(c[5])
    BY <2>1, AdditionsAre
  <2> QED
    BY <2>2, <2>3
<1>4. Diagnosis1 = (a \o b) \o c
  BY DEF Diagnosis1
<1> HIDE DEF a, b, c
<1> DEFINE d == a \o b
<1>5. OnlyAdds(d) /\ IsScript(d) /\ Len(d) \in Nat
  BY <1>1, <1>2, CatAdds, Cat DEF OnlyAdds
<1>6. Diagnosis1 = d \o c
  BY <1>4
<1> HIDE DEF d
<1>7. /\ Len(Diagnosis1) = Len(d) + 7
      /\ \A i \in 1..Len(d) : Diagnosis1[i] = d[i]
      /\ \A i \in 1..7 : Diagnosis1[Len(d) + i] = c[i]
  <2>1. /\ Len(d \o c) = Len(d) + Len(c)
        /\ \A i \in 1..Len(d) : (d \o c)[i] = d[i]
        /\ \A i \in 1..Len(c) : (d \o c)[Len(d) + i] = c[i]
    <3>1. IsScript(d) /\ IsScript(c)
      BY <1>3, <1>5
    <3>2. /\ Len(d \o c) = Len(d) + Len(c)
          /\ \A i \in 1..Len(c) : (d \o c)[Len(d) + i] = c[i]
      BY <3>1, Cat
    <3>3. \A i \in 1..Len(d) : (d \o c)[i] = d[i]
      BY <3>1, Cat
    <3> QED
      BY <3>2, <3>3, Zenon
  <2>2. Len(c) = 7
    BY <1>3
  <2> QED
    BY <1>6, <2>1, <2>2, Zenon
<1>8. Len(Diagnosis1) - 1 = Len(d) + 6
  BY <1>5, <1>7
<1>9. /\ Diagnosis1[Len(Diagnosis1) - 1] = Rows("name", "knowledge_document")
      /\ Diagnosis1[Len(Diagnosis1)] = Commit
  BY <1>3, <1>7, <1>8
<1>10. ASSUME NEW i \in 1..(Len(Diagnosis1) - 2) PROVE IsAddition(Diagnosis1[i])
  <2>1. CASE i <= Len(d)
    <3>1. i \in 1..Len(d)
      BY <1>5, <1>7, <2>1
    <3>2. IsAddition(d[i])
      BY <1>5, <3>1 DEF OnlyAdds
    <3> QED
      BY <1>7, <3>1, <3>2
  <2>2. CASE i > Len(d)
    <3>1. i - Len(d) \in 1..5 /\ i - Len(d) \in 1..7 /\ i = Len(d) + (i - Len(d))
      BY <1>5, <1>7, <2>2
    <3>2. Diagnosis1[i] = c[i - Len(d)]
      BY <1>7, <3>1
    <3> QED
      BY <1>3, <3>1, <3>2
  <2> QED
    BY <1>5, <1>7, <2>1, <2>2
<1>11. Len(Diagnosis1) > 2 /\ Len(Diagnosis1) \in Nat
  BY <1>5, <1>7
<1> QED
  BY <1>9, <1>10, <1>11

LEMMA Diagnosis2Is ==
  /\ Len(Diagnosis2) = 11
  /\ \A i \in 1..7 : IsAddition(Diagnosis2[i])
  /\ Diagnosis2[7] = Read("device_status")
  /\ Diagnosis2[8] = OnlyIfSeen("device_status", {""})
  /\ Diagnosis2[9] = Rows("newest", "device_current_state")
  /\ Diagnosis2[10] = Rename("device_status", "device_status_legacy")
  /\ Diagnosis2[11] = Commit
<1>1. /\ Len(Diagnosis2) = 11
      /\ Diagnosis2[7] = Read("device_status")
      /\ Diagnosis2[8] = OnlyIfSeen("device_status", {""})
      /\ Diagnosis2[9] = Rows("newest", "device_current_state")
      /\ Diagnosis2[10] = Rename("device_status", "device_status_legacy")
      /\ Diagnosis2[11] = Commit
  BY DEF Diagnosis2
<1>2. /\ Enqueue # "updated_at" /\ Enqueue # "uq_device_telemetry_sample"
      /\ Enqueue # "ix_device_telemetry_device"
  BY DEF Enqueue
<1>3. /\ Diagnosis2[1] = Read("device") /\ Diagnosis2[2] = ColumnUnseen("device", "updated_at")
      /\ Diagnosis2[3] = Create("device_current_state", {})
      /\ Diagnosis2[4] = Create("device_telemetry", {})
      /\ Diagnosis2[5] = Adds("device_telemetry", "uq_device_telemetry_sample")
      /\ Diagnosis2[6] = Adds("device_telemetry", "ix_device_telemetry_device")
  BY DEF Diagnosis2
<1>4. /\ IsAddition(Diagnosis2[1]) /\ IsAddition(Diagnosis2[2]) /\ IsAddition(Diagnosis2[3])
      /\ IsAddition(Diagnosis2[4]) /\ IsAddition(Diagnosis2[5]) /\ IsAddition(Diagnosis2[6])
      /\ IsAddition(Diagnosis2[7])
  BY <1>1, <1>2, <1>3, AdditionsAre
<1>5. \A i \in 1..7 : IsAddition(Diagnosis2[i])
  BY <1>4
<1> QED
  BY <1>1, <1>5, Zenon

LEMMA Diagnosis3Is ==
  /\ Len(Diagnosis3) = 2
  /\ \A i \in 1..2 : IsAddition(Diagnosis3[i])
<1>1. /\ Len(Diagnosis3) = 2
      /\ Diagnosis3[1] = Create("rebuild_job", {}) /\ Diagnosis3[2] = Commit
  BY DEF Diagnosis3
<1>2. IsAddition(Diagnosis3[1]) /\ IsAddition(Diagnosis3[2])
  BY <1>1, AdditionsAre
<1> QED
  BY <1>1, <1>2

LEMMA Diagnosis4Is ==
  /\ Len(Diagnosis4) = 9
  /\ \A i \in {1, 2, 3, 4, 6} : IsAddition(Diagnosis4[i])
  /\ Diagnosis4[5] = OnlyWithFts5
  /\ Diagnosis4[6] = Create(Fts, {})
  /\ Diagnosis4[7] = Rows("unindex", Fts)
  /\ Diagnosis4[8] = Rows("index", Fts)
  /\ Diagnosis4[9] = Commit
<1>1. /\ Len(Diagnosis4) = 9
      /\ Diagnosis4[1] = Read("knowledge_document")
      /\ Diagnosis4[2] = ColumnUnseen("knowledge_document", "heading")
      /\ Diagnosis4[3] = ColumnUnseen("knowledge_document", "metadata_json")
      /\ Diagnosis4[4] = ColumnUnseen("knowledge_document", "token_count")
      /\ Diagnosis4[5] = OnlyWithFts5
      /\ Diagnosis4[6] = Create(Fts, {})
      /\ Diagnosis4[7] = Rows("unindex", Fts)
      /\ Diagnosis4[8] = Rows("index", Fts)
      /\ Diagnosis4[9] = Commit
  BY DEF Diagnosis4
<1>2. Enqueue # "heading" /\ Enqueue # "metadata_json" /\ Enqueue # "token_count"
  BY DEF Enqueue
<1>3. /\ IsAddition(Diagnosis4[1]) /\ IsAddition(Diagnosis4[2]) /\ IsAddition(Diagnosis4[3])
      /\ IsAddition(Diagnosis4[4]) /\ IsAddition(Diagnosis4[6])
  BY <1>1, <1>2, AdditionsAre
<1> QED
  BY <1>1, <1>3

LEMMA Diagnosis5Is ==
  /\ Len(Diagnosis5) \in Nat
  /\ \A i \in 1..Len(Diagnosis5) :
        IsAddition(Diagnosis5[i]) \/ Diagnosis5[i] = Rows("govern", "fault_case")
<1> DEFINE a == <<Read("fault_case")>>
           b == ColumnsUnseen("fault_case", CaseGovernance)
           c == <<Rows("govern", "fault_case")>>
           d == EachAdds("fault_case", CaseIndexes)
           e == <<Create("fault_case_feedback", {}),
                  Adds("fault_case_feedback", "ix_fault_case_feedback_fault"), Commit>>
<1> DEFINE Fits(s) == IsScript(s) /\ \A i \in 1..Len(s) : IsAddition(s[i]) \/ s[i] = Rows("govern", "fault_case")
<1>1. Fits(a) /\ Fits(c)
  BY AdditionsAre DEF IsScript, ToSet
<1>2. OnlyAdds(b) /\ OnlyAdds(d)
  <2>1. /\ IsScript(CaseGovernance) /\ \A i \in 1..Len(CaseGovernance) : CaseGovernance[i] # Enqueue
        /\ IsScript(CaseIndexes) /\ \A i \in 1..Len(CaseIndexes) : CaseIndexes[i] # Enqueue
    BY DEF IsScript, ToSet, CaseGovernance, CaseIndexes, Enqueue
  <2> QED
    BY <2>1, EachIsAdded
<1>3. Fits(b) /\ Fits(d)
  BY <1>2 DEF OnlyAdds
<1>4. Fits(e)
  <2>1. Enqueue # "ix_fault_case_feedback_fault"
    BY DEF Enqueue
  <2>2. IsScript(e) /\ Len(e) = 3
    BY DEF IsScript, ToSet
  <2>3. IsAddition(e[1]) /\ IsAddition(e[2]) /\ IsAddition(e[3])
    BY <2>1, AdditionsAre
  <2> QED
    BY <2>2, <2>3
<1>5. Diagnosis5 = (((a \o b) \o c) \o d) \o e
  BY DEF Diagnosis5
<1> HIDE DEF a, b, c, d, e
<1>6. ASSUME NEW s, Fits(s), NEW t, Fits(t) PROVE Fits(s \o t)
  <2>1. ASSUME NEW i \in 1..Len(s \o t)
        PROVE  IsAddition((s \o t)[i]) \/ (s \o t)[i] = Rows("govern", "fault_case")
    <3>0. Len(s) \in Nat /\ Len(t) \in Nat /\ i \in 1..(Len(s) + Len(t))
      BY <1>6, <2>1, Cat
    <3>1. CASE i <= Len(s)
      <4>1. i \in 1..Len(s)
        BY <3>0, <3>1
      <4>2. (s \o t)[i] = s[i]
        BY <1>6, <4>1, Cat
      <4> QED
        BY <1>6, <4>1, <4>2
    <3>2. CASE i > Len(s)
      <4>1. i - Len(s) \in 1..Len(t) /\ i = Len(s) + (i - Len(s))
        BY <3>0, <3>2
      <4>2. (s \o t)[i] = t[i - Len(s)]
        BY <1>6, <4>1, Cat
      <4> QED
        BY <1>6, <4>1, <4>2
    <3> QED
      BY <3>0, <3>1, <3>2
  <2> QED
    BY <1>6, <2>1, Cat
<1>7. \A s : Fits(s) => Len(s) \in Nat
  BY DEF IsScript
<1> HIDE DEF Fits
<1>8. Fits(Diagnosis5)
  BY <1>1, <1>3, <1>4, <1>5, <1>6, Zenon
<1> QED
  BY <1>7, <1>8 DEF Fits

LEMMA Diagnosis6Is ==
  /\ Len(Diagnosis6) = 7
  /\ \A i \in 1..6 : /\ Diagnosis6[i].op = "drop" /\ ~Diagnosis6[i].strict
                     /\ Diagnosis6[i].table \in {"fault_case", "fault_case_feedback"}
                     /\ \E x : Diagnosis6[i].names = {x}
  /\ Diagnosis6[7] = Rows("cancel", "external_sync_outbox")
<1>1. /\ Len(Diagnosis6) = 7
      /\ Diagnosis6[1] = DropIfExists("fault_case_feedback", "")
      /\ Diagnosis6[2] = DropIfExists("fault_case", CaseIndexes[1])
      /\ Diagnosis6[3] = DropIfExists("fault_case", CaseIndexes[2])
      /\ Diagnosis6[4] = DropIfExists("fault_case", CaseIndexes[3])
      /\ Diagnosis6[5] = DropIfExists("fault_case", CaseIndexes[4])
      /\ Diagnosis6[6] = DropIfExists("fault_case", "")
      /\ Diagnosis6[7] = Rows("cancel", "external_sync_outbox")
  BY DEF Diagnosis6
<1> DEFINE Drops(s) == /\ s.op = "drop" /\ ~s.strict
                       /\ s.table \in {"fault_case", "fault_case_feedback"}
                       /\ \E x : s.names = {x}
<1>2. \A t \in {"fault_case", "fault_case_feedback"} : \A x : Drops(DropIfExists(t, x))
  BY DEF DropIfExists, Statement
<1> HIDE DEF Drops
<1>3. /\ Drops(Diagnosis6[1]) /\ Drops(Diagnosis6[2]) /\ Drops(Diagnosis6[3])
      /\ Drops(Diagnosis6[4]) /\ Drops(Diagnosis6[5]) /\ Drops(Diagnosis6[6])
  BY <1>1, <1>2
<1>4. \A i \in 1..6 : Drops(Diagnosis6[i])
  BY <1>3
<1> QED
  BY <1>1, <1>4 DEF Drops

LEMMA DiagnosisScripts ==
  /\ Scripts["diagnosis"] = Diagnosis
  /\ Len(Diagnosis) = 6 /\ DOMAIN Diagnosis = 1..6
  /\ Diagnosis[1] = Diagnosis1 /\ Diagnosis[2] = Diagnosis2 /\ Diagnosis[3] = Diagnosis3
  /\ Diagnosis[4] = Diagnosis4 /\ Diagnosis[5] = Diagnosis5 /\ Diagnosis[6] = Diagnosis6
  /\ \A m \in 1..6 : Len(Diagnosis[m]) \in Nat
<1>1. /\ Scripts["diagnosis"] = Diagnosis
      /\ Len(Diagnosis) = 6 /\ DOMAIN Diagnosis = 1..6
      /\ Diagnosis[1] = Diagnosis1 /\ Diagnosis[2] = Diagnosis2 /\ Diagnosis[3] = Diagnosis3
      /\ Diagnosis[4] = Diagnosis4 /\ Diagnosis[5] = Diagnosis5 /\ Diagnosis[6] = Diagnosis6
  BY DEF Diagnosis, Scripts
<1>2. /\ Len(Diagnosis1) \in Nat /\ Len(Diagnosis2) \in Nat /\ Len(Diagnosis3) \in Nat
      /\ Len(Diagnosis4) \in Nat /\ Len(Diagnosis5) \in Nat /\ Len(Diagnosis6) \in Nat
  <2>1. 11 \in Nat /\ 2 \in Nat /\ 9 \in Nat /\ 7 \in Nat
    OBVIOUS
  <2> QED
    BY <2>1, Diagnosis1Is, Diagnosis2Is, Diagnosis3Is, Diagnosis4Is, Diagnosis5Is, Diagnosis6Is, Zenon
<1> QED
  BY <1>1, <1>2

\* The scripts of the backend.  One that makes new objects only, and none of
\* a given set.
Gained(s) == (IF s.op = "create" THEN {TheTable(s.table)} ELSE {}) \cup Parts(s.table, s.names)

IsNew(s, none) ==
  /\ s.op \in {"create", "part", "column"} /\ s.strict = TRUE
  /\ s.table \notin {"schema_migrations", "alembic_version"}
  /\ s.op # "create" => \E x : s.names = {x}
  /\ Gained(s) \cap none = {}

NewOnly(s, none) == IsScript(s) /\ \A x \in ToSet(s) : IsNew(x, none)

LEMMA CatSet ==
  ASSUME NEW s, IsScript(s), NEW t, IsScript(t)
  PROVE  IsScript(s \o t) /\ ToSet(s \o t) = ToSet(s) \cup ToSet(t)
<1>1. /\ IsScript(s \o t)
      /\ Len(s) \in Nat /\ Len(t) \in Nat
      /\ Len(s \o t) = Len(s) + Len(t)
      /\ \A i \in 1..Len(s) : (s \o t)[i] = s[i]
      /\ \A i \in 1..Len(t) : (s \o t)[Len(s) + i] = t[i]
  BY Cat
<1>2. DOMAIN s = 1..Len(s) /\ DOMAIN t = 1..Len(t) /\ DOMAIN (s \o t) = 1..Len(s \o t)
  BY <1>1 DEF IsScript
<1> DEFINE u == s \o t
<1> HIDE DEF u
<1>3. ASSUME NEW i \in 1..Len(u) PROVE u[i] \in ToSet(s) \cup ToSet(t)
  <2>1. CASE i \in 1..Len(s)
    BY <1>1, <1>2, <2>1 DEF ToSet, u
  <2>2. CASE i \notin 1..Len(s)
    <3>1. i - Len(s) \in 1..Len(t) /\ i = Len(s) + (i - Len(s))
      BY <1>1, <2>2 DEF u
    <3>2. u[i] = t[i - Len(s)]
      BY <1>1, <3>1 DEF u
    <3> QED
      BY <1>2, <3>1, <3>2 DEF ToSet
  <2> QED
    BY <2>1, <2>2
<1>4. ASSUME NEW i \in 1..Len(s) PROVE s[i] \in ToSet(u)
  <2>1. i \in 1..Len(u) /\ u[i] = s[i]
    BY <1>1 DEF u
  <2> QED
    BY <1>2, <2>1 DEF ToSet, u
<1>5. ASSUME NEW i \in 1..Len(t) PROVE t[i] \in ToSet(u)
  <2>1. Len(s) + i \in 1..Len(u) /\ u[Len(s) + i] = t[i]
    BY <1>1 DEF u
  <2> QED
    BY <1>2, <2>1 DEF ToSet, u
<1>6. ToSet(u) = ToSet(s) \cup ToSet(t)
  BY <1>2, <1>3, <1>4, <1>5 DEF ToSet, u
<1> QED
  BY <1>1, <1>6 DEF u

\* One statement per name.
LEMMA EachSet ==
  ASSUME NEW t, NEW names, IsScript(names)
  PROVE  /\ IsScript(EachAdds(t, names))
         /\ ToSet(EachAdds(t, names)) = {Adds(t, n) : n \in ToSet(names)}
         /\ IsScript(EachAddsNew(t, names))
         /\ ToSet(EachAddsNew(t, names)) = {AddsNew(t, n) : n \in ToSet(names)}
         /\ IsScript(ColumnsUnseen(t, names))
         /\ ToSet(ColumnsUnseen(t, names)) = {ColumnUnseen(t, n) : n \in ToSet(names)}
         /\ IsScript(ColumnsNew(t, names))
         /\ ToSet(ColumnsNew(t, names)) = {ColumnNew(t, n) : n \in ToSet(names)}
<1>1. DOMAIN names = 1..Len(names) /\ Len(names) \in Nat
  BY DEF IsScript
<1>2. \A f : (f = [i \in 1..Len(names) |-> f[i]]) => IsScript(f)
  BY <1>1 DEF IsScript, ToSet
<1> QED
  BY <1>1, <1>2 DEF ToSet, EachAdds, EachAddsNew, ColumnsUnseen, ColumnsNew

LEMMA CatNew ==
  ASSUME NEW s, NEW t, NEW none, NewOnly(s, none), NewOnly(t, none)
  PROVE  NewOnly(s \o t, none)
  BY CatSet DEF NewOnly

LEMMA NewStatements ==
  ASSUME NEW t, t \notin {"schema_migrations", "alembic_version"}, NEW none
  PROVE  /\ TheTable(t) \notin none => IsNew(CreateNew(t, {}), none)
         /\ \A n : <<t, n>> \notin none =>
               IsNew(AddsNew(t, n), none) /\ IsNew(ColumnNew(t, n), none)
<1>1. Gained(CreateNew(t, {})) = {TheTable(t)}
  BY DEF Gained, CreateNew, Statement, TheTable, Parts
<1>2. \A n : Gained(AddsNew(t, n)) = {<<t, n>>} /\ Gained(ColumnNew(t, n)) = {<<t, n>>}
  BY DEF Gained, AddsNew, ColumnNew, Statement, Parts
<1>3. /\ CreateNew(t, {}).op = "create" /\ CreateNew(t, {}).strict = TRUE
      /\ CreateNew(t, {}).table = t
      /\ \A n : /\ AddsNew(t, n).op = "part" /\ AddsNew(t, n).strict = TRUE
               /\ AddsNew(t, n).table = t /\ AddsNew(t, n).names = {n}
               /\ ColumnNew(t, n).names = {n}
               /\ ColumnNew(t, n).op = "column" /\ ColumnNew(t, n).strict = TRUE
               /\ ColumnNew(t, n).table = t
  BY DEF CreateNew, AddsNew, ColumnNew, Statement
<1>4. \A x : \A o : x \notin none /\ o = {x} => o \cap none = {}
  OBVIOUS
<1>5. TheTable(t) \notin none => IsNew(CreateNew(t, {}), none)
  BY <1>1, <1>3, <1>4 DEF IsNew
<1>6. ASSUME NEW n, <<t, n>> \notin none
      PROVE  IsNew(AddsNew(t, n), none) /\ IsNew(ColumnNew(t, n), none)
  <2>1. Gained(AddsNew(t, n)) \cap none = {} /\ Gained(ColumnNew(t, n)) \cap none = {}
    BY <1>2, <1>6
  <2> QED
    BY <1>3, <2>1 DEF IsNew
<1> QED
  BY <1>5, <1>6

LEMMA TableNew ==
  ASSUME NEW t, t \notin {"schema_migrations", "alembic_version"}, NEW none, TheTable(t) \notin none,
         NEW names, IsScript(names), \A n \in ToSet(names) : <<t, n>> \notin none
  PROVE  NewOnly(TableWith(t, names), none)
<1>1. IsScript(<<CreateNew(t, {})>>) /\ ToSet(<<CreateNew(t, {})>>) = {CreateNew(t, {})}
  BY DEF IsScript, ToSet
<1>2. NewOnly(<<CreateNew(t, {})>>, none)
  BY <1>1, NewStatements DEF NewOnly
<1>3. NewOnly(EachAddsNew(t, names), none)
  <2>1. /\ IsScript(EachAddsNew(t, names))
        /\ ToSet(EachAddsNew(t, names)) = {AddsNew(t, n) : n \in ToSet(names)}
    BY EachSet
  <2>2. \A n \in ToSet(names) : IsNew(AddsNew(t, n), none)
    BY NewStatements
  <2> QED
    BY <2>1, <2>2 DEF NewOnly
<1> QED
  BY <1>2, <1>3, CatNew DEF TableWith

LEMMA NamesAre ==
  /\ IsScript(<<>>)
  /\ \A a : IsScript(<<a>>)
  /\ \A a, b : IsScript(<<a, b>>)
  /\ \A a, b, c : IsScript(<<a, b, c>>)
  /\ \A a, b, c, d : IsScript(<<a, b, c, d>>)
  /\ \A a, b, c, d, e : IsScript(<<a, b, c, d, e>>)
  /\ \A a, b, c, d, e, f, g : IsScript(<<a, b, c, d, e, f, g>>)
<1>1. IsScript(<<>>)
  BY DEF IsScript, ToSet
<1>2. ASSUME NEW a, NEW b, NEW c, NEW d, NEW e, NEW f, NEW g
      PROVE  /\ IsScript(<<a>>) /\ IsScript(<<a, b>>) /\ IsScript(<<a, b, c>>)
             /\ IsScript(<<a, b, c, d>>) /\ IsScript(<<a, b, c, d, e>>)
             /\ IsScript(<<a, b, c, d, e, f, g>>)
  BY DEF IsScript, ToSet
<1> QED
  BY <1>1, <1>2

LEMMA Backend1New == NewOnly(Accounts \o Chats, {QueuedAt})
<1>1. /\ TheTable("agent_runs") \notin {QueuedAt}
      /\ \A n \in ToSet(<<"ix_agent_runs_conversation_id", "ix_agent_runs_user_id">>) :
            <<"agent_runs", n>> \notin {QueuedAt}
  BY DEF QueuedAt, TheTable, ToSet
<1>2. NewOnly(TableWith("agent_runs",
                <<"ix_agent_runs_conversation_id", "ix_agent_runs_user_id">>), {QueuedAt})
  BY <1>1, NamesAre, TableNew
<1>3. ASSUME NEW t, t # "agent_runs", t \notin {"schema_migrations", "alembic_version"}, NEW names, IsScript(names)
      PROVE  NewOnly(TableWith(t, names), {QueuedAt})
  <2>1. TheTable(t) \notin {QueuedAt} /\ \A n \in ToSet(names) : <<t, n>> \notin {QueuedAt}
    BY <1>3 DEF QueuedAt, TheTable
  <2> QED
    BY <1>3, <2>1, TableNew
<1>4. NewOnly(Accounts, {QueuedAt})
  BY <1>3, NamesAre, CatNew DEF Accounts
<1>5. NewOnly(Chats, {QueuedAt})
  BY <1>2, <1>3, NamesAre, CatNew DEF Chats
<1> QED
  BY <1>4, <1>5, CatNew

LEMMA OthersNew ==
  ASSUME NEW t, t \notin {"schema_migrations", "alembic_version"}
  PROVE  /\ IsNew(CreateNew(t, {}), {}) /\ \A n : IsNew(AddsNew(t, n), {}) /\ IsNew(ColumnNew(t, n), {})
         /\ \A names : IsScript(names) => NewOnly(TableWith(t, names), {})
<1> DEFINE none == {}
<1>1. \A x : x \notin none
  OBVIOUS
<1> HIDE DEF none
<1>2. IsNew(CreateNew(t, {}), none) /\ \A n : IsNew(AddsNew(t, n), none) /\ IsNew(ColumnNew(t, n), none)
  BY <1>1, NewStatements
<1>3. \A names : IsScript(names) => NewOnly(TableWith(t, names), none)
  BY <1>1, TableNew
<1> QED
  BY <1>2, <1>3 DEF none

LEMMA Backend4New == NewOnly(Workflows, {})
  BY OthersNew, NamesAre, CatNew DEF Workflows

LEMMA Backend5New == NewOnly(Snapshots, {})
<1> DEFINE c == "conversation_context_snapshots"
           a == <<CreateNew(c, {}),
                  AddsNew(c, "ix_context_snapshots_conversation_id"),
                  AddsNew(c, "ix_context_snapshots_message_id")>>
<1>1. NewOnly(a, {})
  <2>1. IsScript(a) /\ ToSet(a) = {a[1], a[2], a[3]}
    BY DEF IsScript, ToSet
  <2>2. IsNew(a[1], {}) /\ IsNew(a[2], {}) /\ IsNew(a[3], {})
    BY OthersNew
  <2> QED
    BY <2>1, <2>2 DEF NewOnly
<1>2. NewOnly(TableWith("run_artifacts", <<"ix_run_artifacts_run_id">>), {})
  BY OthersNew, NamesAre
<1> QED
  BY <1>1, <1>2, CatNew DEF Snapshots

LEMMA Backend7New == NewOnly(MemoryTables \o MemorySources, {})
<1>1. ASSUME NEW t, t \notin {"schema_migrations", "alembic_version"}, NEW n PROVE NewOnly(<<AddsNew(t, n)>>, {})
  <2>1. IsScript(<<AddsNew(t, n)>>) /\ ToSet(<<AddsNew(t, n)>>) = {AddsNew(t, n)}
    BY DEF IsScript, ToSet
  <2> QED
    BY <1>1, <2>1, OthersNew DEF NewOnly
<1>2. NewOnly(MemoryTables, {})
  BY <1>1, OthersNew, NamesAre, CatNew DEF MemoryTables
<1>3. NewOnly(MemorySources, {})
  BY OthersNew, NamesAre, CatNew DEF MemorySources
<1> QED
  BY <1>2, <1>3, CatNew

LEMMA Backend2New ==
  /\ IsScript(RunRecovery) /\ Len(RunRecovery) = 8
  /\ RunRecovery[1] = ColumnNew("agent_runs", "queued_at")
  /\ \A i \in 1..7 : IsNew(RunRecovery[i], {})
  /\ RunRecovery[8] = Rows("recover", "agent_runs")
<1> DEFINE names == <<"queued_at", "started_at", "finished_at",
                      "last_progress_at", "attempt_count", "interruption_reason">>
           a == ColumnsNew("agent_runs", names)
           b == <<AddsNew("agent_runs", "ix_agent_runs_status"), Rows("recover", "agent_runs")>>
<1>1. IsScript(b) /\ Len(b) = 2 /\ b[1] = AddsNew("agent_runs", "ix_agent_runs_status")
      /\ b[2] = Rows("recover", "agent_runs")
  BY DEF IsScript, ToSet
<1>2. IsScript(names) /\ Len(names) = 6 /\ DOMAIN names = 1..6 /\ names[1] = "queued_at"
  BY DEF IsScript, ToSet
<1> HIDE DEF names
<1>3. IsScript(a)
  BY <1>2, EachSet
<1>4. a = [i \in 1..6 |-> ColumnNew("agent_runs", names[i])]
  BY <1>2 DEF ColumnsNew
<1>5. Len(a) = 6
  BY <1>3, <1>4 DEF IsScript
<1>6. RunRecovery = a \o b
  BY DEF RunRecovery, names
<1> HIDE DEF a, b
<1>7. /\ IsScript(RunRecovery) /\ Len(RunRecovery) = 8
      /\ \A i \in 1..6 : RunRecovery[i] = a[i]
      /\ RunRecovery[7] = b[1] /\ RunRecovery[8] = b[2]
  <2>1. /\ IsScript(a \o b) /\ Len(a \o b) = Len(a) + Len(b)
        /\ \A i \in 1..Len(a) : (a \o b)[i] = a[i]
        /\ \A i \in 1..Len(b) : (a \o b)[Len(a) + i] = b[i]
    <3>0. IsScript(a) /\ IsScript(b)
      BY <1>1, <1>3
    <3>1. IsScript(a \o b) /\ Len(a \o b) = Len(a) + Len(b)
      BY <3>0, Cat
    <3>2. \A i \in 1..Len(a) : (a \o b)[i] = a[i]
      BY <3>0, Cat, Zenon
    <3>3. /\ Len(a \o b) = Len(a) + Len(b)
          /\ \A i \in 1..Len(b) : (a \o b)[Len(a) + i] = b[i]
      BY <3>0, Cat
    <3> QED
      BY <3>1, <3>2, <3>3
  <2>2. 1 \in 1..Len(b) /\ 2 \in 1..Len(b)
    BY <1>1
  <2>3. (a \o b)[Len(a) + 1] = b[1] /\ (a \o b)[Len(a) + 2] = b[2]
    BY <2>1, <2>2
  <2> QED
    BY <1>1, <1>5, <1>6, <2>1, <2>3
<1>8. \A i \in 1..6 : IsNew(RunRecovery[i], {})
  BY <1>4, <1>7, OthersNew
<1>9. IsNew(RunRecovery[7], {})
  BY <1>1, <1>7, OthersNew
<1> QED
  BY <1>1, <1>2, <1>4, <1>7, <1>8, <1>9

LEMMA BackendScripts ==
  /\ Scripts["backend"] = Backend /\ Len(Backend) = 10 /\ DOMAIN Backend = 1..10
  /\ NewOnly(Backend[1], {QueuedAt})
  /\ Backend[2] = RunRecovery /\ Backend[3] = ServiceKinds /\ Backend[6] = NoWorkflows
  /\ Backend[8] = NoImports
  /\ \A m \in {4, 5, 7, 9, 10} : NewOnly(Backend[m], {})
  /\ \A m \in 1..10 : IsScript(Backend[m]) /\ Len(Backend[m]) \in Nat
<1>1. /\ Scripts["backend"] = Backend /\ Len(Backend) = 10 /\ DOMAIN Backend = 1..10
      /\ Backend[1] = Accounts \o Chats /\ Backend[2] = RunRecovery
      /\ Backend[3] = ServiceKinds /\ Backend[4] = Workflows /\ Backend[5] = Snapshots
      /\ Backend[6] = NoWorkflows /\ Backend[7] = MemoryTables \o MemorySources
      /\ Backend[8] = NoImports /\ Backend[9] = AppliedMemory /\ Backend[10] = Connections
  <2>1. Scripts["backend"] = Backend
    BY DEF Scripts
  <2>2. Len(Backend) = 10 /\ DOMAIN Backend = 1..10
    BY DEF Backend
  <2>3. /\ Backend[1] = Accounts \o Chats /\ Backend[2] = RunRecovery
        /\ Backend[3] = ServiceKinds /\ Backend[4] = Workflows /\ Backend[5] = Snapshots
        /\ Backend[6] = NoWorkflows /\ Backend[7] = MemoryTables \o MemorySources
        /\ Backend[8] = NoImports /\ Backend[9] = AppliedMemory /\ Backend[10] = Connections
    BY DEF Backend
  <2> QED
    BY <2>1, <2>2, <2>3
<1>2. NewOnly(AppliedMemory, {})
  <2>1. IsScript(AppliedMemory) /\ ToSet(AppliedMemory) = {ColumnNew("memory_action_links", "applied_memory_ids")}
    BY DEF AppliedMemory, IsScript, ToSet
  <2> QED
    BY <2>1, OthersNew DEF NewOnly
<1>3. NewOnly(Connections, {})
  <2>1. IsScript(Connections) /\ ToSet(Connections) = {CreateNew("harness_connections", {})}
    BY DEF Connections, IsScript, ToSet
  <2> QED
    BY <2>1, OthersNew DEF NewOnly
<1>4. IsScript(ServiceKinds) /\ IsScript(NoWorkflows) /\ IsScript(NoImports)
  <2>1. \A a, b, c, d, e : IsScript(<<a, b, c, d, e>>)
    BY NamesAre
  <2>2. \A a, b, c : IsScript(<<a, b, c>>)
    BY NamesAre
  <2>3. \A a, b : IsScript(<<a, b>>)
    BY NamesAre
  <2> QED
    BY <2>1, <2>2, <2>3, Zenon DEF ServiceKinds, NoWorkflows, NoImports
<1>5. /\ NewOnly(Backend[1], {QueuedAt})
      /\ NewOnly(Backend[4], {}) /\ NewOnly(Backend[5], {}) /\ NewOnly(Backend[7], {})
      /\ NewOnly(Backend[9], {}) /\ NewOnly(Backend[10], {})
  BY <1>1, <1>2, <1>3, Backend1New, Backend4New, Backend5New, Backend7New
<1>6. \A s, none : NewOnly(s, none) => IsScript(s)
  BY DEF NewOnly
<1>7. \A s : IsScript(s) => Len(s) \in Nat
  BY DEF IsScript
<1>8. \A m \in 1..10 : IsScript(Backend[m])
  <2>1. /\ IsScript(Backend[1]) /\ IsScript(Backend[2]) /\ IsScript(Backend[3])
        /\ IsScript(Backend[4]) /\ IsScript(Backend[5]) /\ IsScript(Backend[6])
        /\ IsScript(Backend[7]) /\ IsScript(Backend[8]) /\ IsScript(Backend[9])
        /\ IsScript(Backend[10])
    BY <1>1, <1>4, <1>5, <1>6, Backend2New
  <2> QED
    BY <2>1
<1> QED
  BY <1>1, <1>5, <1>7, <1>8

\* Each service: its versions, and how long a script is.
LEMMA ScriptsAre ==
  ASSUME svc \in {"control", "diagnosis", "backend"}
  PROVE  /\ LastVersion \in {5, 6, 10} /\ DOMAIN Scripts[svc] = 1..LastVersion
         /\ \A m \in 1..LastVersion : Len(Script(m)) \in Nat
<1>1. CASE svc = "control"
  BY <1>1, ControlScripts DEF LastVersion, Script
<1>2. CASE svc = "diagnosis"
  BY <1>2, DiagnosisScripts DEF LastVersion, Script
<1>3. CASE svc = "backend"
  BY <1>3, BackendScripts DEF LastVersion, Script
<1> QED
  BY <1>1, <1>2, <1>3


-----------------------------------------------------------------------------
(* Records.                                                                 *)

\* What each statement does with the rows.
LEMMA DataAfterIs ==
  ASSUME NEW s, NEW d, IsData(d)
  PROVE  LET a == DataAfter(s, d)
         IN  /\ IsData(a)
             /\ s.op \in {"create", "part", "column", "govern"} => a = d
             /\ s.op = "drop" /\ s.table # "device_command" => a = d
             /\ ~(s.op = "drop" /\ s.table = "device_command")
                  /\ ~(s.op = "rename" /\ s.table = "device_command_new") =>
                   a.commands = d.commands
             /\ s.op = "rename" /\ s.table = "device_command_new" => a.commands = d.copies
             /\ s.op \notin {"copy", "rename"} => a.copies = d.copies
             /\ s.op = "copy" => a.copies = d.commands
             /\ s.op # "settle" => a.outbox = d.outbox
             /\ s.op = "settle" => a.outbox = Added(d.outbox, [c \in d.commands |-> "unknown"])
             /\ s.op # "windows" => a.windows = d.windows
             /\ s.op = "windows" => a.windows = d.windows \cup (d.commands \cap Unverified)
             /\ s.op # "name" => a.unnamed = d.unnamed
             /\ s.op = "name" => a.unnamed = {}
             /\ s.op # "newest" => a.current = d.current
             /\ s.op = "newest" =>
                   a.current = Added(d.current, [x \in d.statuses |-> Newest(StatusRows[x])])
             /\ s.op # "rename" => a.statuses = d.statuses
             /\ s.op = "rename" /\ s.table = "device_status" => a.statuses = {}
             /\ s.op \notin {"unindex", "index"} => a.fts = d.fts
             /\ s.op = "unindex" => a.fts = [x \in DOMAIN d.fts |-> 0]
             /\ s.op = "index" => a.fts = [x \in DOMAIN d.fts |-> d.fts[x] + 1]
             /\ s.op # "cancel" => a.open = d.open
             /\ s.op = "cancel" => a.open = d.open \ CaseEntries
  BY DEF DataAfter, IsData


-----------------------------------------------------------------------------
(* One process moves at a time.                                             *)

OthersStay(p) ==
  /\ Procs' = Procs
  /\ proc' = [q \in Procs |-> proc'[q]]
  /\ \A q \in Procs \ {p} : proc'[q] = proc[q]

LEMMA Moved ==
  ASSUME Shapes, NEW p \in Procs, NEW r, proc' = [proc EXCEPT ![p] = r]
  PROVE  OthersStay(p) /\ proc'[p] = r
  BY DEF Shapes, OthersStay, Procs

LEMMA StepIs ==
  ASSUME NEW p \in Procs, IsProc(proc[p])
  PROVE  /\ Step(p) = [cmd |-> proc[p].cmd, at |-> proc[p].at, m |-> proc[p].m,
                       i |-> proc[p].i + 1, seen |-> proc[p].seen, known |-> proc[p].known,
                       open |-> proc[p].open, work |-> proc[p].work]
  BY DEF IsProc, Step

LEMMA StepWith ==
  ASSUME NEW p \in Procs, IsProc(proc[p]), NEW open, NEW work
  PROVE  /\ [Step(p) EXCEPT !.open = open, !.work = work] =
              [cmd |-> proc[p].cmd, at |-> proc[p].at, m |-> proc[p].m,
               i |-> proc[p].i + 1, seen |-> proc[p].seen, known |-> proc[p].known,
               open |-> open, work |-> work]
         /\ [Step(p) EXCEPT !.work = work] =
              [cmd |-> proc[p].cmd, at |-> proc[p].at, m |-> proc[p].m,
               i |-> proc[p].i + 1, seen |-> proc[p].seen, known |-> proc[p].known,
               open |-> proc[p].open, work |-> work]
<1>1. \A r, x, cmd, at, m, i, seen, known, open1, work1 :
        r = [cmd |-> cmd, at |-> at, m |-> m, i |-> i, seen |-> seen, known |-> known,
             open |-> open1, work |-> work1]
        => /\ [r EXCEPT !.open = x] =
                 [cmd |-> cmd, at |-> at, m |-> m, i |-> i, seen |-> seen, known |-> known,
                  open |-> x, work |-> work1]
           /\ [r EXCEPT !.work = x] =
                 [cmd |-> cmd, at |-> at, m |-> m, i |-> i, seen |-> seen, known |-> known,
                  open |-> open1, work |-> x]
  OBVIOUS
<1> DEFINE r == Step(p)
           s == [r EXCEPT !.open = open]
<1>2. /\ r = [cmd |-> proc[p].cmd, at |-> proc[p].at, m |-> proc[p].m,
             i |-> proc[p].i + 1, seen |-> proc[p].seen, known |-> proc[p].known,
             open |-> proc[p].open, work |-> proc[p].work]
  BY StepIs
<1>3. [Step(p) EXCEPT !.open = open, !.work = work] = [s EXCEPT !.work = work]
  OBVIOUS
<1> HIDE DEF r
<1>4. s = [cmd |-> proc[p].cmd, at |-> proc[p].at, m |-> proc[p].m,
           i |-> proc[p].i + 1, seen |-> proc[p].seen, known |-> proc[p].known,
           open |-> open, work |-> proc[p].work]
  BY <1>1, <1>2
<1> HIDE DEF s
<1>5. [s EXCEPT !.work = work] =
          [cmd |-> proc[p].cmd, at |-> proc[p].at, m |-> proc[p].m,
           i |-> proc[p].i + 1, seen |-> proc[p].seen, known |-> proc[p].known,
           open |-> open, work |-> work]
  BY <1>1, <1>4
<1>6. [r EXCEPT !.work = work] =
          [cmd |-> proc[p].cmd, at |-> proc[p].at, m |-> proc[p].m,
           i |-> proc[p].i + 1, seen |-> proc[p].seen, known |-> proc[p].known,
           open |-> proc[p].open, work |-> work]
  BY <1>1, <1>2
<1> QED
  BY <1>3, <1>5, <1>6 DEF r

\* It is in no script.
Out(p, w) ==
  proc'[p] = [cmd |-> proc[p].cmd, at |-> w, m |-> 0, i |-> 0, seen |-> {},
              known |-> {}, open |-> FALSE, work |-> <<>>]

LEMMA GoIs ==
  ASSUME Shapes, NEW p \in Procs, NEW w, Go(p, w)
  PROVE  OthersStay(p) /\ Out(p, w)
<1>1. OthersStay(p) /\ proc'[p] = [Idle(p) EXCEPT !.at = w]
  BY Moved DEF Go
<1> QED
  BY <1>1 DEF Idle, Out

LEMMA ServiceKept ==
  ASSUME ServiceInv, svc \in {"control", "diagnosis", "backend"}, svc' = svc,
         NEW p \in Procs, OthersStay(p),
         db' = [has |-> db'.has, ver |-> db'.ver, data |-> db'.data], IsData(db'.data),
         db.ver \subseteq db'.ver, VersionsInv', ProcFits(proc[p])',
         proc'[p].open => Unlocked(p)
  PROVE  ServiceInv'
<1>1. Shapes'
  BY DEF Shapes, OthersStay
<1>2. ASSUME NEW q \in Procs' PROVE ProcFits(proc[q])'
  <2>1. CASE q = p
    BY <2>1
  <2>2. CASE q # p
    <3>1. proc'[q] = proc[q] /\ ProcFits(proc[q])
      BY <1>2, <2>2 DEF OthersStay, ServiceInv
    <3>2. LastVersion' = LastVersion /\ Script(proc[q].m)' = Scripts[svc][proc'[q].m]
      BY <3>1 DEF LastVersion, Script
    <3> QED
      BY <3>1, <3>2 DEF ProcFits, IsProc, IsWork, IsData, Runs, LastVersion, Script
  <2> QED
    BY <2>1, <2>2
<1>3. OneTransaction'
  BY DEF OneTransaction, ServiceInv, OthersStay, Unlocked
<1> QED
  BY <1>1, <1>2, <1>3 DEF ServiceInv

\* A process that is in no script, or at the start of one.
Rests(r) ==
  /\ r.open = FALSE
  /\ Runs(r) => r.i = 1 /\ r.seen = {} /\ r.m \in DOMAIN Scripts[svc]

\* The rows and the versions stay, and at most the ledger is made.
Quiet(p) ==
  /\ OthersStay(p) /\ Rests(proc'[p])
  /\ db'.data = db.data /\ db'.ver = db.ver
  /\ db'.has = db.has \/ db'.has = db.has \cup {Ledger[svc]}
  /\ UNCHANGED <<svc, fts5, unqueued, oddly>>

LEMMA SmallestOf ==
  ASSUME NEW S, S \subseteq 1..10, S # {}
  PROVE  \E m \in S : \A n \in S : m <= n
<1>1. \A m \in S : m \in {1, 2, 3, 4, 5, 6, 7, 8, 9, 10}
  OBVIOUS
<1> DEFINE above(k) == \A n \in S : n >= k
           found == \E m \in S : \A n \in S : m <= n
<1>2. above(1) => found \/ above(2)
  BY <1>1
<1>3. above(2) => found \/ above(3)
  BY <1>1
<1>4. above(3) => found \/ above(4)
  BY <1>1
<1>5. above(4) => found \/ above(5)
  BY <1>1
<1>6. above(5) => found \/ above(6)
  BY <1>1
<1>7. above(6) => found \/ above(7)
  BY <1>1
<1>8. above(7) => found \/ above(8)
  BY <1>1
<1>9. above(8) => found \/ above(9)
  BY <1>1
<1>10. above(9) => found \/ above(10)
  BY <1>1
<1>11. above(10) => found
  <2>1. SUFFICES ASSUME above(10) PROVE found
    OBVIOUS
  <2>2. \A n \in S : n = 10
    BY <1>1, <2>1
  <2>3. PICK m \in S : m = 10
    BY <2>2
  <2> QED
    BY <2>2, <2>3
<1>12. above(1)
  BY <1>1
<1> HIDE DEF above, found
<1>13. found
  BY <1>2, <1>3, <1>4, <1>5, <1>6, <1>7, <1>8, <1>9, <1>10, <1>11, <1>12
<1> QED
  BY <1>13 DEF found

\* It begins the next script, or its upgrade is done.
Enters(p, known, ver) ==
  \E m \in 1..LastVersion :
    /\ proc'[p] = [cmd |-> proc[p].cmd, at |-> "run", m |-> m, i |-> 1, seen |-> {},
                   known |-> known, open |-> FALSE, work |-> <<>>]
    /\ 1..(m - 1) \subseteq ver
Ends == IF svc = "backend" THEN {"serving", "verify"} ELSE {"seed", "serving", "init"}
Leaves(p, ver) == LastVersion \in ver /\ \E w \in Ends : Out(p, w)

\* Where an upgrade goes on, given the versions that are recorded by then.
LEMMA ContinueIs ==
  ASSUME Shapes, svc \in {"control", "diagnosis", "backend"}, NEW p \in Procs,
         NEW after \in 0..LastVersion, NEW known, NEW ver,
         known \subseteq ver, 1..after \subseteq ver, ver \subseteq 1..LastVersion,
         Continue(p, after, known)
  PROVE  OthersStay(p) /\ (Enters(p, known, ver) \/ Leaves(p, ver))
<1> DEFINE pending == {m \in DOMAIN Scripts[svc] : m > after /\ m \notin known}
<1>1. LastVersion \in {5, 6, 10} /\ DOMAIN Scripts[svc] = 1..LastVersion
  BY ScriptsAre
<1>2. CASE pending # {}
  <2> DEFINE m == CHOOSE m \in pending : \A n \in pending : m <= n
  <2>1. m \in pending /\ \A n \in pending : m <= n
    <3>1. pending \subseteq 1..10
      BY <1>1
    <3> HIDE DEF pending
    <3>2. \E x \in pending : \A n \in pending : x <= n
      BY <1>2, <3>1, SmallestOf
    <3> QED
      BY <3>2
  <2>2. proc' = [proc EXCEPT ![p] = [Idle(p) EXCEPT !.at = "run", !.known = known, !.i = 1, !.m = m]]
    BY <1>2 DEF Continue
  <2>3. 1..(m - 1) \subseteq ver
    BY <1>1, <2>1
  <2>4. m \in 1..LastVersion
    BY <1>1, <2>1
  <2> HIDE DEF m, pending
  <2>5. OthersStay(p) /\ proc'[p] = [Idle(p) EXCEPT !.at = "run", !.known = known, !.i = 1, !.m = m]
    BY <2>2, Moved
  <2>6. proc'[p] = [cmd |-> proc[p].cmd, at |-> "run", m |-> m, i |-> 1, seen |-> {},
                    known |-> known, open |-> FALSE, work |-> <<>>]
    BY <2>5 DEF Idle
  <2> QED
    BY <2>3, <2>4, <2>5, <2>6 DEF Enters
<1>3. CASE pending = {}
  <2>1. LastVersion \in ver
    BY <1>1, <1>3
  <2>2. PICK w \in Ends : Go(p, w)
    BY <1>3 DEF Continue, Serve, Ends
  <2> QED
    BY <2>1, <2>2, GoIs DEF Leaves
<1> QED
  BY <1>2, <1>3

LEMMA LedgerOnly ==
  ASSUME Shapes, db' = db \/ db' = [db EXCEPT !.has = @ \cup {Ledger[svc]}]
  PROVE  /\ db' = [has |-> db'.has, ver |-> db.ver, data |-> db.data]
         /\ db'.has = db.has \/ db'.has = db.has \cup {Ledger[svc]}
  BY DEF Shapes

LEMMA QuietSteps ==
  ASSUME ServiceInv, svc \in {"control", "diagnosis", "backend"}, NEW p \in Procs,
         \/ Start(p) \/ Initialize(p) \/ Verify(p) \/ Deploy(p) \/ Connect(p) \/ Fail(p)
         \/ Crash(p)
  PROVE  Quiet(p) /\ ServiceInv'
<1> USE DEF ServiceInv
<1>1. /\ db' = [has |-> db'.has, ver |-> db.ver, data |-> db.data]
      /\ db'.has = db.has \/ db'.has = db.has \cup {Ledger[svc]}
      /\ UNCHANGED <<svc, fts5, unqueued, oddly>>
  BY LedgerOnly DEF Start, Initialize, Verify, Deploy, Connect, Fail, NoStep, Crash
<1>2. db'.ver = db.ver /\ db'.data = db.data /\ IsData(db'.data)
  BY <1>1 DEF Shapes
<1>3. VersionsInv'
  BY <1>1, <1>2 DEF VersionsInv
<1>4. LastVersion \in {5, 6, 10} /\ DOMAIN Scripts[svc] = 1..LastVersion
      /\ \A m \in 1..LastVersion : Len(Script(m)) \in Nat
  BY ScriptsAre
<1>5. ASSUME NEW w, w # "run",
             w \notin IF svc = "backend" THEN {"init", "seed"} ELSE {"deploy", "stamp"},
             w \in {"seed", "serving"} => LastVersion \in db.ver, OthersStay(p), Out(p, w)
      PROVE  Quiet(p) /\ ServiceInv'
  <2>1. Rests(proc'[p])
    BY <1>5 DEF Rests, Runs, Out
  <2>2. ProcFits(proc[p])'
    BY <1>1, <1>2, <1>5 DEF ProcFits, IsProc, Runs, LastVersion, Out
  <2> QED
    BY <1>1, <1>2, <1>3, <1>5, <2>1, <2>2, ServiceKept DEF Quiet, Rests
<1>6. CASE Start(p)
  <2>1. PICK w \in IF svc = "backend" THEN {"connect", "deploy"} ELSE {"connect", "init"} : Go(p, w)
    BY <1>6 DEF Start
  <2> QED
    BY <1>5, <2>1, GoIs
<1>7. CASE Initialize(p)
  <2>1. PICK w \in {"connect", "verify"} : Go(p, w)
    BY <1>7 DEF Initialize
  <2> QED
    BY <1>5, <2>1, GoIs
<1>8. CASE Verify(p)
  <2>1. PICK w \in IF svc = "backend" THEN {"serving", "refused"} ELSE {"seed", "serving", "refused"} :
          Go(p, w) /\ (w \in {"seed", "serving"} => LastVersion \in db.ver)
    BY <1>8 DEF Verify, Serve
  <2> QED
    BY <1>5, <2>1, GoIs
<1>9. CASE Connect(p)
  <2>1. 0 \in 0..LastVersion /\ 1..0 \subseteq db.ver /\ db.ver \subseteq 1..LastVersion
    BY <1>4 DEF VersionsInv
  <2>2. Continue(p, 0, db.ver)
    BY <1>9 DEF Connect
  <2>3. OthersStay(p)
    BY <2>1, <2>2, ContinueIs
  <2>4. CASE Leaves(p, db.ver)
    BY <1>5, <2>3, <2>4 DEF Leaves, Ends
  <2>5. CASE Enters(p, db.ver, db.ver)
    <3>1. PICK m \in 1..LastVersion :
               /\ proc'[p] = [cmd |-> proc[p].cmd, at |-> "run", m |-> m, i |-> 1, seen |-> {},
                              known |-> db.ver, open |-> FALSE, work |-> <<>>]
               /\ 1..(m - 1) \subseteq db.ver
      BY <2>5 DEF Enters
    <3>2. Rests(proc'[p])
      BY <1>4, <3>1 DEF Rests, Runs
    <3>3. Len(Script(m)) \in Nat /\ Script(m)' = Script(m)
      BY <1>1, <1>4 DEF Script
    <3>4. ProcFits(proc[p])'
      BY <1>1, <1>2, <1>4, <3>1, <3>3 DEF ProcFits, IsProc, Runs
    <3> QED
      BY <1>1, <1>2, <1>3, <2>3, <3>2, <3>4, ServiceKept DEF Quiet, Rests
  <2>6. Enters(p, db.ver, db.ver) \/ Leaves(p, db.ver)
    BY <2>1, <2>2, ContinueIs
  <2> QED
    BY <2>4, <2>5, <2>6, Zenon
<1>10. CASE Fail(p)
  <2>1. PICK w \in {"failed"} : Go(p, w)
    BY <1>10 DEF Fail
  <2> QED
    BY <1>5, <2>1, GoIs
<1>11. CASE Crash(p)
  <2>1. OthersStay(p) /\ proc'[p] = Idle(p)
    BY <1>11, Moved DEF Crash
  <2> QED
    BY <1>5, <2>1 DEF Idle, Out
<1>12. CASE Deploy(p)
  <2>1. svc = "backend"
    BY <1>12 DEF Deploy, ProcFits
  <2>2. PICK w \in {"connect", "stamp", "refused", "verify"} : Go(p, w)
    BY <1>12 DEF Deploy
  <2> QED
    BY <1>5, <2>1, <2>2, GoIs
<1> QED
  BY <1>6, <1>7, <1>8, <1>9, <1>10, <1>11, <1>12


-----------------------------------------------------------------------------
(* The statements of a script.                                              *)

Proceeds(p, i, seen, open, work) ==
  /\ OthersStay(p)
  /\ proc'[p] = [cmd |-> proc[p].cmd, at |-> "run", m |-> proc[p].m, i |-> i, seen |-> seen,
                 known |-> proc[p].known, open |-> open, work |-> work]

LEMMA InScriptIs ==
  ASSUME ServiceInv, svc \in {"control", "diagnosis", "backend"}, NEW p \in Procs, InScript(p)
  PROVE  /\ proc[p].at = "run" /\ proc[p].m \in 1..LastVersion
         /\ Len(Script(proc[p].m)) \in Nat
         /\ proc[p].i \in 1..Len(Script(proc[p].m))
         /\ proc[p].open \in BOOLEAN
         /\ IsProc(proc[p]) /\ IsWork(View(p))
         /\ proc[p].open => Unlocked(p) /\ View(p) = proc[p].work
         /\ ~proc[p].open => View(p).has = db.has /\ View(p).data = db.data
<1>1. /\ DOMAIN Scripts[svc] = 1..LastVersion
      /\ \A m \in 1..LastVersion : Len(Script(m)) \in Nat
  BY ScriptsAre
<1>2. ProcFits(proc[p])
  BY DEF ServiceInv
<1>3. /\ proc[p].at = "run" /\ proc[p].m \in 1..LastVersion
      /\ Len(Script(proc[p].m)) \in Nat
      /\ proc[p].i \in 1..Len(Script(proc[p].m))
      /\ proc[p].open \in BOOLEAN /\ IsProc(proc[p])
  BY <1>1, <1>2 DEF ProcFits, Runs, InScript
<1>4. IsWork(View(p))
  BY <1>2 DEF View, ProcFits, IsWork, ServiceInv, Shapes
<1>5. proc[p].open => Unlocked(p)
  BY DEF ServiceInv, OneTransaction, Unlocked
<1> QED
  BY <1>3, <1>4, <1>5 DEF View

\* ServiceInv goes on to hold.
LEMMA ProceedsFits ==
  ASSUME ServiceInv, svc \in {"control", "diagnosis", "backend"}, svc' = svc,
         NEW p \in Procs, InScript(p),
         NEW i \in 1..(Len(Script(proc[p].m)) + 1), NEW seen, NEW open \in BOOLEAN, NEW work,
         Proceeds(p, i, seen, open, work), open => IsWork(work) /\ Unlocked(p),
         db' = [has |-> db'.has, ver |-> db.ver, data |-> db'.data], IsData(db'.data)
  PROVE  ServiceInv'
<1>1. ProcFits(proc[p])
  BY DEF ServiceInv
<1>2. db'.ver = db.ver
  OBVIOUS
<1>3. Script(proc[p].m)' = Script(proc[p].m) /\ LastVersion' = LastVersion
  BY DEF Script, LastVersion, Proceeds
<1>4. ProcFits(proc[p])'
  BY <1>1, <1>2, <1>3 DEF ProcFits, Proceeds, IsProc, Runs, InScript, IsWork, IsData
<1>5. VersionsInv'
  BY <1>2 DEF VersionsInv, ServiceInv
<1>6. proc'[p].open => Unlocked(p)
  BY DEF Proceeds
<1>7. db' = [has |-> db'.has, ver |-> db'.ver, data |-> db'.data]
  BY <1>2
<1>8. OthersStay(p)
  BY DEF Proceeds
<1> QED
  BY <1>2, <1>4, <1>5, <1>6, <1>7, <1>8, ServiceKept

LEMMA LookIs ==
  ASSUME ServiceInv, svc \in {"control", "diagnosis", "backend"}, NEW p \in Procs, Look(p)
  PROVE  /\ Proceeds(p, proc[p].i + 1, Of(At(p).table, View(p).has), proc[p].open, proc[p].work)
         /\ UNCHANGED <<db, svc, fts5, unqueued, oddly>>
         /\ ServiceInv'
<1>1. InScript(p)
  BY DEF Look
<1> DEFINE seen == Of(At(p).table, View(p).has)
<1>2. proc' = [proc EXCEPT ![p] = [Step(p) EXCEPT !.seen = seen]]
      /\ UNCHANGED <<db, svc, fts5, unqueued, oddly>>
  BY DEF Look, NoStep
<1> HIDE DEF seen
<1>3. Proceeds(p, proc[p].i + 1, seen, proc[p].open, proc[p].work)
  <2>1. OthersStay(p) /\ proc'[p] = [Step(p) EXCEPT !.seen = seen]
    BY <1>2, Moved DEF ServiceInv
  <2> QED
    BY <1>1, <2>1, InScriptIs, StepIs DEF Proceeds
<1>4. ServiceInv'
  <2>1. /\ proc[p].i + 1 \in 1..(Len(Script(proc[p].m)) + 1) /\ proc[p].open \in BOOLEAN
        /\ proc[p].open => IsWork(proc[p].work) /\ Unlocked(p)
    BY <1>1, InScriptIs
  <2>2. db' = [has |-> db'.has, ver |-> db.ver, data |-> db'.data] /\ IsData(db'.data)
    BY <1>2 DEF ServiceInv, Shapes
  <2> QED
    BY <1>1, <1>2, <1>3, <2>1, <2>2, ProceedsFits
<1> QED
  BY <1>2, <1>3, <1>4 DEF seen

\* Passed over, or the end of the script.
LEMMA PassIs ==
  ASSUME ServiceInv, svc \in {"control", "diagnosis", "backend"}, NEW p \in Procs, Pass(p)
  PROVE  /\ \/ /\ IsIdle(At(p), View(p).has, proc[p].seen)
               /\ Proceeds(p, proc[p].i + 1, proc[p].seen, proc[p].open, proc[p].work)
            \/ /\ At(p).op \in {"only", "fts5"}
               /\ Proceeds(p, IF IF At(p).op = "fts5" THEN fts5
                                 ELSE Parts(At(p).table, At(p).names) \cap proc[p].seen # {}
                              THEN proc[p].i + 1 ELSE Len(Script(proc[p].m)) + 1,
                           proc[p].seen, proc[p].open, proc[p].work)
         /\ UNCHANGED <<db, svc, fts5, unqueued, oddly>>
         /\ ServiceInv'
<1> DEFINE on == IF At(p).op = "fts5" THEN fts5
                 ELSE Parts(At(p).table, At(p).names) \cap proc[p].seen # {}
           end == Len(Script(proc[p].m)) + 1
           goes(i) == Proceeds(p, i, proc[p].seen, proc[p].open, proc[p].work)
<1>1. InScript(p) /\ UNCHANGED <<db, svc, fts5, unqueued, oddly>>
  BY DEF Pass, NoStep
<1>2. /\ proc[p].i + 1 \in 1..end /\ end \in 1..end /\ proc[p].open \in BOOLEAN
      /\ proc[p].open => IsWork(proc[p].work) /\ Unlocked(p)
  BY <1>1, InScriptIs
<1>3. db' = [has |-> db'.has, ver |-> db.ver, data |-> db'.data] /\ IsData(db'.data)
  BY <1>1 DEF ServiceInv, Shapes
<1>4. ASSUME NEW i \in 1..end, goes(i) PROVE ServiceInv'
  BY <1>1, <1>2, <1>3, <1>4, ProceedsFits
<1>5. CASE IsIdle(At(p), View(p).has, proc[p].seen) /\ proc' = [proc EXCEPT ![p] = Step(p)]
  <2>1. goes(proc[p].i + 1)
    <3>1. OthersStay(p) /\ proc'[p] = Step(p)
      BY <1>5, Moved DEF ServiceInv
    <3> QED
      BY <1>1, <3>1, InScriptIs, StepIs DEF Proceeds
  <2>2. ServiceInv'
    BY <1>2, <1>4, <2>1
  <2> QED
    BY <1>1, <1>5, <2>1, <2>2
<1>6. CASE /\ At(p).op \in {"only", "fts5"}
           /\ proc' = [proc EXCEPT ![p] =
                [Step(p) EXCEPT !.i = IF on THEN proc[p].i + 1 ELSE end]]
  <2> HIDE DEF on, end
  <2>1. goes(IF on THEN proc[p].i + 1 ELSE end)
    <3>1. OthersStay(p) /\ proc'[p] = [Step(p) EXCEPT !.i = IF on THEN proc[p].i + 1 ELSE end]
      BY <1>6, Moved DEF ServiceInv
    <3> QED
      BY <1>1, <3>1, InScriptIs, StepIs DEF Proceeds
  <2>2. (IF on THEN proc[p].i + 1 ELSE end) \in 1..end
    BY <1>2
  <2> HIDE DEF goes
  <2>3. ServiceInv'
    BY <1>4, <2>1, <2>2
  <2> QED
    BY <1>1, <1>6, <2>1, <2>3 DEF goes, on, end
<1> QED
  BY <1>5, <1>6 DEF Pass


\* The database after a statement that changes the schema.
HasAfter(p) == SchemaAfter(At(p), View(p).has)
RowsAfter(p) == DataAfter(At(p), View(p).data)

LEMMA AlterIs ==
  ASSUME ServiceInv, svc \in {"control", "diagnosis", "backend"}, NEW p \in Procs, Alter(p)
  PROVE  /\ InScript(p) /\ IsSchema(At(p)) /\ Unlocked(p)
         /\ ~IsIdle(At(p), View(p).has, proc[p].seen) /\ ~IsError(At(p), View(p).has)
         /\ proc[p].open =>
              /\ Proceeds(p, proc[p].i + 1, proc[p].seen, TRUE,
                          [has |-> HasAfter(p), data |-> RowsAfter(p)])
              /\ UNCHANGED <<db, oddly>>
         /\ ~proc[p].open =>
              /\ Proceeds(p, proc[p].i + 1, proc[p].seen, FALSE, proc[p].work)
              /\ db' = [has |-> HasAfter(p), data |-> RowsAfter(p), ver |-> db.ver]
              /\ oddly' = IF IsLate(p) THEN oddly \cup {"late"} ELSE oddly
         /\ UNCHANGED <<svc, fts5, unqueued>>
         /\ ServiceInv'
<1> DEFINE after == [has |-> HasAfter(p), data |-> RowsAfter(p)]
<1>1. /\ InScript(p) /\ IsSchema(At(p)) /\ Unlocked(p)
      /\ ~IsIdle(At(p), View(p).has, proc[p].seen) /\ ~IsError(At(p), View(p).has)
      /\ UNCHANGED <<svc, fts5, unqueued>>
  BY DEF Alter, NoStep
<1>2. /\ proc[p].open =>
           /\ proc' = [proc EXCEPT ![p] = [Step(p) EXCEPT !.work = after]]
           /\ UNCHANGED <<db, oddly>>
      /\ ~proc[p].open =>
           /\ db' = [has |-> after.has, data |-> after.data, ver |-> db.ver]
           /\ oddly' = IF IsLate(p) THEN oddly \cup {"late"} ELSE oddly
           /\ proc' = [proc EXCEPT ![p] = Step(p)]
  BY DEF Alter, HasAfter, RowsAfter
<1>3. IsWork(after) /\ after.has = HasAfter(p) /\ after.data = RowsAfter(p)
  BY <1>1, InScriptIs, DataAfterIs DEF IsWork, RowsAfter
<1> HIDE DEF after
<1>4. proc[p].i + 1 \in 1..(Len(Script(proc[p].m)) + 1)
  BY <1>1, InScriptIs
<1>5. CASE proc[p].open
  <2>1. OthersStay(p) /\ proc'[p] = [Step(p) EXCEPT !.work = after]
    BY <1>2, <1>5, Moved DEF ServiceInv
  <2>2. proc[p].open = TRUE
    BY <1>1, <1>5, InScriptIs
  <2>3. Proceeds(p, proc[p].i + 1, proc[p].seen, TRUE, after)
    <3>1. /\ IsProc(proc[p]) /\ proc[p].at = "run"
      BY <1>1, InScriptIs
    <3>2. [Step(p) EXCEPT !.work = after] =
            [cmd |-> proc[p].cmd, at |-> proc[p].at, m |-> proc[p].m,
             i |-> proc[p].i + 1, seen |-> proc[p].seen, known |-> proc[p].known,
             open |-> proc[p].open, work |-> after]
      BY <3>1, StepWith, Zenon
    <3> QED
      BY <2>1, <2>2, <3>1, <3>2 DEF Proceeds
  <2>4. db' = [has |-> db'.has, ver |-> db.ver, data |-> db'.data] /\ IsData(db'.data)
    BY <1>2, <1>5 DEF ServiceInv, Shapes
  <2>5. ServiceInv'
    BY <1>1, <1>3, <1>4, <2>3, <2>4, ProceedsFits
  <2> QED
    BY <1>1, <1>2, <1>5, <2>3, <2>5 DEF after
<1>6. CASE ~proc[p].open
  <2>1. OthersStay(p) /\ proc'[p] = Step(p)
    BY <1>2, <1>6, Moved DEF ServiceInv
  <2>2. proc[p].open = FALSE
    BY <1>1, <1>6, InScriptIs
  <2>3. Proceeds(p, proc[p].i + 1, proc[p].seen, FALSE, proc[p].work)
    BY <1>1, <2>1, <2>2, InScriptIs, StepIs DEF Proceeds
  <2>4. db' = [has |-> db'.has, ver |-> db.ver, data |-> db'.data] /\ IsData(db'.data)
    BY <1>2, <1>3, <1>6 DEF IsWork
  <2>5. ServiceInv'
    BY <1>1, <1>3, <1>4, <2>3, <2>4, ProceedsFits
  <2> QED
    BY <1>1, <1>2, <1>3, <1>6, <2>3, <2>5
<1> QED
  BY <1>5, <1>6

LEMMA WriteIs ==
  ASSUME ServiceInv, svc \in {"control", "diagnosis", "backend"}, NEW p \in Procs, Write(p)
  PROVE  /\ InScript(p) /\ IsRows(At(p)) /\ Unlocked(p) /\ ~IsError(At(p), View(p).has)
         /\ \/ /\ At(p).op = "newest" /\ View(p).data.statuses = {}
               /\ Proceeds(p, proc[p].i + 1, proc[p].seen, proc[p].open, proc[p].work)
            \/ /\ At(p).op # "newest" \/ View(p).data.statuses # {}
               /\ Proceeds(p, proc[p].i + 1, proc[p].seen, TRUE,
                           [has |-> View(p).has, data |-> RowsAfter(p)])
         /\ UNCHANGED <<db, svc, fts5, unqueued, oddly>>
         /\ ServiceInv'
<1> DEFINE after == [has |-> View(p).has, data |-> RowsAfter(p)]
           opens == At(p).op # "newest" \/ View(p).data.statuses # {}
<1>1. /\ InScript(p) /\ IsRows(At(p)) /\ Unlocked(p) /\ ~IsError(At(p), View(p).has)
      /\ UNCHANGED <<db, svc, fts5, unqueued, oddly>>
      /\ proc' = [proc EXCEPT ![p] =
               IF opens THEN [Step(p) EXCEPT !.open = TRUE, !.work = after] ELSE Step(p)]
  BY DEF Write, NoStep, RowsAfter
<1>2. IsWork(after)
  BY <1>1, InScriptIs, DataAfterIs DEF IsWork, RowsAfter
<1>3. proc[p].i + 1 \in 1..(Len(Script(proc[p].m)) + 1)
  BY <1>1, InScriptIs
<1>4. db' = [has |-> db'.has, ver |-> db.ver, data |-> db'.data] /\ IsData(db'.data)
  BY <1>1 DEF ServiceInv, Shapes
<1> HIDE DEF after
<1>5. CASE opens
  <2>0. proc' = [proc EXCEPT ![p] = [Step(p) EXCEPT !.open = TRUE, !.work = after]]
    BY <1>1, <1>5
  <2>1. OthersStay(p) /\ proc'[p] = [Step(p) EXCEPT !.open = TRUE, !.work = after]
    BY <2>0, Moved DEF ServiceInv
  <2>2. Proceeds(p, proc[p].i + 1, proc[p].seen, TRUE, after)
    <3>1. IsProc(proc[p]) /\ proc[p].at = "run"
      BY <1>1, InScriptIs
    <3>2. [Step(p) EXCEPT !.open = TRUE, !.work = after] =
            [cmd |-> proc[p].cmd, at |-> proc[p].at, m |-> proc[p].m,
             i |-> proc[p].i + 1, seen |-> proc[p].seen, known |-> proc[p].known,
             open |-> TRUE, work |-> after]
      BY <3>1, StepWith, Zenon
    <3> QED
      BY <2>1, <3>1, <3>2 DEF Proceeds
  <2>3. ServiceInv'
    BY <1>1, <1>2, <1>3, <1>4, <2>2, ProceedsFits
  <2> QED
    BY <1>1, <1>5, <2>2, <2>3 DEF after
<1>6. CASE ~opens
  <2>0. proc' = [proc EXCEPT ![p] = Step(p)]
    BY <1>1, <1>6
  <2>1. OthersStay(p) /\ proc'[p] = Step(p)
    BY <2>0, Moved DEF ServiceInv
  <2>2. Proceeds(p, proc[p].i + 1, proc[p].seen, proc[p].open, proc[p].work)
    BY <1>1, <2>1, InScriptIs, StepIs DEF Proceeds
  <2>3. proc[p].open \in BOOLEAN /\ (proc[p].open => IsWork(proc[p].work) /\ Unlocked(p))
    BY <1>1, InScriptIs
  <2>4. ServiceInv'
    BY <1>1, <1>3, <1>4, <2>2, <2>3, ProceedsFits
  <2> QED
    BY <1>1, <1>6, <2>2, <2>4
<1> QED
  BY <1>5, <1>6

LEMMA CommitIs ==
  ASSUME ServiceInv, svc \in {"control", "diagnosis", "backend"}, NEW p \in Procs, CommitRows(p)
  PROVE  /\ InScript(p) /\ At(p).op = "commit"
         /\ Proceeds(p, proc[p].i + 1, proc[p].seen, FALSE, <<>>)
         /\ db' = [has |-> View(p).has, data |-> View(p).data, ver |-> db.ver]
         /\ oddly' = IF proc[p].open /\ IsLate(p) /\ View(p).has # db.has
                     THEN oddly \cup {"late"} ELSE oddly
         /\ UNCHANGED <<svc, fts5, unqueued>>
         /\ ServiceInv'
<1>1. /\ InScript(p) /\ At(p).op = "commit"
      /\ db' = [has |-> View(p).has, data |-> View(p).data, ver |-> db.ver]
      /\ oddly' = IF proc[p].open /\ IsLate(p) /\ View(p).has # db.has
                  THEN oddly \cup {"late"} ELSE oddly
      /\ proc' = [proc EXCEPT ![p] = [Step(p) EXCEPT !.open = FALSE, !.work = <<>>]]
      /\ UNCHANGED <<svc, fts5, unqueued>>
  BY DEF CommitRows, NoStep
<1>2. OthersStay(p) /\ proc'[p] = [Step(p) EXCEPT !.open = FALSE, !.work = <<>>]
  BY <1>1, Moved DEF ServiceInv
<1>3. Proceeds(p, proc[p].i + 1, proc[p].seen, FALSE, <<>>)
  <2>1. IsProc(proc[p]) /\ proc[p].at = "run"
    BY <1>1, InScriptIs
  <2>2. [Step(p) EXCEPT !.open = FALSE, !.work = <<>>] =
          [cmd |-> proc[p].cmd, at |-> proc[p].at, m |-> proc[p].m,
           i |-> proc[p].i + 1, seen |-> proc[p].seen, known |-> proc[p].known,
           open |-> FALSE, work |-> <<>>]
    BY <2>1, StepWith, Zenon
  <2> QED
    BY <1>2, <2>1, <2>2 DEF Proceeds
<1>4. db' = [has |-> db'.has, ver |-> db.ver, data |-> db'.data] /\ IsData(db'.data)
  BY <1>1, InScriptIs DEF IsWork
<1>5. proc[p].i + 1 \in 1..(Len(Script(proc[p].m)) + 1)
  BY <1>1, InScriptIs
<1>6. ServiceInv'
  BY <1>1, <1>3, <1>4, <1>5, ProceedsFits
<1> QED
  BY <1>1, <1>3, <1>6

LEMMA RecordIs ==
  ASSUME ServiceInv, svc \in {"control", "diagnosis", "backend"}, NEW p \in Procs, Record(p)
  PROVE  /\ OthersStay(p) /\ Rests(proc'[p])
         /\ Runs(proc[p]) /\ proc[p].i = Len(Script(proc[p].m)) + 1
         /\ proc[p].m \notin db.ver /\ Unlocked(p)
         /\ db' = [has |-> View(p).has, data |-> View(p).data, ver |-> db.ver \cup {proc[p].m}]
         /\ UNCHANGED <<svc, fts5, unqueued, oddly>>
         /\ ServiceInv'
<1> DEFINE m == proc[p].m
           ver == db.ver \cup {m}
<1>1. /\ proc[p].at = "run" /\ ~InScript(p) /\ Unlocked(p) /\ m \notin db.ver
      /\ db' = [has |-> View(p).has, data |-> View(p).data, ver |-> ver]
      /\ Continue(p, m, proc[p].known)
      /\ UNCHANGED <<svc, fts5, unqueued, oddly>>
  BY DEF Record, NoStep
<1>2. /\ LastVersion \in {5, 6, 10} /\ DOMAIN Scripts[svc] = 1..LastVersion
      /\ \A n \in 1..LastVersion : Len(Script(n)) \in Nat
  BY ScriptsAre
<1>3. ProcFits(proc[p])
  BY DEF ServiceInv
<1>4. /\ m \in 1..LastVersion /\ 1..(m - 1) \subseteq db.ver /\ proc[p].known \subseteq db.ver
      /\ proc[p].i \in 1..(Len(Script(m)) + 1) /\ Len(Script(m)) \in Nat
  BY <1>1, <1>2, <1>3 DEF ProcFits, Runs
<1>5. proc[p].i = Len(Script(m)) + 1
  BY <1>1, <1>4 DEF InScript
<1>6. /\ m \in 0..LastVersion /\ proc[p].known \subseteq ver /\ 1..m \subseteq ver
      /\ ver \subseteq 1..LastVersion
  BY <1>2, <1>4 DEF ServiceInv, VersionsInv
<1>7. VersionsInv'
  <2>1. \A n \in ver : 1..n \subseteq ver
    BY <1>6 DEF ServiceInv, VersionsInv
  <2> QED
    BY <1>1, <1>2, <1>6, <2>1 DEF VersionsInv
<1>8. IsWork(View(p))
  BY <1>3 DEF View, ProcFits, IsWork, ServiceInv, Shapes
<1>9. /\ db' = [has |-> db'.has, ver |-> db'.ver, data |-> db'.data] /\ IsData(db'.data)
      /\ db.ver \subseteq db'.ver /\ db'.ver = ver
  BY <1>1, <1>8 DEF IsWork
<1> HIDE DEF ver
<1>10. OthersStay(p) /\ (Enters(p, proc[p].known, ver) \/ Leaves(p, ver))
  BY <1>1, <1>6, ContinueIs DEF ServiceInv
<1>11. LastVersion' = LastVersion /\ DOMAIN Scripts[svc'] = 1..LastVersion
  BY <1>1, <1>2 DEF LastVersion
<1>12. Rests(proc'[p]) /\ ProcFits(proc[p])'
  <2>1. CASE Leaves(p, ver)
    <3>1. PICK w \in Ends : Out(p, w) /\ LastVersion \in ver
      BY <2>1 DEF Leaves
    <3>2. w # "run" /\ w \notin IF svc = "backend" THEN {"init", "seed"} ELSE {"deploy", "stamp"}
      BY DEF Ends
    <3>3. svc' = svc
      BY <1>1
    <3> QED
      BY <1>9, <1>11, <3>1, <3>2, <3>3 DEF Out, Rests, Runs, ProcFits, IsProc
  <2>2. CASE Enters(p, proc[p].known, ver)
    <3>1. PICK n \in 1..LastVersion :
            /\ proc'[p] = [cmd |-> proc[p].cmd, at |-> "run", m |-> n, i |-> 1, seen |-> {},
                           known |-> proc[p].known, open |-> FALSE, work |-> <<>>]
            /\ 1..(n - 1) \subseteq ver
      BY <2>2 DEF Enters
    <3>2. Len(Script(n)) \in Nat /\ Script(n)' = Script(n)
      BY <1>1, <1>2 DEF Script
    <3>3. 1 \in 1..(Len(Script(n)) + 1)
      BY <3>2
    <3>4. proc[p].known \subseteq ver
      BY <1>6
    <3> QED
      BY <1>2, <1>9, <1>11, <3>1, <3>2, <3>3, <3>4 DEF Rests, Runs, ProcFits, IsProc
  <2> QED
    BY <1>10, <2>1, <2>2
<1>13. ServiceInv'
  <2>1. proc'[p].open => Unlocked(p)
    BY <1>1
  <2> QED
    BY <1>1, <1>7, <1>9, <1>10, <1>12, <2>1, ServiceKept
<1> QED
  BY <1>1, <1>5, <1>10, <1>12, <1>13 DEF Runs, ver


-----------------------------------------------------------------------------
(* The servers, and the beginning.                                          *)

\* Two of the fields change.
LEMMA SeedWith ==
  ASSUME NEW d, IsData(d), NEW x, NEW y
  PROVE  [d EXCEPT !.current = x, !.fts = y] =
             [commands |-> d.commands, copies |-> d.copies, outbox |-> d.outbox,
              windows |-> d.windows, statuses |-> d.statuses, current |-> x,
              unnamed |-> d.unnamed, fts |-> y, open |-> d.open]
<1> DEFINE b == [d EXCEPT !.current = x]
<1>1. b =    [commands |-> d.commands, copies |-> d.copies, outbox |-> d.outbox,
              windows |-> d.windows, statuses |-> d.statuses, current |-> x,
              unnamed |-> d.unnamed, fts |-> d.fts, open |-> d.open]
  BY DEF IsData
<1>2. [d EXCEPT !.current = x, !.fts = y] = [b EXCEPT !.fts = y]
  OBVIOUS
<1> HIDE DEF b
<1>3. [b EXCEPT !.fts = y] =
             [commands |-> d.commands, copies |-> d.copies, outbox |-> d.outbox,
              windows |-> d.windows, statuses |-> d.statuses, current |-> x,
              unnamed |-> d.unnamed, fts |-> y, open |-> d.open]
  BY <1>1
<1> QED
  BY <1>2, <1>3

LEMMA InsertWith ==
  ASSUME NEW d, IsData(d), NEW x, NEW y
  PROVE  [d EXCEPT !.commands = x, !.outbox = y] =
             [commands |-> x, copies |-> d.copies, outbox |-> y,
              windows |-> d.windows, statuses |-> d.statuses, current |-> d.current,
              unnamed |-> d.unnamed, fts |-> d.fts, open |-> d.open]
<1> DEFINE b == [d EXCEPT !.commands = x]
<1>1. b =    [commands |-> x, copies |-> d.copies, outbox |-> d.outbox,
              windows |-> d.windows, statuses |-> d.statuses, current |-> d.current,
              unnamed |-> d.unnamed, fts |-> d.fts, open |-> d.open]
  BY DEF IsData
<1>2. [d EXCEPT !.commands = x, !.outbox = y] = [b EXCEPT !.outbox = y]
  OBVIOUS
<1> HIDE DEF b
<1>3. [b EXCEPT !.outbox = y] =
             [commands |-> x, copies |-> d.copies, outbox |-> y,
              windows |-> d.windows, statuses |-> d.statuses, current |-> d.current,
              unnamed |-> d.unnamed, fts |-> d.fts, open |-> d.open]
  BY <1>1
<1> QED
  BY <1>2, <1>3

LEMMA SeedIs ==
  ASSUME ServiceInv, svc \in {"control", "diagnosis", "backend"}, NEW p \in Procs, Seed(p)
  PROVE  /\ OthersStay(p) /\ Rests(proc'[p]) /\ Unlocked(p) /\ LastVersion \in db.ver
         /\ UNCHANGED <<svc, fts5, unqueued, oddly>>
         /\ db' = [has |-> db.has, ver |-> db.ver, data |-> db'.data]
         /\ db'.data =
              [commands |-> db.data.commands, copies |-> db.data.copies,
               outbox |-> db.data.outbox, windows |-> db.data.windows,
               statuses |-> db.data.statuses,
               current |-> IF DOMAIN db.data.current = {} THEN [d \in {SeedDevice} |-> <<0, 0>>]
                           ELSE db.data.current,
               unnamed |-> db.data.unnamed,
               fts |-> Added(db.data.fts,
                             [x \in {SeedDocument} |-> IF TheTable(Fts) \in db.has THEN 1 ELSE 0]),
               open |-> db.data.open]
         /\ ServiceInv'
<1> DEFINE x == IF DOMAIN db.data.current = {} THEN [d \in {SeedDevice} |-> <<0, 0>>]
                ELSE db.data.current
           y == Added(db.data.fts,
                      [z \in {SeedDocument} |-> IF TheTable(Fts) \in db.has THEN 1 ELSE 0])
           data == [db.data EXCEPT !.current = x, !.fts = y]
<1>1. /\ proc[p].at = "seed" /\ Unlocked(p) /\ Go(p, "serving")
      /\ UNCHANGED <<svc, fts5, unqueued, oddly>>
  BY DEF Seed
<1>2. db' = [db EXCEPT !.data = data]
  BY DEF Seed
<1>3. IsData(db.data) /\ db = [has |-> db.has, ver |-> db.ver, data |-> db.data]
  BY DEF ServiceInv, Shapes
<1>4. data = [commands |-> db.data.commands, copies |-> db.data.copies,
              outbox |-> db.data.outbox, windows |-> db.data.windows,
              statuses |-> db.data.statuses, current |-> x,
              unnamed |-> db.data.unnamed, fts |-> y, open |-> db.data.open]
  <2> HIDE DEF x, y
  <2>1. IsData(db.data)
    BY <1>3
  <2> QED
    BY <2>1, SeedWith, Zenon
<1>5. db' = [has |-> db.has, ver |-> db.ver, data |-> db'.data] /\ db'.data = data
  <2> HIDE DEF data
  <2> QED
    BY <1>2, <1>3
<1>6. IsData(db'.data)
  <2> HIDE DEF x, y
  <2>1. IsData(data)
    <3> HIDE DEF data
    <3> QED
      BY <1>4 DEF IsData
  <2> QED
    BY <1>5, <2>1
<1>7. OthersStay(p) /\ Out(p, "serving")
  BY <1>1, GoIs DEF ServiceInv
<1>8. Rests(proc'[p]) /\ LastVersion \in db.ver
  BY <1>1, <1>7 DEF Out, Rests, Runs, ServiceInv, ProcFits
<1>9. ServiceInv'
  <2> HIDE DEF data, x, y
  <2>1. db'.ver = db.ver /\ db' = [has |-> db'.has, ver |-> db'.ver, data |-> db'.data]
    BY <1>5
  <2>2. VersionsInv'
    BY <1>1, <2>1 DEF ServiceInv, VersionsInv
  <2>3. LastVersion' = LastVersion
    BY <1>1 DEF LastVersion
  <2>4. ProcFits(proc[p])'
    BY <1>7, <1>8, <2>1, <2>3 DEF Out, ProcFits, IsProc, Runs
  <2> QED
    BY <1>1, <1>6, <1>7, <2>1, <2>2, <2>4, ServiceKept
<1> QED
  BY <1>1, <1>4, <1>5, <1>7, <1>8, <1>9

LEMMA InsertIs ==
  ASSUME ServiceInv, svc \in {"control", "diagnosis", "backend"}, NEW c, Insert(c)
  PROVE  /\ svc = "control" /\ proc' = proc /\ UNCHANGED <<svc, fts5, oddly>>
         /\ \A p \in Procs : ~proc[p].open
         /\ c \notin db.data.commands
         /\ db' = [has |-> db.has, ver |-> db.ver, data |-> db'.data]
         /\ db'.data =
              [commands |-> db.data.commands \cup {c}, copies |-> db.data.copies,
               outbox |-> IF Trigger \in db.has
                          THEN Added(db.data.outbox, [x \in {c} |-> "pending"])
                          ELSE db.data.outbox,
               windows |-> db.data.windows, statuses |-> db.data.statuses,
               current |-> db.data.current, unnamed |-> db.data.unnamed,
               fts |-> db.data.fts, open |-> db.data.open]
         /\ unqueued' = IF Trigger \in db.has THEN unqueued ELSE unqueued \cup {c}
         /\ ServiceInv'
<1> DEFINE x == db.data.commands \cup {c}
           y == IF Trigger \in db.has THEN Added(db.data.outbox, [z \in {c} |-> "pending"])
                ELSE db.data.outbox
           data == [db.data EXCEPT !.commands = x, !.outbox = y]
<1>1. /\ svc = "control" /\ proc' = proc /\ UNCHANGED <<svc, fts5, oddly>>
      /\ \A p \in Procs : ~proc[p].open
      /\ c \notin db.data.commands
      /\ unqueued' = IF Trigger \in db.has THEN unqueued ELSE unqueued \cup {c}
  BY DEF Insert, Trigger
<1>2. db' = [db EXCEPT !.data = data]
  BY DEF Insert, Trigger
<1>3. IsData(db.data) /\ db = [has |-> db.has, ver |-> db.ver, data |-> db.data]
  BY DEF ServiceInv, Shapes
<1>4. data = [commands |-> x, copies |-> db.data.copies,
              outbox |-> y, windows |-> db.data.windows,
              statuses |-> db.data.statuses, current |-> db.data.current,
              unnamed |-> db.data.unnamed, fts |-> db.data.fts, open |-> db.data.open]
  <2> HIDE DEF x, y
  <2>1. IsData(db.data)
    BY <1>3
  <2> QED
    BY <2>1, InsertWith, Zenon
<1>5. db' = [has |-> db.has, ver |-> db.ver, data |-> db'.data] /\ db'.data = data
  <2> HIDE DEF data
  <2> QED
    BY <1>2, <1>3
<1>6. IsData(db'.data)
  <2> HIDE DEF x, y
  <2>1. IsData(data)
    <3> HIDE DEF data
    <3> QED
      BY <1>4 DEF IsData
  <2> QED
    BY <1>5, <2>1
<1>7. ServiceInv'
  <2> HIDE DEF data, x, y
  <2>1. db'.ver = db.ver /\ db' = [has |-> db'.has, ver |-> db'.ver, data |-> db'.data]
    BY <1>5
  <2>2. VersionsInv'
    BY <1>1, <2>1 DEF ServiceInv, VersionsInv
  <2>3. Shapes' /\ OneTransaction'
    BY <1>1, <1>6, <2>1 DEF ServiceInv, Shapes, OneTransaction, Procs
  <2>4. ASSUME NEW q \in Procs' PROVE ProcFits(proc[q])'
    <3>1. q \in Procs /\ proc'[q] = proc[q] /\ ProcFits(proc[q])
      BY <1>1, <2>4 DEF ServiceInv, Procs
    <3> QED
      BY <1>1, <2>1, <3>1 DEF ProcFits, Runs, LastVersion, Script
  <2> QED
    BY <2>2, <2>3, <2>4 DEF ServiceInv
<1> QED
  BY <1>1, <1>4, <1>5, <1>7

\* The actions of the backend alone.
LEMMA NotDeployed ==
  ASSUME ServiceInv, svc # "backend", NEW p \in Procs
  PROVE  ~Deploy(p) /\ ~Stamp(p)
  BY DEF ServiceInv, ProcFits, Deploy, Stamp

LEMMA EmptyIs ==
  /\ IsData(EmptyData) /\ EmptyData.commands = {} /\ DOMAIN EmptyData.outbox = {}
  /\ EmptyData.windows = {} /\ EmptyData.statuses = {} /\ DOMAIN EmptyData.current = {}
  /\ EmptyData.unnamed = {} /\ EmptyData.open = {} /\ DOMAIN EmptyData.fts = {}
  BY DEF EmptyData, IsData

LEMMA ServiceInit ==
  ASSUME Init, svc \in {"control", "diagnosis", "backend"}
  PROVE  /\ ServiceInv /\ \A p \in Procs : proc[p].open = FALSE /\ ~Runs(proc[p])
         /\ db.ver = {} /\ oddly = {} /\ unqueued = db.data.commands
         /\ \/ db.has = {} /\ db.data = EmptyData
            \/ /\ db.has = Baseline[svc] \/ db.has = Baseline[svc] \ Compat(svc)
               /\ db.data = OldData(svc)
<1>1. PICK k \in Setups :
        proc \in [k.procs -> {[cmd |-> c, at |-> "off", m |-> 0, i |-> 0, seen |-> {},
                               known |-> {}, open |-> FALSE, work |-> <<>>] :
                               c \in {"migrate", "serve"}}]
  BY DEF Init
<1>2. proc = [p \in Procs |-> proc[p]]
  BY <1>1 DEF Procs
<1>3. ASSUME NEW p \in Procs
      PROVE  \E c : proc[p] = [cmd |-> c, at |-> "off", m |-> 0, i |-> 0, seen |-> {},
                               known |-> {}, open |-> FALSE, work |-> <<>>]
  BY <1>1 DEF Procs
<1>4. \A p \in Procs : ProcFits(proc[p]) /\ proc[p].open = FALSE /\ ~Runs(proc[p])
  <2>1. TAKE p \in Procs
  <2>2. PICK c : proc[p] = [cmd |-> c, at |-> "off", m |-> 0, i |-> 0, seen |-> {},
                            known |-> {}, open |-> FALSE, work |-> <<>>]
    BY <1>3
  <2>3. /\ IsProc(proc[p]) /\ proc[p].at = "off" /\ proc[p].known = {}
        /\ proc[p].open = FALSE
    BY <2>2 DEF IsProc
  <2> QED
    BY <2>3 DEF ProcFits, Runs
<1>5. \/ db = [has |-> {}, ver |-> {}, data |-> EmptyData]
      \/ db = [has |-> Baseline[svc] \ {}, ver |-> {}, data |-> OldData(svc)]
      \/ db = [has |-> Baseline[svc] \ Compat(svc), ver |-> {}, data |-> OldData(svc)]
  BY DEF Init
<1>6. IsData(OldData(svc))
  BY EmptyIs DEF OldData, IsData
<1>7. db = [has |-> db.has, ver |-> db.ver, data |-> db.data] /\ IsData(db.data) /\ db.ver = {}
  BY <1>5, <1>6, EmptyIs
<1>8. ServiceInv
  BY <1>2, <1>4, <1>7 DEF ServiceInv, Shapes, VersionsInv, OneTransaction
<1>9. oddly = {} /\ unqueued = db.data.commands
  BY DEF Init
<1>10. \/ db.has = {} /\ db.data = EmptyData
       \/ /\ db.has = Baseline[svc] \/ db.has = Baseline[svc] \ Compat(svc)
          /\ db.data = OldData(svc)
  BY <1>5
<1> QED
  BY <1>4, <1>7, <1>8, <1>9, <1>10


-----------------------------------------------------------------------------
(* The control database.                                                    *)

LEMMA Control4Ops ==
  /\ Control4[2].op = "only" /\ Control4[4].op = "copy" /\ Control4[11].op = "commit"
  /\ /\ Control4[5].op = "drop" /\ Control4[5].table = "device_command"
     /\ Control4[5].names = {""} /\ Control4[5].strict = TRUE
  /\ /\ Control4[6].op = "rename" /\ Control4[6].table = "device_command_new"
     /\ Control4[6].names = {"device_command"}
<1>1. /\ Control4[2] = OnlyIfSeen("device_command", CaseColumns)
      /\ Control4[4] = Rows("copy", "device_command_new")
      /\ Control4[5] = DropStrict("device_command", "")
      /\ Control4[6] = Rename("device_command_new", "device_command")
      /\ Control4[11] = Commit
  BY Control4Is
<1>2. \A t, n : OnlyIfSeen(t, n).op = "only"
  BY DEF OnlyIfSeen, Statement
<1>3. \A t, n : Rows(n, t).op = n
  BY DEF Rows, Statement
<1>4. Commit.op = "commit"
  BY DEF Commit, Statement
<1>5. \A t, n : /\ DropStrict(t, n).op = "drop" /\ DropStrict(t, n).table = t
                /\ DropStrict(t, n).names = {n} /\ DropStrict(t, n).strict = TRUE
  BY DEF DropStrict, Statement
<1>6. \A t, n : /\ Rename(t, n).op = "rename" /\ Rename(t, n).table = t
                /\ Rename(t, n).names = {n}
  BY DEF Rename, Statement
<1>7. Control4[2].op = "only"
  BY <1>1, <1>2, Zenon
<1>8. Control4[4].op = "copy"
  BY <1>1, <1>3, Zenon
<1>9. Control4[11].op = "commit"
  BY <1>1, <1>4, Zenon
<1>10. /\ Control4[5].op = "drop" /\ Control4[5].table = "device_command"
       /\ Control4[5].names = {""} /\ Control4[5].strict = TRUE
  <2>1. Control4[5] = DropStrict("device_command", "")
    BY <1>1
  <2> DEFINE d == DropStrict("device_command", "")
  <2>2. /\ d.op = "drop" /\ d.table = "device_command" /\ d.names = {""} /\ d.strict = TRUE
    BY <1>5, Zenon
  <2> HIDE DEF d
  <2>3. Control4[5] = d
    BY <2>1 DEF d
  <2> QED
    BY <2>2, <2>3, Zenon
<1>11. /\ Control4[6].op = "rename" /\ Control4[6].table = "device_command_new"
       /\ Control4[6].names = {"device_command"}
  <2>1. Control4[6] = Rename("device_command_new", "device_command")
    BY <1>1
  <2> QED
    BY <2>1, <1>6
<1> QED
  BY <1>7, <1>8, <1>9, <1>10, <1>11, Zenon

\* Where a process is, and the statement that is next.
ControlStatement(m, i, s) ==
  \/ m \in 1..3 /\ i \in Nat /\ IsAddition(s)
  \/ m = 4 /\ i \in {1, 3, 7, 8, 9, 10} /\ IsAddition(s)
  \/ m = 4 /\ i = 2 /\ s.op = "only"
  \/ m = 4 /\ i = 4 /\ s.op = "copy"
  \/ m = 4 /\ i = 5 /\ s.op = "drop" /\ s.table = "device_command" /\ s.names = {""} /\ s.strict
  \/ m = 4 /\ i = 6 /\ s.op = "rename" /\ s.table = "device_command_new" /\ s.names = {"device_command"}
  \/ m = 4 /\ i = 11 /\ s.op = "commit"
  \/ m = 5 /\ i \in {1, 4, 6, 7} /\ IsAddition(s) /\ s.op # "commit"
  \/ m = 5 /\ i = 2 /\ s.op = "settle"
  \/ m = 5 /\ i = 3 /\ s.op = "part" /\ s.table = "device_command" /\ s.names = {Enqueue}
  \/ m = 5 /\ i = 5 /\ s.op = "windows"

LEMMA ControlAt ==
  ASSUME ServiceInv, svc = "control", NEW p \in Procs, InScript(p)
  PROVE  ControlStatement(proc[p].m, proc[p].i, At(p))
<1> DEFINE m == proc[p].m
           i == proc[p].i
<1>1. LastVersion = 5
  BY ControlScripts DEF LastVersion
<1>2. m \in 1..5 /\ Len(Script(m)) \in Nat /\ i \in 1..Len(Script(m))
  BY <1>1, InScriptIs
<1>3. Script(m) = Control[m] /\ At(p) = Control[m][i]
  BY ControlScripts DEF Script, At
<1>4. i \in Nat
  BY <1>2
<1>5. CASE m \in 1..3
  <2>1. IsAddition(At(p))
    BY <1>2, <1>3, <1>5, ControlScripts
  <2> QED
    BY <1>4, <1>5, <2>1, Zenon DEF ControlStatement
<1>6. CASE m = 4
  <2>1. i \in 1..11 /\ At(p) = Control4[i]
    BY <1>2, <1>3, <1>6, ControlScripts, Control4Is
  <2>2. i \in {1, 3, 7, 8, 9, 10} => IsAddition(At(p))
    BY <2>1, Control4Is
  <2>3. \/ i \in {1, 3, 7, 8, 9, 10}
        \/ i = 2 \/ i = 4 \/ i = 5 \/ i = 6 \/ i = 11
    BY <2>1
  <2>4. /\ i = 2 => At(p).op = "only"
        /\ i = 4 => At(p).op = "copy"
        /\ i = 5 => /\ At(p).op = "drop" /\ At(p).table = "device_command"
                    /\ At(p).names = {""} /\ At(p).strict
        /\ i = 6 => /\ At(p).op = "rename" /\ At(p).table = "device_command_new"
                    /\ At(p).names = {"device_command"}
        /\ i = 11 => At(p).op = "commit"
    BY <2>1, Control4Ops, Zenon
  <2> QED
    BY <1>6, <2>2, <2>3, <2>4, Zenon DEF ControlStatement
<1>7. CASE m = 5
  <2>1. i \in 1..7 /\ At(p) = Control5[i]
    BY <1>2, <1>3, <1>7, ControlScripts, Control5Is
  <2>2. i \in {1, 4, 6, 7} => IsAddition(At(p)) /\ At(p).op # "commit"
    BY <2>1, Control5Is
  <2>3. i = 2 => At(p).op = "settle"
    BY <2>1, Control5Is DEF Rows, Statement
  <2>4. i = 3 => /\ At(p).op = "part" /\ At(p).table = "device_command"
                 /\ At(p).names = {Enqueue}
    BY <2>1, Control5Is DEF Adds, Statement
  <2>5. i = 5 => At(p).op = "windows"
    BY <2>1, Control5Is DEF Rows, Statement
  <2>6. i \in {1, 4, 6, 7} \/ i = 2 \/ i = 3 \/ i = 5
    BY <2>1
  <2> QED
    BY <1>7, <2>2, <2>3, <2>4, <2>5, <2>6, Zenon DEF ControlStatement
<1> QED
  BY <1>2, <1>5, <1>6, <1>7

LEMMA ControlRange ==
  ASSUME NEW m, NEW i, NEW s, ControlStatement(m, i, s)
  PROVE  m \in 1..5 /\ i \in Nat /\ (m = 4 => i \in 1..11) /\ (m = 5 => i \in 1..7)
<1>1. \/ m \in 1..3 /\ i \in Nat
      \/ m = 4 /\ i \in {1, 3, 7, 8, 9, 10}
      \/ m = 4 /\ i \in {2, 4, 5, 6, 11}
      \/ m = 5 /\ i \in {1, 4, 6, 7}
      \/ m = 5 /\ i \in {2, 3, 5}
  BY DEF ControlStatement
<1> QED
  BY <1>1

LEMMA AdditionOps ==
  ASSUME NEW s, IsAddition(s)
  PROVE  /\ s.op \in {"create", "part", "column", "read", "commit"}
         /\ ~IsRows(s) /\ s.op # "only" /\ s.op # "fts5"
  BY DEF IsAddition, IsRows

\* Where the statements are that are not additions.
LEMMA ControlOps ==
  ASSUME NEW m, NEW i, NEW s, ControlStatement(m, i, s)
  PROVE  /\ IsRows(s) => \/ m = 4 /\ i = 4 /\ s.op = "copy"
                         \/ m = 5 /\ i = 2 /\ s.op = "settle"
                         \/ m = 5 /\ i = 5 /\ s.op = "windows"
         /\ s.op \in {"only", "fts5"} => m = 4 /\ i = 2
         /\ s.op = "commit" => m \in 1..3 \/ (m = 4 /\ i \in {1, 3, 7, 8, 9, 10, 11})
         /\ IsSchema(s) => \/ IsAddition(s) /\ ~(m = 4 /\ i \in {4, 5, 6}) /\ ~(m = 5 /\ i \in {2, 3, 5})
                           \/ m = 4 /\ i \in {5, 6}
                           \/ m = 5 /\ i = 3
<1>1. CASE IsAddition(s)
  <2>1. /\ ~IsRows(s) /\ s.op \in {"create", "part", "column", "read", "commit"}
    BY <1>1, AdditionOps
  <2>2. s.op # "only" /\ s.op # "copy" /\ s.op # "settle" /\ s.op # "windows"
        /\ s.op # "drop" /\ s.op # "rename" /\ s.op # "fts5"
    BY <2>1
  <2>3. /\ s.op = "commit" => m \in 1..3 \/ (m = 4 /\ i \in {1, 3, 7, 8, 9, 10, 11})
    BY <2>2 DEF ControlStatement
  <2>4. \/ m \in 1..3
        \/ m = 4 /\ i \in {1, 3, 7, 8, 9, 10, 11}
        \/ m = 5 /\ i \in {1, 4, 6, 7}
        \/ m = 5 /\ i = 3
    BY <2>2 DEF ControlStatement
  <2>5. \/ ~(m = 4 /\ i \in {4, 5, 6}) /\ ~(m = 5 /\ i \in {2, 3, 5})
        \/ m = 5 /\ i = 3
    BY <2>4
  <2> QED
    BY <1>1, <2>1, <2>2, <2>3, <2>5
<1>2. CASE ~IsAddition(s)
  BY <1>2 DEF ControlStatement, IsRows, IsSchema
<1> QED
  BY <1>1, <1>2

\* A statement that adds to the schema leaves everything else.
LEMMA AdditionsAdd ==
  ASSUME NEW s, IsAddition(s), NEW has, NEW d, IsData(d)
  PROVE  /\ has \subseteq SchemaAfter(s, has)
         /\ TriggerInPlace(has) => TriggerInPlace(SchemaAfter(s, has))
         /\ DataAfter(s, d) = d
         /\ ~IsRows(s) /\ s.op # "only" /\ s.op # "fts5"
<1>1. s.op \in {"create", "part", "column", "read", "commit"} /\ Enqueue \notin s.names
  BY DEF IsAddition
<1>2. ~IsRows(s) /\ s.op # "only" /\ s.op # "fts5"
  BY <1>1 DEF IsRows
<1>3. DataAfter(s, d) = d
  BY <1>1 DEF DataAfter
<1>4. /\ SchemaAfter(s, has) \in {has, has \cup {TheTable(s.table)} \cup Parts(s.table, s.names),
                                  has \cup Parts(s.table, s.names)}
  BY <1>1 DEF SchemaAfter
<1>5. \A o \in {TheTable(s.table)} \cup Parts(s.table, s.names) : o[2] # Enqueue
  <2>1. \A o \in Parts(s.table, s.names) : o[2] \in s.names
    BY DEF Parts
  <2>2. TheTable(s.table)[2] # Enqueue
    BY DEF TheTable, Enqueue
  <2> QED
    BY <1>1, <2>1, <2>2
<1> QED
  BY <1>2, <1>3, <1>4, <1>5 DEF TriggerInPlace


\* The processes that do not move.
LEMMA ControlKept ==
  ASSUME ServiceInv, ControlInv, NEW p \in Procs, OthersStay(p),
         (db'.data = db.data /\ unqueued' = unqueued) \/ Unlocked(p),
         ControlRows', ControlPlace(proc'[p]), ControlWork(proc'[p], db'.data, unqueued')
  PROVE  ControlInv'
<1>1. ASSUME NEW q \in Procs'
      PROVE  ControlPlace(proc'[q]) /\ ControlWork(proc'[q], db'.data, unqueued')
  <2>1. CASE q = p
    BY <2>1
  <2>2. CASE q # p
    <3>1. proc'[q] = proc[q] /\ q \in Procs
      BY <1>1, <2>2 DEF OthersStay
    <3>2. ControlPlace(proc[q]) /\ ControlWork(proc[q], db.data, unqueued)
      BY <3>1 DEF ControlInv
    <3>3. CASE Unlocked(p)
      BY <2>2, <3>1, <3>2, <3>3 DEF Unlocked, ControlWork
    <3>4. CASE db'.data = db.data /\ unqueued' = unqueued
      BY <3>1, <3>2, <3>4
    <3> QED
      BY <3>3, <3>4
  <2> QED
    BY <2>1, <2>2
<1> QED
  BY <1>1 DEF ControlInv

LEMMA ControlQuiet ==
  ASSUME ServiceInv, ControlInv, svc = "control", NEW p \in Procs, Quiet(p)
  PROVE  ControlInv'
<1>1. ControlRows'
  <2>1. TriggerInPlace(db'.has)
    <3>1. Ledger[svc][2] # Enqueue
      BY DEF Ledger, Services, TheTable, Enqueue
    <3> QED
      BY <3>1 DEF Quiet, ControlInv, ControlRows, TriggerInPlace
  <2> QED
    BY <2>1 DEF Quiet, ControlInv, ControlRows, NoneDue, AllQueued
<1>2. ControlPlace(proc'[p]) /\ ControlWork(proc'[p], db'.data, unqueued')
  BY DEF Quiet, Rests, ControlPlace, ControlWork
<1> QED
  BY <1>1, <1>2, ControlKept DEF Quiet

LEMMA ControlLook ==
  ASSUME ServiceInv, ControlInv, svc = "control", NEW p \in Procs, Look(p)
  PROVE  ControlInv'
<1> DEFINE r == proc[p]
<1>1. /\ Proceeds(p, r.i + 1, Of(At(p).table, View(p).has), r.open, r.work)
      /\ UNCHANGED <<db, svc, fts5, unqueued, oddly>>
  BY LookIs
<1>2. InScript(p) /\ At(p).op = "read"
  BY DEF Look
<1>3. ControlStatement(r.m, r.i, At(p)) /\ Runs(r)
  BY <1>2, ControlAt DEF InScript, Runs
<1>4. ControlPlace(r) /\ ControlWork(r, db.data, unqueued)
  BY DEF ControlInv
<1>5. /\ proc'[p].at = "run" /\ proc'[p].m = r.m /\ proc'[p].i = r.i + 1
      /\ proc'[p].open = r.open /\ proc'[p].work = r.work
  BY <1>1 DEF Proceeds
<1> HIDE DEF r
<1>6. ControlPlace(proc'[p])
  BY <1>2, <1>3, <1>4, <1>5 DEF ControlPlace, ControlStatement, Runs
<1>7. ControlWork(proc'[p], db'.data, unqueued')
  BY <1>1, <1>2, <1>3, <1>4, <1>5 DEF ControlWork, ControlPlace, ControlStatement, Runs
<1>8. ControlRows' /\ OthersStay(p)
  BY <1>1 DEF ControlInv, ControlRows, Proceeds
<1> QED
  BY <1>1, <1>6, <1>7, <1>8, ControlKept


LEMMA ControlPass ==
  ASSUME ServiceInv, ControlInv, svc = "control", NEW p \in Procs, Pass(p)
  PROVE  ControlInv'
<1> DEFINE r == proc[p]
<1>1. UNCHANGED <<db, svc, fts5, unqueued, oddly>>
  BY PassIs
<1>2. InScript(p)
  BY DEF Pass
<1>3. ControlStatement(r.m, r.i, At(p)) /\ Runs(r)
  BY <1>2, ControlAt DEF InScript, Runs
<1>4. ControlPlace(r) /\ ControlWork(r, db.data, unqueued)
  BY DEF ControlInv
<1>5. ControlRows'
  BY <1>1 DEF ControlInv, ControlRows
<1>6. r.open => View(p) = r.work
  BY <1>2, InScriptIs
<1>7. CASE /\ IsIdle(At(p), View(p).has, r.seen)
           /\ Proceeds(p, r.i + 1, r.seen, r.open, r.work)
  <2>1. /\ proc'[p].at = "run" /\ proc'[p].m = r.m /\ proc'[p].i = r.i + 1
        /\ proc'[p].open = r.open /\ proc'[p].work = r.work /\ OthersStay(p)
    BY <1>7 DEF Proceeds
  <2>2. At(p).op \in {"create", "part", "column", "drop"} /\ ~At(p).strict
    BY <1>7 DEF IsIdle
  <2>3. r.m = 5 /\ r.i = 3 => Trigger \in r.work.has
    <3>1. SUFFICES ASSUME r.m = 5, r.i = 3 PROVE Trigger \in r.work.has
      OBVIOUS
    <3>2. At(p).op = "part" /\ At(p).names = {Enqueue}
      BY <1>3, <3>1 DEF ControlStatement
    <3>3. Enqueue \in Named(View(p).has)
      BY <1>7, <3>2, OnlyName DEF IsIdle
    <3>4. r.open
      BY <1>3, <1>4, <3>1 DEF ControlPlace
    <3>5. TriggerInPlace(r.work.has)
      BY <1>4, <3>4 DEF ControlWork
    <3> QED
      BY <1>6, <3>3, <3>4, <3>5 DEF TriggerInPlace, Named
  <2> HIDE DEF r
  <2>4. /\ r.m = 4 => r.i \notin {4, 5, 6, 11}
        /\ r.m = 5 => r.i \notin {2, 5}
    <3>1. /\ At(p).op # "copy" /\ At(p).op # "rename" /\ At(p).op # "commit"
          /\ At(p).op # "settle" /\ At(p).op # "windows" /\ ~At(p).strict
      BY <2>2
    <3>2. \/ r.m \in 1..3
          \/ r.m = 4 /\ r.i \in {1, 3, 7, 8, 9, 10}
          \/ r.m = 4 /\ r.i = 2
          \/ r.m = 5 /\ r.i \in {1, 4, 6, 7}
          \/ r.m = 5 /\ r.i = 3
      BY <1>3, <3>1, Zenon DEF ControlStatement
    <3> QED
      BY <3>2
  <2>5. r.i \in Nat /\ (r.m = 4 => r.i \in 1..11)
    BY <1>3, ControlRange
  <2>6. ControlPlace(proc'[p])
    BY <2>1, <2>4, <2>5, <1>3, <1>4 DEF ControlPlace, Runs
  <2>7. ControlWork(proc'[p], db'.data, unqueued')
    BY <1>1, <2>1, <2>3, <2>4, <2>5, <1>4 DEF ControlWork
  <2> QED
    BY <1>1, <1>5, <2>1, <2>6, <2>7, ControlKept
<1>8. CASE /\ At(p).op \in {"only", "fts5"}
           /\ \E j \in {r.i + 1, Len(Script(r.m)) + 1} :
                 Proceeds(p, j, r.seen, r.open, r.work)
  <2>1. PICK j \in {r.i + 1, Len(Script(r.m)) + 1} : Proceeds(p, j, r.seen, r.open, r.work)
    BY <1>8
  <2>2. /\ proc'[p].at = "run" /\ proc'[p].m = r.m /\ proc'[p].i = j
        /\ proc'[p].open = r.open /\ proc'[p].work = r.work /\ OthersStay(p)
    BY <2>1 DEF Proceeds
  <2>3. r.m = 4 => Len(Script(r.m)) = 11
    BY ControlScripts, Control4Is DEF Script
  <2>6. r.m = 4 /\ r.i = 2
    BY <1>3, <1>8, ControlOps
  <2>7. j \in {3, 12} /\ ~r.open
    <3>1. r.m = 4 => (r.i \in 1..4 \cup {12} => ~r.open)
      BY <1>3, <1>4, Zenon DEF ControlPlace
    <3>2. j = r.i + 1 \/ j = Len(Script(r.m)) + 1
      BY <2>1
    <3>3. Len(Script(r.m)) = 11
      BY <2>3, <2>6
    <3> HIDE DEF r
    <3>4. ~r.open
      BY <2>6, <3>1
    <3> DEFINE len == Len(Script(r.m))
    <3>5. r.i = 2 /\ len = 11 /\ (j = r.i + 1 \/ j = len + 1)
      BY <2>6, <3>2, <3>3
    <3> HIDE DEF len
    <3>6. j = 3 \/ j = 12
      BY <3>5
    <3> QED
      BY <3>4, <3>6
  <2> HIDE DEF r
  <2>8. ControlPlace(proc'[p]) /\ ControlWork(proc'[p], db'.data, unqueued')
    BY <2>2, <2>6, <2>7 DEF ControlPlace, ControlWork, Runs
  <2> QED
    BY <1>1, <1>5, <2>2, <2>8, ControlKept
<1> QED
  BY <1>7, <1>8, PassIs

LEMMA CopyRows ==
  ASSUME NEW s, NEW d, IsData(d), s.op = "copy"
  PROVE  /\ DataAfter(s, d).commands = d.commands
         /\ DataAfter(s, d).copies = d.commands
         /\ DataAfter(s, d).outbox = d.outbox
         /\ DataAfter(s, d).windows = d.windows
  BY DEF DataAfter, IsData

LEMMA SettleRows ==
  ASSUME NEW s, NEW d, IsData(d), s.op = "settle"
  PROVE  /\ DataAfter(s, d).commands = d.commands
         /\ DataAfter(s, d).outbox = Added(d.outbox, [c \in d.commands |-> "unknown"])
  BY DEF DataAfter, IsData

LEMMA WindowsRows ==
  ASSUME NEW s, NEW d, IsData(d), s.op = "windows"
  PROVE  /\ DataAfter(s, d).commands = d.commands
         /\ DataAfter(s, d).outbox = d.outbox
         /\ DataAfter(s, d).windows = d.windows \cup (d.commands \cap Unverified)
  BY DEF DataAfter, IsData

LEMMA DropRows ==
  ASSUME NEW s, NEW d, IsData(d), s.op = "drop"
  PROVE  /\ DataAfter(s, d).copies = d.copies
         /\ DataAfter(s, d).outbox = d.outbox
         /\ DataAfter(s, d).windows = d.windows
  BY DEF DataAfter, IsData

LEMMA RenameRows ==
  ASSUME NEW s, NEW d, IsData(d), s.op = "rename", s.table = "device_command_new"
  PROVE  /\ DataAfter(s, d).commands = d.copies
         /\ DataAfter(s, d).outbox = d.outbox
         /\ DataAfter(s, d).windows = d.windows
  BY DEF DataAfter, IsData

LEMMA PartRows ==
  ASSUME NEW s, NEW d, IsData(d), s.op = "part"
  PROVE  /\ DataAfter(s, d) = d
  BY DEF DataAfter, IsData

LEMMA ControlWrite ==
  ASSUME ServiceInv, ControlInv, svc = "control", NEW p \in Procs, Write(p)
  PROVE  ControlInv'
<1> DEFINE r == proc[p]
           d == View(p).data
           after == [has |-> View(p).has, data |-> RowsAfter(p)]
<1>1. /\ InScript(p) /\ IsRows(At(p)) /\ Unlocked(p)
      /\ UNCHANGED <<db, svc, fts5, unqueued, oddly>>
  BY WriteIs
<1>2. ControlStatement(r.m, r.i, At(p)) /\ Runs(r)
  BY <1>1, ControlAt DEF InScript, Runs
<1>3. \/ r.m = 4 /\ r.i = 4 /\ At(p).op = "copy"
      \/ r.m = 5 /\ r.i = 2 /\ At(p).op = "settle"
      \/ r.m = 5 /\ r.i = 5 /\ At(p).op = "windows"
  BY <1>1, <1>2, ControlOps
<1>4. Proceeds(p, r.i + 1, r.seen, TRUE, after)
  BY <1>3, WriteIs
<1>5. ControlPlace(r) /\ ControlWork(r, db.data, unqueued) /\ ControlRows
  BY DEF ControlInv
<1>6. IsData(d) /\ (r.open => View(p) = r.work)
      /\ (~r.open => View(p).has = db.has /\ View(p).data = db.data)
  BY <1>1, InScriptIs DEF IsWork
<1>7. ControlRows' /\ OthersStay(p)
  BY <1>1, <1>4 DEF ControlInv, ControlRows, Proceeds
<1>8. /\ proc'[p].at = "run" /\ proc'[p].m = r.m /\ proc'[p].i = r.i + 1
      /\ proc'[p].open = TRUE /\ proc'[p].work.has = View(p).has
      /\ proc'[p].work.data = RowsAfter(p)
  BY <1>4 DEF Proceeds
<1> HIDE DEF after
<1>9. TriggerInPlace(View(p).has)
  BY <1>5, <1>6 DEF ControlWork, ControlRows
<1> HIDE DEF r, d
<1>10. CASE r.m = 4 /\ r.i = 4 /\ At(p).op = "copy"
  <2>1. ~r.open
    BY <1>2, <1>5, <1>10 DEF ControlPlace
  <2>2. /\ RowsAfter(p).commands = db.data.commands /\ RowsAfter(p).copies = db.data.commands
        /\ RowsAfter(p).outbox = db.data.outbox /\ RowsAfter(p).windows = db.data.windows
    <3>1. IsData(View(p).data) /\ View(p).data = db.data
      BY <1>6, <2>1 DEF d
    <3> QED
      BY <1>10, <3>1, CopyRows DEF RowsAfter
  <2>3. ControlPlace(proc'[p])
    BY <1>8, <1>10 DEF ControlPlace
  <2>4. ControlWork(proc'[p], db'.data, unqueued')
    BY <1>1, <1>8, <1>9, <1>10, <2>2 DEF ControlWork
  <2> QED
    BY <1>1, <1>7, <2>3, <2>4, ControlKept
<1>11. CASE r.m = 5 /\ r.i = 2 /\ At(p).op = "settle"
  <2>1. ~r.open
    BY <1>2, <1>5, <1>11 DEF ControlPlace
  <2>2. /\ RowsAfter(p).commands = db.data.commands
        /\ RowsAfter(p).outbox = Added(db.data.outbox, [c \in db.data.commands |-> "unknown"])
    <3>1. IsData(View(p).data) /\ View(p).data = db.data
      BY <1>6, <2>1 DEF d
    <3> QED
      BY <1>11, <3>1, SettleRows DEF RowsAfter
  <2>3. AllQueued(RowsAfter(p), unqueued)
    BY <1>5, <2>2 DEF AllQueued, NoneDue, Added, ControlRows
  <2>4. ControlPlace(proc'[p])
    BY <1>8, <1>11 DEF ControlPlace
  <2>5. ControlWork(proc'[p], db'.data, unqueued')
    BY <1>1, <1>8, <1>9, <1>11, <2>2, <2>3 DEF ControlWork, AllQueued, NoneDue
  <2> QED
    BY <1>1, <1>7, <2>4, <2>5, ControlKept
<1>12. CASE r.m = 5 /\ r.i = 5 /\ At(p).op = "windows"
  <2>1. r.open
    BY <1>2, <1>5, <1>12 DEF ControlPlace
  <2>2. /\ RowsAfter(p).commands = d.commands /\ RowsAfter(p).outbox = d.outbox
        /\ RowsAfter(p).windows = d.windows \cup (d.commands \cap Unverified)
    <3>1. IsData(d)
      BY <1>6
    <3> QED
      BY <1>12, <3>1, WindowsRows DEF RowsAfter, d
  <2>3. /\ d = r.work.data /\ View(p).has = r.work.has
    BY <1>6, <2>1 DEF d
  <2>4. /\ d.commands = db.data.commands /\ AllQueued(d, unqueued) /\ Trigger \in View(p).has
    BY <1>5, <1>12, <2>1, <2>3 DEF ControlWork
  <2>5. ControlPlace(proc'[p])
    BY <1>8, <1>12 DEF ControlPlace
  <2>6. unqueued \subseteq db.data.commands
    BY <1>5 DEF ControlRows
  <2>7. ControlWork(proc'[p], db'.data, unqueued')
    BY <1>1, <1>8, <1>9, <1>12, <2>2, <2>4, <2>6 DEF ControlWork, AllQueued, NoneDue
  <2> QED
    BY <1>1, <1>7, <2>5, <2>7, ControlKept
<1> QED
  BY <1>3, <1>10, <1>11, <1>12 DEF r


LEMMA ControlAlter ==
  ASSUME ServiceInv, ControlInv, svc = "control", NEW p \in Procs, Alter(p)
  PROVE  ControlInv'
<1> DEFINE r == proc[p]
           s == At(p)
           w == View(p)
<1>1. /\ InScript(p) /\ IsSchema(s) /\ Unlocked(p)
      /\ UNCHANGED <<svc, fts5, unqueued>>
      /\ OthersStay(p)
      /\ proc'[p].at = "run" /\ proc'[p].m = r.m /\ proc'[p].i = r.i + 1
      /\ r.open => /\ UNCHANGED <<db, oddly>> /\ proc'[p].open
                   /\ proc'[p].work.has = HasAfter(p) /\ proc'[p].work.data = RowsAfter(p)
      /\ ~r.open => /\ db'.has = HasAfter(p) /\ db'.data = RowsAfter(p) /\ db'.ver = db.ver
                    /\ oddly \subseteq oddly' /\ ~proc'[p].open
  <2>1. /\ InScript(p) /\ IsSchema(s) /\ Unlocked(p)
        /\ UNCHANGED <<svc, fts5, unqueued>>
        /\ r.open => /\ Proceeds(p, r.i + 1, r.seen, TRUE,
                                 [has |-> HasAfter(p), data |-> RowsAfter(p)])
                     /\ UNCHANGED <<db, oddly>>
        /\ ~r.open => /\ Proceeds(p, r.i + 1, r.seen, FALSE, r.work)
                      /\ db' = [has |-> HasAfter(p), data |-> RowsAfter(p), ver |-> db.ver]
                      /\ oddly' = IF IsLate(p) THEN oddly \cup {"late"} ELSE oddly
    BY AlterIs
  <2>2. CASE r.open
    BY <2>1, <2>2 DEF Proceeds
  <2>3. CASE ~r.open
    BY <2>1, <2>3 DEF Proceeds
  <2> QED
    BY <2>2, <2>3
<1>2. ControlStatement(r.m, r.i, s) /\ Runs(r)
  BY <1>1, ControlAt DEF InScript, Runs
<1>3. /\ r.m \in 1..5 /\ r.i \in Nat /\ (r.m = 4 => r.i \in 1..11) /\ (r.m = 5 => r.i \in 1..7)
  BY <1>2, ControlRange
<1>4. ControlPlace(r) /\ ControlWork(r, db.data, unqueued) /\ ControlRows
  BY DEF ControlInv
<1>5. /\ IsData(w.data) /\ (r.open => w = r.work)
      /\ (~r.open => w.has = db.has /\ w.data = db.data)
  BY <1>1, InScriptIs DEF IsWork
<1>6. HasAfter(p) = SchemaAfter(s, w.has) /\ RowsAfter(p) = DataAfter(s, w.data)
  BY DEF HasAfter, RowsAfter
<1>7. TriggerInPlace(w.has)
  BY <1>4, <1>5 DEF ControlWork, ControlRows
<1>8. \/ IsAddition(s) /\ ~(r.m = 4 /\ r.i \in {4, 5, 6}) /\ ~(r.m = 5 /\ r.i \in {2, 3, 5})
      \/ r.m = 4 /\ r.i = 5 /\ s.op = "drop"
      \/ r.m = 4 /\ r.i = 6 /\ s.op = "rename" /\ s.table = "device_command_new"
         /\ s.names = {"device_command"}
      \/ r.m = 5 /\ r.i = 3 /\ s.op = "part" /\ s.table = "device_command"
         /\ s.names = {Enqueue}
  <2> HIDE DEF r, s
  <2>1. CASE r.m = 4 /\ r.i = 5
    <3>1. r.i \notin {1, 3, 7, 8, 9, 10} /\ r.i # 2 /\ r.i # 4 /\ r.i # 6 /\ r.i # 11
          /\ r.m # 5 /\ r.m \notin 1..3
      BY <2>1
    <3>2. s.op = "drop"
      BY <1>2, <3>1, Zenon DEF ControlStatement
    <3> QED
      BY <2>1, <3>2
  <2>2. CASE r.m = 4 /\ r.i = 6
    BY <1>2, <2>2 DEF ControlStatement
  <2>3. CASE r.m = 5 /\ r.i = 3
    BY <1>2, <2>3 DEF ControlStatement
  <2>4. \/ IsAddition(s) /\ ~(r.m = 4 /\ r.i \in {4, 5, 6}) /\ ~(r.m = 5 /\ r.i \in {2, 3, 5})
        \/ r.m = 4 /\ r.i = 5
        \/ r.m = 4 /\ r.i = 6
        \/ r.m = 5 /\ r.i = 3
    BY <1>1, <1>2, ControlOps
  <2> QED
    BY <2>1, <2>2, <2>3, <2>4, Zenon
<1> HIDE DEF r, s, w
<1>9. ASSUME r.open, ControlPlace(proc'[p]), ControlWork(proc'[p], db.data, unqueued)
      PROVE  ControlInv'
  <2>1. ControlRows'
    BY <1>1, <1>4, <1>9 DEF ControlRows
  <2> QED
    BY <1>1, <1>9, <2>1, ControlKept
<1>10. CASE IsAddition(s) /\ ~(r.m = 4 /\ r.i \in {4, 5, 6}) /\ ~(r.m = 5 /\ r.i \in {2, 3, 5})
  <2>1. /\ w.has \subseteq HasAfter(p) /\ TriggerInPlace(HasAfter(p)) /\ RowsAfter(p) = w.data
    BY <1>5, <1>6, <1>7, <1>10, AdditionsAdd
  <2>2. CASE r.open
    <3>1. ControlPlace(proc'[p])
      <4>1. r.m = 4 => r.i # 11
        <5>1. s.op # "commit"
          BY <1>1 DEF IsSchema
        <5>2. ASSUME r.m = 4, r.i = 11 PROVE FALSE
          <6>1. /\ r.m \notin 1..3 /\ r.m # 5 /\ r.i \notin {1, 3, 7, 8, 9, 10}
                /\ r.i # 2 /\ r.i # 4 /\ r.i # 5 /\ r.i # 6
            BY <5>2
          <6> QED
            BY <1>2, <5>1, <6>1, Zenon DEF ControlStatement
        <5> QED
          BY <5>2
      <4>2. /\ r.m \notin 1..3
            /\ r.m = 4 => r.i + 1 \notin 1..4 \cup {12}
            /\ r.m = 5 => r.i + 1 >= 3
        BY <1>2, <1>3, <1>4, <1>10, <2>2, <4>1 DEF ControlPlace
      <4>3. /\ proc'[p].m = r.m /\ proc'[p].i = r.i + 1 /\ proc'[p].open
        BY <1>1, <2>2
      <4>4. /\ proc'[p].m \notin 1..3
            /\ proc'[p].m = 4 => proc'[p].i \notin 1..4 \cup {12}
            /\ proc'[p].m = 5 => proc'[p].i >= 3
        BY <4>2, <4>3
      <4> QED
        BY <4>3, <4>4, Zenon DEF ControlPlace
    <3>2. ControlWork(proc'[p], db.data, unqueued)
      BY <1>1, <1>2, <1>3, <1>4, <1>5, <1>10, <2>1, <2>2 DEF ControlWork, ControlPlace
    <3> QED
      BY <1>9, <2>2, <3>1, <3>2
  <2>3. CASE ~r.open
    <3>1. ControlPlace(proc'[p])
      <4>1. /\ r.m = 4 => r.i + 1 \notin {5, 6}
            /\ r.m = 5 => ~(r.i + 1 >= 3)
        BY <1>2, <1>3, <1>4, <1>10, <2>3 DEF ControlPlace
      <4>2. /\ proc'[p].m = r.m /\ proc'[p].i = r.i + 1 /\ ~proc'[p].open
        BY <1>1, <2>3
      <4>3. /\ proc'[p].m = 4 => proc'[p].i \notin {5, 6}
            /\ proc'[p].m = 5 => ~(proc'[p].i >= 3)
        BY <4>1, <4>2
      <4> QED
        BY <4>2, <4>3, Zenon DEF ControlPlace
    <3>2. ControlWork(proc'[p], db'.data, unqueued')
      BY <1>1, <2>3 DEF ControlWork
    <3>3. ControlRows'
      BY <1>1, <1>4, <1>5, <2>1, <2>3 DEF ControlRows
    <3> QED
      BY <1>1, <3>1, <3>2, <3>3, ControlKept
  <2> QED
    BY <2>2, <2>3
<1>11. CASE r.m = 4 /\ r.i = 5 /\ s.op = "drop"
  <2>1. r.open
    BY <1>2, <1>4, <1>11 DEF ControlPlace
  <2>2. HasAfter(p) \subseteq w.has
    <3>1. HasAfter(p) \in {w.has \ Of(s.table, w.has), w.has \ Parts(s.table, s.names)}
      BY <1>6, <1>11 DEF SchemaAfter
    <3> QED
      BY <3>1
  <2>3. TriggerInPlace(HasAfter(p))
    BY <1>7, <2>2 DEF TriggerInPlace
  <2>4. /\ RowsAfter(p).copies = w.data.copies /\ RowsAfter(p).outbox = w.data.outbox
        /\ RowsAfter(p).windows = w.data.windows
    BY <1>5, <1>6, <1>11, DropRows
  <2>5. ControlPlace(proc'[p])
    BY <1>1, <1>11, <2>1 DEF ControlPlace
  <2>6. ControlWork(proc'[p], db.data, unqueued)
    BY <1>1, <1>4, <1>5, <1>11, <2>1, <2>3, <2>4 DEF ControlWork
  <2> QED
    BY <1>9, <2>1, <2>5, <2>6
<1>12. CASE /\ r.m = 4 /\ r.i = 6 /\ s.op = "rename" /\ s.table = "device_command_new"
            /\ s.names = {"device_command"}
  <2>1. r.open
    BY <1>2, <1>4, <1>12 DEF ControlPlace
  <2>2. TriggerInPlace(HasAfter(p))
    <3>1. HasAfter(p) = (w.has \ Of(s.table, w.has))
                        \cup Parts(Only(s), Named(Of(s.table, w.has)))
      BY <1>6, <1>12 DEF SchemaAfter
    <3>2. Only(s) = "device_command"
      BY <1>12, OnlyName
    <3>3. \A o \in Parts("device_command", Named(Of(s.table, w.has))) : o[1] = "device_command" /\ o = <<o[1], o[2]>>
      BY DEF Parts
    <3> QED
      BY <1>7, <3>1, <3>2, <3>3 DEF TriggerInPlace, Trigger
  <2>3. /\ RowsAfter(p).commands = w.data.copies /\ RowsAfter(p).outbox = w.data.outbox
        /\ RowsAfter(p).windows = w.data.windows
    BY <1>5, <1>6, <1>12, RenameRows
  <2>4. ControlPlace(proc'[p])
    BY <1>1, <1>12, <2>1 DEF ControlPlace
  <2>5. ControlWork(proc'[p], db.data, unqueued)
    BY <1>1, <1>4, <1>5, <1>12, <2>1, <2>2, <2>3 DEF ControlWork
  <2> QED
    BY <1>9, <2>1, <2>4, <2>5
<1>13. CASE /\ r.m = 5 /\ r.i = 3 /\ s.op = "part" /\ s.table = "device_command"
            /\ s.names = {Enqueue}
  <2>1. r.open
    BY <1>2, <1>4, <1>13 DEF ControlPlace
  <2>2. HasAfter(p) = w.has \cup Parts("device_command", {Enqueue})
    BY <1>6, <1>13 DEF SchemaAfter
  <2>3. Parts("device_command", {Enqueue}) = {Trigger}
    BY DEF Parts, Trigger
  <2>4. TriggerInPlace(HasAfter(p)) /\ Trigger \in HasAfter(p)
    BY <1>7, <2>2, <2>3 DEF TriggerInPlace
  <2>5. RowsAfter(p) = w.data
    BY <1>5, <1>6, <1>13, PartRows
  <2>6. ControlPlace(proc'[p])
    BY <1>1, <1>13, <2>1 DEF ControlPlace
  <2>7. ControlWork(proc'[p], db.data, unqueued)
    BY <1>1, <1>4, <1>5, <1>13, <2>1, <2>4, <2>5 DEF ControlWork
  <2> QED
    BY <1>9, <2>1, <2>6, <2>7
<1> QED
  BY <1>8, <1>10, <1>11, <1>12, <1>13


\* The rebuilt table has the commands that the old one had; a rebuild that is
\* late and has lost the trigger is told apart.
LEMMA ControlCommit ==
  ASSUME ServiceInv, ControlInv, svc = "control", NEW p \in Procs, CommitRows(p)
  PROVE  ControlInv'
<1> DEFINE r == proc[p]
           s == At(p)
           w == View(p)
<1>1. /\ InScript(p) /\ s.op = "commit"
      /\ UNCHANGED <<svc, fts5, unqueued>>
      /\ OthersStay(p)
      /\ proc'[p].m = r.m /\ proc'[p].i = r.i + 1 /\ ~proc'[p].open
      /\ db'.has = w.has /\ db'.data = w.data /\ db'.ver = db.ver
      /\ oddly' = IF r.open /\ IsLate(p) /\ w.has # db.has
                  THEN oddly \cup {"late"} ELSE oddly
  <2>1. /\ InScript(p) /\ s.op = "commit"
        /\ Proceeds(p, r.i + 1, r.seen, FALSE, <<>>)
        /\ db' = [has |-> w.has, data |-> w.data, ver |-> db.ver]
        /\ oddly' = IF r.open /\ IsLate(p) /\ w.has # db.has
                    THEN oddly \cup {"late"} ELSE oddly
        /\ UNCHANGED <<svc, fts5, unqueued>>
    BY CommitIs
  <2> HIDE DEF w
  <2>2. db'.has = w.has /\ db'.data = w.data /\ db'.ver = db.ver
    BY <2>1
  <2>3. /\ OthersStay(p)
        /\ proc'[p].m = r.m /\ proc'[p].i = r.i + 1 /\ ~proc'[p].open
    BY <2>1 DEF Proceeds
  <2> QED
    BY <2>1, <2>2, <2>3
<1>2. ControlStatement(r.m, r.i, s) /\ Runs(r)
  BY <1>1, ControlAt DEF InScript, Runs
<1>3. /\ r.m \in 1..3 \/ (r.m = 4 /\ r.i \in {1, 3, 7, 8, 9, 10, 11})
  BY <1>1, <1>2, ControlOps
<1>4. ControlPlace(r) /\ ControlWork(r, db.data, unqueued) /\ ControlRows
  BY DEF ControlInv
<1>5. /\ r.open => w = r.work /\ Unlocked(p)
      /\ ~r.open => w.has = db.has /\ w.data = db.data
  BY <1>1, InScriptIs
<1>6. 4 \in db.ver => (r.m = 4 => IsLate(p))
  BY DEF IsLate
<1>7. 5 \in db.ver => 4 \in db.ver
  BY DEF ServiceInv, VersionsInv
<1> HIDE DEF r, s, w
<1>8. ControlPlace(proc'[p])
  <2>1. /\ proc'[p].m = 4 => proc'[p].i \notin {5, 6}
        /\ proc'[p].m # 5
    BY <1>1, <1>3
  <2> QED
    BY <1>1, <2>1, Zenon DEF ControlPlace
<1>9. ControlWork(proc'[p], db'.data, unqueued')
  BY <1>1 DEF ControlWork
<1>10. CASE ~r.open
  <2>1. ControlRows'
    BY <1>1, <1>4, <1>5, <1>10 DEF ControlRows
  <2>2. db'.data = db.data /\ unqueued' = unqueued
    BY <1>1, <1>5, <1>10
  <2> QED
    BY <1>1, <1>8, <1>9, <2>1, <2>2, ControlKept
<1>11. CASE r.open
  <2>1. r.m = 4 /\ r.i > 6
    BY <1>2, <1>3, <1>4, <1>11 DEF ControlPlace
  <2>2. /\ TriggerInPlace(w.has) /\ w.data.outbox = db.data.outbox
        /\ w.data.windows = db.data.windows /\ w.data.commands = db.data.commands
    BY <1>4, <1>5, <1>11, <2>1 DEF ControlWork
  <2>3. 5 \in db.ver /\ "late" \notin oddly' => w.has = db.has /\ "late" \notin oddly
    BY <1>1, <1>6, <1>7, <1>11, <2>1
  <2>4. ControlRows'
    BY <1>1, <1>4, <2>2, <2>3 DEF ControlRows, NoneDue, AllQueued
  <2> QED
    BY <1>1, <1>5, <1>8, <1>9, <1>11, <2>4, ControlKept
<1> QED
  BY <1>10, <1>11

LEMMA ControlRecord ==
  ASSUME ServiceInv, ControlInv, svc = "control", NEW p \in Procs, Record(p)
  PROVE  ControlInv'
<1> DEFINE r == proc[p]
           w == View(p)
<1>1. /\ OthersStay(p) /\ Rests(proc'[p]) /\ Runs(r) /\ Unlocked(p) /\ r.m \notin db.ver
      /\ r.i = Len(Script(r.m)) + 1
      /\ UNCHANGED <<svc, fts5, unqueued, oddly>>
      /\ db'.has = w.has /\ db'.data = w.data /\ db'.ver = db.ver \cup {r.m}
  BY RecordIs
<1>2. ControlPlace(r) /\ ControlWork(r, db.data, unqueued) /\ ControlRows
  BY DEF ControlInv
<1>3. ControlPlace(proc'[p]) /\ ControlWork(proc'[p], db'.data, unqueued')
  BY <1>1 DEF Rests, ControlPlace, ControlWork
<1>4. /\ r.open => w = r.work
      /\ ~r.open => w.has = db.has /\ w.data = db.data
  BY DEF View
<1>5. r.m \in 1..5
  <2>1. ProcFits(r)
    BY DEF ServiceInv
  <2> QED
    BY <1>1, <2>1, ScriptsAre, ControlScripts DEF ProcFits, LastVersion
<1>6. (r.m = 4 => Len(Script(r.m)) = 11) /\ (r.m = 5 => Len(Script(r.m)) = 7)
  BY ControlScripts, Control4Is, Control5Is DEF Script
<1>7. CASE r.m # 5
  <2>1. ~r.open
    <3> DEFINE len == Len(Script(r.m))
    <3>0. r.i = len + 1 /\ (r.m = 4 => len = 11)
      BY <1>1, <1>6
    <3> HIDE DEF r, len
    <3>1. r.m = 4 => r.i = 12
      BY <3>0
    <3> QED
      BY <1>1, <1>2, <1>5, <1>7, <3>1 DEF ControlPlace
  <2>2. ControlRows'
    BY <1>1, <1>2, <1>4, <1>7, <2>1 DEF ControlRows
  <2> QED
    BY <1>1, <1>3, <2>2, ControlKept
<1>8. CASE r.m = 5
  <2> DEFINE len == Len(Script(r.m))
  <2>0. r.i = len + 1 /\ len = 7
    BY <1>1, <1>6, <1>8
  <2> HIDE DEF r, w, len
  <2>1. r.i = 8
    BY <2>0
  <2>2. r.open
    BY <1>1, <1>2, <1>8, <2>1 DEF ControlPlace
  <2>3. /\ TriggerInPlace(w.has) /\ Trigger \in w.has /\ AllQueued(w.data, unqueued)
        /\ w.data.commands = db.data.commands /\ unqueued \cap Unverified \subseteq w.data.windows
    BY <1>2, <1>4, <1>8, <2>1, <2>2 DEF ControlWork
  <2>4. ControlRows'
    BY <1>1, <1>2, <2>3 DEF ControlRows, AllQueued
  <2> QED
    BY <1>1, <1>3, <2>4, ControlKept
<1> QED
  BY <1>7, <1>8

LEMMA ControlInsert ==
  ASSUME ServiceInv, ControlInv, svc = "control", NEW c, Insert(c)
  PROVE  ControlInv'
<1> DEFINE d == db.data
<1>1. /\ proc' = proc /\ UNCHANGED <<svc, fts5, oddly>>
      /\ \A p \in Procs : ~proc[p].open
      /\ c \notin d.commands
      /\ db'.has = db.has /\ db'.ver = db.ver
      /\ db'.data.commands = d.commands \cup {c}
      /\ db'.data.outbox = IF Trigger \in db.has
                           THEN Added(d.outbox, [x \in {c} |-> "pending"]) ELSE d.outbox
      /\ db'.data.windows = d.windows
      /\ unqueued' = IF Trigger \in db.has THEN unqueued ELSE unqueued \cup {c}
  <2>1. db' = [has |-> db.has, ver |-> db.ver, data |-> db'.data]
    BY InsertIs
  <2> DEFINE outbox == IF Trigger \in db.has
                       THEN Added(d.outbox, [x \in {c} |-> "pending"]) ELSE d.outbox
  <2>2. db'.data =
           [commands |-> d.commands \cup {c}, copies |-> d.copies,
            outbox |-> outbox, windows |-> d.windows,
            statuses |-> d.statuses, current |-> d.current,
            unnamed |-> d.unnamed, fts |-> d.fts, open |-> d.open]
    BY InsertIs, Zenon
  <2>3. /\ proc' = proc /\ UNCHANGED <<svc, fts5, oddly>>
        /\ \A p \in Procs : ~proc[p].open
        /\ c \notin d.commands
        /\ unqueued' = IF Trigger \in db.has THEN unqueued ELSE unqueued \cup {c}
    BY InsertIs
  <2> HIDE DEF outbox, d
  <2>4. /\ db'.data.commands = d.commands \cup {c}
        /\ db'.data.outbox = outbox
        /\ db'.data.windows = d.windows
    BY <2>2
  <2> QED
    BY <2>1, <2>3, <2>4 DEF outbox
<1>2. ControlRows /\ \A p \in Procs : ControlPlace(proc[p])
  BY DEF ControlInv
<1>3. \A p \in Procs' : ControlPlace(proc'[p]) /\ ControlWork(proc'[p], db'.data, unqueued')
  BY <1>1, <1>2 DEF ControlWork, Procs
<1> HIDE DEF d
<1>4. ControlRows'
  <2>1. CASE Trigger \in db.has
    <3>1. /\ unqueued' = unqueued
          /\ db'.data.outbox = Added(d.outbox, [x \in {c} |-> "pending"])
      BY <1>1, <2>1
    <3>2. DOMAIN db'.data.outbox = DOMAIN d.outbox \cup {c}
      BY <3>1 DEF Added
    <3>3. \A x \in DOMAIN d.outbox : db'.data.outbox[x] = d.outbox[x]
      BY <3>1 DEF Added
    <3>4. c \notin unqueued
      BY <1>1, <1>2 DEF ControlRows, d
    <3> QED
      BY <1>1, <1>2, <3>1, <3>2, <3>3, <3>4 DEF ControlRows, NoneDue, AllQueued, d
  <2>2. CASE Trigger \notin db.has
    BY <1>1, <1>2, <2>2 DEF ControlRows, NoneDue, AllQueued, d
  <2> QED
    BY <2>1, <2>2
<1> QED
  BY <1>3, <1>4 DEF ControlInv

LEMMA ControlInit ==
  ASSUME Init, svc = "control"
  PROVE  ControlInv
<1>1. /\ \A p \in Procs : proc[p].open = FALSE /\ ~Runs(proc[p])
      /\ db.ver = {} /\ unqueued = db.data.commands
      /\ \/ db.has = {} /\ db.data = EmptyData
         \/ /\ db.has = Baseline[svc] \/ db.has = Baseline[svc] \ Compat(svc)
            /\ db.data = OldData(svc)
  BY ServiceInit
<1>2. TriggerInPlace({}) /\ TriggerInPlace(Baseline[svc])
  <2>1. Baseline[svc] = UNION {SchemaAfter(s, {}) : s \in ToSet(Control1)}
    BY ControlScripts DEF Baseline, Services
  <2>2. \A s \in ToSet(Control1) : IsAddition(s)
    BY Control1Adds DEF OnlyAdds, ToSet, IsScript
  <2>3. \A s \in ToSet(Control1) : TriggerInPlace(SchemaAfter(s, {}))
    BY <2>2, AdditionsAdd, EmptyIs DEF TriggerInPlace
  <2> QED
    BY <2>1, <2>3 DEF TriggerInPlace
<1>3. TriggerInPlace(db.has)
  BY <1>1, <1>2 DEF TriggerInPlace
<1>4. DOMAIN db.data.outbox = {}
  <2>1. DOMAIN OldData(svc).outbox = {}
    BY EmptyIs DEF OldData, IsData
  <2> QED
    BY <1>1, <2>1, EmptyIs
<1>5. ControlRows
  BY <1>1, <1>3, <1>4 DEF ControlRows, NoneDue
<1> QED
  BY <1>1, <1>5 DEF ControlInv, ControlPlace, ControlWork

\* The diagnosis server alone inserts rows of its own.
LEMMA ControlSeed ==
  ASSUME ServiceInv, ControlInv, svc = "control", NEW p \in Procs, Seed(p)
  PROVE  ControlInv'
<1>1. /\ OthersStay(p) /\ Rests(proc'[p]) /\ Unlocked(p)
      /\ UNCHANGED <<svc, fts5, unqueued, oddly>>
      /\ db'.has = db.has /\ db'.ver = db.ver
      /\ db'.data.commands = db.data.commands /\ db'.data.outbox = db.data.outbox
      /\ db'.data.windows = db.data.windows
  <2>1. db' = [has |-> db.has, ver |-> db.ver, data |-> db'.data]
    BY SeedIs
  <2>2. \E x, y : db'.data =
           [commands |-> db.data.commands, copies |-> db.data.copies,
            outbox |-> db.data.outbox, windows |-> db.data.windows,
            statuses |-> db.data.statuses, current |-> x,
            unnamed |-> db.data.unnamed, fts |-> y, open |-> db.data.open]
    BY SeedIs
  <2>3. /\ OthersStay(p) /\ Rests(proc'[p]) /\ Unlocked(p)
        /\ UNCHANGED <<svc, fts5, unqueued, oddly>>
    BY SeedIs
  <2> QED
    BY <2>1, <2>2, <2>3
<1>2. ControlPlace(proc'[p]) /\ ControlWork(proc'[p], db'.data, unqueued')
  BY <1>1 DEF Rests, ControlPlace, ControlWork
<1>3. ControlRows'
  BY <1>1 DEF ControlInv, ControlRows, NoneDue, AllQueued
<1> QED
  BY <1>1, <1>2, <1>3, ControlKept



-----------------------------------------------------------------------------
(* The diagnosis database.                                                  *)

\* The statements that only add, or that give the old fault cases a signature.
Plain(m, i) ==
  \/ m = 1 /\ i \in 1..(LastOf(1) - 2)
  \/ m = 2 /\ i \in 1..6
  \/ m = 3 /\ i \in 1..2
  \/ m = 4 /\ i \in 1..4
  \/ m = 5 /\ i \in Nat

\* Where a process is, and the statement that is next.
DiagnosisStatement(m, i, s) ==
  \/ Plain(m, i) /\ IsAddition(s)
  \/ m = 1 /\ i = LastOf(1) - 1 /\ s.op = "name"
  \/ m = 1 /\ i = LastOf(1) /\ s.op = "commit"
  \/ m = 2 /\ i = 7 /\ s.op = "read" /\ s.table = "device_status"
  \/ m = 2 /\ i = 8 /\ s.op = "only" /\ Parts(s.table, s.names) = {OldTable}
  \/ m = 2 /\ i = 9 /\ s.op = "newest"
  \/ m = 2 /\ i = 10 /\ s.op = "rename" /\ s.table = "device_status"
     /\ s.names = {"device_status_legacy"}
  \/ m = 2 /\ i = 11 /\ s.op = "commit"
  \/ m = 4 /\ i = 5 /\ s.op = "fts5"
  \/ m = 4 /\ i = 6 /\ s.op = "create" /\ s.table = Fts /\ IsAddition(s)
  \/ m = 4 /\ i = 7 /\ s.op = "unindex"
  \/ m = 4 /\ i = 8 /\ s.op = "index"
  \/ m = 4 /\ i = 9 /\ s.op = "commit"
  \/ Plain(m, i) /\ m = 5 /\ s.op = "govern"
  \/ m = 6 /\ i \in 1..6 /\ s.op = "drop" /\ s.table \in {"fault_case", "fault_case_feedback"}
     /\ \E x : s.names = {x}
  \/ m = 6 /\ i = 7 /\ s.op = "cancel"

LEMMA Diagnosis1Ops ==
  /\ LastOf(1) \in Nat /\ LastOf(1) > 2 /\ LastOf(1) = Len(Diagnosis1)
  /\ Diagnosis1[LastOf(1) - 1].op = "name" /\ Diagnosis1[LastOf(1)].op = "commit"
<1>1. LastOf(1) = Len(Diagnosis1)
  BY DiagnosisScripts DEF LastOf
<1>2. \A w, t : Rows(w, t).op = w
  BY DEF Rows, Statement
<1>3. Commit.op = "commit"
  BY DEF Commit, Statement
<1> QED
  BY <1>1, <1>2, <1>3, Diagnosis1Is

LEMMA Diagnosis2Ops ==
  /\ Diagnosis2[7].op = "read" /\ Diagnosis2[7].table = "device_status"
  /\ Diagnosis2[8].op = "only" /\ Parts(Diagnosis2[8].table, Diagnosis2[8].names) = {OldTable}
  /\ Diagnosis2[9].op = "newest"
  /\ Diagnosis2[10].op = "rename" /\ Diagnosis2[10].table = "device_status"
  /\ Diagnosis2[10].names = {"device_status_legacy"}
  /\ Diagnosis2[11].op = "commit"
<1>1. \A w, t : Rows(w, t).op = w
  BY DEF Rows, Statement
<1>2. Commit.op = "commit"
  BY DEF Commit, Statement
<1>3. \A t : Read(t).op = "read" /\ Read(t).table = t
  BY DEF Read, Statement
<1>4. \A t, n : Rename(t, n).op = "rename" /\ Rename(t, n).table = t /\ Rename(t, n).names = {n}
  BY DEF Rename, Statement
<1>5. \A t, n : OnlyIfSeen(t, n).op = "only" /\ OnlyIfSeen(t, n).table = t
                /\ OnlyIfSeen(t, n).names = n
  BY DEF OnlyIfSeen, Statement
<1>6. \A t, n : Parts(t, {n}) = {<<t, n>>}
  BY DEF Parts
<1>7. Diagnosis2[8].op = "only" /\ Parts(Diagnosis2[8].table, Diagnosis2[8].names) = {OldTable}
  <2> DEFINE d == OnlyIfSeen("device_status", {""})
  <2>1. Diagnosis2[8] = d
    BY Diagnosis2Is, Zenon
  <2>2. d.op = "only" /\ d.table = "device_status" /\ d.names = {""}
    BY <1>5, Zenon
  <2> HIDE DEF d
  <2>3. Parts(d.table, d.names) = {OldTable}
    BY <1>6, <2>2, Zenon DEF OldTable, TheTable
  <2> QED
    BY <2>1, <2>2, <2>3, Zenon
<1>9. Diagnosis2[7] = Read("device_status") /\ Diagnosis2[9] = Rows("newest", "device_current_state")
      /\ Diagnosis2[10] = Rename("device_status", "device_status_legacy")
      /\ Diagnosis2[11] = Commit
  BY Diagnosis2Is, Zenon
<1>10. Diagnosis2[7].op = "read" /\ Diagnosis2[7].table = "device_status"
  BY <1>3, <1>9, Zenon
<1>11. Diagnosis2[9].op = "newest" /\ Diagnosis2[11].op = "commit"
  BY <1>1, <1>2, <1>9, Zenon
<1>12. /\ Diagnosis2[10].op = "rename" /\ Diagnosis2[10].table = "device_status"
       /\ Diagnosis2[10].names = {"device_status_legacy"}
  BY <1>4, <1>9
<1> QED
  BY <1>7, <1>10, <1>11, <1>12, Zenon

LEMMA Diagnosis4Ops ==
  /\ Diagnosis4[5].op = "fts5"
  /\ Diagnosis4[6].op = "create" /\ Diagnosis4[6].table = Fts
  /\ Diagnosis4[7].op = "unindex" /\ Diagnosis4[8].op = "index"
  /\ Diagnosis4[9].op = "commit"
<1>1. \A w, t : Rows(w, t).op = w
  BY DEF Rows, Statement
<1>2. Commit.op = "commit" /\ OnlyWithFts5.op = "fts5"
  BY DEF Commit, OnlyWithFts5, Statement
<1>3. \A t, c : Create(t, c).op = "create" /\ Create(t, c).table = t
  BY DEF Create, Statement
<1>4. /\ Diagnosis4[5] = OnlyWithFts5 /\ Diagnosis4[6] = Create(Fts, {})
      /\ Diagnosis4[7] = Rows("unindex", Fts) /\ Diagnosis4[8] = Rows("index", Fts)
      /\ Diagnosis4[9] = Commit
  BY Diagnosis4Is
<1>5. Diagnosis4[6].op = "create" /\ Diagnosis4[6].table = Fts
  BY <1>3, <1>4
<1>6. Diagnosis4[5].op = "fts5" /\ Diagnosis4[9].op = "commit"
  BY <1>2, <1>4, Zenon
<1>7. Diagnosis4[7].op = "unindex" /\ Diagnosis4[8].op = "index"
  BY <1>1, <1>4, Zenon
<1> QED
  BY <1>5, <1>6, <1>7, Zenon

LEMMA DiagnosisAt ==
  ASSUME ServiceInv, svc = "diagnosis", NEW p \in Procs, InScript(p)
  PROVE  DiagnosisStatement(proc[p].m, proc[p].i, At(p))
<1> DEFINE m == proc[p].m
           i == proc[p].i
<1>1. LastVersion = 6
  BY DiagnosisScripts DEF LastVersion
<1>2. m \in 1..6 /\ Len(Script(m)) \in Nat /\ i \in 1..Len(Script(m))
  BY <1>1, InScriptIs
<1>3. Script(m) = Diagnosis[m] /\ At(p) = Diagnosis[m][i]
  BY DiagnosisScripts DEF Script, At
<1>4. CASE m = 1
  <2>1. i \in 1..LastOf(1) /\ At(p) = Diagnosis1[i]
    BY <1>2, <1>3, <1>4, DiagnosisScripts, Diagnosis1Ops
  <2>2. i \in 1..(LastOf(1) - 2) => IsAddition(At(p))
    BY <2>1, Diagnosis1Is, Diagnosis1Ops
  <2>3. i \in 1..(LastOf(1) - 2) \/ i = LastOf(1) - 1 \/ i = LastOf(1)
    BY <2>1, Diagnosis1Ops
  <2>4. (i = LastOf(1) - 1 => At(p).op = "name") /\ (i = LastOf(1) => At(p).op = "commit")
    BY <2>1, Diagnosis1Ops, Zenon
  <2> QED
    BY <1>4, <2>2, <2>3, <2>4, Zenon DEF DiagnosisStatement, Plain
<1>5. CASE m = 2
  <2>1. i \in 1..11 /\ At(p) = Diagnosis2[i]
    BY <1>2, <1>3, <1>5, DiagnosisScripts, Diagnosis2Is, Zenon
  <2>2. i \in 1..6 => IsAddition(At(p))
    <3>1. \A j \in 1..7 : IsAddition(Diagnosis2[j])
      BY Diagnosis2Is, Zenon
    <3> QED
      BY <2>1, <3>1
  <2>3. i \in 1..6 \/ i = 7 \/ i = 8 \/ i = 9 \/ i = 10 \/ i = 11
    BY <2>1
  <2> DEFINE s == At(p)
  <2>4. /\ i = 7 => s.op = "read" /\ s.table = "device_status"
        /\ i = 8 => s.op = "only" /\ Parts(s.table, s.names) = {OldTable}
        /\ i = 9 => s.op = "newest"
        /\ i = 10 => /\ s.op = "rename" /\ s.table = "device_status"
                     /\ s.names = {"device_status_legacy"}
        /\ i = 11 => s.op = "commit"
    BY <2>1, Diagnosis2Ops, Zenon
  <2> QED
    BY <1>5, <2>2, <2>3, <2>4, Zenon DEF DiagnosisStatement, Plain
<1>6. CASE m = 3
  <2>1. i \in 1..2 /\ At(p) = Diagnosis3[i]
    BY <1>2, <1>3, <1>6, DiagnosisScripts, Diagnosis3Is
  <2>2. IsAddition(At(p))
    BY <2>1, Diagnosis3Is
  <2> QED
    BY <1>6, <2>1, <2>2, Zenon DEF DiagnosisStatement, Plain
<1>7. CASE m = 4
  <2>1. i \in 1..9 /\ At(p) = Diagnosis4[i]
    BY <1>2, <1>3, <1>7, DiagnosisScripts, Diagnosis4Is, Zenon
  <2>2. i \in 1..4 \/ i = 6 => IsAddition(At(p))
    <3>1. \A j \in {1, 2, 3, 4, 6} : IsAddition(Diagnosis4[j])
      BY Diagnosis4Is, Zenon
    <3> QED
      BY <2>1, <3>1
  <2>3. i \in 1..4 \/ i = 5 \/ i = 6 \/ i = 7 \/ i = 8 \/ i = 9
    BY <2>1
  <2> DEFINE s == At(p)
  <2>4. /\ i = 5 => s.op = "fts5"
        /\ i = 6 => s.op = "create" /\ s.table = Fts
        /\ i = 7 => s.op = "unindex"
        /\ i = 8 => s.op = "index"
        /\ i = 9 => s.op = "commit"
    BY <2>1, Diagnosis4Ops, Zenon
  <2> QED
    BY <1>7, <2>2, <2>3, <2>4, Zenon DEF DiagnosisStatement, Plain
<1>8. CASE m = 5
  <2>1. i \in 1..Len(Diagnosis5) /\ At(p) = Diagnosis5[i]
    BY <1>2, <1>3, <1>8, DiagnosisScripts
  <2>2. i \in Nat
    BY <1>2
  <2>3. Rows("govern", "fault_case").op = "govern"
    BY DEF Rows, Statement
  <2>4. IsAddition(At(p)) \/ At(p).op = "govern"
    BY <2>1, <2>3, Diagnosis5Is, Zenon
  <2> QED
    BY <1>8, <2>2, <2>4, Zenon DEF DiagnosisStatement, Plain
<1>9. CASE m = 6
  <2>1. i \in 1..7 /\ At(p) = Diagnosis6[i]
    BY <1>2, <1>3, <1>9, DiagnosisScripts, Diagnosis6Is, Zenon
  <2>2. i \in 1..6 => /\ At(p).op = "drop"
                      /\ At(p).table \in {"fault_case", "fault_case_feedback"}
                      /\ \E x : At(p).names = {x}
    BY <2>1, Diagnosis6Is
  <2>3. i = 7 => At(p).op = "cancel"
    <3>1. Rows("cancel", "external_sync_outbox").op = "cancel"
      BY DEF Rows, Statement
    <3> QED
      BY <2>1, <3>1, Diagnosis6Is, Zenon
  <2>4. i \in 1..6 \/ i = 7
    BY <2>1
  <2> QED
    BY <1>9, <2>2, <2>3, <2>4, Zenon DEF DiagnosisStatement
<1>10. m = 1 \/ m = 2 \/ m = 3 \/ m = 4 \/ m = 5 \/ m = 6
  BY <1>2
<1> QED
  BY <1>4, <1>5, <1>6, <1>7, <1>8, <1>9, <1>10


\* Where the statements are that are not plain.
LEMMA DiagnosisOps ==
  ASSUME NEW m, NEW i, NEW s, DiagnosisStatement(m, i, s)
  PROVE  /\ IsRows(s) => \/ m = 1 /\ i = LastOf(1) - 1 /\ s.op = "name"
                         \/ m = 2 /\ i = 9 /\ s.op = "newest"
                         \/ m = 4 /\ i = 7 /\ s.op = "unindex"
                         \/ m = 4 /\ i = 8 /\ s.op = "index"
                         \/ m = 5 /\ Plain(m, i) /\ s.op = "govern"
                         \/ m = 6 /\ i = 7 /\ s.op = "cancel"
         /\ s.op = "only" => m = 2 /\ i = 8 /\ Parts(s.table, s.names) = {OldTable}
         /\ s.op = "fts5" => m = 4 /\ i = 5
         /\ s.op = "read" => \/ Plain(m, i)
                             \/ m = 2 /\ i = 7 /\ s.table = "device_status"
         /\ s.op = "commit" => \/ Plain(m, i)
                               \/ m = 1 /\ i = LastOf(1)
                               \/ m = 2 /\ i = 11
                               \/ m = 4 /\ i = 9
         /\ s.op \in {"create", "part", "column"} =>
                               \/ Plain(m, i) /\ IsAddition(s)
                               \/ /\ m = 4 /\ i = 6 /\ s.op = "create" /\ s.table = Fts
                                  /\ IsAddition(s)
         /\ s.op = "drop" => /\ m = 6 /\ i \in 1..6
                             /\ s.table \in {"fault_case", "fault_case_feedback"}
                             /\ \E x : s.names = {x}
         /\ s.op = "rename" => /\ m = 2 /\ i = 10 /\ s.table = "device_status"
                               /\ s.names = {"device_status_legacy"}
<1>1. CASE IsAddition(s)
  <2>1. s.op \in {"create", "part", "column", "read", "commit"} /\ ~IsRows(s)
    BY <1>1, AdditionOps
  <2>2. /\ s.op # "name" /\ s.op # "only" /\ s.op # "newest" /\ s.op # "rename" /\ s.op # "fts5"
        /\ s.op # "unindex" /\ s.op # "index" /\ s.op # "govern" /\ s.op # "drop"
        /\ s.op # "cancel"
    BY <2>1
  <2>3. \/ Plain(m, i)
        \/ m = 1 /\ i = LastOf(1) /\ s.op = "commit"
        \/ m = 2 /\ i = 7 /\ s.op = "read" /\ s.table = "device_status"
        \/ m = 2 /\ i = 11 /\ s.op = "commit"
        \/ m = 4 /\ i = 6 /\ s.op = "create" /\ s.table = Fts
        \/ m = 4 /\ i = 9 /\ s.op = "commit"
    BY <2>2, Zenon DEF DiagnosisStatement
  <2> QED
    BY <1>1, <2>1, <2>2, <2>3
<1>2. CASE ~IsAddition(s)
  <2> DEFINE plain == Plain(m, i)
             only == Parts(s.table, s.names) = {OldTable}
             L == LastOf(1)
  <2>1. \/ m = 1 /\ i = L - 1 /\ s.op = "name"
        \/ m = 1 /\ i = L /\ s.op = "commit"
        \/ m = 2 /\ i = 7 /\ s.op = "read" /\ s.table = "device_status"
        \/ m = 2 /\ i = 8 /\ s.op = "only" /\ only
        \/ m = 2 /\ i = 9 /\ s.op = "newest"
        \/ m = 2 /\ i = 10 /\ s.op = "rename" /\ s.table = "device_status"
           /\ s.names = {"device_status_legacy"}
        \/ m = 2 /\ i = 11 /\ s.op = "commit"
        \/ m = 4 /\ i = 5 /\ s.op = "fts5"
        \/ m = 4 /\ i = 7 /\ s.op = "unindex"
        \/ m = 4 /\ i = 8 /\ s.op = "index"
        \/ m = 4 /\ i = 9 /\ s.op = "commit"
        \/ plain /\ m = 5 /\ s.op = "govern"
        \/ m = 6 /\ i \in 1..6 /\ s.op = "drop" /\ s.table \in {"fault_case", "fault_case_feedback"}
           /\ \E x : s.names = {x}
        \/ m = 6 /\ i = 7 /\ s.op = "cancel"
    BY <1>2, Zenon DEF DiagnosisStatement
  <2> HIDE DEF plain, only, L
  <2>2. /\ IsRows(s) => \/ m = 1 /\ i = L - 1 /\ s.op = "name"
                        \/ m = 2 /\ i = 9 /\ s.op = "newest"
                        \/ m = 4 /\ i = 7 /\ s.op = "unindex"
                        \/ m = 4 /\ i = 8 /\ s.op = "index"
                        \/ m = 5 /\ plain /\ s.op = "govern"
                        \/ m = 6 /\ i = 7 /\ s.op = "cancel"
    BY <2>1 DEF IsRows
  <2>5. s.op = "only" => m = 2 /\ i = 8 /\ only
    <3>1. s.op = "only" => /\ s.op # "name" /\ s.op # "commit" /\ s.op # "read"
                           /\ s.op # "newest" /\ s.op # "rename" /\ s.op # "fts5"
                           /\ s.op # "unindex" /\ s.op # "index" /\ s.op # "govern"
                           /\ s.op # "drop" /\ s.op # "cancel"
      OBVIOUS
    <3> QED
      BY <2>1, <3>1, Zenon
  <2>3. /\ s.op = "fts5" => m = 4 /\ i = 5
        /\ s.op = "read" => m = 2 /\ i = 7 /\ s.table = "device_status"
        /\ s.op = "commit" => \/ m = 1 /\ i = L
                              \/ m = 2 /\ i = 11
                              \/ m = 4 /\ i = 9
        /\ s.op \notin {"create", "part", "column"}
    <3>1. s.op = "fts5" => m = 4 /\ i = 5
      BY <2>1
    <3>2. s.op = "read" => m = 2 /\ i = 7 /\ s.table = "device_status"
      BY <2>1
    <3>3. s.op = "commit" => \/ m = 1 /\ i = L
                             \/ m = 2 /\ i = 11
                             \/ m = 4 /\ i = 9
      BY <2>1
    <3>4. s.op \notin {"create", "part", "column"}
      BY <2>1
    <3> QED
      BY <3>1, <3>2, <3>3, <3>4
  <2>4. /\ s.op = "drop" => /\ m = 6 /\ i \in 1..6
                            /\ s.table \in {"fault_case", "fault_case_feedback"}
                            /\ \E x : s.names = {x}
        /\ s.op = "rename" => /\ m = 2 /\ i = 10 /\ s.table = "device_status"
                              /\ s.names = {"device_status_legacy"}
    BY <2>1
  <2> QED
    BY <2>2, <2>3, <2>4, <2>5, Zenon DEF plain, only, L
<1> QED
  BY <1>1, <1>2

\* A plain statement needs nothing of where the next one is, and outside of the
\* third and the fifth script no transaction is open there.
LEMMA PlainPlace ==
  ASSUME NEW r, NEW s, NEW has, NEW data, Plain(r.m, r.i), s.m = r.m, s.i = r.i + 1,
         r.m \in {1, 2, 4} => ~s.open
  PROVE  DiagnosisPlace(s, has, data)
<1>1. LastOf(1) \in Nat /\ LastOf(1) > 2
  BY Diagnosis1Ops
<1>2. CASE r.m = 1
  <2>1. s.m = 1 /\ s.m # 2 /\ s.m # 4 /\ s.m # 6 /\ ~s.open /\ s.i # LastOf(1) /\ ~(s.i > LastOf(1))
    BY <1>1, <1>2 DEF Plain
  <2> QED
    BY <2>1, Zenon DEF DiagnosisPlace
<1>3. CASE r.m = 2
  <2>1. s.m = 2 /\ s.m # 1 /\ s.m # 4 /\ s.m # 6 /\ ~s.open /\ s.i # 8 /\ s.i \notin {10, 11} /\ s.i # 12
    BY <1>3 DEF Plain
  <2> QED
    BY <2>1, Zenon DEF DiagnosisPlace
<1>4. CASE r.m = 4
  <2>1. s.m = 4 /\ s.m # 1 /\ s.m # 2 /\ s.m # 6 /\ ~s.open /\ s.i \notin {8, 9} /\ ~(s.i > 6) /\ s.i # 10
    BY <1>4 DEF Plain
  <2> QED
    BY <2>1, Zenon DEF DiagnosisPlace
<1>5. CASE r.m \in {3, 5}
  BY <1>5 DEF DiagnosisPlace
<1>6. r.m \in {1, 2, 3, 4, 5}
  BY DEF Plain
<1> QED
  BY <1>2, <1>3, <1>4, <1>5, <1>6

LEMMA PlainOpen ==
  ASSUME NEW r, NEW has, NEW data, Plain(r.m, r.i), Runs(r), DiagnosisPlace(r, has, data)
  PROVE  r.m \in {1, 2, 4} => ~r.open
<1>1. LastOf(1) \in Nat /\ LastOf(1) > 2
  BY Diagnosis1Ops
<1>2. CASE r.m = 1
  <2>1. r.i # LastOf(1)
    BY <1>1, <1>2 DEF Plain
  <2> QED
    BY <1>2, <2>1, Zenon DEF DiagnosisPlace
<1>3. CASE r.m = 2
  <2>1. r.i \notin {10, 11}
    BY <1>3 DEF Plain
  <2> QED
    BY <1>3, <2>1, Zenon DEF DiagnosisPlace
<1>4. CASE r.m = 4
  <2>1. r.i \notin {8, 9}
    BY <1>4 DEF Plain
  <2> QED
    BY <1>4, <2>1, Zenon DEF DiagnosisPlace
<1> QED
  BY <1>2, <1>3, <1>4

\* What a step keeps of the rows and tables that are there to be relied on.
Stays ==
  /\ db.data.unnamed = {} => db'.data.unnamed = {}
  /\ db.data.statuses = {} => db'.data.statuses = {}
  /\ FtsTable \in db.has => /\ FtsTable \in db'.has
                            /\ IndexedOnce(db.data, 1) => IndexedOnce(db'.data, 1)
  /\ fts5' = fts5

LEMMA DiagnosisKept ==
  ASSUME ServiceInv, DiagnosisInv, NEW p \in Procs, OthersStay(p), Stays,
         \/ db'.data = db.data /\ (FtsTable \in db'.has => FtsTable \in db.has)
         \/ Unlocked(p),
         DiagnosisRows', DiagnosisPlace(proc'[p], db'.has, db'.data),
         DiagnosisWork(proc'[p], db'.has, db'.data)
  PROVE  DiagnosisInv'
<1>1. ASSUME NEW q \in Procs'
      PROVE  DiagnosisPlace(proc[q], db.has, db.data)' /\ DiagnosisWork(proc[q], db.has, db.data)'
  <2>1. CASE q = p
    BY <2>1 DEF DiagnosisPlace, DiagnosisWork, Stays, Runs, LastOf, IsCurrent, IndexedOnce
  <2>2. CASE q # p
    <3>1. proc'[q] = proc[q] /\ q \in Procs
      BY <1>1, <2>2 DEF OthersStay
    <3>2. DiagnosisPlace(proc[q], db.has, db.data) /\ DiagnosisWork(proc[q], db.has, db.data)
      BY <3>1 DEF DiagnosisInv
    <3>3. DiagnosisPlace(proc[q], db.has, db.data)'
      BY <3>1, <3>2 DEF DiagnosisPlace, Stays, Runs, LastOf
    <3>4. CASE Unlocked(p)
      BY <2>2, <3>1, <3>3, <3>4 DEF Unlocked, DiagnosisWork
    <3>5. CASE db'.data = db.data /\ (FtsTable \in db'.has => FtsTable \in db.has)
      BY <3>1, <3>2, <3>3, <3>5 DEF DiagnosisWork, IsCurrent, IndexedOnce
    <3> QED
      BY <3>4, <3>5
  <2> QED
    BY <2>1, <2>2
<1> QED
  BY <1>1 DEF DiagnosisInv


LEMMA PlaceShut ==
  ASSUME NEW r, NEW has, NEW data, ~r.open,
         r.m = 1 => r.i # LastOf(1) /\ (r.i > LastOf(1) => data.unnamed = {}),
         r.m = 2 => /\ r.i = 8 /\ OldTable \notin r.seen => data.statuses = {}
                    /\ r.i \in {10, 11, 12} => data.statuses = {},
         r.m = 4 => /\ r.i \notin {8, 9}
                    /\ fts5 /\ r.i > 6 => FtsTable \in has
                    /\ fts5 /\ r.i = 10 => IndexedOnce(data, 1),
         r.m = 6 => r.i # 8
  PROVE  DiagnosisPlace(r, has, data) /\ DiagnosisWork(r, has, data)
<1>1. DiagnosisWork(r, has, data)
  BY DEF DiagnosisWork
<1>2. /\ r.i \in {10, 11} => r.i \in {10, 11, 12}
      /\ r.i = 12 => r.i \in {10, 11, 12}
  OBVIOUS
<1>3. DiagnosisPlace(r, has, data)
  BY <1>2, Zenon DEF DiagnosisPlace
<1> QED
  BY <1>1, <1>3

LEMMA RestsPlace ==
  ASSUME NEW r, NEW has, NEW data, Rests(r)
  PROVE  DiagnosisPlace(r, has, data) /\ DiagnosisWork(r, has, data)
<1>1. LastOf(1) \in Nat /\ LastOf(1) > 2
  BY Diagnosis1Ops
<1>2. CASE Runs(r)
  <2>1. r.i = 1 /\ ~r.open
    BY <1>2 DEF Rests
  <2>2. /\ r.i # LastOf(1) /\ ~(r.i > LastOf(1)) /\ r.i # 8
        /\ r.i \notin {10, 11, 12} /\ r.i \notin {8, 9} /\ ~(r.i > 6) /\ r.i # 10
    BY <1>1, <2>1
  <2> QED
    BY <2>1, <2>2, PlaceShut
<1>3. CASE ~Runs(r)
  BY <1>3 DEF Rests, DiagnosisPlace, DiagnosisWork
<1> QED
  BY <1>2, <1>3

LEMMA DiagnosisQuiet ==
  ASSUME ServiceInv, DiagnosisInv, svc = "diagnosis", NEW p \in Procs, Quiet(p)
  PROVE  DiagnosisInv'
<1>1. /\ OthersStay(p) /\ Rests(proc'[p])
      /\ db'.data = db.data /\ db'.ver = db.ver /\ fts5' = fts5
      /\ db'.has = db.has \/ db'.has = db.has \cup {Ledger[svc]}
  BY DEF Quiet
<1>2. FtsTable # Ledger[svc]
  BY DEF FtsTable, Ledger, Services, TheTable, Fts
<1>3. /\ db.has \subseteq db'.has
      /\ FtsTable \in db'.has => FtsTable \in db.has
  BY <1>1, <1>2
<1>4. Stays
  BY <1>1, <1>3 DEF Stays
<1>5. DiagnosisRows'
  BY <1>1, <1>3 DEF DiagnosisInv, DiagnosisRows, StatusesStand, IsCurrent, IndexedOnce
<1>6. DiagnosisPlace(proc'[p], db'.has, db'.data) /\ DiagnosisWork(proc'[p], db'.has, db'.data)
  BY <1>1, RestsPlace
<1> QED
  BY <1>1, <1>3, <1>4, <1>5, <1>6, DiagnosisKept


\* A statement that changes nothing but where the process is.
LEMMA DiagnosisMoves ==
  ASSUME ServiceInv, DiagnosisInv, NEW p \in Procs, OthersStay(p), db' = db, fts5' = fts5,
         DiagnosisPlace(proc'[p], db.has, db.data), DiagnosisWork(proc'[p], db.has, db.data)
  PROVE  DiagnosisInv'
<1>1. Stays
  BY DEF Stays
<1>2. DiagnosisRows'
  BY DEF DiagnosisInv, DiagnosisRows, StatusesStand, IsCurrent, IndexedOnce
<1> QED
  BY <1>1, <1>2, DiagnosisKept

LEMMA WorkStays ==
  ASSUME NEW r, NEW s, NEW has, NEW data, DiagnosisWork(r, has, data), r.m \in {3, 5},
         s.m = r.m, s.open => r.open /\ s.work = r.work
  PROVE  DiagnosisWork(s, has, data)
<1>1. r.m # 1 /\ r.m # 2 /\ r.m # 4 /\ r.m # 6
  OBVIOUS
<1> QED
  BY <1>1 DEF DiagnosisWork

\* After a plain statement that changed nothing.
LEMMA PlainMoves ==
  ASSUME ServiceInv, DiagnosisInv, NEW p \in Procs, OthersStay(p), db' = db, fts5' = fts5,
         Runs(proc[p]), Plain(proc[p].m, proc[p].i),
         proc'[p].m = proc[p].m, proc'[p].i = proc[p].i + 1, proc'[p].open = proc[p].open,
         proc'[p].work = proc[p].work
  PROVE  DiagnosisInv'
<1>1. DiagnosisPlace(proc[p], db.has, db.data) /\ DiagnosisWork(proc[p], db.has, db.data)
  BY DEF DiagnosisInv
<1>2. proc[p].m \in {1, 2, 4} => ~proc[p].open
  BY <1>1, PlainOpen
<1>3. DiagnosisPlace(proc'[p], db.has, db.data)
  BY <1>2, PlainPlace
<1>4. proc[p].m \in {1, 2, 3, 4, 5}
  BY DEF Plain
<1>5. DiagnosisWork(proc'[p], db.has, db.data)
  <2>1. CASE proc[p].m \in {3, 5}
    BY <1>1, <2>1, WorkStays
  <2>2. CASE proc[p].m \in {1, 2, 4}
    BY <1>2, <2>2 DEF DiagnosisWork
  <2> QED
    BY <1>4, <2>1, <2>2
<1> QED
  BY <1>3, <1>5, DiagnosisMoves

LEMMA DiagnosisLook ==
  ASSUME ServiceInv, DiagnosisInv, svc = "diagnosis", NEW p \in Procs, Look(p)
  PROVE  DiagnosisInv'
<1> DEFINE r == proc[p]
<1>1. /\ Proceeds(p, r.i + 1, Of(At(p).table, View(p).has), r.open, r.work)
      /\ UNCHANGED <<db, svc, fts5, unqueued, oddly>>
  BY LookIs
<1>2. InScript(p) /\ At(p).op = "read"
  BY DEF Look
<1>3. DiagnosisStatement(r.m, r.i, At(p)) /\ Runs(r)
  BY <1>2, DiagnosisAt DEF InScript, Runs
<1>4. /\ proc'[p].m = r.m /\ proc'[p].i = r.i + 1 /\ OthersStay(p)
      /\ proc'[p].open = r.open /\ proc'[p].work = r.work
      /\ proc'[p].seen = Of(At(p).table, View(p).has)
  BY <1>1 DEF Proceeds
<1>5. CASE Plain(r.m, r.i)
  BY <1>1, <1>3, <1>4, <1>5, PlainMoves
<1>6. CASE r.m = 2 /\ r.i = 7 /\ At(p).table = "device_status"
  <2>1. DiagnosisPlace(r, db.has, db.data)
    BY DEF DiagnosisInv
  <2>2. ~r.open /\ View(p).has = db.has
    <3>1. r.i \notin {10, 11}
      BY <1>6
    <3>2. ~r.open
      BY <1>3, <1>6, <2>1, <3>1, Zenon DEF DiagnosisPlace
    <3> QED
      BY <1>2, <3>2, InScriptIs
  <2>3. OldTable \notin proc'[p].seen => db.data.statuses = {}
    <3>1. OldTable[1] = "device_status"
      BY DEF OldTable, TheTable
    <3>2. OldTable \notin proc'[p].seen => OldTable \notin db.has
      BY <1>4, <1>6, <2>2, <3>1 DEF Of
    <3> QED
      BY <3>2 DEF DiagnosisInv, DiagnosisRows
  <2>4. DiagnosisPlace(proc'[p], db.has, db.data) /\ DiagnosisWork(proc'[p], db.has, db.data)
    BY <1>4, <1>6, <2>2, <2>3, PlaceShut
  <2> QED
    BY <1>1, <1>4, <2>4, DiagnosisMoves
<1> QED
  BY <1>2, <1>3, <1>5, <1>6, DiagnosisOps


LEMMA DiagnosisPass ==
  ASSUME ServiceInv, DiagnosisInv, svc = "diagnosis", NEW p \in Procs, Pass(p)
  PROVE  DiagnosisInv'
<1> DEFINE r == proc[p]
           s == At(p)
           end == Len(Script(r.m)) + 1
           on == IF s.op = "fts5" THEN fts5 ELSE Parts(s.table, s.names) \cap r.seen # {}
<1>1. UNCHANGED <<db, svc, fts5, unqueued, oddly>>
  BY PassIs
<1>2. InScript(p)
  BY DEF Pass
<1>3. DiagnosisStatement(r.m, r.i, s) /\ Runs(r)
  BY <1>2, DiagnosisAt DEF InScript, Runs
<1>4. DiagnosisPlace(r, db.has, db.data) /\ DiagnosisRows
  BY DEF DiagnosisInv
<1>5. CASE IsIdle(s, View(p).has, r.seen) /\ Proceeds(p, r.i + 1, r.seen, r.open, r.work)
  <2>1. /\ proc'[p].m = r.m /\ proc'[p].i = r.i + 1 /\ OthersStay(p)
        /\ proc'[p].open = r.open /\ proc'[p].work = r.work /\ proc'[p].seen = r.seen
    BY <1>5 DEF Proceeds
  <2>2. s.op \in {"create", "part", "column", "drop"}
    BY <1>5 DEF IsIdle
  <2>3. CASE Plain(r.m, r.i)
    BY <1>1, <1>3, <2>1, <2>3, PlainMoves
  <2>4. CASE r.m = 4 /\ r.i = 6 /\ s.op = "create" /\ s.table = Fts
    <3>1. ~r.open /\ View(p).has = db.has
      <4>1. r.i \notin {8, 9}
        BY <2>4
      <4>2. ~r.open
        BY <1>3, <1>4, <2>4, <4>1, Zenon DEF DiagnosisPlace
      <4> QED
        BY <1>2, <4>2, InScriptIs
    <3>2. FtsTable \in db.has
      BY <1>5, <2>4, <3>1 DEF IsIdle, FtsTable
    <3>3. DiagnosisPlace(proc'[p], db.has, db.data) /\ DiagnosisWork(proc'[p], db.has, db.data)
      BY <2>1, <2>4, <3>1, <3>2, PlaceShut
    <3> QED
      BY <1>1, <2>1, <3>3, DiagnosisMoves
  <2>5. CASE r.m = 6 /\ r.i \in 1..6
    <3>1. ~r.open
      <4>1. r.i # 8
        BY <2>5
      <4> QED
        BY <1>3, <1>4, <2>5, <4>1, Zenon DEF DiagnosisPlace
    <3>2. DiagnosisPlace(proc'[p], db.has, db.data) /\ DiagnosisWork(proc'[p], db.has, db.data)
      BY <2>1, <2>5, <3>1, PlaceShut
    <3> QED
      BY <1>1, <2>1, <3>2, DiagnosisMoves
  <2> QED
    BY <1>3, <2>2, <2>3, <2>4, <2>5, DiagnosisOps
<1>6. CASE /\ s.op \in {"only", "fts5"}
           /\ Proceeds(p, IF on THEN r.i + 1 ELSE end, r.seen, r.open, r.work)
  <2>1. /\ proc'[p].m = r.m /\ proc'[p].i = (IF on THEN r.i + 1 ELSE end) /\ OthersStay(p)
        /\ proc'[p].open = r.open /\ proc'[p].work = r.work /\ proc'[p].seen = r.seen
    <3> HIDE DEF on, end
    <3> QED
      BY <1>6 DEF Proceeds
  <2>2. (r.m = 2 => Len(Script(r.m)) = 11) /\ (r.m = 4 => Len(Script(r.m)) = 9)
    BY DiagnosisScripts, Diagnosis2Is, Diagnosis4Is, Zenon DEF Script
  <2>3. CASE r.m = 2 /\ r.i = 8 /\ s.op = "only" /\ Parts(s.table, s.names) = {OldTable}
    <3>1. ~r.open
      <4>1. r.i \notin {10, 11}
        BY <2>3
      <4> QED
        BY <1>3, <1>4, <2>3, <4>1, Zenon DEF DiagnosisPlace
    <3>2. on <=> OldTable \in r.seen
      BY <2>3
    <3>3. OldTable \notin r.seen => db.data.statuses = {}
      BY <1>3, <1>4, <2>3 DEF DiagnosisPlace
    <3>4. end = 12
      <4> DEFINE len == Len(Script(r.m))
      <4>1. len = 11 /\ end = len + 1
        BY <2>2, <2>3
      <4> HIDE DEF len, end
      <4> QED
        BY <4>1
    <3> HIDE DEF on, end
    <3>5. \/ proc'[p].i = 9
          \/ proc'[p].i = 12 /\ db.data.statuses = {}
      BY <2>1, <2>3, <3>2, <3>3, <3>4
    <3>6. DiagnosisPlace(proc'[p], db.has, db.data) /\ DiagnosisWork(proc'[p], db.has, db.data)
      BY <2>1, <2>3, <3>1, <3>5, PlaceShut
    <3> QED
      BY <1>1, <2>1, <3>6, DiagnosisMoves
  <2>4. CASE r.m = 4 /\ r.i = 5 /\ s.op = "fts5"
    <3>1. ~r.open
      <4>1. r.i \notin {8, 9}
        BY <2>4
      <4> QED
        BY <1>3, <1>4, <2>4, <4>1, Zenon DEF DiagnosisPlace
    <3>2. on <=> fts5
      BY <2>4
    <3>3. end = 10
      <4> DEFINE len == Len(Script(r.m))
      <4>1. len = 9 /\ end = len + 1
        BY <2>2, <2>4
      <4> HIDE DEF len, end
      <4> QED
        BY <4>1
    <3> HIDE DEF on, end
    <3>4. \/ proc'[p].i = 6
          \/ proc'[p].i = 10 /\ ~fts5
      BY <2>1, <2>4, <3>2, <3>3
    <3>5. DiagnosisPlace(proc'[p], db.has, db.data) /\ DiagnosisWork(proc'[p], db.has, db.data)
      BY <2>1, <2>4, <3>1, <3>4, PlaceShut
    <3> QED
      BY <1>1, <2>1, <3>5, DiagnosisMoves
  <2>5. \/ r.m = 2 /\ r.i = 8 /\ s.op = "only" /\ Parts(s.table, s.names) = {OldTable}
        \/ r.m = 4 /\ r.i = 5 /\ s.op = "fts5"
    <3>1. s.op = "only" \/ s.op = "fts5"
      BY <1>6
    <3> HIDE DEF r, s
    <3>2. s.op = "only" => r.m = 2 /\ r.i = 8 /\ Parts(s.table, s.names) = {OldTable}
      BY <1>3, DiagnosisOps
    <3>3. s.op = "fts5" => r.m = 4 /\ r.i = 5
      BY <1>3, DiagnosisOps
    <3> QED
      BY <3>1, <3>2, <3>3, Zenon
  <2> QED
    BY <2>3, <2>4, <2>5, Zenon
<1> QED
  BY <1>5, <1>6, PassIs

LEMMA NameRows ==
  ASSUME NEW s, NEW d, IsData(d), s.op = "name"
  PROVE  /\ DataAfter(s, d).unnamed = {} /\ DataAfter(s, d).statuses = d.statuses
         /\ DataAfter(s, d).current = d.current /\ DataAfter(s, d).fts = d.fts
         /\ DataAfter(s, d).open = d.open
  BY DEF DataAfter, IsData

LEMMA NewestRows ==
  ASSUME NEW s, NEW d, IsData(d), s.op = "newest"
  PROVE  /\ DataAfter(s, d).unnamed = d.unnamed /\ DataAfter(s, d).statuses = d.statuses
         /\ DataAfter(s, d).current =
              Added(d.current, [x \in d.statuses |-> Newest(StatusRows[x])])
         /\ DataAfter(s, d).fts = d.fts /\ DataAfter(s, d).open = d.open
  BY DEF DataAfter, IsData

LEMMA UnindexRows ==
  ASSUME NEW s, NEW d, IsData(d), s.op = "unindex"
  PROVE  /\ DataAfter(s, d).unnamed = d.unnamed /\ DataAfter(s, d).statuses = d.statuses
         /\ DataAfter(s, d).current = d.current
         /\ DataAfter(s, d).fts = [x \in DOMAIN d.fts |-> 0]
         /\ DataAfter(s, d).open = d.open
  BY DEF DataAfter, IsData

LEMMA IndexRows ==
  ASSUME NEW s, NEW d, IsData(d), s.op = "index"
  PROVE  /\ DataAfter(s, d).unnamed = d.unnamed /\ DataAfter(s, d).statuses = d.statuses
         /\ DataAfter(s, d).current = d.current
         /\ DataAfter(s, d).fts = [x \in DOMAIN d.fts |-> d.fts[x] + 1]
         /\ DataAfter(s, d).open = d.open
  BY DEF DataAfter, IsData

LEMMA CancelRows ==
  ASSUME NEW s, NEW d, IsData(d), s.op = "cancel"
  PROVE  /\ DataAfter(s, d).unnamed = d.unnamed /\ DataAfter(s, d).statuses = d.statuses
         /\ DataAfter(s, d).current = d.current /\ DataAfter(s, d).fts = d.fts
         /\ DataAfter(s, d).open = d.open \ CaseEntries
  BY DEF DataAfter, IsData

LEMMA PutAsideRows ==
  ASSUME NEW s, NEW d, IsData(d), s.op = "rename", s.table = "device_status"
  PROVE  /\ DataAfter(s, d).unnamed = d.unnamed /\ DataAfter(s, d).statuses = {}
         /\ DataAfter(s, d).current = d.current /\ DataAfter(s, d).fts = d.fts
         /\ DataAfter(s, d).open = d.open
  BY DEF DataAfter, IsData

LEMMA DiagnosisWrite ==
  ASSUME ServiceInv, DiagnosisInv, svc = "diagnosis", NEW p \in Procs, Write(p)
  PROVE  DiagnosisInv'
<1> DEFINE r == proc[p]
           s == At(p)
           w == View(p)
           d == RowsAfter(p)
           opens == s.op # "newest" \/ w.data.statuses # {}
<1>1. /\ InScript(p) /\ IsRows(s) /\ Unlocked(p)
      /\ UNCHANGED <<db, svc, fts5, unqueued, oddly>>
      /\ OthersStay(p)
      /\ proc'[p].m = r.m /\ proc'[p].i = r.i + 1
      /\ ~opens => proc'[p].open = r.open /\ proc'[p].work = r.work
      /\ opens => /\ proc'[p].open
                  /\ proc'[p].work.has = w.has /\ proc'[p].work.data = d
  <2>1. /\ InScript(p) /\ IsRows(s) /\ Unlocked(p)
        /\ UNCHANGED <<db, svc, fts5, unqueued, oddly>>
    BY WriteIs
  <2>2. \/ ~opens /\ Proceeds(p, r.i + 1, r.seen, r.open, r.work)
        \/ opens /\ Proceeds(p, r.i + 1, r.seen, TRUE, [has |-> w.has, data |-> d])
    BY WriteIs
  <2> HIDE DEF opens, d, w, s
  <2>3. CASE ~opens
    BY <2>1, <2>2, <2>3 DEF Proceeds
  <2>4. CASE opens
    BY <2>1, <2>2, <2>4 DEF Proceeds
  <2> QED
    BY <2>3, <2>4
<1>2. DiagnosisStatement(r.m, r.i, s) /\ Runs(r)
  BY <1>1, DiagnosisAt DEF InScript, Runs
<1>3. /\ DiagnosisPlace(r, db.has, db.data) /\ DiagnosisWork(r, db.has, db.data)
      /\ DiagnosisRows
  BY DEF DiagnosisInv
<1>4. /\ IsData(w.data) /\ (r.open => w = r.work)
      /\ (~r.open => w.has = db.has /\ w.data = db.data)
  BY <1>1, InScriptIs DEF IsWork
<1>5. d = DataAfter(s, w.data)
  BY DEF RowsAfter
<1>6. \/ r.m = 1 /\ r.i = LastOf(1) - 1 /\ s.op = "name"
      \/ r.m = 2 /\ r.i = 9 /\ s.op = "newest"
      \/ r.m = 4 /\ r.i = 7 /\ s.op = "unindex"
      \/ r.m = 4 /\ r.i = 8 /\ s.op = "index"
      \/ r.m = 5 /\ Plain(r.m, r.i) /\ s.op = "govern"
      \/ r.m = 6 /\ r.i = 7 /\ s.op = "cancel"
  BY <1>1, <1>2, DiagnosisOps
<1>7. ASSUME DiagnosisPlace(proc'[p], db.has, db.data), DiagnosisWork(proc'[p], db.has, db.data)
      PROVE  DiagnosisInv'
  BY <1>1, <1>7, DiagnosisMoves
<1>8. LastOf(1) \in Nat /\ LastOf(1) > 2
  BY Diagnosis1Ops
<1> HIDE DEF r, s, w, d, opens
<1>9. CASE r.m = 1 /\ r.i = LastOf(1) - 1 /\ s.op = "name"
  <2>1. ~r.open
    <3>1. r.i # LastOf(1)
      BY <1>8, <1>9
    <3> QED
      BY <1>2, <1>3, <1>9, <3>1, Zenon DEF DiagnosisPlace
  <2>2. opens
    BY <1>9 DEF opens
  <2>3. /\ d.unnamed = {} /\ d.statuses = w.data.statuses /\ d.current = w.data.current
        /\ d.fts = w.data.fts /\ d.open = w.data.open
    BY <1>4, <1>5, <1>9, NameRows
  <2>4. DiagnosisPlace(proc'[p], db.has, db.data)
    <3>1. /\ proc'[p].m = 1 /\ proc'[p].m # 2 /\ proc'[p].m # 4 /\ proc'[p].m # 6
          /\ proc'[p].i = LastOf(1) /\ ~(proc'[p].i > LastOf(1)) /\ proc'[p].open
      BY <1>1, <1>8, <1>9, <2>2
    <3> QED
      BY <3>1, Zenon DEF DiagnosisPlace
  <2>5. DiagnosisWork(proc'[p], db.has, db.data)
    BY <1>1, <1>3, <1>4, <1>9, <2>1, <2>2, <2>3 DEF DiagnosisWork, DiagnosisRows
  <2> QED
    BY <1>7, <2>4, <2>5
<1>10. CASE r.m = 2 /\ r.i = 9 /\ s.op = "newest"
  <2>1. ~r.open
    <3>1. r.i \notin {10, 11}
      BY <1>10
    <3> QED
      BY <1>2, <1>3, <1>10, <3>1, Zenon DEF DiagnosisPlace
  <2>2. CASE ~opens
    <3>1. db.data.statuses = {}
      BY <1>4, <1>10, <2>1, <2>2 DEF opens
    <3>2. DiagnosisPlace(proc'[p], db.has, db.data) /\ DiagnosisWork(proc'[p], db.has, db.data)
      BY <1>1, <1>10, <2>1, <2>2, <3>1, PlaceShut
    <3> QED
      BY <1>7, <3>2
  <2>3. CASE opens
    <3>1. /\ d.unnamed = w.data.unnamed /\ d.statuses = w.data.statuses
          /\ d.current = Added(w.data.current, [x \in w.data.statuses |-> Newest(StatusRows[x])])
          /\ d.fts = w.data.fts /\ d.open = w.data.open
      BY <1>4, <1>5, <1>10, NewestRows
    <3>2. w.data.statuses # {}
      BY <1>10, <2>3 DEF opens
    <3>3. d.open # {} => IsCurrent(d)
      <4>1. SUFFICES ASSUME d.open # {} PROVE IsCurrent(d)
        OBVIOUS
      <4>2. w.data.statuses = Devices /\ DOMAIN w.data.current = {}
        BY <1>3, <1>4, <2>1, <3>1, <3>2, <4>1 DEF DiagnosisRows, StatusesStand
      <4>3. d.current = [x \in Devices |-> Newest(StatusRows[x])]
        BY <3>1, <4>2 DEF Added
      <4> QED
        BY <4>3 DEF IsCurrent
    <3>4. DiagnosisPlace(proc'[p], db.has, db.data)
      <4>1. /\ proc'[p].m = 2 /\ proc'[p].m # 1 /\ proc'[p].m # 4 /\ proc'[p].m # 6
            /\ proc'[p].i = 10 /\ proc'[p].i \in {10, 11} /\ proc'[p].i # 8 /\ proc'[p].i # 12
            /\ proc'[p].open
        BY <1>1, <1>10, <2>3
      <4> QED
        BY <4>1, Zenon DEF DiagnosisPlace
    <3>5. DiagnosisWork(proc'[p], db.has, db.data)
      BY <1>1, <1>3, <1>4, <1>10, <2>1, <2>3, <3>1, <3>3 DEF DiagnosisWork, DiagnosisRows
    <3> QED
      BY <1>7, <3>4, <3>5
  <2> QED
    BY <2>2, <2>3
<1>11. CASE r.m = 4 /\ r.i = 7 /\ s.op = "unindex"
  <2>1. ~r.open
    <3>1. r.i \notin {8, 9}
      BY <1>11
    <3> QED
      BY <1>2, <1>3, <1>11, <3>1, Zenon DEF DiagnosisPlace
  <2>2. opens
    BY <1>11 DEF opens
  <2>3. /\ d.unnamed = w.data.unnamed /\ d.statuses = w.data.statuses
        /\ d.current = w.data.current /\ d.fts = [x \in DOMAIN w.data.fts |-> 0]
        /\ d.open = w.data.open
    BY <1>4, <1>5, <1>11, UnindexRows
  <2>4. IndexedOnce(d, 0)
    BY <2>3 DEF IndexedOnce
  <2>5. DiagnosisPlace(proc'[p], db.has, db.data)
    <3>1. /\ proc'[p].m = 4 /\ proc'[p].m # 1 /\ proc'[p].m # 2 /\ proc'[p].m # 6
          /\ proc'[p].i \in {8, 9} /\ proc'[p].i # 10 /\ proc'[p].open
      BY <1>1, <1>11, <2>2
    <3>2. fts5 => FtsTable \in db.has
      BY <1>2, <1>3, <1>11 DEF DiagnosisPlace
    <3> QED
      BY <3>1, <3>2, Zenon DEF DiagnosisPlace
  <2>6. DiagnosisWork(proc'[p], db.has, db.data)
    BY <1>1, <1>3, <1>4, <1>11, <2>1, <2>2, <2>3, <2>4 DEF DiagnosisWork, DiagnosisRows
  <2> QED
    BY <1>7, <2>5, <2>6
<1>12. CASE r.m = 4 /\ r.i = 8 /\ s.op = "index"
  <2>1. r.open
    <3>1. r.i \in {8, 9}
      BY <1>12
    <3> QED
      BY <1>2, <1>3, <1>12, <3>1, Zenon DEF DiagnosisPlace
  <2>2. opens
    BY <1>12 DEF opens
  <2>3. /\ d.unnamed = w.data.unnamed /\ d.statuses = w.data.statuses
        /\ d.current = w.data.current /\ d.fts = [x \in DOMAIN w.data.fts |-> w.data.fts[x] + 1]
        /\ d.open = w.data.open
    BY <1>4, <1>5, <1>12, IndexRows
  <2>4. IndexedOnce(w.data, 0)
    BY <1>3, <1>4, <1>12, <2>1 DEF DiagnosisWork
  <2>5. IndexedOnce(d, 1)
    BY <2>3, <2>4 DEF IndexedOnce
  <2>6. DiagnosisPlace(proc'[p], db.has, db.data)
    <3>1. /\ proc'[p].m = 4 /\ proc'[p].m # 1 /\ proc'[p].m # 2 /\ proc'[p].m # 6
          /\ proc'[p].i \in {8, 9} /\ proc'[p].i # 10 /\ proc'[p].open
      BY <1>1, <1>12, <2>2
    <3>2. fts5 => FtsTable \in db.has
      BY <1>2, <1>3, <1>12 DEF DiagnosisPlace
    <3> QED
      BY <3>1, <3>2, Zenon DEF DiagnosisPlace
  <2>7. DiagnosisWork(proc'[p], db.has, db.data)
    BY <1>1, <1>3, <1>4, <1>12, <2>1, <2>2, <2>3, <2>5 DEF DiagnosisWork
  <2> QED
    BY <1>7, <2>6, <2>7
<1>13. CASE r.m = 5 /\ Plain(r.m, r.i) /\ s.op = "govern"
  <2>1. opens
    BY <1>13 DEF opens
  <2>2. d = w.data
    BY <1>4, <1>5, <1>13, DataAfterIs
  <2>3. DiagnosisPlace(proc'[p], db.has, db.data)
    <3>1. proc'[p].m \notin {1, 2, 4, 6}
      BY <1>1, <1>13
    <3> QED
      BY <3>1 DEF DiagnosisPlace
  <2>4. DiagnosisWork(proc'[p], db.has, db.data)
    <3>1. CASE r.open
      BY <1>1, <1>3, <1>4, <1>13, <2>1, <2>2, <3>1 DEF DiagnosisWork
    <3>2. CASE ~r.open
      BY <1>1, <1>3, <1>4, <1>13, <2>1, <2>2, <3>2 DEF DiagnosisWork, DiagnosisRows
    <3> QED
      BY <3>1, <3>2
  <2> QED
    BY <1>7, <2>3, <2>4
<1>14. CASE r.m = 6 /\ r.i = 7 /\ s.op = "cancel"
  <2>1. ~r.open
    <3>1. r.i # 8
      BY <1>14
    <3> QED
      BY <1>2, <1>3, <1>14, <3>1, Zenon DEF DiagnosisPlace
  <2>2. opens
    BY <1>14 DEF opens
  <2>3. /\ d.unnamed = w.data.unnamed /\ d.statuses = w.data.statuses
        /\ d.current = w.data.current /\ d.fts = w.data.fts
        /\ d.open = w.data.open \ CaseEntries
    BY <1>4, <1>5, <1>14, CancelRows
  <2>4. DiagnosisPlace(proc'[p], db.has, db.data)
    <3>1. /\ proc'[p].m = 6 /\ proc'[p].m # 1 /\ proc'[p].m # 2 /\ proc'[p].m # 4
          /\ proc'[p].i = 8 /\ proc'[p].open
      BY <1>1, <1>14, <2>2
    <3> QED
      BY <3>1, Zenon DEF DiagnosisPlace
  <2>5. DiagnosisWork(proc'[p], db.has, db.data)
    BY <1>1, <1>3, <1>4, <1>14, <2>1, <2>2, <2>3 DEF DiagnosisWork, DiagnosisRows
  <2> QED
    BY <1>7, <2>4, <2>5
<1> QED
  BY <1>6, <1>9, <1>10, <1>11, <1>12, <1>13, <1>14


\* The tables that a statement of the last script, or the put-aside table of the
\* second, takes away.
LEMMA DropsOthers ==
  ASSUME NEW s, NEW has, NEW x, s.op = "drop", s.names = {x},
         s.table \in {"fault_case", "fault_case_feedback"}
  PROVE  /\ OldTable \in has => OldTable \in SchemaAfter(s, has)
         /\ FtsTable \in has => FtsTable \in SchemaAfter(s, has)
<1>1. SchemaAfter(s, has) \in {has \ Of(s.table, has), has \ Parts(s.table, s.names)}
  BY DEF SchemaAfter
<1>2. OldTable[1] # s.table /\ FtsTable[1] # s.table
  BY DEF OldTable, FtsTable, TheTable, Fts
<1>3. \A o \in Of(s.table, has) : o[1] = s.table
  BY DEF Of
<1>4. \A o \in Parts(s.table, s.names) : o[1] = s.table
  BY DEF Parts
<1> QED
  BY <1>1, <1>2, <1>3, <1>4

LEMMA PutsAside ==
  ASSUME NEW s, NEW has, s.op = "rename", s.table = "device_status"
  PROVE  FtsTable \in has => FtsTable \in SchemaAfter(s, has)
<1>1. has \ Of(s.table, has) \subseteq SchemaAfter(s, has)
  BY DEF SchemaAfter
<1>2. FtsTable[1] # s.table
  BY DEF FtsTable, TheTable, Fts
<1>3. FtsTable \notin Of(s.table, has)
  BY <1>2 DEF Of
<1> QED
  BY <1>1, <1>3

LEMMA CreatesFts ==
  ASSUME NEW s, NEW has, s.op = "create", s.table = Fts
  PROVE  FtsTable \in SchemaAfter(s, has)
  BY DEF SchemaAfter, FtsTable

LEMMA DropKeepsRows ==
  ASSUME NEW s, NEW d, IsData(d), s.op = "drop",
         s.table \in {"fault_case", "fault_case_feedback"}
  PROVE  DataAfter(s, d) = d
<1>1. s.table # "device_command"
  OBVIOUS
<1> QED
  BY <1>1 DEF DataAfter, IsData

LEMMA DiagnosisAlter ==
  ASSUME ServiceInv, DiagnosisInv, svc = "diagnosis", NEW p \in Procs, Alter(p)
  PROVE  DiagnosisInv'
<1> DEFINE r == proc[p]
           s == At(p)
           w == View(p)
           has == HasAfter(p)
           d == RowsAfter(p)
<1>1. /\ InScript(p) /\ IsSchema(s) /\ Unlocked(p)
      /\ UNCHANGED <<svc, fts5, unqueued>>
      /\ OthersStay(p)
      /\ proc'[p].m = r.m /\ proc'[p].i = r.i + 1
      /\ r.open => /\ UNCHANGED <<db, oddly>> /\ proc'[p].open
                   /\ proc'[p].work.has = has /\ proc'[p].work.data = d
      /\ ~r.open => /\ db'.has = has /\ db'.data = d /\ db'.ver = db.ver
                    /\ ~proc'[p].open
  <2>1. /\ InScript(p) /\ IsSchema(s) /\ Unlocked(p)
        /\ UNCHANGED <<svc, fts5, unqueued>>
        /\ r.open => /\ Proceeds(p, r.i + 1, r.seen, TRUE, [has |-> has, data |-> d])
                     /\ UNCHANGED <<db, oddly>>
        /\ ~r.open => /\ Proceeds(p, r.i + 1, r.seen, FALSE, r.work)
                      /\ db' = [has |-> has, data |-> d, ver |-> db.ver]
    BY AlterIs
  <2> HIDE DEF has, d
  <2>2. CASE r.open
    BY <2>1, <2>2 DEF Proceeds
  <2>3. CASE ~r.open
    BY <2>1, <2>3 DEF Proceeds
  <2> QED
    BY <2>2, <2>3
<1>2. DiagnosisStatement(r.m, r.i, s) /\ Runs(r)
  BY <1>1, DiagnosisAt DEF InScript, Runs
<1>3. /\ DiagnosisPlace(r, db.has, db.data) /\ DiagnosisWork(r, db.has, db.data)
      /\ DiagnosisRows
  BY DEF DiagnosisInv
<1>4. /\ IsData(w.data) /\ (r.open => w = r.work)
      /\ (~r.open => w.has = db.has /\ w.data = db.data)
  BY <1>1, InScriptIs DEF IsWork
<1>5. has = SchemaAfter(s, w.has) /\ d = DataAfter(s, w.data)
  BY DEF HasAfter, RowsAfter
<1> HIDE DEF r, s, w, has, d
<1>6. \/ Plain(r.m, r.i) /\ IsAddition(s)
      \/ r.m = 4 /\ r.i = 6 /\ s.op = "create" /\ s.table = Fts /\ IsAddition(s)
      \/ /\ r.m = 6 /\ r.i \in 1..6 /\ s.op = "drop" /\ s.table \in {"fault_case", "fault_case_feedback"}
         /\ \E x : s.names = {x}
      \/ r.m = 2 /\ r.i = 10 /\ s.op = "rename" /\ s.table = "device_status"
  <2>1. s.op \in {"create", "part", "column"} \/ s.op = "drop" \/ s.op = "rename"
    BY <1>1 DEF IsSchema
  <2> QED
    BY <1>2, <2>1, DiagnosisOps, Zenon
\* The schema, committed at once.
<1>7. ASSUME ~r.open, db.data.statuses # {} => OldTable \in has,
             FtsTable \in db.has => FtsTable \in has, d = db.data,
             DiagnosisPlace(proc'[p], has, db.data)
      PROVE  DiagnosisInv'
  <2>1. /\ db'.has = has /\ db'.data = db.data /\ db'.ver = db.ver /\ fts5' = fts5
        /\ ~proc'[p].open
    BY <1>1, <1>7
  <2>2. Stays
    BY <1>7, <2>1 DEF Stays
  <2>3. DiagnosisRows'
    BY <1>3, <1>7, <2>1 DEF DiagnosisRows, StatusesStand, IsCurrent, IndexedOnce
  <2>4. DiagnosisWork(proc'[p], db'.has, db'.data)
    BY <2>1 DEF DiagnosisWork
  <2> QED
    BY <1>1, <1>7, <2>1, <2>2, <2>3, <2>4, DiagnosisKept
<1>8. CASE Plain(r.m, r.i) /\ IsAddition(s)
  <2>1. /\ w.has \subseteq has /\ d = w.data
    BY <1>4, <1>5, <1>8, AdditionsAdd
  <2>2. r.m \in {1, 2, 4} => ~r.open
    BY <1>2, <1>3, <1>8, PlainOpen
  <2>3. CASE ~r.open
    <3>1. DiagnosisPlace(proc'[p], has, db.data)
      BY <1>1, <1>8, <2>3, PlainPlace
    <3> QED
      BY <1>3, <1>4, <1>7, <2>1, <2>3, <3>1 DEF DiagnosisRows
  <2>4. CASE r.open
    <3>1. r.m \in {3, 5}
      BY <1>8, <2>2, <2>4 DEF Plain
    <3>2. DiagnosisPlace(proc'[p], db.has, db.data)
      BY <1>1, <1>8, <3>1, PlainPlace
    <3>3. DiagnosisWork(proc'[p], db.has, db.data)
      <4>1. r.m # 1 /\ r.m # 2 /\ r.m # 4 /\ r.m # 6
        BY <3>1
      <4> QED
        BY <1>1, <1>3, <1>4, <2>1, <2>4, <4>1 DEF DiagnosisWork
    <3> QED
      BY <1>1, <2>4, <3>2, <3>3, DiagnosisMoves
  <2> QED
    BY <2>3, <2>4
<1>9. CASE r.m = 4 /\ r.i = 6 /\ s.op = "create" /\ s.table = Fts /\ IsAddition(s)
  <2>1. /\ w.has \subseteq has /\ d = w.data
    BY <1>4, <1>5, <1>9, AdditionsAdd
  <2>2. ~r.open
    <3>1. r.i \notin {8, 9}
      BY <1>9
    <3> QED
      BY <1>2, <1>3, <1>9, <3>1, Zenon DEF DiagnosisPlace
  <2>3. FtsTable \in has
    BY <1>5, <1>9, CreatesFts
  <2>4. DiagnosisPlace(proc'[p], has, db.data)
    BY <1>1, <1>9, <2>2, <2>3, PlaceShut
  <2> QED
    BY <1>3, <1>4, <1>7, <2>1, <2>2, <2>4 DEF DiagnosisRows
<1>10. CASE /\ r.m = 6 /\ r.i \in 1..6 /\ s.op = "drop"
            /\ s.table \in {"fault_case", "fault_case_feedback"} /\ \E x : s.names = {x}
  <2>1. ~r.open
    <3>1. r.i # 8
      BY <1>10
    <3> QED
      BY <1>2, <1>3, <1>10, <3>1, Zenon DEF DiagnosisPlace
  <2>2. /\ OldTable \in w.has => OldTable \in has
        /\ FtsTable \in w.has => FtsTable \in has
    BY <1>5, <1>10, DropsOthers
  <2>3. d = w.data
    BY <1>4, <1>5, <1>10, DropKeepsRows
  <2>4. DiagnosisPlace(proc'[p], has, db.data)
    BY <1>1, <1>10, <2>1, PlaceShut
  <2> QED
    BY <1>3, <1>4, <1>7, <2>1, <2>2, <2>3, <2>4 DEF DiagnosisRows
<1>11. CASE r.m = 2 /\ r.i = 10 /\ s.op = "rename" /\ s.table = "device_status"
  <2>1. FtsTable \in w.has => FtsTable \in has
    BY <1>5, <1>11, PutsAside
  <2>2. /\ d.unnamed = w.data.unnamed /\ d.statuses = {} /\ d.current = w.data.current
        /\ d.fts = w.data.fts /\ d.open = w.data.open
    BY <1>4, <1>5, <1>11, PutAsideRows
  <2>3. CASE ~r.open
    <3>1. db.data.statuses = {}
      <4>1. r.i \in {10, 11}
        BY <1>11
      <4> QED
        BY <1>2, <1>3, <1>11, <2>3, <4>1, Zenon DEF DiagnosisPlace
    <3>2. /\ db'.has = has /\ db'.data = d /\ db'.ver = db.ver /\ fts5' = fts5
          /\ ~proc'[p].open
      BY <1>1, <2>3
    <3>3. Stays
      BY <1>4, <2>1, <2>2, <2>3, <3>2 DEF Stays, IndexedOnce
    <3>4. DiagnosisRows'
      BY <1>3, <1>4, <2>1, <2>2, <2>3, <3>1, <3>2
         DEF DiagnosisRows, StatusesStand, IsCurrent, IndexedOnce
    <3>5. DiagnosisPlace(proc'[p], db'.has, db'.data) /\ DiagnosisWork(proc'[p], db'.has, db'.data)
      BY <1>1, <1>11, <2>2, <3>2, PlaceShut
    <3> QED
      BY <1>1, <3>3, <3>4, <3>5, DiagnosisKept
  <2>4. CASE r.open
    <3>1. DiagnosisPlace(proc'[p], db.has, db.data)
      <4>1. /\ proc'[p].m = 2 /\ proc'[p].m # 1 /\ proc'[p].m # 4 /\ proc'[p].m # 6
            /\ proc'[p].i = 11 /\ proc'[p].i \in {10, 11} /\ proc'[p].i # 8 /\ proc'[p].i # 12
            /\ proc'[p].open
        BY <1>1, <1>11, <2>4
      <4> QED
        BY <4>1, Zenon DEF DiagnosisPlace
    <3>2. DiagnosisWork(proc'[p], db.has, db.data)
      BY <1>1, <1>3, <1>4, <1>11, <2>1, <2>2, <2>4 DEF DiagnosisWork, IsCurrent
    <3> QED
      BY <1>1, <2>4, <3>1, <3>2, DiagnosisMoves
  <2> QED
    BY <2>3, <2>4
<1> QED
  BY <1>6, <1>8, <1>9, <1>10, <1>11


LEMMA DiagnosisCommit ==
  ASSUME ServiceInv, DiagnosisInv, svc = "diagnosis", NEW p \in Procs, CommitRows(p)
  PROVE  DiagnosisInv'
<1> DEFINE r == proc[p]
           s == At(p)
           w == View(p)
           d == w.data
<1>1. /\ InScript(p) /\ s.op = "commit"
      /\ UNCHANGED <<svc, fts5, unqueued>>
      /\ OthersStay(p)
      /\ proc'[p].m = r.m /\ proc'[p].i = r.i + 1 /\ ~proc'[p].open
      /\ db'.has = w.has /\ db'.data = d /\ db'.ver = db.ver
  <2>1. /\ InScript(p) /\ s.op = "commit"
        /\ Proceeds(p, r.i + 1, r.seen, FALSE, <<>>)
        /\ db' = [has |-> w.has, data |-> w.data, ver |-> db.ver]
        /\ UNCHANGED <<svc, fts5, unqueued>>
    BY CommitIs
  <2> HIDE DEF w
  <2>2. db'.has = w.has /\ db'.data = w.data /\ db'.ver = db.ver
    BY <2>1
  <2>3. /\ OthersStay(p)
        /\ proc'[p].m = r.m /\ proc'[p].i = r.i + 1 /\ ~proc'[p].open
    BY <2>1 DEF Proceeds
  <2> QED
    BY <2>1, <2>2, <2>3
<1>2. DiagnosisStatement(r.m, r.i, s) /\ Runs(r)
  BY <1>1, DiagnosisAt DEF InScript, Runs
<1>3. /\ DiagnosisPlace(r, db.has, db.data) /\ DiagnosisWork(r, db.has, db.data)
      /\ DiagnosisRows
  BY DEF DiagnosisInv
<1>4. /\ r.open => w = r.work /\ Unlocked(p)
      /\ ~r.open => w.has = db.has /\ d = db.data
  BY <1>1, InScriptIs
<1>5. LastOf(1) \in Nat /\ LastOf(1) > 2
  BY Diagnosis1Ops
<1> HIDE DEF r, s, w
<1>6. \/ Plain(r.m, r.i)
      \/ r.m = 1 /\ r.i = LastOf(1)
      \/ r.m = 2 /\ r.i = 11
      \/ r.m = 4 /\ r.i = 9
  BY <1>1, <1>2, DiagnosisOps
<1> HIDE DEF d
<1>7. DiagnosisWork(proc'[p], db'.has, db'.data)
  BY <1>1 DEF DiagnosisWork
\* What a transaction leaves, if its rows fit.
<1>8. ASSUME r.open, Stays, DiagnosisPlace(proc'[p], w.has, d),
             d.statuses # {} => OldTable \in w.has,
             StatusesStand(d), d.open = db.data.open
      PROVE  DiagnosisInv'
  <2>1. fts5' = fts5 /\ db'.has = w.has /\ db'.data = d /\ db'.ver = db.ver
    BY <1>1
  <2>2. DiagnosisRows'
    BY <1>3, <1>8, <2>1 DEF DiagnosisRows, Stays, StatusesStand, IsCurrent, IndexedOnce
  <2> QED
    BY <1>1, <1>4, <1>7, <1>8, <2>1, <2>2, DiagnosisKept
<1>9. CASE ~r.open
  <2>1. db'.has = db.has /\ db'.data = db.data /\ db'.ver = db.ver /\ fts5' = fts5
    BY <1>1, <1>4, <1>9
  <2>2. Stays
    BY <2>1 DEF Stays
  <2>3. DiagnosisRows'
    BY <1>3, <2>1 DEF DiagnosisRows, StatusesStand, IsCurrent, IndexedOnce
  <2>4. DiagnosisPlace(proc'[p], db'.has, db'.data)
    <3>1. CASE Plain(r.m, r.i)
      BY <1>1, <3>1, PlainPlace
    <3>2. CASE r.m = 1 /\ r.i = LastOf(1)
      BY <1>2, <1>3, <1>9, <3>2, Zenon DEF DiagnosisPlace
    <3>3. CASE r.m = 2 /\ r.i = 11
      <4>1. db.data.statuses = {}
        <5>1. r.i \in {10, 11}
          BY <3>3
        <5> QED
          BY <1>2, <1>3, <1>9, <3>3, <5>1, Zenon DEF DiagnosisPlace
      <4> QED
        BY <1>1, <2>1, <3>3, <4>1, PlaceShut
    <3>4. CASE r.m = 4 /\ r.i = 9
      <4>1. r.i \in {8, 9}
        BY <3>4
      <4> QED
        BY <1>2, <1>3, <1>9, <3>4, <4>1, Zenon DEF DiagnosisPlace
    <3> QED
      BY <1>6, <3>1, <3>2, <3>3, <3>4
  <2> QED
    BY <1>1, <1>7, <2>1, <2>2, <2>3, <2>4, DiagnosisKept
<1>10. CASE r.open
  <2>1. DiagnosisWork(r, db.has, db.data) /\ w = r.work
    BY <1>3, <1>4, <1>10
  <2>2. /\ FtsTable \in db.has => FtsTable \in w.has
        /\ d.statuses # {} => OldTable \in w.has
        /\ r.m # 1 => d.unnamed = db.data.unnamed
        /\ r.m = 1 => d.unnamed = {}
        /\ r.m # 2 => d.statuses = db.data.statuses /\ d.current = db.data.current
        /\ r.m = 2 => /\ d.open # {} => IsCurrent(d)
                      /\ r.i = 11 => d.statuses = {}
        /\ r.m # 4 => d.fts = db.data.fts
        /\ r.m = 4 => IndexedOnce(d, IF r.i = 8 THEN 0 ELSE 1)
        /\ r.m # 6 => d.open = db.data.open
    BY <1>10, <2>1 DEF DiagnosisWork, d
  <2>3. db'.has = w.has /\ db'.data = d /\ fts5' = fts5
    BY <1>1
  <2>4. StatusesStand(db.data)
    BY <1>3 DEF DiagnosisRows
  <2>5. CASE Plain(r.m, r.i)
    <3>1. r.m \in {3, 5}
      BY <1>2, <1>3, <1>10, <2>5, PlainOpen DEF Plain
    <3>2. DiagnosisPlace(proc'[p], w.has, d)
      BY <1>1, <2>5, PlainPlace
    <3>3. Stays
      BY <2>2, <2>3, <3>1 DEF Stays, IndexedOnce
    <3>4. StatusesStand(d)
      BY <2>2, <2>4, <3>1 DEF StatusesStand, IsCurrent
    <3> QED
      BY <1>8, <1>10, <2>2, <3>1, <3>2, <3>3, <3>4
  <2>6. CASE r.m = 1 /\ r.i = LastOf(1)
    <3>1. DiagnosisPlace(proc'[p], w.has, d)
      <4>1. /\ proc'[p].m = 1 /\ proc'[p].i # LastOf(1)
        BY <1>1, <1>5, <2>6
      <4> QED
        BY <1>1, <2>2, <2>6, <4>1, PlaceShut
    <3>2. Stays
      BY <2>2, <2>3, <2>6 DEF Stays, IndexedOnce
    <3>3. StatusesStand(d)
      BY <2>2, <2>4, <2>6 DEF StatusesStand, IsCurrent
    <3> QED
      BY <1>8, <1>10, <2>2, <2>6, <3>1, <3>2, <3>3
  <2>7. CASE r.m = 2 /\ r.i = 11
    <3>1. DiagnosisPlace(proc'[p], w.has, d)
      BY <1>1, <2>2, <2>7, PlaceShut
    <3>2. Stays
      BY <2>2, <2>3, <2>7 DEF Stays, IndexedOnce
    <3>3. StatusesStand(d)
      BY <2>2, <2>7 DEF StatusesStand
    <3> QED
      BY <1>8, <1>10, <2>2, <2>7, <3>1, <3>2, <3>3
  <2>8. CASE r.m = 4 /\ r.i = 9
    <3>1. IndexedOnce(d, 1)
      BY <2>2, <2>8
    <3>2. fts5 => FtsTable \in w.has
      BY <1>2, <1>3, <2>2, <2>8 DEF DiagnosisPlace
    <3>3. DiagnosisPlace(proc'[p], w.has, d)
      BY <1>1, <2>8, <3>1, <3>2, PlaceShut
    <3>4. Stays
      BY <2>2, <2>3, <2>8, <3>1 DEF Stays
    <3>5. StatusesStand(d)
      BY <2>2, <2>4, <2>8 DEF StatusesStand, IsCurrent
    <3> QED
      BY <1>8, <1>10, <2>2, <2>8, <3>3, <3>4, <3>5
  <2> QED
    BY <1>6, <2>5, <2>6, <2>7, <2>8
<1> QED
  BY <1>9, <1>10


LEMMA DiagnosisRecord ==
  ASSUME ServiceInv, DiagnosisInv, svc = "diagnosis", NEW p \in Procs, Record(p)
  PROVE  DiagnosisInv'
<1> DEFINE r == proc[p]
           w == View(p)
           d == w.data
<1>1. /\ OthersStay(p) /\ Rests(proc'[p]) /\ Runs(r) /\ Unlocked(p) /\ r.m \notin db.ver
      /\ r.i = Len(Script(r.m)) + 1
      /\ UNCHANGED <<svc, fts5, unqueued, oddly>>
      /\ db'.has = w.has /\ db'.data = d /\ db'.ver = db.ver \cup {r.m}
  BY RecordIs
<1>2. /\ DiagnosisPlace(r, db.has, db.data) /\ DiagnosisWork(r, db.has, db.data)
      /\ DiagnosisRows
  BY DEF DiagnosisInv
<1>3. DiagnosisPlace(proc'[p], db'.has, db'.data) /\ DiagnosisWork(proc'[p], db'.has, db'.data)
  BY <1>1, RestsPlace
<1>4. /\ r.open => w = r.work
      /\ ~r.open => w.has = db.has /\ d = db.data
  BY DEF View
<1>5. r.m \in 1..6
  <2>1. ProcFits(r)
    BY DEF ServiceInv
  <2> QED
    BY <1>1, <2>1, ScriptsAre, DiagnosisScripts DEF ProcFits, LastVersion
<1>6. LastOf(1) \in Nat /\ LastOf(1) > 2
  BY Diagnosis1Ops
<1>7. /\ r.m = 1 => r.i = LastOf(1) + 1
      /\ r.m = 2 => r.i = 12
      /\ r.m = 4 => r.i = 10
      /\ r.m = 6 => r.i = 8
  <2> DEFINE len == Len(Script(r.m))
  <2>1. /\ r.i = len + 1 /\ (r.m = 1 => len = LastOf(1)) /\ (r.m = 2 => len = 11)
        /\ (r.m = 4 => len = 9) /\ (r.m = 6 => len = 7)
    BY <1>1, DiagnosisScripts, Diagnosis1Ops, Diagnosis2Is, Diagnosis4Is, Diagnosis6Is, Zenon
       DEF Script
  <2> HIDE DEF len, r
  <2> QED
    BY <2>1
<1> HIDE DEF r, w, d
\* The rows that the last statement of each script leaves.
<1>8. ASSUME FtsTable \in db.has => FtsTable \in w.has,
             d.statuses # {} => OldTable \in w.has,
             d.unnamed = db.data.unnamed, d.statuses = db.data.statuses,
             d.current = db.data.current, d.fts = db.data.fts,
             d.open = db.data.open \/ d.open = db.data.open \ CaseEntries,
             r.m = 1 => d.unnamed = {}, r.m = 2 => d.statuses = {},
             r.m = 4 /\ fts5 => FtsTable \in db.has /\ IndexedOnce(db.data, 1),
             r.m = 6 => d.open = db.data.open \ CaseEntries
      PROVE  DiagnosisInv'
  <2>1. Stays
    BY <1>1, <1>8 DEF Stays, IndexedOnce
  <2>2. StatusesStand(d)
    BY <1>2, <1>8 DEF DiagnosisRows, StatusesStand, IsCurrent
  <2>3. IndexedOnce(db.data, 1) => IndexedOnce(d, 1)
    BY <1>8 DEF IndexedOnce
  <2>4. DiagnosisRows'
    <3>1. db'.has = w.has /\ db'.data = d /\ fts5' = fts5
      BY <1>1
    <3>3. d.statuses # {} => OldTable \in w.has
      BY <1>8
    <3>4. 1 \in db'.ver => d.unnamed = {}
      BY <1>1, <1>2, <1>8 DEF DiagnosisRows
    <3>5. 2 \in db'.ver => d.statuses = {}
      BY <1>1, <1>2, <1>8 DEF DiagnosisRows
    <3>6. 4 \in db'.ver /\ fts5 => FtsTable \in w.has /\ IndexedOnce(d, 1)
      BY <1>1, <1>2, <1>8, <2>3 DEF DiagnosisRows
    <3>7. 6 \in db'.ver => d.open \cap CaseEntries = {}
      BY <1>1, <1>2, <1>8 DEF DiagnosisRows
    <3> QED
      BY <2>2, <3>1, <3>3, <3>4, <3>5, <3>6, <3>7
         DEF DiagnosisRows, StatusesStand, IsCurrent, IndexedOnce
  <2> QED
    BY <1>1, <1>3, <2>1, <2>4, DiagnosisKept
<1>9. CASE ~r.open
  <2>1. w.has = db.has /\ d = db.data
    BY <1>4, <1>9
  <2>2. r.m # 6
    BY <1>1, <1>2, <1>7, <1>9, Zenon DEF DiagnosisPlace
  <2>3. r.m = 1 => d.unnamed = {}
    <3>1. r.m = 1 => r.i > LastOf(1)
      BY <1>6, <1>7
    <3> QED
      BY <1>1, <1>2, <2>1, <3>1, Zenon DEF DiagnosisPlace
  <2>4. r.m = 2 => d.statuses = {}
    BY <1>1, <1>2, <1>7, <2>1, Zenon DEF DiagnosisPlace
  <2>5. r.m = 4 /\ fts5 => FtsTable \in db.has /\ IndexedOnce(db.data, 1)
    <3>1. r.m = 4 => r.i > 6
      BY <1>7
    <3> QED
      BY <1>1, <1>2, <1>7, <3>1, Zenon DEF DiagnosisPlace
  <2>6. d.statuses # {} => OldTable \in w.has
    BY <1>2, <2>1 DEF DiagnosisRows
  <2> QED
    BY <1>8, <2>1, <2>2, <2>3, <2>4, <2>5, <2>6
<1>10. CASE r.open
  <2>1. r.m # 1 /\ r.m # 2 /\ r.m # 4
    <3>1. (r.m = 1 => r.i # LastOf(1)) /\ (r.m = 2 => r.i \notin {10, 11})
          /\ (r.m = 4 => r.i \notin {8, 9})
      BY <1>6, <1>7
    <3> QED
      BY <1>1, <1>2, <1>10, <3>1, Zenon DEF DiagnosisPlace
  <2>2. DiagnosisWork(r, db.has, db.data) /\ w = r.work
    BY <1>2, <1>4, <1>10
  <2>3. /\ FtsTable \in db.has => FtsTable \in w.has
        /\ d.statuses # {} => OldTable \in w.has
        /\ d.unnamed = db.data.unnamed
        /\ d.statuses = db.data.statuses /\ d.current = db.data.current
        /\ d.fts = db.data.fts
        /\ r.m # 6 => d.open = db.data.open
        /\ r.m = 6 => d.open = db.data.open \ CaseEntries
    BY <1>10, <2>1, <2>2 DEF DiagnosisWork, d
  <2> QED
    BY <1>8, <2>1, <2>3
<1> QED
  BY <1>9, <1>10

\* The example device and document, in a database that is of the last version.
LEMMA DiagnosisSeed ==
  ASSUME ServiceInv, DiagnosisInv, svc = "diagnosis", NEW p \in Procs, Seed(p)
  PROVE  DiagnosisInv'
<1> DEFINE old == db.data
           current == IF DOMAIN old.current = {} THEN [d \in {SeedDevice} |-> <<0, 0>>]
                      ELSE old.current
           fts == Added(old.fts,
                        [x \in {SeedDocument} |-> IF TheTable(Fts) \in db.has THEN 1 ELSE 0])
<1>1. /\ OthersStay(p) /\ Rests(proc'[p]) /\ Unlocked(p) /\ LastVersion \in db.ver
      /\ UNCHANGED <<svc, fts5, unqueued, oddly>>
  BY SeedIs
<1>2. /\ db'.has = db.has /\ db'.ver = db.ver
      /\ db'.data.statuses = old.statuses /\ db'.data.current = current
      /\ db'.data.unnamed = old.unnamed /\ db'.data.fts = fts /\ db'.data.open = old.open
  <2>1. db' = [has |-> db.has, ver |-> db.ver, data |-> db'.data]
    BY SeedIs
  <2>2. db'.data =
           [commands |-> old.commands, copies |-> old.copies,
            outbox |-> old.outbox, windows |-> old.windows,
            statuses |-> old.statuses, current |-> current,
            unnamed |-> old.unnamed, fts |-> fts, open |-> old.open]
    BY SeedIs, Zenon
  <2> HIDE DEF old, current, fts
  <2> QED
    BY <2>1, <2>2
<1>3. 2 \in db.ver
  <2>1. LastVersion = 6
    BY DiagnosisScripts DEF LastVersion
  <2>2. 1..6 \subseteq db.ver
    BY <1>1, <2>1 DEF ServiceInv, VersionsInv
  <2> QED
    BY <2>2
<1>4. DiagnosisRows
  BY DEF DiagnosisInv
<1>5. old.statuses = {}
  BY <1>3, <1>4 DEF DiagnosisRows
<1>6. FtsTable \in db.has /\ IndexedOnce(old, 1) => IndexedOnce(db'.data, 1)
  <2>1. SUFFICES ASSUME FtsTable \in db.has, IndexedOnce(old, 1) PROVE IndexedOnce(db'.data, 1)
    OBVIOUS
  <2>2. fts = Added(old.fts, [x \in {SeedDocument} |-> 1])
    BY <2>1 DEF FtsTable
  <2> HIDE DEF fts, old
  <2>3. \A x \in DOMAIN fts : fts[x] = 1
    BY <2>1, <2>2 DEF Added, IndexedOnce
  <2> QED
    BY <1>2, <2>3 DEF IndexedOnce
<1>7. StatusesStand(db'.data)
  <2>1. SUFFICES ASSUME old.open # {} PROVE IsCurrent(db'.data)
    BY <1>2, <1>5 DEF StatusesStand
  <2>2. \/ Devices = {} /\ DOMAIN old.current = {}
        \/ IsCurrent(old)
    BY <1>4, <1>5, <2>1 DEF DiagnosisRows, StatusesStand
  <2>3. Devices # {} => current = old.current
    BY <2>2 DEF IsCurrent
  <2> HIDE DEF current, old
  <2> QED
    BY <1>2, <2>2, <2>3 DEF IsCurrent
<1> HIDE DEF fts, current
<1>8. DiagnosisRows'
  BY <1>1, <1>2, <1>4, <1>6, <1>7 DEF DiagnosisRows, StatusesStand, IsCurrent, IndexedOnce
<1>9. Stays
  BY <1>1, <1>2, <1>6 DEF Stays
<1>10. DiagnosisPlace(proc'[p], db'.has, db'.data) /\ DiagnosisWork(proc'[p], db'.has, db'.data)
  BY <1>1, RestsPlace
<1> QED
  BY <1>1, <1>8, <1>9, <1>10, DiagnosisKept

LEMMA DiagnosisInit ==
  ASSUME Init, svc = "diagnosis"
  PROVE  DiagnosisInv
<1>1. /\ \A p \in Procs : proc[p].open = FALSE /\ ~Runs(proc[p])
      /\ db.ver = {}
      /\ \/ db.has = {} /\ db.data = EmptyData
         \/ /\ db.has = Baseline[svc] \/ db.has = Baseline[svc] \ Compat(svc)
            /\ db.data = OldData(svc)
  BY ServiceInit
<1>2. OldTable \in Baseline["diagnosis"]
  <2>1. Baseline["diagnosis"] = UNION {SchemaAfter(s, {}) : s \in ToSet(Diagnosis1)}
    BY DiagnosisScripts DEF Baseline, Services
  <2>2. Create("device_status", {}) \in ToSet(Diagnosis1)
    <3>1. 2 \in DOMAIN Diagnosis1 /\ Diagnosis1[2] = Create("device_status", {})
      BY DEF Diagnosis1
    <3> QED
      BY <3>1 DEF ToSet
  <2>3. OldTable \in SchemaAfter(Create("device_status", {}), {})
    BY DEF SchemaAfter, Create, Statement, OldTable
  <2> QED
    BY <2>1, <2>2, <2>3
<1>3. OldTable \notin Compat("diagnosis")
  <2>1. \A o \in Compat("diagnosis") : o[1] # "device_status"
    BY DEF Compat, Parts
  <2>2. OldTable[1] = "device_status"
    BY DEF OldTable, TheTable
  <2> QED
    BY <2>1, <2>2
<1>4. CASE db.has = {} /\ db.data = EmptyData
  <2>1. DiagnosisRows
    BY <1>1, <1>4, EmptyIs DEF DiagnosisRows, StatusesStand
  <2> QED
    BY <1>1, <2>1 DEF DiagnosisInv, DiagnosisPlace, DiagnosisWork
<1>5. CASE OldTable \in db.has /\ db.data = OldData(svc)
  <2>1. db.data.statuses = Devices /\ DOMAIN db.data.current = {}
    BY <1>5, EmptyIs DEF OldData, IsData
  <2>2. DiagnosisRows
    BY <1>1, <1>5, <2>1 DEF DiagnosisRows, StatusesStand
  <2> QED
    BY <1>1, <2>2 DEF DiagnosisInv, DiagnosisPlace, DiagnosisWork
<1> QED
  BY <1>1, <1>2, <1>3, <1>4, <1>5



-----------------------------------------------------------------------------
(* The whole of it.                                                         *)

LEMMA ServiceSteps ==
  ASSUME ServiceInv, svc \in {"control", "diagnosis"}, [Next]_vars
  PROVE  ServiceInv' /\ svc' = svc
<1>1. CASE UNCHANGED vars
  BY <1>1 DEF vars, ServiceInv, Shapes, IsData, VersionsInv, ProcFits, IsProc, IsWork, Runs,
              OneTransaction, LastVersion, Script, Procs
<1>2. ASSUME NEW p \in Procs, Running(p) \/ Crash(p)
      PROVE  ServiceInv' /\ svc' = svc
  <2>1. CASE \/ Start(p) \/ Initialize(p) \/ Verify(p) \/ Connect(p) \/ Fail(p) \/ Crash(p)
    BY <2>1, QuietSteps DEF Quiet
  <2>2. CASE Look(p)
    BY <2>2, LookIs
  <2>3. CASE Pass(p)
    BY <2>3, PassIs
  <2>4. CASE Alter(p)
    BY <2>4, AlterIs
  <2>5. CASE Write(p)
    BY <2>5, WriteIs
  <2>6. CASE CommitRows(p)
    BY <2>6, CommitIs
  <2>7. CASE Record(p)
    BY <2>7, RecordIs
  <2>8. CASE Seed(p)
    BY <2>8, SeedIs
  <2> QED
    BY <1>2, <2>1, <2>2, <2>3, <2>4, <2>5, <2>6, <2>7, <2>8, NotDeployed DEF Running
<1>3. ASSUME NEW c, Insert(c)
      PROVE  ServiceInv' /\ svc' = svc
  BY <1>3, InsertIs
<1> QED
  BY <1>1, <1>2, <1>3 DEF Next

LEMMA ControlSteps ==
  ASSUME ServiceInv, ControlInv, svc = "control", [Next]_vars
  PROVE  ControlInv'
<1>1. CASE UNCHANGED vars
  BY <1>1 DEF vars, ControlInv, ControlRows, ControlPlace, ControlWork, TriggerInPlace, NoneDue,
              AllQueued, Runs, Procs
<1>2. ASSUME NEW p \in Procs, Running(p) \/ Crash(p)
      PROVE  ControlInv'
  <2>1. CASE \/ Start(p) \/ Initialize(p) \/ Verify(p) \/ Connect(p) \/ Fail(p) \/ Crash(p)
    BY <2>1, QuietSteps, ControlQuiet
  <2>2. CASE Look(p)
    BY <2>2, ControlLook
  <2>3. CASE Pass(p)
    BY <2>3, ControlPass
  <2>4. CASE Alter(p)
    BY <2>4, ControlAlter
  <2>5. CASE Write(p)
    BY <2>5, ControlWrite
  <2>6. CASE CommitRows(p)
    BY <2>6, ControlCommit
  <2>7. CASE Record(p)
    BY <2>7, ControlRecord
  <2>8. CASE Seed(p)
    BY <2>8, ControlSeed
  <2> QED
    BY <1>2, <2>1, <2>2, <2>3, <2>4, <2>5, <2>6, <2>7, <2>8, NotDeployed DEF Running
<1>3. ASSUME NEW c, Insert(c)
      PROVE  ControlInv'
  BY <1>3, ControlInsert
<1> QED
  BY <1>1, <1>2, <1>3 DEF Next

LEMMA DiagnosisSteps ==
  ASSUME ServiceInv, DiagnosisInv, svc = "diagnosis", [Next]_vars
  PROVE  DiagnosisInv'
<1>1. CASE UNCHANGED vars
  BY <1>1 DEF vars, DiagnosisInv, DiagnosisRows, DiagnosisPlace, DiagnosisWork, StatusesStand,
              IsCurrent, IndexedOnce, Runs, Procs, LastOf
<1>2. ASSUME NEW p \in Procs, Running(p) \/ Crash(p)
      PROVE  DiagnosisInv'
  <2>1. CASE \/ Start(p) \/ Initialize(p) \/ Verify(p) \/ Connect(p) \/ Fail(p) \/ Crash(p)
    BY <2>1, QuietSteps, DiagnosisQuiet
  <2>2. CASE Look(p)
    BY <2>2, DiagnosisLook
  <2>3. CASE Pass(p)
    BY <2>3, DiagnosisPass
  <2>4. CASE Alter(p)
    BY <2>4, DiagnosisAlter
  <2>5. CASE Write(p)
    BY <2>5, DiagnosisWrite
  <2>6. CASE CommitRows(p)
    BY <2>6, DiagnosisCommit
  <2>7. CASE Record(p)
    BY <2>7, DiagnosisRecord
  <2>8. CASE Seed(p)
    BY <2>8, DiagnosisSeed
  <2> QED
    BY <1>2, <2>1, <2>2, <2>3, <2>4, <2>5, <2>6, <2>7, <2>8, NotDeployed DEF Running
<1>3. ASSUME NEW c, Insert(c)
      PROVE  FALSE
  BY <1>3 DEF Insert
<1> QED
  BY <1>1, <1>2, <1>3 DEF Next

\* The service that a database belongs to does not change.
LEMMA SameService ==
  ASSUME [Next]_vars
  PROVE  svc' = svc
  BY DEF Next, Running, Start, Initialize, Verify, Deploy, Stamp, Connect, Look, Pass, Alter,
         Write, CommitRows, Fail, Record, Seed, Crash, Insert, NoStep, vars

(* Wherever the processes that upgrade a database of the MCP services are     *)
(* in the scripts, however they were interrupted and whoever runs beside      *)
(* them: a script is only run after its predecessors, one transaction is open *)
(* at a time, and the recorded scripts have left in the database what their   *)
(* rows are to be.                                                            *)
THEOREM SchemaHolds == Spec => []SchemaInv
<1>1. Init => SchemaInv
  <2>1. ASSUME Init PROVE SchemaInv
    BY <2>1, ServiceInit, ControlInit, DiagnosisInit DEF SchemaInv
  <2> QED
    BY <2>1
<1>2. SchemaInv /\ [Next]_vars => SchemaInv'
  <2>1. ASSUME SchemaInv, [Next]_vars PROVE SchemaInv'
    <3>1. svc' = svc
      BY <2>1, SameService
    <3>2. CASE svc = "control"
      <4>1. ServiceInv /\ ControlInv
        BY <2>1, <3>2 DEF SchemaInv
      <4>2. ServiceInv' /\ ControlInv'
        BY <2>1, <3>2, <4>1, ServiceSteps, ControlSteps
      <4> QED
        BY <3>1, <3>2, <4>2 DEF SchemaInv
    <3>3. CASE svc = "diagnosis"
      <4>1. ServiceInv /\ DiagnosisInv
        BY <2>1, <3>3 DEF SchemaInv
      <4>2. ServiceInv' /\ DiagnosisInv'
        BY <2>1, <3>3, <4>1, ServiceSteps, DiagnosisSteps
      <4> QED
        BY <3>1, <3>3, <4>2 DEF SchemaInv
    <3>4. CASE svc \notin {"control", "diagnosis"}
      BY <3>1, <3>4 DEF SchemaInv
    <3> QED
      BY <3>2, <3>3, <3>4
  <2> QED
    BY <2>1
<1> QED
  BY <1>1, <1>2, PTL DEF Spec

(* No script of the control service loses a command, and from the version     *)
(* with the outbox on every command has an entry there, of which those from   *)
(* before are never due to be sent (0004_remove_case_columns.py and           *)
(* 0005_delivery_and_verification.py).                                        *)
THEOREM CommandsStay == Spec => []CommandsKept
<1>1. SchemaInv => CommandsKept
  BY DEF SchemaInv, ControlInv, ControlRows, AllQueued, NoneDue, CommandsKept
<1> QED
  BY <1>1, SchemaHolds, PTL

(* The rows that the scripts of the diagnosis service move are what they      *)
(* should be once the version is recorded: the newest status of each device,  *)
(* one index entry per document, no open entry for a fault case.              *)
THEOREM DiagnosisRowsStay == Spec => []DiagnosisRowsKept
<1>1. SchemaInv => DiagnosisRowsKept
  BY DEF SchemaInv, DiagnosisInv, DiagnosisRows, StatusesStand, IsCurrent, IndexedOnce,
         DiagnosisRowsKept
<1> QED
  BY <1>1, SchemaHolds, PTL

=============================================================================
