---------------------------- MODULE SchemaScripts ----------------------------
(***************************************************************************)
(* The migration scripts of the three SQLite databases, as data: the       *)
(* scripts of the control and of the diagnosis service                     *)
(* (mcp-services/*/migrations) and the Alembic revisions of the backend    *)
(* (backend/migrations/versions).  A script is a sequence of statements;   *)
(* SchemaMigrations says how a statement is executed.                      *)
(*                                                                         *)
(* An object of a schema is a pair <<table, part>>: the part is "" for the *)
(* table itself and the name of a column, an index or a trigger otherwise. *)
(* The columns that every version of a table has are not told apart.       *)
(***************************************************************************)
EXTENDS Naturals, Sequences, SequencesExt

TheTable(t) == <<t, "">>
Parts(t, names) == {<<t, x>> : x \in names}

(***************************************************************************)
(* The statements.  A strict statement fails when its object is already    *)
(* there (or, for a drop, is not); the others say IF [NOT] EXISTS.         *)
(***************************************************************************)
Statement(op, t, names, strict) ==
    [op |-> op, table |-> t, names |-> names, strict |-> strict]

Create(t, columns)    == Statement("create", t, columns, FALSE)
CreateNew(t, columns) == Statement("create", t, columns, TRUE)
Adds(t, name)         == Statement("part", t, {name}, FALSE)   \* CREATE INDEX or TRIGGER
AddsNew(t, name)      == Statement("part", t, {name}, TRUE)
\* ALTER TABLE ADD COLUMN, of a column that was not seen, or without looking
ColumnUnseen(t, name) == Statement("column", t, {name}, FALSE)
ColumnNew(t, name)    == Statement("column", t, {name}, TRUE)
DropIfExists(t, name) == Statement("drop", t, {name}, FALSE)
DropStrict(t, name)   == Statement("drop", t, {name}, TRUE)
Rename(t, to)         == Statement("rename", t, {to}, TRUE)
\* PRAGMA table_info
Read(t)               == Statement("read", t, {}, FALSE)
\* go on only if one of the names was seen; otherwise the script is over
OnlyIfSeen(t, names)  == Statement("only", t, names, FALSE)
OnlyWithFts5          == Statement("fts5", "", {}, FALSE)
\* INSERT, UPDATE or DELETE of the rows of a table: opens a transaction
Rows(what, t)         == Statement(what, t, {}, TRUE)
Commit                == Statement("commit", "", {}, FALSE)

\* A statement for each name.
EachAdds(t, names)      == [i \in DOMAIN names |-> Adds(t, names[i])]
EachAddsNew(t, names)   == [i \in DOMAIN names |-> AddsNew(t, names[i])]
ColumnsUnseen(t, names) == [i \in DOMAIN names |-> ColumnUnseen(t, names[i])]
ColumnsNew(t, names)    == [i \in DOMAIN names |-> ColumnNew(t, names[i])]
TableWith(t, indexes) == <<CreateNew(t, {})>> \o EachAddsNew(t, indexes)

-----------------------------------------------------------------------------
(***************************************************************************)
(* The control service.                                                    *)
(***************************************************************************)
CaseColumns == {"case_id", "case_status", "case_attempts", "case_error"}
CommandCompat ==
    <<"diagnosis_id", "case_status", "case_id", "case_attempts", "case_error">>

Control1 ==
    <<Create("device_command", CaseColumns \cup {"diagnosis_id"}),
      Adds("device_command", "idx_command_device"),
      Create("remediation_proposal", {"diagnosis_id"}),
      Adds("remediation_proposal", "idx_proposal_status"),
      Read("device_command")>>
    \o ColumnsUnseen("device_command", CommandCompat)
    \o <<Read("remediation_proposal"),
         ColumnUnseen("remediation_proposal", "diagnosis_id"), Commit>>

CommandTriggers  == <<"trg_device_command_require_diagnosis_insert",
                      "trg_device_command_require_diagnosis_update">>
ProposalTriggers == <<"trg_remediation_proposal_require_diagnosis_insert",
                      "trg_remediation_proposal_require_diagnosis_update">>

Control2 ==
    <<Adds("device_command", "idx_command_diagnosis"),
      Adds("remediation_proposal", "idx_proposal_diagnosis")>>
    \o EachAdds("device_command", CommandTriggers)
    \o EachAdds("remediation_proposal", ProposalTriggers)
    \o <<Commit>>

Control3 == <<Create("action_correlation", {}), Commit>>

Control4_copyCommitted ==
    <<Read("device_command"), OnlyIfSeen("device_command", CaseColumns),
      CreateNew("device_command_new", {}),
      Rows("copy", "device_command_new"), Commit,
      DropStrict("device_command", ""),
      Rename("device_command_new", "device_command"),
      Adds("device_command", "idx_command_device"),
      Adds("device_command", "idx_command_diagnosis"),
      AddsNew("device_command", CommandTriggers[1]),
      AddsNew("device_command", CommandTriggers[2]),
      Commit>>

(* The rebuild of device_command without its case columns.  The new table  *)
(* is made by executescript, which commits it at once; the copy opens the  *)
(* transaction that everything after it joins.  The two row counts are     *)
(* read under its write lock, so that they agree.                          *)
Control4 ==
    <<Read("device_command"), OnlyIfSeen("device_command", CaseColumns),
      CreateNew("device_command_new", {}),
      Rows("copy", "device_command_new"),
      DropStrict("device_command", ""),
      Rename("device_command_new", "device_command"),
      Adds("device_command", "idx_command_device"),
      Adds("device_command", "idx_command_diagnosis"),
      AddsNew("device_command", CommandTriggers[1]),
      AddsNew("device_command", CommandTriggers[2]),
      Commit>>

Enqueue == "enqueue_device_command"

(* No commit of its own: everything after the first row is committed with  *)
(* the version.                                                            *)
Control5 ==
    <<Create("command_outbox", {}),
      Rows("settle", "command_outbox"),
      Adds("device_command", Enqueue),
      Create("command_verification", {}),
      Rows("windows", "command_verification"),
      Adds("command_outbox", "idx_outbox_pending"),
      Adds("command_verification", "idx_verification_device")>>

Control == <<Control1, Control2, Control3, Control4, Control5>>

-----------------------------------------------------------------------------
(***************************************************************************)
(* The diagnosis service.                                                  *)
(***************************************************************************)
RecordCompat == <<"retrieval_latency_ms", "llm_latency_ms", "input_tokens",
                  "output_tokens", "error", "result_json">>

Diagnosis1 ==
    <<Create("device", {}),
      Create("device_status", {}), Adds("device_status", "ix_device_status_latest"),
      Create("device_log", {}), Adds("device_log", "ix_device_log_latest"),
      Create("knowledge_document", {"document_id", "chunk_index"}),
      Create("fault_case", {}),
      Create("diagnosis_record", ToSet(RecordCompat)),
      Create("external_sync_outbox", {"claimed_at"}),
      Adds("external_sync_outbox", "ix_external_sync_pending"),
      Read("diagnosis_record")>>
    \o ColumnsUnseen("diagnosis_record", RecordCompat)
    \o <<Read("knowledge_document"),
         ColumnUnseen("knowledge_document", "document_id"),
         ColumnUnseen("knowledge_document", "chunk_index"),
         Read("external_sync_outbox"),
         ColumnUnseen("external_sync_outbox", "claimed_at"),
         Rows("name", "knowledge_document"), Commit>>

Diagnosis2_asideFirst ==
    <<Read("device"), ColumnUnseen("device", "updated_at"),
      Read("device_status"), OnlyIfSeen("device_status", {""}),
      Rename("device_status", "device_status_legacy"),
      Create("device_current_state", {}),
      Create("device_telemetry", {}),
      Adds("device_telemetry", "uq_device_telemetry_sample"),
      Adds("device_telemetry", "ix_device_telemetry_device"),
      Rows("newest", "device_current_state"),
      Commit>>

(* The split of device_status: the newest row of every device becomes its  *)
(* current state, and the table is put aside in the same transaction.      *)
Diagnosis2 ==
    <<Read("device"), ColumnUnseen("device", "updated_at"),
      Create("device_current_state", {}),
      Create("device_telemetry", {}),
      Adds("device_telemetry", "uq_device_telemetry_sample"),
      Adds("device_telemetry", "ix_device_telemetry_device"),
      Read("device_status"), OnlyIfSeen("device_status", {""}),
      Rows("newest", "device_current_state"),
      Rename("device_status", "device_status_legacy"),
      Commit>>

Diagnosis3_strict == <<CreateNew("rebuild_job", {}), Commit>>
Diagnosis3 == <<Create("rebuild_job", {}), Commit>>

Fts == "knowledge_chunks_fts"

Diagnosis4_appended ==
    <<Read("knowledge_document"),
      ColumnUnseen("knowledge_document", "heading"),
      ColumnUnseen("knowledge_document", "metadata_json"),
      ColumnUnseen("knowledge_document", "token_count"),
      OnlyWithFts5, Create(Fts, {}),
      Rows("index", Fts), Commit>>

Diagnosis4 ==
    <<Read("knowledge_document"),
      ColumnUnseen("knowledge_document", "heading"),
      ColumnUnseen("knowledge_document", "metadata_json"),
      ColumnUnseen("knowledge_document", "token_count"),
      OnlyWithFts5, Create(Fts, {}),
      Rows("unindex", Fts), Rows("index", Fts), Commit>>

CaseIndexes == <<"ix_fault_case_lifecycle", "ix_fault_case_signature",
                 "ix_fault_case_cluster", "uq_fault_case_source_command">>
CaseGovernance ==
    <<"lifecycle_status", "fault_signature", "cluster_id", "applicability_json",
      "source_diagnosis_id", "source_command_id", "reuse_count", "success_count",
      "failure_count", "reliability_score", "last_used_at", "last_success_at",
      "last_failure_at", "deprecated_reason">>

(* The signatures it computes go with the table in the next script.        *)
Diagnosis5 ==
    <<Read("fault_case")>> \o ColumnsUnseen("fault_case", CaseGovernance)
    \o <<Rows("govern", "fault_case")>>
    \o EachAdds("fault_case", CaseIndexes)
    \o <<Create("fault_case_feedback", {}),
         Adds("fault_case_feedback", "ix_fault_case_feedback_fault"), Commit>>

Diagnosis6 ==
    <<DropIfExists("fault_case_feedback", ""),
      DropIfExists("fault_case", CaseIndexes[1]), DropIfExists("fault_case", CaseIndexes[2]),
      DropIfExists("fault_case", CaseIndexes[3]), DropIfExists("fault_case", CaseIndexes[4]),
      DropIfExists("fault_case", ""),
      Rows("cancel", "external_sync_outbox")>>

Diagnosis == <<Diagnosis1, Diagnosis2, Diagnosis3, Diagnosis4, Diagnosis5, Diagnosis6>>

-----------------------------------------------------------------------------
(***************************************************************************)
(* The backend: every statement of an Alembic revision is strict.          *)
(***************************************************************************)
Accounts ==
    TableWith("audit_logs",
        <<"ix_audit_logs_action", "ix_audit_logs_actor_id",
          "ix_audit_logs_request_id", "ix_audit_logs_resource_id",
          "ix_audit_logs_resource_type">>)
    \o TableWith("mcp_servers", <<"ix_mcp_servers_server_key">>)
    \o TableWith("users", <<"ix_users_username">>)
    \o TableWith("conversations", <<"ix_conversations_user_id">>)
    \o TableWith("mcp_tools", <<"ix_mcp_tools_server_id">>)
    \o TableWith("model_configurations", <<"ix_model_configurations_user_id">>)
Chats ==
    TableWith("sessions", <<"ix_sessions_token_hash", "ix_sessions_user_id">>)
    \o TableWith("messages", <<"ix_messages_conversation_id">>)
    \o TableWith("agent_runs",
        <<"ix_agent_runs_conversation_id", "ix_agent_runs_user_id">>)
    \o TableWith("attachments",
        <<"ix_attachments_message_id", "ix_attachments_user_id">>)
    \o TableWith("run_events", <<"ix_run_events_run_id">>)

RunRecovery ==
    ColumnsNew("agent_runs", <<"queued_at", "started_at", "finished_at",
                               "last_progress_at", "attempt_count", "interruption_reason">>)
    \o <<AddsNew("agent_runs", "ix_agent_runs_status"), Rows("recover", "agent_runs")>>

(* A default that is an expression makes the batch rebuild the table.      *)
ServiceKinds ==
    <<CreateNew("_alembic_tmp_mcp_servers", {"service_kind", "is_default_for_kind"}),
      Rows("rebuild", "_alembic_tmp_mcp_servers"),
      DropStrict("mcp_servers", ""),
      Rename("_alembic_tmp_mcp_servers", "mcp_servers"),
      AddsNew("mcp_servers", "ix_mcp_servers_server_key")>>

Workflows ==
    TableWith("operation_workflows",
        <<"ix_operation_workflows_user_id", "ix_operation_workflows_status",
          "ix_operation_workflows_device_id", "ix_operation_workflows_diagnosis_id",
          "ix_operation_workflows_proposal_id", "ix_operation_workflows_command_id",
          "ix_operation_workflows_case_id">>)
    \o TableWith("operation_workflow_steps",
        <<"ix_operation_workflow_steps_workflow_id">>)
    \o TableWith("operation_workflow_events",
        <<"ix_operation_workflow_events_workflow_id",
          "ix_operation_workflow_events_event_key">>)

Snapshots ==
    TableWith("run_artifacts", <<"ix_run_artifacts_run_id">>)
    \o <<CreateNew("conversation_context_snapshots", {}),
         AddsNew("conversation_context_snapshots", "ix_context_snapshots_conversation_id"),
         AddsNew("conversation_context_snapshots", "ix_context_snapshots_message_id")>>

NoWorkflows ==
    <<DropStrict("operation_workflow_events", ""),
      DropStrict("operation_workflow_steps", ""),
      DropStrict("operation_workflows", "")>>

MemoryTables ==
    TableWith("memories", <<"ix_memories_owner_user_id">>)
    \o <<AddsNew("memories", "ix_memory_owner_kind_status")>>
    \o TableWith("memory_action_links",
        <<"ix_memory_action_links_command_id",
          "ix_memory_action_links_owner_user_id",
          "ix_memory_action_links_proposal_id", "ix_memory_action_links_run_id">>)
    \o TableWith("memory_feedback", <<"ix_memory_feedback_owner_user_id">>)
    \o TableWith("memory_index_state", <<>>)
    \o TableWith("memory_jobs",
        <<"ix_memory_jobs_owner_user_id", "ix_memory_jobs_status">>)
    \o TableWith("memory_legacy_imports", <<"ix_memory_legacy_imports_batch_id">>)
MemorySources ==
    TableWith("memory_sources",
        <<"ix_memory_sources_conversation_id", "ix_memory_sources_diagnosis_id",
          "ix_memory_sources_owner_user_id", "ix_memory_sources_run_id">>)
    \o TableWith("memory_tombstones", <<"ix_memory_tombstones_owner_user_id">>)
    \o TableWith("memory_usage", <<"ix_memory_usage_owner_user_id">>)
    \o TableWith("memory_vector_outbox",
        <<"ix_memory_vector_outbox_memory_id",
          "ix_memory_vector_outbox_owner_user_id">>)
    \o TableWith("working_memories",
        <<"ix_working_memories_conversation_id",
          "ix_working_memories_owner_user_id">>)
    \o TableWith("memory_evidence_links",
        <<"ix_memory_evidence_links_episode_id",
          "ix_memory_evidence_links_memory_id",
          "ix_memory_evidence_links_owner_user_id",
          "ix_memory_evidence_links_source_id">>)
    \o TableWith("memory_revisions", <<"ix_memory_revisions_memory_id">>)

NoImports ==
    <<DropStrict("memory_legacy_imports", "ix_memory_legacy_imports_batch_id"),
      DropStrict("memory_legacy_imports", "")>>
AppliedMemory == <<ColumnNew("memory_action_links", "applied_memory_ids")>>
Connections == <<CreateNew("harness_connections", {})>>

Backend ==
    <<Accounts \o Chats, RunRecovery, ServiceKinds, Workflows, Snapshots, NoWorkflows,
      MemoryTables \o MemorySources, NoImports, AppliedMemory, Connections>>

(* The tables without which an unversioned database is not taken over.     *)
BaselineKeyTables ==
    {"users", "sessions", "conversations", "messages", "agent_runs", "run_events",
     "mcp_servers", "mcp_tools"}

-----------------------------------------------------------------------------
Services == {"control", "diagnosis", "backend"}
Scripts == [control |-> Control, diagnosis |-> Diagnosis, backend |-> Backend]
=============================================================================
