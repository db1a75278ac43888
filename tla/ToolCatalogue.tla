--------------------------- MODULE ToolCatalogue ----------------------------
(***************************************************************************)
(* The catalogue of MCP servers and their tools that an administrator      *)
(* keeps: a server is registered, tested and refreshed, and each tool is   *)
(* given a risk policy.  A tool that is new, gone or changed loses its     *)
(* policy when the catalogue is refreshed; runs and the decisions of an    *)
(* administrator take the tools that have the policy they need.            *)
(*                                                                         *)
(* A refresh asks the server, reads the rows of its tools and writes what  *)
(* it has changed in them: requests that commit in between keep what the   *)
(* refresh did not change (refresh.rows is what it has read).              *)
(***************************************************************************)
EXTENDS Naturals

CONSTANTS
  Servers,     \* rows of mcp_servers
  Tools,       \* names of tools
  Retired,     \* RETIRED_TOOLS
  MaxSchema,   \* bound: versions of the schema of a tool; 0 is no such tool
  NoServer     \* no refresh under way

ASSUME RetiredAreTools == Retired \subseteq Tools
ASSUME NoServerIsNoServer == NoServer \notin Servers
ASSUME SchemasAreNumbered == MaxSchema \in Nat \ {0}

VARIABLES
  server,   \* mcp_servers
  tool,     \* mcp_tools: policy and schema of every tool; schema 0 is no row
  remote,   \* what the servers would answer to list_tools
  refresh,  \* the refresh under way: its server, what it was told and has read
  vetted,   \* history: the schema for which an administrator enabled the tool
  raced,    \* history: tools enabled while a refresh had read them
  quota     \* bound: steps of each kind that are left

catalogue == <<server, tool, remote, refresh, vetted, raced>>

Policies == {"disabled", "read_only", "proposal_only", "approval_required"}
Schemas == 0..MaxSchema
Listing == [Tools -> Schemas]

AbsentServer == [state |-> "absent", enabled |-> FALSE, status |-> "unchecked"]

\* active_server, and what load_agent_mcp_servers and resolve_mcp_server ask.
Active(s) == server[s].state = "active"
Connected(s) == Active(s) /\ server[s].enabled /\ server[s].status = "connected"

Spend(kind) == quota[kind] > 0 /\ quota' = [quota EXCEPT ![kind] = @ - 1]

(***************************************************************************)
(* The servers.                                                            *)
(***************************************************************************)
CreateServer(s) ==
  /\ Spend("admin") /\ server[s].state = "absent"
  /\ server' = [server EXCEPT ![s].state = "active"]
  /\ UNCHANGED <<tool, remote, refresh, vetted, raced>>

UpdateServer(s, enabled) ==
  /\ Spend("switch") /\ Active(s)
  /\ server' = [server EXCEPT ![s].enabled = enabled]
  /\ UNCHANGED <<tool, remote, refresh, vetted, raced>>

\* Another address is another server: its tools are what it says they are.
MoveServer(s, listing) ==
  /\ Spend("admin") /\ Active(s)
  /\ server' = [server EXCEPT ![s].status = "unchecked"]
  /\ remote' = [remote EXCEPT ![s] = listing]
  /\ UNCHANGED <<tool, refresh, vetted, raced>>

DeleteServer(s) ==
  /\ Spend("switch") /\ Active(s)
  /\ server' = [server EXCEPT ![s] = [@ EXCEPT !.state = "deleted", !.enabled = FALSE]]
  /\ tool' = [tool EXCEPT ![s] = [t \in Tools |-> [@[t] EXCEPT !.policy = "disabled"]]]
  /\ UNCHANGED <<remote, refresh, vetted, raced>>

TestServer(s, answers) ==
  /\ Spend("admin") /\ Active(s)
  /\ server' = [server EXCEPT ![s].status = IF answers THEN "connected" ELSE "failed"]
  /\ UNCHANGED <<tool, remote, refresh, vetted, raced>>

RemoteChanges(s, t, schema) ==
  /\ Spend("admin") /\ remote[s][t] # schema
  /\ remote' = [remote EXCEPT ![s][t] = schema]
  /\ UNCHANGED <<server, tool, refresh, vetted, raced>>

(***************************************************************************)
(* The tools.                                                              *)
(***************************************************************************)
\* The refresh has the answer of the server and the rows of its tools.
RefreshRead(s) ==
  /\ Spend("admin") /\ Active(s) /\ refresh.of = NoServer
  /\ refresh' = [of |-> s, told |-> remote[s], rows |-> tool[s]]
  /\ UNCHANGED <<server, tool, remote, vetted, raced>>

RefreshFails(s) ==
  /\ Spend("admin") /\ Active(s)
  /\ server' = [server EXCEPT ![s].status = "failed"]
  /\ UNCHANGED <<tool, remote, refresh, vetted, raced>>

\* Mutant: a tool keeps its policy when its schema changes.
Refreshed_keepsPolicy(t) ==
  LET now == tool[refresh.of][t]
      told == refresh.told[t]
  IN  IF t \in Retired THEN now
      ELSE IF told = 0
      THEN [now EXCEPT !.policy = IF refresh.rows[t].policy = "disabled" THEN @ ELSE "disabled"]
      ELSE [now EXCEPT !.schema = told]

\* A row the refresh changes: the session writes the columns that differ from
\* what it has read, so that a policy it has read as disabled stays as it is.
Refreshed(t) ==
  LET now == tool[refresh.of][t]
      told == refresh.told[t]
      unset == IF refresh.rows[t].policy = "disabled" THEN now.policy ELSE "disabled"
  IN  IF t \in Retired \/ told = refresh.rows[t].schema THEN now
      ELSE IF told = 0 THEN [now EXCEPT !.policy = unset]
      ELSE [policy |-> unset, schema |-> told]

RefreshWrite ==
  /\ refresh.of \in Servers
  /\ tool' = [tool EXCEPT ![refresh.of] = [t \in Tools |-> Refreshed(t)]]
  /\ server' = [server EXCEPT ![refresh.of].status = "connected"]
  /\ refresh' = [refresh EXCEPT !.of = NoServer]
  /\ UNCHANGED <<remote, vetted, raced, quota>>

UpdateTool(s, t, policy) ==
  /\ Spend("admin") /\ Active(s) /\ tool[s][t].schema # 0
  /\ tool' = [tool EXCEPT ![s][t].policy = policy]
  /\ IF policy = "disabled" THEN UNCHANGED <<vetted, raced>>
     ELSE /\ vetted' = [vetted EXCEPT ![s][t] = tool[s][t].schema]
          /\ raced' = IF refresh.of = s THEN raced \cup {<<s, t>>} ELSE raced \ {<<s, t>>}
  /\ UNCHANGED <<server, remote, refresh>>

(***************************************************************************)
(* What others take from the catalogue.                                    *)
(***************************************************************************)
\* load_agent_mcp_servers: the tools a run is given when it begins.
Offered ==
  {pair \in Servers \X Tools :
     /\ Connected(pair[1]) /\ pair[2] \notin Retired
     /\ tool[pair[1]][pair[2]].policy \in {"read_only", "proposal_only"}}

\* resolve_mcp_server, with a policy the tool must have: the one server that
\* can do it.  Kinds and their defaults are not modelled.
Capable(t, policy) == {s \in Servers : Connected(s) /\ tool[s][t].policy = policy}
Resolves(s, t, policy) == Capable(t, policy) = {s}

Administration ==
  \/ \E s \in Servers : CreateServer(s)
  \/ \E s \in Servers, enabled \in BOOLEAN : UpdateServer(s, enabled)
  \/ \E s \in Servers, listing \in Listing : MoveServer(s, listing)
  \/ \E s \in Servers : DeleteServer(s)
  \/ \E s \in Servers, answers \in BOOLEAN : TestServer(s, answers)
  \/ \E s \in Servers, t \in Tools, schema \in Schemas : RemoteChanges(s, t, schema)
  \/ \E s \in Servers : RefreshRead(s)
  \/ \E s \in Servers : RefreshFails(s)
  \/ RefreshWrite
  \/ \E s \in Servers, t \in Tools, policy \in Policies : UpdateTool(s, t, policy)

(***************************************************************************)
(* Properties.                                                             *)
(***************************************************************************)
\* No tool is in use in a form, as the catalogue shows it, that no
\* administrator has enabled: one that has changed, or has vanished and come
\* back, is disabled until it is enabled for its new schema.  The exception is
\* a tool that was enabled while a refresh had already read its row.
EnabledWasVetted ==
  \A s \in Servers, t \in Tools :
    tool[s][t].policy # "disabled" /\ <<s, t>> \notin raced =>
      vetted[s][t] = tool[s][t].schema
=============================================================================
