--------------------------- MODULE TenantMigration ---------------------------
(***************************************************************************)
(* The staged schema migration to tenant ownership (migrations/): revision *)
(* 001 expands, backfill_legacy_tenant.py gives every row an owner, 002    *)
(* enforces, 003 to 005 add the tables of the later stages.  The           *)
(* application keeps inserting rows all the while.                         *)
(*                                                                         *)
(* The backfill scans every table in primary-key order behind a cursor     *)
(* that its ledger keeps, and may be stopped and run again.  Primary keys  *)
(* are random, so a row may appear behind the cursor.  A whole backfill is *)
(* one transaction: its updates and its ledger become visible, or are      *)
(* lost, together.  Every migration is one transaction too.  Rows are kept *)
(* for three of the thirteen scanned tables, one of each kind: an owned    *)
(* root, a child of it, and a root whose column the backfill itself adds.  *)
(***************************************************************************)
EXTENDS Integers, FiniteSets, FiniteSetsExt, Sequences

CONSTANTS
    RowIds,        \* primary keys; rows are inserted in any order of them
    Tenants,       \* tenants other than the legacy one
    Codes,         \* business codes of knowledge bases
    BatchSize,     \* rows per batch
    MaxDowngrades, \* bound on downgrades
    Null

ASSUME MigrationAssumption ==
    /\ RowIds \subseteq Nat \ {0} /\ IsFiniteSet(RowIds)
    /\ BatchSize \in Nat \ {0} /\ MaxDowngrades \in Nat
    /\ Null \notin Tenants \cup {"legacy"}

VARIABLES
    revision,   \* alembic_version: 0 to 5
    schema,     \* sets of tables: existing, with a column, isolated, ...
    role,       \* policyflow_app: "absent", "restricted" or "bypass"
    rows,       \* key -> row, for the keys in use
    ledger,     \* migration_backfill_state, as committed
    bf,         \* the running backfill and its uncommitted writes
    enforcing,  \* whether 002 has passed its checks and not yet altered
    behind,     \* history: rows inserted behind a cursor
    downgrades  \* downgrades so far

vars == <<revision, schema, role, rows, ledger, bf, enforcing, behind, downgrades>>

Legacy == "legacy"
Owners == Tenants \cup {Legacy}

-----------------------------------------------------------------------------
(* The tables, in the groups the revisions create them in.                  *)

RootTables == {"audit_logs", "departments", "eval_cases", "mcp_servers",
    "model_providers", "retrieval_eval_items", "skills", "tenants",
    "tool_call_logs", "tools"}

OwnedTables == {"audit_events", "eval_runs", "idempotency_records",
    "knowledge_bases", "memory_items", "roles", "users"}

LinkedTables == {"conversations", "eval_results", "faq_drafts",
    "knowledge_base_permissions", "knowledge_documents", "user_role_grants",
    "user_roles"}

LeafTables == {"agent_runs", "ai_query_logs", "drafts", "messages",
    "rag_index_jobs", "graph_checkpoint_bindings", "query_feedback", "run_events"}

ExpandTables == RootTables \cup OwnedTables \cup LinkedTables \cup LeafTables

(* 001's TENANT_SCOPED_TABLES: the ones it creates a policy for.            *)
ExpandScoped == {"users", "roles", "user_role_grants", "knowledge_bases",
    "knowledge_documents", "conversations", "messages", "memory_items", "drafts",
    "agent_runs", "run_events", "graph_checkpoint_bindings",
    "idempotency_records", "audit_events"}

(* Created by 001 with a tenant_id that may not be null.                    *)
ExpandRequired == {"audit_events", "idempotency_records", "user_role_grants",
    "agent_runs", "graph_checkpoint_bindings", "run_events"}

(* TENANT_COLUMN_ADDED_BY_BACKFILL.                                         *)
AddedByBackfill == {"eval_cases", "ai_query_logs", "eval_results",
    "retrieval_eval_items"}

(* 002's TENANT_SCOPED_TABLES.                                              *)
EnforceScoped == ExpandScoped \cup AddedByBackfill \cup {"eval_runs"}

JobTables == {"durable_jobs", "outbox_events"}

QuotaTables == {"quota_policies", "quota_leases", "usage_records",
    "capacity_test_runs"}

MaterialTables == {"materials", "object_versions", "material_versions"}

VectorTables == {"embedding_versions", "vector_manifests", "reconciliation_issues"}

WorkspaceTables == {"task_workspaces", "workspace_inputs", "change_sets",
    "change_set_items", "approval_requests", "submission_jobs"}

NewTables(rev) ==
    CASE rev = 3 -> JobTables \cup QuotaTables
      [] rev = 4 -> MaterialTables \cup VectorTables
      [] rev = 5 -> WorkspaceTables

(* capacity_test_runs has no tenant, and a quota policy may be everyone's.  *)
Isolated(rev) == NewTables(rev) \ {"capacity_test_runs"}
Strict(rev) == Isolated(rev) \ {"quota_policies"}

Empty == [tables |-> {}, column |-> {}, required |-> {}, enabled |-> {},
          forced |-> {}, policy |-> {}, granted |-> {}, perTenant |-> FALSE]

-----------------------------------------------------------------------------
(* The scanned tables, parents first, and where a row's owner comes from.   *)

Scanned == <<"knowledge_bases", "eval_cases", "knowledge_documents">>
ScannedTables == Range(Scanned)
Unstarted == [status |-> "pending", cursor |-> 0]
Resting == [pc |-> "idle", at |-> 0, led |-> <<>>, given |-> <<>>, column |-> {},
            ran |-> FALSE]

Of(t) == {i \in DOMAIN rows : rows[i].table = t}

(* What the backfill's transaction sees: committed rows and its own writes. *)
Seen(i) == IF i \in DOMAIN bf.given THEN bf.given[i] ELSE rows[i].tenant

Unowned == {i \in DOMAIN rows : rows[i].tenant = Null}

(* A table's entry in a ledger; a table without one has not been started.   *)
StateOf(led, t) == IF t \in DOMAIN led THEN led[t] ELSE Unstarted

Cursor(t) == Max({StateOf(ledger, t).cursor, StateOf(bf.led, t).cursor})

MigrationInit ==
    /\ revision = 0 /\ schema = Empty /\ rows = <<>>
    /\ role \in {"absent", "bypass"}
    /\ ledger = <<>> /\ bf = Resting /\ enforcing = FALSE
    /\ behind = {} /\ downgrades = 0

-----------------------------------------------------------------------------
(* The application inserts a row.  A child carries its parent's owner, or   *)
(* none; PostgreSQL refuses a null owner once the column is required, and   *)
(* a code that is taken: anywhere, or in the same tenant after 002.  The    *)
(* backfill's ALTER TABLE keeps its table locked until it ends.             *)

CodeTaken(code, owner) ==
    \E i \in Of("knowledge_bases") :
        /\ rows[i].code = code
        /\ schema.perTenant => rows[i].tenant = owner /\ owner # Null

Insert(i, t, owner, parent, code) ==
    /\ i \notin DOMAIN rows /\ t \in schema.tables /\ t \notin bf.column
    /\ owner = Null => t \notin schema.required
    /\ owner # Null => t \in schema.column
    /\ t = "knowledge_bases" => ~CodeTaken(code, owner)
    /\ rows' = [j \in DOMAIN rows \cup {i} |->
                   IF j = i THEN [table |-> t, tenant |-> owner,
                                  parent |-> parent, code |-> code]
                            ELSE rows[j]]
    /\ behind' = IF i <= Cursor(t) THEN behind \cup {i} ELSE behind
    /\ UNCHANGED <<revision, schema, role, ledger, bf, enforcing,
                   downgrades>>

InsertRoot == \E i \in RowIds, o \in Tenants \cup {Null}, c \in Codes :
    Insert(i, "knowledge_bases", o, Null, c)

InsertCase == \E i \in RowIds, o \in Tenants \cup {Null} :
    Insert(i, "eval_cases", o, Null, Null)

InsertDocument == \E i \in RowIds, p \in Of("knowledge_bases") :
    \E o \in {Null, rows[p].tenant} :
        Insert(i, "knowledge_documents", o, p, Null)
-----------------------------------------------------------------------------
(* backfill_legacy_tenant.py.                                               *)

(* run_backfill up to the first table: the ledger is read, and the column   *)
(* added where 001 did not create it, which locks those tables.             *)
StartBackfill ==
    /\ revision = 1 \/ revision = 2
    /\ bf.pc = "idle" /\ ~enforcing
    /\ bf' = [pc |-> "table", at |-> 1, led |-> ledger, given |-> <<>>,
              column |-> AddedByBackfill \ schema.column, ran |-> FALSE]
    /\ UNCHANGED <<revision, schema, role, rows, ledger, enforcing, behind,
                   downgrades>>

(* The next table is opened, or skipped when the ledger has it completed.   *)
OpenTable ==
    /\ bf.pc = "table" /\ bf.at <= Len(Scanned)
    /\ LET t == Scanned[bf.at]
           state == StateOf(bf.led, t) IN
       bf' = IF state.status = "completed" THEN [bf EXCEPT !.at = @ + 1, !.ran = FALSE]
             ELSE [bf EXCEPT !.pc = "batch", !.ran = FALSE,
                             !.led = [u \in DOMAIN @ \cup {t} |->
                                         IF u = t THEN state ELSE @[u]]]
    /\ UNCHANGED <<revision, schema, role, rows, ledger, enforcing, behind,
                   downgrades>>

(* The keyset batch: the first BatchSize rows past the cursor.              *)
Batch(t) ==
    LET pending == {i \in Of(t) : i > bf.led[t].cursor} IN
    {i \in pending : Cardinality({j \in pending : j <= i}) <= BatchSize}

(* A child inherits the owner of its parent; the legacy tenant owns a root, *)
(* and a child whose parent has no owner.                                   *)
Resolved(i) ==
    IF rows[i].parent # Null /\ Seen(rows[i].parent) # Null
    THEN Seen(rows[i].parent) ELSE Legacy

(* The covered rows the statement updates.                                  *)
Updated(ids) == {i \in ids : Seen(i) = Null}

(* Not the code: the cursor follows the rows that were attributed.          *)
LastUpdated(t, ids) ==
    Max(Updated(ids) \cup {bf.led[t].cursor})

(* The cursor moves to the last row covered, attributed or not.             *)
NextCursor(t, ids) == Max(ids)

(* backfill_table_batch.  A batch that covers no row completes the table:   *)
(* a row whose parent has no owner was already given to the legacy tenant,  *)
(* so the second pass and its failures have nothing left to do.             *)
RunBatch ==
    /\ bf.pc = "batch"
    /\ LET t == Scanned[bf.at]
           ids == Batch(t) IN
       IF ids # {}
       THEN bf' = [bf EXCEPT !.ran = TRUE,
                !.given = [i \in DOMAIN @ \cup Updated(ids) |->
                              IF i \in Updated(ids) THEN Resolved(i) ELSE @[i]],
                !.led[t] = [status |-> "running", cursor |-> NextCursor(t, ids)]]
       ELSE bf' = [bf EXCEPT !.led[t].status = "completed", !.pc = "table",
                             !.at = @ + 1, !.ran = TRUE]
    /\ UNCHANGED <<revision, schema, role, rows, ledger, enforcing, behind,
                   downgrades>>

(* The transaction commits: owners, columns and ledger together.            *)
CommitBackfill ==
    /\ rows' = [i \in DOMAIN rows |-> [rows[i] EXCEPT !.tenant = Seen(i)]]
    /\ ledger' = bf.led
    /\ schema' = [schema EXCEPT !.column = @ \cup bf.column]
    /\ bf' = Resting
    /\ UNCHANGED <<revision, role, enforcing, behind, downgrades>>

(* should_stop, asked after every batch: the run ends there and commits,    *)
(* with no verification.                                                    *)
StopEarly ==
    /\ bf.ran
    /\ CommitBackfill

(* All tables done: verify_backfill counts the rows without an owner, and   *)
(* a single one rolls the whole run back.                                   *)
VerifyBackfill ==
    /\ bf.pc = "table" /\ bf.at > Len(Scanned)
    /\ IF \A i \in DOMAIN rows : Seen(i) # Null
       THEN CommitBackfill
       ELSE /\ bf' = Resting
            /\ UNCHANGED <<revision, schema, role, rows, ledger, enforcing, behind, downgrades>>

(* Not the code: the ledger is written on a connection of its own.          *)
LedgerOutlives == bf.led

(* What is left of the ledger when the process dies: what was committed.    *)
LedgerAfterCrash == ledger

CrashBackfill ==
    /\ bf.pc # "idle"
    /\ bf' = Resting /\ ledger' = LedgerAfterCrash
    /\ UNCHANGED <<revision, schema, role, rows, enforcing, behind, downgrades>>

-----------------------------------------------------------------------------
(* Revisions.                                                               *)

(* 001: the tables, the legacy tenant, and a policy on the scoped tables.   *)
Expand ==
    /\ revision = 0
    /\ revision' = 1
    /\ schema' = [schema EXCEPT
                     !.tables = ExpandTables,
                     !.column = ExpandScoped \cup {"eval_runs"},
                     !.required = ExpandRequired,
                     !.enabled = ExpandScoped, !.policy = ExpandScoped]
    /\ UNCHANGED <<role, rows, ledger, bf, enforcing, behind, downgrades>>

(* 002 looks at the ledger and for rows without an owner.                   *)
Reconciled ==
    /\ \A t \in ScannedTables : t \in DOMAIN ledger /\ ledger[t].status = "completed"
    /\ Unowned = {}

CheckEnforce ==
    /\ revision = 1 /\ ~enforcing /\ bf.pc = "idle"
    /\ Reconciled
    /\ enforcing' = TRUE
    /\ UNCHANGED <<revision, schema, role, rows, ledger, bf, behind, downgrades>>

(* Not the code: FORCE without ENABLE, which leaves row security off on     *)
(* the tables 001 did not enable it for.                                    *)
ForceOnly(s, scoped) ==
    [s EXCEPT !.forced = @ \cup scoped, !.policy = @ \cup scoped]

(* _force_tenant_isolation / _force_isolation.                              *)
ForceIsolation(s, scoped) ==
    [s EXCEPT !.enabled = @ \cup scoped, !.forced = @ \cup scoped,
              !.policy = @ \cup scoped]

(* Then it alters: PostgreSQL checks NOT NULL again, over the rows inserted *)
(* in between, and the role must not be able to bypass row security.        *)
ApplyEnforce ==
    /\ enforcing
    /\ enforcing' = FALSE
    /\ IF Unowned = {} /\ role # "bypass"
       THEN /\ revision' = 2 /\ role' = "restricted"
            /\ schema' = [ForceIsolation(schema, schema.column) EXCEPT
                             !.required = @ \cup schema.column,
                             !.granted = schema.tables, !.perTenant = TRUE]
       ELSE UNCHANGED <<revision, schema, role>>
    /\ UNCHANGED <<rows, ledger, bf, behind, downgrades>>

(* An operator takes BYPASSRLS from the role, as 002's refusal asks.        *)
RestrictRole ==
    /\ role = "bypass" /\ revision = 1
    /\ role' = "restricted"
    /\ UNCHANGED <<revision, schema, rows, ledger, bf, enforcing, behind,
                   downgrades>>

(* 003, 004 and 005: new tables, isolated at once, granted to the role.     *)
AddStage(rev) ==
    /\ revision = rev - 1 /\ bf.pc = "idle"
    /\ revision' = rev
    /\ schema' = [ForceIsolation(schema, Isolated(rev)) EXCEPT
                     !.tables = @ \cup NewTables(rev),
                     !.column = @ \cup Isolated(rev),
                     !.required = @ \cup Strict(rev),
                     !.granted = IF role = "absent" THEN @ ELSE @ \cup NewTables(rev)]
    /\ UNCHANGED <<role, rows, ledger, bf, enforcing, behind, downgrades>>

Stage4 == AddStage(3)
Stage5 == AddStage(4)
Stage6 == AddStage(5)

Without(s, gone) ==
    [s EXCEPT !.tables = @ \ gone, !.column = @ \ gone, !.required = @ \ gone,
              !.enabled = @ \ gone, !.forced = @ \ gone, !.policy = @ \ gone,
              !.granted = @ \ gone]

(* 005, 004 and 003 down: their tables are dropped.                         *)
DropStage ==
    /\ revision > 2 /\ bf.pc = "idle" /\ downgrades < MaxDowngrades
    /\ downgrades' = downgrades + 1
    /\ revision' = revision - 1
    /\ schema' = Without(schema, NewTables(revision))
    /\ UNCHANGED <<role, rows, ledger, bf, enforcing, behind>>

(* 002 down: refused by the unique index when two tenants share a code;     *)
(* otherwise every scoped table becomes nullable and loses row security,    *)
(* the ones that 001 had made required and enabled too.                     *)
Relax ==
    /\ revision = 2 /\ bf.pc = "idle" /\ downgrades < MaxDowngrades
    /\ \A i, j \in Of("knowledge_bases") : rows[i].code = rows[j].code => i = j
    /\ downgrades' = downgrades + 1
    /\ revision' = 1
    /\ schema' = [schema EXCEPT !.required = @ \ schema.column,
                     !.enabled = @ \ schema.column, !.forced = @ \ schema.column,
                     !.perTenant = FALSE]
    /\ UNCHANGED <<role, rows, ledger, bf, enforcing, behind>>

(* 001 down drops tenants before eval_cases and retrieval_eval_items, so it *)
(* fails once the backfill has given those a reference to it.               *)
Contract ==
    /\ revision = 1 /\ bf.pc = "idle" /\ ~enforcing /\ downgrades < MaxDowngrades
    /\ schema.column \cap {"eval_cases", "retrieval_eval_items"} = {}
    /\ downgrades' = downgrades + 1
    /\ revision' = 0 /\ schema' = Empty /\ rows' = <<>>
    /\ UNCHANGED <<role, ledger, bf, enforcing, behind>>

-----------------------------------------------------------------------------
BackfillStep == OpenTable \/ RunBatch \/ VerifyBackfill

MigrationNext ==
    \/ InsertRoot \/ InsertCase \/ InsertDocument
    \/ StartBackfill \/ BackfillStep \/ StopEarly \/ CrashBackfill
    \/ Expand \/ CheckEnforce \/ ApplyEnforce \/ RestrictRole
    \/ Stage4 \/ Stage5 \/ Stage6
    \/ DropStage \/ Relax \/ Contract

MigrationSpec == MigrationInit /\ [][MigrationNext]_vars

(* The process that runs the backfill goes on from one statement to the     *)
(* next by itself.                                                          *)
MigrationLiveSpec == MigrationSpec /\ WF_vars(BackfillStep)

-----------------------------------------------------------------------------
MigrationTypeOK ==
    /\ revision \in 0..5
    /\ \A i \in DOMAIN rows :
        rows[i] \in [table : ScannedTables, tenant : Owners \cup {Null},
                     parent : RowIds \cup {Null}, code : Codes \cup {Null}]
    /\ \A t \in DOMAIN ledger :
        ledger[t] \in [status : {"pending", "running", "completed"},
                       cursor : RowIds \cup {0}]

(* The cursor tells the truth across stops, deaths and re-runs: a row it    *)
(* has passed has an owner, unless the application inserted the row behind  *)
(* it (_persist_state, in the batch's transaction).  And a row belongs to   *)
(* the tenant of its parent, however the two were inserted around the scans *)
(* of their tables (BACKFILL_TABLES, _pending_batch_sql).                   *)
OwnersAreRight ==
    \A i \in DOMAIN rows :
        /\ rows[i].table \in DOMAIN ledger /\ i <= ledger[rows[i].table].cursor
              => rows[i].tenant # Null \/ i \in behind
        /\ rows[i].parent # Null /\ rows[i].tenant # Null
           /\ rows[rows[i].parent].tenant # Null
              => rows[i].tenant = rows[rows[i].parent].tenant

(* Once 002 is in force every row has an owner, every table with an owner   *)
(* is isolated, and the service's role can use the tables but not bypass    *)
(* their policies; later revisions and downgrades to 002 keep it so.        *)
ServiceIsConfined ==
    revision >= 2 =>
        /\ Unowned = {}
        /\ role = "restricted" /\ schema.granted = schema.tables
        /\ schema.column \subseteq schema.enabled \cap schema.forced \cap schema.policy
        /\ schema.column \ {"quota_policies"} \subseteq schema.required

(* A backfill ends: no row, attributed or not, can hold its scan up.        *)
BackfillEnds == bf.pc # "idle" ~> bf.pc = "idle"
=============================================================================
