----------------------------- MODULE Migrations -----------------------------
(***************************************************************************)
(* The database schema and the Alembic revisions that lead to it.  A       *)
(* schema is a set of tables and of columns that a later revision added;   *)
(* columns created with their table, indexes and types are left out.       *)
(*                                                                         *)
(* The container's command upgrades to the head before it starts the       *)
(* service; an operator may downgrade while the service is down.  Either   *)
(* way the revisions on the way run in one transaction (alembic/env.py).   *)
(***************************************************************************)
EXTENDS Integers, Sequences

\* A revision: what upgrade() adds, what downgrade() drops, and the tables the
\* foreign keys and columns it adds refer to.
Revision(adds, drops, refs) == [adds |-> adds, drops |-> drops, refs |-> refs]

Baseline == Revision({}, {}, {})

AuthTables ==
  {"districts", "users", "district_facilities", "sessions", "user_permissions",
   "user_scope", "user_scope_districts", "user_scope_facilities"}
Auth == Revision(AuthTables, AuthTables, {})

Hierarchy ==
  Revision({"facilities", "hierarchy_nodes"}, {"hierarchy_nodes", "facilities"}, {"districts"})

Channel ==
  Revision({"sensor_channels"}, {"sensor_channels"}, {"facilities", "hierarchy_nodes"})

Reading ==
  Revision({"etl_ingested_sources", "sensor_readings"}, {"sensor_readings", "etl_ingested_sources"}, {})

ReplayState ==
  Revision({"replay_state", "sensor_readings.origin"},
           {"sensor_readings.origin", "replay_state"}, {"sensor_readings"})

OdsJournal ==
  Revision({"synthetic_provider_runs", "ods_journal_entries"},
           {"ods_journal_entries", "synthetic_provider_runs"}, {"facilities"})

RegistryAndBacklog ==
  Revision({"equipment_registry_items", "external_work_order_records"},
           {"external_work_order_records", "equipment_registry_items"}, {"facilities"})

HealthOverride == Revision({"source_health_overrides"}, {"source_health_overrides"}, {})

EventTables ==
  Revision({"event_sync_state", "events"}, {"events", "event_sync_state"}, {"facilities"})

RiskTables ==
  Revision({"risk_sync_state", "risks", "risk_decisions"},
           {"risk_decisions", "risks", "risk_sync_state"}, {"facilities", "users"})

WorkOrderTable ==
  Revision({"work_orders"}, {"work_orders"}, {"users", "facilities", "risks"})

WorkOrderVersion ==
  Revision({"work_orders.version"}, {"work_orders.version"}, {"work_orders"})

AuditLog == Revision({"audit_log"}, {"audit_log"}, {})

SessionExpiry == Revision({"sessions.expires_at"}, {"sessions.expires_at"}, {"sessions"})

LoginFailures == Revision({"login_failures"}, {"login_failures"}, {})

RiskAlert ==
  Revision({"risks.alert", "risks.model_threshold"},
           {"risks.model_threshold", "risks.alert"}, {"risks"})

RiskVerdict ==
  Revision({"risks.verdict", "risks.blind_spots"},
           {"risks.blind_spots", "risks.verdict"}, {"risks"})

\* The chain of down_revision.
Chain ==
  <<Baseline, Auth, Hierarchy, Channel, Reading, ReplayState, OdsJournal,
    RegistryAndBacklog, HealthOverride, EventTables, RiskTables, WorkOrderTable,
    WorkOrderVersion, AuditLog, SessionExpiry, LoginFailures, RiskAlert, RiskVerdict>>

Newest == Len(Chain)

\* The tables of src/models, and the columns that came later than their table.
AuthModels ==
  {"users", "user_permissions", "districts", "district_facilities", "user_scope",
   "user_scope_facilities", "user_scope_districts", "sessions", "sessions.expires_at"}
HierarchyModels == {"facilities", "hierarchy_nodes"}
SensorModels == {"sensor_channels", "sensor_readings", "sensor_readings.origin", "etl_ingested_sources"}
ReplayModels == {"replay_state"}
ProviderModels ==
  {"synthetic_provider_runs", "ods_journal_entries", "equipment_registry_items",
   "external_work_order_records"}
HealthModels == {"source_health_overrides"}
EventModels == {"events", "event_sync_state"}
RiskModels ==
  {"risks", "risks.alert", "risks.model_threshold", "risks.verdict", "risks.blind_spots",
   "risk_decisions", "risk_sync_state"}
WorkOrderModels == {"work_orders", "work_orders.version"}
AuditModels == {"audit_log"}
LoginFailureModels == {"login_failures"}

\* Base.metadata.
Metadata ==
  UNION {AuthModels, HierarchyModels, SensorModels, ReplayModels, ProviderModels, HealthModels,
         EventModels, RiskModels, WorkOrderModels, AuditModels, LoginFailureModels}

VARIABLES
  revision,  \* alembic_version
  schema     \* the tables and later columns the database has

Added(low, high) == UNION {Chain[i].adds : i \in low .. high}

\* What the way down from the current revision to k drops.
Dropped(k) == UNION {Chain[i].drops : i \in k + 1 .. revision}

SchemaInit ==
  /\ revision = 0
  /\ schema = {}

\* alembic upgrade head: CREATE TABLE and ADD COLUMN want the name to be free,
\* foreign keys and columns their table to be there.  Added columns that may
\* not be NULL are filled in the same transaction or have a server default.
Upgrade ==
  /\ \A i \in revision + 1 .. Newest :
       LET before == schema \cup Added(revision + 1, i - 1)
       IN  Chain[i].adds \cap before = {} /\ Chain[i].refs \subseteq before \cup Chain[i].adds
  /\ revision' = Newest
  /\ schema' = schema \cup Added(revision + 1, Newest)

\* alembic downgrade to revision k: no table that is left refers to a dropped one.
Downgrade(k) ==
  /\ k < revision
  /\ \A i \in 1 .. k : Chain[i].refs \cap Dropped(k) = {}
  /\ revision' = k
  /\ schema' = schema \ Dropped(k)
=============================================================================
