------------------------------ MODULE Startup -------------------------------
(***************************************************************************)
(* The start of the service (main.lifespan) up to its first request: the   *)
(* migrations, the catalogues of facilities and channels, the event log,   *)
(* the demo users and the synthetic providers.  Every step looks for what  *)
(* an earlier start left and ends with a COMMIT of its own; the event log  *)
(* takes many.  The process may stop between any two COMMITs, an exception *)
(* of a step ends it, and another release may be deployed while it is down.*)
(* The synchronisations and the replay task, which follow the seeds, are   *)
(* the modules EventSync, Forecasts and Replay.                            *)
(***************************************************************************)
EXTENDS Migrations, FiniteSets

CONSTANTS
  Facilities,   \* level 3 objects of any release's catalogue
  Channels,     \* data channels of the catalogues and of the event log
  Releases,     \* sequence of [facilities, districts, parents, channels,
                \* permissions, malformed]
  Log,          \* the event log: sequence of [channel, alarm]
  Batch,        \* _BATCH_SIZE of the ETL
  MinEntries,   \* _MIN_ENTRIES, _MIN_ORDERS
  MaxEntries,   \* _MAX_ENTRIES, _MAX_ORDERS
  PerEntry,     \* _ALARMS_PER_ENTRY, _ALARMS_PER_ORDER
  Budgets       \* bounds: how many boots, deploys, downgrades, calls and ticks;
                \* a behaviour has one of these budgets

\* A release: the rows of level 3 and of level 2 in its catalogue, and the
\* districts its facilities name as their parent; a map from its channels to
\* their facility, or to an object or type that is in no catalogue; the rows of
\* the log that do not parse.
Nowhere == "nowhere"
Absent == "absent"
Orphan == "orphan"
Providers == {"ods", "registry", "backlog"}
NotRun == -1

Phases ==
  <<"facilities", "channels", "log", "users", "ods", "registry", "backlog", "serving">>
Release == DOMAIN Releases
Rows == DOMAIN Log

Spendings == {"boots", "deploys", "downgrades", "calls", "ticks"}

ASSUME StartupAssumption ==
  /\ Nowhere \notin Facilities
  /\ {Absent, Orphan} \cap Facilities = {}
  /\ IsFiniteSet(Channels)
  /\ 1 \in Release
  /\ \A r \in Release :
       /\ Releases[r].facilities \subseteq Facilities
       /\ Releases[r].permissions # {}
       /\ DOMAIN Releases[r].channels \subseteq Channels
       /\ \A c \in DOMAIN Releases[r].channels :
            Releases[r].channels[c] \in Facilities \cup {Nowhere}
       /\ Releases[r].malformed \subseteq Rows
  /\ Log \in Seq([channel : Channels, alarm : BOOLEAN])
  /\ {Batch, PerEntry} \subseteq Nat \ {0}
  /\ {MinEntries, MaxEntries} \subseteq Nat
  /\ Budgets \subseteq [Spendings -> Nat]

VARIABLES
  phase,      \* the step of lifespan the process is at, or down
  release,    \* the release that is deployed
  facilities, \* facilities, each with its root node
  districts,  \* districts
  place,      \* sensor_channels: absent, orphan, or placed under a facility
  nodes,      \* hierarchy_nodes of channels
  copies,     \* sensor_readings: per row of the log, how many
  ingested,   \* etl_ingested_sources has the log
  granted,    \* permissions of the manager; {} while there are no demo users
  mark,       \* synthetic_provider_runs: row_count, or NotRun
  items,      \* rows in the table of each provider
  position,   \* the ETL: rows of the log it has committed in this start
  cuts,       \* history: ETL runs that ended between their COMMITs
  forgotten,  \* history: providers whose table a downgrade dropped, not the mark
  seeded,     \* history: releases that reached serving since the last downgrade
  left        \* bounds: what is left of the budget

database == <<facilities, districts, place, nodes, copies, ingested, granted, mark, items>>
startup == <<revision, schema, phase, release, database, position, cuts, forgotten, seeded, left>>

Current == Releases[release]

StartupTypeOK ==
  /\ revision \in 0 .. Newest
  /\ schema \subseteq Metadata
  /\ phase = "down" \/ \E i \in DOMAIN Phases : phase = Phases[i]
  /\ release \in Release
  /\ facilities \subseteq Facilities
  /\ districts \subseteq UNION {Releases[r].districts : r \in Release}
  /\ nodes \subseteq Channels
  /\ place \in [Channels -> Facilities \cup {Absent, Orphan}]
  /\ copies \in [Rows -> Nat]
  /\ ingested \in BOOLEAN
  /\ granted \subseteq UNION {Releases[r].permissions : r \in Release}
  /\ mark \in [Providers -> Nat \cup {NotRun}]
  /\ items \in [Providers -> Nat]
  /\ position \in 0 .. Len(Log)
  /\ cuts \in Nat
  /\ forgotten \subseteq Providers
  /\ seeded \subseteq Release
  /\ left \in [Spendings -> Nat]

StartupInit ==
  /\ SchemaInit
  /\ phase = "down"
  /\ release = 1
  /\ facilities = {}
  /\ districts = {}
  /\ nodes = {}
  /\ place = [c \in Channels |-> Absent]
  /\ copies = [i \in Rows |-> 0]
  /\ ingested = FALSE
  /\ granted = {}
  /\ mark = [p \in Providers |-> NotRun]
  /\ items = [p \in Providers |-> 0]
  /\ position = 0
  /\ cuts = 0
  /\ forgotten = {}
  /\ seeded = {}
  /\ left \in Budgets

Spend(what) ==
  /\ left[what] > 0
  /\ left' = [left EXCEPT ![what] = @ - 1]

-----------------------------------------------------------------------------
(* The process.                                                             *)

\* "alembic upgrade head && uvicorn": lifespan begins.
Boot ==
  /\ phase = "down"
  /\ Spend("boots")
  /\ Upgrade
  /\ phase' = "facilities"
  /\ UNCHANGED <<release, database, position, cuts, forgotten, seeded>>

Enter(next) ==
  /\ phase' = next
  /\ seeded' = IF next = "serving" THEN seeded \cup {release} ELSE seeded
  /\ UNCHANGED <<revision, schema, release, forgotten, left>>

\* The process ends: what was not committed is lost, an ETL is cut off.
Ends ==
  /\ phase' = "down"
  /\ position' = 0
  /\ cuts' = IF position > 0 THEN cuts + 1 ELSE cuts
  /\ UNCHANGED <<revision, schema, release, database, forgotten, seeded>>

Stop ==
  /\ phase # "down"
  /\ Ends
  /\ UNCHANGED left

Deploy ==
  /\ phase = "down"
  /\ Spend("deploys")
  /\ \E r \in Release \ {release} : release' = r
  /\ UNCHANGED <<revision, schema, phase, database, position, cuts, forgotten, seeded>>

\* The table of a provider.
TableOf ==
  [p \in Providers |->
    CASE p = "ods" -> "ods_journal_entries"
      [] p = "registry" -> "equipment_registry_items"
      [] p = "backlog" -> "external_work_order_records"]

\* A downgrade takes the rows along with their tables.
Back(k) ==
  /\ phase = "down"
  /\ Spend("downgrades")
  /\ Downgrade(k)
  /\ facilities' = IF "facilities" \in Dropped(k) THEN {} ELSE facilities
  /\ districts' = IF "districts" \in Dropped(k) THEN {} ELSE districts
  /\ nodes' = IF "hierarchy_nodes" \in Dropped(k) THEN {} ELSE nodes
  /\ place' = IF "sensor_channels" \in Dropped(k) THEN [c \in Channels |-> Absent] ELSE place
  /\ copies' = IF "sensor_readings" \in Dropped(k) THEN [i \in Rows |-> 0] ELSE copies
  /\ ingested' = (ingested /\ "etl_ingested_sources" \notin Dropped(k))
  /\ granted' = IF "user_permissions" \in Dropped(k) THEN {} ELSE granted
  /\ mark' = IF "synthetic_provider_runs" \in Dropped(k) THEN [p \in Providers |-> NotRun] ELSE mark
  /\ items' = [p \in Providers |-> IF TableOf[p] \in Dropped(k) THEN 0 ELSE items[p]]
  /\ forgotten' = IF "synthetic_provider_runs" \in Dropped(k) THEN {}
                  ELSE forgotten \cup {p \in Providers : mark[p] > 0 /\ TableOf[p] \in Dropped(k)}
  /\ cuts' = IF "sensor_readings" \in Dropped(k) THEN 0 ELSE cuts
  /\ seeded' = {}
  /\ UNCHANGED <<phase, release, position>>

-----------------------------------------------------------------------------
(* The catalogues.                                                          *)

\* set(existing) == facility_ids_in_source, of a file that has facilities.
CatalogueThere == Current.facilities # {} /\ Current.facilities \subseteq facilities

\* Every row of the file can be inserted: no facility and no district of it is
\* there, and its facilities' parents are there or come with them.
CatalogueFits ==
  /\ Current.facilities \cap facilities = {}
  /\ Current.districts \cap districts = {}
  /\ Current.parents \subseteq districts \cup Current.districts

\* seed_facility_catalogue: nothing to do only if every facility is there;
\* otherwise facilities and districts are inserted in one transaction.
SeedFacilities ==
  /\ phase = "facilities"
  /\ \/ CatalogueThere /\ UNCHANGED <<facilities, districts>>
     \/ /\ ~CatalogueThere
        /\ CatalogueFits
        /\ facilities' = facilities \cup Current.facilities
        /\ districts' = districts \cup Current.districts
  /\ Enter("channels")
  /\ UNCHANGED <<place, nodes, copies, ingested, granted, mark, items, position, cuts>>

\* A catalogue of which a part is there, be it a district only, breaks a
\* primary key; a parent that is no district breaks the foreign key.
SeedFacilitiesFail ==
  /\ phase = "facilities"
  /\ ~CatalogueThere
  /\ ~CatalogueFits
  /\ Ends
  /\ UNCHANGED left

\* new_rows.
NewChannels == {c \in DOMAIN Current.channels : place[c] = Absent}

\* The new channels of known type and facility, which get a node.
NewNodes == {c \in NewChannels : Current.channels[c] \in facilities}

\* seed_sensor_channel_catalogue: channels of unknown type or facility are
\* kept as orphans, the others become a node under their facility's root.
SeedChannels ==
  /\ phase = "channels"
  /\ NewNodes \cap nodes = {}
  /\ nodes' = nodes \cup NewNodes
  /\ place' = [c \in Channels |->
       IF c \notin NewChannels THEN place[c]
       ELSE IF c \in NewNodes THEN Current.channels[c]
       ELSE Orphan]
  /\ Enter("log")
  /\ UNCHANGED <<facilities, districts, copies, ingested, granted, mark, items, position, cuts>>

\* The node of a new channel outlived its row: the primary key again.
SeedChannelsFail ==
  /\ phase = "channels"
  /\ NewNodes \cap nodes # {}
  /\ Ends
  /\ UNCHANGED left

-----------------------------------------------------------------------------
(* The event log: ingest_event_log.                                         *)

IngestDone ==
  /\ phase = "log"
  /\ ingested
  /\ Enter("users")
  /\ UNCHANGED <<database, position, cuts>>

\* The rows up to the next COMMIT.
NextRows == {i \in Rows : position < i /\ i <= position + Batch}

\* A full batch, or the rest, is committed with the orphan channels it met.
IngestBatch ==
  /\ phase = "log"
  /\ ~ingested
  /\ NextRows # {}
  /\ NextRows \cap Current.malformed = {}
  /\ copies' = [i \in Rows |-> copies[i] + (IF i \in NextRows THEN 1 ELSE 0)]
  /\ place' = [c \in Channels |->
       IF place[c] = Absent /\ \E i \in NextRows : Log[i].channel = c THEN Orphan ELSE place[c]]
  /\ position' = position + Cardinality(NextRows)
  /\ UNCHANGED <<revision, schema, phase, release, facilities, districts, nodes, ingested,
                 granted, mark, items, cuts, forgotten, seeded, left>>

\* EventParseError, or a date or a column that is missing.
IngestFail ==
  /\ phase = "log"
  /\ ~ingested
  /\ NextRows \cap Current.malformed # {}
  /\ Ends
  /\ UNCHANGED left

\* The marker, in a COMMIT of its own.
IngestMark ==
  /\ phase = "log"
  /\ ~ingested
  /\ NextRows = {}
  /\ ingested' = TRUE
  /\ position' = 0
  /\ Enter("users")
  /\ UNCHANGED <<facilities, districts, place, nodes, copies, granted, mark, items, cuts>>

-----------------------------------------------------------------------------
(* The demo users and the providers.                                        *)

\* Mutated form: existing users are left as they are.
FirstGrant == IF granted = {} THEN Current.permissions ELSE granted

\* Mutated form: they get what the release grants, and lose what it does not.
GrantAnew == Current.permissions

\* What the manager holds after seed_demo_users: everything on a new
\* database, the missing permissions of the catalogue on an old one.
Grant == granted \cup Current.permissions

SeedUsers ==
  /\ phase = "users"
  /\ granted' = Grant
  /\ Enter("ods")
  /\ UNCHANGED <<facilities, districts, place, nodes, copies, ingested, mark, items, position, cuts>>

Placed(c) == place[c] \in Facilities

\* total_alarms: how many historical readings of placed channels are alarms.
Alarms ==
  LET alarming == {i \in Rows : Log[i].alarm /\ Placed(Log[i].channel)}
  IN  Cardinality(UNION {{i} \X (1 .. copies[i]) : i \in alarming})

\* total_entries, total_orders.
Entries(alarms) ==
  LET share == alarms \div PerEntry
  IN  IF alarms = 0 THEN 0
      ELSE IF share > MaxEntries THEN MaxEntries
      ELSE IF share < MinEntries THEN MinEntries
      ELSE share

\* The groups of facility and system the registry describes; a channel stands
\* for a system of its own.
Groups == Cardinality({c \in Channels : Placed(c)})

\* A provider runs once: its rows and its mark, which also says that there was
\* nothing to generate, are committed together.
Generate(p, count, next) ==
  /\ phase = p
  /\ IF mark[p] # NotRun
     THEN UNCHANGED <<mark, items>>
     ELSE /\ mark' = [mark EXCEPT ![p] = count]
          /\ items' = [items EXCEPT ![p] = count]
  /\ Enter(next)
  /\ UNCHANGED <<facilities, districts, place, nodes, copies, ingested, granted, position, cuts>>

GenerateOdsJournal == Generate("ods", Entries(Alarms), "registry")
GenerateRegistry == Generate("registry", Groups, "backlog")
GenerateBacklog == Generate("backlog", Entries(Alarms), "serving")

Seed ==
  \/ SeedFacilities
  \/ SeedChannels
  \/ IngestDone
  \/ IngestBatch
  \/ IngestMark
  \/ SeedUsers
  \/ GenerateOdsJournal
  \/ GenerateRegistry
  \/ GenerateBacklog

\* An exception of a step, which lifespan does not catch.
Raise == SeedFacilitiesFail \/ SeedChannelsFail \/ IngestFail

-----------------------------------------------------------------------------
(* Properties.                                                              *)

\* A service that serves has the tables and columns its models read, the
\* catalogue of its release, the facility and the node of every channel that is
\* placed, every row of the event log at least once, and as often again as an
\* ingestion was cut off between its COMMITs, the rows its providers' marks
\* speak of unless a downgrade dropped their table only, and a manager with
\* every permission of the release.
DataComplete ==
  phase = "serving" =>
    /\ schema = Metadata
    /\ Current.facilities \subseteq facilities
    /\ \A c \in DOMAIN Current.channels : place[c] # Absent
    /\ \A c \in Channels : Placed(c) => place[c] \in facilities /\ c \in nodes
    /\ \A i \in Rows : copies[i] \in 1 .. 1 + cuts /\ place[Log[i].channel] # Absent
    /\ \A p \in Providers \ forgotten : mark[p] = items[p]
    /\ granted # {} /\ Current.permissions \subseteq granted

\* Starting a release that has served this database before changes nothing:
\* every seed finds what it did, whatever other release ran in between.
StartRepeats == [][Seed /\ release \in seeded => UNCHANGED database]_startup
=============================================================================
