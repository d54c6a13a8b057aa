---------------------------- MODULE ServiceProofs ---------------------------
(***************************************************************************)
(* Proofs about the whole service: the types of the start and of the       *)
(* sign-in, that a service that serves has complete data, that a start     *)
(* which has been done before changes nothing, that only live sessions are *)
(* honoured, that the journal names the right user, and that the lockout   *)
(* bounds the failures and ends when it says.                              *)
(***************************************************************************)
EXTENDS Service, FiniteSetTheorems, TLAPS

-----------------------------------------------------------------------------
(* The chain of revisions.                                                  *)

LEMMA ChainLength == Newest = 18
  BY DEF Newest, Chain

\* What each revision adds.
LEMMA Additions ==
  /\ Chain[1].adds = {}
  /\ Chain[2].adds = AuthTables
  /\ Chain[3].adds = {"facilities", "hierarchy_nodes"}
  /\ Chain[4].adds = {"sensor_channels"}
  /\ Chain[5].adds = {"etl_ingested_sources", "sensor_readings"}
  /\ Chain[6].adds = {"replay_state", "sensor_readings.origin"}
  /\ Chain[7].adds = {"synthetic_provider_runs", "ods_journal_entries"}
  /\ Chain[8].adds = {"equipment_registry_items", "external_work_order_records"}
  /\ Chain[9].adds = {"source_health_overrides"}
  /\ Chain[10].adds = {"event_sync_state", "events"}
  /\ Chain[11].adds = {"risk_sync_state", "risks", "risk_decisions"}
  /\ Chain[12].adds = {"work_orders"}
  /\ Chain[13].adds = {"work_orders.version"}
  /\ Chain[14].adds = {"audit_log"}
  /\ Chain[15].adds = {"sessions.expires_at"}
  /\ Chain[16].adds = {"login_failures"}
  /\ Chain[17].adds = {"risks.alert", "risks.model_threshold"}
  /\ Chain[18].adds = {"risks.verdict", "risks.blind_spots"}
  BY DEF Chain, Revision, Baseline, Auth, Hierarchy, Channel, Reading, ReplayState, OdsJournal,
         RegistryAndBacklog, HealthOverride, EventTables, RiskTables, WorkOrderTable,
         WorkOrderVersion, AuditLog, SessionExpiry, LoginFailures, RiskAlert, RiskVerdict

\* A downgrade drops what the upgrade added.
LEMMA DropsAdditions ==
  ASSUME NEW i \in 1 .. Newest
  PROVE  Chain[i].drops = Chain[i].adds
<1>1. ASSUME NEW x PROVE x \in Chain[i].drops <=> x \in Chain[i].adds
  BY ChainLength
  DEF Chain, Revision, Baseline, Auth, AuthTables, Hierarchy, Channel, Reading, ReplayState,
      OdsJournal, RegistryAndBacklog, HealthOverride, EventTables, RiskTables, WorkOrderTable,
      WorkOrderVersion, AuditLog, SessionExpiry, LoginFailures, RiskAlert, RiskVerdict
<1>2. QED  BY <1>1, SMT

\* Nothing is added twice.
LEMMA AddedOnce ==
  ASSUME NEW i \in 1 .. Newest, NEW j \in 1 .. Newest,
         NEW x \in Chain[i].adds, x \in Chain[j].adds
  PROVE  i = j
  BY Additions, ChainLength, SMTT(60) DEF AuthTables

\* The models want what the chain leads to.
LEMMA ChainLeadsToModels == Added(1, Newest) = Metadata
  BY Additions, ChainLength, SMTT(60)
  DEF Added, Metadata, AuthTables, AuthModels, HierarchyModels, SensorModels, ReplayModels,
      ProviderModels, HealthModels, EventModels, RiskModels, WorkOrderModels, AuditModels,
      LoginFailureModels

\* A way down drops a table exactly if it passes the revision that added it.
LEMMA DroppedBelow ==
  ASSUME revision \in 0 .. Newest, NEW k \in 0 .. Newest,
         NEW b \in 1 .. Newest, NEW x \in Chain[b].adds
  PROVE  x \in Dropped(k) <=> k < b /\ b <= revision
<1>1. ASSUME NEW i \in k + 1 .. revision PROVE x \in Chain[i].drops <=> i = b
  <2>1. i \in 1 .. Newest  BY ChainLength
  <2>2. QED  BY <2>1, DropsAdditions, AddedOnce
<1>2. QED  BY <1>1, ChainLength DEF Dropped

\* The tables the model keeps the rows of, each at its revision.
LEMMA TableBorn ==
  /\ "users" \in Chain[2].adds /\ "user_permissions" \in Chain[2].adds
  /\ "sessions" \in Chain[2].adds
  /\ "facilities" \in Chain[3].adds /\ "hierarchy_nodes" \in Chain[3].adds
  /\ "sensor_channels" \in Chain[4].adds
  /\ "sensor_readings" \in Chain[5].adds /\ "etl_ingested_sources" \in Chain[5].adds
  /\ "synthetic_provider_runs" \in Chain[7].adds /\ "ods_journal_entries" \in Chain[7].adds
  /\ "equipment_registry_items" \in Chain[8].adds
  /\ "external_work_order_records" \in Chain[8].adds
  /\ "audit_log" \in Chain[14].adds
  /\ "sessions.expires_at" \in Chain[15].adds
  BY Additions DEF AuthTables

-----------------------------------------------------------------------------
(* The invariants of the start.                                             *)

\* The start as a system of its own: its steps, and the requests and ticks,
\* which only spend.
Spending ==
  /\ \E what \in Spendings : Spend(what)
  /\ UNCHANGED <<revision, schema, phase, release, database, position, cuts, forgotten, seeded>>

StartNext ==
  \/ Boot
  \/ Stop
  \/ Deploy
  \/ \E k \in 0 .. Newest : Back(k)
  \/ Seed
  \/ Raise
  \/ Spending

\* The schema is what the revisions so far have added; it is the newest one
\* whenever a process runs.
SchemaInv ==
  /\ schema = Added(1, revision)
  /\ phase # "down" => revision = Newest

\* What a table held is gone with it, and with the tables below it.
TablesHold ==
  /\ revision < 4 => \A c \in Channels : place[c] = Absent
  /\ revision < 5 => ~ingested
  /\ revision < 8 => items["registry"] = 0 /\ items["backlog"] = 0

\* What the catalogue of release r asks of the database.
FacilitiesIn(r) ==
  /\ Releases[r].facilities \subseteq facilities
  /\ Releases[r].facilities = {} => Releases[r].districts \subseteq districts
ChannelsIn(r) == \A c \in DOMAIN Releases[r].channels : place[c] # Absent
PermissionsIn(r) == Releases[r].permissions \subseteq granted

\* A channel that is placed has its facility and its node.
TreeInv == \A c \in Channels : Placed(c) => place[c] \in facilities /\ c \in nodes

\* Each phase of a start finds what the phases before it have done.
Progress ==
  /\ phase \notin {"down", "facilities"} => FacilitiesIn(release)
  /\ phase \notin {"down", "facilities", "channels"} => ChannelsIn(release)
  /\ phase \notin {"down", "facilities", "channels", "log"} => ingested
  /\ phase \in {"ods", "registry", "backlog", "serving"} => PermissionsIn(release)
  /\ phase \in {"registry", "backlog", "serving"} => mark["ods"] # NotRun
  /\ phase \in {"backlog", "serving"} => mark["registry"] # NotRun
  /\ phase = "serving" => mark["backlog"] # NotRun

\* A release that has served leaves everything it asked for.
SeededDone ==
  \A r \in seeded :
    /\ FacilitiesIn(r) /\ ChannelsIn(r) /\ PermissionsIn(r)
    /\ ingested
    /\ \A p \in Providers : mark[p] # NotRun

\* The ingestion has come past row i, in this start or in one that finished.
Past(i) == ingested \/ i <= position

\* Every row that was passed is there, and its channel; a row is there as
\* often again as an ingestion was cut off, at most.
LogInv ==
  /\ position > 0 => phase = "log" /\ ~ingested
  /\ \A i \in Rows : Past(i) => copies[i] >= 1 /\ place[Log[i].channel] # Absent
  /\ \A i \in Rows : copies[i] <= cuts + (IF Past(i) THEN 1 ELSE 0)

\* A mark counts the rows of its provider; there are none without a mark.
MarksInv ==
  \A p \in Providers \ forgotten :
    mark[p] = items[p] \/ (mark[p] = NotRun /\ items[p] = 0)

StartInv ==
  /\ StartupTypeOK
  /\ SchemaInv
  /\ TablesHold
  /\ TreeInv
  /\ Progress
  /\ SeededDone
  /\ LogInv
  /\ MarksInv

-----------------------------------------------------------------------------
(* The invariants of the requests.                                          *)

Kinds == {"login", "write", "logout"}
Named == Users \cup {Nobody}

\* A request in flight, a row of sessions, a row of audit_log.
Request ==
  [stage : Stages \ {"idle"}, kind : Kinds, token : Nat, who : Named, named : Named,
   begun : Nat, late : BOOLEAN]
Session == [user : Users, created : Nat, expires : Nat, revoked : BOOLEAN]
Entry == [kind : Kinds, token : Nat, who : Named, actor : Named]

RequestsTyped ==
  /\ now \in Nat
  /\ sessions \in Seq(Session)
  /\ entries \subseteq Entry
  /\ call \in [Clients -> Request \cup {Idle}]
  /\ ended \subseteq Tokens

\* What is known of a request in flight: the actor in hand, and of its session,
\* if it came with one, whether it was alive when the request began.
InHand(c) ==
  /\ call[c].kind = "login" => call[c].who \in Users /\ call[c].named = call[c].who
  /\ call[c].kind = "logout" => call[c].named = call[c].who
  /\ call[c].kind = "write" => call[c].named = Nobody
  /\ call[c].kind # "login" =>
       /\ call[c].token \in Tokens
       /\ call[c].who = Nobody => ~Alive(call[c].token)
       /\ call[c].who # Nobody =>
            /\ call[c].who = sessions[call[c].token].user
            /\ ~call[c].late
            /\ call[c].begun < sessions[call[c].token].created + Ttl

\* Requests run while the service serves, so no migration comes in between.
CallsInHand == \A c \in Clients : call[c] # Idle => phase = "serving" /\ InHand(c)

\* Migrations give a session the life it was issued with; a logout is final.
SessionsLast ==
  /\ \A t \in Tokens : sessions[t].expires = sessions[t].created + Ttl
  /\ \A t \in ended : sessions[t].revoked

\* The journal never outlives the sessions it speaks of.
EntriesTrue ==
  /\ \A e \in entries : e.kind = "write" => e.token \in Tokens
  /\ revision < 14 => entries = {}
  /\ ActorTrue

RequestInv ==
  /\ RequestsTyped
  /\ SessionsLast
  /\ CallsInHand
  /\ EntriesTrue

-----------------------------------------------------------------------------
(* The steps of the start.                                                  *)

LEMMA PhaseNames ==
  ASSUME NEW p
  PROVE  (\E i \in DOMAIN Phases : p = Phases[i]) <=>
         p \in {"facilities", "channels", "log", "users", "ods", "registry", "backlog", "serving"}
  BY DEF Phases

LEMMA RowsAre == Rows = 1 .. Len(Log) /\ Len(Log) \in Nat
  BY StartupAssumption DEF Rows

LEMMA ElementOf ==
  ASSUME NEW S, NEW s \in Seq(S), NEW i \in 1 .. Len(s)
  PROVE  s[i] \in S
  OBVIOUS

LEMMA LogChannels == \A i \in Rows : Log[i].channel \in Channels
<1>1. ASSUME NEW i \in Rows PROVE Log[i] \in [channel : Channels, alarm : BOOLEAN]
  <2>1. i \in 1 .. Len(Log)  BY RowsAre
  <2>2. Log \in Seq([channel : Channels, alarm : BOOLEAN])  BY StartupAssumption
  <2>3. QED  BY <2>1, <2>2, ElementOf, Zenon
<1>2. QED  BY <1>1

LEMMA SpendTyped ==
  ASSUME left \in [Spendings -> Nat], NEW what \in Spendings, Spend(what)
  PROVE  left' \in [Spendings -> Nat]
  BY DEF Spend

\* Every part of the invariant but the type of left leaves left alone.
LEMMA InvWithoutLeft ==
  ASSUME StartInv, left' \in [Spendings -> Nat],
         UNCHANGED <<revision, schema, phase, release, database, position, cuts, forgotten, seeded>>
  PROVE  StartInv'
<1> USE DEF StartInv, database
<1>1. StartupTypeOK'  BY DEF StartupTypeOK
<1>2. SchemaInv'  BY DEF SchemaInv, Added
<1>3. TablesHold'  BY DEF TablesHold
<1>4. Progress'  BY DEF Progress, FacilitiesIn, ChannelsIn, PermissionsIn
<1>5. SeededDone'  BY DEF SeededDone, FacilitiesIn, ChannelsIn, PermissionsIn
<1>6. LogInv'  BY DEF LogInv, Past
<1>7. MarksInv'  BY DEF MarksInv
<1>8. TreeInv'  BY DEF TreeInv, Placed
<1>9. QED  BY <1>1, <1>2, <1>3, <1>4, <1>5, <1>6, <1>7, <1>8

LEMMA InitHolds == StartupInit => StartInv
<1> SUFFICES ASSUME StartupInit PROVE StartInv
  OBVIOUS
<1> USE StartupAssumption DEF StartupInit, SchemaInit
<1>1. StartupTypeOK
  <2>1. revision \in 0 .. Newest /\ schema \subseteq Metadata  BY ChainLength
  <2>2. position \in 0 .. Len(Log) /\ copies \in [Rows -> Nat]  BY RowsAre
  <2>3. mark \in [Providers -> Nat \cup {NotRun}] /\ items \in [Providers -> Nat]  OBVIOUS
  <2>4. left \in [Spendings -> Nat]  OBVIOUS
  <2>5. place \in [Channels -> Facilities \cup {Absent, Orphan}]  OBVIOUS
  <2>6. QED  BY <2>1, <2>2, <2>3, <2>4, <2>5 DEF StartupTypeOK
<1>2. SchemaInv  BY DEF SchemaInv, Added
<1>3. TablesHold  BY DEF TablesHold, Providers
<1>4. Progress  BY DEF Progress
<1>5. SeededDone  BY DEF SeededDone
<1>6. LogInv  BY DEF LogInv, Past, Rows
<1>7. MarksInv  BY DEF MarksInv
<1>8. TreeInv  BY DEF TreeInv, Placed
<1>9. QED  BY <1>1, <1>2, <1>3, <1>4, <1>5, <1>6, <1>7, <1>8 DEF StartInv

\* The migrations bring the schema to the newest revision.
LEMMA BootKeeps == ASSUME StartInv, Boot PROVE StartInv'
<1> USE DEF StartInv
<1>1. left' \in [Spendings -> Nat]
  BY SpendTyped DEF StartupTypeOK, Boot, Spendings
<1>2. schema' = Added(1, Newest) /\ revision' = Newest
  <2>1. schema = Added(1, revision) /\ revision \in 0 .. Newest  BY DEF SchemaInv, StartupTypeOK
  <2>2. Added(1, revision) \cup Added(revision + 1, Newest) = Added(1, Newest)
    BY <2>1, ChainLength DEF Added
  <2>3. QED  BY <2>1, <2>2 DEF Boot, Upgrade
<1>3. phase' = "facilities" /\ UNCHANGED <<release, database, position, cuts, forgotten, seeded>>
  BY DEF Boot
<1> USE DEF database
<1>4. StartupTypeOK'
  <2>1. revision' \in 0 .. Newest /\ schema' \subseteq Metadata
    BY <1>2, ChainLength, ChainLeadsToModels
  <2>2. \E i \in DOMAIN Phases : phase' = Phases[i]  BY <1>3, PhaseNames
  <2>3. QED  BY <1>1, <1>3, <2>1, <2>2 DEF StartupTypeOK
<1>5. SchemaInv'  BY <1>2 DEF SchemaInv, Added
<1>6. TablesHold'  BY <1>2, ChainLength DEF TablesHold
<1>7. Progress'  BY <1>3 DEF Progress
<1>8. SeededDone'  BY <1>3 DEF SeededDone, FacilitiesIn, ChannelsIn, PermissionsIn
<1>9. LogInv'  BY <1>3 DEF LogInv, Past, Boot
<1>10. MarksInv'  BY <1>3 DEF MarksInv
<1>11. TreeInv'  BY <1>3 DEF TreeInv, Placed
<1>12. QED  BY <1>4, <1>5, <1>6, <1>7, <1>8, <1>9, <1>10, <1>11

\* A process that ends leaves what was committed; an ingestion is cut off.
LEMMA EndsKeeps ==
  ASSUME StartInv, Ends, UNCHANGED left
  PROVE  StartInv'
<1> USE DEF StartInv, Ends, database
<1>1. StartupTypeOK'  BY DEF StartupTypeOK
<1>2. SchemaInv'  BY DEF SchemaInv, Added
<1>3. TablesHold'  BY DEF TablesHold
<1>4. Progress'  BY DEF Progress
<1>5. SeededDone'  BY DEF SeededDone, FacilitiesIn, ChannelsIn, PermissionsIn
<1>6. LogInv'
  <2>1. position \in 0 .. Len(Log) /\ cuts \in Nat /\ copies \in [Rows -> Nat]
    BY DEF StartupTypeOK
  <2>2. Rows = 1 .. Len(Log)
    BY RowsAre
  <2>3. ASSUME NEW i \in Rows
        PROVE  /\ Past(i)' => copies[i] >= 1 /\ place[Log[i].channel] # Absent
               /\ copies[i] <= cuts' + (IF Past(i)' THEN 1 ELSE 0)
    <3>1. CASE ingested
      BY <2>1, <2>2, <3>1 DEF LogInv, Past
    <3>2. CASE ~ingested
      BY <2>1, <2>2, <3>2 DEF LogInv, Past
    <3>3. QED  BY <3>1, <3>2
  <2>4. QED  BY <2>1, <2>3 DEF LogInv, Past
<1>7. MarksInv'  BY DEF MarksInv
<1>8. TreeInv'  BY DEF TreeInv, Placed
<1>9. QED  BY <1>1, <1>2, <1>3, <1>4, <1>5, <1>6, <1>7, <1>8

LEMMA DeployKeeps == ASSUME StartInv, Deploy PROVE StartInv'
<1> USE DEF StartInv, Deploy, database
<1>1. left' \in [Spendings -> Nat]
  BY SpendTyped DEF StartupTypeOK, Spendings
<1>2. StartupTypeOK'  BY <1>1 DEF StartupTypeOK
<1>3. SchemaInv'  BY DEF SchemaInv, Added
<1>4. TablesHold'  BY DEF TablesHold
<1>5. Progress'  BY DEF Progress
<1>6. SeededDone'  BY DEF SeededDone, FacilitiesIn, ChannelsIn, PermissionsIn
<1>7. LogInv'  BY DEF LogInv, Past
<1>8. MarksInv'  BY DEF MarksInv
<1>9. TreeInv'  BY DEF TreeInv, Placed
<1>10. QED  BY <1>2, <1>3, <1>4, <1>5, <1>6, <1>7, <1>8, <1>9

\* A downgrade takes rows only together with what speaks of them.
LEMMA BackKeeps == ASSUME StartInv, NEW k \in 0 .. Newest, Back(k) PROVE StartInv'
<1>1. left' \in [Spendings -> Nat]
  BY SpendTyped DEF StartInv, StartupTypeOK, Back, Spendings
<1>2. revision \in 0 .. Newest /\ k < revision /\ revision' = k /\ schema' = schema \ Dropped(k)
  BY DEF StartInv, StartupTypeOK, Back, Downgrade
<1>3. phase = "down" /\ UNCHANGED <<phase, release, position>> /\ seeded' = {}
  BY DEF Back
<1>4. \A b \in 1 .. Newest : \A x \in Chain[b].adds : x \in Dropped(k) <=> k < b /\ b <= revision
  BY <1>2, DroppedBelow
<1>5. SchemaInv'
  <2>1. ASSUME NEW x PROVE x \in Added(1, revision) \ Dropped(k) <=> x \in Added(1, k)
    BY <1>2, <1>4, ChainLength DEF Added
  <2>2. schema' = Added(1, k)
    BY <1>2, <2>1 DEF StartInv, SchemaInv
  <2>3. QED  BY <1>2, <1>3, <2>2 DEF SchemaInv, Added
<1>6. StartupTypeOK'
  <2>1. schema' \subseteq Metadata  BY <1>2 DEF StartInv, StartupTypeOK
  <2>2. place' \in [Channels -> Facilities \cup {Absent, Orphan}]
    BY DEF StartInv, StartupTypeOK, Back
  <2>3. copies' \in [Rows -> Nat] /\ cuts' \in Nat  BY DEF StartInv, StartupTypeOK, Back
  <2>4. mark' \in [Providers -> Nat \cup {NotRun}]  BY DEF StartInv, StartupTypeOK, Back
  <2>5. items' \in [Providers -> Nat]  BY DEF StartInv, StartupTypeOK, Back
  <2>6. forgotten' \subseteq Providers  BY DEF StartInv, StartupTypeOK, Back
  <2>7. granted' \subseteq UNION {Releases[r].permissions : r \in Release}
    BY DEF StartInv, StartupTypeOK, Back
  <2>8. /\ ingested' \in BOOLEAN /\ facilities' \subseteq Facilities /\ nodes' \subseteq Channels
        /\ districts' \subseteq UNION {Releases[r].districts : r \in Release}
    BY DEF StartInv, StartupTypeOK, Back
  <2>9. QED
    BY <1>1, <1>2, <1>3, <2>1, <2>2, <2>3, <2>4, <2>5, <2>6, <2>7, <2>8 DEF StartInv, StartupTypeOK
<1>7. TablesHold'
  <2>1. k < 5 => ~ingested'
    <3>1. revision >= 5 /\ k < 5 => "etl_ingested_sources" \in Dropped(k)
      BY <1>2, <1>4, TableBorn, ChainLength
    <3>2. ingested' => ingested /\ "etl_ingested_sources" \notin Dropped(k)  BY DEF Back
    <3>3. revision < 5 => ~ingested  BY DEF StartInv, TablesHold
    <3>4. revision \in Nat /\ k \in Nat  BY <1>2, ChainLength
    <3>5. QED  BY <3>1, <3>2, <3>3, <3>4
  <2>2. k < 8 => items'["registry"] = 0 /\ items'["backlog"] = 0
    <3>1. revision >= 8 /\ k < 8 => TableOf["registry"] \in Dropped(k) /\ TableOf["backlog"] \in Dropped(k)
      BY <1>2, <1>4, TableBorn, ChainLength DEF TableOf, Providers
    <3>2. QED  BY <1>2, <3>1, ChainLength DEF StartInv, TablesHold, Back, Providers
  <2>3. k < 4 => \A c \in Channels : place'[c] = Absent
    <3>1. revision >= 4 /\ k < 4 => "sensor_channels" \in Dropped(k)
      BY <1>2, <1>4, TableBorn, ChainLength
    <3>2. revision < 4 => \A c \in Channels : place[c] = Absent  BY DEF StartInv, TablesHold
    <3>3. revision \in Nat /\ k \in Nat  BY <1>2, ChainLength
    <3>4. QED  BY <3>1, <3>2, <3>3 DEF Back
  <2>4. QED  BY <1>2, <2>1, <2>2, <2>3 DEF TablesHold
<1>8. Progress'  BY <1>3 DEF Progress
<1>9. SeededDone'  BY <1>3 DEF SeededDone
<1>10. LogInv'
  <2>1. position = 0  BY <1>3 DEF StartInv, StartupTypeOK, LogInv
  <2>2. "sensor_readings" \in Dropped(k) <=> "etl_ingested_sources" \in Dropped(k)
    BY <1>4, TableBorn, ChainLength
  <2>3. ingested' => ingested /\ UNCHANGED <<copies, place, cuts>>
    <3>1. ingested /\ "sensor_channels" \in Dropped(k) => "etl_ingested_sources" \in Dropped(k)
      BY <1>2, <1>4, TableBorn, ChainLength DEF StartInv, TablesHold
    <3>2. QED  BY <2>2, <3>1 DEF Back
  <2>4. ASSUME NEW i \in Rows
        PROVE  /\ Past(i)' => copies'[i] >= 1 /\ place'[Log[i].channel] # Absent
               /\ copies'[i] <= cuts' + (IF Past(i)' THEN 1 ELSE 0)
    <3>1. CASE ingested'
      BY <2>3, <3>1 DEF StartInv, LogInv, Past
    <3>2. CASE ~ingested'
      <4>1. ~Past(i)'  BY <1>3, <2>1, <3>2, RowsAre DEF Past
      <4>2. CASE "sensor_readings" \in Dropped(k)
        BY <4>1, <4>2 DEF Back
      <4>3. CASE "sensor_readings" \notin Dropped(k)
        <5>1. ~ingested  BY <2>2, <3>2, <4>3 DEF Back
        <5>2. ~Past(i)  BY <2>1, <5>1, RowsAre DEF Past
        <5>3. copies[i] <= cuts /\ UNCHANGED <<copies, cuts>>
          BY <4>3, <5>2 DEF StartInv, StartupTypeOK, LogInv, Back
        <5>4. copies[i] \in Nat /\ cuts \in Nat  BY DEF StartInv, StartupTypeOK
        <5>5. copies'[i] <= cuts' + 0  BY <5>3, <5>4
        <5>6. QED  BY <4>1, <5>5
      <4>4. QED  BY <4>2, <4>3
    <3>3. QED  BY <3>1, <3>2 DEF StartInv, StartupTypeOK
  <2>5. QED  BY <1>3, <2>1, <2>4 DEF LogInv, Past
<1>11. MarksInv'
  <2>1. "synthetic_provider_runs" \in Dropped(k) <=> TableOf["ods"] \in Dropped(k)
    BY <1>4, TableBorn, ChainLength DEF TableOf, Providers
  <2>2. TableOf["registry"] \in Dropped(k) <=> k < 8 /\ 8 <= revision
    BY <1>4, TableBorn, ChainLength DEF TableOf, Providers
  <2>3. TableOf["backlog"] \in Dropped(k) <=> k < 8 /\ 8 <= revision
    BY <1>4, TableBorn, ChainLength DEF TableOf, Providers
  <2>4. ASSUME NEW p \in Providers, p \notin forgotten'
        PROVE  mark'[p] = items'[p] \/ (mark'[p] = NotRun /\ items'[p] = 0)
    <3>1. items'[p] = IF TableOf[p] \in Dropped(k) THEN 0 ELSE items[p]
      BY DEF Back
    <3>2. CASE "synthetic_provider_runs" \in Dropped(k)
      <4>1. k < 8  BY <1>2, <1>4, <3>2, TableBorn, ChainLength
      <4>2. items'[p] = 0
        BY <1>2, <1>7, <2>1, <3>1, <3>2, <4>1 DEF TablesHold, Providers
      <4>3. mark'[p] = NotRun  BY <3>2 DEF Back
      <4>4. QED  BY <4>2, <4>3
    <3>3. CASE "synthetic_provider_runs" \notin Dropped(k)
      <4>1. p \notin forgotten /\ (TableOf[p] \in Dropped(k) => ~(mark[p] > 0)) /\ mark' = mark
        BY <2>4, <3>3 DEF Back
      <4>2. mark[p] \in Nat \cup {NotRun}  BY DEF StartInv, StartupTypeOK
      <4>3. mark[p] = items[p] \/ (mark[p] = NotRun /\ items[p] = 0)
        BY <4>1 DEF StartInv, MarksInv
      <4>4. QED  BY <3>1, <4>1, <4>2, <4>3
    <3>4. QED  BY <3>2, <3>3
  <2>5. QED  BY <2>4 DEF MarksInv
<1>12. TreeInv'
  <2>1. "facilities" \in Dropped(k) <=> "hierarchy_nodes" \in Dropped(k)
    BY <1>4, TableBorn, ChainLength
  <2>2. "facilities" \in Dropped(k) /\ revision >= 4 => "sensor_channels" \in Dropped(k)
    BY <1>2, <1>4, TableBorn, ChainLength
  <2>3. Absent \notin Facilities  BY StartupAssumption
  <2>4. ASSUME NEW c \in Channels, Placed(c)'
        PROVE  place'[c] \in facilities' /\ c \in nodes'
    <3>1. "sensor_channels" \notin Dropped(k) /\ place' = place
      BY <2>3, <2>4 DEF Back, Placed
    <3>2. revision >= 4
      BY <1>2, <2>3, <2>4, <3>1, ChainLength DEF StartInv, TablesHold, Placed
    <3>3. UNCHANGED <<facilities, nodes>>  BY <2>1, <2>2, <3>1, <3>2 DEF Back
    <3>4. QED  BY <2>4, <3>1, <3>3 DEF StartInv, TreeInv, Placed
  <2>5. QED  BY <2>4 DEF TreeInv
<1>13. QED  BY <1>5, <1>6, <1>7, <1>8, <1>9, <1>10, <1>11, <1>12 DEF StartInv

\* Entering the next phase leaves the schema and the history as they are.
LEMMA EnterKeeps ==
  ASSUME StartInv, NEW next,
         next \in {"channels", "log", "users", "ods", "registry", "backlog", "serving"},
         phase # "down", Enter(next)
  PROVE  /\ \E i \in DOMAIN Phases : phase' = Phases[i]
         /\ SchemaInv'
         /\ seeded' \subseteq Release
<1>1. \E i \in DOMAIN Phases : phase' = Phases[i]  BY PhaseNames DEF Enter
<1>2. SchemaInv'  BY DEF StartInv, SchemaInv, Added, Enter
<1>3. seeded' \subseteq Release  BY DEF StartInv, StartupTypeOK, Enter
<1>4. QED  BY <1>1, <1>2, <1>3

LEMMA SeedFacilitiesKeeps == ASSUME StartInv, SeedFacilities PROVE StartInv'
<1>1. phase = "facilities" /\ Enter("channels")
  BY DEF SeedFacilities
<1>2. UNCHANGED <<revision, schema, release, place, nodes, copies, ingested, granted, mark, items,
                  position, cuts, forgotten, seeded, left>> /\ phase' = "channels"
  BY DEF SeedFacilities, Enter
<1>3. /\ Current.facilities \subseteq Facilities
      /\ Current.districts \subseteq UNION {Releases[r].districts : r \in Release}
  BY StartupAssumption DEF StartInv, StartupTypeOK, Current
<1>4. /\ facilities \subseteq facilities' /\ facilities' \subseteq facilities \cup Current.facilities
      /\ districts \subseteq districts' /\ districts' \subseteq districts \cup Current.districts
      /\ Current.facilities \subseteq facilities'
      /\ Current.facilities = {} => Current.districts \subseteq districts'
  BY DEF SeedFacilities, CatalogueThere
<1>5. StartupTypeOK'
  <2>1. /\ facilities' \subseteq Facilities
        /\ districts' \subseteq UNION {Releases[r].districts : r \in Release}
    BY <1>3, <1>4 DEF StartInv, StartupTypeOK
  <2>2. QED  BY <1>1, <1>2, <2>1, EnterKeeps DEF StartInv, StartupTypeOK
<1>6. SchemaInv'  BY <1>1, EnterKeeps
<1>7. TablesHold'  BY <1>2 DEF StartInv, TablesHold
<1>8. Progress'  BY <1>2, <1>4 DEF Progress, FacilitiesIn, Current
<1>9. SeededDone'
  <2>1. ASSUME NEW r \in seeded PROVE FacilitiesIn(r)'
    BY <1>4 DEF StartInv, SeededDone, FacilitiesIn
  <2>2. QED  BY <1>2, <2>1 DEF StartInv, SeededDone, ChannelsIn, PermissionsIn
<1>10. LogInv'  BY <1>1, <1>2 DEF StartInv, StartupTypeOK, LogInv, Past
<1>11. MarksInv'  BY <1>2 DEF StartInv, MarksInv
<1>12. TreeInv'  BY <1>2, <1>4 DEF StartInv, TreeInv, Placed
<1>13. QED  BY <1>5, <1>6, <1>7, <1>8, <1>9, <1>10, <1>11, <1>12 DEF StartInv

\* A channel that has a row keeps it.
LEMMA SeedChannelsKeeps == ASSUME StartInv, SeedChannels PROVE StartInv'
<1>1. phase = "channels" /\ Enter("log")
  BY DEF SeedChannels
<1>2. UNCHANGED <<revision, schema, release, facilities, districts, copies, ingested, granted, mark,
                  items, position, cuts, forgotten, seeded, left>> /\ phase' = "log"
  BY DEF SeedChannels, Enter
<1>3. place' \in [Channels -> Facilities \cup {Absent, Orphan}] /\ nodes' \subseteq Channels
  <2>1. NewNodes \subseteq Channels
    BY StartupAssumption DEF StartInv, StartupTypeOK, NewNodes, NewChannels, Current
  <2>2. \A c \in NewNodes : Current.channels[c] \in Facilities
    BY DEF StartInv, StartupTypeOK, NewNodes
  <2>3. QED  BY <2>1, <2>2 DEF StartInv, StartupTypeOK, SeedChannels
<1>4. \A c \in Channels : place[c] # Absent => place'[c] # Absent
  BY DEF SeedChannels, NewChannels
<1>5. \A c \in DOMAIN Current.channels : c \in Channels /\ place'[c] # Absent
  BY StartupAssumption
  DEF StartInv, StartupTypeOK, SeedChannels, NewChannels, NewNodes, Current, Orphan, Absent
<1>6. StartupTypeOK'  BY <1>1, <1>2, <1>3, EnterKeeps DEF StartInv, StartupTypeOK
<1>7. SchemaInv'  BY <1>1, EnterKeeps
<1>8. TablesHold'  BY <1>1, <1>2, ChainLength DEF StartInv, TablesHold, SchemaInv
<1>9. Progress'
  BY <1>1, <1>2, <1>5 DEF StartInv, Progress, FacilitiesIn, ChannelsIn, Current
<1>10. SeededDone'
  <2>1. ASSUME NEW r \in seeded PROVE ChannelsIn(r)'
    <3>1. r \in Release /\ ChannelsIn(r)  BY DEF StartInv, StartupTypeOK, SeededDone
    <3>2. DOMAIN Releases[r].channels \subseteq Channels  BY <3>1, StartupAssumption
    <3>3. QED  BY <1>4, <3>1, <3>2 DEF ChannelsIn
  <2>2. QED  BY <1>2, <2>1 DEF StartInv, SeededDone, FacilitiesIn, PermissionsIn
<1>11. LogInv'
  BY <1>1, <1>2, <1>4, LogChannels DEF StartInv, StartupTypeOK, LogInv, Past
<1>12. MarksInv'  BY <1>2 DEF StartInv, MarksInv
<1>13. TreeInv'
  <2>1. ASSUME NEW c \in Channels, Placed(c)'
        PROVE  place'[c] \in facilities' /\ c \in nodes'
    <3>1. CASE c \in NewNodes
      BY <1>2, <3>1 DEF SeedChannels, NewNodes
    <3>2. CASE c \notin NewNodes
      <4>1. Orphan \notin Facilities  BY StartupAssumption
      <4>2. place'[c] = place[c]  BY <2>1, <3>2, <4>1 DEF SeedChannels, Placed
      <4>3. QED  BY <1>2, <2>1, <4>2 DEF StartInv, TreeInv, Placed, SeedChannels
    <3>3. QED  BY <3>1, <3>2
  <2>2. QED  BY <2>1 DEF TreeInv
<1>14. QED  BY <1>6, <1>7, <1>8, <1>9, <1>10, <1>11, <1>12, <1>13 DEF StartInv

LEMMA IngestDoneKeeps == ASSUME StartInv, IngestDone PROVE StartInv'
<1> USE DEF database
<1>1. phase = "log" /\ ingested /\ Enter("users")
  BY DEF IngestDone
<1>2. UNCHANGED <<revision, schema, release, facilities, districts, place, nodes, copies, ingested,
                  granted, mark, items, position, cuts, forgotten, seeded, left>> /\ phase' = "users"
  BY DEF IngestDone, Enter
<1>3. position = 0  BY <1>1 DEF StartInv, StartupTypeOK, LogInv
<1>4. StartupTypeOK'  BY <1>1, <1>2, EnterKeeps DEF StartInv, StartupTypeOK
<1>5. SchemaInv'  BY <1>1, EnterKeeps
<1>6. TablesHold'  BY <1>2 DEF StartInv, TablesHold
<1>7. Progress'  BY <1>1, <1>2 DEF StartInv, Progress, FacilitiesIn, ChannelsIn
<1>8. SeededDone'  BY <1>2 DEF StartInv, SeededDone, FacilitiesIn, ChannelsIn, PermissionsIn
<1>9. LogInv'  BY <1>2, <1>3 DEF StartInv, LogInv, Past
<1>10. MarksInv'  BY <1>2 DEF StartInv, MarksInv
<1>11. TreeInv'  BY <1>2 DEF StartInv, TreeInv, Placed
<1>12. QED  BY <1>4, <1>5, <1>6, <1>7, <1>8, <1>9, <1>10, <1>11 DEF StartInv

\* The rows up to the next COMMIT are the ones from position on.
LEMMA NextRowsAre ==
  ASSUME position \in 0 .. Len(Log),
         NEW last, last = IF position + Batch <= Len(Log) THEN position + Batch ELSE Len(Log)
  PROVE  /\ last \in 0 .. Len(Log) /\ position <= last
         /\ NextRows = position + 1 .. last
         /\ position + Cardinality(NextRows) = last
<1>1. Batch \in Nat /\ Batch > 0  BY StartupAssumption
<1>2. last \in 0 .. Len(Log) /\ position <= last  BY <1>1, RowsAre
<1>3. NextRows = position + 1 .. last  BY <1>1, <1>2, RowsAre DEF NextRows
<1>4. Cardinality(position + 1 .. last) = last - position
  <2>1. position + 1 \in Int /\ last \in Int  BY <1>2
  <2>2. Cardinality(position + 1 .. last) =
          IF position + 1 > last THEN 0 ELSE last - (position + 1) + 1
    BY <2>1, FS_Interval
  <2>3. QED  BY <1>2, <2>2
<1>5. QED  BY <1>2, <1>3, <1>4

\* A committed batch is past: its rows are there once more, its channels known.
LEMMA IngestBatchKeeps == ASSUME StartInv, IngestBatch PROVE StartInv'
<1>1. phase = "log" /\ ~ingested
  BY DEF IngestBatch
<1>2. UNCHANGED <<revision, schema, phase, release, facilities, districts, nodes, ingested, granted,
                  mark, items, cuts, forgotten, seeded, left>>
  BY DEF IngestBatch
<1>3. position \in 0 .. Len(Log) /\ copies \in [Rows -> Nat] /\ cuts \in Nat
  BY DEF StartInv, StartupTypeOK
<1>4. PICK last : last = IF position + Batch <= Len(Log) THEN position + Batch ELSE Len(Log)
  OBVIOUS
<1>5. /\ last \in 0 .. Len(Log) /\ position <= last /\ position' = last
      /\ NextRows = position + 1 .. last
  BY <1>3, <1>4, NextRowsAre DEF IngestBatch
<1>6. /\ place' \in [Channels -> Facilities \cup {Absent, Orphan}]
      /\ copies' \in [Rows -> Nat]
      /\ \A i \in Rows : copies'[i] = copies[i] + (IF i \in NextRows THEN 1 ELSE 0)
  BY DEF StartInv, StartupTypeOK, IngestBatch
<1>7. \A c \in Channels : place[c] # Absent => place'[c] # Absent
  BY DEF IngestBatch
<1>8. \A i \in NextRows : Log[i].channel \in Channels /\ place'[Log[i].channel] # Absent
  <2>1. \A i \in NextRows : Log[i].channel \in Channels  BY LogChannels DEF NextRows
  <2>2. QED  BY <2>1 DEF IngestBatch, Orphan, Absent
<1>9. StartupTypeOK'  BY <1>2, <1>5, <1>6 DEF StartInv, StartupTypeOK
<1>10. SchemaInv'  BY <1>2 DEF StartInv, SchemaInv, Added
<1>11. TablesHold'  BY <1>1, <1>2, ChainLength DEF StartInv, TablesHold, SchemaInv
<1>12. ASSUME NEW r \in Release, ChannelsIn(r) PROVE ChannelsIn(r)'
  <2>1. DOMAIN Releases[r].channels \subseteq Channels  BY StartupAssumption
  <2>2. QED  BY <1>7, <1>12, <2>1 DEF ChannelsIn
<1>13. Progress'
  BY <1>1, <1>2, <1>12 DEF StartInv, StartupTypeOK, Progress, FacilitiesIn
<1>14. SeededDone'
  BY <1>2, <1>12 DEF StartInv, StartupTypeOK, SeededDone, FacilitiesIn, PermissionsIn
<1>15. LogInv'
  <2>1. ASSUME NEW i \in Rows
        PROVE  /\ Past(i)' => copies'[i] >= 1 /\ place'[Log[i].channel] # Absent
               /\ copies'[i] <= cuts' + (IF Past(i)' THEN 1 ELSE 0)
    <3>1. i \in Nat /\ i >= 1 /\ copies[i] \in Nat  BY <1>3, RowsAre
    <3>2. CASE i \in NextRows
      <4>1. copies'[i] = copies[i] + 1 /\ i <= position' /\ ~Past(i)
        BY <1>1, <1>3, <1>5, <1>6, <3>1, <3>2 DEF Past
      <4>2. copies[i] <= cuts  BY <1>3, <3>1, <4>1 DEF StartInv, LogInv
      <4>3. Past(i)' /\ place'[Log[i].channel] # Absent  BY <1>8, <3>2, <4>1 DEF Past
      <4>4. copies'[i] >= 1 /\ copies'[i] <= cuts' + 1  BY <1>2, <1>3, <3>1, <4>1, <4>2
      <4>5. QED  BY <4>3, <4>4
    <3>3. CASE i \notin NextRows
      <4>1. copies'[i] = copies[i]  BY <1>6, <3>1, <3>3
      <4>2. Past(i)' <=> Past(i)  BY <1>1, <1>2, <1>3, <1>5, <3>1, <3>3 DEF Past
      <4>3. Log[i].channel \in Channels  BY LogChannels
      <4>4. QED  BY <1>2, <1>7, <4>1, <4>2, <4>3 DEF StartInv, LogInv
    <3>4. QED  BY <3>2, <3>3
  <2>2. QED  BY <1>1, <1>2, <2>1 DEF LogInv, Past
<1>16. MarksInv'  BY <1>2 DEF StartInv, MarksInv
<1>17. TreeInv'
  <2>1. ASSUME NEW c \in Channels, Placed(c)' PROVE Placed(c) /\ place'[c] = place[c]
    <3>1. Orphan \notin Facilities  BY StartupAssumption
    <3>2. QED  BY <2>1, <3>1 DEF IngestBatch, Placed
  <2>2. QED  BY <1>2, <2>1 DEF StartInv, TreeInv
<1>18. QED  BY <1>9, <1>10, <1>11, <1>13, <1>14, <1>15, <1>16, <1>17 DEF StartInv

\* With no row left the ingestion has passed them all.
LEMMA IngestMarkKeeps == ASSUME StartInv, IngestMark PROVE StartInv'
<1>1. phase = "log" /\ ~ingested /\ ingested' = TRUE /\ position' = 0 /\ Enter("users")
  BY DEF IngestMark
<1>2. UNCHANGED <<revision, schema, release, facilities, districts, place, nodes, copies, granted,
                  mark, items, cuts, forgotten, seeded, left>> /\ phase' = "users"
  BY DEF IngestMark, Enter
<1>3. position = Len(Log)
  <2>1. position \in 0 .. Len(Log)  BY DEF StartInv, StartupTypeOK
  <2>2. PICK last : last = IF position + Batch <= Len(Log) THEN position + Batch ELSE Len(Log)
    OBVIOUS
  <2>3. last \in 0 .. Len(Log) /\ position <= last /\ NextRows = position + 1 .. last
    BY <2>1, <2>2, NextRowsAre
  <2>4. position = last  BY <2>1, <2>3 DEF IngestMark
  <2>5. Batch \in Nat /\ Batch > 0  BY StartupAssumption
  <2>6. QED  BY <2>1, <2>2, <2>4, <2>5
<1>4. \A i \in Rows : Past(i)  BY <1>3, RowsAre DEF Past
<1>5. StartupTypeOK'  BY <1>1, <1>2, EnterKeeps, RowsAre DEF StartInv, StartupTypeOK
<1>6. SchemaInv'  BY <1>1, EnterKeeps
<1>7. TablesHold'
  BY <1>1, <1>2, ChainLength DEF StartInv, TablesHold, SchemaInv
<1>8. Progress'  BY <1>1, <1>2 DEF StartInv, Progress, FacilitiesIn, ChannelsIn
<1>9. SeededDone'  BY <1>1, <1>2 DEF StartInv, SeededDone, FacilitiesIn, ChannelsIn, PermissionsIn
<1>10. LogInv'
  BY <1>1, <1>2, <1>4 DEF StartInv, LogInv, Past
<1>11. MarksInv'  BY <1>2 DEF StartInv, MarksInv
<1>12. TreeInv'  BY <1>2 DEF StartInv, TreeInv, Placed
<1>13. QED  BY <1>5, <1>6, <1>7, <1>8, <1>9, <1>10, <1>11, <1>12 DEF StartInv

LEMMA SeedUsersKeeps == ASSUME StartInv, SeedUsers PROVE StartInv'
<1>1. phase = "users" /\ Enter("ods") /\ granted' = granted \cup Current.permissions
  BY DEF SeedUsers, Grant
<1>2. UNCHANGED <<revision, schema, release, facilities, districts, place, nodes, copies, ingested,
                  mark, items, position, cuts, forgotten, seeded, left>> /\ phase' = "ods"
  BY DEF SeedUsers, Enter
<1>3. Current.permissions \subseteq UNION {Releases[r].permissions : r \in Release}
  BY DEF StartInv, StartupTypeOK, Current
<1>4. StartupTypeOK'
  <2>1. granted' \subseteq UNION {Releases[r].permissions : r \in Release}
    BY <1>1, <1>3 DEF StartInv, StartupTypeOK
  <2>2. QED  BY <1>1, <1>2, <2>1, EnterKeeps DEF StartInv, StartupTypeOK
<1>5. SchemaInv'  BY <1>1, EnterKeeps
<1>6. TablesHold'  BY <1>2 DEF StartInv, TablesHold
<1>7. Progress'
  BY <1>1, <1>2 DEF StartInv, Progress, FacilitiesIn, ChannelsIn, PermissionsIn, Current
<1>8. SeededDone'  BY <1>1, <1>2 DEF StartInv, SeededDone, FacilitiesIn, ChannelsIn, PermissionsIn
<1>9. LogInv'  BY <1>1, <1>2 DEF StartInv, StartupTypeOK, LogInv, Past
<1>10. MarksInv'  BY <1>2 DEF StartInv, MarksInv
<1>11. TreeInv'  BY <1>2 DEF StartInv, TreeInv, Placed
<1>12. QED  BY <1>4, <1>5, <1>6, <1>7, <1>8, <1>9, <1>10, <1>11 DEF StartInv

\* How many alarms there are is a number, and so is what is made of them.
LEMMA AlarmsNatural == copies \in [Rows -> Nat] => Entries(Alarms) \in Nat
<1> SUFFICES ASSUME copies \in [Rows -> Nat] PROVE Entries(Alarms) \in Nat
  OBVIOUS
<1> DEFINE S == {i \in Rows : Log[i].alarm /\ Placed(Log[i].channel)}
           T == {{i} \X (1 .. copies[i]) : i \in S}
           f == [i \in S |-> {i} \X (1 .. copies[i])]
<1>1. IsFiniteSet(S)
  <2>1. 1 \in Int /\ Len(Log) \in Int  BY RowsAre
  <2>2. IsFiniteSet(1 .. Len(Log))  BY <2>1, FS_Interval, Zenon
  <2>3. S \in SUBSET (1 .. Len(Log))  BY RowsAre
  <2>4. QED  BY <2>2, <2>3, FS_Subset
<1>2. f \in Surjection(S, T)  BY DEF Surjection
<1>3. IsFiniteSet(T)  BY <1>1, <1>2, FS_Surjection, Zenon
<1>4. ASSUME NEW x \in T PROVE IsFiniteSet(x)
  <2>1. PICK i \in S : x = {i} \X (1 .. copies[i])  OBVIOUS
  <2>2. 1 \in Int /\ copies[i] \in Int  OBVIOUS
  <2>3. IsFiniteSet(1 .. copies[i])  BY <2>2, FS_Interval, Zenon
  <2>4. IsFiniteSet({i})  BY FS_Singleton
  <2>5. QED  BY <2>1, <2>3, <2>4, FS_Product
<1>5. IsFiniteSet(UNION T)  BY <1>3, <1>4, FS_UNION
<1>6. Alarms \in Nat
  <2>1. Alarms = Cardinality(UNION T)  BY DEF Alarms
  <2>2. QED  BY <1>5, <2>1, FS_CardinalityType
<1> HIDE DEF S, T, f
<1>7. PerEntry \in Nat \ {0} /\ MinEntries \in Nat /\ MaxEntries \in Nat
  BY StartupAssumption
<1>8. Alarms \div PerEntry \in Nat  BY <1>6, <1>7
<1>9. QED  BY <1>6, <1>7, <1>8 DEF Entries

LEMMA GroupsNatural == Groups \in Nat
<1>1. IsFiniteSet({c \in Channels : Placed(c)})
  <2>1. IsFiniteSet(Channels)  BY StartupAssumption
  <2>2. {c \in Channels : Placed(c)} \in SUBSET Channels  OBVIOUS
  <2>3. QED  BY <2>1, <2>2, FS_Subset
<1>2. QED  BY <1>1, FS_CardinalityType DEF Groups

\* A provider runs once, whatever it finds.
LEMMA GenerateKeeps ==
  ASSUME StartInv, NEW p \in Providers, NEW count \in Nat,
         NEW next \in {"registry", "backlog", "serving"}, Generate(p, count, next)
  PROVE  /\ StartupTypeOK' /\ SchemaInv' /\ TablesHold' /\ TreeInv' /\ LogInv' /\ MarksInv'
         /\ phase = p /\ phase' = next
         /\ seeded' = IF next = "serving" THEN seeded \cup {release} ELSE seeded
         /\ UNCHANGED <<release, facilities, districts, place, copies, ingested, granted, position>>
         /\ mark'[p] # NotRun /\ \A q \in Providers : mark[q] # NotRun => mark'[q] # NotRun
<1>1. phase = p /\ Enter(next) /\ phase' = next
  BY DEF Generate, Enter
<1>2. UNCHANGED <<revision, schema, release, facilities, districts, place, nodes, copies, ingested,
                  granted, position, cuts, forgotten, left>>
  BY DEF Generate, Enter
<1>3. phase # "down" /\ phase # "log"  BY <1>1 DEF Providers
<1>4. /\ mark' \in [Providers -> Nat \cup {NotRun}] /\ items' \in [Providers -> Nat]
      /\ mark'[p] # NotRun
      /\ \A q \in Providers : mark[q] # NotRun => mark'[q] # NotRun
      /\ \A q \in Providers : \/ mark'[q] = mark[q] /\ items'[q] = items[q]
                              \/ mark'[q] = items'[q]
  <2>1. mark \in [Providers -> Nat \cup {NotRun}] /\ items \in [Providers -> Nat]
    BY DEF StartInv, StartupTypeOK
  <2>2. CASE mark[p] # NotRun
    BY <2>1, <2>2 DEF Generate
  <2>3. CASE mark[p] = NotRun
    <3>1. mark' = [mark EXCEPT ![p] = count] /\ items' = [items EXCEPT ![p] = count]
      BY <2>3 DEF Generate
    <3>2. QED  BY <2>1, <3>1 DEF NotRun
  <2>4. QED  BY <2>2, <2>3
<1>5. StartupTypeOK'  BY <1>1, <1>2, <1>3, <1>4, EnterKeeps DEF StartInv, StartupTypeOK
<1>6. SchemaInv'  BY <1>1, <1>3, EnterKeeps
<1>7. TablesHold'
  <2>1. revision' = Newest  BY <1>2, <1>3 DEF StartInv, SchemaInv
  <2>2. QED  BY <2>1, ChainLength DEF TablesHold
<1>8. LogInv'  BY <1>1, <1>2, <1>3 DEF StartInv, StartupTypeOK, LogInv, Past
<1>9. MarksInv'  BY <1>2, <1>4 DEF StartInv, MarksInv
<1>10. TreeInv'  BY <1>2 DEF StartInv, TreeInv, Placed
<1>11. QED  BY <1>1, <1>2, <1>4, <1>5, <1>6, <1>8, <1>7, <1>9, <1>10 DEF Enter

LEMMA ProvidersKeep ==
  ASSUME StartInv, GenerateOdsJournal \/ GenerateRegistry \/ GenerateBacklog
  PROVE  StartInv'
<1>1. Entries(Alarms) \in Nat /\ Groups \in Nat
  BY AlarmsNatural, GroupsNatural DEF StartInv, StartupTypeOK
<1>2. CASE GenerateOdsJournal
  <2>1. Generate("ods", Entries(Alarms), "registry") /\ "ods" \in Providers
    BY <1>2 DEF GenerateOdsJournal, Providers
  <2>2. Progress'
    BY <1>1, <2>1, GenerateKeeps
    DEF StartInv, Progress, FacilitiesIn, ChannelsIn, PermissionsIn
  <2>3. SeededDone'
    BY <1>1, <2>1, GenerateKeeps
    DEF StartInv, SeededDone, FacilitiesIn, ChannelsIn, PermissionsIn
  <2>4. QED  BY <1>1, <2>1, <2>2, <2>3, GenerateKeeps DEF StartInv
<1>3. CASE GenerateRegistry
  <2>1. Generate("registry", Groups, "backlog") /\ {"ods", "registry"} \subseteq Providers
    BY <1>3 DEF GenerateRegistry, Providers
  <2>2. Progress'
    BY <1>1, <2>1, GenerateKeeps
    DEF StartInv, Progress, FacilitiesIn, ChannelsIn, PermissionsIn
  <2>3. SeededDone'
    BY <1>1, <2>1, GenerateKeeps
    DEF StartInv, SeededDone, FacilitiesIn, ChannelsIn, PermissionsIn
  <2>4. QED  BY <1>1, <2>1, <2>2, <2>3, GenerateKeeps DEF StartInv
<1>4. CASE GenerateBacklog
  <2>1. Generate("backlog", Entries(Alarms), "serving") /\ {"ods", "registry", "backlog"} = Providers
    BY <1>4 DEF GenerateBacklog, Providers
  <2>2. Progress'
    BY <1>1, <2>1, GenerateKeeps
    DEF StartInv, Progress, FacilitiesIn, ChannelsIn, PermissionsIn
  <2>3. SeededDone'
    BY <1>1, <2>1, <2>2, GenerateKeeps
    DEF StartInv, Progress, SeededDone, FacilitiesIn, ChannelsIn, PermissionsIn
  <2>4. QED  BY <1>1, <2>1, <2>2, <2>3, GenerateKeeps DEF StartInv
<1>5. QED  BY <1>2, <1>3, <1>4

LEMMA StartStep == ASSUME StartInv, [StartNext]_startup PROVE StartInv'
<1>1. CASE Boot  BY <1>1, BootKeeps
<1>2. CASE Stop  BY <1>2, EndsKeeps DEF Stop
<1>3. CASE Deploy  BY <1>3, DeployKeeps
<1>4. CASE \E k \in 0 .. Newest : Back(k)  BY <1>4, BackKeeps
<1>5. CASE Seed
  BY <1>5, SeedFacilitiesKeeps, SeedChannelsKeeps, IngestDoneKeeps, IngestBatchKeeps,
     IngestMarkKeeps, SeedUsersKeeps, ProvidersKeep DEF Seed
<1>6. CASE Raise
  BY <1>6, EndsKeeps DEF Raise, SeedFacilitiesFail, SeedChannelsFail, IngestFail
<1>7. CASE Spending
  <2>1. left' \in [Spendings -> Nat]
    BY <1>7, SpendTyped DEF Spending, StartInv, StartupTypeOK
  <2>2. QED  BY <1>7, <2>1, InvWithoutLeft DEF Spending
<1>8. CASE UNCHANGED startup
  BY <1>8, InvWithoutLeft DEF startup, StartInv, StartupTypeOK
<1>9. QED  BY <1>1, <1>2, <1>3, <1>4, <1>5, <1>6, <1>7, <1>8 DEF StartNext

\* A step of the service is a step of its start, a request or a tick that
\* spends, or leaves the start alone.
LEMMA ServiceStepsStart == [ServiceNext]_service => [StartNext]_startup
<1> SUFFICES ASSUME [ServiceNext]_service PROVE [StartNext]_startup
  OBVIOUS
<1>1. ASSUME NEW c, NEW kind, NEW token, NEW stage, NEW who, NEW named,
             Begin(c, kind, token, stage, who, named)
      PROVE  Spending
  BY <1>1 DEF Begin, Spending, Spendings
<1>2. CASE Down  BY <1>2 DEF Down, StartNext
<1>3. CASE Lifespan  BY <1>3 DEF Lifespan, StartNext
<1>4. CASE Migrate  BY <1>4 DEF Migrate, StartNext
<1>5. CASE Requests
  <2>1. PICK c \in Clients : Serve(c)  BY <1>5 DEF Requests
  <2>2. CASE LoginCheck(c) \/ WriteBegin(c) \/ LogoutBegin(c)
    <3>1. Spending  BY <1>1, <2>2, Zenon DEF LoginCheck, WriteBegin, LogoutBegin
    <3>2. QED  BY <3>1 DEF StartNext
  <2>3. CASE \/ LoginFail(c) \/ LoginClear(c) \/ LoginIssue(c) \/ WriteHandle(c)
             \/ LogoutRevoke(c) \/ Journal(c) \/ Unjournaled(c)
    BY <2>3
    DEF LoginFail, LoginClear, LoginIssue, WriteHandle, LogoutRevoke, Journal, Unjournaled, Goes
  <2>4. QED  BY <2>1, <2>2, <2>3 DEF Serve
<1>6. CASE Tick  BY <1>6 DEF Tick, StartNext, Spending, Spendings
<1>7. CASE UNCHANGED service  BY <1>7 DEF service
<1>8. QED  BY <1>2, <1>3, <1>4, <1>5, <1>6, <1>7 DEF ServiceNext

LEMMA StartInvHolds == ServiceSpec => []StartInv
<1>1. ServiceInit => StartInv  BY InitHolds DEF ServiceInit
<1>2. StartInv /\ [ServiceNext]_service => StartInv'  BY StartStep, ServiceStepsStart
<1>3. QED  BY <1>1, <1>2, PTL DEF ServiceSpec

\* The phase is one of lifespan's, the schema one the chain knows, channels
\* are placed at facilities, marks and rows are counted: the state of a start
\* has the types that main.lifespan and its seeds give it.
THEOREM StartTypeCorrect == ServiceSpec => []StartupTypeOK
<1>1. StartInv => StartupTypeOK  BY DEF StartInv
<1>2. QED  BY <1>1, StartInvHolds, PTL

\* Whatever stopped, was deployed or was migrated before: once the service
\* serves, its models find their tables, its catalogue and its permissions are
\* there, each channel in the tree has its facility and its node, each row of the
\* log was read, and the providers' marks are true.  A start that would break a
\* key of the catalogues ends instead and does not serve.
THEOREM ServesCompleteData == ServiceSpec => []DataComplete
<1>1. StartInv => DataComplete
  <2> SUFFICES ASSUME StartInv, phase = "serving"
               PROVE  /\ schema = Metadata
                      /\ Current.facilities \subseteq facilities
                      /\ \A c \in DOMAIN Current.channels : place[c] # Absent
                      /\ \A c \in Channels : Placed(c) => place[c] \in facilities /\ c \in nodes
                      /\ \A i \in Rows : copies[i] \in 1 .. 1 + cuts /\ place[Log[i].channel] # Absent
                      /\ \A p \in Providers \ forgotten : mark[p] = items[p]
                      /\ granted # {} /\ Current.permissions \subseteq granted
    BY DEF DataComplete
  <2>1. schema = Metadata  BY ChainLeadsToModels DEF StartInv, SchemaInv
  <2>2. /\ Current.facilities \subseteq facilities
        /\ \A c \in DOMAIN Current.channels : place[c] # Absent
        /\ Current.permissions \subseteq granted
        /\ ingested
    BY DEF StartInv, Progress, FacilitiesIn, ChannelsIn, PermissionsIn, Current
  <2>3. granted # {}
    <3>1. Current.permissions # {}  BY StartupAssumption DEF StartInv, StartupTypeOK, Current
    <3>2. QED  BY <2>2, <3>1
  <2>4. ASSUME NEW i \in Rows
        PROVE  copies[i] \in 1 .. 1 + cuts /\ place[Log[i].channel] # Absent
    <3>1. copies[i] \in Nat /\ cuts \in Nat  BY DEF StartInv, StartupTypeOK
    <3>2. Past(i)  BY <2>2 DEF Past
    <3>3. copies[i] >= 1 /\ copies[i] <= cuts + 1 /\ place[Log[i].channel] # Absent
      BY <3>2 DEF StartInv, LogInv
    <3>4. QED  BY <3>1, <3>3
  <2>5. ASSUME NEW p \in Providers \ forgotten PROVE mark[p] = items[p]
    <3>1. mark[p] # NotRun  BY DEF StartInv, Progress, Providers
    <3>2. QED  BY <3>1 DEF StartInv, MarksInv
  <2>6. \A c \in Channels : Placed(c) => place[c] \in facilities /\ c \in nodes
    BY DEF StartInv, TreeInv
  <2>7. QED  BY <2>1, <2>2, <2>3, <2>4, <2>5, <2>6
<1>2. QED  BY <1>1, StartInvHolds, PTL

\* Every seed finds what an earlier start of the same release did, and leaves
\* it: restarts are idempotent, whatever other release ran in between.
THEOREM StartsRepeat == ServiceSpec => StartRepeats
<1>1. ASSUME StartInv, Seed, release \in seeded PROVE UNCHANGED database
  <2>1. /\ FacilitiesIn(release) /\ ChannelsIn(release) /\ PermissionsIn(release)
        /\ ingested
        /\ \A p \in Providers : mark[p] # NotRun
    BY <1>1 DEF StartInv, SeededDone
  <2>2. CASE SeedFacilities
    <3>1. UNCHANGED <<facilities, districts>>
      <4>1. CASE CatalogueThere  BY <2>2, <4>1 DEF SeedFacilities
      <4>2. CASE ~CatalogueThere
        <5>1. Current.facilities = {} /\ Current.districts \subseteq districts
          BY <2>1, <4>2 DEF CatalogueThere, FacilitiesIn, Current
        <5>2. facilities' = facilities \cup {} /\ districts' = districts \cup Current.districts
          BY <2>2, <4>2, <5>1 DEF SeedFacilities
        <5>3. QED  BY <5>1, <5>2
      <4>3. QED  BY <4>1, <4>2
    <3>2. QED  BY <2>2, <3>1 DEF SeedFacilities, database
  <2>3. CASE SeedChannels
    <3>1. NewChannels = {}  BY <2>1 DEF NewChannels, ChannelsIn, Current
    <3>2. place' = [c \in Channels |-> place[c]] /\ nodes' = nodes
      BY <2>3, <3>1 DEF SeedChannels, NewNodes
    <3>3. place' = place  BY <1>1, <3>2 DEF StartInv, StartupTypeOK
    <3>4. QED  BY <2>3, <3>2, <3>3 DEF SeedChannels, database
  <2>4. CASE IngestDone \/ IngestBatch \/ IngestMark
    BY <2>1, <2>4 DEF IngestDone, IngestBatch, IngestMark
  <2>5. CASE SeedUsers
    BY <2>1, <2>5 DEF SeedUsers, Grant, PermissionsIn, Current, database
  <2>6. CASE GenerateOdsJournal \/ GenerateRegistry \/ GenerateBacklog
    BY <2>1, <2>6
    DEF GenerateOdsJournal, GenerateRegistry, GenerateBacklog, Generate, Providers, database
  <2>7. QED  BY <1>1, <2>2, <2>3, <2>4, <2>5, <2>6 DEF Seed
<1>2. [ServiceNext]_service => [StartNext]_startup  BY ServiceStepsStart
<1>3. StartInv /\ [StartNext]_startup => [Seed /\ release \in seeded => UNCHANGED database]_startup
  BY <1>1
<1>4. QED  BY <1>2, <1>3, StartInvHolds, PTL DEF ServiceSpec, StartRepeats

-----------------------------------------------------------------------------
(* The steps of the requests.                                               *)

\* Sessions are issued and revoked while time goes on, and nothing else.
SessionsExtend ==
  /\ now' >= now
  /\ Tokens \subseteq Tokens'
  /\ \A t \in Tokens :
       /\ UNCHANGED <<sessions[t].user, sessions[t].created, sessions[t].expires>>
       /\ sessions[t].revoked => sessions'[t].revoked

\* A session that is over stays over.
LEMMA OverStaysOver ==
  ASSUME RequestsTyped, now' \in Nat, SessionsExtend, NEW t \in Tokens, ~Alive(t)
  PROVE  ~Alive(t)'
<1>1. sessions[t] \in Session  BY DEF RequestsTyped, Tokens
<1>2. now \in Nat /\ sessions[t].expires \in Nat  BY <1>1 DEF RequestsTyped, Session
<1>3. QED  BY <1>2 DEF SessionsExtend, Alive

\* What is known of a request stays true while others run.
LEMMA InHandStays ==
  ASSUME RequestsTyped, now' \in Nat, SessionsExtend, NEW c \in Clients, InHand(c),
         call'[c].kind = call[c].kind, call'[c].token = call[c].token,
         call'[c].who = call[c].who, call'[c].named = call[c].named,
         call'[c].late = call[c].late, call'[c].begun = call[c].begun
  PROVE  InHand(c)'
<1>1. CASE call[c].kind = "login"  BY <1>1 DEF InHand
<1>2. CASE call[c].kind # "login"
  <2>1. call[c].token \in Tokens /\ call'[c].token \in Tokens'
    BY <1>2 DEF InHand, SessionsExtend
  <2>2. call[c].who = Nobody => ~Alive(call[c].token)'
    BY <1>2, <2>1, OverStaysOver DEF InHand
  <2>3. /\ sessions'[call[c].token].user = sessions[call[c].token].user
        /\ sessions'[call[c].token].created = sessions[call[c].token].created
    BY <2>1 DEF SessionsExtend
  <2>4. QED  BY <1>2, <2>1, <2>2, <2>3 DEF InHand, Alive
<1>3. QED  BY <1>1, <1>2

\* An entry that was true stays true.
LEMMA EntriesStay ==
  ASSUME RequestsTyped, EntriesTrue, now' \in Nat, SessionsExtend,
         UNCHANGED <<revision, entries>>
  PROVE  EntriesTrue'
<1>1. ASSUME NEW e \in entries
      PROVE  /\ e.kind = "write" => e.token \in Tokens'
             /\ e.actor = e.who \/ (e.actor = Nobody /\ e.kind = "write" /\ ~Alive(e.token)')
  <2>1. e.kind = "write" => e.token \in Tokens  BY DEF EntriesTrue
  <2>2. e.actor = e.who \/ (e.actor = Nobody /\ e.kind = "write" /\ ~Alive(e.token))
    BY DEF EntriesTrue, ActorTrue
  <2>3. QED  BY <2>1, <2>2, OverStaysOver DEF SessionsExtend
<1>2. QED  BY <1>1 DEF EntriesTrue, ActorTrue

LEMMA SameSessionsExtend ==
  ASSUME RequestsTyped, now' >= now, sessions' = sessions
  PROVE  SessionsExtend
  BY DEF SessionsExtend, Tokens

\* A request that moves on stays the request it is.
LEMMA GoesKeeps ==
  ASSUME RequestInv, NEW c \in Clients, NEW stage \in Stages \ {"idle"},
         call[c].stage # "idle", Goes(c, stage), now' = now, SessionsExtend
  PROVE  call' \in [Clients -> Request \cup {Idle}] /\ CallsInHand'
<1>1. call \in [Clients -> Request \cup {Idle}] /\ now \in Nat  BY DEF RequestInv, RequestsTyped
<1>2. call[c] # Idle /\ call[c] \in Request  BY <1>1 DEF Idle
<1>3. call'[c] = [call[c] EXCEPT !.stage = stage]
  BY <1>1 DEF Goes
<1>4. /\ call'[c] \in Request
      /\ call'[c].kind = call[c].kind /\ call'[c].token = call[c].token
      /\ call'[c].who = call[c].who /\ call'[c].named = call[c].named
      /\ call'[c].late = call[c].late /\ call'[c].begun = call[c].begun
  BY <1>2, <1>3 DEF Request
<1>5. \A d \in Clients \ {c} : call'[d] = call[d]  BY <1>1 DEF Goes
<1>6. call' \in [Clients -> Request \cup {Idle}]
  <2>1. call' = [d \in Clients |-> call'[d]]  BY <1>1 DEF Goes
  <2>2. \A d \in Clients : call'[d] \in Request \cup {Idle}  BY <1>1, <1>4, <1>5
  <2>3. QED  BY <2>1, <2>2
<1>7. CallsInHand'
  <2>1. phase' = phase  BY DEF Goes, startup
  <2>2. ASSUME NEW d \in Clients, call'[d] # Idle PROVE phase' = "serving" /\ InHand(d)'
    <3>1. call[d] # Idle  BY <1>2, <1>5, <2>2
    <3>2. phase = "serving" /\ InHand(d)  BY <3>1 DEF RequestInv, CallsInHand
    <3>3. InHand(d)'  BY <1>1, <1>4, <1>5, <3>2, InHandStays DEF RequestInv
    <3>4. QED  BY <2>1, <3>2, <3>3
  <2>3. QED  BY <2>2 DEF CallsInHand
<1>8. QED  BY <1>6, <1>7

\* Steps that only move a request.
LEMMA MovesKeep ==
  ASSUME RequestInv, NEW c \in Clients,
         LoginFail(c) \/ LoginClear(c) \/ WriteHandle(c)
  PROVE  RequestInv'
<1>1. PICK stage \in Stages \ {"idle"} : Goes(c, stage)
  BY DEF LoginFail, LoginClear, WriteHandle, Stages
<1>2. call[c].stage # "idle" /\ UNCHANGED <<now, sessions, entries, ended>>
  BY DEF LoginFail, LoginClear, WriteHandle, At
<1>3. now \in Nat /\ SessionsExtend
  BY <1>2, SameSessionsExtend DEF RequestInv, RequestsTyped
<1>4. call' \in [Clients -> Request \cup {Idle}] /\ CallsInHand'
  BY <1>1, <1>2, <1>3, GoesKeeps
<1>5. RequestsTyped'  BY <1>2, <1>4 DEF RequestInv, RequestsTyped, Tokens
<1>6. SessionsLast'  BY <1>2 DEF RequestInv, SessionsLast, Tokens
<1>7. EntriesTrue'
  BY <1>1, <1>2, <1>3, EntriesStay DEF RequestInv, Goes, startup
<1>8. QED  BY <1>4, <1>5, <1>6, <1>7 DEF RequestInv

\* A session is issued with its whole life before it.
LEMMA LoginIssueKeeps ==
  ASSUME RequestInv, NEW c \in Clients, LoginIssue(c)
  PROVE  RequestInv'
<1>1. call[c].stage = "cleared" /\ call[c].kind = "login" /\ Goes(c, "answered")
  BY DEF LoginIssue, At
<1>2. now \in Nat /\ sessions \in Seq(Session) /\ UNCHANGED <<now, entries, ended>>
  BY DEF RequestInv, RequestsTyped, LoginIssue
<1>3. PICK s : s = [user |-> call[c].who, created |-> now, expires |-> now + Ttl, revoked |-> FALSE]
  OBVIOUS
<1>4. s \in Session
  <2>1. call[c] # Idle  BY <1>1 DEF Idle
  <2>2. call[c].who \in Users  BY <1>1, <2>1 DEF RequestInv, CallsInHand, InHand
  <2>3. Ttl \in Nat  BY AccessAssumption
  <2>4. QED  BY <1>2, <1>3, <2>2, <2>3 DEF Session
<1>5. /\ sessions' \in Seq(Session)
      /\ Tokens' = Tokens \cup {Len(sessions) + 1}
      /\ \A t \in Tokens : sessions'[t] = sessions[t]
      /\ sessions'[Len(sessions) + 1] = s
  BY <1>2, <1>3, <1>4 DEF LoginIssue, Tokens
<1>6. SessionsExtend  BY <1>2, <1>5 DEF SessionsExtend
<1>7. call' \in [Clients -> Request \cup {Idle}] /\ CallsInHand'
  BY <1>1, <1>2, <1>6, GoesKeeps DEF Stages
<1>8. RequestsTyped'  BY <1>2, <1>5, <1>7 DEF RequestInv, RequestsTyped
<1>9. SessionsLast'
  <2>1. s.expires = s.created + Ttl  BY <1>3
  <2>2. ended \subseteq Tokens  BY DEF RequestInv, RequestsTyped
  <2>3. QED  BY <1>2, <1>5, <2>1, <2>2 DEF RequestInv, SessionsLast
<1>10. EntriesTrue'
  BY <1>1, <1>2, <1>6, EntriesStay DEF RequestInv, Goes, startup
<1>11. QED  BY <1>7, <1>8, <1>9, <1>10 DEF RequestInv

\* A logout is final, and its client learns of it only afterwards.
LEMMA LogoutRevokeKeeps ==
  ASSUME RequestInv, NEW c \in Clients, LogoutRevoke(c)
  PROVE  RequestInv'
<1>1. call[c].stage = "resolved" /\ call[c].kind = "logout" /\ Goes(c, "answered")
  BY DEF LogoutRevoke, At
<1>2. /\ now \in Nat /\ sessions \in Seq(Session) /\ ended \subseteq Tokens
      /\ UNCHANGED <<now, entries>>
  BY DEF RequestInv, RequestsTyped, LogoutRevoke
<1>3. PICK t \in Tokens : t = call[c].token
  <2>1. call[c] # Idle  BY <1>1 DEF Idle
  <2>2. QED  BY <1>1, <2>1 DEF RequestInv, CallsInHand, InHand
<1>4. sessions' = [sessions EXCEPT ![t].revoked = TRUE] /\ ended' = ended \cup {t}
  BY <1>3 DEF LogoutRevoke
<1>5. /\ sessions' \in Seq(Session) /\ Tokens' = Tokens
      /\ \A u \in Tokens : UNCHANGED <<sessions[u].user, sessions[u].created, sessions[u].expires>>
      /\ \A u \in Tokens : sessions'[u].revoked <=> (sessions[u].revoked \/ u = t)
  <2>1. \A u \in Tokens : sessions[u] \in Session  BY <1>2 DEF Tokens
  <2>2. \A u \in Tokens : sessions'[u] =
          IF u = t THEN [sessions[t] EXCEPT !.revoked = TRUE] ELSE sessions[u]
    BY <1>4 DEF Tokens
  <2>3. DOMAIN sessions' = DOMAIN sessions /\ sessions' = [u \in Tokens |-> sessions'[u]]
    BY <1>2, <1>4 DEF Tokens
  <2>4. \A u \in Tokens : sessions'[u] \in Session  BY <2>1, <2>2 DEF Session
  <2>5. Tokens = 1 .. Len(sessions) /\ Len(sessions) \in Nat  BY <1>2 DEF Tokens
  <2>6. sessions' \in Seq(Session)  BY <2>3, <2>4, <2>5
  <2>7. \A u \in Tokens :
          /\ sessions'[u].user = sessions[u].user /\ sessions'[u].created = sessions[u].created
          /\ sessions'[u].expires = sessions[u].expires
          /\ sessions'[u].revoked <=> (sessions[u].revoked \/ u = t)
    <3>1. PICK s : s = [sessions[t] EXCEPT !.revoked = TRUE]  OBVIOUS
    <3>2. /\ s.user = sessions[t].user /\ s.created = sessions[t].created
          /\ s.expires = sessions[t].expires /\ s.revoked = TRUE
      BY <2>1, <3>1 DEF Session
    <3>3. \A u \in Tokens : u # t => sessions'[u] = sessions[u]  BY <2>2
    <3>4. sessions'[t] = s  BY <2>2, <3>1
    <3>5. QED  BY <2>1, <3>2, <3>3, <3>4 DEF Session
  <2>8. QED  BY <2>3, <2>6, <2>7 DEF Tokens
<1>6. SessionsExtend  BY <1>2, <1>5 DEF SessionsExtend
<1>7. call' \in [Clients -> Request \cup {Idle}] /\ CallsInHand'
  BY <1>1, <1>2, <1>6, GoesKeeps DEF Stages
<1>8. RequestsTyped'  BY <1>2, <1>4, <1>5, <1>7 DEF RequestInv, RequestsTyped
<1>9. SessionsLast'
  BY <1>2, <1>4, <1>5 DEF RequestInv, SessionsLast
<1>10. EntriesTrue'
  BY <1>1, <1>2, <1>6, EntriesStay DEF RequestInv, Goes, startup
<1>11. QED  BY <1>7, <1>8, <1>9, <1>10 DEF RequestInv

\* A request that begins acts for the user of a live session, or for nobody.
LEMMA BeginKeeps ==
  ASSUME RequestInv, phase = "serving", NEW c \in Clients,
         NEW kind \in Kinds, NEW token \in Nat, NEW stage \in Stages \ {"idle"},
         NEW who \in Named, NEW named \in Named,
         Begin(c, kind, token, stage, who, named),
         UNCHANGED <<now, sessions, entries, ended>>,
         kind = "login" => who \in Users /\ named = who,
         kind = "logout" => named = who,
         kind = "write" => named = Nobody,
         kind # "login" => token \in Tokens /\ who = Resolved(token)
  PROVE  RequestInv'
<1>1. /\ now \in Nat /\ call \in [Clients -> Request \cup {Idle}]
      /\ sessions \in Seq(Session)
  BY DEF RequestInv, RequestsTyped
<1>2. PICK r : r = [stage |-> stage, kind |-> kind, token |-> token, who |-> who, named |-> named,
                    begun |-> now, late |-> token \in ended]
  OBVIOUS
<1>3. (token \in ended) \in BOOLEAN  OBVIOUS
<1>4. r \in Request
  <2>1. PICK late \in BOOLEAN : late = (token \in ended)  BY <1>3, Zenon
  <2>2. r = [stage |-> stage, kind |-> kind, token |-> token, who |-> who, named |-> named,
             begun |-> now, late |-> late]
    BY <1>2, <2>1, Zenon
  <2>3. QED  BY <1>1, <2>2 DEF Request
<1>5. call' = [call EXCEPT ![c] = r]  BY <1>2, Zenon DEF Begin
<1>6. call' \in [Clients -> Request \cup {Idle}] /\ call'[c] = r
      /\ \A d \in Clients \ {c} : call'[d] = call[d]
  BY <1>1, <1>4, <1>5
<1>7. phase' = phase /\ revision' = revision  BY DEF Begin
<1>8. SessionsExtend  BY <1>1, SameSessionsExtend DEF RequestInv
<1>9. InHand(c)'
  <2>1. /\ r.kind = kind /\ r.token = token /\ r.who = who /\ r.named = named /\ r.begun = now
        /\ r.late <=> token \in ended
    <3>1. r.late = (token \in ended)  BY <1>2, Zenon
    <3>2. QED  BY <1>2, <3>1
  <2>2. ASSUME kind # "login"
        PROVE  /\ token \in Tokens
               /\ who = Nobody => ~Alive(token)
               /\ who # Nobody =>
                    /\ who = sessions[token].user
                    /\ token \notin ended
                    /\ now < sessions[token].created + Ttl
    <3>1. token \in Tokens /\ who = Resolved(token)  BY <2>2
    <3>2. sessions[token] \in Session  BY <1>1, <3>1 DEF Tokens
    <3>3. CASE Alive(token)
      <4>1. who = sessions[token].user /\ who # Nobody
        BY <3>1, <3>2, <3>3 DEF Resolved, Session, Users, Nobody
      <4>2. token \notin ended  BY <3>1, <3>3 DEF RequestInv, SessionsLast, Alive
      <4>3. now < sessions[token].expires
        BY <1>1, <3>2, <3>3 DEF Alive, Session
      <4>4. QED  BY <3>1, <4>1, <4>2, <4>3 DEF RequestInv, SessionsLast
    <3>4. CASE ~Alive(token)
      BY <3>1, <3>4 DEF Resolved
    <3>5. QED  BY <3>3, <3>4
  <2>3. Tokens' = Tokens /\ (Alive(token)' <=> Alive(token))  BY DEF Tokens, Alive
  <2>4. CASE kind = "login"
    BY <1>6, <2>1, <2>4 DEF InHand
  <2>5. CASE kind # "login"
    BY <1>6, <2>1, <2>2, <2>3, <2>5 DEF InHand, Alive
  <2>6. QED  BY <2>4, <2>5
<1>10. CallsInHand'
  <2>1. ASSUME NEW d \in Clients, d # c, call'[d] # Idle PROVE InHand(d)'
    <3>1. call'[d] = call[d]  BY <1>6, <2>1
    <3>2. InHand(d)  BY <2>1, <3>1 DEF RequestInv, CallsInHand
    <3>3. QED  BY <1>1, <1>8, <3>1, <3>2, InHandStays DEF RequestInv
  <2>2. QED  BY <1>7, <1>9, <2>1 DEF CallsInHand
<1>11. RequestsTyped'  BY <1>6 DEF RequestInv, RequestsTyped, Tokens
<1>12. SessionsLast'  BY DEF RequestInv, SessionsLast, Tokens
<1>13. EntriesTrue'  BY <1>1, <1>7, <1>8, EntriesStay DEF RequestInv
<1>14. QED  BY <1>10, <1>11, <1>12, <1>13 DEF RequestInv

LEMMA BeginsKeep ==
  ASSUME RequestInv, phase = "serving", NEW c \in Clients,
         LoginCheck(c) \/ WriteBegin(c) \/ LogoutBegin(c)
  PROVE  RequestInv'
<1>1. \A t \in Tokens : t \in Nat /\ Resolved(t) \in Named
  <2>1. \A t \in Tokens : t \in Nat /\ sessions[t] \in Session
    BY DEF RequestInv, RequestsTyped, Tokens
  <2>2. QED  BY <2>1 DEF Resolved, Named, Session
<1>2. CASE LoginCheck(c)
  <2>1. PICK name \in Users :
          Begin(c, "login", 0, IF UnlockedAt(name) = Never THEN "checked" ELSE "answered", name, name)
    BY <1>2 DEF LoginCheck
  <2>2. UNCHANGED <<now, sessions, entries, ended>>  BY <1>2 DEF LoginCheck
  <2>3. PICK stage \in {"checked", "answered"} : Begin(c, "login", 0, stage, name, name)
    BY <2>1
  <2>4. QED  BY <2>2, <2>3, BeginKeeps DEF Kinds, Stages, Named
<1>3. CASE WriteBegin(c)
  <2>1. PICK t \in Tokens :
          Begin(c, "write", t,
            IF Alive(t) /\ Needed \in Permissions(sessions[t].user) THEN "resolved" ELSE "answered",
            Resolved(t), Nobody)
    BY <1>3 DEF WriteBegin
  <2>2. UNCHANGED <<now, sessions, entries, ended>>  BY <1>3 DEF WriteBegin
  <2>3. PICK stage \in {"resolved", "answered"} : Begin(c, "write", t, stage, Resolved(t), Nobody)
    BY <2>1
  <2>4. QED  BY <1>1, <2>2, <2>3, BeginKeeps DEF Kinds, Stages, Named
<1>4. CASE LogoutBegin(c)
  <2>1. PICK t \in Tokens :
          Begin(c, "logout", t, IF Alive(t) THEN "resolved" ELSE "answered",
            Resolved(t), LogoutNamed(t))
    BY <1>4 DEF LogoutBegin
  <2>2. UNCHANGED <<now, sessions, entries, ended>>  BY <1>4 DEF LogoutBegin
  <2>3. PICK stage \in {"resolved", "answered"} : Begin(c, "logout", t, stage, Resolved(t), Resolved(t))
    BY <2>1 DEF LogoutNamed
  <2>4. QED  BY <1>1, <2>2, <2>3, BeginKeeps DEF Kinds, Stages
<1>5. QED  BY <1>2, <1>3, <1>4

\* The journal names the actor the handler named, or whom the token stands for
\* now: the same user, or nobody if the session was over meanwhile.
LEMMA JournalKeeps ==
  ASSUME StartInv, RequestInv, NEW c \in Clients, Journal(c) \/ Unjournaled(c)
  PROVE  RequestInv'
<1>1. /\ call \in [Clients -> Request \cup {Idle}] /\ now \in Nat
      /\ sessions \in Seq(Session) /\ entries \subseteq Entry
      /\ UNCHANGED <<startup, now, sessions, ended>>
  BY DEF RequestInv, RequestsTyped, Journal, Unjournaled
<1>2. call[c] # Idle /\ call[c] \in Request /\ InHand(c)
  BY <1>1 DEF RequestInv, CallsInHand, Journal, Unjournaled, Idle
<1>3. /\ call' \in [Clients -> Request \cup {Idle}] /\ call'[c] = Idle
      /\ \A d \in Clients \ {c} : call'[d] = call[d]
  BY <1>1 DEF Journal, Unjournaled
<1>4. SessionsExtend /\ phase' = phase /\ revision' = revision
  BY <1>1, SameSessionsExtend DEF RequestInv, startup
<1>5. PICK e : e = [kind |-> call[c].kind, token |-> call[c].token, who |-> call[c].who,
                    actor |-> Actor(c)]
  OBVIOUS
<1>6. entries' \in {entries, entries \cup {e}}
  BY <1>5 DEF Journal, Unjournaled
<1>7. /\ e \in Entry
      /\ e.kind = "write" => e.token \in Tokens
      /\ e.actor = e.who \/ (e.actor = Nobody /\ e.kind = "write" /\ ~Alive(e.token))
  <2>1. call[c].kind \in Kinds /\ call[c].token \in Nat /\ call[c].who \in Named
        /\ call[c].named \in Named
    BY <1>2 DEF Request
  <2>2. CASE call[c].kind = "login"
    <3>1. call[c].who \in Users /\ call[c].named = call[c].who  BY <1>2, <2>2 DEF InHand
    <3>2. Actor(c) = call[c].who  BY <3>1 DEF Actor, Users, Nobody
    <3>3. QED  BY <1>5, <2>1, <2>2, <3>2 DEF Entry
  <2>3. CASE call[c].kind # "login"
    <3>1. call[c].token \in Tokens  BY <1>2, <2>3 DEF InHand
    <3>2. sessions[call[c].token].user \in Users
      <4>1. sessions[call[c].token] \in Session  BY <1>1, <3>1 DEF Tokens
      <4>2. QED  BY <4>1 DEF Session
    <3>3. CASE Alive(call[c].token)
      <4>1. call[c].who = sessions[call[c].token].user
        BY <1>2, <2>3, <3>3 DEF InHand
      <4>2. Resolved(call[c].token) = call[c].who  BY <3>3, <4>1 DEF Resolved
      <4>3. call[c].named \in {call[c].who, Nobody}
        BY <1>2, <2>1, <2>3 DEF InHand, Kinds
      <4>4. Actor(c) = call[c].who  BY <4>2, <4>3 DEF Actor
      <4>5. QED  BY <1>5, <2>1, <3>1, <4>4 DEF Entry
    <3>4. CASE ~Alive(call[c].token)
      <4>1. Resolved(call[c].token) = Nobody  BY <3>4 DEF Resolved
      <4>2. CASE call[c].kind = "logout"
        <5>1. call[c].named = call[c].who  BY <1>2, <4>2 DEF InHand
        <5>2. Actor(c) = call[c].who  BY <4>1, <5>1 DEF Actor
        <5>3. QED  BY <1>5, <2>1, <3>1, <5>2 DEF Entry
      <4>3. CASE call[c].kind = "write"
        <5>1. Actor(c) = Nobody  BY <1>2, <4>1, <4>3 DEF InHand, Actor
        <5>2. QED  BY <1>5, <2>1, <3>1, <3>4, <4>3, <5>1 DEF Entry, Named
      <4>4. QED  BY <2>1, <2>3, <4>2, <4>3 DEF Kinds
    <3>5. QED  BY <3>3, <3>4
  <2>4. QED  BY <2>2, <2>3
<1>8. RequestsTyped'
  <2>1. entries' \subseteq Entry  BY <1>1, <1>6, <1>7
  <2>2. QED  BY <1>1, <1>3, <2>1 DEF RequestInv, RequestsTyped, Tokens
<1>9. SessionsLast'  BY <1>1 DEF RequestInv, SessionsLast, Tokens
<1>10. CallsInHand'
  <2>1. ASSUME NEW d \in Clients, call'[d] # Idle PROVE phase' = "serving" /\ InHand(d)'
    <3>1. call'[d] = call[d]  BY <1>3, <2>1
    <3>2. phase = "serving" /\ InHand(d)  BY <2>1, <3>1 DEF RequestInv, CallsInHand
    <3>3. now' \in Nat  BY <1>1
    <3>4. InHand(d)'  BY <1>4, <3>1, <3>2, <3>3, InHandStays DEF RequestInv
    <3>5. QED  BY <1>4, <3>2, <3>4
  <2>2. QED  BY <2>1 DEF CallsInHand
<1>11. EntriesTrue'
  <2>1. ASSUME NEW x \in entries'
        PROVE  /\ x.kind = "write" => x.token \in Tokens'
               /\ x.actor = x.who \/ (x.actor = Nobody /\ x.kind = "write" /\ ~Alive(x.token)')
    <3>1. Tokens' = Tokens /\ (Alive(x.token)' <=> Alive(x.token))
      BY <1>1 DEF Tokens, Alive
    <3>2. x \in entries \/ x = e  BY <1>6
    <3>3. QED  BY <1>7, <3>1, <3>2 DEF RequestInv, EntriesTrue, ActorTrue
  <2>2. ~(revision' < 14)
    <3>1. phase = "serving"  BY <1>2 DEF RequestInv, CallsInHand
    <3>2. revision = 18  BY <3>1, ChainLength DEF StartInv, SchemaInv
    <3>3. QED  BY <1>4, <3>2
  <2>3. QED  BY <2>1, <2>2 DEF EntriesTrue, ActorTrue
<1>12. QED  BY <1>8, <1>9, <1>10, <1>11 DEF RequestInv

\* Whatever ends or starts a process finds no request in flight, and leaves none.
LEMMA ProcessKeeps ==
  ASSUME StartInv, RequestInv, Down \/ Lifespan
  PROVE  RequestInv'
<1>1. now \in Nat /\ UNCHANGED <<now, sessions, entries, ended>>
  BY DEF RequestInv, RequestsTyped, Down, Lifespan, access
<1>2. call' \in [Clients -> Request \cup {Idle}] /\ \A c \in Clients : call'[c] = Idle
  <2>1. CASE Down  BY <2>1 DEF Down
  <2>2. CASE Lifespan
    <3>1. phase # "serving"
      BY <2>2
      DEF Lifespan, Boot, Seed, Raise, SeedFacilitiesFail, SeedChannelsFail, IngestFail, Deploy,
          SeedFacilities, SeedChannels, IngestDone, IngestBatch, IngestMark, SeedUsers,
          GenerateOdsJournal, GenerateRegistry, GenerateBacklog, Generate
    <3>2. call' = call  BY <2>2 DEF Lifespan, access
    <3>3. QED  BY <3>1, <3>2 DEF RequestInv, RequestsTyped, CallsInHand
  <2>3. QED  BY <2>1, <2>2
<1>3. SessionsExtend  BY <1>1, SameSessionsExtend DEF RequestInv
<1>4. ~(revision' < 14) \/ revision' = revision
  <2>1. CASE Down  BY <2>1 DEF Down, Stop, Ends
  <2>2. CASE Lifespan
    <3>1. CASE Boot  BY <3>1, ChainLength DEF Boot, Upgrade
    <3>2. CASE Seed \/ Raise \/ Deploy
      BY <3>2
      DEF Seed, Raise, SeedFacilitiesFail, SeedChannelsFail, IngestFail, Deploy,
          SeedFacilities, SeedChannels, IngestDone, IngestBatch, IngestMark, SeedUsers,
          GenerateOdsJournal, GenerateRegistry, GenerateBacklog, Generate, Enter, Ends
    <3>3. QED  BY <2>2, <3>1, <3>2 DEF Lifespan
  <2>3. QED  BY <2>1, <2>2
<1>5. RequestsTyped'  BY <1>1, <1>2 DEF RequestInv, RequestsTyped, Tokens
<1>6. SessionsLast'  BY <1>1 DEF RequestInv, SessionsLast, Tokens
<1>7. CallsInHand'  BY <1>2 DEF CallsInHand
<1>8. EntriesTrue'
  <2>1. \A e \in entries : e.kind = "write" => e.token \in Tokens'
    BY <1>1 DEF RequestInv, EntriesTrue, Tokens
  <2>2. ActorTrue'  BY <1>1 DEF RequestInv, EntriesTrue, ActorTrue, Alive, Tokens
  <2>3. revision' < 14 => entries' = {}  BY <1>1, <1>4 DEF RequestInv, EntriesTrue
  <2>4. QED  BY <1>1, <2>1, <2>2, <2>3 DEF EntriesTrue
<1>9. QED  BY <1>5, <1>6, <1>7, <1>8 DEF RequestInv

\* A downgrade that takes the sessions has taken the journal; one that takes
\* their expiry only leaves each session the life it was issued with.
LEMMA MigrateKeeps ==
  ASSUME StartInv, RequestInv, Migrate
  PROVE  RequestInv'
<1>1. PICK k \in 0 .. Newest :
        /\ Back(k)
        /\ sessions' = IF "sessions" \in Dropped(k) THEN <<>>
             ELSE IF "sessions.expires_at" \in Dropped(k)
             THEN [t \in Tokens |-> [sessions[t] EXCEPT !.expires = sessions[t].created + Backfill]]
             ELSE sessions
        /\ ended' = IF "sessions" \in Dropped(k) THEN {} ELSE ended
        /\ entries' = IF "audit_log" \in Dropped(k) THEN {} ELSE entries
        /\ UNCHANGED <<now, call>>
  BY DEF Migrate
<1>2. /\ now \in Nat /\ sessions \in Seq(Session) /\ entries \subseteq Entry /\ ended \subseteq Tokens
      /\ call \in [Clients -> Request \cup {Idle}]
  BY DEF RequestInv, RequestsTyped
<1>3. phase = "down" /\ phase' = phase /\ revision' = k /\ revision \in 0 .. Newest /\ k < revision
  BY <1>1 DEF Back, Downgrade, StartInv, StartupTypeOK
<1>4. \A c \in Clients : call'[c] = Idle
  BY <1>1, <1>3 DEF RequestInv, CallsInHand
<1>5. /\ "sessions" \in Dropped(k) <=> k < 2 /\ 2 <= revision
      /\ "audit_log" \in Dropped(k) <=> k < 14 /\ 14 <= revision
  BY <1>3, DroppedBelow, TableBorn, ChainLength
<1>6. k < 14 => entries' = {}
  <2>1. revision < 14 => entries = {}  BY DEF RequestInv, EntriesTrue
  <2>2. revision \in Nat  BY <1>3, ChainLength
  <2>3. QED  BY <1>1, <1>5, <2>1, <2>2
<1>7. CASE "sessions" \in Dropped(k)
  <2>1. sessions' = <<>> /\ ended' = {} /\ entries' = {}
    <3>1. k < 14  BY <1>3, <1>5, <1>7, ChainLength
    <3>2. QED  BY <1>1, <1>6, <1>7, <3>1
  <2>2. RequestsTyped'  BY <1>1, <1>2, <2>1 DEF RequestsTyped, Tokens
  <2>3. SessionsLast'  BY <2>1 DEF SessionsLast, Tokens
  <2>4. CallsInHand'  BY <1>4 DEF CallsInHand
  <2>5. EntriesTrue'  BY <2>1 DEF EntriesTrue, ActorTrue
  <2>6. QED  BY <2>2, <2>3, <2>4, <2>5 DEF RequestInv
<1>8. CASE "sessions" \notin Dropped(k)
  <2>1. /\ sessions' \in Seq(Session) /\ Tokens' = Tokens
        /\ \A t \in Tokens : UNCHANGED <<sessions[t].user, sessions[t].created, sessions[t].expires,
                                         sessions[t].revoked>>
    <3>1. CASE "sessions.expires_at" \in Dropped(k)
      <4>1. \A t \in Tokens : sessions[t] \in Session  BY <1>2 DEF Tokens
      <4>2. sessions' = [t \in Tokens |-> [sessions[t] EXCEPT !.expires = sessions[t].created + Backfill]]
        BY <1>1, <1>8, <3>1
      <4>3. \A t \in Tokens : sessions[t].created + Backfill = sessions[t].expires
        BY AccessAssumption DEF RequestInv, SessionsLast
      <4>4. \A t \in Tokens : sessions'[t] \in Session /\ sessions'[t].user = sessions[t].user
              /\ sessions'[t].created = sessions[t].created
              /\ sessions'[t].expires = sessions[t].expires
              /\ sessions'[t].revoked = sessions[t].revoked
        BY <4>1, <4>2, <4>3 DEF Session
      <4>5. Tokens = 1 .. Len(sessions) /\ Len(sessions) \in Nat  BY <1>2 DEF Tokens
      <4>6. sessions' \in Seq(Session)  BY <4>2, <4>4, <4>5
      <4>7. Tokens' = Tokens  BY <4>2 DEF Tokens
      <4>8. QED  BY <4>4, <4>6, <4>7
    <3>2. CASE "sessions.expires_at" \notin Dropped(k)
      BY <1>1, <1>2, <1>8, <3>2 DEF Tokens
    <3>3. QED  BY <3>1, <3>2
  <2>2. ended' = ended /\ entries' \subseteq entries  BY <1>1, <1>8
  <2>3. RequestsTyped'  BY <1>1, <1>2, <2>1, <2>2 DEF RequestsTyped
  <2>4. SessionsLast'  BY <1>2, <2>1, <2>2 DEF RequestInv, SessionsLast
  <2>5. CallsInHand'  BY <1>4 DEF CallsInHand
  <2>6. EntriesTrue'
    <3>1. \A t : Alive(t)' <=> Alive(t)  BY <1>1, <2>1 DEF Alive
    <3>2. revision' < 14 => entries' = {}  BY <1>3, <1>6
    <3>3. QED  BY <2>1, <2>2, <3>1, <3>2 DEF RequestInv, EntriesTrue, ActorTrue
  <2>7. QED  BY <2>3, <2>4, <2>5, <2>6 DEF RequestInv
<1>9. QED  BY <1>7, <1>8

LEMMA TickKeeps == ASSUME RequestInv, Tick PROVE RequestInv'
<1>1. now \in Nat /\ now' \in Nat /\ now' >= now
  BY DEF RequestInv, RequestsTyped, Tick
<1>2. UNCHANGED <<revision, phase, sessions, entries, call, ended>>  BY DEF Tick
<1>3. SessionsExtend  BY <1>1, <1>2, SameSessionsExtend DEF RequestInv
<1>4. RequestsTyped'  BY <1>1, <1>2 DEF RequestInv, RequestsTyped, Tokens
<1>5. SessionsLast'  BY <1>2 DEF RequestInv, SessionsLast, Tokens
<1>6. CallsInHand'  BY <1>1, <1>2, <1>3, InHandStays DEF RequestInv, CallsInHand
<1>7. EntriesTrue'  BY <1>1, <1>2, <1>3, EntriesStay DEF RequestInv
<1>8. QED  BY <1>4, <1>5, <1>6, <1>7 DEF RequestInv

LEMMA RequestInit == AccessInit => RequestInv
<1> SUFFICES ASSUME AccessInit PROVE RequestInv
  OBVIOUS
<1> USE DEF AccessInit
<1>1. RequestsTyped  BY DEF RequestsTyped, Tokens
<1>2. SessionsLast  BY DEF SessionsLast, Tokens
<1>3. CallsInHand  BY DEF CallsInHand
<1>4. EntriesTrue  BY DEF EntriesTrue, ActorTrue
<1>5. QED  BY <1>1, <1>2, <1>3, <1>4 DEF RequestInv

LEMMA RequestStep ==
  ASSUME StartInv, RequestInv, [ServiceNext]_service
  PROVE  RequestInv'
<1>1. CASE Down \/ Lifespan  BY <1>1, ProcessKeeps
<1>2. CASE Migrate  BY <1>2, MigrateKeeps
<1>3. CASE Requests
  <2>1. PICK c \in Clients : Serve(c) /\ phase = "serving"  BY <1>3 DEF Requests
  <2>2. CASE LoginCheck(c) \/ WriteBegin(c) \/ LogoutBegin(c)
    BY <2>1, <2>2, BeginsKeep
  <2>3. CASE LoginFail(c) \/ LoginClear(c) \/ WriteHandle(c)
    BY <2>3, MovesKeep
  <2>4. CASE LoginIssue(c)  BY <2>4, LoginIssueKeeps
  <2>5. CASE LogoutRevoke(c)  BY <2>5, LogoutRevokeKeeps
  <2>6. CASE Journal(c) \/ Unjournaled(c)  BY <2>6, JournalKeeps
  <2>7. QED  BY <2>1, <2>2, <2>3, <2>4, <2>5, <2>6 DEF Serve
<1>4. CASE Tick  BY <1>4, TickKeeps
<1>5. CASE UNCHANGED service
  <2>1. UNCHANGED <<revision, phase, now, sessions, entries, call, ended>>
    BY <1>5 DEF service, startup, access
  <2>2. RequestsTyped'  BY <2>1 DEF RequestInv, RequestsTyped, Tokens
  <2>3. SessionsLast'  BY <2>1 DEF RequestInv, SessionsLast, Tokens
  <2>4. CallsInHand'  BY <2>1 DEF RequestInv, CallsInHand, InHand, Alive, Tokens
  <2>5. EntriesTrue'  BY <2>1 DEF RequestInv, EntriesTrue, ActorTrue, Alive, Tokens
  <2>6. QED  BY <2>2, <2>3, <2>4, <2>5 DEF RequestInv
<1>6. QED  BY <1>1, <1>2, <1>3, <1>4, <1>5 DEF ServiceNext

LEMMA RequestInvHolds == ServiceSpec => []RequestInv
<1>1. ServiceInit => RequestInv  BY RequestInit DEF ServiceInit
<1>2. StartInv /\ RequestInv /\ [ServiceNext]_service => RequestInv'  BY RequestStep
<1>3. QED  BY <1>1, <1>2, StartInvHolds, PTL DEF ServiceSpec

\* Requests act only for a session that was live when they began: younger than
\* its time to live and not logged out, whatever restarted or was migrated.
THEOREM SessionsAreHonoured == ServiceSpec => []SessionHonoured
<1>1. RequestInv => SessionHonoured
  BY DEF RequestInv, CallsInHand, InHand, SessionHonoured
<1>2. QED  BY <1>1, RequestInvHolds, PTL

\* The journal blames nobody for the request of another: its actor is the user
\* the request acted for, or nobody if the session of a write has ended.
THEOREM ActorsAreTrue == ServiceSpec => []ActorTrue
<1>1. RequestInv => ActorTrue  BY DEF RequestInv, EntriesTrue
<1>2. QED  BY <1>1, RequestInvHolds, PTL

-----------------------------------------------------------------------------
(* The lockout.                                                             *)

Failure == [name : Users, at : Nat, nth : Nat]

\* Sign-ins that have passed the look at the lock but not the password.
Checked == {c \in Clients : At(c, "login", "checked")}
CheckedOf(u) == {c \in Checked : call[c].who = u}

\* Failures that are still in the window in the moment t.
InWindow(t) == {f \in failures : f.at + Window > t}
InWindowOf(u, t) == {f \in InWindow(t) : f.name = u}

FailuresTyped ==
  /\ failures \subseteq Failure /\ IsFiniteSet(failures)
  /\ \A f \in failures : f.at <= now
  /\ promise \in [Users -> Nat \cup {Never}]

\* A sign-in that was let through may still fail: it counts like a failure.
RoomLeft ==
  /\ Cardinality(OfIp) + Cardinality(Checked) <= PerIp - 1 + Cardinality(Clients)
  /\ \A u \in Users :
       Cardinality(OfName(u)) + Cardinality(CheckedOf(u)) <= PerName - 1 + Cardinality(Clients)

\* A promise is the moment when less than the limits are left in the window.
PromiseHolds ==
  \A u \in Users : promise[u] # Never =>
    /\ Cardinality(InWindow(promise[u])) < PerIp
    /\ Cardinality(InWindowOf(u, promise[u])) < PerName

LockInv ==
  /\ FailuresTyped
  /\ RoomLeft
  /\ PromiseHolds

\* A finite set of times has a last one, by the well-founded order of its
\* subsets: the smallest that holds all later times holds one only ...
LEMMA LastTime ==
  ASSUME NEW T \in SUBSET Int, IsFiniteSet(T), T # {}
  PROVE  Max(T) \in T /\ \A x \in T : Max(T) >= x
<1> DEFINE R == StrictSubsetOrdering(T)
           F == FiniteSubsetsOf(T)
           Up(t) == {x \in T : x >= t}
           S == {Up(t) : t \in T}
<1>1. IsWellFoundedOn(R, F)  BY FS_StrictSubsetOrderingWellFounded
<1>2. S \subseteq F /\ S # {}
  <2>1. F = SUBSET T  BY FS_FiniteSubsetsOfFinite
  <2> HIDE DEF F
  <2>2. QED  BY <2>1
<1>3. PICK U \in S : \A V \in S : ~(<<V, U>> \in R)
  <2> HIDE DEF R, F, S
  <2>1. QED  BY <1>1, <1>2, WFMin
<1>4. PICK m \in T : U = Up(m)  OBVIOUS
<1>5. ASSUME NEW x \in T PROVE m >= x
  <2>1. SUFFICES ASSUME x > m PROVE FALSE  OBVIOUS
  <2>2. Up(x) \in S /\ Up(x) \in SUBSET T /\ Up(m) \in SUBSET T  OBVIOUS
  <2>3. m \in Int /\ x \in Int  OBVIOUS
  <2>4. m \in Up(m) /\ m \notin Up(x)  BY <2>1, <2>3
  <2>5. ASSUME NEW y \in Up(x) PROVE y \in Up(m)
    <3>1. y \in T /\ y \in Int /\ y >= x  OBVIOUS
    <3>2. QED  BY <2>1, <2>3, <3>1
  <2>6. <<Up(x), Up(m)>> \in R
    <3>1. Up(x) # Up(m) /\ Up(x) \subseteq Up(m)  BY <2>4, <2>5
    <3> HIDE DEF Up
    <3>2. QED  BY <2>2, <3>1 DEF StrictSubsetOrdering
  <2>7. QED  BY <1>3, <1>4, <2>2, <2>6
<1>6. QED  BY <1>5 DEF Max

\* ... and a first one.
LEMMA FirstTime ==
  ASSUME NEW T \in SUBSET Int, IsFiniteSet(T), T # {}
  PROVE  \E m \in T : \A x \in T : m <= x
<1> DEFINE R == StrictSubsetOrdering(T)
           F == FiniteSubsetsOf(T)
           Below(t) == {x \in T : x <= t}
           S == {Below(t) : t \in T}
<1>1. IsWellFoundedOn(R, F)  BY FS_StrictSubsetOrderingWellFounded
<1>2. S \subseteq F /\ S # {}
  <2>1. F = SUBSET T  BY FS_FiniteSubsetsOfFinite
  <2> HIDE DEF F
  <2>2. QED  BY <2>1
<1>3. PICK U \in S : \A V \in S : ~(<<V, U>> \in R)
  <2> HIDE DEF R, F, S
  <2>1. QED  BY <1>1, <1>2, WFMin
<1>4. PICK m \in T : U = Below(m)  OBVIOUS
<1>5. ASSUME NEW x \in T PROVE m <= x
  <2>1. SUFFICES ASSUME x < m PROVE FALSE  OBVIOUS
  <2>2. Below(x) \in S /\ Below(x) \in SUBSET T /\ Below(m) \in SUBSET T  OBVIOUS
  <2>3. m \in Int /\ x \in Int  OBVIOUS
  <2>4. m \in Below(m) /\ m \notin Below(x)  BY <2>1, <2>3
  <2>5. ASSUME NEW y \in Below(x) PROVE y \in Below(m)
    <3>1. y \in T /\ y \in Int /\ y <= x  OBVIOUS
    <3>2. QED  BY <2>1, <2>3, <3>1
  <2>6. <<Below(x), Below(m)>> \in R
    <3>1. Below(x) # Below(m) /\ Below(x) \subseteq Below(m)  BY <2>4, <2>5
    <3> HIDE DEF Below
    <3>2. QED  BY <2>2, <3>1 DEF StrictSubsetOrdering
  <2>7. QED  BY <1>3, <1>4, <2>2, <2>6
<1>6. QED  BY <1>5

\* The times of failures are such a set.
LEMMA TimesFinite ==
  ASSUME NEW found \in SUBSET Failure, IsFiniteSet(found)
  PROVE  TimesOf(found) \in SUBSET Nat /\ IsFiniteSet(TimesOf(found))
<1> DEFINE f == [x \in found |-> x.at]
<1>1. f \in Surjection(found, TimesOf(found))  BY DEF Surjection, TimesOf
<1>2. IsFiniteSet(TimesOf(found))
  <2> HIDE DEF f
  <2>1. QED  BY <1>1, FS_Surjection
<1>3. QED  BY <1>2 DEF TimesOf, Failure

\* When the limit-th newest failure leaves the window, less than the limit are
\* left in it.
LEMMA UnlockInTime ==
  ASSUME NEW found \in SUBSET Failure, IsFiniteSet(found), NEW limit \in Nat \ {0},
         Cardinality(found) >= limit
  PROVE  \E t \in TimesOf(found) :
           /\ UnlockAt(found, limit) = t + Window
           /\ Cardinality({f \in found : f.at > t}) < limit
<1> DEFINE T == TimesOf(found)
           Enough == {t \in T : Cardinality(Since(found, t)) >= limit}
<1>1. T \in SUBSET Nat /\ IsFiniteSet(T) /\ \A f \in found : f.at \in T /\ f.at \in Nat
  BY TimesFinite DEF TimesOf, Failure
<1>2. ASSUME NEW S \in SUBSET found
      PROVE  /\ IsFiniteSet(S) /\ IsFiniteSet(TimesOf(S)) /\ TimesOf(S) \subseteq T
             /\ TimesOf(S) \in SUBSET Int
             /\ Cardinality(S) \in Nat
  BY FS_Subset, FS_CardinalityType, TimesFinite DEF TimesOf
<1>3. Enough # {}
  <2>1. found # {}  BY FS_EmptySet
  <2>2. TimesOf(found) # {} /\ T \in SUBSET Int  BY <1>1, <2>1 DEF TimesOf
  <2>3. PICK m \in T : \A x \in T : m <= x  BY <1>1, <2>2, FirstTime
  <2>4. Since(found, m) = found  BY <1>1, <2>3 DEF Since
  <2>5. QED  BY <2>3, <2>4
<1>4. Enough \in SUBSET Int /\ IsFiniteSet(Enough)
  <2>1. Enough \in SUBSET T  OBVIOUS
  <2>2. QED  BY <1>1, <2>1, FS_Subset
<1>5. PICK t \in Enough : t = Max(Enough) /\ \A x \in Enough : t >= x
  <2> HIDE DEF Enough
  <2>1. QED  BY <1>3, <1>4, LastTime
<1>6. UnlockAt(found, limit) = t + Window
  <2>1. Cardinality(found) \in Nat  BY FS_CardinalityType
  <2>2. QED  BY <1>5, <2>1 DEF UnlockAt
<1>7. Cardinality({f \in found : f.at > t}) < limit
  <2> DEFINE Newer == {f \in found : f.at > t}
  <2>1. SUFFICES ASSUME Cardinality(Newer) >= limit PROVE FALSE
    BY <1>2
  <2>2. Newer # {}  BY <2>1, FS_EmptySet
  <2>3. TimesOf(Newer) # {}  BY <2>2 DEF TimesOf
  <2>4. PICK m \in TimesOf(Newer) : \A x \in TimesOf(Newer) : m <= x
    <3>1. IsFiniteSet(TimesOf(Newer)) /\ TimesOf(Newer) \in SUBSET Int  BY <1>2
    <3> HIDE DEF Newer
    <3>2. QED  BY <2>3, <3>1, FirstTime
  <2>5. m \in T /\ m > t  BY <2>4 DEF TimesOf
  <2>6. Since(found, m) = Newer
    <3>1. \A f \in Newer : f.at >= m  BY <1>1, <2>4 DEF TimesOf
    <3>2. \A f \in found : f.at >= m => f.at > t  BY <1>1, <2>5
    <3>3. QED  BY <3>1, <3>2 DEF Since
  <2>7. m \in Enough  BY <2>1, <2>5, <2>6
  <2>8. QED  BY <1>1, <1>5, <2>5, <2>7
<1>8. QED  BY <1>5, <1>6, <1>7

\* Fewer failures count less.
LEMMA FewerFailures ==
  ASSUME NEW S, IsFiniteSet(S), NEW T \in SUBSET S
  PROVE  /\ IsFiniteSet(T) /\ Cardinality(T) \in Nat /\ Cardinality(S) \in Nat
         /\ Cardinality(T) <= Cardinality(S)
  BY FS_Subset, FS_CardinalityType

\* The lookups of seconds_until_unlocked.
LEMMA LockFound ==
  ASSUME FailuresTyped, now \in Nat, NEW found \in SUBSET OfIp, NEW limit \in Nat \ {0}
  PROVE  /\ found \in SUBSET Failure /\ IsFiniteSet(found) /\ Cardinality(found) \in Nat
         /\ Cardinality(found) < limit => UnlockAt(found, limit) = Never
         /\ Cardinality(found) >= limit =>
              /\ UnlockAt(found, limit) \in Nat /\ UnlockAt(found, limit) > now
              /\ Cardinality({f \in found : f.at + Window > UnlockAt(found, limit)}) < limit
<1>1. found \in SUBSET failures /\ failures \subseteq Failure  BY DEF FailuresTyped, OfIp
<1>2. IsFiniteSet(found) /\ Cardinality(found) \in Nat
  BY <1>1, FewerFailures DEF FailuresTyped
<1>3. Window \in Nat  BY AccessAssumption
<1>4. ASSUME Cardinality(found) >= limit
      PROVE  /\ UnlockAt(found, limit) \in Nat /\ UnlockAt(found, limit) > now
             /\ Cardinality({f \in found : f.at + Window > UnlockAt(found, limit)}) < limit
  <2>1. found \in SUBSET Failure  BY <1>1
  <2>2. PICK t \in TimesOf(found) :
          /\ UnlockAt(found, limit) = t + Window
          /\ Cardinality({f \in found : f.at > t}) < limit
    BY <1>2, <1>4, <2>1, UnlockInTime
  <2>3. PICK f \in found : t = f.at  BY DEF TimesOf
  <2>4. t \in Nat /\ t > now - Window  BY <2>1, <2>3 DEF Failure, OfIp, Recent
  <2>5. t + Window \in Nat /\ t + Window > now  BY <1>3, <2>4
  <2>6. {g \in found : g.at + Window > t + Window} = {g \in found : g.at > t}
    <3>1. \A g \in found : g.at \in Nat  BY <2>1 DEF Failure
    <3>2. \A g \in found : g.at + Window > t + Window <=> g.at > t  BY <1>3, <2>4, <3>1
    <3>3. QED  BY <3>2
  <2>7. QED  BY <2>2, <2>5, <2>6
<1>5. Cardinality(found) < limit => UnlockAt(found, limit) = Never  BY DEF UnlockAt
<1>6. QED  BY <1>1, <1>2, <1>4, <1>5

\* Not locked means that there are less failures than either limit, and back.
LEMMA NotLocked ==
  ASSUME FailuresTyped, now \in Nat, NEW u \in Users
  PROVE  UnlockedAt(u) = Never <=> Cardinality(OfName(u)) < PerName /\ Cardinality(OfIp) < PerIp
<1>1. {PerName, PerIp} \subseteq Nat \ {0}  BY AccessAssumption
<1>2. OfName(u) \in SUBSET OfIp /\ OfIp \in SUBSET OfIp  BY DEF OfName, OfIp
<1>3. PICK n : n = UnlockAt(OfName(u), PerName)  OBVIOUS
<1>4. PICK i : i = UnlockAt(OfIp, PerIp)  OBVIOUS
<1>5. /\ Cardinality(OfName(u)) \in Nat
      /\ Cardinality(OfName(u)) < PerName => n = Never
      /\ Cardinality(OfName(u)) >= PerName => n \in Nat /\ n > now
  BY <1>1, <1>2, <1>3, LockFound
<1>6. /\ Cardinality(OfIp) \in Nat
      /\ Cardinality(OfIp) < PerIp => i = Never
      /\ Cardinality(OfIp) >= PerIp => i \in Nat /\ i > now
  BY <1>1, <1>2, <1>4, LockFound
<1>7. UnlockedAt(u) = IF (IF n > i THEN n ELSE i) > now THEN (IF n > i THEN n ELSE i) ELSE Never
  BY <1>3, <1>4, Zenon DEF UnlockedAt
<1>8. QED  BY <1>1, <1>5, <1>6, <1>7 DEF Never

\* A 429 promises a moment when less than the limits are left in the window.
LEMMA PromiseIsKept ==
  ASSUME FailuresTyped, now \in Nat, NEW u \in Users, NEW p, p = UnlockedAt(u), p # Never
  PROVE  /\ p \in Nat /\ p > now
         /\ Cardinality(InWindow(p)) < PerIp
         /\ Cardinality(InWindowOf(u, p)) < PerName
<1>1. {PerName, PerIp, Window} \subseteq Nat \ {0}  BY AccessAssumption
<1>2. OfName(u) \in SUBSET OfIp /\ OfIp \in SUBSET OfIp  BY DEF OfName, OfIp
<1>3. PICK n : n = UnlockAt(OfName(u), PerName)  OBVIOUS
<1>4. PICK i : i = UnlockAt(OfIp, PerIp)  OBVIOUS
<1>5. /\ IF Cardinality(OfName(u)) < PerName THEN n = Never ELSE n \in Nat /\ n > now
      /\ n # Never => Cardinality({f \in OfName(u) : f.at + Window > n}) < PerName
  BY <1>1, <1>2, <1>3, LockFound DEF Never
<1>6. /\ IF Cardinality(OfIp) < PerIp THEN i = Never ELSE i \in Nat /\ i > now
      /\ i # Never => Cardinality({f \in OfIp : f.at + Window > i}) < PerIp
  BY <1>1, <1>2, <1>4, LockFound DEF Never
<1>7. UnlockedAt(u) = IF (IF n > i THEN n ELSE i) > now THEN (IF n > i THEN n ELSE i) ELSE Never
  BY <1>3, <1>4, Zenon DEF UnlockedAt
<1>8. p \in Nat /\ p > now /\ n <= p /\ i <= p  BY <1>5, <1>6, <1>7 DEF Never
<1>9. \A f \in failures : f.at \in Nat  BY DEF FailuresTyped, Failure
<1>10. InWindow(p) \subseteq OfIp
  BY <1>1, <1>8, <1>9 DEF InWindow, OfIp, Recent
<1>11. InWindowOf(u, p) \subseteq OfName(u)
  BY <1>10 DEF InWindowOf, OfName, OfIp
<1>12. IsFiniteSet(OfIp) /\ IsFiniteSet(OfName(u))
  BY <1>1, <1>2, LockFound
<1>13. Cardinality(InWindow(p)) < PerIp
  <2>1. CASE i = Never
    BY <1>1, <1>6, <1>10, <1>12, <2>1, FewerFailures DEF Never
  <2>2. CASE i # Never
    <3> DEFINE S == {f \in OfIp : f.at + Window > i}
    <3>1. \A f \in OfIp : f.at \in Nat  BY <1>9 DEF OfIp
    <3>2. i \in Nat  BY <1>6, <2>2
    <3>3. InWindow(p) \subseteq S  BY <1>1, <1>8, <1>10, <3>1, <3>2 DEF InWindow
    <3>4. IsFiniteSet(S) /\ Cardinality(S) < PerIp
      BY <1>6, <1>12, <2>2, FewerFailures
    <3> HIDE DEF S
    <3>5. QED  BY <1>1, <3>3, <3>4, FewerFailures
  <2>3. QED  BY <2>1, <2>2
<1>14. Cardinality(InWindowOf(u, p)) < PerName
  <2>1. CASE n = Never
    BY <1>1, <1>5, <1>11, <1>12, <2>1, FewerFailures DEF Never
  <2>2. CASE n # Never
    <3> DEFINE S == {f \in OfName(u) : f.at + Window > n}
    <3>1. \A f \in OfName(u) : f.at \in Nat  BY <1>9 DEF OfName
    <3>2. n \in Nat  BY <1>5, <2>2
    <3>3. InWindowOf(u, p) \subseteq S
      BY <1>1, <1>8, <1>11, <3>1, <3>2 DEF InWindow, InWindowOf
    <3>4. IsFiniteSet(S) /\ Cardinality(S) < PerName
      BY <1>5, <1>12, <2>2, FewerFailures
    <3> HIDE DEF S
    <3>5. QED  BY <1>1, <3>3, <3>4, FewerFailures
  <2>3. QED  BY <2>1, <2>2
<1>15. QED  BY <1>8, <1>13, <1>14

\* What a promise says, when it is due.
LEMMA PromiseDue ==
  ASSUME LockInv, now \in Nat
  PROVE  RetryIsHonest
<1> SUFFICES ASSUME NEW u \in Users, promise[u] # Never, now >= promise[u]
             PROVE  UnlockedAt(u) = Never
  BY DEF RetryIsHonest
<1>1. {PerName, PerIp, Window} \subseteq Nat \ {0} /\ promise[u] \in Nat
  BY AccessAssumption DEF LockInv, FailuresTyped
<1>2. \A f \in failures : f.at \in Nat  BY DEF LockInv, FailuresTyped, Failure
<1>3. OfIp \subseteq InWindow(promise[u]) /\ InWindow(promise[u]) \subseteq failures
  BY <1>1, <1>2 DEF OfIp, Recent, InWindow
<1>4. OfName(u) \subseteq InWindowOf(u, promise[u]) /\ InWindowOf(u, promise[u]) \subseteq failures
  BY <1>1, <1>2, <1>3 DEF OfName, OfIp, InWindowOf
<1>5. /\ Cardinality(InWindow(promise[u])) < PerIp
      /\ Cardinality(InWindowOf(u, promise[u])) < PerName
  BY DEF LockInv, PromiseHolds
<1>6. IsFiniteSet(InWindow(promise[u])) /\ IsFiniteSet(InWindowOf(u, promise[u]))
  BY <1>3, <1>4, FewerFailures DEF LockInv, FailuresTyped
<1>7. Cardinality(OfIp) < PerIp /\ Cardinality(OfName(u)) < PerName
  BY <1>1, <1>3, <1>4, <1>5, <1>6, FewerFailures
<1>8. QED  BY <1>7, NotLocked DEF LockInv

\* Fewer failures and fewer sign-ins under way leave room.
LEMMA RoomShrinks ==
  ASSUME FailuresTyped, RoomLeft,
         OfIp' \subseteq OfIp, \A u \in Users : OfName(u)' \subseteq OfName(u),
         Checked' \subseteq Checked, \A d \in Checked' : call'[d].who = call[d].who
  PROVE  RoomLeft'
<1>1. /\ IsFiniteSet(failures) /\ IsFiniteSet(Clients) /\ Cardinality(Clients) \in Nat
      /\ {PerName, PerIp} \subseteq Nat \ {0}
  BY AccessAssumption, FS_CardinalityType DEF FailuresTyped
<1>2. /\ OfIp \subseteq failures /\ \A u \in Users : OfName(u) \subseteq failures
      /\ Checked \subseteq Clients
  BY DEF OfIp, OfName, Checked
<1>3. Cardinality(OfIp') + Cardinality(Checked') <= PerIp - 1 + Cardinality(Clients)
  <2>1. IsFiniteSet(OfIp) /\ IsFiniteSet(Checked)  BY <1>1, <1>2, FS_Subset
  <2>2. /\ Cardinality(OfIp') \in Nat /\ Cardinality(OfIp) \in Nat
        /\ Cardinality(OfIp') <= Cardinality(OfIp)
    BY <2>1, FewerFailures
  <2>3. /\ Cardinality(Checked') \in Nat /\ Cardinality(Checked) \in Nat
        /\ Cardinality(Checked') <= Cardinality(Checked)
    BY <2>1, FewerFailures
  <2>4. QED  BY <1>1, <2>2, <2>3 DEF RoomLeft
<1>4. ASSUME NEW u \in Users
      PROVE  Cardinality(OfName(u)') + Cardinality(CheckedOf(u)') <= PerName - 1 + Cardinality(Clients)
  <2>1. CheckedOf(u)' \subseteq CheckedOf(u) /\ CheckedOf(u) \subseteq Clients
    BY <1>2 DEF CheckedOf
  <2>2. IsFiniteSet(OfName(u)) /\ IsFiniteSet(CheckedOf(u))  BY <1>1, <1>2, <2>1, FS_Subset
  <2>3. /\ Cardinality(OfName(u)') \in Nat /\ Cardinality(OfName(u)) \in Nat
        /\ Cardinality(OfName(u)') <= Cardinality(OfName(u))
    BY <2>2, FewerFailures
  <2>4. /\ Cardinality(CheckedOf(u)') \in Nat /\ Cardinality(CheckedOf(u)) \in Nat
        /\ Cardinality(CheckedOf(u)') <= Cardinality(CheckedOf(u))
    BY <2>1, <2>2, FewerFailures
  <2>5. QED  BY <1>1, <2>3, <2>4 DEF RoomLeft
<1>5. QED  BY <1>3, <1>4 DEF RoomLeft

\* Time passes, failures are taken away, sign-ins end and promises lapse: none
\* of it disturbs the lockout.
LEMMA LockShrinks ==
  ASSUME LockInv, now \in Nat, now' \in Nat, now' >= now, failures' \subseteq failures,
         \A d \in Clients : At(d, "login", "checked")' => call'[d] = call[d],
         promise' \in [Users -> Nat \cup {Never}],
         \A u \in Users : promise'[u] \in {promise[u], Never}
  PROVE  LockInv'
<1>1. failures \subseteq Failure /\ IsFiniteSet(failures) /\ IsFiniteSet(Clients)
  BY AccessAssumption DEF LockInv, FailuresTyped
<1>2. {PerName, PerIp, Window} \subseteq Nat \ {0}  BY AccessAssumption
<1>3. FailuresTyped'
  <2>1. IsFiniteSet(failures')  BY <1>1, FS_Subset
  <2>2. \A f \in failures' : f.at <= now'
    BY <1>1 DEF LockInv, FailuresTyped, Failure
  <2>3. QED  BY <1>1, <2>1, <2>2 DEF FailuresTyped, Failure
<1>4. \A f \in failures : Recent(f)' => Recent(f)
  BY <1>1, <1>2 DEF Recent, Failure
<1>5. RoomLeft'
  <2>1. OfIp' \subseteq OfIp /\ \A u \in Users : OfName(u)' \subseteq OfName(u)
    BY <1>4 DEF OfIp, OfName
  <2>2. Checked' \subseteq Checked /\ \A d \in Checked' : call'[d] = call[d]
    BY DEF Checked, At
  <2>3. QED  BY <2>1, <2>2, RoomShrinks DEF LockInv
<1>6. PromiseHolds'
  <2>1. ASSUME NEW u \in Users, promise'[u] # Never
        PROVE  /\ Cardinality(InWindow(promise[u])') < PerIp
               /\ Cardinality(InWindowOf(u, promise[u])') < PerName
    <3>1. PICK t : t = promise[u] /\ t = promise'[u] /\ t # Never  BY <2>1
    <3>2. Cardinality(InWindow(t)) < PerIp /\ Cardinality(InWindowOf(u, t)) < PerName
      BY <3>1 DEF LockInv, PromiseHolds
    <3>3. InWindow(t)' \subseteq InWindow(t) /\ InWindow(t) \subseteq failures
      BY DEF InWindow
    <3>4. InWindowOf(u, t)' \subseteq InWindowOf(u, t) /\ InWindowOf(u, t) \subseteq failures
      BY DEF InWindow, InWindowOf
    <3>5. IsFiniteSet(InWindow(t)) /\ IsFiniteSet(InWindowOf(u, t))
      BY <1>1, <3>3, <3>4, FS_Subset
    <3>6. Cardinality(InWindow(t)') < PerIp /\ Cardinality(InWindowOf(u, t)') < PerName
      BY <1>2, <3>2, <3>3, <3>4, <3>5, FewerFailures
    <3>7. QED  BY <3>1, <3>6 DEF InWindow, InWindowOf
  <2>2. QED  BY <2>1 DEF PromiseHolds
<1>7. QED  BY <1>3, <1>5, <1>6 DEF LockInv

\* A sign-in that is let through has room below both limits; one that is not is
\* promised a moment when it would have.
LEMMA LoginCheckLocks ==
  ASSUME RequestInv, LockInv, NEW c \in Clients, LoginCheck(c)
  PROVE  LockInv'
<1>1. PICK u \in Users :
        /\ Begin(c, "login", 0, IF UnlockedAt(u) = Never THEN "checked" ELSE "answered", u, u)
        /\ promise' = IF UnlockedAt(u) = Never THEN promise
                      ELSE [promise EXCEPT ![u] = UnlockedAt(u)]
        /\ UNCHANGED <<now, failures>>
  BY DEF LoginCheck
<1>2. now \in Nat /\ call \in [Clients -> Request \cup {Idle}]
  BY DEF RequestInv, RequestsTyped
<1>3. FailuresTyped /\ RoomLeft /\ PromiseHolds  BY DEF LockInv
<1>4. /\ call'[c].who = u
      /\ call'[c].stage = IF UnlockedAt(u) = Never THEN "checked" ELSE "answered"
      /\ \A d \in Clients \ {c} : call'[d] = call[d]
  BY <1>1, <1>2 DEF Begin
<1>5. CASE UnlockedAt(u) = Never
  <2>1. /\ promise' = promise
        /\ Cardinality(OfName(u)) < PerName /\ Cardinality(OfIp) < PerIp
    BY <1>1, <1>2, <1>3, <1>5, NotLocked
  <2>2. OfIp' = OfIp /\ \A v : OfName(v)' = OfName(v)
    BY <1>1 DEF OfIp, OfName, Recent
  <2>3. FailuresTyped'  BY <1>1, <1>3, <2>1 DEF FailuresTyped
  <2>4. PromiseHolds'
    BY <1>1, <1>3, <2>1 DEF PromiseHolds, InWindow, InWindowOf
  <2>5. IsFiniteSet(Clients) /\ {PerName, PerIp} \subseteq Nat \ {0} /\ Cardinality(Clients) \in Nat
    BY AccessAssumption, FS_CardinalityType
  <2>6. OfIp \in SUBSET failures /\ \A v : OfName(v) \in SUBSET failures
    BY DEF OfIp, OfName
  <2>7. IsFiniteSet(failures)  BY <1>3 DEF FailuresTyped
  <2>8. Cardinality(OfIp) + Cardinality(Checked') <= PerIp - 1 + Cardinality(Clients)
    <3>1. Checked' \in SUBSET Clients  BY DEF Checked
    <3>2. Cardinality(Checked') \in Nat /\ Cardinality(Checked') <= Cardinality(Clients)
      BY <2>5, <3>1, FewerFailures
    <3>3. Cardinality(OfIp) \in Nat  BY <2>6, <2>7, FewerFailures
    <3>4. QED  BY <2>1, <2>5, <3>2, <3>3
  <2>9. ASSUME NEW v \in Users
        PROVE  Cardinality(OfName(v)) + Cardinality(CheckedOf(v)')
                 <= PerName - 1 + Cardinality(Clients)
    <3>1. Cardinality(OfName(v)) \in Nat  BY <2>6, <2>7, FewerFailures
    <3>2. CASE v = u
      <4>1. CheckedOf(u)' \in SUBSET Clients  BY DEF CheckedOf, Checked
      <4>2. /\ Cardinality(CheckedOf(u)') \in Nat
            /\ Cardinality(CheckedOf(u)') <= Cardinality(Clients)
        BY <2>5, <4>1, FewerFailures
      <4>3. QED  BY <2>1, <2>5, <3>1, <3>2, <4>2
    <3>3. CASE v # u
      <4>1. CheckedOf(v)' \in SUBSET CheckedOf(v) /\ CheckedOf(v) \in SUBSET Clients
        BY <1>4, <3>3 DEF CheckedOf, Checked, At
      <4>2. IsFiniteSet(CheckedOf(v))  BY <2>5, <4>1, FS_Subset
      <4>3. /\ Cardinality(CheckedOf(v)') \in Nat /\ Cardinality(CheckedOf(v)) \in Nat
            /\ Cardinality(CheckedOf(v)') <= Cardinality(CheckedOf(v))
        BY <4>1, <4>2, FewerFailures
      <4>4. QED  BY <1>3, <2>5, <3>1, <4>3 DEF RoomLeft
    <3>4. QED  BY <3>2, <3>3
  <2>10. RoomLeft'  BY <2>2, <2>8, <2>9 DEF RoomLeft
  <2>11. QED  BY <2>3, <2>4, <2>10 DEF LockInv
<1>6. CASE UnlockedAt(u) # Never
  <2>1. PICK p : p = UnlockedAt(u)  OBVIOUS
  <2>2. /\ p \in Nat
        /\ Cardinality(InWindow(p)) < PerIp
        /\ Cardinality(InWindowOf(u, p)) < PerName
    BY <1>2, <1>3, <1>6, <2>1, PromiseIsKept
  <2>3. promise' = [promise EXCEPT ![u] = p] /\ promise \in [Users -> Nat \cup {Never}]
    BY <1>1, <1>3, <1>6, <2>1 DEF FailuresTyped
  <2>4. promise'[u] = p /\ \A v \in Users \ {u} : promise'[v] = promise[v]
    BY <2>3
  <2>5. FailuresTyped'  BY <1>1, <1>3, <2>2, <2>3 DEF FailuresTyped
  <2>6. \A t, v : InWindow(t)' = InWindow(t) /\ InWindowOf(v, t)' = InWindowOf(v, t)
    BY <1>1 DEF InWindow, InWindowOf
  <2>7. PromiseHolds'
    <3>1. ASSUME NEW v \in Users, promise'[v] # Never
          PROVE  /\ Cardinality({f \in failures : f.at + Window > promise'[v]}) < PerIp
                 /\ Cardinality({f \in failures : f.at + Window > promise'[v] /\ f.name = v}) < PerName
      <4>1. CASE v = u
        BY <2>2, <2>4, <4>1 DEF InWindow, InWindowOf
      <4>2. CASE v # u
        BY <1>3, <2>4, <3>1, <4>2 DEF PromiseHolds, InWindow, InWindowOf
      <4>3. QED  BY <4>1, <4>2
    <3>2. QED  BY <1>1, <3>1 DEF PromiseHolds, InWindow, InWindowOf
  <2>8. RoomLeft'
    <3>1. call'[c].stage = "answered"  BY <1>4, <1>6
    <3>2. Checked' \subseteq Checked /\ \A d \in Checked' : call'[d] = call[d]
      BY <1>4, <3>1 DEF Checked, At
    <3>3. OfIp' = OfIp /\ \A v \in Users : OfName(v)' = OfName(v)
      BY <1>1 DEF OfIp, OfName, Recent
    <3>4. QED  BY <1>3, <3>2, <3>3, RoomShrinks
  <2>9. QED  BY <2>5, <2>7, <2>8 DEF LockInv
<1>7. QED  BY <1>5, <1>6

\* One failure more counts one more, at most.
LEMMA OneMore ==
  ASSUME NEW S, IsFiniteSet(S), NEW x
  PROVE  /\ IsFiniteSet(S \cup {x}) /\ Cardinality(S) \in Nat
         /\ Cardinality(S \cup {x}) <= Cardinality(S) + 1
<1>1. PICK n : n = Cardinality(S) /\ n \in Nat  BY FS_CardinalityType
<1>2. PICK m : m = Cardinality(S \cup {x})  OBVIOUS
<1>3. IsFiniteSet(S \cup {x}) /\ m = IF x \in S THEN n ELSE n + 1
  BY <1>1, <1>2, FS_AddElement, Zenon
<1>4. QED  BY <1>1, <1>2, <1>3

\* A wrong password turns a sign-in under way into a failure; promises lapse.
LEMMA LoginFailLocks ==
  ASSUME RequestInv, LockInv, NEW c \in Clients, LoginFail(c)
  PROVE  LockInv'
<1>1. PICK u : u = call[c].who  OBVIOUS
<1>2. PICK new : new = [name |-> u, at |-> now,
                        nth |-> Cardinality({f \in failures : f.name = u /\ f.at = now}) + 1]
  OBVIOUS
<1>3. /\ At(c, "login", "checked") /\ Goes(c, "answered")
      /\ failures' = {f \in failures : Recent(f)} \cup {new}
      /\ promise' = [v \in Users |-> Never]
      /\ UNCHANGED now
  BY <1>1, <1>2 DEF LoginFail
<1>4. now \in Nat /\ call \in [Clients -> Request \cup {Idle}]
  BY DEF RequestInv, RequestsTyped
<1>5. u \in Users
  <2>1. call[c] # Idle  BY <1>3 DEF At, Idle
  <2>2. InHand(c)  BY <2>1 DEF RequestInv, CallsInHand
  <2>3. QED  BY <1>1, <1>3, <2>2 DEF InHand, At
<1>6. FailuresTyped /\ RoomLeft /\ failures \subseteq Failure /\ IsFiniteSet(failures)
  BY DEF LockInv, FailuresTyped
<1>7. /\ IsFiniteSet(Clients) /\ Cardinality(Clients) \in Nat
      /\ {PerName, PerIp} \subseteq Nat \ {0}
  BY AccessAssumption, FS_CardinalityType
<1>8. new \in Failure /\ new.name = u /\ new.at = now
  <2>1. {f \in failures : f.name = u /\ f.at = now} \in SUBSET failures  OBVIOUS
  <2>2. Cardinality({f \in failures : f.name = u /\ f.at = now}) \in Nat
    BY <1>6, <2>1, FewerFailures
  <2>3. QED  BY <1>2, <1>4, <1>5, <2>2 DEF Failure
<1>9. FailuresTyped'
  <2>1. IsFiniteSet({f \in failures : Recent(f)})
    <3>1. {f \in failures : Recent(f)} \in SUBSET failures  OBVIOUS
    <3>2. QED  BY <1>6, <3>1, FS_Subset
  <2>2. IsFiniteSet(failures')  BY <1>3, <2>1, FS_AddElement
  <2>3. failures' \subseteq Failure  BY <1>3, <1>6, <1>8
  <2>4. \A f \in failures' : f.at <= now'  BY <1>3, <1>4, <1>6, <1>8 DEF FailuresTyped
  <2>5. QED  BY <1>3, <2>2, <2>3, <2>4 DEF FailuresTyped
<1>10. PromiseHolds'  BY <1>3 DEF PromiseHolds
<1>11. call'[c].stage = "answered" /\ \A d \in Clients \ {c} : call'[d] = call[d]
  BY <1>3, <1>4 DEF Goes, Request, At, Idle
<1>12. /\ Checked' \subseteq Checked \ {c} /\ c \in Checked /\ Checked \in SUBSET Clients
       /\ \A d \in Checked' : call'[d] = call[d]
  BY <1>3, <1>11 DEF Checked, At
<1>13. OfIp \in SUBSET failures /\ \A v : OfName(v) \in SUBSET failures
  BY DEF OfIp, OfName
<1>14. Cardinality(OfIp') + Cardinality(Checked') <= PerIp - 1 + Cardinality(Clients)
  <2>1. OfIp' \in SUBSET (OfIp \cup {new})  BY <1>3 DEF OfIp, Recent
  <2>2. IsFiniteSet(OfIp) /\ IsFiniteSet(Checked)  BY <1>6, <1>7, <1>12, <1>13, FS_Subset
  <2>3. /\ IsFiniteSet(OfIp \cup {new}) /\ Cardinality(OfIp) \in Nat
        /\ Cardinality(OfIp \cup {new}) <= Cardinality(OfIp) + 1
    BY <2>2, OneMore
  <2>4. /\ IsFiniteSet(Checked \ {c}) /\ Cardinality(Checked) \in Nat
        /\ Cardinality(Checked \ {c}) = Cardinality(Checked) - 1
    BY <1>12, <2>2, FS_RemoveElement, FS_CardinalityType
  <2>5. /\ Cardinality(OfIp') \in Nat
        /\ Cardinality(OfIp') <= Cardinality(OfIp \cup {new})
        /\ Cardinality(OfIp \cup {new}) \in Nat
    BY <2>1, <2>3, FewerFailures
  <2>6. /\ Cardinality(Checked') \in Nat
        /\ Cardinality(Checked') <= Cardinality(Checked \ {c})
    BY <1>12, <2>4, FewerFailures
  <2>7. QED  BY <1>6, <1>7, <2>3, <2>4, <2>5, <2>6 DEF RoomLeft
<1>15. ASSUME NEW v \in Users
       PROVE  Cardinality(OfName(v)') + Cardinality(CheckedOf(v)')
                <= PerName - 1 + Cardinality(Clients)
  <2>1. IsFiniteSet(OfName(v)) /\ IsFiniteSet(CheckedOf(v)) /\ CheckedOf(v) \in SUBSET Checked
    BY <1>6, <1>7, <1>12, <1>13, FS_Subset DEF CheckedOf
  <2>2. CASE v = u
    <3>1. OfName(v)' \in SUBSET (OfName(v) \cup {new})  BY <1>3 DEF OfName, Recent
    <3>2. /\ IsFiniteSet(OfName(v) \cup {new}) /\ Cardinality(OfName(v)) \in Nat
          /\ Cardinality(OfName(v) \cup {new}) <= Cardinality(OfName(v)) + 1
      BY <2>1, OneMore
    <3>3. c \in CheckedOf(v) /\ CheckedOf(v)' \in SUBSET (CheckedOf(v) \ {c})
      BY <1>1, <1>12, <2>2 DEF CheckedOf
    <3>4. /\ IsFiniteSet(CheckedOf(v) \ {c}) /\ Cardinality(CheckedOf(v)) \in Nat
          /\ Cardinality(CheckedOf(v) \ {c}) = Cardinality(CheckedOf(v)) - 1
      BY <2>1, <3>3, FS_RemoveElement, FS_CardinalityType
    <3>5. /\ Cardinality(OfName(v)') \in Nat
          /\ Cardinality(OfName(v)') <= Cardinality(OfName(v) \cup {new})
          /\ Cardinality(OfName(v) \cup {new}) \in Nat
      BY <3>1, <3>2, FewerFailures
    <3>6. /\ Cardinality(CheckedOf(v)') \in Nat
          /\ Cardinality(CheckedOf(v)') <= Cardinality(CheckedOf(v) \ {c})
      BY <3>3, <3>4, FewerFailures
    <3>7. QED  BY <1>6, <1>7, <3>2, <3>4, <3>5, <3>6 DEF RoomLeft
  <2>3. CASE v # u
    <3>1. OfName(v)' \in SUBSET OfName(v)  BY <1>3, <1>8, <2>3 DEF OfName, Recent
    <3>2. CheckedOf(v)' \in SUBSET CheckedOf(v)  BY <1>12 DEF CheckedOf
    <3>3. /\ Cardinality(OfName(v)') \in Nat /\ Cardinality(OfName(v)) \in Nat
          /\ Cardinality(OfName(v)') <= Cardinality(OfName(v))
          /\ Cardinality(CheckedOf(v)') \in Nat /\ Cardinality(CheckedOf(v)) \in Nat
          /\ Cardinality(CheckedOf(v)') <= Cardinality(CheckedOf(v))
      BY <2>1, <3>1, <3>2, FewerFailures
    <3>4. QED  BY <1>6, <1>7, <3>3 DEF RoomLeft
  <2>4. QED  BY <2>2, <2>3
<1>16. QED  BY <1>9, <1>10, <1>14, <1>15 DEF LockInv, RoomLeft

LEMMA LockInit == AccessInit => LockInv
<1> SUFFICES ASSUME AccessInit PROVE LockInv
  OBVIOUS
<1> USE DEF AccessInit
<1>1. IsFiniteSet({}) /\ Cardinality({}) = 0  BY FS_EmptySet
<1>2. FailuresTyped  BY <1>1 DEF FailuresTyped
<1>3. Checked = {} /\ \A u : CheckedOf(u) = {}
  BY DEF Checked, CheckedOf, At, Idle
<1>4. OfIp = {} /\ \A u : OfName(u) = {}  BY DEF OfIp, OfName
<1>5. Cardinality(Clients) \in Nat /\ {PerName, PerIp} \subseteq Nat \ {0}
  BY AccessAssumption, FS_CardinalityType
<1>6. RoomLeft
  <2>1. Cardinality(OfIp) = 0 /\ Cardinality(Checked) = 0  BY <1>1, <1>3, <1>4, Zenon
  <2>2. \A u : Cardinality(OfName(u)) = 0 /\ Cardinality(CheckedOf(u)) = 0
    BY <1>1, <1>3, <1>4, Zenon
  <2>3. PICK n \in Nat : n = Cardinality(Clients)  BY <1>5
  <2>4. QED  BY <1>5, <2>1, <2>2, <2>3 DEF RoomLeft
<1>7. PromiseHolds  BY DEF PromiseHolds
<1>8. QED  BY <1>2, <1>6, <1>7 DEF LockInv

\* A request that begins or moves on without having passed the lock.
LEMMA OtherRequestsLock ==
  ASSUME RequestInv, LockInv, NEW c \in Clients,
         \A d \in Clients \ {c} : call'[d] = call[d],
         call'[c].kind # "login" \/ call'[c].stage # "checked",
         UNCHANGED <<now, promise>>, failures' \subseteq failures
  PROVE  LockInv'
<1>1. now \in Nat  BY DEF RequestInv, RequestsTyped
<1>2. \A d \in Clients : At(d, "login", "checked")' => call'[d] = call[d]  BY DEF At
<1>3. promise \in [Users -> Nat \cup {Never}]  BY DEF LockInv, FailuresTyped
<1>4. QED  BY <1>1, <1>2, <1>3, LockShrinks

LEMMA ServeLocks ==
  ASSUME RequestInv, LockInv, NEW c \in Clients, Serve(c)
  PROVE  LockInv'
<1>1. call \in [Clients -> Request \cup {Idle}]  BY DEF RequestInv, RequestsTyped
<1>2. CASE LoginCheck(c)  BY <1>2, LoginCheckLocks
<1>3. CASE LoginFail(c)  BY <1>3, LoginFailLocks
<1>4. CASE LoginClear(c) \/ LoginIssue(c) \/ WriteHandle(c) \/ LogoutRevoke(c)
  <2>1. PICK stage \in {"cleared", "answered"} : Goes(c, stage)
    BY <1>4 DEF LoginClear, LoginIssue, WriteHandle, LogoutRevoke
  <2>2. call[c].stage # "idle"
    BY <1>4 DEF LoginClear, LoginIssue, WriteHandle, LogoutRevoke, At
  <2>3. call[c] \in Request  BY <1>1, <2>2 DEF Idle
  <2>4. call'[c].stage # "checked" /\ \A d \in Clients \ {c} : call'[d] = call[d]
    BY <1>1, <2>1, <2>3 DEF Goes, Request
  <2>5. UNCHANGED <<now, promise>> /\ failures' \subseteq failures
    BY <1>4 DEF LoginClear, LoginIssue, WriteHandle, LogoutRevoke
  <2>6. QED  BY <2>4, <2>5, OtherRequestsLock
<1>5. CASE WriteBegin(c) \/ LogoutBegin(c)
  <2>1. /\ call'[c].kind \in {"write", "logout"}
        /\ \A d \in Clients \ {c} : call'[d] = call[d]
        /\ UNCHANGED <<now, promise, failures>>
    BY <1>1, <1>5 DEF WriteBegin, LogoutBegin, Begin
  <2>2. QED  BY <2>1, OtherRequestsLock
<1>6. CASE Journal(c) \/ Unjournaled(c)
  <2>1. /\ call'[c] = Idle
        /\ \A d \in Clients \ {c} : call'[d] = call[d]
        /\ UNCHANGED <<now, promise, failures>>
    BY <1>1, <1>6 DEF Journal, Unjournaled
  <2>2. call'[c].stage # "checked"  BY <2>1 DEF Idle
  <2>3. QED  BY <2>1, <2>2, OtherRequestsLock
<1>7. QED  BY <1>2, <1>3, <1>4, <1>5, <1>6 DEF Serve

LEMMA LockStep ==
  ASSUME RequestInv, RequestInv', LockInv, [ServiceNext]_service
  PROVE  LockInv'
<1>1. now \in Nat /\ now' \in Nat  BY DEF RequestInv, RequestsTyped
<1>2. promise \in [Users -> Nat \cup {Never}]  BY DEF LockInv, FailuresTyped
<1>3. CASE Down
  <2>1. \A d \in Clients : ~At(d, "login", "checked")'  BY <1>3 DEF Down, At, Idle
  <2>2. UNCHANGED <<now, failures, promise>>  BY <1>3 DEF Down
  <2>3. QED  BY <1>1, <1>2, <2>1, <2>2, LockShrinks
<1>4. CASE Lifespan \/ UNCHANGED service
  <2>1. UNCHANGED <<now, failures, promise, call>>
    BY <1>4 DEF Lifespan, service, access
  <2>2. QED  BY <1>1, <1>2, <2>1, LockShrinks
<1>5. CASE Migrate
  <2>1. /\ failures' \subseteq failures /\ UNCHANGED <<now, call>>
        /\ promise' \in {promise, [u \in Users |-> Never]}
    BY <1>5 DEF Migrate
  <2>2. \A u \in Users : promise'[u] \in {promise[u], Never}  BY <2>1
  <2>3. promise' \in [Users -> Nat \cup {Never}]  BY <1>2, <2>1
  <2>4. QED  BY <1>1, <2>1, <2>2, <2>3, LockShrinks
<1>6. CASE Requests  BY <1>6, ServeLocks DEF Requests
<1>7. CASE Tick
  <2>1. UNCHANGED <<failures, promise, call>> /\ now' >= now  BY <1>1, <1>7 DEF Tick
  <2>2. QED  BY <1>1, <1>2, <2>1, LockShrinks
<1>8. QED  BY <1>3, <1>4, <1>5, <1>6, <1>7 DEF ServiceNext

LEMMA LockInvHolds == ServiceSpec => []LockInv
<1>1. ServiceInit => LockInv  BY LockInit DEF ServiceInit
<1>2. RequestInv /\ RequestInv' /\ LockInv /\ [ServiceNext]_service => LockInv'  BY LockStep
<1>3. QED  BY <1>1, <1>2, RequestInvHolds, PTL DEF ServiceSpec

\* However sign-ins interleave, the failures in a window stay below the limits
\* but for the requests that were under way together; and a lock is over in the
\* moment that its 429 announced.
THEOREM LockoutIsSound == ServiceSpec => []LockoutSound
<1>1. RequestInv /\ LockInv => LockoutSound
  <2> SUFFICES ASSUME RequestInv, LockInv PROVE FailuresBounded /\ RetryIsHonest
    BY DEF LockoutSound
  <2>1. RetryIsHonest  BY PromiseDue DEF RequestInv, RequestsTyped
  <2>2. IsFiniteSet(failures) /\ IsFiniteSet(Clients) /\ Cardinality(Clients) \in Nat
        /\ {PerName, PerIp} \subseteq Nat \ {0}
    BY AccessAssumption, FS_CardinalityType DEF LockInv, FailuresTyped
  <2>3. OfIp \in SUBSET failures /\ Checked \in SUBSET Clients  BY DEF OfIp, Checked
  <2>4. Cardinality(OfIp) <= PerIp - 1 + Cardinality(Clients)
    <3>1. Cardinality(OfIp) \in Nat /\ Cardinality(Checked) \in Nat
      BY <2>2, <2>3, FewerFailures
    <3>2. QED  BY <2>2, <3>1 DEF LockInv, RoomLeft
  <2>5. ASSUME NEW u \in Users
        PROVE  Cardinality(OfName(u)) <= PerName - 1 + Cardinality(Clients)
    <3>1. OfName(u) \in SUBSET failures /\ CheckedOf(u) \in SUBSET Clients
      BY <2>3 DEF OfName, CheckedOf
    <3>2. Cardinality(OfName(u)) \in Nat /\ Cardinality(CheckedOf(u)) \in Nat
      BY <2>2, <3>1, FewerFailures
    <3>3. QED  BY <2>2, <3>2 DEF LockInv, RoomLeft
  <2>6. QED  BY <2>1, <2>4, <2>5 DEF FailuresBounded
<1>2. QED  BY <1>1, RequestInvHolds, LockInvHolds, PTL

\* The types of the sign-in, its sessions and its journal.
THEOREM AccessTypeCorrect == ServiceSpec => []AccessTypeOK
<1>1. RequestInv /\ LockInv => AccessTypeOK
  <2> SUFFICES ASSUME RequestInv, LockInv PROVE AccessTypeOK
    OBVIOUS
  <2>1. /\ now \in Nat /\ sessions \in Seq(Session) /\ entries \subseteq Entry
        /\ call \in [Clients -> Request \cup {Idle}] /\ ended \subseteq Tokens
    BY DEF RequestInv, RequestsTyped
  <2>2. \A t \in Tokens : sessions[t] \in Session  BY <2>1 DEF Tokens
  <2>3. \A f \in failures : f.name \in Users /\ f.at \in 0 .. now /\ f.nth \in Nat
    BY <2>1 DEF LockInv, FailuresTyped, Failure
  <2>4. \A e \in entries : {e.who, e.actor} \subseteq Users \cup {Nobody}
    BY <2>1 DEF Entry, Named
  <2>5. \A c \in Clients :
          /\ call[c].stage \in Stages
          /\ call[c] # Idle => {call[c].who, call[c].named} \subseteq Users \cup {Nobody}
    BY <2>1 DEF Request, Idle, Stages, Named
  <2>6. QED  BY <2>1, <2>2, <2>3, <2>4, <2>5 DEF AccessTypeOK, Session, LockInv, FailuresTyped
<1>2. QED  BY <1>1, RequestInvHolds, LockInvHolds, PTL
=============================================================================
