----------------------------- MODULE EventSync -----------------------------
(***************************************************************************)
(* The first link of the chain SensorReading -> Event -> Risk: readings    *)
(* are written by the SMVU replay loop (replay_engine.tick_once) and by    *)
(* scenario activations (fixture_scenarios.activate_scenario), and every   *)
(* GET /events request first runs event_sync.sync_events, which turns the  *)
(* notable readings above a persisted high-water mark into Event rows.     *)
(*                                                                         *)
(* All of them share one PostgreSQL database at READ COMMITTED.  A         *)
(* statement sees what is committed when it runs; reading ids come from a  *)
(* sequence when a row is flushed, so the order of ids is the order of     *)
(* INSERTs, not of COMMITs.  The flush of a sync (INSERT of its events,    *)
(* UPDATE of the mark) and its COMMIT are one step here: an INSERT of a    *)
(* key another transaction has inserted waits for that transaction and     *)
(* then fails or goes on exactly as if it had run after its COMMIT.        *)
(***************************************************************************)
EXTENDS Naturals, FiniteSets

CONSTANTS
  Replay,       \* the replay loop
  Activations,  \* concurrent POST /system/scenarios/{id}/activate handlers
  Requests,     \* concurrent GET /events handlers (and the sync at startup)
  BatchSize,    \* _BATCH_SIZE
  MaxReading,   \* bound: reading ids the sequence hands out
  MaxCrashes,   \* bound: crashes of the process
  None          \* no request

ASSUME SyncAssumption ==
  /\ Replay \notin Activations
  /\ None \notin Requests
  /\ BatchSize \in Nat \ {0}
  /\ MaxReading \in Nat
  /\ MaxCrashes \in Nat

Writers == {Replay} \cup Activations
Ids == 1 .. MaxReading

VARIABLES
  nextId,    \* sensor_readings_id_seq
  alarms,    \* ids whose reading has is_alarm or is_anomaly (and a known channel)
  pending,   \* per writer: ids flushed in its open transaction
  readings,  \* ids of committed sensor_readings rows
  hasState,  \* the event_sync_state singleton row is committed
  mark,      \* its last_synced_reading_id (0 while there is no row)
  events,    \* committed events rows, by source_reading_id
  creator,   \* the request whose open transaction inserted the singleton
  pc,        \* per request: its next statement
  seen,      \* per request: the mark held by its ORM state object
  batch,     \* per request: the rows it selected
  owed,      \* history: notable readings committed when the request began
  crashes

log == <<nextId, alarms, pending, readings>>
table == <<hasState, mark, events>>
request == <<creator, pc, seen, batch, owed>>
vars == <<log, table, request, crashes>>

Notable == readings \cap alarms

TypeOK ==
  /\ nextId \in 1 .. MaxReading + 1
  /\ alarms \subseteq 1 .. nextId - 1
  /\ readings \subseteq 1 .. nextId - 1
  /\ pending \in [Writers -> SUBSET (1 .. nextId - 1)]
  /\ hasState \in BOOLEAN
  /\ mark \in 0 .. MaxReading
  /\ ~hasState => mark = 0
  /\ events \subseteq Ids
  /\ creator \in Requests \cup {None}
  /\ pc \in [Requests -> {"idle", "create", "select", "write", "answer"}]
  /\ seen \in [Requests -> 0 .. MaxReading]
  /\ batch \in [Requests -> SUBSET Ids]
  /\ owed \in [Requests -> SUBSET Ids]
  /\ crashes \in 0 .. MaxCrashes

Init ==
  /\ nextId = 1
  /\ alarms = {}
  /\ pending = [w \in Writers |-> {}]
  /\ readings = {}
  /\ hasState = FALSE
  /\ mark = 0
  /\ events = {}
  /\ creator = None
  /\ pc = [s \in Requests |-> "idle"]
  /\ seen = [s \in Requests |-> 0]
  /\ batch = [s \in Requests |-> {}]
  /\ owed = [s \in Requests |-> {}]
  /\ crashes = 0

-----------------------------------------------------------------------------
(* Writers of sensor_readings.                                              *)

\* Mutated form: the id is taken and not used up.
FlushSameId(w, notable) ==
  /\ nextId <= MaxReading
  /\ pending' = [pending EXCEPT ![w] = @ \cup {nextId}]
  /\ alarms' = IF notable THEN alarms \cup {nextId} ELSE alarms
  /\ UNCHANGED <<nextId, readings, table, request, crashes>>

\* One INSERT of an open transaction: the sequence gives the id at once.
FlushReading(w, notable) ==
  /\ nextId <= MaxReading
  /\ nextId' = nextId + 1
  /\ pending' = [pending EXCEPT ![w] = @ \cup {nextId}]
  /\ alarms' = IF notable THEN alarms \cup {nextId} ELSE alarms
  /\ UNCHANGED <<readings, table, request, crashes>>

CommitReadings(w) ==
  /\ pending[w] # {}
  /\ readings' = readings \cup pending[w]
  /\ pending' = [pending EXCEPT ![w] = {}]
  /\ UNCHANGED <<nextId, alarms, table, request, crashes>>

\* tick_once adds a copy of every reading of the slice, flushed by commit().
TickInsert == \E notable \in BOOLEAN : FlushReading(Replay, notable)
TickCommit == CommitReadings(Replay)

\* One step of the scenario: the channel lookup of the following step
\* autoflushes it, so it waits in the open transaction with its id.
ActivateStep(a) == \E notable \in BOOLEAN : FlushReading(a, notable)
ActivateCommit(a) == CommitReadings(a)

\* The facility has no channel for a later step: ScenarioActivationError,
\* and leaving the session rolls the earlier steps back.
ActivateFail(a) ==
  /\ pending[a] # {}
  /\ pending' = [pending EXCEPT ![a] = {}]
  /\ UNCHANGED <<nextId, alarms, readings, table, request, crashes>>

-----------------------------------------------------------------------------
(* sync_events, statement by statement, at the top of GET /events.          *)

\* The transaction of s is over: its uncommitted singleton row, if it
\* inserted one, no longer blocks the other requests.
EndTransaction(s) == creator' = IF creator = s THEN None ELSE creator

\* SELECT event_sync_state.
SyncStart(s) ==
  /\ pc[s] = "idle"
  /\ pc' = [pc EXCEPT ![s] = IF hasState THEN "select" ELSE "create"]
  /\ seen' = [seen EXCEPT ![s] = mark]
  /\ owed' = [owed EXCEPT ![s] = Notable]
  /\ UNCHANGED <<log, table, creator, batch, crashes>>

\* INSERT of the missing singleton: waits for a request that holds one.
SyncCreate(s) ==
  /\ pc[s] = "create"
  /\ ~hasState
  /\ creator = None
  /\ creator' = s
  /\ pc' = [pc EXCEPT ![s] = "select"]
  /\ UNCHANGED <<log, table, seen, batch, owed, crashes>>

\* The other request has committed it: IntegrityError, the request is a 500.
SyncCreateFail(s) ==
  /\ pc[s] = "create"
  /\ hasState
  /\ pc' = [pc EXCEPT ![s] = "idle"]
  /\ UNCHANGED <<log, table, creator, seen, batch, owed, crashes>>

\* Mutated form: ORDER BY id DESC.
LastRows(S, n) == {r \in S : Cardinality({q \in S : q > r}) < n}

\* The first n rows of S in the order of ids (ORDER BY id LIMIT n).
FirstRows(S, n) == {r \in S : Cardinality({q \in S : q < r}) < n}

\* Mutated forms: >= instead of >; reading what is not committed yet.
DueFromMark(s) == {r \in Notable : r >= seen[s]}
DueDirty(s) ==
  {r \in (readings \cup UNION {pending[w] : w \in Writers}) \cap alarms : r > seen[s]}

Due(s) == {r \in Notable : r > seen[s]}

SyncSelect(s) ==
  /\ pc[s] = "select"
  /\ batch' = [batch EXCEPT ![s] = FirstRows(Due(s), BatchSize)]
  /\ pc' = [pc EXCEPT ![s] = IF Due(s) = {} THEN "answer" ELSE "write"]
  /\ UNCHANGED <<log, table, creator, seen, owed, crashes>>

\* Mutated form: rows[0] for rows[-1].
IsFirst(top, rows) == top \in rows /\ \A r \in rows : top <= r

IsLast(top, rows) == top \in rows /\ \A r \in rows : r <= top

\* Mutated form: one batch per call.
AnyBatch(rows) == rows # {}

ShortBatch(rows) == Cardinality(rows) < BatchSize

\* Mutated form: the INSERT skips the rows the table has (ON CONFLICT DO NOTHING).
NoCollision(rows) == FALSE

\* events.id, made of the reading's id, is the primary key.
Collides(rows) == rows \cap events # {}

\* INSERT the events, UPDATE the mark to the last row's id, COMMIT.
SyncWrite(s) ==
  /\ pc[s] = "write"
  /\ ~Collides(batch[s])
  /\ events' = events \cup batch[s]
  /\ \E top \in batch[s] :
       /\ IsLast(top, batch[s])
       /\ mark' = top
       /\ seen' = [seen EXCEPT ![s] = top]
  /\ hasState' = TRUE
  /\ pc' = [pc EXCEPT ![s] = IF ShortBatch(batch[s]) THEN "answer" ELSE "select"]
  /\ EndTransaction(s)
  /\ UNCHANGED <<log, batch, owed, crashes>>

\* One row too many: IntegrityError rolls the batch back, the request is a 500.
SyncWriteFail(s) ==
  /\ pc[s] = "write"
  /\ Collides(batch[s])
  /\ pc' = [pc EXCEPT ![s] = "idle"]
  /\ EndTransaction(s)
  /\ UNCHANGED <<log, table, seen, batch, owed, crashes>>

\* list_events reads the journal in the same session, which then closes.
Answer(s) ==
  /\ pc[s] = "answer"
  /\ pc' = [pc EXCEPT ![s] = "idle"]
  /\ EndTransaction(s)
  /\ UNCHANGED <<log, table, seen, batch, owed, crashes>>

\* The process dies: open transactions roll back, the tables stay.
Crash ==
  /\ crashes < MaxCrashes
  /\ crashes' = crashes + 1
  /\ pending' = [w \in Writers |-> {}]
  /\ creator' = None
  /\ pc' = [s \in Requests |-> "idle"]
  /\ UNCHANGED <<nextId, alarms, readings, table, seen, batch, owed>>

-----------------------------------------------------------------------------
SyncStep(s) ==
  \/ SyncStart(s)
  \/ SyncCreate(s)
  \/ SyncCreateFail(s)
  \/ SyncSelect(s)
  \/ SyncWrite(s)
  \/ SyncWriteFail(s)
  \/ Answer(s)

ReplayStep == TickInsert \/ TickCommit

ActivationStep(a) ==
  \/ ActivateStep(a)
  \/ ActivateCommit(a)
  \/ ActivateFail(a)

Next ==
  \/ ReplayStep
  \/ \E a \in Activations : ActivationStep(a)
  \/ \E s \in Requests : SyncStep(s)
  \/ Crash

Spec == Init /\ [][Next]_vars

\* Dashboards poll GET /events continuously, and a request in progress goes
\* on; nothing is assumed of the writers.
FairSpec == Spec /\ \A s \in Requests : WF_vars(SyncStep(s))

-----------------------------------------------------------------------------
(* Properties.                                                              *)

\* sync_events materializes one event per notable reading up to the mark:
\* none is skipped for good and none is above it, where the next sync would
\* insert it again and fail on the primary key for ever.
NoneSkipped == \A r \in Notable : r <= mark => r \in events
EventsBelowMark == \A r \in events : r <= mark

\* An event never describes a reading that a rollback took back.
EventsAreCommitted == events \subseteq Notable

\* A request that answers shows every notable reading that was committed
\* before it began, whatever the other requests did meanwhile.
AnswerIsFresh == \A s \in Requests : pc[s] = "answer" => owed[s] \subseteq events

\* The high-water mark is only ever advanced, also by a request that read it
\* before another request moved it.
MarkOnlyAdvances == [][mark' >= mark]_vars

\* Every committed notable reading gets its event, crashes and failed
\* requests notwithstanding.
EveryReadingJournaled == \A r \in Ids : (r \in Notable) ~> (r \in events)

\* However writers and requests interleave, the synchronisation does not get
\* stuck: the mark reaches every committed notable reading.
NeverStuck == \A r \in Ids : (r \in Notable) ~> (r <= mark)

\* The table of events, seen through the committed readings, is the journal.
Journal == INSTANCE EventJournal WITH notable <- Notable, journal <- events
ImplementsJournal == Journal!FairSpec
=============================================================================
