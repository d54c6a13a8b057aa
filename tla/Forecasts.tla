----------------------------- MODULE Forecasts ------------------------------
(***************************************************************************)
(* How events become risks.  Every start of the backend (main.lifespan)     *)
(* runs risk_sync.sync_risks over the events above a persisted cursor, one  *)
(* question to the ML predictor per sensor and batch, and then              *)
(* object_risk_sync.sync_object_risks over the ML service's ranking of the  *)
(* facilities, one answer per target.  Only then are requests served:       *)
(* events arrive, dispatchers decide on risks, windows run out, until the   *)
(* backend stops and starts again.                                         *)
(*                                                                         *)
(* A start is one sequence of steps in one session: what it has not         *)
(* committed is gone when the process stops or an error ends the start.     *)
(* Event ids are positions in the journal ("evt_000000000001" is 1).        *)
(***************************************************************************)
EXTENDS Naturals, Sequences, FiniteSets

CONSTANTS
  Sensors,     \* sensor_id of the events
  Channels,    \* the sensors whose channel is in the catalogue
  Facilities,  \* facilities of the catalogue
  Unknown,     \* a facility the catalogue lacks
  Targets,     \* OBJECT_TARGETS; empty without ML_PREDICTOR_URL
  RowKinds,    \* what a row of /risk_map may look like
  MaxRows,     \* bound: rows of an answer
  BatchSize,   \* _BATCH_SIZE
  Horizon,     \* horizon_hours, in ticks
  MaxEvents,   \* bound: events
  MaxTime,     \* bound: ticks
  MaxStarts,   \* bound: starts of the process
  None         \* no answer in hand

ASSUME ForecastAssumption ==
  /\ Channels \subseteq Sensors
  /\ Unknown \notin Facilities
  /\ Sensors \cap Facilities = {}
  /\ Targets \in Seq(STRING)
  /\ RowKinds \subseteq {"quiet", "alert", "malformed", "fatal"}
  /\ BatchSize \in Nat \ {0}
  /\ Horizon \in Nat \ {0}
  /\ MaxEvents \in Nat /\ MaxTime \in Nat /\ MaxStarts \in Nat /\ MaxRows \in Nat

VARIABLES
  events,  \* committed events: the sensor and related_risk_id (0 is none)
  cursor,  \* risk_sync_state.last_synced_event_id (0 is "")
  risks,   \* committed risks, related_risk_id is the position
  phase,   \* where the process is
  rows,    \* sync_risks: the events of the batch in hand
  groups,  \* sync_risks: its sensors not yet asked about
  added,   \* risks added to the session and not committed
  links,   \* related_risk_id set on the batch's events and not committed
  target,  \* sync_object_risks: position in Targets
  reply,   \* sync_object_risks: rows of the answer in hand, or None
  at,      \* the `now` sync_risks or sync_object_risks has read
  now,     \* wall clock
  starts

database == <<events, cursor, risks>>
session == <<rows, groups, added, links, target, reply>>
vars == <<database, phase, session, at, now, starts>>

Event == [sensor : Sensors, risk : Nat]
Risk == [target : Sensors \cup Facilities, model : Nat, open : BOOLEAN, ends : Nat]
Row == [facility : Facilities \cup {Unknown}, kind : RowKinds]
ASSUME NoneAssumption == None \notin Seq(Row)
Replies == UNION {[1 .. n -> Row] : n \in 0 .. MaxRows}
SensorModel == 0  \* the model behind /predict; Targets have 1, 2, ...

TypeOK ==
  /\ events \in Seq(Event) /\ Len(events) <= MaxEvents
  /\ cursor \in 0 .. Len(events)
  /\ risks \in Seq(Risk)
  /\ phase \in {"down", "risks", "objects", "up", "failed"}
  /\ rows \subseteq DOMAIN events
  /\ groups \subseteq Sensors
  /\ added \in Seq(Risk)
  /\ links \in [DOMAIN links -> Nat \ {0}] /\ DOMAIN links \subseteq rows
  /\ target \in 1 .. Len(Targets) + 1
  /\ reply = None \/ reply \in Seq(Row)
  /\ at \in 0 .. now
  /\ now \in 0 .. MaxTime
  /\ starts \in 0 .. MaxStarts

\* Mutated form: the links stay behind.
EmptySessionButLinks ==
  /\ rows' = {}
  /\ groups' = {}
  /\ added' = <<>>
  /\ target' = 1
  /\ reply' = None
  /\ UNCHANGED links

\* The session without anything uncommitted.
EmptySession ==
  /\ rows' = {}
  /\ groups' = {}
  /\ added' = <<>>
  /\ links' = <<>>
  /\ target' = 1
  /\ reply' = None

Init ==
  /\ events = <<>>
  /\ cursor = 0
  /\ risks = <<>>
  /\ phase = "down"
  /\ rows = {}
  /\ groups = {}
  /\ added = <<>>
  /\ links = <<>>
  /\ target = 1
  /\ reply = None
  /\ at = 0
  /\ now = 0
  /\ starts = 0

-----------------------------------------------------------------------------
(* The life of the process.                                                 *)

\* sync_events has run before: all the events below are in the journal.
Start ==
  /\ phase \in {"down", "failed"}
  /\ starts < MaxStarts
  /\ starts' = starts + 1
  /\ phase' = "risks"
  /\ at' = now
  /\ UNCHANGED <<database, session, now>>

\* Shutdown or crash, anywhere.
Stop ==
  /\ phase \notin {"down", "failed"}
  /\ phase' = "down"
  /\ EmptySession
  /\ UNCHANGED <<database, at, now, starts>>

\* An event a request's sync_events writes, or the one of the next start.
EventArrives(s) ==
  /\ phase \in {"up", "down", "failed"}
  /\ Len(events) < MaxEvents
  /\ events' = Append(events, [sensor |-> s, risk |-> 0])
  /\ UNCHANGED <<cursor, risks, phase, session, at, now, starts>>

\* A dispatcher acknowledges, rejects or defers: the risk is not open any more.
Decide(k) ==
  /\ phase = "up"
  /\ risks[k].open
  /\ risks' = [risks EXCEPT ![k].open = FALSE]
  /\ UNCHANGED <<events, cursor, phase, session, at, now, starts>>

Tick ==
  /\ now < MaxTime
  /\ now' = now + 1
  /\ UNCHANGED <<database, phase, session, at, starts>>

-----------------------------------------------------------------------------
(* sync_risks                                                               *)

\* Mutated form: without the cursor.
DueUnlinked == {e \in DOMAIN events : events[e].risk = 0}

Due == {e \in DOMAIN events : e > cursor /\ events[e].risk = 0}

FirstRows(S, n) == {e \in S : Cardinality({d \in S : d < e}) < n}

SensorsOf(E) == {events[e].sensor : e \in E}

\* SELECT the next batch and group it by sensor.
SelectBatch ==
  /\ phase = "risks"
  /\ rows = {}
  /\ Due # {}
  /\ rows' = FirstRows(Due, BatchSize)
  /\ groups' = SensorsOf(FirstRows(Due, BatchSize))
  /\ UNCHANGED <<database, phase, added, links, target, reply, at, now, starts>>

\* No row is due (any more): the start goes on.
NoMoreBatches ==
  /\ phase = "risks"
  /\ rows = {}
  /\ Due = {}
  /\ phase' = "objects"
  /\ at' = now
  /\ UNCHANGED <<database, session, now, starts>>

\* The channel is gone, the predictor failed, or it raised no alert.
SkipGroup(s) ==
  /\ phase = "risks"
  /\ s \in groups
  /\ groups' = groups \ {s}
  /\ UNCHANGED <<database, phase, rows, added, links, target, reply, at, now, starts>>

NewRisk(t, model) == [target |-> t, model |-> model, open |-> TRUE, ends |-> at + Horizon]

\* Mutated form: linking every event of the batch.
WholeBatch(s) == rows

GroupOf(s) == {e \in rows : events[e].sensor = s}

\* A forecast: one risk, to which the group's events are linked.
RiskGroup(s) ==
  /\ phase = "risks"
  /\ s \in groups
  /\ s \in Channels
  /\ groups' = groups \ {s}
  /\ added' = Append(added, NewRisk(s, SensorModel))
  /\ links' = [e \in GroupOf(s) \cup DOMAIN links |->
       IF e \in GroupOf(s) THEN Len(risks) + Len(added) + 1 ELSE links[e]]
  /\ UNCHANGED <<database, phase, rows, target, reply, at, now, starts>>

IsLast(top, E) == top \in E /\ \A e \in E : e <= top

\* Mutated form: the cursor stays when the batch gave no risk.
CursorOfLinked(E) == IF links = <<>> THEN cursor ELSE CHOOSE top \in E : IsLast(top, E)

CursorAfter(E) == CHOOSE top \in E : IsLast(top, E)

\* Risks, links and cursor in one COMMIT; a short batch is the last one.
CommitBatch ==
  /\ phase = "risks"
  /\ rows # {}
  /\ groups = {}
  /\ risks' = risks \o added
  /\ events' = [e \in DOMAIN events |->
       IF e \in DOMAIN links THEN [events[e] EXCEPT !.risk = links[e]] ELSE events[e]]
  /\ cursor' = CursorAfter(rows)
  /\ phase' = IF Cardinality(rows) < BatchSize THEN "objects" ELSE "risks"
  /\ at' = IF Cardinality(rows) < BatchSize THEN now ELSE at
  /\ EmptySession
  /\ UNCHANGED <<now, starts>>

-----------------------------------------------------------------------------
(* sync_object_risks: phase "objects".                                      *)

\* The ML service answers POST /risk_map for the next target ...
FetchMap ==
  /\ phase = "objects"
  /\ reply = None
  /\ target <= Len(Targets)
  /\ reply' \in Replies
  /\ UNCHANGED <<database, phase, rows, groups, added, links, target, at, now, starts>>

\* ... or it does not, or not in a usable form: ObjectRiskError, which
\* lifespan logs; the session ends without a COMMIT.
FetchFails ==
  /\ phase = "objects"
  /\ reply = None
  /\ target <= Len(Targets)
  /\ phase' = "up"
  /\ EmptySession
  /\ UNCHANGED <<database, at, now, starts>>

HasRow == phase = "objects" /\ reply # None /\ reply # <<>>

\* Mutated form: the risks of this session are not flushed yet.
OpenRiskCommitted(f, model) ==
  \E k \in DOMAIN risks :
    risks[k].target = f /\ risks[k].model = model /\ risks[k].open /\ risks[k].ends > at

\* The SELECT of _has_open_risk flushes the session first: it sees its risks.
HasOpenRisk(f, model) ==
  LET all == risks \o added IN
  \E k \in DOMAIN all :
    all[k].target = f /\ all[k].model = model /\ all[k].open /\ all[k].ends > at

\* The row would become a risk: a known facility without an open risk.
IsNew(row) == row.facility \in Facilities /\ ~HasOpenRisk(row.facility, target)

\* status is not "ok", no alert, an unknown facility or one with an open risk.
SkipRow ==
  /\ HasRow
  /\ Head(reply).kind # "malformed"
  /\ Head(reply).kind = "quiet" \/ ~IsNew(Head(reply))
  /\ reply' = Tail(reply)
  /\ UNCHANGED <<database, phase, rows, groups, added, links, target, at, now, starts>>

AddRow ==
  /\ HasRow
  /\ Head(reply).kind = "alert"
  /\ IsNew(Head(reply))
  /\ added' = Append(added, NewRisk(Head(reply).facility, target))
  /\ reply' = Tail(reply)
  /\ UNCHANGED <<database, phase, rows, groups, links, target, at, now, starts>>

\* _parse_alert_row turns a malformed row into an ObjectRiskError.
RejectRow ==
  /\ HasRow
  /\ Head(reply).kind = "malformed"
  /\ phase' = "up"
  /\ EmptySession
  /\ UNCHANGED <<database, at, now, starts>>

\* It does not look inside suspect_channels: recommendation_for raises a
\* KeyError on a suspect without target_id, which nothing catches.
BreakRow ==
  /\ HasRow
  /\ Head(reply).kind = "fatal"
  /\ IsNew(Head(reply))
  /\ phase' = "failed"
  /\ EmptySession
  /\ UNCHANGED <<database, at, now, starts>>

NextTarget ==
  /\ phase = "objects"
  /\ reply = <<>>
  /\ target' = target + 1
  /\ reply' = None
  /\ UNCHANGED <<database, phase, rows, groups, added, links, at, now, starts>>

\* One COMMIT for all the targets.
CommitObjects ==
  /\ phase = "objects"
  /\ target = Len(Targets) + 1
  /\ risks' = risks \o added
  /\ phase' = "up"
  /\ EmptySession
  /\ UNCHANGED <<events, cursor, at, now, starts>>

-----------------------------------------------------------------------------
RiskStep ==
  \/ SelectBatch
  \/ NoMoreBatches
  \/ \E s \in Sensors : SkipGroup(s) \/ RiskGroup(s)
  \/ CommitBatch

ObjectStep ==
  \/ FetchMap
  \/ FetchFails
  \/ SkipRow
  \/ AddRow
  \/ RejectRow
  \/ BreakRow
  \/ NextTarget
  \/ CommitObjects

Next ==
  \/ Start
  \/ Stop
  \/ \E s \in Sensors : EventArrives(s)
  \/ \E k \in DOMAIN risks : Decide(k)
  \/ Tick
  \/ RiskStep
  \/ ObjectStep

Spec == Init /\ [][Next]_vars

\* A start goes on; every call to the ML service ends (in a timeout, if need be).
FairSpec == Spec /\ WF_vars(RiskStep) /\ WF_vars(ObjectStep)

-----------------------------------------------------------------------------
(* Properties.                                                              *)

\* Risks and links are committed together: a linked event has its risk, about
\* its own sensor, and no sensor risk stands without an event behind it, at
\* whatever step the process stopped.
RisksMatchEvents ==
  /\ \A e \in DOMAIN events :
       events[e].risk # 0 =>
         /\ events[e].risk \in DOMAIN risks
         /\ risks[events[e].risk].target = events[e].sensor
  /\ \A k \in DOMAIN risks :
       risks[k].target \in Sensors => \E e \in DOMAIN events : events[e].risk = k

\* Once a start is done with the sensors, no event is left behind the cursor's
\* back: each one was asked about, in this start or an earlier one.
NothingLeftBehind == phase = "objects" => cursor = Len(events)

\* An event is evaluated once: its risk never changes, and an event that was
\* passed over (predictor error, no alert, no channel) is not taken up again,
\* however often the backend starts.
EvaluatedOnce ==
  [][\A e \in DOMAIN events : e <= cursor => events'[e] = events[e]]_vars

\* A facility has at most one open risk of a model whose window has not ended,
\* although every start asks again and answers may repeat a facility.
OneOpenRisk ==
  \A j, k \in DOMAIN risks :
    /\ risks[j].target \in Facilities
    /\ risks[j].target = risks[k].target
    /\ risks[j].model = risks[k].model
    /\ risks[j].open /\ risks[k].open
    /\ risks[j].ends > now /\ risks[k].ends > now
    => j = k

\* A start ends, whatever the ML service answers: it does not go round in
\* circles over events the predictor has nothing to say about.
StartEnds == (phase = "risks") ~> (phase \in {"up", "down", "failed"})

\* No answer of /risk_map ends the start with an error.
AnswerNeverFailsStart == phase # "failed"
=============================================================================
