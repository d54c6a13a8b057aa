-------------------------------- MODULE Lists -------------------------------
(***************************************************************************)
(* A client walks through a list page by page while rows arrive and        *)
(* change.  Facilities, sensors, risks and work orders are read as a whole *)
(* and cut into pages after a cursor row; events and the audit journal are *)
(* read from the cursor on (keyset).  A behaviour is about one table.      *)
(***************************************************************************)
EXTENDS Integers, Sequences, SequencesExt, FiniteSetsExt

CONSTANTS
  Kinds,             \* the tables
  MaxRows,           \* bound: rows at the beginning
  MaxArrivals,       \* bound: rows that arrive during the walk
  MaxMoves,          \* bound: rows that change during the walk
  Limits,            \* page sizes asked for
  Callers,           \* users: [scopeType, direct, districts, permissions]
  DistrictFacility,  \* district_facilities: per district, its facilities
  Homes,             \* facilities that sensors, risks, orders and events have
  Ranks              \* values of (-priority_score, prediction_window_start)

\* Ids, and places in the heap; there is room between any two that are taken.
Slots == 1 .. 2 * MaxRows + 1
NoCursor == 0
NoPlace == 0

Scoped == {"facilities", "sensors", "risks", "orders", "events"}
Changing == {"risks", "orders"}

ASSUME ListsAssumption ==
  /\ Kinds \subseteq Scoped \cup {"audit"}
  /\ MaxRows \in Nat \ {0} /\ MaxArrivals \in Nat /\ MaxMoves \in Nat
  /\ Limits \subseteq Nat \ {0} /\ Homes \subseteq Slots /\ Ranks \subseteq Int
  /\ \A u \in Callers : u.direct \subseteq Slots /\ u.districts \subseteq DOMAIN DistrictFacility
  /\ \A d \in DOMAIN DistrictFacility : DistrictFacility[d] \subseteq Slots

VARIABLES
  kind,   \* the table of this behaviour
  rows,   \* [id, place, status, rank, heap]; place is a facility id
  walk,   \* the client: its stage, next query and the ids it has seen
  start,  \* history: ids that matched when the walk began
  moved,  \* history: ids of rows changed since
  lost    \* history: the row of the cursor changed while the client had it

lists == <<kind, rows, walk, start, moved, lost>>

\* A facility is its own place; what has no facility is an orphan, and the
\* audit journal knows no scope.
PlacesOf(id) ==
  IF kind = "facilities" THEN {id}
  ELSE IF kind = "audit" THEN {NoPlace}
  ELSE Homes \cup {NoPlace}

RowsWith(id, heap) ==
  [id : {id}, place : PlacesOf(id), status : {"open"}, heap : {heap},
   rank : IF kind = "risks" THEN Ranks ELSE {0}]

IdsOf(S) == {r.id : r \in S}

-----------------------------------------------------------------------------
(* Scope and order.                                                         *)

\* resolve_scope: a user without a row in user_scope sees everything.
ResolveScope(u) ==
  [all |-> u.scopeType \in {"none", "all_facilities"},
   ids |-> u.direct \cup UNION {DistrictFacility[d] : d \in u.districts}]

Everything == [all |-> TRUE, ids |-> {}]

\* Mutated form: a caller with assigned facilities sees the orphans as well.
VisibleWithOrphans(r, scope) == scope.all \/ r.place \in scope.ids \cup {NoPlace}

\* The WHERE of a list: IN is not true of a NULL.
Visible(r, scope) == scope.all \/ r.place \in scope.ids

ById(r, s) == r.id < s.id
NewestFirst(r, s) == r.id > s.id

\* sorted() is stable: risks of the same key come as the scan of the heap
\* returned them.
ByPriority(r, s) == r.rank < s.rank \/ (r.rank = s.rank /\ r.heap < s.heap)

Before(r, s) ==
  CASE kind \in {"facilities", "sensors"} -> ById(r, s)
    [] kind = "risks" -> ByPriority(r, s)
    [] OTHER -> NewestFirst(r, s)

\* The rows a list shows, and their order.  A restricted caller without
\* facilities gets an empty list, 0 rows of 0.
Found(scope, status) ==
  {r \in rows : /\ kind \in Scoped => Visible(r, scope)
                /\ status = "any" \/ r.status = status}

\* ORDER BY: in front of the i-th row are i - 1.
InOrder(found) ==
  LET place(r) == 1 + Cardinality({s \in found : Before(s, r)})
  IN  [i \in 1 .. Cardinality(found) |-> CHOOSE r \in found : place(r) = i]

Matching(scope, status) == InOrder(Found(scope, status))

-----------------------------------------------------------------------------
(* Pages.                                                                   *)

Page(items, next) == [ids |-> [i \in DOMAIN items |-> items[i].id], next |-> next]

Upto(s, n) == SubSeq(s, 1, IF n < Len(s) THEN n ELSE Len(s))

\* A page of a list that is read as a whole: an unknown cursor gives an empty
\* page.
Slice(list, cursor, limit) ==
  LET from == IF cursor = NoCursor THEN 0
              ELSE IF cursor \in IdsOf(Range(list))
              THEN CHOOSE i \in DOMAIN list : list[i].id = cursor
              ELSE Len(list)
      page == Upto(SubSeq(list, from + 1, Len(list)), limit)
  IN  Page(page, IF Len(page) = limit /\ from + limit < Len(list) THEN Last(page).id ELSE NoCursor)

\* Mutated form: the lookahead row's id.
LookaheadCursor(fetched, limit) == IF Len(fetched) > limit THEN fetched[limit + 1].id ELSE NoCursor

\* next_cursor: the id of the last row of the page, if a row was fetched after it.
NextCursor(fetched, limit) == IF Len(fetched) > limit THEN fetched[limit].id ELSE NoCursor

\* A page of a list that is read from the cursor on.
Keyset(found, cursor, limit) ==
  LET rest == {r \in found : cursor # NoCursor => r.id < cursor}
      fetched == Upto(InOrder(rest), limit + 1)
  IN  Page(Upto(fetched, limit), NextCursor(fetched, limit))

ListFacilities(scope, cursor, limit) == Slice(Matching(scope, "any"), cursor, limit)
ListSensors(scope, cursor, limit) == Slice(Matching(scope, "any"), cursor, limit)
ListRisks(scope, status, cursor, limit) == Slice(Matching(scope, status), cursor, limit)
ListWorkOrders(scope, status, cursor, limit) == Slice(Matching(scope, status), cursor, limit)
ListEvents(scope, cursor, limit) == Keyset(Found(scope, "any"), cursor, limit)
ListAuditEntries(cursor, limit) == Keyset(Found(Everything, "any"), cursor, limit)

\* The requests.  What get_events and get_work_orders synchronise before they
\* list is what arrives and changes here.
GetFacilities(q) == ListFacilities(ResolveScope(q.caller), q.cursor, q.limit)
GetSensors(q) == ListSensors(ResolveScope(q.caller), q.cursor, q.limit)
GetRisks(q) == ListRisks(ResolveScope(q.caller), q.status, q.cursor, q.limit)
GetWorkOrders(q) == ListWorkOrders(ResolveScope(q.caller), q.status, q.cursor, q.limit)
GetEvents(q) == ListEvents(ResolveScope(q.caller), q.cursor, q.limit)
GetAuditJournal(q) == ListAuditEntries(q.cursor, q.limit)

Answer(q) ==
  CASE kind = "facilities" -> GetFacilities(q)
    [] kind = "sensors" -> GetSensors(q)
    [] kind = "risks" -> GetRisks(q)
    [] kind = "orders" -> GetWorkOrders(q)
    [] kind = "events" -> GetEvents(q)
    [] kind = "audit" -> GetAuditJournal(q)

\* The permission a list asks for; the others are open to every session.
Required ==
  CASE kind = "risks" -> {"risk.read"}
    [] kind = "orders" -> {"work_order.read"}
    [] kind = "audit" -> {"audit.read"}
    [] OTHER -> {}

\* Cards: 404 if there is no such row, 403 if it is out of scope.
GetFacilityDetail(id, scope) ==
  IF id \notin IdsOf(rows) THEN 404 ELSE IF ~scope.all /\ id \notin scope.ids THEN 403 ELSE 200

GetSensorDetail(id, scope) ==
  LET places == {r.place : r \in {q \in rows : q.id = id}}
  IN  IF places = {} THEN 404
      ELSE IF ~scope.all /\ (NoPlace \in places \/ ~(places \subseteq scope.ids)) THEN 403
      ELSE 200

GetRiskDetail(id, scope) ==
  LET places == {r.place : r \in {q \in rows : q.id = id}}
  IN  IF places = {} THEN 404 ELSE IF ~scope.all /\ ~(places \subseteq scope.ids) THEN 403 ELSE 200

GetFacility(id, caller) == GetFacilityDetail(id, ResolveScope(caller))
GetSensor(id, caller) == GetSensorDetail(id, ResolveScope(caller))
GetRisk(id, caller) == GetRiskDetail(id, ResolveScope(caller))

Card(id, caller) ==
  CASE kind = "facilities" -> GetFacility(id, caller)
    [] kind = "sensors" -> GetSensor(id, caller)
    [] kind = "risks" -> GetRisk(id, caller)

-----------------------------------------------------------------------------
(* Actions.                                                                 *)

ListsInit ==
  /\ kind \in Kinds
  /\ LET ids == {2 * i : i \in 1 .. MaxRows}
     IN  rows \in {Range(f) : f \in {g \in [ids -> UNION {RowsWith(i, i) : i \in ids}] :
                                        \A i \in ids : g[i].id = i}}
  /\ walk = [stage |-> "idle"]
  /\ start = {} /\ moved = {} /\ lost = FALSE

\* The first request of a walk; statuses are a filter of tables that have one.
Ask ==
  /\ walk.stage = "idle"
  /\ \E caller \in Callers, limit \in Limits,
        status \in IF kind \in Changing THEN {"any", "open"} ELSE {"any"} :
       /\ Required \subseteq caller.permissions
       /\ LET q == [caller |-> caller, status |-> status, limit |-> limit, cursor |-> NoCursor]
              page == Answer(q)
          IN  walk' = [stage |-> IF page.next = NoCursor THEN "done" ELSE "open",
                       query |-> [q EXCEPT !.cursor = page.next], seen |-> page.ids]
       /\ start' = IdsOf(Range(Matching(ResolveScope(caller), status)))
  /\ UNCHANGED <<kind, rows, moved, lost>>

\* A request with the cursor of the last answer.
Follow ==
  /\ walk.stage = "open"
  /\ LET page == Answer(walk.query)
     IN  walk' = [stage |-> IF page.next = NoCursor THEN "done" ELSE "open",
                  query |-> [walk.query EXCEPT !.cursor = page.next], seen |-> walk.seen \o page.ids]
  /\ UNCHANGED <<kind, rows, start, moved, lost>>

Free(taken) == Slots \ taken

\* A row is inserted.  Ids of facilities and sensors come from the catalogue,
\* those of orders stand for created_at and those of the journal come from a
\* sequence: either is taken before the COMMIT, so a smaller one may come later.
\* Events are materialised in the order of their ids.
Arrive ==
  /\ walk.stage = "open"
  /\ Cardinality(rows) < MaxRows + MaxArrivals
  /\ \E id \in Free(IdsOf(rows)), heap \in Free({r.heap : r \in rows}) :
       /\ kind = "events" => \A r \in rows : id > r.id
       /\ kind # "risks" => heap = Min(Free({r.heap : r \in rows}))
       /\ kind = "risks" => id = Min(Free(IdsOf(rows)))
       /\ \E r \in RowsWith(id, heap) : rows' = rows \cup {r}
  /\ UNCHANGED <<kind, walk, start, moved, lost>>

\* A decision on a risk, a work order that goes on: the UPDATE writes the row
\* anew, anywhere in the heap.
Change ==
  /\ kind \in Changing
  /\ walk.stage = "open"
  /\ Cardinality(moved) < MaxMoves
  /\ \E r \in rows, heap \in Free({q.heap : q \in rows}) :
       /\ kind # "risks" => heap = Min(Free({q.heap : q \in rows}))
       /\ rows' = (rows \ {r}) \cup {[r EXCEPT !.status = "closed", !.heap = heap]}
       /\ moved' = moved \cup {r.id}
       /\ lost' = (lost \/ r.id = walk.query.cursor)
  /\ UNCHANGED <<kind, walk, start>>

ListsNext == Ask \/ Follow \/ Arrive \/ Change

-----------------------------------------------------------------------------
(* Properties.                                                              *)

Returns(id) == Cardinality({i \in DOMAIN walk.seen : walk.seen[i] = id})

\* A walk to the end returns every row that matched when it began and stayed as
\* it was exactly once, and no two such rows in the wrong order, whatever else
\* arrives or changes meanwhile, unless the row of the cursor itself changed:
\* then it ends early, or goes on somewhere else.
WalkComplete ==
  walk.stage = "done" /\ ~lost =>
    LET still == {r \in rows : r.id \in start \ moved}
    IN  /\ \A r \in still : Returns(r.id) = 1
        /\ \A i, j \in DOMAIN walk.seen : i < j =>
             ~\E r, s \in still : r.id = walk.seen[i] /\ s.id = walk.seen[j] /\ Before(s, r)

\* A card opens for exactly the callers whose list has the row: a row out of
\* scope is 403, one that does not exist 404, an orphan is for those who see
\* everything.
CardsMatchLists ==
  kind \in {"facilities", "sensors", "risks"} =>
    \A caller \in Callers :
      LET listed == IdsOf(Range(Matching(ResolveScope(caller), "any")))
      IN  \A id \in Slots :
            Card(id, caller) = IF id \in listed THEN 200 ELSE IF id \in IdsOf(rows) THEN 403 ELSE 404
=============================================================================
