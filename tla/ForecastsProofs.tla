--------------------------- MODULE ForecastsProofs ---------------------------
(***************************************************************************)
(* How events become risks, for every catalogue, batch size and horizon,    *)
(* every answer of the ML service and every number of starts and crashes:   *)
(* events and risks agree, each event is evaluated once, and no facility    *)
(* has two open risks of a model.                                           *)
(***************************************************************************)
EXTENDS Forecasts, FiniteSetTheorems, TLAPS

-----------------------------------------------------------------------------
(* The rows of a batch.                                                     *)

LEMMA LeastExists ==
  ASSUME NEW T, T \subseteq Nat, T # {}
  PROVE  \E m \in T : \A t \in T : m <= t
<1> DEFINE R == OpToRel(<, Nat)
<1>1. IsWellFoundedOn(R, Nat)
  BY NatLessThanWellFounded
<1> HIDE DEF R
<1>2. PICK m \in T : \A t \in T : <<t, m>> \notin R
  BY <1>1, WFMin
<1>3. \A t \in T : ~(t < m)
  BY <1>2 DEF R, OpToRel
<1> QED  BY <1>3

LEMMA GreatestExists ==
  ASSUME NEW n \in Nat, NEW S, S \subseteq 1 .. n, S # {}
  PROVE  \E m \in S : \A s \in S : s <= m
<1> DEFINE T == {x \in 0 .. n : n - x \in S}
<1>1. \A s \in S : n - s \in T
  <2> SUFFICES ASSUME NEW s \in S PROVE n - s \in T
    OBVIOUS
  <2>1. n - s \in 0 .. n /\ n - (n - s) = s
    OBVIOUS
  <2> QED  BY <2>1
<1>2. T \subseteq Nat /\ T # {}
  <2>1. PICK s \in S : TRUE
    OBVIOUS
  <2>2. n - s \in T
    BY <1>1, <2>1
  <2>3. T \subseteq Nat
    OBVIOUS
  <2> HIDE DEF T
  <2> QED  BY <2>2, <2>3
<1>3. PICK t \in T : \A u \in T : t <= u
  BY <1>2, LeastExists
<1>4. n - t \in S /\ \A s \in S : t <= n - s
  BY <1>1, <1>3
<1> QED  BY <1>3, <1>4

\* The cursor moves to the last row of the batch.
LEMMA CursorAfterLast ==
  ASSUME NEW n \in Nat, NEW E, E \subseteq 1 .. n, E # {}
  PROVE  /\ CursorAfter(E) \in E
         /\ \A e \in E : e <= CursorAfter(E)
<1>1. \E top \in E : IsLast(top, E)
  BY GreatestExists DEF IsLast
<1>2. CursorAfter(E) \in E /\ IsLast(CursorAfter(E), E)
  BY <1>1 DEF CursorAfter
<1> QED  BY <1>2 DEF IsLast

LEMMA FirstRowsSubset == \A S, n : FirstRows(S, n) \subseteq S
BY DEF FirstRows

\* Fewer than n rows are all the rows.
LEMMA FirstRowsShort ==
  ASSUME NEW S, S \subseteq Nat, IsFiniteSet(S), NEW n \in Nat,
         Cardinality(FirstRows(S, n)) < n
  PROVE  FirstRows(S, n) = S
<1> DEFINE F == FirstRows(S, n)
<1>1. F \subseteq S
  BY FirstRowsSubset
<1>2. SUFFICES ASSUME S \ F # {} PROVE FALSE
  BY <1>1
<1>3. PICK m \in S \ F : \A t \in S \ F : m <= t
  BY <1>2, LeastExists
<1> DEFINE Below == {d \in S : d < m}
<1>4. Below \subseteq F
  <2> SUFFICES ASSUME NEW d \in S, d < m, d \notin F PROVE FALSE
    OBVIOUS
  <2> HIDE DEF F
  <2>1. m <= d /\ m \in Nat /\ d \in Nat
    BY <1>3
  <2> QED  BY <2>1
<1>5. IsFiniteSet(F) /\ IsFiniteSet(Below)
  BY <1>1, <1>4, FS_Subset
<1>6. Cardinality(Below) <= Cardinality(F)
  BY <1>4, <1>5, FS_Subset
<1>7. Cardinality(Below) \in Nat /\ Cardinality(F) \in Nat
  BY <1>5, FS_CardinalityType
<1>8. Cardinality(Below) < n
  BY <1>6, <1>7
<1> QED  BY <1>3, <1>8 DEF FirstRows

\* Some row comes first.
LEMMA FirstRowsSome ==
  ASSUME NEW S, S \subseteq Nat, S # {}, NEW n \in Nat \ {0}
  PROVE  FirstRows(S, n) # {}
<1>1. PICK m \in S : \A t \in S : m <= t
  BY LeastExists
<1>2. {d \in S : d < m} = {}
  <2>1. \A d \in S : ~(d < m)
    BY <1>1
  <2> QED  BY <2>1
<1>3. Cardinality({d \in S : d < m}) = 0
  BY <1>2, FS_EmptySet, Zenon
<1> QED  BY <1>1, <1>3 DEF FirstRows

-----------------------------------------------------------------------------
(* Sequences.                                                               *)

LEMMA MapSequence ==
  ASSUME NEW S, NEW T, NEW s \in Seq(S), NEW f \in [DOMAIN s -> T]
  PROVE  f \in Seq(T) /\ Len(f) = Len(s) /\ DOMAIN f = DOMAIN s
<1>1. Len(s) \in Nat /\ DOMAIN s = 1 .. Len(s)
  OBVIOUS
<1>2. f \in [1 .. Len(s) -> T]
  BY <1>1
<1>3. f \in Seq(T)
  BY <1>1, <1>2
<1>4. DOMAIN f = 1 .. Len(f) /\ Len(f) \in Nat
  BY <1>3
<1> QED  BY <1>1, <1>2, <1>3, <1>4

LEMMA Concatenated ==
  ASSUME NEW S, NEW s \in Seq(S), NEW t \in Seq(S)
  PROVE  /\ s \o t \in Seq(S)
         /\ Len(s \o t) = Len(s) + Len(t)
         /\ DOMAIN (s \o t) = 1 .. Len(s) + Len(t)
         /\ \A k \in DOMAIN s : (s \o t)[k] = s[k]
         /\ \A k \in DOMAIN t : (s \o t)[Len(s) + k] = t[k]
OBVIOUS

-----------------------------------------------------------------------------
(* Type correctness.                                                        *)

\* A request for a target is on its way, or its answer is in hand.
InHand == reply # None => target <= Len(Targets)

TypeInv == TypeOK /\ InHand

\* TypeOK by what is written together.
DatabaseTypes ==
  /\ events \in Seq(Event) /\ Len(events) <= MaxEvents
  /\ cursor \in 0 .. Len(events)
  /\ risks \in Seq(Risk)

BatchTypes ==
  /\ rows \subseteq DOMAIN events
  /\ groups \subseteq Sensors
  /\ links \in [DOMAIN links -> Nat \ {0}] /\ DOMAIN links \subseteq rows

StagedTypes ==
  /\ added \in Seq(Risk)
  /\ target \in 1 .. Len(Targets) + 1
  /\ reply = None \/ reply \in Seq(Row)

ClockTypes ==
  /\ phase \in {"down", "risks", "objects", "up", "failed"}
  /\ at \in 0 .. now
  /\ now \in 0 .. MaxTime
  /\ starts \in 0 .. MaxStarts

LEMMA TypeParts ==
  /\ TypeOK <=> DatabaseTypes /\ BatchTypes /\ StagedTypes /\ ClockTypes
  /\ TypeOK' <=> DatabaseTypes' /\ BatchTypes' /\ StagedTypes' /\ ClockTypes'
BY Zenon DEF TypeOK, DatabaseTypes, BatchTypes, StagedTypes, ClockTypes

LEMMA Numbers ==
  ASSUME TypeOK
  PROVE  /\ at \in Nat /\ now \in Nat /\ at <= now /\ starts \in Nat
         /\ Len(Targets) \in Nat /\ target \in Nat
         /\ Len(events) \in Nat /\ Len(risks) \in Nat /\ Len(added) \in Nat
         /\ risks \in Seq(Risk) /\ added \in Seq(Risk)
<1>1. at \in Nat /\ now \in Nat /\ at <= now /\ starts \in Nat
  BY TypeParts, ForecastAssumption DEF ClockTypes
<1>2. Len(Targets) \in Nat /\ target \in Nat /\ added \in Seq(Risk)
  BY TypeParts, ForecastAssumption DEF StagedTypes
<1>3. Len(events) \in Nat /\ risks \in Seq(Risk)
  BY TypeParts DEF DatabaseTypes
<1> QED  BY <1>1, <1>2, <1>3

LEMMA EventAt ==
  ASSUME TypeOK, NEW e \in DOMAIN events
  PROVE  /\ events[e] \in Event
         /\ events[e].sensor \in Sensors /\ events[e].risk \in Nat
         /\ e \in 1 .. Len(events)
<1>1. events \in Seq(Event) /\ e \in 1 .. Len(events)
  BY DEF TypeOK
<1>2. events[e] \in Event
  BY <1>1
<1> QED  BY <1>1, <1>2 DEF Event

LEMMA BatchRows ==
  ASSUME TypeOK
  PROVE  /\ Len(events) \in Nat /\ DOMAIN events = 1 .. Len(events)
         /\ Due \subseteq 1 .. Len(events)
         /\ IsFiniteSet(Due)
         /\ \A E \in SUBSET DOMAIN events : SensorsOf(E) \subseteq Sensors
<1>1. Len(events) \in Nat /\ DOMAIN events = 1 .. Len(events)
  BY DEF TypeOK
<1>2. Due \subseteq 1 .. Len(events)
  BY <1>1 DEF Due
<1>3. IsFiniteSet(1 .. Len(events))
  <2>1. 1 \in Int /\ Len(events) \in Int
    BY <1>1
  <2> QED  BY <2>1, FS_Interval, Zenon
<1>4. IsFiniteSet(Due)
  BY <1>2, <1>3, FS_Subset
<1>5. \A E \in SUBSET DOMAIN events : SensorsOf(E) \subseteq Sensors
  BY EventAt DEF SensorsOf
<1> QED  BY <1>1, <1>2, <1>4, <1>5

\* What a reply may hold, while it is read row by row.
LEMMA ReplyRows ==
  ASSUME TypeOK
  PROVE  /\ Replies \subseteq Seq(Row)
         /\ HasRow => /\ reply \in Seq(Row) /\ Head(reply) \in Row
                      /\ Tail(reply) \in Seq(Row) /\ reply # None
                      /\ Tail(reply) # None
         /\ <<>> \in Seq(Row) /\ <<>> # None
<1>1. Replies \subseteq Seq(Row)
  <2> SUFFICES ASSUME NEW n \in 0 .. MaxRows, NEW r \in [1 .. n -> Row]
               PROVE  r \in Seq(Row)
    BY DEF Replies
  <2>1. n \in Nat
    BY ForecastAssumption
  <2> QED  BY <2>1
<1>2. ASSUME HasRow
      PROVE  /\ reply \in Seq(Row) /\ Head(reply) \in Row /\ Tail(reply) \in Seq(Row)
             /\ reply # None
  BY <1>2 DEF HasRow, TypeOK
<1>3. <<>> \in Seq(Row)
  OBVIOUS
<1> QED  BY <1>1, <1>2, <1>3, NoneAssumption

LEMMA EmptySessionTypes ==
  ASSUME EmptySession
  PROVE  /\ rows' = {} /\ groups' = {} /\ added' \in Seq(Risk)
         /\ links' \in [DOMAIN links' -> Nat \ {0}] /\ DOMAIN links' = {}
         /\ target' \in 1 .. Len(Targets) + 1
         /\ reply' = None
<1>1. added' \in Seq(Risk)
  BY DEF EmptySession
<1>2. DOMAIN links' = {}
  BY DEF EmptySession
<1>3. links' \in [DOMAIN links' -> Nat \ {0}]
  BY <1>2 DEF EmptySession
<1>4. target' \in 1 .. Len(Targets) + 1
  BY ForecastAssumption DEF EmptySession
<1> QED  BY <1>1, <1>2, <1>3, <1>4 DEF EmptySession

LEMMA InitTypeInv == Init => TypeInv
<1> SUFFICES ASSUME Init PROVE TypeInv
  OBVIOUS
<1> USE ForecastAssumption DEF Init
<1>1. events \in Seq(Event) /\ Len(events) = 0 /\ risks \in Seq(Risk) /\ added \in Seq(Risk)
  OBVIOUS
<1>2. DOMAIN links = {}
  OBVIOUS
<1>3. links \in [DOMAIN links -> Nat \ {0}]
  BY <1>2
<1>4. target \in 1 .. Len(Targets) + 1
  OBVIOUS
<1> QED  BY <1>1, <1>2, <1>3, <1>4 DEF TypeInv, TypeOK, InHand

\* A risk added to the session is a risk.
LEMMA NewRiskType ==
  ASSUME TypeOK, NEW t \in Sensors \cup Facilities, NEW model \in Nat
  PROVE  NewRisk(t, model) \in Risk
<1>1. at + Horizon \in Nat
  BY Numbers, ForecastAssumption
<1> QED  BY <1>1 DEF NewRisk, Risk

LEMMA NextTypeInv == TypeInv /\ [Next]_vars => TypeInv'
<1> SUFFICES ASSUME TypeInv, [Next]_vars
             PROVE  TypeInv'
  OBVIOUS
<1> USE DEF InHand, database, session
<1>t. TypeOK /\ InHand /\ DatabaseTypes /\ BatchTypes /\ StagedTypes /\ ClockTypes
  BY TypeParts DEF TypeInv
<1>n. at \in Nat /\ now \in Nat /\ at <= now /\ starts \in Nat /\ Len(Targets) \in Nat
  BY <1>t, Numbers
<1>q. DatabaseTypes' /\ BatchTypes' /\ StagedTypes' /\ ClockTypes' /\ InHand' => TypeInv'
  BY TypeParts DEF TypeInv
\* What a step leaves alone keeps its type.
<1>d. UNCHANGED database => DatabaseTypes'
  BY <1>t DEF DatabaseTypes
<1>b. UNCHANGED <<events, rows, groups, links>> => BatchTypes'
  BY <1>t DEF BatchTypes
<1>s. UNCHANGED <<added, target, reply>> => StagedTypes' /\ InHand'
  BY <1>t DEF StagedTypes
<1>e. EmptySession => BatchTypes' /\ StagedTypes' /\ InHand'
  BY EmptySessionTypes DEF BatchTypes, StagedTypes
<1>c. /\ phase' \in {"down", "risks", "objects", "up", "failed"}
      /\ at' \in {at, now} /\ now' = now /\ starts' = starts
      => ClockTypes'
  BY <1>t, <1>n DEF ClockTypes
<1>p. phase' = phase => phase' \in {"down", "risks", "objects", "up", "failed"}
  BY <1>t DEF ClockTypes
<1>1. CASE Start
  <2>1. ClockTypes'
    BY <1>1, <1>t, <1>n, ForecastAssumption DEF Start, ClockTypes
  <2> QED  BY <1>1, <1>b, <1>d, <1>q, <1>s, <2>1 DEF Start
<1>2. CASE Stop
  BY <1>2, <1>c, <1>d, <1>e, <1>q DEF Stop
<1>3. ASSUME NEW s \in Sensors, EventArrives(s) PROVE TypeInv'
  <2>1. events' \in Seq(Event) /\ Len(events') = Len(events) + 1 /\ DOMAIN events \subseteq DOMAIN events'
    <3>1. [sensor |-> s, risk |-> 0] \in Event
      BY DEF Event
    <3>2. events \in Seq(Event)
      BY <1>t DEF DatabaseTypes
    <3> QED  BY <1>3, <3>1, <3>2 DEF EventArrives
  <2>2. Len(events) \in Nat /\ Len(events) < MaxEvents /\ cursor' = cursor /\ risks' = risks
    BY <1>3, <1>t, Numbers DEF EventArrives
  <2>3. DatabaseTypes'
    BY <1>t, <2>1, <2>2, ForecastAssumption DEF DatabaseTypes
  <2>4. BatchTypes'
    BY <1>3, <1>t, <2>1 DEF EventArrives, BatchTypes
  <2> QED  BY <1>3, <1>c, <1>p, <1>q, <1>s, <2>3, <2>4 DEF EventArrives
<1>4. ASSUME NEW k \in DOMAIN risks, Decide(k) PROVE TypeInv'
  <2>1. risks \in Seq(Risk) /\ k \in 1 .. Len(risks)
    BY <1>t DEF DatabaseTypes
  <2>2. [risks[k] EXCEPT !.open = FALSE] \in Risk
    <3>1. risks[k] \in Risk
      BY <2>1
    <3> QED  BY <3>1 DEF Risk
  <2>3. risks' = [risks EXCEPT ![k] = [risks[k] EXCEPT !.open = FALSE]]
    BY <1>4 DEF Decide
  <2>4. risks' \in Seq(Risk)
    BY <2>1, <2>2, <2>3
  <2>5. DatabaseTypes'
    BY <1>4, <1>t, <2>4 DEF Decide, DatabaseTypes
  <2> QED  BY <1>4, <1>b, <1>c, <1>p, <1>q, <1>s, <2>5 DEF Decide
<1>5. CASE Tick
  <2>1. ClockTypes'
    BY <1>5, <1>t, <1>n, ForecastAssumption DEF Tick, ClockTypes
  <2> QED  BY <1>5, <1>b, <1>d, <1>q, <1>s, <2>1 DEF Tick
<1>6. CASE SelectBatch
  <2>1. rows' \subseteq DOMAIN events /\ groups' \subseteq Sensors
    BY <1>6, <1>t, BatchRows, FirstRowsSubset DEF SelectBatch
  <2>2. DOMAIN links \subseteq rows'
    BY <1>6, <1>t DEF SelectBatch, BatchTypes
  <2>3. BatchTypes'
    BY <1>6, <1>t, <2>1, <2>2 DEF SelectBatch, BatchTypes
  <2> QED  BY <1>6, <1>c, <1>d, <1>p, <1>q, <1>s, <2>3 DEF SelectBatch
<1>7. CASE NoMoreBatches
  BY <1>7, <1>b, <1>c, <1>d, <1>q, <1>s DEF NoMoreBatches
<1>8. ASSUME NEW s \in Sensors, SkipGroup(s) PROVE TypeInv'
  <2>1. BatchTypes'
    BY <1>8, <1>t DEF SkipGroup, BatchTypes
  <2> QED  BY <1>8, <1>c, <1>d, <1>p, <1>q, <1>s, <2>1 DEF SkipGroup
<1>9. ASSUME NEW s \in Sensors, RiskGroup(s) PROVE TypeInv'
  <2>1. added' \in Seq(Risk)
    <3>1. NewRisk(s, SensorModel) \in Risk
      BY <1>t, NewRiskType DEF SensorModel
    <3>2. added \in Seq(Risk)
      BY <1>t, Numbers
    <3> QED  BY <1>9, <3>1, <3>2 DEF RiskGroup
  <2>2. Len(risks) + Len(added) + 1 \in Nat \ {0}
    BY <1>t, Numbers
  <2>3. /\ DOMAIN links' = GroupOf(s) \cup DOMAIN links
        /\ links' \in [DOMAIN links' -> Nat \ {0}]
    BY <1>9, <1>t, <2>2 DEF RiskGroup, BatchTypes
  <2>4. DOMAIN links' \subseteq rows
    BY <1>t, <2>3 DEF GroupOf, BatchTypes
  <2>5. BatchTypes'
    BY <1>9, <1>t, <2>3, <2>4 DEF RiskGroup, BatchTypes
  <2>6. StagedTypes' /\ InHand'
    BY <1>9, <1>t, <2>1 DEF RiskGroup, StagedTypes
  <2> QED  BY <1>9, <1>c, <1>d, <1>p, <1>q, <2>5, <2>6 DEF RiskGroup
<1>10. CASE CommitBatch
  <2>1. risks' \in Seq(Risk)
    BY <1>10, <1>t, Concatenated, Numbers DEF CommitBatch
  <2>2. events' \in [DOMAIN events -> Event]
    <3>1. ASSUME NEW e \in DOMAIN events
          PROVE  (IF e \in DOMAIN links THEN [events[e] EXCEPT !.risk = links[e]] ELSE events[e])
                   \in Event
      <4>1. e \in DOMAIN links => links[e] \in Nat
        BY <1>t DEF BatchTypes
      <4> QED  BY <1>t, <4>1, EventAt DEF Event
    <3> QED  BY <1>10, <3>1 DEF CommitBatch
  <2>3. events' \in Seq(Event) /\ Len(events') = Len(events) /\ DOMAIN events' = DOMAIN events
    BY <1>t, <2>2, MapSequence DEF DatabaseTypes
  <2>4. cursor' \in 0 .. Len(events')
    <3>1. Len(events) \in Nat /\ rows \subseteq 1 .. Len(events) /\ rows # {}
      BY <1>10, <1>t, BatchRows DEF CommitBatch, BatchTypes
    <3>2. cursor' \in rows
      BY <1>10, <3>1, CursorAfterLast DEF CommitBatch
    <3> QED  BY <2>3, <3>1, <3>2
  <2>5. DatabaseTypes'
    BY <1>t, <2>1, <2>3, <2>4 DEF DatabaseTypes
  <2>6. ClockTypes'
    BY <1>10, <1>c DEF CommitBatch
  <2> QED  BY <1>10, <1>e, <1>q, <2>5, <2>6 DEF CommitBatch
<1>11. CASE FetchMap
  <2>1. reply' \in Seq(Row)
    BY <1>11, <1>t, ReplyRows DEF FetchMap
  <2>2. StagedTypes' /\ InHand'
    BY <1>11, <1>t, <2>1 DEF FetchMap, StagedTypes
  <2> QED  BY <1>11, <1>b, <1>c, <1>d, <1>p, <1>q, <2>2 DEF FetchMap
<1>12. CASE FetchFails \/ RejectRow \/ BreakRow
  BY <1>12, <1>c, <1>d, <1>e, <1>q DEF FetchFails, RejectRow, BreakRow
<1>13. CASE SkipRow
  <2>1. StagedTypes' /\ InHand'
    BY <1>13, <1>t, ReplyRows DEF SkipRow, StagedTypes
  <2> QED  BY <1>13, <1>b, <1>c, <1>d, <1>p, <1>q, <2>1 DEF SkipRow
<1>14. CASE AddRow
  <2>1. Head(reply).facility \in Sensors \cup Facilities /\ target \in Nat
    BY <1>14, <1>t, Numbers DEF AddRow, IsNew
  <2>2. NewRisk(Head(reply).facility, target) \in Risk
    BY <1>t, <2>1, NewRiskType
  <2>3. added' \in Seq(Risk)
    BY <1>14, <1>t, <2>2, Numbers DEF AddRow
  <2>4. StagedTypes' /\ InHand'
    BY <1>14, <1>t, <2>3, ReplyRows DEF AddRow, StagedTypes
  <2> QED  BY <1>14, <1>b, <1>c, <1>d, <1>p, <1>q, <2>4 DEF AddRow
<1>15. CASE NextTarget
  <2>1. target <= Len(Targets)
    BY <1>15, <1>t, ReplyRows DEF NextTarget
  <2>2. StagedTypes' /\ InHand'
    BY <1>15, <1>t, <1>n, <2>1 DEF NextTarget, StagedTypes
  <2> QED  BY <1>15, <1>b, <1>c, <1>d, <1>p, <1>q, <2>2 DEF NextTarget
<1>16. CASE CommitObjects
  <2>1. risks' \in Seq(Risk)
    BY <1>16, <1>t, Concatenated, Numbers DEF CommitObjects
  <2>2. DatabaseTypes'
    BY <1>16, <1>t, <2>1 DEF CommitObjects, DatabaseTypes
  <2> QED  BY <1>16, <1>c, <1>e, <1>q, <2>2 DEF CommitObjects
<1>17. CASE UNCHANGED vars
  BY <1>17, <1>b, <1>c, <1>d, <1>p, <1>q, <1>s DEF vars
<1> QED
  BY <1>1, <1>2, <1>3, <1>4, <1>5, <1>6, <1>7, <1>8, <1>9, <1>10, <1>11, <1>12, <1>13,
     <1>14, <1>15, <1>16, <1>17 DEF Next, RiskStep, ObjectStep

\* Every variable keeps its type; in particular a batch and its links lie in
\* the journal, and what an aborted start leaves in the session is nothing.
THEOREM TypeCorrect == Spec => []TypeOK
<1>1. TypeInv => TypeOK
  BY DEF TypeInv
<1> QED  BY <1>1, InitTypeInv, NextTypeInv, PTL DEF Spec

-----------------------------------------------------------------------------
(* The batch in hand and the cursor.                                        *)

\* What the session holds at each stage of a start.
Staged ==
  /\ phase # "risks" => rows = {}
  /\ rows = {} => groups = {}
  /\ phase \notin {"risks", "objects"} => added = <<>>
  /\ rows = {} /\ phase # "objects" => added = <<>>

\* Nothing writes the journal or the cursor while a start is in sync_risks: its
\* batch stays the first rows that are due.
BatchInHand == rows # {} => rows = FirstRows(Due, BatchSize) /\ groups \subseteq SensorsOf(rows)

\* Above the cursor nothing is linked.
Unseen == \A e \in DOMAIN events : e > cursor => events[e].risk = 0

BatchInv == Staged /\ BatchInHand /\ Unseen /\ NothingLeftBehind

LEMMA InitBatchInv == Init => BatchInv
BY DEF Init, BatchInv, Staged, BatchInHand, Unseen, NothingLeftBehind

\* The rows of the batch in hand are due.
LEMMA RowsAreDue ==
  ASSUME TypeOK, BatchInHand
  PROVE  /\ rows \subseteq Due
         /\ \A e \in rows : e \in DOMAIN events /\ e > cursor /\ events[e].risk = 0
<1>1. rows \subseteq Due
  BY FirstRowsSubset DEF BatchInHand
<1> QED  BY <1>1 DEF Due

\* Only a batch that is committed writes events or the cursor; an event may be
\* appended while no batch is in hand.
LEMMA JournalStep ==
  ASSUME TypeOK, [Next]_vars
  PROVE  \/ CommitBatch
         \/ \E s \in Sensors : EventArrives(s)
         \/ UNCHANGED <<events, cursor>>
BY DEF Next, RiskStep, ObjectStep, vars, database, session, Start, Stop, Decide, Tick,
       SelectBatch, NoMoreBatches, SkipGroup, RiskGroup, FetchMap, FetchFails, SkipRow,
       AddRow, RejectRow, BreakRow, NextTarget, CommitObjects

\* The COMMIT of a batch: the cursor moves past it, the rest stays as it is.
LEMMA CommitStep ==
  ASSUME TypeOK, BatchInHand, CommitBatch
  PROVE  /\ DOMAIN events' = DOMAIN events
         /\ \A e \in DOMAIN events \ rows : events'[e] = events[e]
         /\ cursor' \in rows /\ cursor' > cursor
         /\ \A e \in rows : e <= cursor'
<1>1. Len(events) \in Nat /\ rows \subseteq 1 .. Len(events) /\ rows # {}
  BY DEF CommitBatch, TypeOK
<1>2. cursor' \in rows /\ \A e \in rows : e <= cursor'
  BY <1>1, CursorAfterLast DEF CommitBatch
<1>3. \A e \in DOMAIN events \ rows : e \notin DOMAIN links
  BY DEF TypeOK
<1>4. DOMAIN events' = DOMAIN events /\ \A e \in DOMAIN events \ rows : events'[e] = events[e]
  BY <1>3 DEF CommitBatch
<1> QED  BY <1>2, <1>4, RowsAreDue

LEMMA NextStaged == TypeInv /\ Staged /\ [Next]_vars => Staged'
<1> SUFFICES ASSUME Staged, [Next]_vars PROVE Staged'
  OBVIOUS
<1> USE DEF Staged, database, session
<1>1. CASE Start
  BY <1>1 DEF Start
<1>2. CASE Stop
  BY <1>2 DEF Stop, EmptySession
<1>3. CASE \E s \in Sensors : EventArrives(s)
  BY <1>3 DEF EventArrives
<1>4. CASE \E k \in DOMAIN risks : Decide(k)
  BY <1>4 DEF Decide
<1>5. CASE Tick
  BY <1>5 DEF Tick
<1>6. CASE SelectBatch
  <2>1. rows' = {} => groups' = {}
    BY <1>6 DEF SelectBatch, SensorsOf
  <2> QED  BY <1>6, <2>1 DEF SelectBatch
<1>7. CASE NoMoreBatches
  BY <1>7 DEF NoMoreBatches
<1>8. CASE \E s \in Sensors : SkipGroup(s) \/ RiskGroup(s)
  BY <1>8 DEF SkipGroup, RiskGroup
<1>9. CASE CommitBatch
  BY <1>9 DEF CommitBatch, EmptySession
<1>10. CASE ObjectStep
  BY <1>10 DEF ObjectStep, FetchMap, FetchFails, SkipRow, AddRow, RejectRow, BreakRow,
               NextTarget, CommitObjects, EmptySession, HasRow
<1>11. CASE UNCHANGED vars
  BY <1>11 DEF vars
<1> QED
  BY <1>1, <1>2, <1>3, <1>4, <1>5, <1>6, <1>7, <1>8, <1>9, <1>10, <1>11 DEF Next, RiskStep

LEMMA NextBatchInHand == TypeInv /\ Staged /\ BatchInHand /\ [Next]_vars => BatchInHand'
<1> SUFFICES ASSUME TypeOK, Staged, BatchInHand, [Next]_vars, rows' # {}
             PROVE  (rows = FirstRows(Due, BatchSize) /\ groups \subseteq SensorsOf(rows))'
  BY DEF TypeInv, BatchInHand
<1>1. CASE SelectBatch
  <2>1. rows' = FirstRows(Due, BatchSize) /\ groups' = SensorsOf(rows') /\ events' = events
    BY <1>1 DEF SelectBatch, database
  <2>2. Due' = Due /\ FirstRows(Due, BatchSize)' = FirstRows(Due, BatchSize)
    BY <1>1 DEF SelectBatch, database, Due, FirstRows
  <2>3. SensorsOf(rows)' = SensorsOf(rows')
    BY <2>1 DEF SensorsOf
  <2> QED  BY <2>1, <2>2, <2>3
<1>2. CASE UNCHANGED <<events, cursor, rows>> /\ groups' \subseteq groups
  <2>1. FirstRows(Due, BatchSize)' = FirstRows(Due, BatchSize)
    BY <1>2 DEF Due, FirstRows
  <2>2. SensorsOf(rows)' = SensorsOf(rows)
    BY <1>2 DEF SensorsOf
  <2> QED  BY <1>2, <2>1, <2>2 DEF BatchInHand
<1>3. ASSUME NEW s \in Sensors, EventArrives(s) PROVE FALSE
  BY <1>3 DEF EventArrives, session, Staged
<1> QED
  BY <1>1, <1>2, <1>3
     DEF Next, RiskStep, ObjectStep, vars, database, session, EmptySession, Start, Stop, Decide,
         Tick, NoMoreBatches, SkipGroup, RiskGroup, CommitBatch, FetchMap, FetchFails, SkipRow,
         AddRow, RejectRow, BreakRow, NextTarget, CommitObjects

LEMMA NextUnseen == TypeInv /\ BatchInHand /\ Unseen /\ [Next]_vars => Unseen'
<1> SUFFICES ASSUME TypeOK, BatchInHand, Unseen, [Next]_vars PROVE Unseen'
  BY DEF TypeInv
<1>1. CASE CommitBatch
  <2> SUFFICES ASSUME NEW e \in DOMAIN events', e > cursor' PROVE events'[e].risk = 0
    BY DEF Unseen
  <2>1. e \in DOMAIN events \ rows /\ e \in Nat /\ cursor \in Nat /\ cursor' \in Nat
    BY <1>1, CommitStep DEF TypeOK
  <2>2. e > cursor
    BY <1>1, <2>1, CommitStep
  <2> QED  BY <1>1, <2>1, <2>2, CommitStep DEF Unseen
<1>2. ASSUME NEW s \in Sensors, EventArrives(s) PROVE Unseen'
  BY <1>2 DEF EventArrives, Unseen, TypeOK
<1>3. CASE UNCHANGED <<events, cursor>>
  BY <1>3 DEF Unseen
<1> QED  BY <1>1, <1>2, <1>3, JournalStep

\* When nothing above the cursor is due, the cursor is at the end.
LEMMA NothingDue ==
  ASSUME TypeOK, Unseen, NEW c \in Nat, cursor <= c, c <= Len(events),
         \A e \in Due : e <= c
  PROVE  c = Len(events)
<1>1. cursor \in Nat /\ Len(events) \in Nat /\ DOMAIN events = 1 .. Len(events)
  BY DEF TypeOK
<1>2. ASSUME c < Len(events) PROVE FALSE
  <2>1. Len(events) \in DOMAIN events /\ Len(events) > cursor
    BY <1>1, <1>2
  <2>2. Len(events) \in Due
    BY <2>1 DEF Due, Unseen
  <2> QED  BY <1>1, <1>2, <2>2
<1>3. ~(c < Len(events))
  BY <1>2
<1>4. \A m, n \in Nat : m <= n /\ ~(m < n) => m = n
  OBVIOUS
<1> QED  BY <1>1, <1>3, <1>4, Zenon

LEMMA NextNothingLeftBehind ==
  TypeInv /\ BatchInv /\ [Next]_vars => NothingLeftBehind'
<1> SUFFICES ASSUME TypeOK, BatchInv, [Next]_vars, phase' = "objects"
             PROVE  cursor' = Len(events')
  BY DEF TypeInv, NothingLeftBehind
<1> USE DEF BatchInv
<1>1. CASE CommitBatch
  <2>1. Cardinality(rows) < BatchSize /\ rows # {} /\ UNCHANGED Len(events)
    <3>1. Len(events') = Len(events)
      <4>1. events' \in [DOMAIN events -> {events'[e] : e \in DOMAIN events}]
        BY <1>1 DEF CommitBatch
      <4> QED  BY <4>1, MapSequence DEF TypeOK
    <3> QED  BY <1>1, <3>1 DEF CommitBatch
  <2>2. rows = Due
    <3>1. Due \subseteq Nat /\ IsFiniteSet(Due)
      BY BatchRows
    <3> QED  BY <2>1, <3>1, FirstRowsShort, ForecastAssumption DEF BatchInHand
  <2>3. /\ cursor' \in Nat /\ cursor <= cursor' /\ cursor' <= Len(events)
        /\ \A e \in Due : e <= cursor'
    BY <1>1, <2>2, CommitStep, BatchRows DEF TypeOK
  <2> QED  BY <2>1, <2>3, NothingDue
<1>2. CASE NoMoreBatches
  <2>1. cursor \in Nat /\ cursor <= cursor /\ cursor <= Len(events)
    BY DEF TypeOK
  <2>2. cursor = Len(events)
    BY <1>2, <2>1, NothingDue DEF NoMoreBatches
  <2> QED  BY <1>2, <2>2 DEF NoMoreBatches, database
<1>3. CASE UNCHANGED <<events, cursor, phase>>
  BY <1>3 DEF NothingLeftBehind
<1> QED
  BY <1>1, <1>2, <1>3
     DEF Next, RiskStep, ObjectStep, vars, database, session, Start, Stop, EventArrives, Decide,
         Tick, SelectBatch, SkipGroup, RiskGroup, FetchMap, FetchFails, SkipRow, AddRow,
         RejectRow, BreakRow, NextTarget, CommitObjects

LEMMA NextBatchInv == TypeInv /\ BatchInv /\ [Next]_vars => BatchInv'
BY NextStaged, NextBatchInHand, NextUnseen, NextNothingLeftBehind DEF BatchInv

\* When a start goes on to the facilities, every event of the journal has been
\* asked about: neither the batch limit nor an earlier crash leaves one behind.
THEOREM NothingIsLeftBehind == Spec => []NothingLeftBehind
<1>1. BatchInv => NothingLeftBehind
  BY DEF BatchInv
<1> QED
  BY <1>1, InitTypeInv, NextTypeInv, InitBatchInv, NextBatchInv, PTL DEF Spec

\* No step of any start changes an event at or below the cursor: what was
\* passed over once is not taken up again, and a link stays.
THEOREM EventsEvaluatedOnce == Spec => EvaluatedOnce
<1> DEFINE Once == \A e \in DOMAIN events : e <= cursor => events'[e] = events[e]
<1>1. TypeInv /\ BatchInv /\ [Next]_vars => [Once]_vars
  <2> SUFFICES ASSUME TypeOK, BatchInHand, [Next]_vars, NEW e \in DOMAIN events, e <= cursor
               PROVE  events'[e] = events[e]
    BY DEF TypeInv, BatchInv
  <2>1. CASE CommitBatch
    <3>1. e \notin rows
      BY RowsAreDue DEF TypeOK
    <3> QED  BY <2>1, <3>1, CommitStep
  <2>2. ASSUME NEW s \in Sensors, EventArrives(s) PROVE events'[e] = events[e]
    BY <2>2 DEF EventArrives, TypeOK
  <2> QED  BY <2>1, <2>2, JournalStep
<1> QED
  BY <1>1, InitTypeInv, NextTypeInv, InitBatchInv, NextBatchInv, PTL DEF Spec, EvaluatedOnce

-----------------------------------------------------------------------------
(* Links and risks.                                                         *)

\* The uncommitted links point to the uncommitted risks of their sensors, each
\* of which has one; no group still to be asked about is linked.
LinksInHand ==
  /\ \A e \in DOMAIN links :
       /\ links[e] - Len(risks) \in DOMAIN added
       /\ added[links[e] - Len(risks)].target = events[e].sensor
       /\ events[e].sensor \notin groups
  /\ phase = "risks" => \A k \in DOMAIN added : \E e \in DOMAIN links : links[e] = Len(risks) + k
  /\ phase = "objects" => \A k \in DOMAIN added : added[k].target \in Facilities

LinkInv == LinksInHand /\ RisksMatchEvents

LEMMA InitLinkInv == Init => LinkInv
BY DEF Init, LinkInv, LinksInHand, RisksMatchEvents

\* The session that is over holds no links and no risks.
LEMMA NothingInHand ==
  ASSUME DOMAIN links = {}, added = <<>>
  PROVE  LinksInHand
BY DEF LinksInHand

\* One forecast: the new risk is linked to the group, which is not empty.
LEMMA RiskGroupLinks ==
  ASSUME TypeOK, Staged, BatchInHand, LinksInHand, NEW s \in Sensors, RiskGroup(s)
  PROVE  LinksInHand'
<1> DEFINE l == Len(risks)
           n == Len(added)
<1>1. /\ l \in Nat /\ n \in Nat /\ phase = "risks" /\ s \in groups
      /\ DOMAIN added = 1 .. n
      /\ DOMAIN added' = 1 .. n + 1
      /\ \A k \in 1 .. n : added'[k] = added[k]
      /\ added'[n + 1].target = s
      /\ UNCHANGED <<risks, events, phase>> /\ groups' = groups \ {s}
  BY DEF RiskGroup, TypeOK, NewRisk, database
<1>2. /\ DOMAIN links' = GroupOf(s) \cup DOMAIN links
      /\ \A e \in GroupOf(s) : links'[e] = l + n + 1
      /\ \A e \in DOMAIN links : links[e] \in Nat
      /\ \A e \in DOMAIN links \ GroupOf(s) : links'[e] = links[e]
  BY DEF RiskGroup, TypeOK
<1> HIDE DEF l, n
<1>3. \A e \in DOMAIN links : e \notin GroupOf(s) /\ links'[e] = links[e]
  BY <1>1, <1>2 DEF LinksInHand, GroupOf
<1>4. ASSUME NEW e \in DOMAIN links'
      PROVE  /\ links'[e] - l \in DOMAIN added'
             /\ added'[links'[e] - l].target = events[e].sensor
             /\ events[e].sensor \notin groups'
  <2>1. CASE e \in GroupOf(s)
    <3>1. links'[e] - l = n + 1
      BY <1>1, <1>2, <2>1
    <3>2. events[e].sensor = s
      BY <2>1 DEF GroupOf
    <3> QED  BY <1>1, <3>1, <3>2
  <2>2. CASE e \in DOMAIN links
    <3>1. /\ links[e] - l \in 1 .. n
          /\ added[links[e] - l].target = events[e].sensor
          /\ events[e].sensor \notin groups
      BY <1>1, <2>2 DEF LinksInHand, l
    <3> QED  BY <1>1, <1>3, <2>2, <3>1
  <2> QED  BY <1>2, <1>4, <2>1, <2>2
<1>5. ASSUME NEW k \in DOMAIN added'
      PROVE  \E e \in DOMAIN links' : links'[e] = l + k
  <2>1. CASE k \in 1 .. n
    <3>1. PICK e \in DOMAIN links : links[e] = l + k
      BY <1>1, <2>1 DEF LinksInHand, l
    <3> QED  BY <1>2, <1>3, <3>1
  <2>2. CASE k = n + 1
    <3>1. PICK e \in rows : events[e].sensor = s
      BY <1>1 DEF Staged, BatchInHand, SensorsOf
    <3>2. e \in GroupOf(s)
      BY <3>1 DEF GroupOf
    <3> QED  BY <1>1, <1>2, <2>2, <3>2
  <2> QED  BY <1>1, <1>5, <2>1, <2>2
<1> QED  BY <1>1, <1>4, <1>5 DEF LinksInHand, l

LEMMA NextLinksInHand ==
  TypeInv /\ TypeInv' /\ BatchInv /\ LinksInHand /\ [Next]_vars => LinksInHand'
<1> SUFFICES ASSUME TypeOK, TypeOK', Staged, BatchInHand, LinksInHand, [Next]_vars
             PROVE  LinksInHand'
  BY DEF TypeInv, BatchInv
<1>1. ASSUME rows' = {}, added' = <<>> PROVE LinksInHand'
  <2>1. DOMAIN links' = {}
    BY <1>1 DEF TypeOK
  <2> QED  BY <1>1, <2>1 DEF LinksInHand
<1>2. ASSUME EmptySession PROVE LinksInHand'
  BY <1>1, <1>2 DEF EmptySession
<1>3. ASSUME UNCHANGED <<risks, events, added, links, phase>>, groups' \subseteq groups
      PROVE  LinksInHand'
  BY <1>3 DEF LinksInHand
<1>4. ASSUME phase \notin {"risks", "objects"} PROVE rows = {} /\ added = <<>>
  BY <1>4 DEF Staged
<1>5. CASE Start
  BY <1>1, <1>4, <1>5 DEF Start, session
<1>6. CASE \E s \in Sensors : EventArrives(s)
  BY <1>1, <1>4, <1>6 DEF EventArrives, session
<1>7. CASE \E k \in DOMAIN risks : Decide(k)
  BY <1>1, <1>4, <1>7 DEF Decide, session
<1>8. CASE SelectBatch
  <2>1. DOMAIN links' = {} /\ added' = <<>>
    BY <1>8 DEF SelectBatch, Staged, TypeOK
  <2> QED  BY <2>1 DEF LinksInHand
<1>9. CASE NoMoreBatches
  BY <1>1, <1>9 DEF NoMoreBatches, Staged, session
<1>10. ASSUME NEW s \in Sensors, SkipGroup(s) PROVE LinksInHand'
  BY <1>3, <1>10 DEF SkipGroup, database
<1>11. ASSUME NEW s \in Sensors, RiskGroup(s) PROVE LinksInHand'
  BY <1>11, RiskGroupLinks
<1>12. CASE AddRow
  <2>1. DOMAIN links' = {} /\ phase' = "objects" /\ phase = "objects"
    BY <1>12 DEF AddRow, HasRow, Staged, TypeOK
  <2>2. /\ \A k \in DOMAIN added' : k \in DOMAIN added \/ k = Len(added) + 1
        /\ \A k \in DOMAIN added : added'[k] = added[k]
        /\ added'[Len(added) + 1].target = Head(reply).facility
    <3>1. PICK r : r = NewRisk(Head(reply).facility, target)  OBVIOUS
    <3>2. added \in Seq(Risk) /\ added' = Append(added, r)
      BY <1>12, <3>1, Numbers DEF AddRow
    <3>3. r \in Risk /\ r.target = Head(reply).facility
      <4>1. Head(reply).facility \in Facilities /\ target \in Nat
        BY <1>12, Numbers DEF AddRow, IsNew
      <4>2. r \in Risk
        BY <3>1, <4>1, NewRiskType
      <4> QED  BY <3>1, <4>2 DEF NewRisk
    <3> QED  BY <3>2, <3>3
  <2>3. Head(reply).facility \in Facilities
    BY <1>12 DEF AddRow, IsNew
  <2>4. \A k \in DOMAIN added' : added'[k].target \in Facilities
    BY <2>1, <2>2, <2>3 DEF LinksInHand
  <2> QED  BY <2>1, <2>4 DEF LinksInHand
<1>13. CASE Tick \/ FetchMap \/ SkipRow \/ NextTarget \/ UNCHANGED vars
  BY <1>3, <1>13 DEF Tick, FetchMap, SkipRow, NextTarget, vars, database, session
<1>14. CASE Stop \/ CommitBatch \/ FetchFails \/ RejectRow \/ BreakRow \/ CommitObjects
  BY <1>2, <1>14 DEF Stop, CommitBatch, FetchFails, RejectRow, BreakRow, CommitObjects
<1> QED
  BY <1>5, <1>6, <1>7, <1>8, <1>9, <1>10, <1>11, <1>12, <1>13, <1>14
     DEF Next, RiskStep, ObjectStep

\* The COMMIT of a batch brings the links and the risks they point to.
LEMMA CommitBatchMatches ==
  ASSUME TypeOK, BatchInHand, LinksInHand, RisksMatchEvents, CommitBatch
  PROVE  RisksMatchEvents'
<1> DEFINE l == Len(risks)
           n == Len(added)
<1>1. /\ l \in Nat /\ n \in Nat /\ DOMAIN risks = 1 .. l /\ DOMAIN added = 1 .. n
      /\ DOMAIN risks' = 1 .. l + n
      /\ \A k \in 1 .. l : risks'[k] = risks[k]
      /\ \A k \in 1 .. n : risks'[l + k] = added[k]
  <2>1. risks \in Seq(Risk) /\ added \in Seq(Risk) /\ risks' = risks \o added
    BY Numbers DEF CommitBatch
  <2> QED  BY <2>1, Concatenated
<1>2. /\ DOMAIN events' = DOMAIN events /\ DOMAIN links \subseteq DOMAIN events
      /\ \A e \in DOMAIN links : events'[e].risk = links[e] /\ events'[e].sensor = events[e].sensor
      /\ \A e \in DOMAIN events \ DOMAIN links : events'[e] = events[e]
  BY EventAt DEF CommitBatch, TypeOK, Event
<1>3. \A e \in DOMAIN links : events[e].risk = 0 /\ links[e] \in Nat
  BY RowsAreDue DEF TypeOK
<1> HIDE DEF l, n
<1>4. ASSUME NEW e \in DOMAIN events', events'[e].risk # 0
      PROVE  /\ events'[e].risk \in DOMAIN risks'
             /\ risks'[events'[e].risk].target = events'[e].sensor
  <2>1. CASE e \in DOMAIN links
    <3>1. PICK k \in 1 .. n : k = links[e] - l
      BY <1>1, <2>1 DEF LinksInHand, l
    <3>2. events'[e].risk = l + k
      BY <1>1, <1>2, <1>3, <2>1, <3>1
    <3>3. added[k].target = events'[e].sensor
      BY <1>2, <2>1, <3>1 DEF LinksInHand, l
    <3> QED  BY <1>1, <3>2, <3>3
  <2>2. CASE e \notin DOMAIN links
    <3>1. events[e].risk \in 1 .. l /\ risks[events[e].risk].target = events[e].sensor
      BY <1>1, <1>2, <1>4, <2>2 DEF RisksMatchEvents
    <3> QED  BY <1>1, <1>2, <2>2, <3>1
  <2> QED  BY <2>1, <2>2
<1>5. ASSUME NEW k \in DOMAIN risks', risks'[k].target \in Sensors
      PROVE  \E e \in DOMAIN events' : events'[e].risk = k
  <2>1. CASE k \in 1 .. l
    <3>1. PICK e \in DOMAIN events : events[e].risk = k
      BY <1>1, <1>5, <2>1 DEF RisksMatchEvents
    <3>2. e \notin DOMAIN links
      BY <1>3, <2>1, <3>1
    <3> QED  BY <1>2, <3>1, <3>2
  <2>2. CASE k \notin 1 .. l
    <3>1. PICK i \in 1 .. n : k = l + i
      <4>1. k - l \in 1 .. n /\ k = l + (k - l)
        BY <1>1, <1>5, <2>2
      <4> QED  BY <4>1
    <3>2. PICK e \in DOMAIN links : links[e] = l + i
      BY <1>1, <3>1 DEF LinksInHand, CommitBatch, l
    <3> QED  BY <1>2, <3>1, <3>2
  <2> QED  BY <2>1, <2>2
<1> QED  BY <1>4, <1>5 DEF RisksMatchEvents

LEMMA NextRisksMatchEvents ==
  TypeInv /\ BatchInv /\ LinkInv /\ [Next]_vars => RisksMatchEvents'
<1> SUFFICES ASSUME TypeOK, BatchInHand, LinksInHand, RisksMatchEvents, [Next]_vars
             PROVE  RisksMatchEvents'
  BY DEF TypeInv, BatchInv, LinkInv
<1>1. CASE CommitBatch
  BY <1>1, CommitBatchMatches
<1>2. ASSUME NEW s \in Sensors, EventArrives(s) PROVE RisksMatchEvents'
  <2>1. /\ UNCHANGED risks
        /\ DOMAIN events \subseteq DOMAIN events'
        /\ \A e \in DOMAIN events' : e \in DOMAIN events \/ events'[e].risk = 0
        /\ \A e \in DOMAIN events : events'[e] = events[e]
    BY <1>2 DEF EventArrives, TypeOK
  <2> QED  BY <2>1 DEF RisksMatchEvents
<1>3. ASSUME NEW k \in DOMAIN risks, Decide(k) PROVE RisksMatchEvents'
  <2>1. /\ UNCHANGED events
        /\ DOMAIN risks' = DOMAIN risks
        /\ \A i \in DOMAIN risks : risks'[i].target = risks[i].target
    <3>1. risks[k] \in Risk
      BY DEF TypeOK
    <3> QED  BY <1>3, <3>1 DEF Decide, Risk
  <2> QED  BY <2>1 DEF RisksMatchEvents
<1>4. CASE CommitObjects
  <2>1. /\ DOMAIN risks = 1 .. Len(risks) /\ Len(risks) \in Nat
        /\ DOMAIN risks' = 1 .. Len(risks) + Len(added) /\ Len(added) \in Nat
        /\ DOMAIN added = 1 .. Len(added)
        /\ \A k \in DOMAIN risks : risks'[k] = risks[k]
        /\ \A k \in DOMAIN added : risks'[Len(risks) + k] = added[k]
    BY <1>4, Concatenated DEF CommitObjects, TypeOK
  <2>2. ASSUME NEW k \in DOMAIN risks' \ DOMAIN risks PROVE risks'[k].target \notin Sensors
    <3>1. k - Len(risks) \in DOMAIN added /\ k = Len(risks) + (k - Len(risks))
      BY <2>1
    <3>2. risks'[k] = added[k - Len(risks)]
      BY <2>1, <3>1
    <3> QED  BY <1>4, <3>1, <3>2, ForecastAssumption DEF CommitObjects, LinksInHand
  <2>3. DOMAIN risks \subseteq DOMAIN risks' /\ UNCHANGED events
    BY <1>4, <2>1 DEF CommitObjects
  <2> QED  BY <2>1, <2>2, <2>3 DEF RisksMatchEvents
<1>5. CASE UNCHANGED <<events, risks>>
  BY <1>5 DEF RisksMatchEvents
<1> QED
  BY <1>1, <1>2, <1>3, <1>4, <1>5
     DEF Next, RiskStep, ObjectStep, vars, database, Start, Stop, Tick, SelectBatch,
         NoMoreBatches, SkipGroup, RiskGroup, FetchMap, FetchFails, SkipRow, AddRow, RejectRow,
         BreakRow, NextTarget

LEMMA NextLinkInv ==
  TypeInv /\ TypeInv' /\ BatchInv /\ LinkInv /\ [Next]_vars => LinkInv'
BY NextLinksInHand, NextRisksMatchEvents DEF LinkInv

\* At whatever step the process stops, a linked event has its committed risk,
\* about its own sensor, and every sensor risk has an event behind it: risks,
\* links and cursor share one COMMIT (sync_risks).
THEOREM RisksAlwaysMatchEvents == Spec => []RisksMatchEvents
<1>1. LinkInv => RisksMatchEvents
  BY DEF LinkInv
<1> QED
  BY <1>1, InitTypeInv, NextTypeInv, InitBatchInv, NextBatchInv, InitLinkInv, NextLinkInv, PTL
     DEF Spec

-----------------------------------------------------------------------------
(* Open risks.                                                              *)

\* Two open risks of a model about a facility whose windows run beyond t.
Both(j, k, t) ==
  /\ j.target \in Facilities /\ j.target = k.target /\ j.model = k.model
  /\ j.open /\ k.open
  /\ j.ends > t /\ k.ends > t

\* The committed risks and those of the session, in the order of their ids.
All == risks \o added

\* There are no such two among them, at the time the step has read.
OneEach == \A j, k \in DOMAIN All : Both(All[j], All[k], at) => j = k

OpenInv ==
  /\ OneEach
  /\ phase = "risks" => \A k \in DOMAIN added : added[k].target \in Sensors

LEMMA InitOpenInv == Init => OpenInv
<1> SUFFICES ASSUME Init PROVE OpenInv
  OBVIOUS
<1>1. DOMAIN All = {} /\ DOMAIN added = {}
  BY DEF Init, All
<1> QED  BY <1>1 DEF OpenInv, OneEach

LEMMA AllTypes ==
  ASSUME TypeOK
  PROVE  /\ Len(risks) \in Nat /\ DOMAIN risks = 1 .. Len(risks)
         /\ Len(added) \in Nat /\ DOMAIN added = 1 .. Len(added)
         /\ All \in Seq(Risk)
         /\ DOMAIN All = 1 .. Len(risks) + Len(added)
         /\ \A k \in DOMAIN risks : All[k] = risks[k]
         /\ \A k \in DOMAIN All : All[k].ends \in Nat
         /\ at \in Nat
<1>1. risks \in Seq(Risk) /\ added \in Seq(Risk) /\ at \in Nat
  BY DEF TypeOK
<1>2. All \in Seq(Risk) /\ DOMAIN All = 1 .. Len(risks) + Len(added)
  BY <1>1, Concatenated DEF All
<1>3. \A k \in DOMAIN risks : All[k] = risks[k]
  BY <1>1, Concatenated DEF All
<1>4. ASSUME NEW k \in DOMAIN All PROVE All[k].ends \in Nat
  <2>1. All[k] \in Risk
    BY <1>2
  <2> QED  BY <2>1 DEF Risk
<1> QED  BY <1>1, <1>2, <1>3, <1>4

\* Nothing is added, at most something is closed or dropped, time goes on.
LEMMA OneEachKept ==
  ASSUME TypeOK, TypeOK', OneEach, at <= at',
         DOMAIN All' \subseteq DOMAIN All,
         \A k \in DOMAIN All' :
           /\ All'[k].target = All[k].target /\ All'[k].model = All[k].model
           /\ All'[k].ends = All[k].ends /\ (All'[k].open => All[k].open)
  PROVE  OneEach'
<1> SUFFICES ASSUME NEW j \in DOMAIN All', NEW k \in DOMAIN All', Both(All[j], All[k], at)'
             PROVE  j = k
  BY DEF OneEach
<1>1. at \in Nat /\ at' \in Nat /\ All[j].ends \in Nat /\ All[k].ends \in Nat
  <2>1. at \in Nat /\ j \in DOMAIN All /\ k \in DOMAIN All
    BY Numbers
  <2>2. at' \in Nat
    BY TypeParts, ForecastAssumption DEF ClockTypes
  <2> QED  BY <2>1, <2>2, AllTypes
<1>2. Both(All[j], All[k], at)
  BY <1>1 DEF Both
<1> QED  BY <1>2 DEF OneEach

\* A risk is added that matches none of those there are.
LEMMA OneEachAppended ==
  ASSUME TypeOK, OneEach, NEW r, at' = at, All' = Append(All, r),
         \A k \in DOMAIN All : ~Both(All[k], r, at)
  PROVE  OneEach'
<1>1. PICK n \in Nat : n = Len(risks) + Len(added)
  BY AllTypes
<1>2. /\ DOMAIN All = 1 .. n /\ DOMAIN All' = 1 .. n + 1
      /\ \A k \in DOMAIN All : All'[k] = All[k]
      /\ All'[n + 1] = r
  <2>1. All \in Seq(Risk) /\ DOMAIN All = 1 .. n
    BY <1>1, AllTypes
  <2>2. Len(All) = n
    BY <1>1, <2>1
  <2> QED  BY <2>1, <2>2
<1> SUFFICES ASSUME NEW j \in DOMAIN All', NEW k \in DOMAIN All', Both(All[j], All[k], at)'
             PROVE  j = k
  BY DEF OneEach
<1>3. Both(All'[j], All'[k], at) /\ Both(All'[k], All'[j], at)
  BY DEF Both
<1>4. CASE j \in DOMAIN All /\ k \in DOMAIN All
  BY <1>2, <1>3, <1>4 DEF OneEach
<1>5. CASE j \in DOMAIN All /\ k \notin DOMAIN All
  BY <1>2, <1>3, <1>5
<1>6. CASE j \notin DOMAIN All /\ k \in DOMAIN All
  BY <1>2, <1>3, <1>6
<1>7. CASE j \notin DOMAIN All /\ k \notin DOMAIN All
  BY <1>2, <1>7
<1> QED  BY <1>4, <1>5, <1>6, <1>7

LEMMA AppendToAll ==
  ASSUME TypeOK, NEW r, added' = Append(added, r), risks' = risks
  PROVE  All' = Append(All, r)
<1>1. risks \in Seq(Risk) /\ added \in Seq(Risk)
  BY Numbers
<1>2. risks \o Append(added, r) = Append(risks \o added, r)
  BY <1>1
<1> QED  BY <1>2 DEF All

LEMMA NextOneEach == TypeInv /\ TypeInv' /\ Staged /\ OpenInv /\ [Next]_vars => OneEach'
<1> SUFFICES ASSUME TypeOK, TypeOK', Staged, OpenInv, [Next]_vars
             PROVE  OneEach'
  BY DEF TypeInv
<1> USE DEF OpenInv
<1>t. at \in Nat /\ now \in Nat /\ at <= now /\ at <= at
  BY DEF TypeOK
<1>1. ASSUME All' = All, at <= at' PROVE OneEach'
  BY <1>1, OneEachKept
<1>2. ASSUME UNCHANGED risks, added' = <<>>, at' = at PROVE OneEach'
  <2>1. All' = risks /\ \A k \in DOMAIN risks : All[k] = risks[k]
    <3>1. risks \in Seq(Risk)
      BY Numbers
    <3>2. risks \o <<>> = risks
      BY <3>1
    <3> QED  BY <1>2, <3>2, AllTypes DEF All
  <2>2. DOMAIN All' \subseteq DOMAIN All
    BY <2>1, AllTypes
  <2> QED  BY <1>2, <1>t, <2>1, <2>2, OneEachKept
<1>3. CASE CommitBatch \/ CommitObjects
  <2>1. risks' = All /\ added' = <<>> /\ at <= at'
    BY <1>3, <1>t DEF CommitBatch, CommitObjects, EmptySession, All
  <2>2. All' = All
    <3>1. All \in Seq(Risk)
      BY AllTypes
    <3>2. All \o <<>> = All
      BY <3>1
    <3> QED  BY <2>1, <3>2 DEF All
  <2> QED  BY <1>1, <2>1, <2>2
<1>4. ASSUME NEW i \in DOMAIN risks, Decide(i) PROVE OneEach'
  <2>1. /\ i \in DOMAIN All /\ All[i] = risks[i] /\ risks[i] \in Risk
        /\ added = <<>> /\ added' = added /\ at' = at
        /\ risks' = [risks EXCEPT ![i] = [risks[i] EXCEPT !.open = FALSE]]
    <3>1. i \in DOMAIN All /\ All[i] = risks[i]
      BY AllTypes
    <3>2. risks[i] \in Risk
      BY Numbers
    <3> QED  BY <1>4, <3>1, <3>2 DEF Decide, Staged, session
  <2>2. All = risks /\ All' = risks'
    BY <2>1 DEF All, TypeOK
  <2>3. DOMAIN risks' = DOMAIN risks
    BY <2>1
  <2>4. \A k \in DOMAIN risks :
           /\ risks'[k].target = risks[k].target /\ risks'[k].model = risks[k].model
           /\ risks'[k].ends = risks[k].ends /\ (risks'[k].open => risks[k].open)
    <3> DEFINE u == [risks[i] EXCEPT !.open = FALSE]
    <3>1. /\ u.target = risks[i].target /\ u.model = risks[i].model
          /\ u.ends = risks[i].ends /\ ~u.open
      BY <2>1 DEF Risk
    <3>2. \A k \in DOMAIN risks : risks'[k] = IF k = i THEN u ELSE risks[k]
      BY <2>1
    <3> HIDE DEF u
    <3> QED  BY <3>1, <3>2
  <2> QED  BY <1>t, <2>1, <2>2, <2>3, <2>4, OneEachKept
<1>5. ASSUME NEW s \in Sensors, RiskGroup(s) PROVE OneEach'
  <2>1. NewRisk(s, SensorModel).target \notin Facilities
    BY ForecastAssumption DEF NewRisk
  <2>2. All' = Append(All, NewRisk(s, SensorModel)) /\ at' = at
    BY <1>5, AppendToAll DEF RiskGroup, database
  <2> QED  BY <2>1, <2>2, OneEachAppended DEF Both
<1>6. CASE AddRow
  <2> DEFINE r == NewRisk(Head(reply).facility, target)
  <2>1. All' = Append(All, r) /\ at' = at
    BY <1>6, AppendToAll DEF AddRow, database
  <2>2. r.target = Head(reply).facility /\ r.model = target
    BY DEF NewRisk
  <2>3. ~HasOpenRisk(Head(reply).facility, target)
    BY <1>6 DEF AddRow, IsNew
  <2> HIDE DEF r
  <2>4. \A k \in DOMAIN All : ~Both(All[k], r, at)
    BY <2>2, <2>3 DEF Both, HasOpenRisk, All
  <2> QED  BY <2>1, <2>4, OneEachAppended
<1>7. CASE Stop \/ FetchFails \/ RejectRow \/ BreakRow
  BY <1>2, <1>7 DEF Stop, FetchFails, RejectRow, BreakRow, EmptySession, database
<1>8. CASE \/ Start \/ Tick \/ SelectBatch \/ NoMoreBatches \/ FetchMap \/ SkipRow \/ NextTarget
           \/ UNCHANGED vars
           \/ \E s \in Sensors : EventArrives(s) \/ SkipGroup(s)
  <2>1. UNCHANGED <<risks, added>> /\ at <= at'
    BY <1>8, <1>t DEF Start, Tick, SelectBatch, NoMoreBatches, FetchMap, SkipRow, NextTarget, vars,
                  EventArrives, SkipGroup, database, session
  <2> QED  BY <1>1, <2>1 DEF All
<1> QED
  BY <1>3, <1>4, <1>5, <1>6, <1>7, <1>8 DEF Next, RiskStep, ObjectStep

LEMMA NextOpenInv == TypeInv /\ TypeInv' /\ Staged /\ OpenInv /\ [Next]_vars => OpenInv'
<1> SUFFICES ASSUME TypeOK, Staged, OpenInv, [Next]_vars, phase' = "risks"
             PROVE  \A k \in DOMAIN added' : added'[k].target \in Sensors
  BY NextOneEach DEF OpenInv, TypeInv
<1>1. ASSUME NEW s \in Sensors, RiskGroup(s)
      PROVE  \A k \in DOMAIN added' : added'[k].target \in Sensors
  <2>1. /\ \A k \in DOMAIN added' : k \in DOMAIN added \/ k = Len(added) + 1
        /\ \A k \in DOMAIN added : added'[k] = added[k]
        /\ added'[Len(added) + 1].target = s
    BY <1>1 DEF RiskGroup, TypeOK, NewRisk
  <2> QED  BY <1>1, <2>1 DEF OpenInv, RiskGroup
<1>2. CASE phase = "risks" /\ UNCHANGED added
  BY <1>2 DEF OpenInv
<1>3. CASE added' = <<>>
  BY <1>3
<1> QED
  BY <1>1, <1>2, <1>3
     DEF Next, RiskStep, ObjectStep, vars, database, session, EmptySession, Staged, Start, Stop,
         EventArrives, Decide, Tick, SelectBatch, NoMoreBatches, SkipGroup, CommitBatch, FetchMap,
         FetchFails, SkipRow, AddRow, RejectRow, BreakRow, NextTarget, CommitObjects, HasRow

\* However often the backend starts and whatever the answers repeat, a facility
\* has at most one open risk of a model whose window has not ended: the session
\* is flushed before _has_open_risk looks, and the clock only goes on.
THEOREM OneOpenRiskEach == Spec => []OneOpenRisk
<1>1. TypeInv /\ OpenInv => OneOpenRisk
  <2> SUFFICES ASSUME TypeOK, OneEach, NEW j \in DOMAIN risks, NEW k \in DOMAIN risks,
                      Both(risks[j], risks[k], now)
               PROVE  j = k
    BY DEF TypeInv, OpenInv, OneOpenRisk, Both
  <2>1. /\ j \in DOMAIN All /\ k \in DOMAIN All /\ All[j] = risks[j] /\ All[k] = risks[k]
        /\ risks[j].ends \in Nat /\ risks[k].ends \in Nat
    BY AllTypes
  <2>2. at \in Nat /\ now \in Nat /\ at <= now
    BY DEF TypeOK
  <2>3. Both(All[j], All[k], at)
    BY <2>1, <2>2 DEF Both
  <2> QED  BY <2>1, <2>3 DEF OneEach
<1>2. BatchInv => Staged
  BY DEF BatchInv
<1> QED
  BY <1>1, <1>2, InitTypeInv, NextTypeInv, InitBatchInv, NextBatchInv, InitOpenInv, NextOpenInv,
     PTL DEF Spec
=============================================================================
