-------------------------- MODULE EventSyncProofs --------------------------
(***************************************************************************)
(* What EventSync guarantees for every number of requests, readings and     *)
(* crashes and every batch size.                                            *)
(*                                                                         *)
(* Whoever writes, no event describes a reading that is not committed.  As  *)
(* long as the replay loop is the only writer, ids are committed in their   *)
(* order, every batch is a stretch of the log behind the mark its request   *)
(* holds, and a batch that lags behind the mark collides with the events    *)
(* that are there: the journal holds exactly the notable readings up to     *)
(* the mark, and the whole system implements EventJournal.                  *)
(***************************************************************************)
EXTENDS EventSync, FiniteSetTheorems, WellFoundedInduction, TLAPS

-----------------------------------------------------------------------------
(* The rows of a batch.                                                     *)

LEMMA LeastExists ==
  ASSUME NEW T, T \subseteq Nat, T # {}
  PROVE  \E m \in T : \A t \in T : m <= t
<1> DEFINE R == OpToRel(<, Nat)
<1>1. IsWellFoundedOn(R, Nat)
  BY NatLessThanWellFounded
<1> HIDE DEF R
<1>2. PICK m \in T : \A t \in T : <<t, m>> \notin R
  BY <1>1, WFMin
<1>3. \A t \in T : ~(t < m)
  BY <1>2 DEF R, OpToRel
<1> QED
  BY <1>3

\* LIMIT n cuts the rows off at some id.
LEMMA FirstRowsDownward ==
  ASSUME NEW S, S \subseteq Nat, IsFiniteSet(S), NEW n \in Nat,
         NEW b \in FirstRows(S, n), NEW r \in S, r <= b
  PROVE  r \in FirstRows(S, n)
<1> DEFINE Below(x) == {q \in S : q < x}
<1>1. b \in S /\ Cardinality(Below(b)) < n
  BY DEF FirstRows
<1>2. Below(r) \subseteq Below(b) /\ Below(b) \subseteq S
  <2>1. r \in Nat /\ b \in Nat /\ \A q \in S : q \in Nat
    BY <1>1
  <2>2. \A q \in S : q < r => q < b
    BY <2>1
  <2> QED
    BY <2>2
<1>3. IsFiniteSet(Below(b)) /\ IsFiniteSet(Below(r))
  BY <1>2, FS_Subset
<1>4. Cardinality(Below(r)) <= Cardinality(Below(b))
  BY <1>2, <1>3, FS_Subset
<1>5. Cardinality(Below(r)) \in Nat /\ Cardinality(Below(b)) \in Nat
  BY <1>3, FS_CardinalityType
<1>6. Cardinality(Below(r)) < n
  BY <1>1, <1>4, <1>5
<1> QED
  BY <1>6 DEF FirstRows

\* Fewer than n rows are all the rows.
LEMMA FirstRowsShort ==
  ASSUME NEW S, S \subseteq Nat, IsFiniteSet(S), NEW n \in Nat,
         Cardinality(FirstRows(S, n)) < n
  PROVE  FirstRows(S, n) = S
<1> DEFINE F == FirstRows(S, n)
<1>1. F \subseteq S
  BY DEF FirstRows
<1>2. SUFFICES ASSUME S \ F # {} PROVE FALSE
  BY <1>1
<1>3. PICK m \in S \ F : \A t \in S \ F : m <= t
  BY <1>2, LeastExists
<1> DEFINE Below == {q \in S : q < m}
<1>4. Below \subseteq F
  <2> SUFFICES ASSUME NEW q \in S, q < m, q \notin F PROVE FALSE
    OBVIOUS
  <2> HIDE DEF F
  <2>1. m <= q /\ m \in Nat /\ q \in Nat
    BY <1>3
  <2> QED
    BY <2>1
<1>5. IsFiniteSet(F) /\ IsFiniteSet(Below)
  BY <1>1, <1>4, FS_Subset
<1>6. Cardinality(Below) <= Cardinality(F)
  BY <1>4, <1>5, FS_Subset
<1>7. Cardinality(Below) \in Nat /\ Cardinality(F) \in Nat
  BY <1>5, FS_CardinalityType
<1>8. Cardinality(Below) < n
  BY <1>6, <1>7
<1> QED
  BY <1>3, <1>8 DEF FirstRows

LEMMA FirstRowsSubset == \A S, n : FirstRows(S, n) \subseteq S
  BY DEF FirstRows

-----------------------------------------------------------------------------
(* Types.                                                                   *)

LEMMA NotableIds == TypeOK => Notable \subseteq Ids /\ readings \subseteq Ids
<1> SUFFICES ASSUME TypeOK PROVE readings \subseteq Ids
  BY DEF Notable
<1>1. readings \subseteq 1 .. nextId - 1 /\ nextId \in 1 .. MaxReading + 1
  BY DEF TypeOK
<1> QED
  BY <1>1, SyncAssumption DEF Ids

LEMMA InitTypeOK == Init => TypeOK
<1> SUFFICES ASSUME Init PROVE TypeOK
  OBVIOUS
<1> USE SyncAssumption DEF Init
<1>1. nextId \in 1 .. MaxReading + 1 /\ mark \in 0 .. MaxReading /\ crashes \in 0 .. MaxCrashes
  OBVIOUS
<1>2. alarms \subseteq 1 .. nextId - 1 /\ readings \subseteq 1 .. nextId - 1 /\ events \subseteq Ids
  OBVIOUS
<1>3. pending \in [Writers -> SUBSET (1 .. nextId - 1)]
  OBVIOUS
<1>4. hasState \in BOOLEAN
  OBVIOUS
<1>5. (~hasState => mark = 0) /\ creator \in Requests \cup {None}
  OBVIOUS
<1>6. pc \in [Requests -> {"idle", "create", "select", "write", "answer"}]
  OBVIOUS
<1>7. seen \in [Requests -> 0 .. MaxReading]
  OBVIOUS
<1>8. batch \in [Requests -> SUBSET Ids] /\ owed \in [Requests -> SUBSET Ids]
  OBVIOUS
<1> QED
  BY <1>1, <1>2, <1>3, <1>4, <1>5, <1>6, <1>7, <1>8 DEF TypeOK

LEMMA NextTypeOK == TypeOK /\ [Next]_vars => TypeOK'
<1> SUFFICES ASSUME TypeOK, [Next]_vars PROVE TypeOK'
  OBVIOUS
<1> USE SyncAssumption DEF TypeOK, log, table, request
<1>1. ASSUME NEW w \in Writers, NEW notable \in BOOLEAN, FlushReading(w, notable)
      PROVE  TypeOK'
  <2>1. nextId \in 1 .. MaxReading /\ nextId' = nextId + 1 /\ nextId' \in 1 .. MaxReading + 1
    BY <1>1 DEF FlushReading
  <2>2. 1 .. nextId' - 1 = (1 .. nextId - 1) \cup {nextId}
    BY <2>1
  <2>3. alarms' \subseteq 1 .. nextId' - 1 /\ readings' \subseteq 1 .. nextId' - 1
    BY <1>1, <2>2 DEF FlushReading
  <2>4. pending' \in [Writers -> SUBSET (1 .. nextId' - 1)]
    BY <1>1, <2>2 DEF FlushReading
  <2> QED
    BY <1>1, <2>1, <2>3, <2>4 DEF FlushReading
<1>2. ASSUME NEW w \in Writers, CommitReadings(w) PROVE TypeOK'
  BY <1>2 DEF CommitReadings
<1>3. ASSUME NEW a \in Activations, ActivateFail(a) PROVE TypeOK'
  BY <1>3 DEF ActivateFail, Writers
<1>4. ASSUME NEW s \in Requests, SyncStart(s) PROVE TypeOK'
  BY <1>4, NotableIds DEF SyncStart
<1>5. ASSUME NEW s \in Requests, SyncCreate(s) PROVE TypeOK'
  BY <1>5 DEF SyncCreate
<1>6. ASSUME NEW s \in Requests, SyncCreateFail(s) PROVE TypeOK'
  BY <1>6 DEF SyncCreateFail
<1>7. ASSUME NEW s \in Requests, SyncSelect(s) PROVE TypeOK'
  <2>1. FirstRows(Due(s), BatchSize) \subseteq Ids
    BY FirstRowsSubset, NotableIds DEF Due
  <2> QED
    BY <1>7, <2>1 DEF SyncSelect
<1>8. ASSUME NEW s \in Requests, SyncWrite(s) PROVE TypeOK'
  <2>1. PICK top \in batch[s] : mark' = top /\ seen' = [seen EXCEPT ![s] = top]
    BY <1>8 DEF SyncWrite
  <2>2. top \in Ids /\ top \in 0 .. MaxReading /\ batch[s] \subseteq Ids
    BY <2>1 DEF Ids
  <2>3. mark' \in 0 .. MaxReading /\ seen' \in [Requests -> 0 .. MaxReading]
    BY <2>1, <2>2
  <2>4. hasState' = TRUE /\ events' \subseteq Ids
    BY <1>8, <2>2 DEF SyncWrite
  <2>5. creator' \in Requests \cup {None}
    BY <1>8 DEF SyncWrite, EndTransaction
  <2>6. pc' \in [Requests -> {"idle", "create", "select", "write", "answer"}]
    BY <1>8 DEF SyncWrite
  <2>7. UNCHANGED <<nextId, alarms, pending, readings, batch, owed, crashes>>
    BY <1>8 DEF SyncWrite
  <2> QED
    BY <2>3, <2>4, <2>5, <2>6, <2>7
<1>9. ASSUME NEW s \in Requests, SyncWriteFail(s) PROVE TypeOK'
  BY <1>9 DEF SyncWriteFail, EndTransaction
<1>10. ASSUME NEW s \in Requests, Answer(s) PROVE TypeOK'
  BY <1>10 DEF Answer, EndTransaction
<1>11. ASSUME Crash PROVE TypeOK'
  BY <1>11 DEF Crash
<1>12. CASE UNCHANGED vars
  BY <1>12 DEF vars
<1>13. Replay \in Writers /\ Activations \subseteq Writers
  BY DEF Writers
<1> QED
  BY <1>1, <1>2, <1>3, <1>4, <1>5, <1>6, <1>7, <1>8, <1>9, <1>10, <1>11, <1>12, <1>13
  DEF Next, ReplayStep, TickInsert, TickCommit, ActivationStep, ActivateStep, ActivateCommit,
      SyncStep

\* Every variable keeps its type, for every interleaving of writers, requests
\* and crashes.
THEOREM TypeCorrect == Spec => []TypeOK
  BY InitTypeOK, NextTypeOK, PTL DEF Spec

-----------------------------------------------------------------------------
(* Events are made of committed readings, whoever writes.                   *)

Committed ==
  /\ events \subseteq Notable
  /\ \A s \in Requests : batch[s] \subseteq Notable

CommittedInv == TypeOK /\ Committed

LEMMA NotableGrows == TypeOK /\ [Next]_vars => Notable \subseteq Notable'
<1> SUFFICES ASSUME TypeOK, [Next]_vars PROVE readings \subseteq readings' /\ alarms \subseteq alarms'
  BY DEF Notable
<1> QED
  BY DEF Next, vars, log, ReplayStep, TickInsert, TickCommit, ActivationStep, ActivateStep,
         ActivateCommit, ActivateFail, FlushReading, CommitReadings, SyncStep, SyncStart,
         SyncCreate, SyncCreateFail, SyncSelect, SyncWrite, SyncWriteFail, Answer, Crash

LEMMA InitCommitted == Init => CommittedInv
<1> SUFFICES ASSUME Init PROVE Committed
  BY InitTypeOK DEF CommittedInv
<1> QED
  BY DEF Init, Committed

LEMMA NextCommitted == CommittedInv /\ [Next]_vars => CommittedInv'
<1> SUFFICES ASSUME CommittedInv, [Next]_vars PROVE Committed'
  BY NextTypeOK DEF CommittedInv
<1>0. TypeOK /\ Committed /\ Notable \subseteq Notable'
  BY NotableGrows DEF CommittedInv
<1>1. ASSUME NEW s \in Requests, SyncSelect(s) PROVE Committed'
  <2>1. FirstRows(Due(s), BatchSize) \subseteq Notable
    BY FirstRowsSubset DEF Due
  <2> QED
    BY <1>0, <1>1, <2>1 DEF SyncSelect, Committed, TypeOK, table
<1>2. ASSUME NEW s \in Requests, SyncWrite(s) PROVE Committed'
  BY <1>0, <1>2 DEF SyncWrite, Committed
<1>3. ASSUME UNCHANGED <<events, batch>> PROVE Committed'
  BY <1>0, <1>3 DEF Committed
<1> QED
  BY <1>1, <1>2, <1>3
  DEF Next, vars, table, request, ReplayStep, TickInsert, TickCommit, ActivationStep, ActivateStep,
      ActivateCommit, ActivateFail, FlushReading, CommitReadings, SyncStep, SyncStart,
      SyncCreate, SyncCreateFail, SyncWriteFail, Answer, Crash

\* However writers, requests and crashes interleave, an event describes a
\* reading that is committed: a rollback never takes back what the journal shows.
THEOREM EventsCommitted == Spec => []EventsAreCommitted
<1>1. CommittedInv => EventsAreCommitted
  BY DEF CommittedInv, Committed, EventsAreCommitted
<1> QED
  BY InitCommitted, NextCommitted, <1>1, PTL DEF Spec

-----------------------------------------------------------------------------
(* The replay loop is the only writer.                                      *)

\* Ids are committed in their order.
Ordered == \A p \in pending[Replay], r \in readings : r < p

\* No request holds a mark that is ahead of the table's.
SeenBelowMark == \A s \in Requests : seen[s] <= mark

MarkIsEvent == mark = 0 \/ mark \in events

\* The batch of a request is the stretch of the log behind the mark it holds.
BatchIsStretch ==
  \A s \in Requests :
    pc[s] = "write" =>
      \A b \in batch[s] :
        \A r \in Notable : seen[s] < r /\ r <= b => r \in batch[s]

\* What a request owes its caller is journaled, or in its last batch.
OwedCovered ==
  \A s \in Requests :
    /\ owed[s] \subseteq Notable
    /\ pc[s] = "write" /\ ShortBatch(batch[s]) =>
         \A r \in owed[s] : r <= seen[s] \/ r \in batch[s]
    /\ pc[s] = "answer" => owed[s] \subseteq events

Exact ==
  /\ NoneSkipped
  /\ EventsBelowMark
  /\ Ordered
  /\ SeenBelowMark
  /\ MarkIsEvent
  /\ BatchIsStretch
  /\ OwedCovered

ExactInv == CommittedInv /\ Exact

LEMMA InitExact == Init => ExactInv
<1> SUFFICES ASSUME Init PROVE Exact
  BY InitCommitted DEF ExactInv
<1>1. Notable = {} /\ events = {} /\ mark = 0 /\ readings = {}
  BY DEF Init, Notable
<1>2. \A s \in Requests : pc[s] = "idle" /\ seen[s] = 0 /\ owed[s] = {}
  BY DEF Init
<1>3. NoneSkipped /\ EventsBelowMark /\ Ordered /\ MarkIsEvent
  BY <1>1 DEF NoneSkipped, EventsBelowMark, Ordered, MarkIsEvent
<1>4. SeenBelowMark
  BY <1>1, <1>2 DEF SeenBelowMark
<1>5. BatchIsStretch /\ OwedCovered
  BY <1>1, <1>2 DEF BatchIsStretch, OwedCovered
<1> QED
  BY <1>3, <1>4, <1>5 DEF Exact

\* A batch that does not collide lies behind the mark, whatever the request
\* that selected it knew of the mark.
LEMMA WriteIsBehindMark ==
  ASSUME ExactInv, NEW s \in Requests, SyncWrite(s)
  PROVE  \A b \in batch[s] : b > mark
<1> SUFFICES ASSUME NEW b \in batch[s], ~(b > mark) PROVE FALSE
  OBVIOUS
<1>1. batch[s] \subseteq Notable /\ batch[s] \cap events = {}
  BY DEF ExactInv, CommittedInv, Committed, SyncWrite, Collides
<1>2. b \in Nat /\ mark \in Nat
  BY SyncAssumption DEF ExactInv, CommittedInv, TypeOK, Ids
<1>3. b \in events
  BY <1>1, <1>2 DEF ExactInv, Exact, NoneSkipped
<1> QED
  BY <1>1, <1>3

LEMMA NextExact ==
  ASSUME Activations = {}
  PROVE  ExactInv /\ [Next]_vars => ExactInv'
<1> SUFFICES ASSUME ExactInv, [Next]_vars PROVE Exact'
  BY NextCommitted DEF ExactInv
<1>0. /\ TypeOK /\ TypeOK' /\ Committed /\ Notable \subseteq Notable'
      /\ readings \subseteq Nat /\ Notable \subseteq readings
      /\ mark \in Nat /\ \A s \in Requests : seen[s] \in Nat
  <2>1. TypeOK /\ TypeOK' /\ Committed /\ Notable \subseteq Notable'
    BY NextTypeOK, NotableGrows DEF ExactInv, CommittedInv
  <2>2. readings \subseteq Nat
    BY <2>1, NotableIds DEF Ids
  <2>3. mark \in Nat /\ \A s \in Requests : seen[s] \in Nat
    BY <2>1, SyncAssumption DEF TypeOK
  <2> QED
    BY <2>1, <2>2, <2>3 DEF Notable
<1>e. /\ NoneSkipped /\ EventsBelowMark /\ Ordered /\ SeenBelowMark /\ MarkIsEvent
      /\ BatchIsStretch /\ OwedCovered
  BY DEF ExactInv, Exact
\* What the steps of requests that touch neither log nor table share.
<1>a. ASSUME NEW s \in Requests, UNCHANGED <<log, table>>,
             \A o \in Requests \ {s} :
               pc'[o] = pc[o] /\ seen'[o] = seen[o] /\ batch'[o] = batch[o] /\ owed'[o] = owed[o],
             seen'[s] <= mark,
             pc'[s] = "write" =>
               \A b \in batch'[s] : \A r \in Notable : seen'[s] < r /\ r <= b => r \in batch'[s],
             owed'[s] \subseteq Notable,
             pc'[s] = "write" /\ ShortBatch(batch'[s]) =>
               \A r \in owed'[s] : r <= seen'[s] \/ r \in batch'[s],
             pc'[s] = "answer" => owed'[s] \subseteq events
      PROVE  Exact'
  <2>1. /\ readings' = readings /\ Notable' = Notable /\ pending' = pending
        /\ mark' = mark /\ events' = events
    BY <1>a DEF log, table, Notable
  <2>2. NoneSkipped' /\ EventsBelowMark' /\ Ordered' /\ MarkIsEvent'
    BY <2>1, <1>e DEF NoneSkipped, EventsBelowMark, Ordered, MarkIsEvent
  <2>3. SeenBelowMark'
    BY <2>1, <1>e, <1>a DEF SeenBelowMark
  <2>4. BatchIsStretch'
    BY <2>1, <1>e, <1>a DEF BatchIsStretch
  <2>5. OwedCovered'
    BY <2>1, <1>e, <1>a DEF OwedCovered, ShortBatch
  <2> QED
    BY <2>2, <2>3, <2>4, <2>5 DEF Exact
<1>1. ASSUME NEW notable \in BOOLEAN, FlushReading(Replay, notable) PROVE Exact'
  <2>1. /\ UNCHANGED <<readings, mark, events, pc, seen, batch, owed>>
        /\ pending' = [pending EXCEPT ![Replay] = @ \cup {nextId}]
        /\ alarms' = alarms \/ alarms' = alarms \cup {nextId}
    BY <1>1 DEF FlushReading, table, request
  <2>2. \A r \in readings : r < nextId
    BY <1>0 DEF TypeOK
  <2>3. nextId \notin readings
    BY <2>2, <1>0 DEF TypeOK
  <2>4. Notable' = Notable
    BY <2>1, <2>3 DEF Notable
  <2>5. Ordered'
    BY <2>1, <2>2, <1>e, <1>0 DEF Ordered, TypeOK, Writers
  <2> QED
    BY <2>1, <2>4, <2>5, <1>e
    DEF Exact, NoneSkipped, EventsBelowMark, SeenBelowMark, MarkIsEvent, BatchIsStretch,
        OwedCovered, ShortBatch
<1>2. ASSUME CommitReadings(Replay) PROVE Exact'
  <2>1. /\ UNCHANGED <<mark, events, pc, seen, batch, owed>>
        /\ readings' = readings \cup pending[Replay]
        /\ pending' = [pending EXCEPT ![Replay] = {}]
    BY <1>2 DEF CommitReadings, table, request
  <2>2. \A r \in Notable' \ Notable : r \in pending[Replay] /\ r \in Nat /\ r > 0
    BY <1>2, <1>0, SyncAssumption DEF CommitReadings, Notable, TypeOK, Writers
  <2>3. \A r \in Notable' \ Notable, n \in readings : n < r
    BY <2>2, <1>e DEF Ordered
  <2>4. NoneSkipped'
    <3> SUFFICES ASSUME NEW r \in Notable', r <= mark PROVE r \in events
      BY <2>1 DEF NoneSkipped
    <3>1. CASE r \in Notable
      BY <3>1, <1>e DEF NoneSkipped
    <3>2. CASE r \notin Notable
      <4>1. mark < r
        BY <3>2, <2>2, <2>3, <1>e, <1>0 DEF MarkIsEvent, Committed
      <4> QED
        BY <4>1, <3>2, <2>2, <1>0
    <3> QED
      BY <3>1, <3>2
  <2>5. Ordered'
    BY <2>1, <1>0 DEF Ordered, TypeOK, Writers
  <2>6. BatchIsStretch'
    <3> SUFFICES ASSUME NEW s \in Requests, pc[s] = "write", NEW b \in batch[s],
                        NEW r \in Notable', seen[s] < r, r <= b
                 PROVE  r \in batch[s]
      BY <2>1 DEF BatchIsStretch
    <3>1. b \in readings /\ b \in Nat
      BY <1>0 DEF Committed
    <3>2. r \in Notable
      BY <3>1, <2>2, <2>3
    <3> QED
      BY <3>2, <1>e DEF BatchIsStretch
  <2>7. OwedCovered'
    BY <2>1, <1>0, <1>e DEF OwedCovered, ShortBatch
  <2> QED
    BY <2>1, <2>4, <2>5, <2>6, <2>7, <1>e DEF Exact, EventsBelowMark, SeenBelowMark, MarkIsEvent
<1>3. ASSUME NEW s \in Requests, SyncStart(s) PROVE Exact'
  <2>1. /\ UNCHANGED <<log, table>>
        /\ \A o \in Requests \ {s} :
             pc'[o] = pc[o] /\ seen'[o] = seen[o] /\ batch'[o] = batch[o] /\ owed'[o] = owed[o]
        /\ seen'[s] = mark /\ owed'[s] = Notable
        /\ pc'[s] \in {"select", "create"}
    BY <1>3, <1>0 DEF SyncStart, TypeOK
  <2> QED
    BY <2>1, <1>0, <1>a
<1>4. ASSUME NEW s \in Requests,
             SyncCreate(s) \/ SyncCreateFail(s) \/ SyncWriteFail(s) \/ Answer(s)
      PROVE  Exact'
  <2>1. /\ UNCHANGED <<log, table, seen, batch, owed>>
        /\ \A o \in Requests \ {s} : pc'[o] = pc[o]
        /\ pc'[s] \in {"select", "idle"}
    BY <1>4, <1>0 DEF SyncCreate, SyncCreateFail, SyncWriteFail, Answer, TypeOK
  <2>2. seen[s] <= mark /\ owed[s] \subseteq Notable
    BY <1>e DEF SeenBelowMark, OwedCovered
  <2> QED
    BY <2>1, <2>2, <1>a
<1>5. ASSUME NEW s \in Requests, SyncSelect(s) PROVE Exact'
  <2> DEFINE due == Due(s)
             B == FirstRows(due, BatchSize)
  <2>1. /\ UNCHANGED <<log, table>>
        /\ \A o \in Requests \ {s} :
             pc'[o] = pc[o] /\ seen'[o] = seen[o] /\ batch'[o] = batch[o] /\ owed'[o] = owed[o]
        /\ seen'[s] = seen[s] /\ owed'[s] = owed[s] /\ batch'[s] = B
        /\ pc'[s] = IF due = {} THEN "answer" ELSE "write"
    BY <1>5, <1>0 DEF SyncSelect, TypeOK
  <2>2. due \subseteq Nat /\ IsFiniteSet(due)
    <3>1. due \subseteq 1 .. MaxReading
      BY <1>0, NotableIds DEF Due, Ids
    <3>2. IsFiniteSet(1 .. MaxReading)
      BY SyncAssumption, FS_Interval
    <3>3. IsFiniteSet(due)
      BY <3>1, <3>2, FS_Subset
    <3> QED
      BY <3>1, <3>3
  <2>3. \A r \in Notable : r \in due <=> r > seen[s]
    BY DEF Due
  <2> HIDE DEF due
  <2>4. B \subseteq due
    BY FirstRowsSubset
  <2>5. \A b \in B : \A r \in Notable : seen[s] < r /\ r <= b => r \in B
    BY <2>2, <2>3, <1>0, FirstRowsDownward, SyncAssumption
  <2>6. owed[s] \subseteq Notable /\ seen[s] <= mark
    BY <1>e DEF OwedCovered, SeenBelowMark
  <2>7. ShortBatch(B) => \A r \in owed[s] : r <= seen[s] \/ r \in B
    <3> SUFFICES ASSUME ShortBatch(B) PROVE \A r \in owed[s] : r <= seen[s] \/ r \in B
      OBVIOUS
    <3>1. B = due
      BY <2>2, FirstRowsShort, SyncAssumption DEF ShortBatch
    <3>2. ASSUME NEW r \in owed[s] PROVE r <= seen[s] \/ r \in B
      <4>1. r \in Notable /\ r \in Nat /\ seen[s] \in Nat
        BY <2>6, <1>0
      <4> QED
        BY <4>1, <3>1, <2>3
    <3> QED
      BY <3>2
  <2>8. due = {} => owed[s] \subseteq events
    <3> SUFFICES ASSUME due = {}, NEW r \in owed[s] PROVE r \in events
      OBVIOUS
    <3>1. r \in Notable /\ r \in Nat
      BY <2>6, <1>0
    <3>2. r <= seen[s]
      BY <3>1, <2>3, <1>0
    <3>3. r <= mark
      BY <3>1, <3>2, <2>6, <1>0
    <3> QED
      BY <3>1, <3>3, <1>e DEF NoneSkipped
  <2> HIDE DEF B
  <2> QED
    BY <2>1, <2>5, <2>6, <2>7, <2>8, <1>a
<1>6. ASSUME NEW s \in Requests, SyncWrite(s) PROVE Exact'
  <2>1. PICK top \in batch[s] :
          /\ mark' = top /\ seen' = [seen EXCEPT ![s] = top]
          /\ \A r \in batch[s] : r <= top
    BY <1>6 DEF SyncWrite, IsLast
  <2>2. /\ UNCHANGED <<readings, pending, batch, owed>> /\ Notable' = Notable
        /\ events' = events \cup batch[s] /\ pc[s] = "write"
    BY <1>6 DEF SyncWrite, log, Notable
  <2>3. /\ \A o \in Requests \ {s} : pc'[o] = pc[o] /\ seen'[o] = seen[o]
        /\ seen'[s] = top
        /\ pc'[s] = IF ShortBatch(batch[s]) THEN "answer" ELSE "select"
    BY <1>6, <2>1, <1>0 DEF SyncWrite, TypeOK
  <2>4. batch[s] \subseteq Notable /\ top \in Nat /\ mark < top
    BY <1>6, <2>1, <1>0, WriteIsBehindMark DEF Committed
  <2>5. NoneSkipped'
    <3> SUFFICES ASSUME NEW r \in Notable, r <= top PROVE r \in events \cup batch[s]
      BY <2>1, <2>2 DEF NoneSkipped
    <3>1. CASE r <= mark
      BY <3>1, <1>e DEF NoneSkipped
    <3>2. CASE mark < r
      <4>1. seen[s] <= mark /\ seen[s] \in Nat /\ r \in Nat
        BY <1>0, <1>e DEF SeenBelowMark
      <4>2. seen[s] < r
        BY <4>1, <3>2, <1>0
      <4> QED
        BY <4>2, <2>2, <1>e DEF BatchIsStretch
    <3> QED
      BY <3>1, <3>2, <1>0
  <2>6. EventsBelowMark'
    <3> SUFFICES ASSUME NEW r \in events \cup batch[s] PROVE r <= top
      BY <2>1, <2>2 DEF EventsBelowMark
    <3>1. CASE r \in events
      <4>1. r <= mark /\ r \in Nat
        BY <3>1, <1>e, <1>0 DEF EventsBelowMark, Committed
      <4> QED
        BY <4>1, <2>4, <1>0
    <3>2. CASE r \in batch[s]
      BY <3>2, <2>1
    <3> QED
      BY <3>1, <3>2
  <2>7. Ordered' /\ MarkIsEvent'
    BY <2>1, <2>2, <1>e DEF Ordered, MarkIsEvent
  <2>8. SeenBelowMark'
    <3> SUFFICES ASSUME NEW o \in Requests PROVE seen'[o] <= top
      BY <2>1 DEF SeenBelowMark
    <3>1. CASE o = s
      BY <3>1, <2>3, <2>4
    <3>2. CASE o # s
      <4>1. seen'[o] = seen[o] /\ seen[o] <= mark
        BY <3>2, <2>3, <1>e DEF SeenBelowMark
      <4> QED
        BY <4>1, <2>4, <1>0
    <3> QED
      BY <3>1, <3>2
  <2>9. BatchIsStretch'
    <3> SUFFICES ASSUME NEW o \in Requests, pc'[o] = "write"
                 PROVE  \A b \in batch[o] : \A r \in Notable :
                          seen'[o] < r /\ r <= b => r \in batch[o]
      BY <2>2 DEF BatchIsStretch
    <3>1. o # s
      BY <2>3
    <3> QED
      BY <3>1, <2>3, <1>e DEF BatchIsStretch
  <2>10. OwedCovered'
    <3> SUFFICES ASSUME NEW o \in Requests
                 PROVE  /\ owed[o] \subseteq Notable
                        /\ pc'[o] = "write" /\ ShortBatch(batch[o]) =>
                             \A r \in owed[o] : r <= seen'[o] \/ r \in batch[o]
                        /\ pc'[o] = "answer" => owed[o] \subseteq events \cup batch[s]
      BY <2>2 DEF OwedCovered, ShortBatch
    <3>1. CASE o = s
      <4> SUFFICES ASSUME ShortBatch(batch[s]), NEW r \in owed[s] PROVE r \in events \cup batch[s]
        BY <3>1, <2>3, <1>e DEF OwedCovered
      <4>1. r \in Notable /\ (r <= seen[s] \/ r \in batch[s])
        BY <2>2, <1>e DEF OwedCovered
      <4>2. CASE r <= seen[s]
        <5>1. r <= mark
          BY <4>1, <4>2, <1>0, <1>e DEF SeenBelowMark
        <5> QED
          BY <5>1, <4>1, <1>e DEF NoneSkipped
      <4> QED
        BY <4>1, <4>2
    <3>2. CASE o # s
      BY <3>2, <2>3, <1>e DEF OwedCovered
    <3> QED
      BY <3>1, <3>2
  <2> QED
    BY <2>5, <2>6, <2>7, <2>8, <2>9, <2>10 DEF Exact
<1>7. ASSUME Crash PROVE Exact'
  <2>1. /\ UNCHANGED <<readings, mark, events, seen, batch, owed>> /\ Notable' = Notable
        /\ pending'[Replay] = {} /\ \A s \in Requests : pc'[s] = "idle"
    BY <1>7 DEF Crash, table, Notable, Writers
  <2> QED
    BY <2>1, <1>e
    DEF Exact, NoneSkipped, EventsBelowMark, Ordered, SeenBelowMark, MarkIsEvent, BatchIsStretch,
        OwedCovered
<1>8. CASE UNCHANGED vars
  <2>1. UNCHANGED <<readings, pending, mark, events, pc, seen, batch, owed>> /\ Notable' = Notable
    BY <1>8 DEF vars, log, table, request, Notable
  <2> QED
    BY <2>1, <1>e
    DEF Exact, NoneSkipped, EventsBelowMark, Ordered, SeenBelowMark, MarkIsEvent, BatchIsStretch,
        OwedCovered, ShortBatch
<1> QED
  BY <1>1, <1>2, <1>3, <1>4, <1>5, <1>6, <1>7, <1>8
  DEF Next, ReplayStep, TickInsert, TickCommit, SyncStep

LEMMA ExactHolds ==
  ASSUME Activations = {}
  PROVE  Spec => []ExactInv
  BY InitExact, NextExact, PTL DEF Spec

\* With the replay loop as the only writer, a notable reading at or below the
\* high-water mark has its event: none is skipped for good, for any number of
\* concurrent requests, any batch size and any crashes.
THEOREM NoneSkippedWithOneWriter ==
  ASSUME Activations = {}
  PROVE  Spec => []NoneSkipped
<1>1. ExactInv => NoneSkipped
  BY DEF ExactInv, Exact
<1> QED
  BY ExactHolds, <1>1, PTL

\* Nor is there an event above the mark, on which the next sync would fail.
THEOREM NoneAboveMarkWithOneWriter ==
  ASSUME Activations = {}
  PROVE  Spec => []EventsBelowMark
<1>1. ExactInv => EventsBelowMark
  BY DEF ExactInv, Exact
<1> QED
  BY ExactHolds, <1>1, PTL

\* A request that answers shows every notable reading committed before it
\* began, although several requests share the mark and the journal.
THEOREM AnswersFreshWithOneWriter ==
  ASSUME Activations = {}
  PROVE  Spec => []AnswerIsFresh
<1>1. ExactInv => AnswerIsFresh
  BY DEF ExactInv, Exact, OwedCovered, AnswerIsFresh
<1> QED
  BY ExactHolds, <1>1, PTL

\* The mark only ever advances: a request that lags behind another one fails
\* on the primary key before it can put the mark back.
THEOREM MarkAdvancesWithOneWriter ==
  ASSUME Activations = {}
  PROVE  Spec => MarkOnlyAdvances
<1>1. ExactInv /\ [Next]_vars => [mark' >= mark]_vars
  <2> SUFFICES ASSUME ExactInv, [Next]_vars PROVE mark' >= mark
    OBVIOUS
  <2>0. mark \in Nat
    BY SyncAssumption DEF ExactInv, CommittedInv, TypeOK
  <2>1. ASSUME NEW s \in Requests, SyncWrite(s) PROVE mark' >= mark
    <3>1. PICK top \in batch[s] : mark' = top
      BY <2>1 DEF SyncWrite
    <3>2. top \in Nat /\ top > mark
      BY <2>1, WriteIsBehindMark DEF ExactInv, CommittedInv, TypeOK, Ids
    <3> QED
      BY <3>1, <3>2, <2>0
  <2>2. CASE mark' = mark
    BY <2>2, <2>0
  <2> QED
    BY <2>1, <2>2
    DEF Next, vars, table, ReplayStep, TickInsert, TickCommit, ActivationStep, ActivateStep,
        ActivateCommit, ActivateFail, FlushReading, CommitReadings, SyncStep, SyncStart,
        SyncCreate, SyncCreateFail, SyncSelect, SyncWriteFail, Answer, Crash
<1> QED
  BY ExactHolds, <1>1, PTL DEF Spec, MarkOnlyAdvances

-----------------------------------------------------------------------------
(* The refinement.                                                          *)

\* With the replay loop as the only writer, the tables implement the journal
\* EventJournal specifies: every step publishes the next stretch of the log,
\* adds readings at its end, or leaves both alone.
THEOREM ImplementsJournalSafety ==
  ASSUME Activations = {}
  PROVE  Spec => Journal!Spec
<1>1. Init => Journal!Init
  BY DEF Init, Notable, Journal!Init
<1>2. ExactInv /\ [Next]_vars => [Journal!Next]_(Journal!vars)
  <2> SUFFICES ASSUME ExactInv, [Next]_vars
               PROVE  Journal!Next \/ (Notable' = Notable /\ events' = events)
    BY DEF Journal!vars
  <2>0. TypeOK /\ Committed /\ Ordered /\ SeenBelowMark /\ BatchIsStretch
    BY DEF ExactInv, CommittedInv, Exact
  <2>1. ASSUME NEW notable \in BOOLEAN, FlushReading(Replay, notable)
        PROVE  Notable' = Notable /\ events' = events
    <3>1. nextId \notin readings /\ readings' = readings /\ events' = events
      BY <2>0, <2>1 DEF TypeOK, FlushReading, table
    <3>2. alarms' = alarms \/ alarms' = alarms \cup {nextId}
      BY <2>1 DEF FlushReading
    <3> QED
      BY <3>1, <3>2 DEF Notable
  <2>2. ASSUME CommitReadings(Replay) PROVE Journal!Next
    <3>1. Notable \subseteq Notable' /\ events' = events
      BY <2>2 DEF CommitReadings, Notable, table
    <3>2. \A r \in Notable' \ Notable, n \in Notable : n < r
      BY <2>0, <2>2 DEF CommitReadings, Notable, Ordered
    <3> QED
      BY <3>1, <3>2 DEF Journal!Next, Journal!Arrive
  <2>3. ASSUME NEW s \in Requests, SyncWrite(s) PROVE Journal!Next
    <3> DEFINE B == batch[s]
    <3>1. /\ B # {} /\ B \subseteq Notable /\ B \cap events = {}
          /\ events' = events \cup B /\ Notable' = Notable /\ pc[s] = "write"
      BY <2>0, <2>3 DEF SyncWrite, Collides, Committed, log, Notable
    <3>2. \A b \in B, n \in Notable : n < b => n \in events \cup B
      <4> SUFFICES ASSUME NEW b \in B, NEW n \in Notable, n < b PROVE n \in events \cup B
        OBVIOUS
      <4>1. n \in Nat /\ b \in Nat /\ mark \in Nat /\ seen[s] \in Nat
        BY <2>0, NotableIds, SyncAssumption DEF TypeOK, Ids
      <4>2. CASE n <= seen[s]
        <5>1. n <= mark
          BY <4>1, <4>2, <2>0 DEF SeenBelowMark
        <5> QED
          BY <5>1 DEF ExactInv, Exact, NoneSkipped
      <4>3. CASE seen[s] < n
        BY <4>1, <4>3, <3>1, <2>0 DEF BatchIsStretch
      <4> QED
        BY <4>1, <4>2, <4>3
    <3>3. Journal!Publish(B)
      BY <3>1, <3>2 DEF Journal!Publish, Journal!NextStretch
    <3> QED
      BY <3>1, <3>3 DEF Journal!Next, Journal!SomePublish
  <2>4. CASE UNCHANGED <<readings, alarms, events>>
    BY <2>4 DEF Notable
  <2> QED
    BY <2>1, <2>2, <2>3, <2>4
    DEF Next, vars, log, table, ReplayStep, TickInsert, TickCommit, SyncStep, SyncStart,
        SyncCreate, SyncCreateFail, SyncSelect, SyncWriteFail, Answer, Crash
<1> QED
  BY ExactHolds, <1>1, <1>2, PTL DEF Spec, Journal!Spec
=============================================================================
