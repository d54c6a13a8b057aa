------------------------- MODULE RiskDecisionProofs -------------------------
(***************************************************************************)
(* What RiskDecision guarantees for any number of dispatchers, decisions    *)
(* and journal entries.  Versions stay within the bound because a request   *)
(* never carries a version above its own position on the clock; as long as  *)
(* requests do not overlap, the version counts the journal and the request  *)
(* in progress, if there is one, holds the row as it is.                    *)
(***************************************************************************)
EXTENDS RiskDecision, TLAPS

\* The version trails the clock, and so does the one a request goes on from.
VersionBehindClock ==
  /\ version <= clock + 1
  /\ \A d \in Dispatchers :
       pc[d] = "commit" => request[d].version <= request[d].at /\ request[d].at <= clock

TypeInv == TypeOK /\ VersionBehindClock

LEMMA InitTypeInv == Init => TypeInv
<1> SUFFICES ASSUME Init PROVE TypeInv
  OBVIOUS
<1> USE DecisionAssumption DEF Init
<1>1. version \in Versions /\ status \in Statuses
  BY DEF Versions, Statuses
<1>2. journal \in Seq(Entry)
  OBVIOUS
<1>3. CurrentCard \in Card
  BY <1>1 DEF CurrentCard, Card
<1>4. card \in [Dispatchers -> Card]
  BY <1>3
<1> HIDE DEF Init
<1>5. /\ clock = 0
      /\ pc = [d \in Dispatchers |-> "idle"]
      /\ request = [d \in Dispatchers |-> None]
      /\ report = None
      /\ overlapped = FALSE
      /\ version = 1
  BY DEF Init
<1>6. clock \in 0 .. MaxDecisions
  BY <1>5
<1>7. report \in Report \cup {None}
  BY <1>5
<1>8. overlapped \in BOOLEAN
  BY <1>5
<1>9. /\ pc \in [Dispatchers -> {"idle", "commit", "refresh"}]
      /\ request \in [Dispatchers -> Request \cup {None}]
  BY <1>5
<1>10. \A d \in Dispatchers : pc[d] = "commit" => request[d] \in Request
  BY <1>5
<1>11. TypeOK
  BY <1>1, <1>2, <1>4, <1>6, <1>7, <1>8, <1>9, <1>10 DEF TypeOK
<1>12. VersionBehindClock
  BY <1>5 DEF VersionBehindClock
<1> QED
  BY <1>11, <1>12 DEF TypeInv

LEMMA NextTypeInv == TypeInv /\ [Next]_vars => TypeInv'
<1> SUFFICES ASSUME TypeInv, [Next]_vars PROVE TypeInv'
  OBVIOUS
<1> USE DecisionAssumption DEF TypeInv, TypeOK, VersionBehindClock
<1>1. ASSUME NEW d \in Dispatchers, ReadCard(d) PROVE TypeInv'
  BY <1>1 DEF ReadCard, CurrentCard, Card, risk
<1>2. ASSUME NEW d \in Dispatchers, Conflict(d) PROVE TypeInv'
  BY <1>2 DEF Conflict, CurrentCard, Card, risk
<1>3. ASSUME NEW d \in Dispatchers, NEW decision \in Decisions, Accept(d, decision)
      PROVE  TypeInv'
  <2> DEFINE r == [version |-> version, status |-> status, decision |-> decision,
                   at |-> clock + 1]
  <2>1. r \in Request /\ r.version <= r.at /\ r.at = clock + 1
    BY <1>3 DEF Accept, Request
  <2>2. request' = [request EXCEPT ![d] = r] /\ pc' = [pc EXCEPT ![d] = "commit"]
    BY <1>3 DEF Accept
  <2>3. clock' = clock + 1 /\ clock' \in 0 .. MaxDecisions
    BY <1>3 DEF Accept
  <2>4. UNCHANGED <<version, status, journal, card, report>>
    BY <1>3 DEF Accept, risk
  <2>5. overlapped' \in BOOLEAN
    BY <1>3 DEF Accept
  <2> HIDE DEF r
  <2>6. TypeOK'
    BY <2>1, <2>2, <2>3, <2>4, <2>5
  <2>7. VersionBehindClock'
    BY <2>1, <2>2, <2>3, <2>4 DEF Versions, Request
  <2> QED
    BY <2>6, <2>7
<1>4. ASSUME NEW d \in Dispatchers, Commit(d) PROVE TypeInv'
  <2> DEFINE r == request[d]
             e == [decision |-> r.decision, on |-> r.version, at |-> r.at]
  <2>1. r \in Request /\ r.version <= r.at /\ r.at <= clock
    BY <1>4 DEF Commit
  <2>2. e \in Entry
    BY <2>1 DEF Request, Entry
  <2>3. version' = r.version + 1 /\ version' \in Versions /\ version' <= clock + 1
    BY <1>4, <2>1 DEF Commit, NextVersion, Versions, Request
  <2>4. status' \in Statuses
    BY <1>4, <2>1 DEF Commit, WrittenStatus, Request, Statuses
  <2>5. journal' \in Seq(Entry)
    BY <1>4, <2>2 DEF Commit
  <2>6. pc' = [pc EXCEPT ![d] = "refresh"] /\ UNCHANGED <<clock, card, request, report, overlapped>>
    BY <1>4 DEF Commit
  <2> QED
    BY <2>3, <2>4, <2>5, <2>6
<1>5. ASSUME NEW d \in Dispatchers, Refresh(d) PROVE TypeInv'
  BY <1>5 DEF Refresh, CurrentCard, Card, risk
<1>6. ASSUME NEW d \in Dispatchers, Abort(d) PROVE TypeInv'
  BY <1>6 DEF Abort, risk
<1>7. ASSUME ReportRisks PROVE TypeInv'
  BY <1>7 DEF ReportRisks, Report, risk
<1>8. ASSUME ReportDecisions PROVE TypeInv'
  BY <1>8 DEF ReportDecisions, Report, risk
<1>9. ASSUME ReportSend PROVE TypeInv'
  BY <1>9 DEF ReportSend, risk
<1>10. CASE UNCHANGED vars
  BY <1>10 DEF vars, risk
<1> QED
  BY <1>1, <1>2, <1>3, <1>4, <1>5, <1>6, <1>7, <1>8, <1>9, <1>10
  DEF Next, Decide, BuildReport

\* Every variable keeps its type: in particular no interleaving of requests,
\* overlapping or not, drives risks.version past the number of accepted
\* requests plus one.
THEOREM TypeCorrect == Spec => []TypeOK
<1>1. TypeInv => TypeOK
  BY DEF TypeInv
<1> QED
  BY InitTypeInv, NextTypeInv, <1>1, PTL DEF Spec

-----------------------------------------------------------------------------
(* Requests that do not overlap.                                            *)

InCommit(d) == pc[d] = "commit"

\* At most one request is past the version check, and it holds the row as it is.
OneWriter ==
  /\ \A d, o \in Dispatchers : InCommit(d) /\ InCommit(o) => d = o
  /\ \A d \in Dispatchers :
       InCommit(d) => request[d].version = version /\ request[d].status = status

\* The row is the journal's summary.
RowFollowsJournal ==
  /\ version = Len(journal) + 1
  /\ \A i \in DOMAIN journal : journal[i].on = i
  /\ journal # <<>> => status = journal[Len(journal)].decision

\* A card was drawn from the row as it stood after card.after decisions.
CardsAreSnapshots ==
  \A d \in Dispatchers : card[d].after <= Len(journal) /\ card[d].version = card[d].after + 1

Sequential == ~overlapped => OneWriter /\ RowFollowsJournal /\ CardsAreSnapshots

SeqInv == TypeInv /\ Sequential

LEMMA InitSeqInv == Init => SeqInv
<1> SUFFICES ASSUME Init PROVE SeqInv
  OBVIOUS
<1>1. version = 1 /\ journal = <<>> /\ Len(journal) = 0
  BY DEF Init
<1>2. \A d \in Dispatchers : ~InCommit(d)
  BY DEF Init, InCommit
<1>3. \A d \in Dispatchers : card[d].version = 1 /\ card[d].after = 0
  BY <1>1 DEF Init, CurrentCard
<1>4. RowFollowsJournal
  BY <1>1 DEF RowFollowsJournal
<1>5. CardsAreSnapshots
  <2> SUFFICES ASSUME NEW d \in Dispatchers
               PROVE  card[d].after <= Len(journal) /\ card[d].version = card[d].after + 1
    BY DEF CardsAreSnapshots
  <2> DEFINE after == card[d].after
  <2>1. after = 0 /\ card[d].version = 1
    BY <1>3
  <2> HIDE DEF after
  <2> QED
    BY <1>1, <2>1 DEF after
<1> QED
  BY InitTypeInv, <1>2, <1>4, <1>5 DEF SeqInv, Sequential, OneWriter

LEMMA NextSeqInv == SeqInv /\ [Next]_vars => SeqInv'
<1> SUFFICES ASSUME SeqInv, [Next]_vars PROVE SeqInv'
  OBVIOUS
<1>0. TypeInv /\ TypeInv' /\ TypeOK
  BY NextTypeInv DEF SeqInv, TypeInv
<1>a. Len(journal) \in Nat /\ version \in Nat
  BY <1>0 DEF TypeOK, Versions
<1> SUFFICES ASSUME ~overlapped' PROVE OneWriter' /\ RowFollowsJournal' /\ CardsAreSnapshots'
  BY <1>0 DEF SeqInv, Sequential
\* What the steps that leave row and journal alone share.
<1>b. ASSUME UNCHANGED <<version, status, journal, request>>,
             \A d \in Dispatchers : InCommit(d)' => InCommit(d),
             OneWriter, RowFollowsJournal
      PROVE  OneWriter' /\ RowFollowsJournal'
  BY <1>b DEF OneWriter, RowFollowsJournal
\* What the steps that redraw one card share.
<1>c. ASSUME NEW d \in Dispatchers, card' = [card EXCEPT ![d] = CurrentCard],
             UNCHANGED <<version, journal>>, CardsAreSnapshots, RowFollowsJournal
      PROVE  CardsAreSnapshots'
  BY <1>c, <1>0, <1>a DEF CardsAreSnapshots, RowFollowsJournal, CurrentCard, TypeOK
<1>1. ASSUME NEW d \in Dispatchers, ReadCard(d) \/ Conflict(d)
      PROVE  OneWriter' /\ RowFollowsJournal' /\ CardsAreSnapshots'
  <2>1. /\ card' = [card EXCEPT ![d] = CurrentCard]
        /\ UNCHANGED <<version, status, journal, request, pc, overlapped>>
    BY <1>1 DEF ReadCard, Conflict, risk
  <2>2. OneWriter /\ RowFollowsJournal /\ CardsAreSnapshots
    BY <2>1 DEF SeqInv, Sequential
  <2> QED
    BY <2>1, <2>2, <1>b, <1>c DEF InCommit
<1>2. ASSUME NEW d \in Dispatchers, NEW decision \in Decisions, Accept(d, decision)
      PROVE  OneWriter' /\ RowFollowsJournal' /\ CardsAreSnapshots'
  <2>1. ~overlapped /\ \A o \in Dispatchers : ~InCommit(o)
    BY <1>2 DEF Accept, InCommit
  <2>2. RowFollowsJournal /\ CardsAreSnapshots
    BY <2>1 DEF SeqInv, Sequential
  <2>3. UNCHANGED <<version, status, journal, card>>
    BY <1>2 DEF Accept, risk
  <2>4. pc' = [pc EXCEPT ![d] = "commit"]
    BY <1>2 DEF Accept
  <2>5. request'[d].version = version /\ request'[d].status = status
    BY <1>2, <1>0 DEF Accept, TypeOK
  <2>6. \A o \in Dispatchers : InCommit(o)' => o = d
    BY <2>1, <2>4, <1>0 DEF InCommit, TypeOK
  <2>7. OneWriter'
    BY <2>3, <2>5, <2>6 DEF OneWriter
  <2> QED
    BY <2>2, <2>3, <2>7 DEF RowFollowsJournal, CardsAreSnapshots
<1>3. ASSUME NEW d \in Dispatchers, Commit(d)
      PROVE  OneWriter' /\ RowFollowsJournal' /\ CardsAreSnapshots'
  <2> DEFINE r == request[d]
             e == [decision |-> r.decision, on |-> r.version, at |-> r.at]
  <2>1. OneWriter /\ RowFollowsJournal /\ CardsAreSnapshots
    BY <1>3 DEF Commit, SeqInv, Sequential
  <2>2. r \in Request /\ r.version = version /\ r.status = status
    BY <1>3, <2>1, <1>0 DEF Commit, OneWriter, InCommit, TypeOK
  <2>3. e \in Entry /\ e.on = version /\ e.decision = r.decision
    BY <2>2 DEF Entry, Request
  <2>4. journal' = Append(journal, e) /\ UNCHANGED card
    BY <1>3 DEF Commit
  <2> HIDE DEF e
  <2>5. /\ Len(journal') = Len(journal) + 1
        /\ journal'[Len(journal) + 1] = e
        /\ \A i \in 1 .. Len(journal) : journal'[i] = journal[i]
    BY <2>3, <2>4, <1>0 DEF TypeOK
  <2>6. version' = version + 1
    BY <1>3, <2>2 DEF Commit, NextVersion
  <2>7. status' = r.decision
    BY <1>3, <2>2 DEF Commit, WrittenStatus
  <2>8. \A i \in DOMAIN journal' : journal'[i].on = i
    <3> SUFFICES ASSUME NEW i \in DOMAIN journal' PROVE journal'[i].on = i
      OBVIOUS
    <3>1. i \in 1 .. Len(journal) + 1
      BY <2>5, <2>4, <2>3, <1>0 DEF TypeOK
    <3>2. CASE i = Len(journal) + 1
      BY <3>2, <2>1, <2>3, <2>5 DEF RowFollowsJournal
    <3>3. CASE i \in 1 .. Len(journal)
      BY <3>3, <2>1, <2>5, <1>0 DEF RowFollowsJournal, TypeOK
    <3> QED
      BY <3>1, <3>2, <3>3, <1>a
  <2>9. RowFollowsJournal'
    BY <2>1, <2>3, <2>5, <2>6, <2>7, <2>8, <1>a DEF RowFollowsJournal
  <2>10. \A o \in Dispatchers : ~InCommit(o)'
    BY <1>3, <2>1, <1>0 DEF Commit, OneWriter, InCommit, TypeOK
  <2>11. CardsAreSnapshots'
    BY <2>1, <2>4, <2>5, <1>a, <1>0 DEF CardsAreSnapshots, TypeOK, Card
  <2> QED
    BY <2>9, <2>10, <2>11 DEF OneWriter
<1>4. ASSUME NEW d \in Dispatchers, Refresh(d) \/ Abort(d)
      PROVE  OneWriter' /\ RowFollowsJournal' /\ CardsAreSnapshots'
  <2>1. /\ pc' = [pc EXCEPT ![d] = "idle"]
        /\ request' = [request EXCEPT ![d] = None]
        /\ UNCHANGED <<version, status, journal, overlapped>>
        /\ card' = [card EXCEPT ![d] = CurrentCard] \/ UNCHANGED card
    BY <1>4 DEF Refresh, Abort, risk
  <2>2. OneWriter /\ RowFollowsJournal /\ CardsAreSnapshots
    BY <2>1 DEF SeqInv, Sequential
  <2>3. \A o \in Dispatchers : InCommit(o)' => InCommit(o) /\ request'[o] = request[o]
    BY <2>1, <1>0 DEF InCommit, TypeOK
  <2>4. OneWriter' /\ RowFollowsJournal'
    BY <2>1, <2>2, <2>3 DEF OneWriter, RowFollowsJournal
  <2>5. CardsAreSnapshots'
    BY <2>1, <2>2, <1>c DEF CardsAreSnapshots
  <2> QED
    BY <2>4, <2>5
<1>5. ASSUME BuildReport \/ UNCHANGED vars
      PROVE  OneWriter' /\ RowFollowsJournal' /\ CardsAreSnapshots'
  <2>1. UNCHANGED <<version, status, journal, request, pc, card, overlapped>>
    BY <1>5 DEF BuildReport, ReportRisks, ReportDecisions, ReportSend, vars, risk
  <2>2. OneWriter /\ RowFollowsJournal /\ CardsAreSnapshots
    BY <2>1 DEF SeqInv, Sequential
  <2> QED
    BY <2>1, <2>2, <1>b DEF InCommit, CardsAreSnapshots
<1> QED
  BY <1>1, <1>2, <1>3, <1>4, <1>5 DEF Next, Decide

LEMMA SeqInvHolds == Spec => []SeqInv
  BY InitSeqInv, NextSeqInv, PTL DEF Spec

\* While requests do not overlap, every accepted decision was made on the
\* outcome of the one before it: the optimistic lock of apply_decision works,
\* retries after a lost answer included.
THEOREM NoLostUpdateWhenSequential == Spec => []SequentialNoLostUpdate
<1>1. SeqInv => SequentialNoLostUpdate
  BY DEF SeqInv, Sequential, RowFollowsJournal, SequentialNoLostUpdate, NoLostUpdate
<1> QED
  BY SeqInvHolds, <1>1, PTL

\* While requests do not overlap, a card outdated by any number of decisions
\* gets its 409: the version never comes back to an earlier value.
THEOREM StaleCardRefused == Spec => []StaleCardIsRefused
<1>1. SeqInv => StaleCardIsRefused
  <2> SUFFICES ASSUME SeqInv, ~overlapped, NEW d \in Dispatchers, card[d].after < Len(journal)
               PROVE  Stale(d)
    BY DEF StaleCardIsRefused
  <2>1. card[d] \in Card /\ Len(journal) \in Nat
    BY DEF SeqInv, TypeInv, TypeOK
  <2> QED
    BY <2>1 DEF SeqInv, Sequential, RowFollowsJournal, CardsAreSnapshots, Stale, Card
<1> QED
  BY SeqInvHolds, <1>1, PTL

\* While requests do not overlap, decision_status is the last decision of the
\* journal, although the UPDATE leaves the column out when it did not change.
THEOREM StatusFollowsJournal == Spec => []StatusIsLastDecision
<1>1. SeqInv => StatusIsLastDecision
  BY DEF SeqInv, Sequential, RowFollowsJournal, StatusIsLastDecision
<1> QED
  BY SeqInvHolds, <1>1, PTL

-----------------------------------------------------------------------------
(* The management report.                                                   *)

\* Without overlap the journal's order of commit is also its order in time.
JournalInTime ==
  /\ \A i \in DOMAIN journal : journal[i].at <= clock
  /\ \A i, j \in DOMAIN journal : i < j => journal[i].at < journal[j].at
  /\ \A d \in Dispatchers :
       InCommit(d) => \A i \in DOMAIN journal : journal[i].at < request[d].at

\* The risk row of the report is one the journal has passed through.
ReportRowIsPast ==
  report # None =>
    /\ report.version <= Len(journal) + 1
    /\ report.version > 1 => report.status = journal[report.version - 1].decision

\* Its entries are the journal up to some later point.
ReportEntriesArePrefix ==
  report # None /\ report.entries # None =>
    /\ report.version - 1 <= Len(report.entries)
    /\ Len(report.entries) <= Len(journal)
    /\ \A i \in 1 .. Len(report.entries) : report.entries[i] = journal[i]

ReportSafe == ~overlapped => JournalInTime /\ ReportRowIsPast /\ ReportEntriesArePrefix

ReportInv == SeqInv /\ ReportSafe

LEMMA EntryAt == \A e \in Entry : e.at \in Nat
  BY DecisionAssumption DEF Entry

LEMMA InitReportInv == Init => ReportInv
<1> SUFFICES ASSUME Init PROVE ReportInv
  OBVIOUS
<1>1. DOMAIN journal = {} /\ report = None
  BY DEF Init
<1>2. \A d \in Dispatchers : ~InCommit(d)
  BY DEF Init, InCommit
<1> QED
  BY InitSeqInv, <1>1, <1>2
  DEF ReportInv, ReportSafe, JournalInTime, ReportRowIsPast, ReportEntriesArePrefix

LEMMA NextReportInv == ReportInv /\ [Next]_vars => ReportInv'
<1> SUFFICES ASSUME ReportInv, [Next]_vars, ~overlapped'
             PROVE  JournalInTime' /\ ReportRowIsPast' /\ ReportEntriesArePrefix'
  BY NextSeqInv DEF ReportInv, ReportSafe
<1>0. SeqInv /\ TypeOK
  BY DEF ReportInv, SeqInv, TypeInv
<1>a. Len(journal) \in Nat /\ DOMAIN journal = 1 .. Len(journal) /\ clock \in Nat
  BY <1>0, DecisionAssumption DEF TypeOK
<1>b. ASSUME NEW i \in DOMAIN journal PROVE journal[i] \in Entry /\ journal[i].at \in Nat
  BY <1>0, <1>b, EntryAt DEF TypeOK
\* What the steps that commit nothing and accept nothing share.
<1>c. ASSUME UNCHANGED <<journal, clock>>,
             \A d \in Dispatchers : InCommit(d)' => InCommit(d) /\ request'[d] = request[d],
             JournalInTime
      PROVE  JournalInTime'
  BY <1>c DEF JournalInTime
<1>1. ASSUME NEW d \in Dispatchers, ReadCard(d) \/ Conflict(d) \/ Refresh(d) \/ Abort(d)
      PROVE  JournalInTime' /\ ReportRowIsPast' /\ ReportEntriesArePrefix'
  <2>1. UNCHANGED <<journal, clock, report, overlapped>>
    BY <1>1 DEF ReadCard, Conflict, Refresh, Abort, risk
  <2>2. \/ UNCHANGED <<pc, request>>
        \/ pc' = [pc EXCEPT ![d] = "idle"] /\ request' = [request EXCEPT ![d] = None]
    BY <1>1 DEF ReadCard, Conflict, Refresh, Abort
  <2>3. \A o \in Dispatchers : InCommit(o)' => InCommit(o) /\ request'[o] = request[o]
    BY <2>2, <1>0 DEF InCommit, TypeOK
  <2>4. JournalInTime /\ ReportRowIsPast /\ ReportEntriesArePrefix
    BY <2>1 DEF ReportInv, ReportSafe
  <2> QED
    BY <2>1, <2>3, <2>4, <1>c DEF ReportRowIsPast, ReportEntriesArePrefix
<1>2. ASSUME NEW d \in Dispatchers, NEW decision \in Decisions, Accept(d, decision)
      PROVE  JournalInTime' /\ ReportRowIsPast' /\ ReportEntriesArePrefix'
  <2>1. UNCHANGED <<journal, report>> /\ clock' = clock + 1
    BY <1>2 DEF Accept
  <2>2. ~overlapped /\ \A o \in Dispatchers : ~InCommit(o)
    BY <1>2 DEF Accept, InCommit
  <2>3. JournalInTime /\ ReportRowIsPast /\ ReportEntriesArePrefix
    BY <2>2 DEF ReportInv, ReportSafe
  <2>4. request'[d].at = clock + 1
    BY <1>2, <1>0 DEF Accept, TypeOK
  <2>5. \A o \in Dispatchers : InCommit(o)' => o = d
    BY <1>2, <2>2, <1>0 DEF Accept, InCommit, TypeOK
  <2>6. \A i \in DOMAIN journal : journal[i].at < clock + 1
    BY <2>3, <1>a, <1>b DEF JournalInTime
  <2>7. JournalInTime'
    <3>1. \A i \in DOMAIN journal' : journal'[i].at <= clock'
      BY <2>1, <2>6, <1>a, <1>b
    <3>2. \A i, j \in DOMAIN journal' : i < j => journal'[i].at < journal'[j].at
      BY <2>1, <2>3 DEF JournalInTime
    <3>3. \A o \in Dispatchers :
            InCommit(o)' => \A i \in DOMAIN journal' : journal'[i].at < request'[o].at
      BY <2>1, <2>4, <2>5, <2>6
    <3> QED
      BY <3>1, <3>2, <3>3 DEF JournalInTime
  <2> QED
    BY <2>1, <2>3, <2>7 DEF ReportRowIsPast, ReportEntriesArePrefix
<1>3. ASSUME NEW d \in Dispatchers, Commit(d)
      PROVE  JournalInTime' /\ ReportRowIsPast' /\ ReportEntriesArePrefix'
  <2> DEFINE r == request[d]
             e == [decision |-> r.decision, on |-> r.version, at |-> r.at]
  <2>1. ~overlapped /\ UNCHANGED <<clock, report, request>>
    BY <1>3 DEF Commit
  <2>2. JournalInTime /\ ReportRowIsPast /\ ReportEntriesArePrefix /\ OneWriter
    BY <2>1, <1>0 DEF ReportInv, ReportSafe, SeqInv, Sequential
  <2>3. r \in Request /\ r.at <= clock
    BY <1>3, <1>0 DEF Commit, TypeOK, SeqInv, TypeInv, VersionBehindClock
  <2>4. e \in Entry /\ e.at = r.at /\ r.at \in Nat
    BY <2>3 DEF Entry, Request
  <2>5. journal' = Append(journal, e)
    BY <1>3 DEF Commit
  <2>6. \A i \in DOMAIN journal : journal[i].at < r.at
    BY <1>3, <2>2 DEF Commit, JournalInTime, InCommit
  <2> HIDE DEF e, r
  <2>7. /\ Len(journal') = Len(journal) + 1
        /\ DOMAIN journal' = 1 .. Len(journal) + 1
        /\ journal'[Len(journal) + 1] = e
        /\ \A i \in 1 .. Len(journal) : journal'[i] = journal[i]
    BY <2>4, <2>5, <1>0 DEF TypeOK
  <2>8. \A o \in Dispatchers : ~InCommit(o)'
    BY <1>3, <2>2, <1>0 DEF Commit, OneWriter, InCommit, TypeOK
  <2>9. JournalInTime'
    <3>1. \A i \in DOMAIN journal' : journal'[i].at <= clock'
      BY <2>1, <2>2, <2>3, <2>4, <2>7, <1>a DEF JournalInTime
    <3>2. ASSUME NEW i \in DOMAIN journal', NEW j \in DOMAIN journal', i < j
          PROVE  journal'[i].at < journal'[j].at
      <4>1. i \in 1 .. Len(journal) /\ journal'[i] = journal[i]
        BY <3>2, <2>7, <1>a
      <4>2. CASE j = Len(journal) + 1
        BY <4>1, <4>2, <2>4, <2>6, <2>7, <1>a
      <4>3. CASE j \in 1 .. Len(journal)
        BY <3>2, <4>1, <4>3, <2>2, <2>7, <1>a DEF JournalInTime
      <4> QED
        BY <4>2, <4>3, <2>7, <1>a
    <3> QED
      BY <3>1, <3>2, <2>8 DEF JournalInTime
  <2>10. ReportRowIsPast'
    <3> SUFFICES ASSUME report # None
                 PROVE  /\ report.version <= Len(journal') + 1
                        /\ report.version > 1 => report.status = journal'[report.version - 1].decision
      BY <2>1 DEF ReportRowIsPast
    <3>1. report.version \in Nat /\ report.version <= Len(journal) + 1
      BY <1>0, <2>2 DEF TypeOK, Report, Versions, ReportRowIsPast
    <3>2. report.version > 1 => report.version - 1 \in 1 .. Len(journal)
      BY <3>1, <1>a
    <3> QED
      BY <3>1, <3>2, <2>2, <2>7, <1>a DEF ReportRowIsPast
  <2>11. ReportEntriesArePrefix'
    <3> SUFFICES ASSUME report # None, report.entries # None
                 PROVE  /\ report.version - 1 <= Len(report.entries)
                        /\ Len(report.entries) <= Len(journal')
                        /\ \A i \in 1 .. Len(report.entries) : report.entries[i] = journal'[i]
      BY <2>1 DEF ReportEntriesArePrefix
    <3>1. Len(report.entries) \in Nat
      BY <1>0 DEF TypeOK, Report
    <3> QED
      BY <3>1, <2>2, <2>7, <1>a DEF ReportEntriesArePrefix
  <2> QED
    BY <2>9, <2>10, <2>11
<1>4. ASSUME BuildReport
      PROVE  JournalInTime' /\ ReportRowIsPast' /\ ReportEntriesArePrefix'
  <2>1. UNCHANGED <<journal, clock, pc, request, overlapped>>
    BY <1>4 DEF BuildReport, ReportRisks, ReportDecisions, ReportSend
  <2>2. JournalInTime /\ ReportRowIsPast /\ ReportEntriesArePrefix /\ RowFollowsJournal
    BY <2>1, <1>0 DEF ReportInv, ReportSafe, SeqInv, Sequential
  <2>3. JournalInTime'
    BY <2>1, <2>2, <1>c DEF InCommit
  <2>4. CASE ReportRisks
    <3>1. /\ report'.version = version /\ report'.status = status /\ report'.entries = None
      BY <2>4 DEF ReportRisks
    <3>2. version = Len(journal) + 1 /\ (version > 1 => journal # <<>>)
      BY <2>2, <1>a DEF RowFollowsJournal
    <3>3. version > 1 => status = journal[version - 1].decision
      BY <3>2, <2>2, <1>a DEF RowFollowsJournal
    <3>4. ReportRowIsPast'
      BY <3>1, <3>2, <3>3, <2>1, <1>a DEF ReportRowIsPast
    <3> QED
      BY <2>3, <3>1, <3>4 DEF ReportEntriesArePrefix
  <2>5. CASE ReportDecisions
    <3>1. report # None /\ report' = [report EXCEPT !.entries = journal] /\ report \in Report
      BY <2>5, <1>0 DEF ReportDecisions, TypeOK
    <3>2. /\ report'.version = report.version /\ report'.status = report.status
          /\ report'.entries = journal
      BY <3>1 DEF Report
    <3>3. report.version \in Nat /\ report.version <= Len(journal) + 1
      BY <3>1, <2>2 DEF Report, Versions, ReportRowIsPast
    <3>4. ReportRowIsPast'
      BY <3>1, <3>2, <2>1, <2>2 DEF ReportRowIsPast
    <3>5. ReportEntriesArePrefix'
      BY <3>2, <3>3, <2>1, <1>a DEF ReportEntriesArePrefix
    <3> QED
      BY <2>3, <3>4, <3>5
  <2>6. CASE ReportSend
    BY <2>3, <2>6 DEF ReportSend, ReportRowIsPast, ReportEntriesArePrefix
  <2> QED
    BY <1>4, <2>4, <2>5, <2>6 DEF BuildReport
<1>5. ASSUME UNCHANGED vars
      PROVE  JournalInTime' /\ ReportRowIsPast' /\ ReportEntriesArePrefix'
  <2>1. UNCHANGED <<journal, clock, pc, request, report, overlapped>>
    BY <1>5 DEF vars
  <2>2. JournalInTime /\ ReportRowIsPast /\ ReportEntriesArePrefix
    BY <2>1 DEF ReportInv, ReportSafe
  <2> QED
    BY <2>1, <2>2, <1>c DEF InCommit, ReportRowIsPast, ReportEntriesArePrefix
<1> QED
  BY <1>1, <1>2, <1>3, <1>4, <1>5 DEF Next, Decide

\* The entry that is last in time is the last of a list that is in time.
LEMMA LatestIsLast ==
  ASSUME NEW s \in Seq(Entry), s # <<>>,
         \A i, j \in DOMAIN s : i < j => s[i].at < s[j].at
  PROVE  Latest(s) = s[Len(s)]
<1> DEFINE n == Len(s)
           InList(e) == e \in {s[i] : i \in DOMAIN s} /\ \A i \in DOMAIN s : s[i].at <= e.at
<1>1. n \in Nat /\ n \in DOMAIN s /\ DOMAIN s = 1 .. n
  OBVIOUS
<1>2. \A i \in DOMAIN s : s[i].at \in Nat
  BY EntryAt
<1>3. InList(s[n])
  <2>1. ASSUME NEW i \in DOMAIN s PROVE s[i].at <= s[n].at
    <3>1. CASE i = n
      BY <3>1, <1>1, <1>2
    <3>2. CASE i < n
      BY <3>2, <1>1, <1>2
    <3> QED
      BY <3>1, <3>2, <1>1
  <2> QED
    BY <2>1, <1>1
<1>4. ASSUME NEW e, InList(e) PROVE e = s[n]
  <2>1. PICK k \in DOMAIN s : e = s[k]
    BY <1>4
  <2>2. ~(k < n)
    <3>1. s[n].at <= s[k].at
      BY <1>4, <2>1, <1>1
    <3> QED
      BY <3>1, <1>1, <1>2
  <2> QED
    BY <2>1, <2>2, <1>1
<1> QED
  BY <1>3, <1>4 DEF Latest

\* While requests do not overlap, the report never shows a decided risk
\* without the decision that made it so, however many decisions are taken
\* between its two SELECTs; a report that saw one state of both tables gives
\* the reason of the decision it shows.
THEOREM ReportConsistent == Spec => []ReportHasItsDecision
<1>1. ReportInv => ReportHasItsDecision
  <2> SUFFICES ASSUME ReportInv, ~overlapped, report # None, report.entries # None
               PROVE  /\ Len(report.entries) >= report.version - 1
                      /\ report.version > 1 =>
                           report.status = report.entries[report.version - 1].decision
                      /\ report.version = Len(report.entries) + 1 /\ report.version > 1 =>
                           Latest(report.entries).decision = report.status
    BY DEF ReportHasItsDecision
  <2> DEFINE entries == report.entries
             v == report.version
  <2>1. JournalInTime /\ ReportRowIsPast /\ ReportEntriesArePrefix
    BY DEF ReportInv, ReportSafe
  <2>2. entries \in Seq(Entry) /\ v \in Nat \ {0} /\ journal \in Seq(Entry)
    BY DEF ReportInv, SeqInv, TypeInv, TypeOK, Report, Versions
  <2>3. /\ v - 1 <= Len(entries) /\ Len(entries) <= Len(journal)
        /\ \A i \in 1 .. Len(entries) : entries[i] = journal[i]
        /\ v > 1 => report.status = journal[v - 1].decision
    BY <2>1 DEF ReportEntriesArePrefix, ReportRowIsPast
  <2> HIDE DEF entries, v
  <2>4. Len(entries) >= v - 1
    BY <2>2, <2>3
  <2>5. v > 1 => report.status = entries[v - 1].decision
    BY <2>2, <2>3
  <2>6. \A i, j \in DOMAIN entries : i < j => entries[i].at < entries[j].at
    <3>1. DOMAIN entries = 1 .. Len(entries) /\ DOMAIN entries \subseteq DOMAIN journal
      BY <2>2, <2>3
    <3> QED
      BY <3>1, <2>1, <2>3 DEF JournalInTime
  <2>7. ASSUME v = Len(entries) + 1, v > 1 PROVE Latest(entries).decision = report.status
    <3>1. entries # <<>> /\ v - 1 = Len(entries)
      BY <2>7, <2>2
    <3>2. Latest(entries) = entries[Len(entries)]
      BY <3>1, <2>2, <2>6, LatestIsLast
    <3> QED
      BY <3>1, <3>2, <2>5, <2>7
  <2> QED
    BY <2>4, <2>5, <2>7 DEF entries, v
<1> QED
  BY InitReportInv, NextReportInv, <1>1, PTL DEF Spec
=============================================================================
