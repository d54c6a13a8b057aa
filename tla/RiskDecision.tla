---------------------------- MODULE RiskDecision ----------------------------
(***************************************************************************)
(* Dispatchers decide on one forecast: POST /risks/{id}/acknowledge, reject *)
(* and defer (api/risks.py) load the row, compare its version with the one  *)
(* on the dispatcher's card, and risk_decision.apply_decision writes the    *)
(* new status, the next version and a journal row.  The management report   *)
(* (risk_report.build_risk_report) reads risks and journal in two SELECTs.  *)
(*                                                                         *)
(* Nothing is awaited between the SELECT of the row and the comparison, so  *)
(* they are one step.  The UPDATE names the row by id alone and holds only  *)
(* the columns the handler changed; at READ COMMITTED it waits for a        *)
(* concurrent UPDATE of the row and then goes on.                          *)
(***************************************************************************)
EXTENDS Naturals, Sequences

CONSTANTS
  Dispatchers,   \* each with a card on the screen and at most one request
  Decisions,     \* "acknowledged", "rejected", "deferred"
  Open,          \* the decision_status of a new risk
  MaxDecisions,  \* bound: decisions accepted
  None

ASSUME DecisionAssumption ==
  /\ Open \notin Decisions
  /\ None \notin Decisions \cup {Open}
  /\ MaxDecisions \in Nat

VARIABLES
  version,     \* risks.version
  status,      \* risks.decision_status
  journal,     \* risk_decisions in the order of commit
  clock,       \* wall clock: one tick per accepted request
  pc,          \* per dispatcher: idle, or the next statement of its request
  card,        \* per dispatcher: the card on the screen
  request,     \* per dispatcher: the accepted request in progress
  report,      \* the report being built: the risk row it read
  overlapped   \* history: two accepted requests were in progress at once

risk == <<version, status>>
vars == <<risk, journal, clock, pc, card, request, report, overlapped>>

Statuses == Decisions \cup {Open}
Versions == 1 .. MaxDecisions + 1

\* A card also remembers, as history, how many decisions it was drawn after.
Card == [version : Versions, after : Nat]
\* The row the request loaded, the decision it carries and its `now`.
Request == [version : Versions, status : Statuses, decision : Decisions, at : 1 .. MaxDecisions]
\* on: the version the decision was made on (history).
Entry == [decision : Decisions, on : Versions, at : 1 .. MaxDecisions]
Report == [version : Versions, status : Statuses, entries : Seq(Entry) \cup {None}]

TypeOK ==
  /\ version \in Versions
  /\ status \in Statuses
  /\ journal \in Seq(Entry)
  /\ clock \in 0 .. MaxDecisions
  /\ pc \in [Dispatchers -> {"idle", "commit", "refresh"}]
  /\ card \in [Dispatchers -> Card]
  /\ request \in [Dispatchers -> Request \cup {None}]
  /\ \A d \in Dispatchers : pc[d] = "commit" => request[d] \in Request
  /\ report \in Report \cup {None}
  /\ overlapped \in BOOLEAN

\* The journal page, and with it every card, is drawn from the row as it is.
CurrentCard == [version |-> version, after |-> Len(journal)]

Init ==
  /\ version = 1
  /\ status = Open
  /\ journal = <<>>
  /\ clock = 0
  /\ pc = [d \in Dispatchers |-> "idle"]
  /\ card = [d \in Dispatchers |-> CurrentCard]
  /\ request = [d \in Dispatchers |-> None]
  /\ report = None
  /\ overlapped = FALSE

-----------------------------------------------------------------------------
\* GET /risks/{id}: the dispatcher refreshes the card.
ReadCard(d) ==
  /\ pc[d] = "idle"
  /\ card' = [card EXCEPT ![d] = CurrentCard]
  /\ UNCHANGED <<risk, journal, clock, pc, request, report, overlapped>>

\* Mutated form: only a card from the future is stale.
StaleIfAhead(d) == card[d].version > version

\* risk.version != expected_version
Stale(d) == version # card[d].version

\* 409 CONFLICT; its details.current puts the current risk on the screen.
Conflict(d) ==
  /\ pc[d] = "idle"
  /\ Stale(d)
  /\ card' = [card EXCEPT ![d] = CurrentCard]
  /\ UNCHANGED <<risk, journal, clock, pc, request, report, overlapped>>

\* The version matches: the new values are set on the loaded object.
Accept(d, decision) ==
  /\ pc[d] = "idle"
  /\ ~Stale(d)
  /\ clock < MaxDecisions
  /\ clock' = clock + 1
  /\ pc' = [pc EXCEPT ![d] = "commit"]
  /\ request' = [request EXCEPT ![d] =
       [version |-> version, status |-> status, decision |-> decision, at |-> clock + 1]]
  /\ overlapped' = (overlapped \/ \E o \in Dispatchers : pc[o] = "commit")
  /\ UNCHANGED <<risk, journal, card, report>>

\* Mutated form: the row keeps its version.
SameVersion(r) == r.version

\* Mutated form: bumped by the handler and by the mapper.
TwiceNextVersion(r) == r.version + 2

\* risk.version += 1, computed from the loaded row.
NextVersion(r) == r.version + 1

\* Mutated form: a risk is decided once.
FirstStatus(r) == IF status = Open THEN r.decision ELSE status

\* The UPDATE sets decision_status only when the request changed it.
WrittenStatus(r) == IF r.decision = r.status THEN status ELSE r.decision

\* INSERT of the journal row, UPDATE of the risk, COMMIT.
Commit(d) ==
  LET r == request[d] IN
  /\ pc[d] = "commit"
  /\ version' = NextVersion(r)
  /\ status' = WrittenStatus(r)
  /\ journal' = Append(journal, [decision |-> r.decision, on |-> r.version, at |-> r.at])
  /\ pc' = [pc EXCEPT ![d] = "refresh"]
  /\ UNCHANGED <<clock, card, request, report, overlapped>>

\* session.refresh(risk): the answer is the row as it is by now.
Refresh(d) ==
  /\ pc[d] = "refresh"
  /\ pc' = [pc EXCEPT ![d] = "idle"]
  /\ card' = [card EXCEPT ![d] = CurrentCard]
  /\ request' = [request EXCEPT ![d] = None]
  /\ UNCHANGED <<risk, journal, clock, report, overlapped>>

\* The request dies, before its COMMIT (rolled back) or after it (the answer
\* is lost): the card stays, and the dispatcher may send the decision again.
Abort(d) ==
  /\ pc[d] # "idle"
  /\ pc' = [pc EXCEPT ![d] = "idle"]
  /\ request' = [request EXCEPT ![d] = None]
  /\ UNCHANGED <<risk, journal, clock, card, report, overlapped>>

\* Mutated form: ORDER BY decided_at DESC.
Earliest(entries) ==
  CHOOSE e \in {entries[i] : i \in DOMAIN entries} : \A i \in DOMAIN entries : entries[i].at >= e.at

\* latest_decision: ordered by decided_at, the last one wins.
Latest(entries) ==
  CHOOSE e \in {entries[i] : i \in DOMAIN entries} : \A i \in DOMAIN entries : entries[i].at <= e.at

\* build_risk_report reads the risks ...
ReportRisks ==
  /\ report = None
  /\ report' = [version |-> version, status |-> status, entries |-> None]
  /\ UNCHANGED <<risk, journal, clock, pc, card, request, overlapped>>

\* ... then the journal ...
ReportDecisions ==
  /\ report # None
  /\ report.entries = None
  /\ report' = [report EXCEPT !.entries = journal]
  /\ UNCHANGED <<risk, journal, clock, pc, card, request, overlapped>>

\* ... and is sent.
ReportSend ==
  /\ report # None
  /\ report.entries # None
  /\ report' = None
  /\ UNCHANGED <<risk, journal, clock, pc, card, request, overlapped>>

Decide(d) ==
  \/ ReadCard(d)
  \/ Conflict(d)
  \/ \E decision \in Decisions : Accept(d, decision)
  \/ Commit(d)
  \/ Refresh(d)
  \/ Abort(d)

BuildReport == ReportRisks \/ ReportDecisions \/ ReportSend

Next == BuildReport \/ \E d \in Dispatchers : Decide(d)

Spec == Init /\ [][Next]_vars

-----------------------------------------------------------------------------
(* Properties.  Those of requests that do not overlap say so.              *)

\* Every accepted decision was made on the outcome of the one before it: no
\* decision overwrites one its dispatcher had not seen, and a retry after a
\* lost answer is not accepted twice.
NoLostUpdate == \A i \in DOMAIN journal : journal[i].on = i

SequentialNoLostUpdate == ~overlapped => NoLostUpdate

\* A card that any later decision has outdated is refused.
StaleCardIsRefused ==
  ~overlapped =>
    \A d \in Dispatchers : card[d].after < Len(journal) => Stale(d)

\* The status on the card is the last decision of the journal.
StatusIsLastDecision ==
  ~overlapped /\ journal # <<>> => status = journal[Len(journal)].decision

\* A decided risk never stands in the report without the decision that made
\* it so, although decisions go on between the two SELECTs; a report nothing
\* interfered with gives the reason of the decision it shows.
ReportHasItsDecision ==
  ~overlapped /\ report # None /\ report.entries # None =>
    /\ Len(report.entries) >= report.version - 1
    /\ report.version > 1 => report.status = report.entries[report.version - 1].decision
    /\ report.version = Len(report.entries) + 1 /\ report.version > 1 =>
         Latest(report.entries).decision = report.status
=============================================================================
