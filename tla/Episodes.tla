------------------------------ MODULE Episodes ------------------------------
(***************************************************************************)
(* The journal of readings and the alarm episodes it is divided into:      *)
(* consecutive alarms of a channel no more than Gap apart.  Two programs   *)
(* divide it: a Python iterator over the sorted rows (ml-stage2) and a     *)
(* query with a window function (ml-dataset).                              *)
(***************************************************************************)
EXTENDS Integers, Sequences, SequencesExt, FiniteSetsExt

CONSTANTS
  Sensors,   \* channels with readings
  Span,      \* bound: readings lie in 0 .. Span
  FirstBy,   \* bound: the journal begins in 0 .. FirstBy
  MaxLength, \* bound: readings of the journal, per number of channels it has
  Gap,       \* gap_seconds; a number of ticks, like every time here
  LogGaps    \* gap_intervals_utc: set of disjoint [from, to] without any record

\* raw_value, and what is_alarm says of it: "incident" is a state of the class
\* INCIDENT_STATES, "alarm" an alarm of no class.
RawValues == {"normal", "alarm", "incident"}
AnyAlarm == {"alarm", "incident"}
IncidentStates == {"incident"}

Times == 0 .. Span

ASSUME EpisodesAssumption ==
  /\ IsFiniteSet(Sensors)
  /\ Span \in Nat /\ FirstBy \in Times
  /\ Gap \in Nat \ {0}
  /\ \A n \in 1 .. Cardinality(Sensors) : MaxLength[n] \in Nat
  /\ IsFiniteSet(LogGaps)
  /\ \A g \in LogGaps : g.from \in Times /\ g.to \in Times /\ g.from < g.to
  /\ \A g, h \in LogGaps : g = h \/ g.to <= h.from \/ h.to <= g.from

VARIABLES
  channels,  \* the channels of this journal
  journal    \* of each channel the readings in the order of their times: [at, raw]

JournalInit ==
  /\ channels \in SUBSET Sensors \ {{}}
  /\ journal = [c \in channels |-> <<>>]

RowsOf(c) == IF c \in channels THEN journal[c] ELSE <<>>

\* Channels with readings.
Recorded == {c \in channels : RowsOf(c) # <<>>}

\* A reading is recorded; a channel's journal is in the order of the times.
Record ==
  /\ MapThenSumSet(LAMBDA c : Len(journal[c]), channels) < MaxLength[Cardinality(channels)]
  /\ \E c \in channels, t \in Times, raw \in RawValues :
       /\ Recorded = {} => t <= FirstBy
       /\ c \in Recorded => t >= Last(journal[c]).at
       /\ \A g \in LogGaps : ~(g.from <= t /\ t < g.to)
       /\ journal' = [journal EXCEPT ![c] = Append(@, [at |-> t, raw |-> raw])]
  /\ UNCHANGED channels

\* The times of a channel's alarms; several alarms may share one.
AlarmTimes(c, states) == {r.at : r \in {q \in Range(RowsOf(c)) : q.raw \in states}}

-----------------------------------------------------------------------------
(* iter_episodes: one pass over the sorted rows of a channel.               *)

NoEpisodeYet == [closed |-> {}, open |-> <<>>, seen |-> FALSE]

Beyond(late, early) == late - early > Gap

\* An open episode is closed by any row that comes later than Gap after its
\* last alarm; an alarm goes on with the episode or opens one.
TakeRow(first, states, acc, row) ==
  LET ends == acc.open # <<>> /\ Beyond(row.at, acc.open[1].last)
      closed == IF ends
                THEN acc.closed \cup {[acc.open[1] EXCEPT !.right = "observed_quiet_gap"]}
                ELSE acc.closed
      open == IF ends THEN <<>> ELSE acc.open
      opened == [first |-> row.at, last |-> row.at, rows |-> 1, right |-> "unknown",
                 left |-> IF acc.seen \/ Beyond(row.at, first)
                          THEN "observed_quiet_gap" ELSE "unknown"]
  IN  IF row.raw \notin states THEN [acc EXCEPT !.closed = closed, !.open = open]
      ELSE [closed |-> closed, seen |-> TRUE,
            open |-> IF open = <<>> THEN <<opened>>
                     ELSE <<[open[1] EXCEPT !.last = row.at, !.rows = @ + 1]>>]

IterEpisodes(c, states) ==
  LET rows == RowsOf(c)
      end == FoldLeft(LAMBDA acc, row : TakeRow(rows[1].at, states, acc, row), NoEpisodeYet, rows)
  IN  end.closed \cup Range(end.open)

-----------------------------------------------------------------------------
(* episodes.sql: starts, numbers and groups.                                *)

\* starts_episode: no alarm before, or the one before is further away than
\* Gap; rows of the same time share their number.
StartTimes(c, states) ==
  LET at == AlarmTimes(c, states)
  IN  {t \in at : \A p \in at : p < t => Beyond(t, p)}

EpisodeTable(c, states) ==
  LET rows == RowsOf(c)
      starts == StartTimes(c, states)
      Members(s) == {i \in DOMAIN rows :
        /\ rows[i].raw \in states
        /\ rows[i].at >= s
        /\ \A n \in starts : n > s => rows[i].at < n}
      Episode(s) ==
        LET last == Max({rows[i].at : i \in Members(s)})
        IN  [first |-> s, last |-> last, rows |-> Cardinality(Members(s)),
             left |-> IF s # Min(starts) \/ Beyond(s, rows[1].at)
                      THEN "observed_quiet_gap" ELSE "unknown",
             right |-> IF Beyond(Last(rows).at, last) THEN "observed_quiet_gap" ELSE "unknown"]
  IN  {Episode(s) : s \in starts}

\* Both programs find the same episodes, with the same boundaries, of all
\* alarms and of a class of them.
EpisodesAgree ==
  \A c \in Recorded, states \in {AnyAlarm, IncidentStates} :
    IterEpisodes(c, states) = EpisodeTable(c, states)
=============================================================================
