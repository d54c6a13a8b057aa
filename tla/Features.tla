------------------------------ MODULE Features ------------------------------
(***************************************************************************)
(* What the forecast model is trained on and what it is served with.  The  *)
(* training examples (ml-dataset-v2) are one query over the whole journal, *)
(* a row per channel and day, with windows of days and with labels from    *)
(* the day after; the service (ml-service, FeatureStore) computes the      *)
(* same features for any moment, for one channel or for many, from a       *)
(* window of the journal.                                                  *)
(***************************************************************************)
EXTENDS Episodes

CONSTANTS
  Day,         \* 24 hours
  WeekDays,    \* the 7 days of the middle window
  MonthDays,   \* the 30 days of the long window
  Hour,        \* how long after its last record the journal is still served
  TestStart    \* ml_test_start; examples before it are for validation

ASSUME FeaturesAssumption ==
  /\ {Day, WeekDays, MonthDays} \subseteq Nat \ {0}
  /\ Gap < Day             \* build_examples_v2: 0 < gap_seconds < 86400
  /\ Hour \in Nat
  /\ 1 < WeekDays /\ WeekDays < MonthDays

Week == WeekDays * Day
Month == MonthDays * Day
None == -1

\* The features of one example: counts of events and alarms over a day, a week
\* and a month, active days, starts of episodes, and ages (None: no alarm).
Example(e1, a1, e7, a7, e30, a30, days, s7, s30, age, alarmAge, channelAge, gaps) ==
  [events |-> <<e1, e7, e30>>, alarms |-> <<a1, a7, a30>>, days |-> days,
   starts |-> <<s7, s30>>, age |-> age, alarmAge |-> alarmAge,
   channelAge |-> channelAge, gaps |-> gaps]

At(rows, i) == rows[i].at
Alarming(rows, i) == rows[i].raw \in AnyAlarm
FirstOf(c) == RowsOf(c)[1].at
AllTimes == UNION {{r.at : r \in Range(RowsOf(c))} : c \in channels}
GlobalFirst == Min(AllTimes)
GlobalLast == Max(AllTimes)

-----------------------------------------------------------------------------
(* The service.                                                             *)

Refusal(reason) == [ok |-> FALSE, reason |-> reason]
Serving(values) == [ok |-> TRUE, values |-> values]

\* Mutated form: the window ends where the episodes it counts may start.
ShortLookback(t) == t - Month

\* Where the window of the journal begins: an alarm further back than Gap
\* cannot belong to an episode that starts within the month.
Lookback(t) == t - Month - Gap

\* Starts of episodes as lag() over the alarms of the window finds them.
WindowStarts(c, states, t) ==
  LET at == {a \in AlarmTimes(c, states) : Lookback(t) < a /\ a <= t}
  IN  {a \in at : a > t - Month /\ \A p \in at : p < a => Beyond(a, p)}

Within(g, from, to) ==
  LET upper == IF g.to < to THEN g.to ELSE to
      lower == IF g.from > from THEN g.from ELSE from
  IN  IF upper > lower THEN upper - lower ELSE 0

\* gap_hours.
GapTime(t) == SumFunction([g \in LogGaps |-> Within(g, t - Month, t)])

\* FEATURE_SQL, MANY_SQL and what is added to their rows: the features of a
\* channel with records in the month before t.
Values(c, t) ==
  LET rows == RowsOf(c)
      Since(length) == {i \in DOMAIN rows : t - length < At(rows, i) /\ At(rows, i) <= t}
      Alarms(length) == {i \in Since(length) : Alarming(rows, i)}
      Age(S) == IF S = {} THEN None ELSE t - Max({At(rows, i) : i \in S})
  IN  Example(Cardinality(Since(Day)), Cardinality(Alarms(Day)),
              Cardinality(Since(Week)), Cardinality(Alarms(Week)),
              Cardinality(Since(Month)), Cardinality(Alarms(Month)),
              Cardinality({(t - At(rows, i)) \div Day : i \in Since(Month)}),
              Cardinality({a \in WindowStarts(c, AnyAlarm, t) : a > t - Week}),
              Cardinality(WindowStarts(c, AnyAlarm, t)),
              Age(Since(Month)), Age(Alarms(Month)), t - FirstOf(c), GapTime(t))

InGap(from, to) == \E g \in LogGaps : g.from <= to /\ g.to > from

Ongoing(values) == values.alarmAge # None /\ values.alarmAge <= Gap

\* check_journal: what the journal as a whole cannot answer.
JournalRefuses(t) ==
  \/ t - Month < GlobalFirst
  \/ t > GlobalLast + Hour
  \/ InGap(t - Day, t)

\* FeatureStore.features: one channel.
Single(c, t) ==
  LET values == Values(c, t)
  IN  IF t - Month < GlobalFirst THEN Refusal("global_history")
      ELSE IF t > GlobalLast + Hour THEN Refusal("stale_journal")
      ELSE IF RowsOf(c) = <<>> \/ FirstOf(c) > t THEN Refusal("unknown_channel")
      ELSE IF values.events[3] = 0 THEN Refusal("no_recent_records")
      ELSE IF t - Day < FirstOf(c) THEN Refusal("channel_history")
      ELSE IF InGap(t - Day, t) THEN Refusal("known_log_gap")
      ELSE IF Ongoing(values) THEN Refusal("active_alarm")
      ELSE Serving(values)

\* FeatureStore.features_many: the channels of the answer with their features.
\* A channel without records in the month is not in the rows of MANY_SQL.
Many(t) ==
  IF JournalRefuses(t) THEN <<>>
  ELSE LET known == {c \in channels : \E i \in DOMAIN RowsOf(c) :
                       t - Month < RowsOf(c)[i].at /\ RowsOf(c)[i].at <= t}
       IN  [c \in {d \in known : t - Day >= FirstOf(d) /\ ~Ongoing(Values(d, t))} |-> Values(c, t)]

\* class_history and class_history_row, of the object all channels belong to:
\* starts of incidents in each window, and the time since the last, capped.
ServedHistory(t) ==
  LET starts == UNION {{c} \X WindowStarts(c, IncidentStates, t) : c \in channels}
      seen == \E c \in channels : \E a \in AlarmTimes(c, IncidentStates) : a <= t
      Count(length) == Cardinality({x \in starts : x[2] > t - length})
  IN  [counts |-> <<Count(Day), Count(Week), Count(Month)>>,
       age |-> IF starts # {} THEN t - Max({x[2] : x \in starts})
               ELSE IF seen THEN Month ELSE None]

-----------------------------------------------------------------------------
(* The training examples: examples_v2.sql.                                  *)

\* The end of the day a time belongs to; a time at midnight ends its day.
DayOf(time) == ((time + Day - 1) \div Day) * Day

\* daily: the days with records.
RecordDays(c) == {DayOf(RowsOf(c)[i].at) : i \in DOMAIN RowsOf(c)}

\* islands and grid: days from a first record on until a month after the last
\* one, where a silence of more than a month begins a new island.
Grid(c) ==
  LET days == RecordDays(c)
      first == {d \in days : \A e \in days : e < d => d - e > Month}
      LastDay(f) == Max({d \in days : d >= f /\ \A n \in first : n > f => d < n}) + Month - Day
  IN  UNION {{f + k * Day : k \in 0 .. (LastDay(f) - f) \div Day} : f \in first}

\* last_alarm_age_hours_30d of an example: since the last alarm of the month.
AlarmAge(c, d) ==
  LET at == {a \in AlarmTimes(c, AnyAlarm) :
               d - (MonthDays - 1) * Day <= DayOf(a) /\ DayOf(a) <= d}
  IN  IF at = {} THEN None ELSE d - Max(at)

\* dense, windowed and gap_hours: counts per day of the grid, summed over the
\* days up to and with d; starts are those of the table of episodes.
Trained(c, d) ==
  LET rows == RowsOf(c)
      table == EpisodeTable(c, AnyAlarm)
      InDays(time, n) == d - (n - 1) * Day <= DayOf(time) /\ DayOf(time) <= d
      Since(n) == {i \in DOMAIN rows : InDays(At(rows, i), n)}
      Alarms(n) == {i \in Since(n) : Alarming(rows, i)}
      Starts(n) == {e \in table : InDays(e.first, n)}
      Age(S) == IF S = {} THEN None ELSE d - Max({At(rows, i) : i \in S})
  IN  Example(Cardinality(Since(1)), Cardinality(Alarms(1)),
              Cardinality(Since(WeekDays)), Cardinality(Alarms(WeekDays)),
              Cardinality(Since(MonthDays)), Cardinality(Alarms(MonthDays)),
              Cardinality({e \in RecordDays(c) : InDays(e, MonthDays)}),
              Cardinality(Starts(WeekDays)), Cardinality(Starts(MonthDays)),
              Age(Since(MonthDays)), AlarmAge(c, d), d - FirstOf(c), GapTime(d))

\* future: the episodes that start in the day after d, by their left boundary.
Future(c, states, d, boundary) ==
  {e \in EpisodeTable(c, states) : DayOf(e.first) - Day = d /\ e.left = boundary}

\* Mutated form: the examples of an alarm that is going on are kept.
NeverActive(c, d) == FALSE

ActiveAlarm(c, d) ==
  LET age == AlarmAge(c, d) IN age # None /\ age <= Gap

\* diagnosed: why a day is no example, or "none".
Exclusion(c, d) ==
  IF d - Month < GlobalFirst THEN "global_history"
  ELSE IF d - Day < FirstOf(c) THEN "channel_history"
  ELSE IF d + Day > GlobalLast THEN "future_window"
  ELSE IF d < TestStart /\ d + Day >= TestStart THEN "split_boundary"
  ELSE IF InGap(d - Day, d + Day) THEN "known_log_gap"
  ELSE IF ActiveAlarm(c, d) THEN "active_alarm"
  ELSE IF Future(c, AnyAlarm, d, "unknown") # {} THEN "uncertain_first_episode"
  ELSE "none"

\* label.
Label(c, d) == Future(c, AnyAlarm, d, "observed_quiet_gap") # {}

\* LABELS_SQL: the label of a class, or unknown.
ClassLabel(c, d) ==
  IF Future(c, IncidentStates, d, "unknown") # {} THEN "unknown"
  ELSE IF Future(c, IncidentStates, d, "observed_quiet_gap") # {} THEN "positive"
  ELSE "negative"

\* target_history: the same history from the table of episodes.
TrainedHistory(d) ==
  LET starts == UNION {{c} \X {e.first : e \in EpisodeTable(c, IncidentStates)} : c \in channels}
      before == {x \in starts : x[2] <= d}
      Count(n) == Cardinality({x \in before : x[2] > d - n})
      age == d - Max({x[2] : x \in before})
  IN  [counts |-> <<Count(Day), Count(Week), Count(Month)>>,
       age |-> IF before = {} THEN None ELSE IF age < Month THEN age ELSE Month]

-----------------------------------------------------------------------------
(* Properties.                                                              *)

Moments == 0 .. Span + Hour + 1
ExampleDays(c) == {d \in Grid(c) : d \in Moments}

\* One channel at a time or many at once, the service gives the same answer.
BatchAgrees ==
  \A t \in Moments : LET many == Many(t) IN
    \A c \in channels : LET one == Single(c, t) IN
      /\ one.ok <=> c \in DOMAIN many
      /\ one.ok => one.values = many[c]

\* There is no skew between training and service: what an example was trained
\* on is what the service computes at that moment, it would have served every
\* example with a label, and it refuses for the reason the example was left out
\* for, unless the journal ends too long before that midnight to be served at
\* all.  The history of an object's incidents agrees as well.
ServedAsTrained ==
  Recorded # {} =>
    /\ BatchAgrees
    /\ \A c \in Recorded : \A d \in ExampleDays(c) :
         LET one == Single(c, d)
             reason == Exclusion(c, d)
         IN  /\ one.ok => one.values = Trained(c, d)
             /\ reason = "none" => one.ok
             /\ reason \in {"global_history", "channel_history", "active_alarm"} =>
                  /\ ~one.ok
                  /\ d <= GlobalLast + Hour => one.reason = reason
    /\ \A d \in Moments : d % Day = 0 => ServedHistory(d) = TrainedHistory(d)

\* The checks of build_dataset_v2.py on what it is about to save.
DatasetValid(c, d) ==
  LET v == Trained(c, d)
  IN  /\ v.events[3] >= 1
      /\ v.events[1] <= v.events[2] /\ v.events[2] <= v.events[3]
      /\ v.alarms[1] <= v.alarms[2] /\ v.alarms[2] <= v.alarms[3]
      /\ v.alarms[3] <= v.events[3]
      /\ 0 <= v.age /\ v.age < Month
      /\ v.days \in 1 .. MonthDays
      /\ v.gaps \in 0 .. Month

\* A label says whether an alarm, or an incident, is recorded in the day after
\* the example, no more and no less: where one is given no episode goes on over
\* the moment of the example or begins too early in the channel's history to be
\* known as one.  Both programs agree on the episodes the labels come from.
LabelsSound ==
  /\ EpisodesAgree
  /\ \A c \in Recorded : \A d \in ExampleDays(c) :
       LET reason == Exclusion(c, d)
           Follows(states) == \E a \in AlarmTimes(c, states) : d < a /\ a <= d + Day
       IN  /\ DatasetValid(c, d)
           /\ reason # "uncertain_first_episode"
           /\ reason = "none" =>
                /\ Label(c, d) <=> Follows(AnyAlarm)
                /\ ClassLabel(c, d) = IF Follows(IncidentStates) THEN "positive" ELSE "negative"
=============================================================================
