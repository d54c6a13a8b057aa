------------------------------- MODULE Series -------------------------------
(***************************************************************************)
(* GET /sensors/{id}/series (sensor_series_query.py): what a reader is     *)
(* shown of a channel's readings, as numbers or as intervals of a state.   *)
(***************************************************************************)
EXTENDS Episodes

CONSTANTS
  Silence,        \* _MISSING_GAP_THRESHOLD
  Granularities   \* seconds of a bucket; 0 is what "0s" parses to

ASSUME SeriesAssumption == Silence \in Nat /\ Granularities \subseteq Nat

Whole == -1           \* no granularity given
Unparsable == -2      \* one that is not <int><s|m|h|d>

Failed(status) == [status |-> status]

\* numeric_value of a reading, or {}: not every raw value is a number.
Numbers(row) == IF row.raw = "normal" THEN {1} ELSE IF row.raw = "alarm" THEN {2} ELSE {}

\* state of a reading.
StateOf(row) == IF row.raw \in AnyAlarm THEN "alarm" ELSE "normal"

\* _load_readings.
LoadReadings(c, from, to) ==
  FoldLeft(LAMBDA kept, r : IF from <= r.at /\ r.at <= to THEN Append(kept, r) ELSE kept,
           <<>>, RowsOf(c))

\* _bucket_start.
BucketStart(at, seconds) == at - (at % seconds)

\* Mutated form: readings without a number are left out before the silences
\* are looked for, as they are before the buckets.
MissingOfNumbers(rows) ==
  LET kept == SelectSeq(rows, LAMBDA r : Numbers(r) # {})
  IN  {[from |-> kept[i].at, to |-> kept[i + 1].at] :
         i \in {j \in 1 .. Len(kept) - 1 : kept[j + 1].at - kept[j].at > Silence}}

\* missing_intervals: pairs of neighbours too far apart.
Missing(rows) ==
  {[from |-> rows[i].at, to |-> rows[i + 1].at] :
     i \in {j \in 1 .. Len(rows) - 1 : rows[j + 1].at - rows[j].at > Silence}}

\* _build_numeric_series without granularity: a point per reading, 0 where it
\* has no number.
Points(rows) ==
  [i \in DOMAIN rows |->
     [at |-> rows[i].at, state |-> StateOf(rows[i]),
      value |-> IF Numbers(rows[i]) = {} THEN 0 ELSE CHOOSE v \in Numbers(rows[i]) : TRUE]]

\* ... and with one: the numbers of each bucket; the point is their mean.
Buckets(rows, seconds) ==
  LET numbered == {i \in DOMAIN rows : Numbers(rows[i]) # {}}
      starts == {BucketStart(rows[i].at, seconds) : i \in numbered}
  IN  [b \in starts |-> {i \in numbered : BucketStart(rows[i].at, seconds) = b}]

Mean(rows, readings) ==
  [sum |-> MapThenSumSet(LAMBDA i : CHOOSE v \in Numbers(rows[i]) : TRUE, readings),
   count |-> Cardinality(readings)]

\* A bucket of no seconds is a division by zero, a 500, once a reading has a
\* number.
NumericSeries(rows, granularity) ==
  IF granularity = Whole THEN [status |-> 200, points |-> Points(rows), missing |-> Missing(rows)]
  ELSE IF granularity = 0 /\ \E i \in DOMAIN rows : Numbers(rows[i]) # {} THEN Failed(500)
  ELSE LET buckets == Buckets(rows, granularity)
       IN  [status |-> 200, missing |-> Missing(rows),
            points |-> [b \in DOMAIN buckets |-> Mean(rows, buckets[b])]]

\* _build_categorical_series: neighbours of the same raw value are merged.
CategoricalSeries(rows) ==
  LET Merge(intervals, row) ==
        LET state == StateOf(row)
        IN  IF intervals # <<>> /\ Last(intervals).value = row.raw
            THEN [intervals EXCEPT ![Len(intervals)].to = row.at, ![Len(intervals)].state = state]
            ELSE Append(intervals, [from |-> row.at, to |-> row.at, value |-> row.raw, state |-> state])
  IN  [status |-> 200, intervals |-> FoldLeft(Merge, <<>>, rows)]

\* value_type_for, parse_granularity_seconds and get_sensor_series; scope says
\* whether the caller may see the channel.  A granularity that does not parse
\* is refused for numbers only: nothing else reads it.
SensorSeries(c, scope, type, from, to, granularity) ==
  LET rows == LoadReadings(c, from, to)
  IN  CASE c \notin channels -> Failed(404)
        [] c \in channels /\ ~scope -> Failed(403)
        [] c \in channels /\ scope /\ type = "categorical" -> CategoricalSeries(rows)
        [] c \in channels /\ scope /\ type = "numeric" /\ granularity = Unparsable -> Failed(400)
        [] OTHER -> NumericSeries(rows, granularity)

-----------------------------------------------------------------------------
(* Properties.                                                              *)

\* Of the range asked for nothing is lost and nothing made up: a moment lies in
\* a missing interval exactly when the readings around it are too far apart,
\* at every granularity; every number is in one bucket, which holds its time;
\* intervals alternate, and a reading's value is the one of an interval it lies
\* in.  A channel out of scope and one that does not exist give nothing away.
SeriesFaithful ==
  \A c \in Sensors, from \in {0, 1} :
    LET to == Span - from
        rows == LoadReadings(c, from, to)
        Numeric(granularity) == SensorSeries(c, TRUE, "numeric", from, to, granularity)
        missing == Numeric(Whole).missing
        times == {r.at : r \in Range(rows)}
        Silent(t) == \E p, q \in times :
          /\ p <= t /\ t < q /\ q - p > Silence
          /\ \A r \in times : r <= p \/ q <= r
        Count(S) == Cardinality(S)
    IN  IF c \notin channels
        THEN \A type \in {"numeric", "categorical"}, scope \in BOOLEAN :
               SensorSeries(c, scope, type, from, to, Whole) = Failed(404)
        ELSE /\ Numeric(Unparsable) = Failed(400)
             /\ SensorSeries(c, FALSE, "numeric", from, to, Whole) = Failed(403)
             /\ \A t \in Times : (\E m \in missing : m.from <= t /\ t < m.to) <=> Silent(t)
             /\ \A g \in Granularities \ {0} :
                  LET series == Numeric(g)
                  IN  /\ series.missing = missing
                      /\ \A i \in DOMAIN rows : Numbers(rows[i]) # {} =>
                           Count({b \in DOMAIN series.points :
                                    b <= rows[i].at /\ rows[i].at < b + g}) = 1
                      /\ Count({i \in DOMAIN rows : Numbers(rows[i]) # {}}) =
                           SumFunction([b \in DOMAIN series.points |-> series.points[b].count])
             /\ LET shown == SensorSeries(c, TRUE, "categorical", from, to, Whole).intervals
                IN  /\ \A i \in 1 .. Len(shown) - 1 :
                         shown[i].value # shown[i + 1].value /\ shown[i].to <= shown[i + 1].from
                    /\ \A i \in DOMAIN rows : \E k \in DOMAIN shown :
                         /\ shown[k].value = rows[i].raw
                         /\ shown[k].from <= rows[i].at /\ rows[i].at <= shown[k].to
=============================================================================
