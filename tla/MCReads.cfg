\* Walks through three rows while one arrives and one changes, and every
\* journal of up to four readings over six days of two ticks.
SPECIFICATION ReadsSpec
SYMMETRY ReadsSymmetry
CONSTANTS
  Kinds = {"facilities", "sensors", "risks", "orders", "events", "audit"}
  Journal = "readings"
  MaxRows = 3
  MaxArrivals = 1
  MaxMoves = 1
  Limits = {1, 2}
  Callers <- ReadsCallers
  DistrictFacility <- ReadsDistricts
  Homes = {2}
  Ranks = {0, 1}
  a = a
  b = b
  Sensors = {a, b}
  Span = 12
  FirstBy = 1
  MaxLength <- ReadsLengths
  Gap = 1
  LogGaps <- ReadsLogGaps
  Silence = 2
  Granularities = {0, 2, 3}
  Day = 2
  WeekDays = 2
  MonthDays = 3
  Hour = 0
  TestStart = 11
INVARIANTS
  WalkComplete
  CardsMatchLists
  SeriesFaithful
  ServedAsTrained
  LabelsSound
CHECK_DEADLOCK FALSE
