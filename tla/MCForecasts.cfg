\* Two sensors, one of them without a channel; one facility, two starts.
CONSTANTS
  Sensors = {s1, s2}
  Channels = {s1}
  Facilities = {f1}
  Unknown = unknown
  Targets <- TwoTargets
  RowKinds = {"alert", "malformed", "fatal"}
  MaxRows = 2
  BatchSize = 2
  Horizon = 1
  MaxEvents = 3
  MaxTime = 1
  MaxStarts = 2
  None = none
SPECIFICATION FairSpec
INVARIANTS TypeOK RisksMatchEvents NothingLeftBehind OneOpenRisk
PROPERTIES EvaluatedOnce StartEnds
CHECK_DEADLOCK FALSE
