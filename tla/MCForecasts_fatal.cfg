\* An alerted facility comes with a suspect channel that has no target_id.
CONSTANTS
  Sensors = {s1, s2}
  Channels = {s1}
  Facilities = {f1}
  Unknown = unknown
  Targets <- TwoTargets
  RowKinds = {"alert", "fatal"}
  MaxRows = 2
  BatchSize = 2
  Horizon = 1
  MaxEvents = 3
  MaxTime = 1
  MaxStarts = 2
  None = none
SPECIFICATION Spec
INVARIANTS AnswerNeverFailsStart
CHECK_DEADLOCK FALSE
