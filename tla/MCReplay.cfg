\* A window of four seconds at double speed, outages of more than a lap, and
\* two operators whose override requests overlap.
SPECIFICATION HealthSpec
CONSTANTS
  Span = 4
  Readings <- ReplayReadings
  Speed = 2
  TickTime = 1
  MaxTime = 4
  MaxSetbacks = 1
  None = None
  Fresh = 0
  Delayed = 1
  Duration = 1
  Operators = {o1, o2}
  MaxRequests = 2
SYMMETRY OperatorSymmetry
INVARIANTS
  TypeOK
  EvenReplay
  VirtualClockKept
  DeadIsSeen
  LastWord
