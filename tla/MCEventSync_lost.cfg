\* Two writers: ids are committed out of order.
CONSTANTS
  Replay = replay
  Activations = {a1}
  Requests = {r1, r2}
  BatchSize = 3
  MaxReading = 3
  MaxCrashes = 0
  None = none
SPECIFICATION Spec
INVARIANTS NoneSkipped
SYMMETRY Symmetry
