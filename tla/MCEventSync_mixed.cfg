\* A scenario activation writes beside the replay loop; one batch holds all.
CONSTANTS
  Replay = replay
  Activations = {a1}
  Requests = {r1, r2}
  BatchSize = 3
  MaxReading = 3
  MaxCrashes = 1
  None = none
SPECIFICATION FairSpec
INVARIANTS EventsAreCommitted
PROPERTIES NeverStuck
