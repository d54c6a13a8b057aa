\* The replay loop is the only writer; two requests race, one crash.
CONSTANTS
  Replay = replay
  Activations = {}
  Requests = {r1, r2}
  BatchSize = 2
  MaxReading = 3
  MaxCrashes = 1
  None = none
SPECIFICATION FairSpec
INVARIANTS TypeOK NoneSkipped EventsBelowMark AnswerIsFresh
PROPERTIES MarkOnlyAdvances EveryReadingJournaled ImplementsJournal
