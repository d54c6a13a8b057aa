\* Five releases, a log of three rows in batches of two, two requests at a
\* time; a lockout after two failures of a name or three of the address.
SPECIFICATION ServiceSpec
CONSTANTS
  Facilities = {"f1", "f2"}
  Channels = {"c1", "c2", "c3"}
  Releases <- ServiceReleases
  Log <- ServiceLog
  Batch = 2
  MinEntries = 1
  MaxEntries = 2
  PerEntry = 2
  Budgets <- ServiceBudgets
  Clients = {"a", "b"}
  Ttl = 2
  Backfill = 2
  Window = 2
  PerName = 2
  PerIp = 3
  Needed = "write"
INVARIANTS
  DataComplete
  SessionHonoured
  LockoutSound
  ActorTrue
PROPERTIES
  StartRepeats
CHECK_DEADLOCK FALSE
