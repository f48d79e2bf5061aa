SPECIFICATION DatabaseSpec
CONSTANTS
  s1 = s1
  s2 = s2
  a = a
  b = b
  r1 = r1
  None = None
  Sessions = {s1, s2}
  Rows = {a, b}
  Old = {a}
  Values = {1, 2, 3}
  Invalid = {3}
  First = 1
  MaxCalls = 4
  Handlers = {r1}
  MaxWrites = 3
  MaxBlocks = 4
  MaxFailures = 1
  Verifiers = {1, 2, 3, 4}
  MaxSecrets = 2
  MaxBatches = 1
  PerBatch = 2
  Admins = {"x", "y"}
  Managed = {1}
  Ruled = {"title"}
  NotNull = {"at"}
  Moments = {"at"}
  Tasks = {"t1"}
  Searched = {1, 2}
  Tenants = {"u", "v"}
  Words = {"x", "y"}
  MaxNesting = 2
  MaxPuts = 2
  Applications <- Apps
  Deliveries = {"delivery"}
  MaxAttempts = 3
  Keys = {"k"}
  Readers = {"r1", "r2"}
  Writers = {"w1", "w2"}
  Events <- EventList
  Crontab <- FourCrons
  OverlapOf <- TwoOverlaps
  FirstMinute = 44639
  LastMinute = 44641
  MaxKilled = 1
  DueAt <- TurnOfTheMonth
  Signups = {1, 2, 3}
  Spellings = {"ada", "Ada"}
  Lower <- OneAddress
  Listed = {1, 2, 3, 4}
  Sizes = {1, 2, 3}
  MaxChanges = 2
SYMMETRY AnySession
INVARIANT RulesHold
CHECK_DEADLOCK FALSE
