SPECIFICATION FairQueueSpec
CONSTANTS
  j1 = j1
  j2 = j2
  w1 = w1
  w2 = w2
  None = None
  Jobs = {j1, j2}
  Workers = {w1, w2}
  Loadable = {j1}
  MaxAttempts <- Attempts
  MaxFaults = 0
  m1 = m1
  m2 = m2
  Gone = Gone
  Members = {m1, m2}
  MemberAttempts <- AttemptsOfMembers
  MaxLosses = 1
  TTL = 2
  MaxTicks = 3
  Length = 3
  LinkAttempts <- AttemptsOfLinks
  MaxChainFaults = 0
  MaxPushes = 5
INVARIANT NothingSilentlyLost
CHECK_DEADLOCK FALSE
