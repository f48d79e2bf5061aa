SPECIFICATION FairLoopSpec
CONSTANTS
  r1 = r1
  r2 = r2
  r3 = r3
  r4 = r4
  j1 = j1
  j2 = j2
  t1 = t1
  t2 = t2
  t3 = t3
  Jobs = {j1, j2}
  Tasks = {t1, t2, t3}
  MaxAttempts <- Attempts
  MaxCloses = 2
  MaxInterrupts = 1
  None = None
  Requests = {r1, r2, r3, r4}
  Body <- Bodies
  MaxFails = 2
  MaxExpiries = 1
INVARIANTS BothTypeOK JoinExact RunsGuarded
PROPERTIES LivesAndLosses WaitingEnds
CHECK_DEADLOCK FALSE
