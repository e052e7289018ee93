CONSTANTS
  Runs = {r1, r2}
  Callers = {c1}
  Threshold = 2
  Attenuation = 2
  MaxFeed = 2
  MaxTriggers = 1
  MaxRevivals = 1
  MaxFaults = 1
  None = None
CHECK_DEADLOCK FALSE
SPECIFICATION FairSpec
INVARIANTS
  TypeOK
  FailingIsEarned
  OneRunAtATime
PROPERTIES
  CursorNeverRegresses
  SyncRecovers
