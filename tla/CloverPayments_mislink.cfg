CONSTANTS
  m1 = m1
  m2 = m2
  s1 = s1
  s2 = s2
  o1 = o1
  e1 = e1
  e2 = e2
  None = None
  OrderOf <- MCOrderOf
  Mcm = {m1, m2}
  Staff = {}
  Orders = {o1}
  OnOmnivore = {o1}
  Execs = {e1, e2}
  Pulls = {k1}
  Overlap = 1
  Protect = 2
  Lookback = 9
  Skew = 2
  Lag = 1
  Corrupt = {}
  MaxAttempts = 2
  MaxPosts = 2
  MaxTime = 1
  MaxChanges = 0
  MaxFaults = 0
  MaxRevivals = 0
SPECIFICATION Spec
SYMMETRY MCSymmetry
INVARIANTS
  CompletedIsCharged
CHECK_DEADLOCK FALSE
