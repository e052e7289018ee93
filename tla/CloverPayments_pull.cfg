CONSTANTS
  m1 = m1
  m2 = m2
  s1 = s1
  s2 = s2
  o1 = o1
  e1 = e1
  e2 = e2
  None = None
  OrderOf <- MCOrderOf
  Mcm = {}
  Staff = {s1, s2}
  Orders = {o1}
  OnOmnivore = {o1}
  Execs = {}
  Pulls = {k1}
  Overlap = 1
  Protect = 3
  Lookback = 9
  Skew = 2
  Lag = 1
  Corrupt = {}
  MaxAttempts = 2
  MaxPosts = 2
  MaxTime = 5
  MaxChanges = 1
  MaxFaults = 1
  MaxRevivals = 0
SPECIFICATION Spec
SYMMETRY MCSymmetry
INVARIANTS
  NothingSkipped
  PaidAddsUp
CHECK_DEADLOCK FALSE
