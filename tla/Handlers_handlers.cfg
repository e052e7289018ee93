CONSTANTS
  None = None
  AutoLevel = AutoLevel
  a = a
  b = b
  d1 = d1
  k1 = k1
  k2 = k2
  l1 = l1
  l2 = l2
  n1 = n1
  n2 = n2
  n3 = n3
  o1 = o1
  o2 = o2
  o3 = o3
  p1 = p1
  p2 = p2
  s1 = s1
  s2 = s2
  job1 = job1
  op1 = op1
  a1 = a1
  a2 = a2
  b1 = b1
  wa = wa
  wb = wb
SPECIFICATION Spec
CHECK_DEADLOCK FALSE
SYMMETRY MCSymmetry
INVARIANTS
  TypeOK
  ConcurrencyIsBounded
  NoJobAbandoned
  NothingTwice
  SilentMeansSettled
  TenderedOnce
  DifferenceIsNoted
  LinesConverge
  NeverOverbilled
  ShownOnce
  OrderedStays
  TotalIsItsLines
  CatalogIsShown
  HandWorkStays
  RosterMirrored
  PaidInFull
  CardReachesEveryPlan
  TurnsAreKept
