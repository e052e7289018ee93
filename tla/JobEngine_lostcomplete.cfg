CONSTANTS
  a1 = a1
  a2 = a2
  b1 = b1
  wa = wa
  wb = wb
  None = None
  Jobs = {j1}
  Workers = {wa, wb}
  Operators = {op1}
  Slots <- MCSlotsPair
  WorkerOf <- MCWorkerOfPair
  NumSteps = 2
  Registered <- MCAllRegistered
  MaxAttempts = 2
  BackoffLen = 1
  BreakerEnabled = FALSE
  MaxFaults <- MCLostComplete
  MaxRequeues = 0
CHECK_DEADLOCK FALSE
SPECIFICATION Spec
INVARIANTS
  CompletedJobsAreWhole
