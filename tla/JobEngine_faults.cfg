CONSTANTS
  a1 = a1
  a2 = a2
  b1 = b1
  wa = wa
  wb = wb
  None = None
  Jobs = {j1}
  Workers = {wa, wb}
  Operators = {op1}
  Slots <- MCSlots
  WorkerOf <- MCWorkerOf
  NumSteps = 2
  Registered <- MCLaggingDeploy
  MaxAttempts = 2
  BackoffLen = 1
  BreakerEnabled = TRUE
  MaxFaults <- MCOneOfEach
  MaxRequeues = 1
CHECK_DEADLOCK FALSE
SYMMETRY MCSymmetry
SPECIFICATION Spec
CONSTRAINT NoOverrun
INVARIANTS
  TypeOK
  ExclusiveExecution
  CompletedMeansEveryStep
  PreviousOutputsVisible
  OutputsKept
  AttemptsBounded
  DeadLetterLedger
PROPERTIES
  TerminalIsFinal
  NoRepeatedSuccess
