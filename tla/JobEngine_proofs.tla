--------------------------- MODULE JobEngine_proofs ---------------------------
(***************************************************************************)
(* Theorems about JobEngine, for any number of jobs, slots, processes and  *)
(* steps and any budget of faults.                                         *)
(***************************************************************************)
EXTENDS JobEngine, FiniteSetTheorems, TLAPS

----------------------------------------------------------------------------
(* Typing *)

LEMMA FaultType ==
  ASSUME faults \in [Faults -> Nat], NEW kind \in Faults, Fault(kind)
  PROVE  faults' \in [Faults -> Nat]
BY DEF Fault

LEMMA ReachesType ==
  ASSUME faults \in [Faults -> Nat], NEW kind \in Faults, NEW applied \in BOOLEAN,
         Reaches(applied, kind)
  PROVE  faults' \in [Faults -> Nat]
BY FaultType DEF Reaches

LEMMA UnlockType ==
  ASSUME TypeOK, NEW j \in Jobs, NEW status \in JobStatus, Unlock(j, status)
  PROVE  /\ jobStatus' \in [Jobs -> JobStatus]
         /\ lockedBy' \in [Jobs -> Workers \cup {None}]
         /\ lockLive' \in [Jobs -> BOOLEAN]
BY DEF TypeOK, Unlock

LEMMA IdleType ==
  ASSUME TypeOK, NEW E, SlotsBecomeIdle(E)
  PROVE  /\ pc' \in [Slots -> PC]
         /\ sjob' \in [Slots -> Jobs \cup {None}]
         /\ idx' \in [Slots -> 1 .. (NumSteps + 1)]
         /\ snapDone' \in [Slots -> SUBSET Steps]
         /\ snapAttempts' \in [Slots -> [Steps -> Nat]]
         /\ seen' \in [Slots -> SUBSET Steps]
         /\ beating' \in [Slots -> BOOLEAN]
<1>1. 1 \in 1 .. (NumSteps + 1)
  BY NumStepsAssumption
<1>2. [s \in Steps |-> 0] \in [Steps -> Nat]
  OBVIOUS
<1> QED
  BY <1>1, <1>2 DEF TypeOK, SlotsBecomeIdle, PC

\* The slots' shape: a slot has a job exactly when it is not idle, is before the
\* first step until it has read them, and inside a step is at one its snapshot
\* does not call completed.
SlotShape ==
  \A e \in Slots :
    /\ pc[e] = "idle" <=> sjob[e] = None
    /\ pc[e] \in {"idle", "claimed"} => idx[e] = 1
    /\ pc[e] \in {"handler", "returned", "threw"} => idx[e] \in Steps \ snapDone[e]

TypeInv == TypeOK /\ SlotShape

LEMMA TypeInit == Init => TypeInv
<1> SUFFICES ASSUME Init PROVE TypeInv
  OBVIOUS
<1>1. 1 \in 1 .. (NumSteps + 1)
  BY NumStepsAssumption
<1> QED
  BY <1>1, NoneAssumption DEF Init, TypeInv, TypeOK, SlotShape, JobStatus, StepStatus, PC

LEMMA TypeDatabase == TypeInv /\ DatabaseStep => TypeInv'
<1> SUFFICES ASSUME TypeInv, DatabaseStep PROVE TypeInv'
  OBVIOUS
<1> USE DEF TypeInv, TypeOK, SlotShape, rowVars, stepVars, slotVars, opVars, JobStatus
<1>1. ASSUME NEW j \in Jobs, NEW now \in BOOLEAN, Enqueue(j, now) PROVE TypeInv'
  BY <1>1 DEF Enqueue
<1>2. ASSUME NEW j \in Jobs, BecomeDue(j) PROVE TypeInv'
  BY <1>2 DEF BecomeDue
<1>3. ASSUME NEW j \in Jobs, LockExpires(j) PROVE TypeInv'
  BY <1>3 DEF LockExpires
<1>4. ASSUME NEW j \in Jobs, LockOverrun(j) PROVE TypeInv'
  BY <1>4, FaultType DEF LockOverrun, Faults
<1>5. CASE RecoverStuckJobs
  BY <1>5 DEF RecoverStuckJobs
<1> QED
  BY <1>1, <1>2, <1>3, <1>4, <1>5 DEF DatabaseStep

LEMMA TypeOperator == TypeInv /\ OperatorStep => TypeInv'
<1> SUFFICES ASSUME TypeInv, OperatorStep PROVE TypeInv'
  OBVIOUS
<1> USE DEF TypeInv, TypeOK, SlotShape, rowVars, stepVars, slotVars, opVars
<1>1. ASSUME NEW o \in Operators, NEW j \in Jobs, RetryDeadLetterCheck(o, j)
      PROVE  TypeInv'
  BY <1>1 DEF RetryDeadLetterCheck
<1>2. ASSUME NEW o \in Operators, NEW j \in Jobs, NEW override \in BOOLEAN,
             RequeueCheck(o, j, override)
      PROVE  TypeInv'
  BY <1>2 DEF RequeueCheck
<1>3. ASSUME NEW o \in Operators, Requeue(o) PROVE TypeInv'
  BY <1>3 DEF Requeue, Unlock, JobStatus, StepStatus
<1> QED
  BY <1>1, <1>2, <1>3 DEF OperatorStep

\* What ends an execution leaves every other slot as it was.
LEMMA IdleShape ==
  ASSUME TypeInv, NEW E, SlotsBecomeIdle(E)
  PROVE  SlotShape'
BY DEF TypeInv, TypeOK, SlotShape, SlotsBecomeIdle

LEMMA EndWithFailureType ==
  ASSUME TypeInv, NEW e \in Slots, NEW retryAt \in BOOLEAN, NEW applied \in BOOLEAN,
         sjob[e] \in Jobs, idx[e] \in Steps, EndWithFailure(e, retryAt, applied)
  PROVE  TypeInv'
<1>1. faults' \in [Faults -> Nat]
  BY ReachesType DEF EndWithFailure, TypeInv, TypeOK, Faults
<1>2. /\ SlotShape'
      /\ pc' \in [Slots -> PC]
      /\ sjob' \in [Slots -> Jobs \cup {None}]
      /\ idx' \in [Slots -> 1 .. (NumSteps + 1)]
      /\ snapDone' \in [Slots -> SUBSET Steps]
      /\ snapAttempts' \in [Slots -> [Steps -> Nat]]
      /\ seen' \in [Slots -> SUBSET Steps]
      /\ beating' \in [Slots -> BOOLEAN]
  BY IdleType, IdleShape DEF EndWithFailure, TypeInv
<1>3. CASE applied
  <2> DEFINE j == sjob[e]
             s == idx[e]
  <2>1. /\ j \in Jobs /\ s \in Steps
        /\ FailStepSQL(j, s, retryAt)
        /\ UNCHANGED opVars
    BY <1>3 DEF EndWithFailure
  <2> HIDE DEF j, s
  <2>2. attempts' \in [Jobs -> [Steps -> Nat]]
    <3>1. attempts' = [attempts EXCEPT ![j][s] = @ + 1]
      BY <2>1 DEF FailStepSQL
    <3> QED
      BY <2>1, <3>1 DEF TypeInv, TypeOK
  <2>3. stepStatus' \in [Jobs -> [Steps -> StepStatus]]
    BY <2>1 DEF FailStepSQL, TypeInv, TypeOK, StepStatus
  <2>4. /\ jobStatus' \in [Jobs -> JobStatus]
        /\ lockedBy' \in [Jobs -> Workers \cup {None}]
        /\ lockLive' \in [Jobs -> BOOLEAN]
    BY <2>1 DEF FailStepSQL, Unlock, TypeInv, TypeOK, JobStatus
  <2>5. /\ due' \in [Jobs -> BOOLEAN]
        /\ openDL' \in [Jobs -> Nat]
        /\ UNCHANGED <<context, returned>>
    <3>1. CASE retryAt
      BY <2>1, <3>1 DEF FailStepSQL, TypeInv, TypeOK
    <3>2. CASE ~retryAt
      <4>1. /\ due' = due
            /\ openDL' = [openDL EXCEPT ![j] = @ + 1]
            /\ UNCHANGED <<context, returned>>
        BY <2>1, <3>2 DEF FailStepSQL
      <4> QED
        BY <2>1, <4>1 DEF TypeInv, TypeOK
    <3> QED
      BY <3>1, <3>2
  <2> QED
    BY <1>1, <1>2, <2>1, <2>2, <2>3, <2>4, <2>5 DEF TypeInv, TypeOK, opVars
<1>4. CASE ~applied
  BY <1>1, <1>2, <1>4 DEF EndWithFailure, TypeInv, TypeOK, rowVars, stepVars, opVars
<1> QED
  BY <1>3, <1>4

LEMMA TypeSlot ==
  ASSUME TypeInv, NEW e \in Slots, SlotStep(e)
  PROVE  TypeInv'
<1>0. pc[e] # "idle" => sjob[e] \in Jobs
  BY DEF TypeInv, TypeOK, SlotShape
<1> USE DEF rowVars, stepVars, slotVars, opVars, Goto
<1>1. ASSUME NEW applied \in BOOLEAN, BreakerBlocks(e, applied) PROVE TypeInv'
  <2>1. SlotShape' /\ faults' \in [Faults -> Nat]
    BY <1>1, IdleShape, ReachesType DEF BreakerBlocks, TypeInv, TypeOK, Faults
  <2> QED
    BY <1>0, <1>1, <2>1, IdleType
    DEF BreakerBlocks, Unlock, TypeInv, TypeOK, JobStatus
<1>2. CASE ReadSteps(e)
  BY <1>0, <1>2 DEF ReadSteps, TypeInv, TypeOK, SlotShape, PC
<1>3. ASSUME NEW applied \in BOOLEAN, ReadStepsFails(e, applied) PROVE TypeInv'
  <2>1. SlotShape' /\ faults' \in [Faults -> Nat]
    BY <1>3, IdleShape, FaultType DEF ReadStepsFails, TypeInv, TypeOK, Faults
  <2> QED
    BY <1>0, <1>3, <2>1, IdleType
    DEF ReadStepsFails, Unlock, TypeInv, TypeOK, JobStatus
<1>4. CASE SkipCompleted(e)
  <2>1. idx[e] \in Steps
    BY <1>4 DEF SkipCompleted, AlreadyDone, TypeInv, TypeOK
  <2>2. idx[e] + 1 \in 1 .. (NumSteps + 1)
    BY <2>1, NumStepsAssumption DEF Steps
  <2> QED
    BY <1>4, <2>2 DEF SkipCompleted, TypeInv, TypeOK, SlotShape
<1>5. ASSUME NEW fetched \in BOOLEAN, StartStep(e, fetched) PROVE TypeInv'
  <2>1. faults' \in [Faults -> Nat]
    BY <1>5, ReachesType DEF StartStep, TypeInv, TypeOK, Faults
  <2>2. idx[e] \in Steps \ snapDone[e]
    BY <1>5, RegisteredAssumption, WorkerOfAssumption DEF StartStep
  <2> QED
    BY <1>0, <1>5, <2>1, <2>2 DEF StartStep, FetchedContext, TypeInv, TypeOK, SlotShape, PC
<1>6. CASE HandlerReturns(e)
  BY <1>0, <1>6 DEF HandlerReturns, TypeInv, TypeOK, SlotShape, PC
<1>7. CASE HandlerThrows(e)
  BY <1>0, <1>7 DEF HandlerThrows, TypeInv, TypeOK, SlotShape, PC
<1>8. ASSUME NEW applied \in BOOLEAN, CompleteStep(e, applied) PROVE TypeInv'
  <2>1. faults' \in [Faults -> Nat]
    BY <1>8, ReachesType DEF CompleteStep, TypeInv, TypeOK, Faults
  <2>2. idx[e] \in Steps /\ idx[e] + 1 \in 1 .. (NumSteps + 1)
    BY <1>8, NumStepsAssumption DEF CompleteStep, TypeInv, SlotShape, Steps
  <2>3. SlotShape'
    BY <1>0, <1>8 DEF CompleteStep, TypeInv, TypeOK, SlotShape
  <2>4. CASE applied
    <3>1. /\ jobStatus' \in [Jobs -> JobStatus]
          /\ lockedBy' \in [Jobs -> Workers \cup {None}]
          /\ lockLive' \in [Jobs -> BOOLEAN]
      BY <1>0, <1>8, <2>4 DEF CompleteStep, Unlock, TypeInv, TypeOK, JobStatus
    <3>2. /\ stepStatus' \in [Jobs -> [Steps -> StepStatus]]
          /\ attempts' \in [Jobs -> [Steps -> Nat]]
          /\ context' \in [Jobs -> SUBSET Steps]
      <4> DEFINE j == sjob[e]
                 s == idx[e]
      <4>1. j \in Jobs /\ s \in Steps
        BY <1>0, <1>8, <2>2 DEF CompleteStep
      <4>2. /\ stepStatus' = [stepStatus EXCEPT ![j][s] = "completed"]
            /\ attempts' = [attempts EXCEPT ![j][s] = @ + 1]
            /\ context' = [context EXCEPT ![j] = MergeOutput(@, s)]
        BY <1>8, <2>4 DEF CompleteStep
      <4> HIDE DEF j, s
      <4>3. stepStatus' \in [Jobs -> [Steps -> StepStatus]]
        BY <4>1, <4>2 DEF TypeInv, TypeOK, StepStatus
      <4>4. attempts' \in [Jobs -> [Steps -> Nat]]
        BY <4>1, <4>2 DEF TypeInv, TypeOK
      <4>5. context' \in [Jobs -> SUBSET Steps]
        BY <4>1, <4>2 DEF MergeOutput, TypeInv, TypeOK
      <4> QED
        BY <4>3, <4>4, <4>5
    <3> QED
      BY <1>8, <2>1, <2>2, <2>3, <3>1, <3>2 DEF CompleteStep, TypeInv, TypeOK, PC
  <2>5. CASE ~applied
    BY <1>0, <1>8, <2>1, <2>2, <2>3, <2>5 DEF CompleteStep, TypeInv, TypeOK, PC
  <2> QED
    BY <2>4, <2>5
<1>9. ASSUME NEW applied \in BOOLEAN, MissingHandler(e, applied) PROVE TypeInv'
  BY <1>0, <1>9, EndWithFailureType DEF MissingHandler
<1>10. ASSUME NEW retryable \in BOOLEAN, NEW hinted \in BOOLEAN, NEW applied \in BOOLEAN,
              FailStep(e, retryable, hinted, applied)
       PROVE  TypeInv'
  <2>1. PICK retryAt \in BOOLEAN : EndWithFailure(e, retryAt, applied)
    BY <1>10 DEF FailStep
  <2> QED
    BY <1>0, <1>10, <2>1, EndWithFailureType DEF FailStep, TypeInv, SlotShape
<1>11. CASE Finish(e)
  BY <1>11, IdleShape, IdleType DEF Finish, TypeInv, TypeOK
<1> QED
  BY <1>1, <1>2, <1>3, <1>4, <1>5, <1>6, <1>7, <1>8, <1>9, <1>10, <1>11 DEF SlotStep

LEMMA TypeWorker == TypeInv /\ WorkerStep => TypeInv'
<1> SUFFICES ASSUME TypeInv, WorkerStep PROVE TypeInv'
  OBVIOUS
<1> USE DEF rowVars, stepVars, slotVars, opVars, Goto
<1>1. ASSUME NEW e \in Slots, NEW j \in Jobs, NEW delivered \in BOOLEAN,
             Claim(e, j, delivered)
      PROVE  TypeInv'
  <2>1. faults' \in [Faults -> Nat]
    BY <1>1, ReachesType DEF Claim, TypeInv, TypeOK, Faults
  <2>2. WorkerOf[e] \in Workers
    BY WorkerOfAssumption
  <2>3. CASE delivered
    <3>1. SlotShape'
      <4>1. /\ pc[e] = "idle"
            /\ pc' = [pc EXCEPT ![e] = "claimed"]
            /\ sjob' = [sjob EXCEPT ![e] = j]
            /\ UNCHANGED <<idx, snapDone>>
        BY <1>1, <2>3 DEF Claim
      <4> QED
        BY <4>1, NoneAssumption DEF TypeInv, TypeOK, SlotShape
    <3> QED
      <4>1. pc' \in [Slots -> PC] /\ sjob' \in [Slots -> Jobs \cup {None}]
        BY <1>1, <2>3 DEF Claim, TypeInv, TypeOK, PC
      <4>2. /\ jobStatus' \in [Jobs -> JobStatus]
            /\ lockedBy' \in [Jobs -> Workers \cup {None}]
            /\ lockLive' \in [Jobs -> BOOLEAN]
        BY <1>1, <2>2 DEF Claim, TypeInv, TypeOK, JobStatus
      <4> QED
        <5>1. UNCHANGED <<due, context, stepStatus, attempts, openDL, idx, snapDone,
                          snapAttempts, seen, beating, opJob, opFull, requeues, returned>>
          BY <1>1 DEF Claim
        <5> QED
          BY <2>1, <3>1, <4>1, <4>2, <5>1 DEF TypeInv, TypeOK
  <2>4. CASE ~delivered
    BY <1>1, <2>1, <2>2, <2>4 DEF Claim, TypeInv, TypeOK, SlotShape, JobStatus
  <2> QED
    BY <2>3, <2>4
<1>2. ASSUME NEW e \in Slots, SlotStep(e) PROVE TypeInv'
  BY <1>2, TypeSlot
<1>3. ASSUME NEW e \in Slots, SaveMarker(e) PROVE TypeInv'
  BY <1>3 DEF SaveMarker, TypeInv, TypeOK, SlotShape
<1>4. ASSUME NEW e \in Slots, Heartbeat(e) PROVE TypeInv'
  BY <1>4 DEF Heartbeat, TypeInv, TypeOK, SlotShape
<1>5. ASSUME NEW w \in Workers, Crash(w) PROVE TypeInv'
  BY <1>5, IdleShape, IdleType, FaultType DEF Crash, TypeInv, TypeOK, Faults
<1> QED
  BY <1>1, <1>2, <1>3, <1>4, <1>5 DEF WorkerStep

LEMMA TypeStutter == TypeInv /\ UNCHANGED vars => TypeInv'
BY DEF TypeInv, TypeOK, SlotShape, vars, rowVars, stepVars, slotVars, opVars

LEMMA TypeNext == TypeInv /\ [Next]_vars => TypeInv'
BY TypeDatabase, TypeOperator, TypeWorker, TypeStutter DEF Next

LEMMA TypeAlways == Spec => []TypeInv
BY TypeInit, TypeNext, PTL DEF Spec

\* Every variable keeps its type, whatever the faults.
THEOREM TypeCorrect == Spec => []TypeOK
<1>1. TypeInv => TypeOK
  BY DEF TypeInv
<1> QED
  BY <1>1, TypeAlways, PTL

----------------------------------------------------------------------------
(* The lock.  Until a lock is overrun, an execution at work on a job holds its *)
(* lock, live and alone, and a requeue that has begun is of an ended job.      *)

\* One requeue transaction at a time; with two, the second may reset a job that
\* a worker has claimed meanwhile (run requeuerace).
SingleOperator == \A o, p \in Operators : o = p

Holds(e, j) ==
  jobStatus[j] = "running" /\ lockedBy[j] = WorkerOf[e] /\ lockLive[j] = TRUE

Held  == \A e \in Slots, j \in Jobs : Executing(e, j) => Holds(e, j)
Alone == \A e, f \in Slots, j \in Jobs : Executing(e, j) /\ Executing(f, j) => e = f
OperatorsWait == \A o \in Operators : opJob[o] # None => Terminal(opJob[o])

LockInv == TypeInv /\ (NoOverrun => Held /\ Alone /\ OperatorsWait)

\* What all steps do but those of claims and operators: no execution starts, the
\* lock of one that goes on is not touched, and an ended job keeps its status.
Quiet ==
  NoOverrun' =>
    /\ NoOverrun
    /\ \A e \in Slots, j \in Jobs :
         Executing(e, j)' =>
           /\ Executing(e, j)
           /\ Holds(e, j)'
    /\ \A j \in Jobs : Terminal(j) => jobStatus'[j] = jobStatus[j]
    /\ opJob' = opJob

LEMMA FaultGrows ==
  ASSUME faults \in [Faults -> Nat], NEW kind \in Faults, Fault(kind), NoOverrun'
  PROVE  NoOverrun /\ kind # "overrun"
BY DEF Fault, NoOverrun, Faults

LEMMA ReachesGrows ==
  ASSUME faults \in [Faults -> Nat], NEW kind \in Faults, NEW applied \in BOOLEAN,
         Reaches(applied, kind), NoOverrun'
  PROVE  NoOverrun
BY FaultGrows DEF Reaches, NoOverrun

LEMMA QuietKeepsLock ==
  ASSUME LockInv, TypeInv', Quiet
  PROVE  LockInv'
<1> SUFFICES ASSUME NoOverrun' PROVE Held' /\ Alone' /\ OperatorsWait'
  BY DEF LockInv
<1>1. Held /\ Alone /\ OperatorsWait
  BY DEF LockInv, Quiet
<1>2. Held'
  BY DEF Held, Quiet
<1>3. Alone'
  BY <1>1 DEF Alone, Quiet
<1>4. OperatorsWait'
  BY <1>1 DEF OperatorsWait, Quiet, Terminal, LockInv, TypeInv, TypeOK
<1> QED
  BY <1>2, <1>3, <1>4

\* An execution that ends after giving up the lock of its job, or leaving it.
LEMMA EndIsQuiet ==
  ASSUME LockInv, NEW e \in Slots, pc[e] # "idle", SlotsBecomeIdle({e}),
         NoOverrun' => NoOverrun, opJob' = opJob,
         \A j \in Jobs : j # sjob[e] =>
            /\ jobStatus'[j] = jobStatus[j]
            /\ lockedBy'[j] = lockedBy[j]
            /\ lockLive'[j] = lockLive[j],
         Executing(e, sjob[e]) \/ UNCHANGED <<jobStatus, lockedBy, lockLive>>
  PROVE  Quiet
<1> SUFFICES ASSUME NoOverrun' PROVE Quiet
  BY DEF Quiet
<1>1. NoOverrun /\ Held /\ Alone
  BY DEF LockInv
<1>2. \A f \in Slots, j \in Jobs : Executing(f, j)' => f # e /\ Executing(f, j)
  BY DEF SlotsBecomeIdle, Executing, LockInv, TypeInv, TypeOK
<1>3. ASSUME NEW f \in Slots, NEW j \in Jobs, Executing(f, j)' PROVE Holds(f, j)'
  <2>1. f # e /\ Executing(f, j) /\ Holds(f, j)
    BY <1>1, <1>2, <1>3 DEF Held
  <2>2. j # sjob[e] \/ UNCHANGED <<jobStatus, lockedBy, lockLive>>
    BY <1>1, <2>1 DEF Alone
  <2> QED
    BY <2>1, <2>2 DEF Holds
<1>4. ASSUME NEW j \in Jobs, Terminal(j) PROVE jobStatus'[j] = jobStatus[j]
  BY <1>1, <1>4 DEF Held, Holds, Terminal
<1> QED
  BY <1>1, <1>2, <1>3, <1>4 DEF Quiet

\* An execution that goes on without touching the rows of the jobs.
LEMMA GoOnIsQuiet ==
  ASSUME LockInv, NoOverrun' => NoOverrun, opJob' = opJob,
         UNCHANGED <<jobStatus, lockedBy, lockLive>>,
         \A f \in Slots, j \in Jobs : Executing(f, j)' => Executing(f, j)
  PROVE  Quiet
BY DEF Quiet, LockInv, Held, Holds

LEMMA QuietDatabase ==
  ASSUME LockInv, DatabaseStep
  PROVE  Quiet
<1> USE DEF slotVars, opVars
<1>0. ASSUME UNCHANGED <<pc, sjob, idx>>, NEW f \in Slots, NEW k \in Jobs
      PROVE  Executing(f, k)' <=> Executing(f, k)
  BY <1>0 DEF Executing
<1>1. ASSUME NEW j \in Jobs, NEW now \in BOOLEAN, Enqueue(j, now) PROVE Quiet
  <2> SUFFICES ASSUME NoOverrun' PROVE Quiet
    BY DEF Quiet
  <2>1. /\ NoOverrun /\ Held
        /\ UNCHANGED <<pc, sjob, idx, lockedBy, lockLive, opJob>>
        /\ jobStatus[j] = "absent"
        /\ jobStatus' = [jobStatus EXCEPT ![j] = "pending"]
    BY <1>1 DEF Enqueue, NoOverrun, LockInv
  <2>2. \A f \in Slots, k \in Jobs : Executing(f, k)' => Executing(f, k) /\ k # j
    BY <1>0, <2>1 DEF Held, Holds
  <2> QED
    BY <2>1, <2>2 DEF Quiet, Held, Holds, Terminal, LockInv, TypeInv, TypeOK
<1>2. ASSUME NEW j \in Jobs, BecomeDue(j) PROVE Quiet
  BY <1>0, <1>2, GoOnIsQuiet DEF BecomeDue, NoOverrun
<1>3. ASSUME NEW j \in Jobs, LockExpires(j) PROVE Quiet
  <2> SUFFICES ASSUME NoOverrun' PROVE Quiet
    BY DEF Quiet
  <2>1. /\ NoOverrun /\ Held /\ Abandoned(j)
        /\ UNCHANGED <<pc, sjob, idx, jobStatus, lockedBy, opJob>>
        /\ lockLive' = [lockLive EXCEPT ![j] = FALSE]
    BY <1>3 DEF LockExpires, NoOverrun, LockInv
  <2>2. \A f \in Slots, k \in Jobs : Executing(f, k)' => Executing(f, k) /\ k # j
    BY <1>0, <2>1 DEF Held, Holds, Abandoned
  <2> QED
    BY <2>1, <2>2 DEF Quiet, Held, Holds, LockInv, TypeInv, TypeOK
<1>4. ASSUME NEW j \in Jobs, LockOverrun(j) PROVE Quiet
  BY <1>4, FaultGrows DEF LockOverrun, Quiet, LockInv, TypeInv, TypeOK, Faults
<1>5. CASE RecoverStuckJobs
  <2> SUFFICES ASSUME NoOverrun' PROVE Quiet
    BY DEF Quiet
  <2>1. /\ NoOverrun /\ Held
        /\ UNCHANGED <<pc, sjob, idx, lockLive, opJob>>
        /\ jobStatus' = [k \in Jobs |-> IF k \in Stuck THEN "retrying" ELSE jobStatus[k]]
        /\ lockedBy' = [k \in Jobs |-> IF k \in Stuck THEN None ELSE lockedBy[k]]
    BY <1>5 DEF RecoverStuckJobs, NoOverrun, LockInv
  <2>2. \A f \in Slots, k \in Jobs : Executing(f, k)' => Executing(f, k) /\ k \notin Stuck
    BY <1>0, <2>1 DEF Held, Holds, Stuck
  <2>3. \A k \in Jobs : Terminal(k) => k \notin Stuck
    BY DEF Terminal, Stuck
  <2> QED
    BY <2>1, <2>2, <2>3 DEF Quiet, Held, Holds
<1> QED
  BY <1>1, <1>2, <1>3, <1>4, <1>5 DEF DatabaseStep

LEMMA QuietSlot ==
  ASSUME LockInv, NEW e \in Slots, SlotStep(e)
  PROVE  Quiet
<1> USE DEF rowVars, stepVars, slotVars, opVars, Goto
<1>0. faults \in [Faults -> Nat] /\ (pc[e] # "idle" => sjob[e] \in Jobs)
  BY DEF LockInv, TypeInv, TypeOK, SlotShape
<1>1. ASSUME NEW applied \in BOOLEAN, BreakerBlocks(e, applied) PROVE Quiet
  <2>1. NoOverrun' => NoOverrun
    BY <1>0, <1>1, ReachesGrows DEF BreakerBlocks, Faults
  <2>2. Executing(e, sjob[e])
    BY <1>1 DEF BreakerBlocks, Executing
  <2> QED
    BY <1>0, <1>1, <2>1, <2>2, EndIsQuiet
    DEF BreakerBlocks, Unlock, LockInv, TypeInv, TypeOK
<1>2. CASE ReadSteps(e)
  <2>1. \A f \in Slots, j \in Jobs : Executing(f, j)' => Executing(f, j)
    BY <1>2 DEF ReadSteps, Executing, LockInv, TypeInv, TypeOK
  <2> QED
    BY <1>2, <2>1, GoOnIsQuiet DEF ReadSteps, NoOverrun
<1>3. ASSUME NEW applied \in BOOLEAN, ReadStepsFails(e, applied) PROVE Quiet
  <2>1. NoOverrun' => NoOverrun
    BY <1>0, <1>3, FaultGrows DEF ReadStepsFails, Faults
  <2>2. Executing(e, sjob[e])
    BY <1>3 DEF ReadStepsFails, Executing
  <2> QED
    BY <1>0, <1>3, <2>1, <2>2, EndIsQuiet
    DEF ReadStepsFails, Unlock, LockInv, TypeInv, TypeOK
<1>4. CASE SkipCompleted(e)
  <2>1. idx[e] \in Steps
    BY <1>4 DEF SkipCompleted, AlreadyDone, LockInv, TypeInv, TypeOK
  <2>2. \A f \in Slots, j \in Jobs : Executing(f, j)' => Executing(f, j)
    BY <1>4, <2>1, NumStepsAssumption
    DEF SkipCompleted, Executing, Steps, LockInv, TypeInv, TypeOK
  <2> QED
    BY <1>4, <2>2, GoOnIsQuiet DEF SkipCompleted, NoOverrun
<1>5. ASSUME NEW fetched \in BOOLEAN, StartStep(e, fetched) PROVE Quiet
  <2>1. NoOverrun' => NoOverrun
    BY <1>0, <1>5, ReachesGrows DEF StartStep, Faults
  <2>2. idx[e] \in Steps
    BY <1>5, RegisteredAssumption, WorkerOfAssumption DEF StartStep
  <2>3. \A f \in Slots, j \in Jobs : Executing(f, j)' => Executing(f, j)
    BY <1>5, <2>2, NumStepsAssumption
    DEF StartStep, Executing, Steps, LockInv, TypeInv, TypeOK
  <2> QED
    BY <1>5, <2>1, <2>3, GoOnIsQuiet DEF StartStep
<1>6. CASE HandlerReturns(e)
  <2>1. \A f \in Slots, j \in Jobs : Executing(f, j)' => Executing(f, j)
    BY <1>6 DEF HandlerReturns, Executing, LockInv, TypeInv, TypeOK
  <2> QED
    BY <1>6, <2>1, GoOnIsQuiet DEF HandlerReturns, NoOverrun
<1>7. CASE HandlerThrows(e)
  <2>1. \A f \in Slots, j \in Jobs : Executing(f, j)' => Executing(f, j)
    BY <1>7 DEF HandlerThrows, Executing, LockInv, TypeInv, TypeOK
  <2> QED
    BY <1>7, <2>1, GoOnIsQuiet DEF HandlerThrows, NoOverrun
<1>8. ASSUME NEW applied \in BOOLEAN, CompleteStep(e, applied) PROVE Quiet
  <2> SUFFICES ASSUME NoOverrun' PROVE Quiet
    BY DEF Quiet
  <2> DEFINE j == sjob[e]
  <2>1. NoOverrun
    BY <1>0, <1>8, ReachesGrows DEF CompleteStep, Faults
  <2>2. /\ pc[e] = "returned" /\ j \in Jobs /\ idx[e] \in Steps
        /\ pc' = [pc EXCEPT ![e] = "loop"]
        /\ idx' = [idx EXCEPT ![e] = @ + 1]
        /\ UNCHANGED <<sjob, opJob>>
    BY <1>0, <1>8 DEF CompleteStep, LockInv, TypeInv, SlotShape
  <2>3. Executing(e, j) /\ Holds(e, j)
    BY <2>1, <2>2 DEF Executing, LockInv, Held
  <2>4. \A f \in Slots, k \in Jobs : Executing(f, k)' => Executing(f, k)
    BY <2>2 DEF Executing, LockInv, TypeInv, TypeOK
  <2>5. CASE UNCHANGED <<jobStatus, lockedBy, lockLive>>
    BY <2>1, <2>2, <2>4, <2>5, GoOnIsQuiet
  <2>6. CASE LastStep(idx[e]) /\ Unlock(j, "completed")
    <3>1. ~Executing(e, j)'
      BY <2>2, <2>6, NumStepsAssumption
      DEF LastStep, Executing, Steps, LockInv, TypeInv, TypeOK
    <3>2. \A f \in Slots, k \in Jobs : Executing(f, k)' => k # j
      BY <2>1, <2>2, <2>3, <2>4, <3>1 DEF LockInv, Alone
    <3>3. \A k \in Jobs : Terminal(k) => k # j
      BY <2>3 DEF Terminal, Holds
    <3>4. \A k \in Jobs : k # j =>
            /\ jobStatus'[k] = jobStatus[k]
            /\ lockedBy'[k] = lockedBy[k]
            /\ lockLive'[k] = lockLive[k]
      BY <2>6 DEF Unlock, LockInv, TypeInv, TypeOK
    <3> QED
      BY <2>1, <2>2, <2>4, <3>2, <3>3, <3>4 DEF Quiet, LockInv, Held, Holds
  <2> QED
    BY <1>8, <2>5, <2>6 DEF CompleteStep
<1>9. ASSUME NEW retryAt \in BOOLEAN, NEW applied \in BOOLEAN,
             EndWithFailure(e, retryAt, applied), Executing(e, sjob[e])
      PROVE  Quiet
  <2>1. NoOverrun' => NoOverrun
    BY <1>0, <1>9, ReachesGrows DEF EndWithFailure, Faults
  <2>2. \A j \in Jobs : j # sjob[e] =>
            /\ jobStatus'[j] = jobStatus[j]
            /\ lockedBy'[j] = lockedBy[j]
            /\ lockLive'[j] = lockLive[j]
    BY <1>9 DEF EndWithFailure, FailStepSQL, Unlock, LockInv, TypeInv, TypeOK
  <2> QED
    BY <1>0, <1>9, <2>1, <2>2, EndIsQuiet DEF EndWithFailure, Executing
<1>10. ASSUME NEW applied \in BOOLEAN, MissingHandler(e, applied) PROVE Quiet
  <2>1. Executing(e, sjob[e])
    BY <1>10, NumStepsAssumption DEF MissingHandler, Executing, Steps
  <2> QED
    BY <1>9, <1>10, <2>1 DEF MissingHandler
<1>11. ASSUME NEW retryable \in BOOLEAN, NEW hinted \in BOOLEAN, NEW applied \in BOOLEAN,
              FailStep(e, retryable, hinted, applied)
       PROVE  Quiet
  <2>1. PICK retryAt \in BOOLEAN : EndWithFailure(e, retryAt, applied)
    BY <1>11 DEF FailStep
  <2>2. Executing(e, sjob[e])
    BY <1>11 DEF FailStep, Executing
  <2> QED
    BY <1>9, <2>1, <2>2
<1>12. CASE Finish(e)
  BY <1>12, EndIsQuiet DEF Finish, NoOverrun
<1> QED
  BY <1>1, <1>2, <1>3, <1>4, <1>5, <1>6, <1>7, <1>8, <1>10, <1>11, <1>12 DEF SlotStep

LEMMA QuietMarker ==
  ASSUME LockInv, NEW e \in Slots, SaveMarker(e)
  PROVE  Quiet
<1>1. \A f \in Slots, j \in Jobs : Executing(f, j)' => Executing(f, j)
  BY DEF SaveMarker, slotVars, Executing
<1> QED
  BY <1>1, GoOnIsQuiet DEF SaveMarker, opVars, NoOverrun

\* A heartbeat finds the lock of an execution at work held, and keeps it.
LEMMA QuietHeartbeat ==
  ASSUME LockInv, NEW e \in Slots, Heartbeat(e)
  PROVE  Quiet
<1> SUFFICES ASSUME NoOverrun' PROVE Quiet
  BY DEF Quiet
<1>1. /\ NoOverrun /\ Held
      /\ UNCHANGED <<jobStatus, lockedBy, pc, sjob, idx, opJob>>
      /\ \/ lockLive' = [lockLive EXCEPT ![sjob[e]] = TRUE]
         \/ lockLive' = lockLive
  BY DEF Heartbeat, opVars, NoOverrun, LockInv
<1>2. \A f \in Slots, j \in Jobs : Executing(f, j)' => Executing(f, j)
  BY <1>1 DEF Executing
<1> QED
  BY <1>1, <1>2 DEF Quiet, Held, Holds, LockInv, TypeInv, TypeOK

LEMMA QuietCrash ==
  ASSUME LockInv, NEW w \in Workers, Crash(w)
  PROVE  Quiet
<1>1. NoOverrun' => NoOverrun
  BY FaultGrows DEF Crash, LockInv, TypeInv, TypeOK, Faults
<1>2. \A f \in Slots, j \in Jobs : Executing(f, j)' => Executing(f, j)
  BY DEF Crash, SlotsBecomeIdle, Executing
<1> QED
  BY <1>1, <1>2, GoOnIsQuiet DEF Crash, rowVars, opVars

\* A claim finds a job that no execution is at work on, since it is not running.
LEMMA LockClaim ==
  ASSUME LockInv, TypeInv', NEW e \in Slots, NEW j \in Jobs, NEW delivered \in BOOLEAN,
         Claim(e, j, delivered)
  PROVE  LockInv'
<1> SUFFICES ASSUME NoOverrun' PROVE Held' /\ Alone' /\ OperatorsWait'
  BY DEF LockInv
<1>1. NoOverrun /\ Held /\ Alone /\ OperatorsWait
  BY ReachesGrows DEF Claim, LockInv, TypeInv, TypeOK, Faults
<1>2. /\ pc[e] = "idle" /\ jobStatus[j] \in {"pending", "retrying"}
      /\ jobStatus' = [jobStatus EXCEPT ![j] = "running"]
      /\ lockedBy' = [lockedBy EXCEPT ![j] = WorkerOf[e]]
      /\ lockLive' = [lockLive EXCEPT ![j] = TRUE]
      /\ UNCHANGED <<idx, opJob>>
  BY DEF Claim, opVars
<1>3. \/ pc' = [pc EXCEPT ![e] = "claimed"] /\ sjob' = [sjob EXCEPT ![e] = j]
      \/ UNCHANGED <<pc, sjob>>
  BY DEF Claim, Goto
<1>4. \A f \in Slots : ~Executing(f, j)
  BY <1>1, <1>2 DEF Held, Holds
<1>5. ASSUME NEW f \in Slots, NEW k \in Jobs, Executing(f, k)'
      PROVE  IF k = j THEN f = e ELSE Executing(f, k)
  BY <1>2, <1>3, <1>4, <1>5 DEF Executing, LockInv, TypeInv, TypeOK
<1>6. Held'
  <2> SUFFICES ASSUME NEW f \in Slots, NEW k \in Jobs, Executing(f, k)'
               PROVE  Holds(f, k)'
    BY DEF Held
  <2>1. CASE k = j
    BY <1>2, <1>5, <2>1 DEF Holds, LockInv, TypeInv, TypeOK
  <2>2. CASE k # j
    BY <1>1, <1>2, <1>5, <2>2 DEF Held, Holds, LockInv, TypeInv, TypeOK
  <2> QED
    BY <2>1, <2>2
<1>7. Alone'
  BY <1>1, <1>5 DEF Alone
<1>8. OperatorsWait'
  <2>1. \A k \in Jobs : Terminal(k) => k # j /\ Terminal(k)'
    BY <1>2 DEF Terminal, LockInv, TypeInv, TypeOK
  <2> QED
    BY <1>1, <1>2, <2>1 DEF OperatorsWait, LockInv, TypeInv, TypeOK
<1> QED
  BY <1>6, <1>7, <1>8

LEMMA LockOperator ==
  ASSUME SingleOperator, LockInv, TypeInv', OperatorStep
  PROVE  LockInv'
<1> SUFFICES ASSUME NoOverrun' PROVE Held' /\ Alone' /\ OperatorsWait'
  BY DEF LockInv
<1>1. NoOverrun /\ Held /\ Alone /\ OperatorsWait /\ UNCHANGED <<pc, sjob, idx>>
  BY DEF OperatorStep, RetryDeadLetterCheck, RequeueCheck, Requeue, NoOverrun, LockInv, slotVars
<1>2. \A f \in Slots, k \in Jobs : Executing(f, k)' <=> Executing(f, k)
  BY <1>1 DEF Executing
<1>3. Alone'
  BY <1>1, <1>2 DEF Alone
<1>4. ASSUME NEW o \in Operators, NEW j \in Jobs, Terminal(j),
             opJob' = [opJob EXCEPT ![o] = j], UNCHANGED rowVars
      PROVE  Held' /\ OperatorsWait'
  <2>1. Held'
    BY <1>1, <1>2, <1>4 DEF Held, Holds, rowVars
  <2>2. OperatorsWait'
    BY <1>1, <1>4 DEF OperatorsWait, Terminal, rowVars, LockInv, TypeInv, TypeOK
  <2> QED
    BY <2>1, <2>2
<1>5. ASSUME NEW o \in Operators, Requeue(o) PROVE Held' /\ OperatorsWait'
  <2> DEFINE j == opJob[o]
  <2>1. /\ j \in Jobs /\ Terminal(j)
        /\ opJob' = [opJob EXCEPT ![o] = None]
        /\ Unlock(j, "pending")
    BY <1>1, <1>5 DEF Requeue, OperatorsWait, LockInv, TypeInv, TypeOK
  <2>2. \A f \in Slots : ~Executing(f, j)
    BY <1>1, <2>1 DEF Held, Holds, Terminal
  <2>3. Held'
    BY <1>1, <1>2, <2>1, <2>2 DEF Held, Holds, Unlock, LockInv, TypeInv, TypeOK
  <2>4. OperatorsWait'
    BY <2>1 DEF SingleOperator, OperatorsWait, LockInv, TypeInv, TypeOK
  <2> QED
    BY <2>3, <2>4
<1>6. Held' /\ OperatorsWait'
  <2>1. ASSUME NEW o \in Operators, NEW j \in Jobs, RetryDeadLetterCheck(o, j)
        PROVE  Held' /\ OperatorsWait'
    BY <1>4, <2>1 DEF RetryDeadLetterCheck, Terminal
  <2>2. ASSUME NEW o \in Operators, NEW j \in Jobs, NEW override \in BOOLEAN,
               RequeueCheck(o, j, override)
        PROVE  Held' /\ OperatorsWait'
    BY <1>4, <2>2 DEF RequeueCheck
  <2> QED
    BY <1>5, <2>1, <2>2 DEF OperatorStep
<1> QED
  BY <1>3, <1>6

LEMMA QuietStutter ==
  ASSUME LockInv, UNCHANGED vars
  PROVE  Quiet
<1>1. \A f \in Slots, j \in Jobs : Executing(f, j)' => Executing(f, j)
  BY DEF vars, slotVars, Executing
<1> QED
  BY <1>1, GoOnIsQuiet DEF vars, rowVars, opVars, NoOverrun

LEMMA LockInit == Init => LockInv
<1> SUFFICES ASSUME Init PROVE LockInv
  OBVIOUS
<1>1. \A e \in Slots, j \in Jobs : ~Executing(e, j)
  BY DEF Init, Executing
<1>2. \A o \in Operators : opJob[o] = None
  BY DEF Init
<1> QED
  BY <1>1, <1>2, TypeInit DEF LockInv, Held, Alone, OperatorsWait

LEMMA LockNext ==
  ASSUME SingleOperator, LockInv, [Next]_vars
  PROVE  LockInv'
<1>1. TypeInv'
  BY TypeNext DEF LockInv
<1>2. CASE Quiet
  BY <1>1, <1>2, QuietKeepsLock
<1>3. CASE WorkerStep
  BY <1>1, <1>2, <1>3, LockClaim, QuietSlot, QuietMarker, QuietHeartbeat, QuietCrash
  DEF WorkerStep
<1> QED
  BY <1>1, <1>2, <1>3, QuietDatabase, LockOperator, QuietStutter DEF Next

LEMMA LockAlways ==
  ASSUME SingleOperator
  PROVE  Spec => []LockInv
BY LockInit, LockNext, PTL DEF Spec

\* As long as no lock is overrun, an execution at work on a job is the only one
\* and its process owns the row, whatever crashes and calls are lost.
THEOREM LockProtects ==
  ASSUME SingleOperator
  PROVE  Spec => []ExclusiveExecution
<1>1. LockInv => ExclusiveExecution
  BY DEF LockInv, Held, Holds, Alone, ExclusiveExecution
<1> QED
  BY <1>1, LockAlways, PTL

\* As long as no lock is overrun, nothing but an operator's requeue changes the
\* status of a job that has ended.
THEOREM EndedStaysEnded ==
  ASSUME SingleOperator
  PROVE  Spec => TerminalIsFinal
<1> DEFINE A == \A j \in Jobs :
       NoOverrun /\ Terminal(j) /\ jobStatus'[j] # jobStatus[j] =>
         \E o \in Operators : opJob[o] = j /\ opJob'[o] = None
<1>1. ASSUME LockInv, [Next]_vars PROVE A
  <2> SUFFICES ASSUME NEW j \in Jobs, NoOverrun, Terminal(j), jobStatus'[j] # jobStatus[j]
               PROVE  \E o \in Operators : opJob[o] = j /\ opJob'[o] = None
    OBVIOUS
  <2>1. CASE faults' = faults \/ NoOverrun'
    <3>1. ~Quiet
      BY <2>1 DEF Quiet, NoOverrun
    <3>2. ASSUME NEW e \in Slots, NEW k \in Jobs, NEW delivered \in BOOLEAN,
                 Claim(e, k, delivered)
          PROVE  FALSE
      BY <3>2 DEF Claim, Terminal, LockInv, TypeInv, TypeOK
    <3>3. OperatorStep
      BY <1>1, <3>1, <3>2, QuietDatabase, QuietSlot, QuietMarker, QuietHeartbeat,
         QuietCrash, QuietStutter
      DEF Next, WorkerStep
    <3>4. PICK o \in Operators : Requeue(o)
      BY <3>3 DEF OperatorStep, RetryDeadLetterCheck, RequeueCheck, rowVars
    <3>5. opJob[o] = j
      <4>1. jobStatus' = [jobStatus EXCEPT ![opJob[o]] = "pending"]
        BY <3>4 DEF Requeue, Unlock
      <4> QED
        BY <4>1
    <3>6. opJob'[o] = None
      <4>1. opJob' = [opJob EXCEPT ![o] = None]
        BY <3>4 DEF Requeue
      <4> QED
        BY <1>1, <4>1 DEF LockInv, TypeInv, TypeOK
    <3> QED
      BY <3>5, <3>6
  <2>2. CASE ~(faults' = faults \/ NoOverrun')
    <3>1. PICK k \in Jobs : LockOverrun(k)
      <4>1. ASSUME NEW kind \in Faults \ {"overrun"}, Fault(kind) PROVE FALSE
        BY <2>2, <4>1 DEF Fault, NoOverrun, Faults, LockInv, TypeInv, TypeOK
      <4>2. ASSUME NEW kind \in Faults \ {"overrun"}, NEW applied \in BOOLEAN,
                   Reaches(applied, kind)
            PROVE  FALSE
        BY <2>2, <4>1, <4>2 DEF Reaches
      <4>3. {"crash", "lostComplete", "lostCall", "blindRead"} \subseteq Faults \ {"overrun"}
        BY DEF Faults
      <4>4. ASSUME NEW e \in Slots, SlotStep(e) PROVE FALSE
        BY <2>2, <4>1, <4>2, <4>3, <4>4
        DEF SlotStep, BreakerBlocks, ReadSteps, ReadStepsFails, SkipCompleted, StartStep,
            HandlerReturns, HandlerThrows, CompleteStep, MissingHandler, FailStep,
            EndWithFailure, Finish
      <4>5. ~WorkerStep
        BY <2>2, <4>1, <4>2, <4>3, <4>4
        DEF WorkerStep, Claim, SaveMarker, Heartbeat, Crash
      <4>6. ~OperatorStep
        BY <2>2 DEF OperatorStep, RetryDeadLetterCheck, RequeueCheck, Requeue
      <4> QED
        BY <1>1, <2>2, <4>5, <4>6
        DEF Next, DatabaseStep, Enqueue, BecomeDue, LockExpires, RecoverStuckJobs, vars
    <3> QED
      BY <3>1 DEF LockOverrun
  <2> QED
    BY <2>1, <2>2
<1> QED
  BY <1>1, LockAlways, PTL DEF Spec, TerminalIsFinal

----------------------------------------------------------------------------
(* The steps.  What an execution remembers of the steps still to come is what   *)
(* the rows say; failed steps are those of dead jobs; steps complete in order.  *)

NoLostComplete == faults["lostComplete"] = 0

\* In the loop or in a step, after the steps were read.
AtWork(e, j) == Executing(e, j) /\ pc[e] # "claimed"

SnapshotCurrent ==
  \A e \in Slots, j \in Jobs : AtWork(e, j) =>
    \A s \in Steps : s >= idx[e] =>
      /\ stepStatus[j][s] = "completed" <=> s \in snapDone[e]
      /\ attempts[j][s] = snapAttempts[e][s]

AttemptsLeft ==
  \A j \in Jobs, s \in Steps :
    /\ attempts[j][s] <= MaxAttempts
    /\ stepStatus[j][s] = "pending" => attempts[j][s] < MaxAttempts

LedgerRight ==
  \A j \in Jobs :
    /\ openDL[j] = IF jobStatus[j] = "dead_letter" THEN 1 ELSE 0
    /\ jobStatus[j] = "dead_letter" <=> \E s \in Steps : stepStatus[j][s] = "failed"

StepsInOrder ==
  \A j \in Jobs :
    /\ \A s, t \in Steps :
         s < t /\ stepStatus[j][t] = "completed" => stepStatus[j][s] = "completed"
    /\ jobStatus[j] = "completed" <=> stepStatus[j][NumSteps] = "completed"

NoneSkipped ==
  \A e \in Slots, j \in Jobs : AtWork(e, j) =>
    \A s \in Steps : s < idx[e] => stepStatus[j][s] = "completed"

StepInv ==
  /\ LockInv
  /\ NoOverrun => SnapshotCurrent /\ AttemptsLeft /\ LedgerRight
  /\ NoOverrun /\ NoLostComplete => StepsInOrder /\ NoneSkipped

\* Faults are only ever added.
FaultsGrow ==
  (NoOverrun' => NoOverrun) /\ (NoLostComplete' => NoLostComplete)

LEMMA FaultMonotone ==
  ASSUME faults \in [Faults -> Nat], NEW kind \in Faults, Fault(kind)
  PROVE  FaultsGrow
BY DEF Fault, FaultsGrow, NoOverrun, NoLostComplete, Faults

LEMMA ReachesMonotone ==
  ASSUME faults \in [Faults -> Nat], NEW kind \in Faults, NEW applied \in BOOLEAN,
         Reaches(applied, kind)
  PROVE  FaultsGrow
BY FaultMonotone DEF Reaches, FaultsGrow, NoOverrun, NoLostComplete

\* What leaves the rows of the steps, the ledger and what an execution at work
\* remembers of them as they are.
StepFrame ==
  /\ UNCHANGED <<stepStatus, attempts, openDL>>
  /\ \A j \in Jobs : \A st \in {"completed", "dead_letter"} :
       jobStatus'[j] = st <=> jobStatus[j] = st
  /\ \A e \in Slots, j \in Jobs : AtWork(e, j)' =>
       /\ AtWork(e, j)
       /\ idx'[e] = idx[e]
       /\ snapDone'[e] = snapDone[e]
       /\ snapAttempts'[e] = snapAttempts[e]

LEMMA FrameKeepsSteps ==
  ASSUME StepInv, LockInv', FaultsGrow, NoOverrun' => StepFrame
  PROVE  StepInv'
<1>1. ASSUME NoOverrun' PROVE (SnapshotCurrent /\ AttemptsLeft /\ LedgerRight)'
  <2>1. StepFrame /\ SnapshotCurrent /\ AttemptsLeft /\ LedgerRight
    BY <1>1 DEF StepInv, FaultsGrow
  <2>2. SnapshotCurrent'
    BY <2>1 DEF SnapshotCurrent, StepFrame
  <2>3. AttemptsLeft'
    BY <2>1 DEF AttemptsLeft, StepFrame
  <2>4. LedgerRight'
    BY <2>1 DEF LedgerRight, StepFrame
  <2> QED
    BY <2>2, <2>3, <2>4
<1>2. ASSUME NoOverrun', NoLostComplete' PROVE (StepsInOrder /\ NoneSkipped)'
  <2>1. StepFrame /\ StepsInOrder /\ NoneSkipped
    BY <1>2 DEF StepInv, FaultsGrow
  <2>2. StepsInOrder'
    BY <2>1 DEF StepsInOrder, StepFrame
  <2>3. NoneSkipped'
    BY <2>1 DEF NoneSkipped, StepFrame
  <2> QED
    BY <2>2, <2>3
<1> QED
  BY <1>1, <1>2 DEF StepInv

\* An execution that ends while its job neither completes nor dies.
LEMMA EndFrame ==
  ASSUME StepInv, NEW E, SlotsBecomeIdle(E),
         UNCHANGED <<stepStatus, attempts, openDL>>,
         \A j \in Jobs : \A st \in {"completed", "dead_letter"} :
            jobStatus'[j] = st <=> jobStatus[j] = st
  PROVE  StepFrame
BY DEF StepFrame, SlotsBecomeIdle, AtWork, Executing, StepInv, LockInv, TypeInv, TypeOK

LEMMA FrameDatabase ==
  ASSUME StepInv, LockInv', DatabaseStep
  PROVE  StepInv'
<1> USE DEF slotVars, opVars, stepVars
<1>0. ASSUME UNCHANGED slotVars, NEW e \in Slots, NEW j \in Jobs
      PROVE  AtWork(e, j)' <=> AtWork(e, j)
  BY <1>0 DEF AtWork, Executing
<1>1. FaultsGrow
  <2>1. ASSUME NEW j \in Jobs, LockOverrun(j) PROVE FaultsGrow
    BY <2>1, FaultMonotone DEF LockOverrun, StepInv, LockInv, TypeInv, TypeOK, Faults
  <2>2. ASSUME UNCHANGED faults PROVE FaultsGrow
    BY <2>2 DEF FaultsGrow, NoOverrun, NoLostComplete
  <2> QED
    BY <2>1, <2>2
    DEF DatabaseStep, Enqueue, BecomeDue, LockExpires, RecoverStuckJobs
<1>2. UNCHANGED <<stepStatus, attempts, openDL, slotVars>>
  BY DEF DatabaseStep, Enqueue, BecomeDue, LockExpires, LockOverrun, RecoverStuckJobs
<1>3. ASSUME NEW j \in Jobs, NEW st \in {"completed", "dead_letter"}
      PROVE  jobStatus'[j] = st <=> jobStatus[j] = st
  <2>1. CASE UNCHANGED jobStatus
    BY <2>1
  <2>2. ASSUME NEW k \in Jobs, NEW now \in BOOLEAN, Enqueue(k, now)
        PROVE  jobStatus'[j] = st <=> jobStatus[j] = st
    BY <2>2, <1>3 DEF Enqueue, StepInv, LockInv, TypeInv, TypeOK
  <2>3. CASE RecoverStuckJobs
    BY <2>3, <1>3 DEF RecoverStuckJobs, Stuck
  <2> QED
    BY <2>1, <2>2, <2>3 DEF DatabaseStep, BecomeDue, LockExpires, LockOverrun
<1>4. StepFrame
  BY <1>0, <1>2, <1>3 DEF StepFrame
<1> QED
  BY <1>1, <1>4, FrameKeepsSteps

\* The execution that has just read the steps of its job remembers them rightly.
LEMMA StepsRead ==
  ASSUME StepInv, LockInv', NEW e \in Slots, ReadSteps(e)
  PROVE  StepInv'
<1> DEFINE j == sjob[e]
<1>1. /\ pc[e] = "claimed" /\ j \in Jobs
      /\ snapDone' = [snapDone EXCEPT ![e] = {s \in Steps : stepStatus[j][s] = "completed"}]
      /\ snapAttempts' = [snapAttempts EXCEPT ![e] = attempts[j]]
      /\ pc' = [pc EXCEPT ![e] = "loop"]
      /\ UNCHANGED <<jobStatus, stepStatus, attempts, openDL, sjob, idx, faults>>
  BY DEF ReadSteps, Goto, rowVars, stepVars, StepInv, LockInv, TypeInv, TypeOK, SlotShape
<1>2. FaultsGrow
  BY <1>1 DEF FaultsGrow, NoOverrun, NoLostComplete
<1>3. \A f \in Slots, k \in Jobs : AtWork(f, k)' => (f # e /\ AtWork(f, k)) \/ (f = e /\ k = j)
  BY <1>1 DEF AtWork, Executing, StepInv, LockInv, TypeInv, TypeOK
<1>4. ASSUME NoOverrun' PROVE (SnapshotCurrent /\ AttemptsLeft /\ LedgerRight)'
  <2>1. SnapshotCurrent /\ AttemptsLeft /\ LedgerRight
    BY <1>2, <1>4 DEF StepInv, FaultsGrow
  <2>2. SnapshotCurrent'
    <3> SUFFICES ASSUME NEW f \in Slots, NEW k \in Jobs, AtWork(f, k)',
                        NEW s \in Steps, s >= idx[f]
                 PROVE  /\ stepStatus[k][s] = "completed" <=> s \in snapDone'[f]
                        /\ attempts[k][s] = snapAttempts'[f][s]
      BY <1>1 DEF SnapshotCurrent
    <3>1. CASE f # e
      BY <1>1, <1>3, <2>1, <3>1 DEF SnapshotCurrent, StepInv, LockInv, TypeInv, TypeOK
    <3>2. CASE f = e
      BY <1>1, <1>3, <3>2 DEF StepInv, LockInv, TypeInv, TypeOK
    <3> QED
      BY <3>1, <3>2
  <2> QED
    BY <1>1, <2>1, <2>2 DEF AttemptsLeft, LedgerRight
<1>5. ASSUME NoOverrun', NoLostComplete' PROVE (StepsInOrder /\ NoneSkipped)'
  <2>1. StepsInOrder /\ NoneSkipped
    BY <1>2, <1>5 DEF StepInv, FaultsGrow
  <2>2. idx[e] = 1
    BY <1>1 DEF StepInv, LockInv, TypeInv, SlotShape
  <2>3. NoneSkipped'
    BY <1>1, <1>3, <2>1, <2>2 DEF NoneSkipped, Steps
  <2> QED
    BY <1>1, <2>1, <2>3 DEF StepsInOrder
<1> QED
  BY <1>4, <1>5 DEF StepInv

\* A step skipped because the snapshot has it completed is completed.
LEMMA StepSkipped ==
  ASSUME StepInv, LockInv', NEW e \in Slots, SkipCompleted(e)
  PROVE  StepInv'
<1> DEFINE j == sjob[e]
<1>1. /\ pc[e] = "loop" /\ j \in Jobs /\ idx[e] \in snapDone[e] /\ idx[e] \in Steps
      /\ idx' = [idx EXCEPT ![e] = @ + 1]
      /\ UNCHANGED <<jobStatus, stepStatus, attempts, openDL, pc, sjob, snapDone,
                     snapAttempts, faults>>
  BY DEF SkipCompleted, AlreadyDone, rowVars, stepVars, StepInv, LockInv, TypeInv, TypeOK,
     SlotShape
<1>2. FaultsGrow
  BY <1>1 DEF FaultsGrow, NoOverrun, NoLostComplete
<1>3. AtWork(e, j)
  BY <1>1, NumStepsAssumption DEF AtWork, Executing, Steps
<1>4. \A f \in Slots, k \in Jobs : AtWork(f, k)' => AtWork(f, k)
  BY <1>1, <1>3 DEF AtWork, Executing, StepInv, LockInv, TypeInv, TypeOK
<1>5. ASSUME NEW f \in Slots
      PROVE  idx'[f] = IF f = e THEN idx[e] + 1 ELSE idx[f]
  BY <1>1 DEF StepInv, LockInv, TypeInv, TypeOK
<1>6. \A f \in Slots : idx[f] \in Nat
  BY NumStepsAssumption DEF StepInv, LockInv, TypeInv, TypeOK
<1>7. ASSUME NoOverrun' PROVE (SnapshotCurrent /\ AttemptsLeft /\ LedgerRight)'
  <2>1. SnapshotCurrent /\ AttemptsLeft /\ LedgerRight
    BY <1>2, <1>7 DEF StepInv, FaultsGrow
  <2>2. SnapshotCurrent'
    <3> SUFFICES ASSUME NEW f \in Slots, NEW k \in Jobs, AtWork(f, k)',
                        NEW s \in Steps, s >= idx'[f]
                 PROVE  /\ stepStatus[k][s] = "completed" <=> s \in snapDone[f]
                        /\ attempts[k][s] = snapAttempts[f][s]
      BY <1>1 DEF SnapshotCurrent
    <3>1. s >= idx[f]
      BY <1>5, <1>6 DEF Steps
    <3> QED
      BY <1>4, <2>1, <3>1 DEF SnapshotCurrent
  <2> QED
    BY <1>1, <2>1, <2>2 DEF AttemptsLeft, LedgerRight
<1>8. ASSUME NoOverrun', NoLostComplete' PROVE (StepsInOrder /\ NoneSkipped)'
  <2>1. SnapshotCurrent /\ StepsInOrder /\ NoneSkipped
    BY <1>2, <1>8 DEF StepInv, FaultsGrow
  <2>2. stepStatus[j][idx[e]] = "completed"
    BY <1>1, <1>3, <1>6, <2>1 DEF SnapshotCurrent
  <2>3. NoneSkipped'
    <3> SUFFICES ASSUME NEW f \in Slots, NEW k \in Jobs, AtWork(f, k)',
                        NEW s \in Steps, s < idx'[f]
                 PROVE  stepStatus[k][s] = "completed"
      BY <1>1 DEF NoneSkipped
    <3>1. s < idx[f] \/ (f = e /\ s = idx[e])
      BY <1>5, <1>6 DEF Steps
    <3>2. f = e => k = j
      BY <1>4 DEF AtWork, Executing
    <3> QED
      BY <1>4, <2>1, <2>2, <3>1, <3>2 DEF NoneSkipped
  <2> QED
    BY <1>1, <2>1, <2>3 DEF StepsInOrder
<1> QED
  BY <1>7, <1>8 DEF StepInv

\* What an execution that has run a handler knows of its step and its job, as
\* long as no lock was overrun.
LEMMA StepAtHand ==
  ASSUME StepInv, NoOverrun, NEW e \in Slots, NEW j \in Jobs,
         AtWork(e, j), idx[e] \in Steps \ snapDone[e]
  PROVE  /\ jobStatus[j] = "running"
         /\ \A f \in Slots : Executing(f, j) => f = e
         /\ stepStatus[j][idx[e]] = "pending"
         /\ attempts[j][idx[e]] = snapAttempts[e][idx[e]]
         /\ attempts[j][idx[e]] < MaxAttempts
<1>1. Held /\ Alone /\ SnapshotCurrent /\ AttemptsLeft /\ LedgerRight
  BY DEF StepInv, LockInv
<1>2. jobStatus[j] = "running" /\ \A f \in Slots : Executing(f, j) => f = e
  BY <1>1 DEF AtWork, Held, Holds, Alone
<1>3. idx[e] >= idx[e]
  BY NumStepsAssumption DEF Steps
<1>4. /\ stepStatus[j][idx[e]] # "completed"
      /\ attempts[j][idx[e]] = snapAttempts[e][idx[e]]
  BY <1>1, <1>3 DEF SnapshotCurrent
<1>5. stepStatus[j][idx[e]] = "pending"
  <2>1. stepStatus[j][idx[e]] \in StepStatus
    BY DEF StepInv, LockInv, TypeInv, TypeOK
  <2>2. stepStatus[j][idx[e]] # "failed"
    BY <1>1, <1>2 DEF LedgerRight
  <2> QED
    BY <1>4, <2>1, <2>2 DEF StepStatus
<1> QED
  BY <1>1, <1>2, <1>4, <1>5 DEF AttemptsLeft

\* The step at hand completes, or the call is lost and only the execution knows.
LEMMA StepCompleted ==
  ASSUME StepInv, LockInv', NEW e \in Slots, NEW applied \in BOOLEAN,
         CompleteStep(e, applied)
  PROVE  StepInv'
<1> DEFINE j == sjob[e]
           s == idx[e]
<1>1. /\ pc[e] = "returned" /\ j \in Jobs /\ s \in Steps \ snapDone[e]
      /\ idx' = [idx EXCEPT ![e] = @ + 1]
      /\ pc' = [pc EXCEPT ![e] = "loop"]
      /\ UNCHANGED <<openDL, sjob, snapDone, snapAttempts>>
      /\ Reaches(applied, "lostComplete")
  BY DEF CompleteStep, Goto, StepInv, LockInv, TypeInv, TypeOK, SlotShape
<1>2. FaultsGrow
  BY <1>1, ReachesMonotone DEF Faults, StepInv, LockInv, TypeInv, TypeOK
<1>3. AtWork(e, j)
  BY <1>1 DEF AtWork, Executing
<1>4. \A f \in Slots, k \in Jobs :
        AtWork(f, k)' => AtWork(f, k) /\ (f = e => k = j)
  BY <1>1, <1>3 DEF AtWork, Executing, StepInv, LockInv, TypeInv, TypeOK
<1>5. ASSUME NEW f \in Slots
      PROVE  idx'[f] = IF f = e THEN s + 1 ELSE idx[f]
  BY <1>1 DEF StepInv, LockInv, TypeInv, TypeOK
<1>6. \A f \in Slots : idx[f] \in Nat
  BY NumStepsAssumption DEF StepInv, LockInv, TypeInv, TypeOK
<1>7. CASE ~applied
  <2>1. UNCHANGED <<stepStatus, attempts, jobStatus>>
    BY <1>7 DEF CompleteStep, stepVars
  <2>2. ~NoLostComplete'
    BY <1>1, <1>7
    DEF Reaches, Fault, NoLostComplete, Faults, StepInv, LockInv, TypeInv, TypeOK
  <2>3. ASSUME NoOverrun' PROVE (SnapshotCurrent /\ AttemptsLeft /\ LedgerRight)'
    <3>1. SnapshotCurrent /\ AttemptsLeft /\ LedgerRight
      BY <1>2, <2>3 DEF StepInv, FaultsGrow
    <3>2. ASSUME NEW f \in Slots, NEW t \in Steps, t >= idx'[f] PROVE t >= idx[f]
      BY <1>5, <1>6, <3>2 DEF Steps
    <3>3. SnapshotCurrent'
      BY <1>1, <1>4, <2>1, <3>1, <3>2 DEF SnapshotCurrent
    <3> QED
      BY <1>1, <2>1, <3>1, <3>3 DEF AttemptsLeft, LedgerRight
  <2> QED
    BY <2>2, <2>3 DEF StepInv
<1>8. CASE applied
  <2>1. /\ stepStatus' = [stepStatus EXCEPT ![j][s] = "completed"]
        /\ attempts' = [attempts EXCEPT ![j][s] = @ + 1]
    BY <1>8 DEF CompleteStep
  <2>2. IF LastStep(s) /\ jobStatus[j] = "running"
        THEN jobStatus' = [jobStatus EXCEPT ![j] = "completed"]
        ELSE jobStatus' = jobStatus
    BY <1>8 DEF CompleteStep, Unlock
  <2> HIDE DEF j, s
  <2>3. ASSUME NEW k \in Jobs, NEW t \in Steps
        PROVE  /\ stepStatus'[k][t] =
                    IF k = j /\ t = s THEN "completed" ELSE stepStatus[k][t]
               /\ attempts'[k][t] =
                    IF k = j /\ t = s THEN attempts[j][s] + 1 ELSE attempts[k][t]
    BY <1>1, <2>1 DEF StepInv, LockInv, TypeInv, TypeOK
  <2>4. ASSUME NoOverrun
        PROVE  /\ jobStatus[j] = "running" /\ \A f \in Slots : Executing(f, j) => f = e
               /\ stepStatus[j][s] = "pending" /\ attempts[j][s] < MaxAttempts
    BY <1>1, <1>3, <2>4, StepAtHand DEF j, s
  <2>5. ASSUME NEW f \in Slots, NEW k \in Jobs, AtWork(f, k)', NoOverrun
        PROVE  AtWork(f, k) /\ (k = j <=> f = e)
    BY <1>4, <2>4, <2>5 DEF AtWork, j
  <2>6. ASSUME NoOverrun' PROVE (SnapshotCurrent /\ AttemptsLeft /\ LedgerRight)'
    <3>1. NoOverrun /\ SnapshotCurrent /\ AttemptsLeft /\ LedgerRight
      BY <1>2, <2>6 DEF StepInv, FaultsGrow
    <3>2. SnapshotCurrent'
      <4> SUFFICES ASSUME NEW f \in Slots, NEW k \in Jobs, AtWork(f, k)',
                          NEW t \in Steps, t >= idx'[f]
                   PROVE  /\ stepStatus'[k][t] = "completed" <=> t \in snapDone[f]
                          /\ attempts'[k][t] = snapAttempts[f][t]
        BY <1>1 DEF SnapshotCurrent
      <4>1. t >= idx[f] /\ ~(k = j /\ t = s)
        BY <1>5, <1>6, <2>5, <3>1 DEF Steps, s
      <4> QED
        BY <2>3, <2>5, <3>1, <4>1 DEF SnapshotCurrent
    <3>3. AttemptsLeft'
      <4> SUFFICES ASSUME NEW k \in Jobs, NEW t \in Steps
                   PROVE  /\ attempts'[k][t] <= MaxAttempts
                          /\ stepStatus'[k][t] = "pending" => attempts'[k][t] < MaxAttempts
        BY DEF AttemptsLeft
      <4>1. attempts[j][s] \in Nat
        BY <1>1 DEF StepInv, LockInv, TypeInv, TypeOK, j, s
      <4> QED
        BY <2>3, <2>4, <3>1, <4>1, AttemptsAssumption DEF AttemptsLeft
    <3>4. LedgerRight'
      <4> SUFFICES ASSUME NEW k \in Jobs
                   PROVE  /\ openDL[k] = IF jobStatus'[k] = "dead_letter" THEN 1 ELSE 0
                          /\ jobStatus'[k] = "dead_letter" <=>
                               \E t \in Steps : stepStatus'[k][t] = "failed"
        BY <1>1 DEF LedgerRight
      <4>1. jobStatus'[k] = "dead_letter" <=> jobStatus[k] = "dead_letter"
        BY <2>2, <2>4, <3>1 DEF StepInv, LockInv, TypeInv, TypeOK
      <4>2. \A t \in Steps : stepStatus'[k][t] = "failed" <=> stepStatus[k][t] = "failed"
        BY <2>3, <2>4, <3>1
      <4> QED
        BY <3>1, <4>1, <4>2 DEF LedgerRight
    <3> QED
      BY <3>2, <3>3, <3>4
  <2>7. ASSUME NoOverrun', NoLostComplete' PROVE (StepsInOrder /\ NoneSkipped)'
    <3>1. NoOverrun /\ StepsInOrder /\ NoneSkipped
      BY <1>2, <2>7 DEF StepInv, FaultsGrow
    <3>2. \A t \in Steps : t < s => stepStatus[j][t] = "completed"
      BY <1>1, <1>3, <3>1 DEF NoneSkipped, j, s
    <3>3. s \in Steps /\ NumSteps \in Steps
      BY <1>1, NumStepsAssumption DEF Steps, s
    <3>4. StepsInOrder'
      <4> SUFFICES ASSUME NEW k \in Jobs
                   PROVE  /\ \A a, b \in Steps : a < b /\ stepStatus'[k][b] = "completed"
                               => stepStatus'[k][a] = "completed"
                          /\ jobStatus'[k] = "completed" <=>
                               stepStatus'[k][NumSteps] = "completed"
        BY DEF StepsInOrder
      <4>1. ASSUME NEW a \in Steps, NEW b \in Steps, a < b, stepStatus'[k][b] = "completed"
            PROVE  stepStatus'[k][a] = "completed"
        BY <2>3, <3>1, <3>2, <4>1 DEF StepsInOrder
      <4>2. LastStep(s) <=> s = NumSteps
        BY <3>3, NumStepsAssumption DEF LastStep, Steps
      <4>3. CASE k = j
        <5>1. jobStatus[j] = "running" /\ stepStatus[j][NumSteps] # "completed"
          BY <1>1, <2>4, <3>1 DEF StepsInOrder, j
        <5>2. stepStatus'[j][NumSteps] = "completed" <=> s = NumSteps
          BY <1>1, <2>3, <3>3, <5>1 DEF j
        <5>3. jobStatus'[j] = "completed" <=> s = NumSteps
          <6>1. j \in Jobs /\ jobStatus \in [Jobs -> JobStatus]
            BY <1>1 DEF StepInv, LockInv, TypeInv, TypeOK, j
          <6>2. CASE s = NumSteps
            BY <2>2, <4>2, <5>1, <6>1, <6>2
          <6>3. CASE s # NumSteps
            BY <2>2, <4>2, <5>1, <6>1, <6>3
          <6> QED
            BY <6>2, <6>3
        <5> QED
          BY <4>1, <4>3, <5>2, <5>3
      <4>4. CASE k # j
        BY <2>2, <2>3, <3>1, <3>3, <4>4 DEF StepsInOrder, StepInv, LockInv, TypeInv, TypeOK
      <4> QED
        BY <4>1, <4>3, <4>4
    <3>5. NoneSkipped'
      <4> SUFFICES ASSUME NEW f \in Slots, NEW k \in Jobs, AtWork(f, k)',
                          NEW t \in Steps, t < idx'[f]
                   PROVE  stepStatus'[k][t] = "completed"
        BY DEF NoneSkipped
      <4>1. t < idx[f] \/ (f = e /\ t = s)
        BY <1>5, <1>6 DEF Steps, s
      <4> QED
        BY <2>3, <2>5, <3>1, <4>1 DEF NoneSkipped
    <3> QED
      BY <3>4, <3>5
  <2> QED
    BY <2>6, <2>7 DEF StepInv
<1> QED
  BY <1>7, <1>8

\* The step at hand fails: it keeps an attempt for the retry, or its job dies.
LEMMA StepFailed ==
  ASSUME StepInv, LockInv', NEW e \in Slots, NEW retryAt \in BOOLEAN,
         NEW applied \in BOOLEAN, EndWithFailure(e, retryAt, applied),
         AtWork(e, sjob[e]), sjob[e] \in Jobs, idx[e] \in Steps \ snapDone[e],
         retryAt => snapAttempts[e][idx[e]] + 1 < MaxAttempts
  PROVE  StepInv'
<1>1. FaultsGrow
  BY ReachesMonotone DEF EndWithFailure, Faults, StepInv, LockInv, TypeInv, TypeOK
<1>2. SlotsBecomeIdle({e})
  BY DEF EndWithFailure
<1>3. CASE ~applied
  BY <1>1, <1>2, <1>3, EndFrame, FrameKeepsSteps DEF EndWithFailure, rowVars, stepVars
<1>4. CASE applied
  <2> DEFINE j == sjob[e]
             s == idx[e]
  <2>1. /\ j \in Jobs /\ s \in Steps
        /\ attempts' = [attempts EXCEPT ![j][s] = @ + 1]
        /\ stepStatus' = [stepStatus EXCEPT ![j][s] = IF retryAt THEN "pending" ELSE "failed"]
        /\ jobStatus' = [jobStatus EXCEPT ![j] =
                           IF retryAt THEN "retrying" ELSE "dead_letter"]
        /\ openDL' = [openDL EXCEPT ![j] = IF retryAt THEN @ ELSE @ + 1]
    BY <1>4 DEF EndWithFailure, FailStepSQL, Unlock, StepInv, LockInv, TypeInv, TypeOK
  <2>2. ASSUME NoOverrun
        PROVE  /\ jobStatus[j] = "running" /\ \A f \in Slots : Executing(f, j) => f = e
               /\ stepStatus[j][s] = "pending" /\ attempts[j][s] < MaxAttempts
               /\ attempts[j][s] = snapAttempts[e][s]
    BY <2>2, StepAtHand
  <2>3. ASSUME NoOverrun, NEW f \in Slots, NEW k \in Jobs, AtWork(f, k)'
        PROVE  /\ AtWork(f, k) /\ k # j
               /\ idx'[f] = idx[f] /\ snapDone'[f] = snapDone[f]
               /\ snapAttempts'[f] = snapAttempts[f]
    BY <1>2, <2>2, <2>3
    DEF SlotsBecomeIdle, AtWork, Executing, StepInv, LockInv, TypeInv, TypeOK
  <2>4. retryAt => snapAttempts[e][s] + 1 < MaxAttempts
    OBVIOUS
  <2> HIDE DEF j, s
  <2>5. ASSUME NEW k \in Jobs, NEW t \in Steps
        PROVE  /\ stepStatus'[k][t] = IF k = j /\ t = s
                                      THEN IF retryAt THEN "pending" ELSE "failed"
                                      ELSE stepStatus[k][t]
               /\ attempts'[k][t] =
                    IF k = j /\ t = s THEN attempts[j][s] + 1 ELSE attempts[k][t]
    BY <2>1 DEF StepInv, LockInv, TypeInv, TypeOK
  <2>6. ASSUME NEW k \in Jobs
        PROVE  /\ jobStatus'[k] = IF k = j THEN IF retryAt THEN "retrying" ELSE "dead_letter"
                                  ELSE jobStatus[k]
               /\ openDL'[k] = IF k = j /\ ~retryAt THEN openDL[j] + 1 ELSE openDL[k]
    BY <2>1 DEF StepInv, LockInv, TypeInv, TypeOK
  <2>7. ASSUME NoOverrun' PROVE (SnapshotCurrent /\ AttemptsLeft /\ LedgerRight)'
    <3>1. NoOverrun /\ SnapshotCurrent /\ AttemptsLeft /\ LedgerRight
      BY <1>1, <2>7 DEF StepInv, FaultsGrow
    <3>2. SnapshotCurrent'
      BY <2>3, <2>5, <3>1 DEF SnapshotCurrent
    <3>3. AttemptsLeft'
      <4> SUFFICES ASSUME NEW k \in Jobs, NEW t \in Steps
                   PROVE  /\ attempts'[k][t] <= MaxAttempts
                          /\ stepStatus'[k][t] = "pending" => attempts'[k][t] < MaxAttempts
        BY DEF AttemptsLeft
      <4>1. attempts[j][s] \in Nat
        BY <2>1 DEF StepInv, LockInv, TypeInv, TypeOK
      <4>2. CASE k = j /\ t = s
        BY <2>2, <2>4, <2>5, <3>1, <4>1, <4>2, AttemptsAssumption
      <4>3. CASE ~(k = j /\ t = s)
        BY <2>5, <3>1, <4>3 DEF AttemptsLeft
      <4> QED
        BY <4>2, <4>3
    <3>4. LedgerRight'
      <4> SUFFICES ASSUME NEW k \in Jobs
                   PROVE  /\ openDL'[k] = IF jobStatus'[k] = "dead_letter" THEN 1 ELSE 0
                          /\ jobStatus'[k] = "dead_letter" <=>
                               \E t \in Steps : stepStatus'[k][t] = "failed"
        BY DEF LedgerRight
      <4>1. CASE k # j
        BY <2>5, <2>6, <3>1, <4>1 DEF LedgerRight
      <4>2. CASE k = j
        <5>1. openDL[j] = 0 /\ \A t \in Steps : stepStatus[j][t] # "failed"
          BY <2>1, <2>2, <3>1 DEF LedgerRight
        <5>2. stepStatus'[j][s] = IF retryAt THEN "pending" ELSE "failed"
          BY <2>1, <2>5
        <5>3. \A t \in Steps \ {s} : stepStatus'[j][t] # "failed"
          BY <2>1, <2>5, <5>1
        <5> QED
          BY <2>1, <2>6, <4>2, <5>1, <5>2, <5>3
      <4> QED
        BY <4>1, <4>2
    <3> QED
      BY <3>2, <3>3, <3>4
  <2>8. ASSUME NoOverrun', NoLostComplete' PROVE (StepsInOrder /\ NoneSkipped)'
    <3>1. NoOverrun /\ StepsInOrder /\ NoneSkipped
      BY <1>1, <2>8 DEF StepInv, FaultsGrow
    <3>2. \A k \in Jobs, t \in Steps :
            stepStatus'[k][t] = "completed" <=> stepStatus[k][t] = "completed"
      BY <2>2, <2>5, <3>1
    <3>3. \A k \in Jobs : jobStatus'[k] = "completed" <=> jobStatus[k] = "completed"
      BY <2>2, <2>6, <3>1
    <3>4. NumSteps \in Steps
      BY NumStepsAssumption DEF Steps
    <3>5. StepsInOrder'
      BY <3>1, <3>2, <3>3, <3>4 DEF StepsInOrder
    <3>6. NoneSkipped'
      BY <2>3, <3>1, <3>2 DEF NoneSkipped
    <3> QED
      BY <3>5, <3>6
  <2> QED
    BY <2>7, <2>8 DEF StepInv
<1> QED
  BY <1>3, <1>4

\* An execution that puts its job back, or leaves it, without touching a step.
LEMMA StepEnded ==
  ASSUME StepInv, LockInv', FaultsGrow, NEW e \in Slots, SlotsBecomeIdle({e}),
         UNCHANGED <<stepStatus, attempts, openDL>>,
         NEW j \in Jobs, Executing(e, j) \/ UNCHANGED jobStatus,
         NEW st \in {"pending", "retrying", jobStatus[j]},
         jobStatus' = [jobStatus EXCEPT ![j] = st] \/ UNCHANGED jobStatus
  PROVE  StepInv'
<1>1. ASSUME NoOverrun' PROVE StepFrame
  <2>1. jobStatus[j] = "running" \/ UNCHANGED jobStatus
    BY <1>1 DEF FaultsGrow, StepInv, LockInv, Held, Holds
  <2>2. \A k \in Jobs : \A other \in {"completed", "dead_letter"} :
           jobStatus'[k] = other <=> jobStatus[k] = other
    BY <2>1 DEF StepInv, LockInv, TypeInv, TypeOK
  <2> QED
    BY <2>2, EndFrame
<1> QED
  BY <1>1, FrameKeepsSteps

\* An execution that goes on without touching rows or what it remembers of them.
LEMMA StepGoesOn ==
  ASSUME StepInv, LockInv', FaultsGrow,
         UNCHANGED <<stepStatus, attempts, openDL, jobStatus, idx, snapDone, snapAttempts>>,
         \A f \in Slots, j \in Jobs : AtWork(f, j)' => AtWork(f, j)
  PROVE  StepInv'
BY FrameKeepsSteps DEF StepFrame

LEMMA StepSlot ==
  ASSUME StepInv, LockInv', NEW e \in Slots, SlotStep(e)
  PROVE  StepInv'
<1> USE DEF rowVars, stepVars, slotVars, opVars, Goto
<1>0. faults \in [Faults -> Nat] /\ (pc[e] # "idle" => sjob[e] \in Jobs)
  BY DEF StepInv, LockInv, TypeInv, TypeOK, SlotShape
<1>1. ASSUME NEW applied \in BOOLEAN, BreakerBlocks(e, applied) PROVE StepInv'
  <2>1. FaultsGrow
    BY <1>0, <1>1, ReachesMonotone DEF BreakerBlocks, Faults
  <2>2. Executing(e, sjob[e]) /\ sjob[e] \in Jobs
    BY <1>0, <1>1 DEF BreakerBlocks, Executing
  <2> QED
    BY <1>1, <2>1, <2>2, StepEnded DEF BreakerBlocks, Unlock
<1>2. ASSUME NEW applied \in BOOLEAN, ReadStepsFails(e, applied) PROVE StepInv'
  <2>1. FaultsGrow
    BY <1>0, <1>2, FaultMonotone DEF ReadStepsFails, Faults
  <2>2. Executing(e, sjob[e]) /\ sjob[e] \in Jobs
    BY <1>0, <1>2 DEF ReadStepsFails, Executing
  <2> QED
    BY <1>2, <2>1, <2>2, StepEnded DEF ReadStepsFails, Unlock
<1>3. ASSUME NEW fetched \in BOOLEAN, StartStep(e, fetched) PROVE StepInv'
  <2>1. FaultsGrow
    BY <1>0, <1>3, ReachesMonotone DEF StartStep, Faults
  <2>2. idx[e] \in Steps
    BY <1>3, RegisteredAssumption, WorkerOfAssumption DEF StartStep
  <2>3. \A f \in Slots, j \in Jobs : AtWork(f, j)' => AtWork(f, j)
    BY <1>3, <2>2, NumStepsAssumption
    DEF StartStep, AtWork, Executing, Steps, StepInv, LockInv, TypeInv, TypeOK
  <2> QED
    BY <1>3, <2>1, <2>3, StepGoesOn DEF StartStep
<1>4. CASE HandlerReturns(e) \/ HandlerThrows(e)
  <2>1. FaultsGrow
    BY <1>4 DEF HandlerReturns, HandlerThrows, FaultsGrow, NoOverrun, NoLostComplete
  <2>2. \A f \in Slots, j \in Jobs : AtWork(f, j)' => AtWork(f, j)
    BY <1>4
    DEF HandlerReturns, HandlerThrows, AtWork, Executing, StepInv, LockInv, TypeInv, TypeOK
  <2> QED
    BY <1>4, <2>1, <2>2, StepGoesOn DEF HandlerReturns, HandlerThrows
<1>5. ASSUME NEW applied \in BOOLEAN, MissingHandler(e, applied) PROVE StepInv'
  <2>1. AtWork(e, sjob[e]) /\ sjob[e] \in Jobs /\ idx[e] \in Steps \ snapDone[e]
    BY <1>0, <1>5, NumStepsAssumption DEF MissingHandler, AtWork, Executing, Steps
  <2> QED
    BY <1>5, <2>1, StepFailed DEF MissingHandler
<1>6. ASSUME NEW retryable \in BOOLEAN, NEW hinted \in BOOLEAN, NEW applied \in BOOLEAN,
             FailStep(e, retryable, hinted, applied)
      PROVE  StepInv'
  <2>1. AtWork(e, sjob[e]) /\ sjob[e] \in Jobs /\ idx[e] \in Steps \ snapDone[e]
    BY <1>0, <1>6 DEF FailStep, AtWork, Executing, StepInv, LockInv, TypeInv, SlotShape
  <2>2. PICK retryAt \in BOOLEAN :
          /\ EndWithFailure(e, retryAt, applied)
          /\ retryAt => MayRetry(snapAttempts[e][idx[e]] + 1)
    BY <1>6 DEF FailStep
  <2> QED
    BY <2>1, <2>2, StepFailed DEF MayRetry
<1>7. CASE Finish(e)
  <2>1. FaultsGrow
    BY <1>7 DEF Finish, FaultsGrow, NoOverrun, NoLostComplete
  <2> QED
    BY <1>0, <1>7, <2>1, StepEnded DEF Finish
<1> QED
  BY <1>1, <1>2, <1>3, <1>4, <1>5, <1>6, <1>7, StepsRead, StepSkipped, StepCompleted
  DEF SlotStep

\* A marker, a heartbeat, a crash or a claim leaves the steps alone.
LEMMA StepWorker ==
  ASSUME StepInv, LockInv', WorkerStep
  PROVE  StepInv'
<1> USE DEF rowVars, stepVars, slotVars, opVars, Goto
<1>0. faults \in [Faults -> Nat]
  BY DEF StepInv, LockInv, TypeInv, TypeOK
<1>1. ASSUME NEW e \in Slots, NEW j \in Jobs, NEW delivered \in BOOLEAN,
             Claim(e, j, delivered)
      PROVE  StepInv'
  <2>1. FaultsGrow
    BY <1>0, <1>1, ReachesMonotone DEF Claim, Faults
  <2>2. \A f \in Slots, k \in Jobs : AtWork(f, k)' => AtWork(f, k)
    <3>1. \/ pc' = [pc EXCEPT ![e] = "claimed"] /\ sjob' = [sjob EXCEPT ![e] = j]
          \/ UNCHANGED <<pc, sjob>>
      BY <1>1 DEF Claim
    <3> QED
      BY <1>1, <3>1 DEF Claim, AtWork, Executing, StepInv, LockInv, TypeInv, TypeOK
  <2>3. \A k \in Jobs : \A st \in {"completed", "dead_letter"} :
           jobStatus'[k] = st <=> jobStatus[k] = st
    BY <1>1 DEF Claim, StepInv, LockInv, TypeInv, TypeOK
  <2>4. StepFrame
    BY <1>1, <2>2, <2>3 DEF Claim, StepFrame
  <2> QED
    BY <2>1, <2>4, FrameKeepsSteps
<1>2. ASSUME NEW e \in Slots, SaveMarker(e) \/ Heartbeat(e) PROVE StepInv'
  <2>1. /\ UNCHANGED <<stepStatus, attempts, openDL, jobStatus, idx, snapDone, snapAttempts>>
        /\ UNCHANGED <<pc, sjob, faults>>
    BY <1>2 DEF SaveMarker, Heartbeat
  <2>2. FaultsGrow /\ \A f \in Slots, j \in Jobs : AtWork(f, j)' => AtWork(f, j)
    BY <2>1 DEF FaultsGrow, NoOverrun, NoLostComplete, AtWork, Executing
  <2> QED
    BY <2>1, <2>2, StepGoesOn
<1>3. ASSUME NEW w \in Workers, Crash(w) PROVE StepInv'
  <2>1. FaultsGrow
    BY <1>0, <1>3, FaultMonotone DEF Crash, Faults
  <2>2. PICK E : SlotsBecomeIdle(E)
    BY <1>3 DEF Crash
  <2>3. StepFrame
    BY <1>3, <2>2, EndFrame DEF Crash
  <2> QED
    BY <2>1, <2>3, FrameKeepsSteps
<1> QED
  BY <1>1, <1>2, <1>3, StepSlot DEF WorkerStep

\* A requeue that resets only the unfinished steps is not one of a completed job.
FullRight ==
  \A o \in Operators :
    opJob[o] # None /\ jobStatus[opJob[o]] = "completed" => opFull[o]

JobInv == StepInv /\ (NoOverrun => FullRight)

LEMMA FullNext ==
  ASSUME SingleOperator, LockInv, LockInv', NoOverrun => FullRight, [Next]_vars
  PROVE  NoOverrun' => FullRight'
<1> SUFFICES ASSUME NoOverrun' PROVE FullRight'
  OBVIOUS
<1>1. ASSUME Quiet, UNCHANGED opFull PROVE FullRight'
  <2>1. OperatorsWait /\ FullRight /\ opJob' = opJob
        /\ \A j \in Jobs : Terminal(j) => jobStatus'[j] = jobStatus[j]
    BY <1>1 DEF Quiet, LockInv
  <2> QED
    BY <1>1, <2>1 DEF FullRight, OperatorsWait, LockInv, TypeInv, TypeOK
<1>2. CASE DatabaseStep
  BY <1>1, <1>2, QuietDatabase
  DEF DatabaseStep, Enqueue, BecomeDue, LockExpires, LockOverrun, RecoverStuckJobs, opVars
<1>3. CASE WorkerStep
  <2>1. ASSUME NEW e \in Slots, NEW j \in Jobs, NEW delivered \in BOOLEAN,
               Claim(e, j, delivered)
        PROVE  FullRight'
    <3>1. FullRight /\ UNCHANGED <<opJob, opFull>>
          /\ jobStatus' = [jobStatus EXCEPT ![j] = "running"]
      BY <2>1, ReachesGrows DEF Claim, Faults, opVars, LockInv, TypeInv, TypeOK
    <3> QED
      BY <3>1 DEF FullRight, LockInv, TypeInv, TypeOK
  <2>2. ASSUME NEW e \in Slots, SlotStep(e) PROVE UNCHANGED opFull
    BY <2>2
    DEF SlotStep, BreakerBlocks, ReadSteps, ReadStepsFails, SkipCompleted, StartStep,
        HandlerReturns, HandlerThrows, CompleteStep, MissingHandler, FailStep,
        EndWithFailure, Finish, opVars
  <2> QED
    BY <1>1, <1>3, <2>1, <2>2, QuietSlot, QuietMarker, QuietHeartbeat, QuietCrash
    DEF WorkerStep, SaveMarker, Heartbeat, Crash, opVars
<1>4. CASE OperatorStep
  <2>1. NoOverrun /\ FullRight
    BY <1>4
    DEF OperatorStep, RetryDeadLetterCheck, RequeueCheck, Requeue, NoOverrun
  <2>2. ASSUME NEW o \in Operators, NEW j \in Jobs, NEW full \in BOOLEAN,
               jobStatus[j] = "completed" => full, UNCHANGED jobStatus,
               opJob' = [opJob EXCEPT ![o] = j], opFull' = [opFull EXCEPT ![o] = full]
        PROVE  FullRight'
    BY <2>1, <2>2 DEF FullRight, LockInv, TypeInv, TypeOK
  <2>3. ASSUME NEW o \in Operators, Requeue(o) PROVE FullRight'
    <3>1. opJob' = [opJob EXCEPT ![o] = None]
      BY <2>3 DEF Requeue
    <3> QED
      BY <3>1 DEF SingleOperator, FullRight, LockInv, TypeInv, TypeOK
  <2>4. ASSUME NEW o \in Operators, NEW j \in Jobs, RetryDeadLetterCheck(o, j)
        PROVE  FullRight'
    BY <2>2, <2>4 DEF RetryDeadLetterCheck, rowVars
  <2>5. ASSUME NEW o \in Operators, NEW j \in Jobs, NEW override \in BOOLEAN,
               RequeueCheck(o, j, override)
        PROVE  FullRight'
    <3>1. (override \/ jobStatus[j] = "completed") \in BOOLEAN
      OBVIOUS
    <3> QED
      BY <2>2, <2>5, <3>1 DEF RequeueCheck, rowVars
  <2> QED
    BY <1>4, <2>3, <2>4, <2>5 DEF OperatorStep
<1>5. CASE UNCHANGED vars
  BY <1>1, <1>5, QuietStutter DEF vars, opVars
<1> QED
  BY <1>2, <1>3, <1>4, <1>5 DEF Next

\* A requeue resets the failed steps, and all of them if the job was completed.
LEMMA StepRequeue ==
  ASSUME JobInv, LockInv', NEW o \in Operators, Requeue(o)
  PROVE  StepInv'
<1> DEFINE j == opJob[o]
           reset == ToReset(j, opFull[o])
<1>1. /\ j \in Jobs
      /\ stepStatus' = [stepStatus EXCEPT ![j] =
                          [s \in Steps |-> IF s \in reset THEN "pending" ELSE @[s]]]
      /\ attempts' = [attempts EXCEPT ![j] =
                        [s \in Steps |-> IF s \in reset THEN 0 ELSE @[s]]]
      /\ jobStatus' = [jobStatus EXCEPT ![j] = "pending"]
      /\ openDL' = [openDL EXCEPT ![j] = 0]
      /\ UNCHANGED <<pc, sjob, idx, snapDone, snapAttempts, faults>>
  BY DEF Requeue, Unlock, slotVars, JobInv, StepInv, LockInv, TypeInv, TypeOK
<1>2. reset = {s \in Steps : opFull[o] \/ stepStatus[j][s] # "completed"}
  BY DEF ToReset
<1>3. FaultsGrow
  BY <1>1 DEF FaultsGrow, NoOverrun, NoLostComplete
<1>4. ASSUME NoOverrun
      PROVE  /\ \A f \in Slots : ~Executing(f, j)
             /\ jobStatus[j] \in {"completed", "dead_letter"}
             /\ jobStatus[j] = "completed" => opFull[o]
  <2>1. Held /\ OperatorsWait /\ FullRight /\ j # None
    BY <1>1, <1>4, NoneAssumption DEF JobInv, StepInv, LockInv
  <2>2. jobStatus[j] \in {"completed", "dead_letter"}
    BY <2>1 DEF OperatorsWait, Terminal
  <2>3. \A f \in Slots : ~Executing(f, j)
    BY <1>1, <2>1, <2>2 DEF Held, Holds
  <2>4. jobStatus[j] = "completed" => opFull[o]
    BY <2>1 DEF FullRight
  <2> QED
    BY <2>2, <2>3, <2>4
<1> HIDE DEF j, reset
<1>5. ASSUME NEW k \in Jobs, NEW t \in Steps
      PROVE  /\ stepStatus'[k][t] =
                  IF k = j /\ t \in reset THEN "pending" ELSE stepStatus[k][t]
             /\ attempts'[k][t] = IF k = j /\ t \in reset THEN 0 ELSE attempts[k][t]
  <2>1. CASE k = j
    BY <1>1, <2>1 DEF JobInv, StepInv, LockInv, TypeInv, TypeOK
  <2>2. CASE k # j
    BY <1>1, <2>2 DEF JobInv, StepInv, LockInv, TypeInv, TypeOK
  <2> QED
    BY <2>1, <2>2
<1>6. ASSUME NEW k \in Jobs
      PROVE  /\ jobStatus'[k] = IF k = j THEN "pending" ELSE jobStatus[k]
             /\ openDL'[k] = IF k = j THEN 0 ELSE openDL[k]
  BY <1>1 DEF JobInv, StepInv, LockInv, TypeInv, TypeOK
<1>7. ASSUME NoOverrun, NEW f \in Slots, NEW k \in Jobs, AtWork(f, k)'
      PROVE  AtWork(f, k) /\ k # j
  BY <1>1, <1>4, <1>7 DEF AtWork, Executing
<1>8. ASSUME NoOverrun' PROVE (SnapshotCurrent /\ AttemptsLeft /\ LedgerRight)'
  <2>1. NoOverrun /\ SnapshotCurrent /\ AttemptsLeft /\ LedgerRight
    BY <1>3, <1>8 DEF JobInv, StepInv, FaultsGrow
  <2>2. SnapshotCurrent'
    BY <1>1, <1>5, <1>7, <2>1 DEF SnapshotCurrent
  <2>3. AttemptsLeft'
    BY <1>5, <2>1, AttemptsAssumption DEF AttemptsLeft
  <2>4. LedgerRight'
    <3> SUFFICES ASSUME NEW k \in Jobs
                 PROVE  /\ openDL'[k] = IF jobStatus'[k] = "dead_letter" THEN 1 ELSE 0
                        /\ jobStatus'[k] = "dead_letter" <=>
                             \E t \in Steps : stepStatus'[k][t] = "failed"
      BY DEF LedgerRight
    <3>1. CASE k = j
      <4>1. \A t \in Steps : stepStatus'[j][t] # "failed"
        BY <1>1, <1>2, <1>5
      <4> QED
        BY <1>6, <3>1, <4>1
    <3>2. CASE k # j
      BY <1>5, <1>6, <2>1, <3>2 DEF LedgerRight
    <3> QED
      BY <3>1, <3>2
  <2> QED
    BY <2>2, <2>3, <2>4
<1>9. ASSUME NoOverrun', NoLostComplete' PROVE (StepsInOrder /\ NoneSkipped)'
  <2>1. NoOverrun /\ StepsInOrder /\ NoneSkipped
    BY <1>3, <1>9 DEF JobInv, StepInv, FaultsGrow
  <2>2. NumSteps \in Steps
    BY NumStepsAssumption DEF Steps
  <2>3. StepsInOrder'
    <3> SUFFICES ASSUME NEW k \in Jobs
                 PROVE  /\ \A a, b \in Steps : a < b /\ stepStatus'[k][b] = "completed"
                             => stepStatus'[k][a] = "completed"
                        /\ jobStatus'[k] = "completed" <=>
                             stepStatus'[k][NumSteps] = "completed"
      BY DEF StepsInOrder
    <3>1. CASE k = j
      <4>1. CASE opFull[o]
        <5>1. \A t \in Steps : stepStatus'[j][t] = "pending"
          BY <1>1, <1>2, <1>5, <4>1
        <5> QED
          BY <1>6, <2>2, <3>1, <5>1
      <4>2. CASE ~opFull[o]
        <5>1. \A t \in Steps :
                stepStatus'[j][t] = "completed" <=> stepStatus[j][t] = "completed"
          BY <1>1, <1>2, <1>5, <4>2
        <5>2. jobStatus[j] # "completed" /\ jobStatus'[j] # "completed"
          BY <1>1, <1>4, <1>6, <2>1, <4>2
        <5> QED
          BY <1>1, <2>1, <2>2, <3>1, <5>1, <5>2 DEF StepsInOrder
      <4> QED
        BY <4>1, <4>2
    <3>2. CASE k # j
      BY <1>5, <1>6, <2>1, <2>2, <3>2 DEF StepsInOrder
    <3> QED
      BY <3>1, <3>2
  <2>4. NoneSkipped'
    BY <1>1, <1>5, <1>7, <2>1 DEF NoneSkipped
  <2> QED
    BY <2>3, <2>4
<1> QED
  BY <1>8, <1>9 DEF StepInv

LEMMA StepOperator ==
  ASSUME JobInv, LockInv', OperatorStep
  PROVE  StepInv'
<1>1. ASSUME UNCHANGED <<rowVars, stepVars, openDL, slotVars, faults>> PROVE StepInv'
  <2>1. FaultsGrow
    BY <1>1 DEF FaultsGrow, NoOverrun, NoLostComplete
  <2>2. \A f \in Slots, j \in Jobs : AtWork(f, j)' => AtWork(f, j)
    BY <1>1 DEF slotVars, AtWork, Executing
  <2> QED
    BY <1>1, <2>1, <2>2, StepGoesOn DEF JobInv, rowVars, stepVars, slotVars
<1> QED
  BY <1>1, StepRequeue DEF OperatorStep, RetryDeadLetterCheck, RequeueCheck

LEMMA JobInit == Init => JobInv
<1> SUFFICES ASSUME Init PROVE JobInv
  OBVIOUS
<1>1. LockInv
  BY LockInit
<1>2. \A e \in Slots, j \in Jobs : ~AtWork(e, j)
  BY DEF Init, AtWork, Executing
<1>3. NumSteps \in Steps
  BY NumStepsAssumption DEF Steps
<1>4. SnapshotCurrent /\ NoneSkipped
  BY <1>2 DEF SnapshotCurrent, NoneSkipped
<1>5. AttemptsLeft /\ LedgerRight
  BY AttemptsAssumption DEF Init, AttemptsLeft, LedgerRight
<1>6. StepsInOrder /\ FullRight
  BY <1>3 DEF Init, StepsInOrder, FullRight
<1> QED
  BY <1>1, <1>4, <1>5, <1>6 DEF JobInv, StepInv

LEMMA JobNext ==
  ASSUME SingleOperator, JobInv, [Next]_vars
  PROVE  JobInv'
<1>1. LockInv'
  BY LockNext DEF JobInv, StepInv
<1>2. NoOverrun' => FullRight'
  BY <1>1, FullNext DEF JobInv, StepInv
<1>3. CASE UNCHANGED vars
  <2>1. \A f \in Slots, j \in Jobs : AtWork(f, j)' => AtWork(f, j)
    BY <1>3 DEF vars, slotVars, AtWork, Executing
  <2> QED
    BY <1>1, <1>2, <1>3, <2>1, StepGoesOn
    DEF JobInv, vars, rowVars, stepVars, slotVars, FaultsGrow, NoOverrun, NoLostComplete
<1> QED
  BY <1>1, <1>2, <1>3, FrameDatabase, StepOperator, StepWorker DEF JobInv, Next

LEMMA JobAlways ==
  ASSUME SingleOperator
  PROVE  Spec => []JobInv
BY JobInit, JobNext, PTL DEF Spec

\* No step is attempted more than max_attempts times between two resets, in any
\* deployment and under any faults but a lock overrun.
THEOREM AttemptLimit ==
  ASSUME SingleOperator
  PROVE  Spec => []AttemptsBounded
<1>1. JobInv => AttemptsBounded
  BY DEF JobInv, StepInv, AttemptsLeft, AttemptsBounded
<1> QED
  BY <1>1, JobAlways, PTL

\* A job is in the dead-letter queue exactly when it has one open entry there and
\* exactly when one of its steps has failed for good.
THEOREM LedgerAgrees ==
  ASSUME SingleOperator
  PROVE  Spec => []DeadLetterLedger
<1>1. JobInv => DeadLetterLedger
  BY DEF JobInv, StepInv, LedgerRight, DeadLetterLedger
<1> QED
  BY <1>1, JobAlways, PTL

\* A completed job has every step completed, unless a lock was overrun or a
\* complete_step was lost.
THEOREM WholeCompletion ==
  ASSUME SingleOperator
  PROVE  Spec => []CompletedMeansEveryStep
<1>1. JobInv => CompletedMeansEveryStep
  <2> SUFFICES ASSUME JobInv, NoOverrun, NoLostComplete, NEW j \in Jobs,
                      jobStatus[j] = "completed", NEW s \in Steps
               PROVE  stepStatus[j][s] = "completed"
    BY DEF CompletedMeansEveryStep, NoLostComplete
  <2>1. StepsInOrder /\ NumSteps \in Steps
    BY NumStepsAssumption DEF JobInv, StepInv, Steps
  <2>2. s = NumSteps \/ s < NumSteps
    BY NumStepsAssumption DEF Steps
  <2> QED
    BY <2>1, <2>2 DEF StepsInOrder
<1> QED
  BY <1>1, JobAlways, PTL

----------------------------------------------------------------------------
(* The engine implements its contract. *)

\* Every fault is drawn on its budget.
WithinBudget == \A kind \in Faults : faults[kind] <= MaxFaults[kind]

LEMMA FaultsStep ==
  ASSUME [Next]_vars
  PROVE  UNCHANGED faults \/ \E kind \in Faults : Fault(kind)
<1> DEFINE Goal == UNCHANGED faults \/ \E kind \in Faults : Fault(kind)
<1>1. {"overrun", "crash", "lostComplete", "lostCall", "blindRead"} \subseteq Faults
  BY DEF Faults
<1>2. ASSUME NEW applied, NEW kind \in Faults, Reaches(applied, kind) PROVE Goal
  BY <1>2 DEF Reaches
<1>3. ASSUME NEW e \in Slots, SlotStep(e) PROVE Goal
  BY <1>1, <1>2, <1>3
  DEF SlotStep, BreakerBlocks, ReadSteps, ReadStepsFails, SkipCompleted, StartStep,
      HandlerReturns, HandlerThrows, CompleteStep, MissingHandler, FailStep,
      EndWithFailure, Finish
<1>4. CASE WorkerStep
  BY <1>1, <1>2, <1>3, <1>4 DEF WorkerStep, Claim, SaveMarker, Heartbeat, Crash
<1>5. CASE OperatorStep
  BY <1>5 DEF OperatorStep, RetryDeadLetterCheck, RequeueCheck, Requeue
<1>6. CASE DatabaseStep
  BY <1>1, <1>6
  DEF DatabaseStep, Enqueue, BecomeDue, LockExpires, LockOverrun, RecoverStuckJobs
<1>7. CASE UNCHANGED vars
  BY <1>7 DEF vars
<1> QED
  BY <1>4, <1>5, <1>6, <1>7 DEF Next

LEMMA BudgetAlways == Spec => []WithinBudget
<1>1. Init => WithinBudget
  BY BoundsAssumption DEF Init, WithinBudget
<1>2. TypeInv /\ WithinBudget /\ [Next]_vars => WithinBudget'
  <2> SUFFICES ASSUME TypeInv, WithinBudget, [Next]_vars PROVE WithinBudget'
    OBVIOUS
  <2>1. ASSUME NEW kind \in Faults, Fault(kind) PROVE WithinBudget'
    <3> SUFFICES ASSUME NEW k \in Faults PROVE faults'[k] <= MaxFaults[k]
      BY DEF WithinBudget
    <3>1. /\ faults \in [Faults -> Nat] /\ MaxFaults \in [Faults -> Nat]
          /\ faults[kind] < MaxFaults[kind] /\ faults[k] <= MaxFaults[k]
          /\ faults' = [faults EXCEPT ![kind] = @ + 1]
      BY <2>1, BoundsAssumption DEF Fault, WithinBudget, TypeInv, TypeOK
    <3>2. faults'[k] = IF k = kind THEN faults[kind] + 1 ELSE faults[k]
      BY <3>1
    <3>3. faults[kind] \in Nat /\ MaxFaults[kind] \in Nat
      BY <3>1
    <3> QED
      BY <3>1, <3>2, <3>3
  <2> QED
    BY <2>1, FaultsStep DEF WithinBudget
<1> QED
  BY <1>1, <1>2, TypeAlways, PTL DEF Spec

\* Steps that keep every job in its phase, with the same steps done.
LEMMA BarsKept ==
  ASSUME \A j \in Jobs : PhaseOf(jobStatus'[j]) = PhaseOf(jobStatus[j]),
         \A j \in Jobs, s \in Steps :
           stepStatus'[j][s] = "completed" <=> stepStatus[j][s] = "completed"
  PROVE  UNCHANGED Contract!vars
<1>1. phaseBar' = phaseBar
  BY DEF phaseBar
<1>2. doneBar' = doneBar
  BY DEF doneBar
<1> QED
  BY <1>1, <1>2 DEF Contract!vars

\* The phase of a job follows its status.
LEMMA PhaseMoves ==
  ASSUME TypeOK, NEW j \in Jobs, NEW st,
         jobStatus' = [jobStatus EXCEPT ![j] = st]
  PROVE  phaseBar' = [phaseBar EXCEPT ![j] = PhaseOf(st)]
BY DEF phaseBar, TypeOK

LEMMA OpenPhases ==
  \A st : st \in {"pending", "running", "retrying"} => PhaseOf(st) = "open"
BY DEF PhaseOf

LEMMA EndPhases ==
  PhaseOf("absent") = "absent" /\ PhaseOf("completed") = "completed"
  /\ PhaseOf("dead_letter") = "dead"
BY DEF PhaseOf

\* What the contract sees of a database step is an enqueue.
LEMMA ContractDatabase ==
  ASSUME JobInv, NoOverrun, DatabaseStep
  PROVE  [Contract!Next]_(Contract!vars)
<1>1. UNCHANGED stepStatus
  BY DEF DatabaseStep, Enqueue, BecomeDue, LockExpires, LockOverrun, RecoverStuckJobs, stepVars
<1>2. ASSUME UNCHANGED jobStatus PROVE UNCHANGED Contract!vars
  BY <1>1, <1>2, BarsKept
<1>3. ASSUME NEW j \in Jobs, NEW now \in BOOLEAN, Enqueue(j, now)
      PROVE  Contract!Next
  <2>1. phaseBar' = [phaseBar EXCEPT ![j] = "open"]
    BY <1>3, PhaseMoves, OpenPhases DEF Enqueue, JobInv, StepInv, LockInv, TypeInv
  <2>2. phaseBar[j] = "absent"
    BY <1>3, EndPhases DEF Enqueue, phaseBar
  <2>3. doneBar' = doneBar
    BY <1>1 DEF doneBar
  <2> QED
    BY <2>1, <2>2, <2>3 DEF Contract!Next, Contract!Submit
<1>4. CASE RecoverStuckJobs
  <2>1. \A j \in Jobs : PhaseOf(jobStatus'[j]) = PhaseOf(jobStatus[j])
    BY <1>4, OpenPhases DEF RecoverStuckJobs, Stuck
  <2> QED
    BY <1>1, <2>1, BarsKept
<1> QED
  BY <1>2, <1>3, <1>4 DEF DatabaseStep, BecomeDue, LockExpires, LockOverrun

\* A requeue that commits resumes a dead job or restarts one that has ended.
LEMMA ContractOperator ==
  ASSUME JobInv, NoOverrun, OperatorStep
  PROVE  [Contract!Next]_(Contract!vars)
<1>1. ASSUME UNCHANGED <<jobStatus, stepStatus>> PROVE UNCHANGED Contract!vars
  BY <1>1, BarsKept
<1>2. ASSUME NEW o \in Operators, Requeue(o) PROVE Contract!Next
  <2> DEFINE j == opJob[o]
  <2>1. /\ j \in Jobs
        /\ jobStatus' = [jobStatus EXCEPT ![j] = "pending"]
        /\ stepStatus' = [stepStatus EXCEPT ![j] =
             [s \in Steps |-> IF s \in ToReset(j, opFull[o]) THEN "pending" ELSE @[s]]]
    BY <1>2 DEF Requeue, Unlock, JobInv, StepInv, LockInv, TypeInv, TypeOK
  <2>2. /\ jobStatus[j] \in {"completed", "dead_letter"}
        /\ jobStatus[j] = "completed" => opFull[o]
    <3>1. OperatorsWait /\ FullRight /\ j # None
      BY <2>1, NoneAssumption DEF JobInv, StepInv, LockInv
    <3>2. Terminal(j)
      BY <3>1 DEF OperatorsWait
    <3>3. jobStatus[j] = "completed" => opFull[o]
      BY <3>1 DEF FullRight
    <3> QED
      BY <3>2, <3>3 DEF Terminal
  <2> HIDE DEF j
  <2>3. phaseBar' = [phaseBar EXCEPT ![j] = "open"]
    BY <2>1, PhaseMoves, OpenPhases DEF JobInv, StepInv, LockInv, TypeInv
  <2>4. ASSUME NEW k \in Jobs, NEW s \in Steps
        PROVE  stepStatus'[k][s] = "completed" <=>
                 stepStatus[k][s] = "completed" /\ ~(k = j /\ opFull[o])
    <3>1. CASE k = j
      BY <2>1, <3>1 DEF ToReset, JobInv, StepInv, LockInv, TypeInv, TypeOK
    <3>2. CASE k # j
      BY <2>1, <3>2 DEF JobInv, StepInv, LockInv, TypeInv, TypeOK
    <3> QED
      BY <3>1, <3>2
  <2>5. CASE opFull[o]
    <3>1. doneBar' = [doneBar EXCEPT ![j] = {}]
      BY <2>4, <2>5 DEF doneBar
    <3>2. phaseBar[j] \in {"completed", "dead"}
      BY <2>1, <2>2, EndPhases DEF phaseBar
    <3> QED
      BY <2>1, <2>3, <3>1, <3>2 DEF Contract!Next, Contract!Restart
  <2>6. CASE ~opFull[o]
    <3>1. doneBar' = doneBar
      BY <2>4, <2>6 DEF doneBar
    <3>2. phaseBar[j] = "dead"
      BY <2>1, <2>2, <2>6, EndPhases DEF phaseBar
    <3> QED
      BY <2>1, <2>3, <3>1, <3>2 DEF Contract!Next, Contract!Resume
  <2> QED
    BY <2>5, <2>6
<1> QED
  BY <1>1, <1>2
  DEF OperatorStep, RetryDeadLetterCheck, RequeueCheck, rowVars, stepVars

\* An execution that ends its job's step without success: the job stays open or
\* is given up.
LEMMA ContractFailure ==
  ASSUME JobInv, NoOverrun, NEW e \in Slots, NEW retryAt \in BOOLEAN,
         NEW applied \in BOOLEAN, EndWithFailure(e, retryAt, applied),
         AtWork(e, sjob[e]), sjob[e] \in Jobs, idx[e] \in Steps \ snapDone[e]
  PROVE  [Contract!Next]_(Contract!vars)
<1>1. CASE ~applied
  BY <1>1, BarsKept DEF EndWithFailure, rowVars, stepVars
<1>2. CASE applied
  <2> DEFINE j == sjob[e]
             s == idx[e]
  <2>1. /\ j \in Jobs /\ s \in Steps
        /\ stepStatus' = [stepStatus EXCEPT ![j][s] = IF retryAt THEN "pending" ELSE "failed"]
        /\ jobStatus' = [jobStatus EXCEPT ![j] =
                           IF retryAt THEN "retrying" ELSE "dead_letter"]
    BY <1>2 DEF EndWithFailure, FailStepSQL, Unlock
  <2>2. jobStatus[j] = "running" /\ stepStatus[j][s] = "pending"
    BY StepAtHand DEF JobInv
  <2> HIDE DEF j, s
  <2>3. ASSUME NEW k \in Jobs, NEW t \in Steps
        PROVE  stepStatus'[k][t] = "completed" <=> stepStatus[k][t] = "completed"
    <3>1. stepStatus'[k][t] = IF k = j /\ t = s
                              THEN IF retryAt THEN "pending" ELSE "failed"
                              ELSE stepStatus[k][t]
      BY <2>1 DEF JobInv, StepInv, LockInv, TypeInv, TypeOK
    <3> QED
      BY <2>2, <3>1
  <2>4. phaseBar[j] = "open" /\ doneBar' = doneBar
    BY <2>1, <2>2, <2>3, OpenPhases DEF phaseBar, doneBar
  <2>5. CASE retryAt
    <3>1. \A k \in Jobs : PhaseOf(jobStatus'[k]) = PhaseOf(jobStatus[k])
      BY <2>1, <2>2, <2>5, OpenPhases DEF JobInv, StepInv, LockInv, TypeInv, TypeOK
    <3> QED
      BY <2>3, <3>1, BarsKept
  <2>6. CASE ~retryAt
    <3>1. phaseBar' = [phaseBar EXCEPT ![j] = "dead"]
      <4>1. jobStatus' = [jobStatus EXCEPT ![j] = "dead_letter"]
        BY <2>1, <2>6
      <4>2. phaseBar' = [phaseBar EXCEPT ![j] = PhaseOf("dead_letter")]
        BY <2>1, <4>1, PhaseMoves DEF JobInv, StepInv, LockInv, TypeInv
      <4> QED
        BY <4>2, EndPhases
    <3> QED
      BY <2>1, <2>4, <3>1 DEF Contract!Next, Contract!GiveUp
  <2> QED
    BY <2>5, <2>6
<1> QED
  BY <1>1, <1>2

\* complete_step is the progress of the job to its next step.
LEMMA ContractComplete ==
  ASSUME JobInv, NoOverrun, NoLostComplete, NoLostComplete', NEW e \in Slots,
         NEW applied \in BOOLEAN, CompleteStep(e, applied)
  PROVE  Contract!Next
<1> DEFINE j == sjob[e]
           s == idx[e]
<1>1. /\ pc[e] = "returned" /\ j \in Jobs /\ s \in Steps \ snapDone[e]
      /\ Reaches(applied, "lostComplete")
  BY DEF CompleteStep, JobInv, StepInv, LockInv, TypeInv, TypeOK, SlotShape
<1>2. applied
  <2>1. "lostComplete" \in Faults /\ faults \in [Faults -> Nat]
    BY DEF Faults, JobInv, StepInv, LockInv, TypeInv, TypeOK
  <2> QED
    BY <1>1, <2>1 DEF Reaches, Fault, NoLostComplete
<1>3. /\ stepStatus' = [stepStatus EXCEPT ![j][s] = "completed"]
      /\ IF LastStep(s) /\ jobStatus[j] = "running"
         THEN jobStatus' = [jobStatus EXCEPT ![j] = "completed"]
         ELSE jobStatus' = jobStatus
  BY <1>2 DEF CompleteStep, Unlock
<1>4. AtWork(e, j)
  BY <1>1 DEF AtWork, Executing
<1>5. jobStatus[j] = "running" /\ stepStatus[j][s] = "pending"
  BY <1>1, <1>4, StepAtHand DEF JobInv
<1>6. StepsInOrder /\ NoneSkipped
  BY DEF JobInv, StepInv
<1>7. /\ \A t \in Steps : t < s => stepStatus[j][t] = "completed"
      /\ \A t \in Steps : t >= s => stepStatus[j][t] # "completed"
  <2>1. \A t \in Steps : t < s => stepStatus[j][t] = "completed"
    BY <1>1, <1>4, <1>6 DEF NoneSkipped
  <2>2. \A t \in Steps : s < t => stepStatus[j][t] # "completed"
    BY <1>1, <1>5, <1>6 DEF StepsInOrder
  <2>3. \A t \in Steps : t >= s => t = s \/ s < t
    BY <1>1 DEF Steps
  <2> QED
    BY <1>5, <2>1, <2>2, <2>3
<1> HIDE DEF j, s
<1>8. s \in 1 .. NumSteps /\ NumSteps \in Nat
  BY <1>1, NumStepsAssumption DEF Steps
<1>9. ASSUME NEW k \in Jobs, NEW t \in Steps
      PROVE  stepStatus'[k][t] = IF k = j /\ t = s THEN "completed" ELSE stepStatus[k][t]
  BY <1>1, <1>3 DEF JobInv, StepInv, LockInv, TypeInv, TypeOK
<1>10. doneBar[j] = 1 .. (s - 1)
  <2>1. doneBar[j] = {t \in Steps : stepStatus[j][t] = "completed"}
    BY <1>1 DEF doneBar
  <2>2. \A t \in Steps : stepStatus[j][t] = "completed" <=> t < s
    BY <1>7, <1>8 DEF Steps
  <2> QED
    BY <1>8, <2>1, <2>2 DEF Steps
<1>11. doneBar' = [doneBar EXCEPT ![j] = 1 .. s]
  <2>1. ASSUME NEW k \in Jobs
        PROVE  {t \in Steps : stepStatus'[k][t] = "completed"} =
                 IF k = j THEN 1 .. s ELSE {t \in Steps : stepStatus[k][t] = "completed"}
    <3>1. CASE k # j
      <4>1. \A t \in Steps : stepStatus'[k][t] = stepStatus[k][t]
        BY <1>9, <3>1
      <4> QED
        BY <3>1, <4>1
    <3>2. CASE k = j
      <4>1. \A t \in Steps : stepStatus'[k][t] = "completed" <=> t <= s
        BY <1>7, <1>8, <1>9, <3>2 DEF Steps
      <4> QED
        BY <1>8, <3>2, <4>1 DEF Steps
    <3> QED
      BY <3>1, <3>2
  <2> QED
    BY <2>1 DEF doneBar
<1>12. phaseBar[j] = "open"
  BY <1>1, <1>5, OpenPhases DEF phaseBar
<1>13. phaseBar' = [phaseBar EXCEPT ![j] = IF s = NumSteps THEN "completed" ELSE "open"]
  <2>1. LastStep(s) <=> s = NumSteps
    BY <1>8 DEF LastStep
  <2>2. CASE s = NumSteps
    <3>1. jobStatus' = [jobStatus EXCEPT ![j] = "completed"]
      BY <1>3, <1>5, <2>1, <2>2
    <3> QED
      BY <1>1, <2>2, <3>1, PhaseMoves, EndPhases DEF JobInv, StepInv, LockInv, TypeInv
  <2>3. CASE s # NumSteps
    <3>1. jobStatus' = jobStatus
      BY <1>3, <1>5, <2>1, <2>3
    <3>2. phaseBar' = phaseBar
      BY <3>1 DEF phaseBar
    <3> QED
      BY <1>1, <1>12, <2>3, <3>2 DEF phaseBar
  <2> QED
    BY <2>2, <2>3
<1> QED
  BY <1>1, <1>8, <1>10, <1>11, <1>12, <1>13 DEF Contract!Next, Contract!Progress

\* The contract does not see the other steps of an execution.
LEMMA ContractSlot ==
  ASSUME JobInv, NoOverrun, NoLostComplete, NoLostComplete', NEW e \in Slots, SlotStep(e)
  PROVE  [Contract!Next]_(Contract!vars)
<1> USE DEF rowVars, stepVars
<1>0. pc[e] # "idle" => sjob[e] \in Jobs
  BY DEF JobInv, StepInv, LockInv, TypeInv, TypeOK, SlotShape
<1>1. ASSUME NEW j \in Jobs, Executing(e, j), NEW st \in {"pending", "retrying"},
             jobStatus' = [jobStatus EXCEPT ![j] = st], UNCHANGED stepStatus
      PROVE  UNCHANGED Contract!vars
  <2>1. jobStatus[j] = "running"
    BY <1>1 DEF JobInv, StepInv, LockInv, Held, Holds
  <2>2. \A k \in Jobs : PhaseOf(jobStatus'[k]) = PhaseOf(jobStatus[k])
    BY <1>1, <2>1, OpenPhases DEF JobInv, StepInv, LockInv, TypeInv, TypeOK
  <2> QED
    BY <1>1, <2>2, BarsKept
<1>2. ASSUME UNCHANGED <<jobStatus, stepStatus>> PROVE UNCHANGED Contract!vars
  BY <1>2, BarsKept
<1>3. ASSUME NEW applied \in BOOLEAN, BreakerBlocks(e, applied)
      PROVE  UNCHANGED Contract!vars
  BY <1>0, <1>1, <1>2, <1>3 DEF BreakerBlocks, Unlock, Executing
<1>4. ASSUME NEW applied \in BOOLEAN, ReadStepsFails(e, applied)
      PROVE  UNCHANGED Contract!vars
  <2>1. Executing(e, sjob[e]) /\ sjob[e] \in Jobs
    BY <1>0, <1>4 DEF ReadStepsFails, Executing
  <2>2. jobStatus[sjob[e]] = "running"
    BY <2>1 DEF JobInv, StepInv, LockInv, Held, Holds
  <2> QED
    BY <1>1, <1>2, <1>4, <2>1, <2>2 DEF ReadStepsFails, Unlock
<1>5. ASSUME NEW applied \in BOOLEAN, MissingHandler(e, applied)
      PROVE  [Contract!Next]_(Contract!vars)
  <2>1. AtWork(e, sjob[e]) /\ sjob[e] \in Jobs /\ idx[e] \in Steps \ snapDone[e]
    BY <1>0, <1>5, NumStepsAssumption DEF MissingHandler, AtWork, Executing, Steps
  <2> QED
    BY <1>5, <2>1, ContractFailure DEF MissingHandler
<1>6. ASSUME NEW retryable \in BOOLEAN, NEW hinted \in BOOLEAN, NEW applied \in BOOLEAN,
             FailStep(e, retryable, hinted, applied)
      PROVE  [Contract!Next]_(Contract!vars)
  <2>1. AtWork(e, sjob[e]) /\ sjob[e] \in Jobs /\ idx[e] \in Steps \ snapDone[e]
    BY <1>0, <1>6 DEF FailStep, AtWork, Executing, JobInv, StepInv, LockInv, TypeInv, SlotShape
  <2>2. PICK retryAt \in BOOLEAN : EndWithFailure(e, retryAt, applied)
    BY <1>6 DEF FailStep
  <2> QED
    BY <2>1, <2>2, ContractFailure
<1> QED
  BY <1>2, <1>3, <1>4, <1>5, <1>6, ContractComplete
  DEF SlotStep, ReadSteps, SkipCompleted, StartStep, HandlerReturns, HandlerThrows, Finish

LEMMA ContractNext ==
  ASSUME JobInv, NoOverrun, NoLostComplete, NoLostComplete', [Next]_vars
  PROVE  [Contract!Next]_(Contract!vars)
<1>1. ASSUME UNCHANGED <<jobStatus, stepStatus>> PROVE UNCHANGED Contract!vars
  BY <1>1, BarsKept
<1>2. ASSUME NEW e \in Slots, NEW j \in Jobs, NEW delivered \in BOOLEAN,
             Claim(e, j, delivered)
      PROVE  UNCHANGED Contract!vars
  <2>1. \A k \in Jobs : PhaseOf(jobStatus'[k]) = PhaseOf(jobStatus[k])
    BY <1>2, OpenPhases DEF Claim, JobInv, StepInv, LockInv, TypeInv, TypeOK
  <2> QED
    BY <1>2, <2>1, BarsKept DEF Claim, stepVars
<1>3. CASE WorkerStep
  BY <1>1, <1>2, <1>3, ContractSlot
  DEF WorkerStep, SaveMarker, Heartbeat, Crash, rowVars, stepVars
<1>4. CASE UNCHANGED vars
  BY <1>1, <1>4 DEF vars, rowVars, stepVars
<1> QED
  BY <1>3, <1>4, ContractDatabase, ContractOperator DEF Next

\* Where no lock is overrun and no complete_step lost, the engine implements its
\* contract, whatever crashes, lost claims, lost fail_steps and requeues occur:
\* steps are done in order and once each, the last completes the job, and only a
\* job that has ended is reopened.
THEOREM EngineImplementsContract ==
  ASSUME SingleOperator, MaxFaults["overrun"] = 0, MaxFaults["lostComplete"] = 0
  PROVE  Spec => ImplementsContract
<1>1. Init => Contract!Init
  <2> SUFFICES ASSUME Init PROVE Contract!Init
    OBVIOUS
  <2>1. phaseBar = [j \in Jobs |-> "absent"]
    BY EndPhases DEF Init, phaseBar
  <2>2. doneBar = [j \in Jobs |-> {}]
    BY DEF Init, doneBar
  <2> QED
    BY <2>1, <2>2 DEF Contract!Init
<1>2. JobInv /\ WithinBudget => NoOverrun /\ NoLostComplete
  BY DEF WithinBudget, NoOverrun, NoLostComplete, Faults, JobInv, StepInv, LockInv, TypeInv,
     TypeOK
<1>3. JobInv /\ NoOverrun /\ NoLostComplete /\ NoLostComplete' /\ [Next]_vars
        => [Contract!Next]_(Contract!vars)
  BY ContractNext
<1> QED
  BY <1>1, <1>2, <1>3, JobAlways, BudgetAlways, PTL
  DEF Spec, ImplementsContract, Contract!Spec

----------------------------------------------------------------------------
(* The outputs.  What a handler is given of the context holds the outputs of all *)
(* completed steps, so that writing it back over the column loses none.          *)

NoBlindRead == faults["blindRead"] = 0

OutputsIn ==
  \A j \in Jobs, s \in Steps : stepStatus[j][s] = "completed" => s \in context[j]

SeenCurrent ==
  \A e \in Slots, j \in Jobs : sjob[e] = j /\ pc[e] = "handler" =>
    \A s \in Steps : stepStatus[j][s] = "completed" => s \in seen[e]

OutputInv == JobInv /\ (NoOverrun /\ NoBlindRead => OutputsIn /\ SeenCurrent)

\* No fault is ever taken back.
FaultsUp == \A kind \in Faults : faults'[kind] = 0 => faults[kind] = 0

LEMMA FaultsOnlyGrow ==
  ASSUME TypeInv, [Next]_vars
  PROVE  FaultsUp
<1>1. ASSUME NEW kind \in Faults, Fault(kind) PROVE FaultsUp
  <2>1. /\ faults \in [Faults -> Nat]
        /\ faults' = [faults EXCEPT ![kind] = @ + 1]
    BY <1>1 DEF Fault, TypeInv, TypeOK
  <2>2. ASSUME NEW k \in Faults
        PROVE  faults'[k] = IF k = kind THEN faults[kind] + 1 ELSE faults[k]
    BY <2>1
  <2>3. faults[kind] \in Nat
    BY <2>1
  <2> QED
    BY <2>2, <2>3 DEF FaultsUp
<1> QED
  BY <1>1, FaultsStep DEF FaultsUp

\* What completes no step leaves the outputs where they are, unless it writes the
\* context or puts a handler to work.
LEMMA OutputsFrame ==
  ASSUME OutputsIn, SeenCurrent, UNCHANGED context,
         \A j \in Jobs, s \in Steps :
           stepStatus'[j][s] = "completed" => stepStatus[j][s] = "completed",
         \A e \in Slots, j \in Jobs : sjob'[e] = j /\ pc'[e] = "handler" =>
           sjob[e] = j /\ pc[e] = "handler" /\ seen'[e] = seen[e]
  PROVE  (OutputsIn /\ SeenCurrent)'
BY DEF OutputsIn, SeenCurrent

LEMMA OutputsEnd ==
  ASSUME JobInv, NoOverrun, OutputsIn, SeenCurrent,
         NEW e \in Slots, NEW retryAt \in BOOLEAN, NEW applied \in BOOLEAN,
         EndWithFailure(e, retryAt, applied)
  PROVE  (OutputsIn /\ SeenCurrent)'
<1>1. /\ SlotsBecomeIdle({e})
      /\ UNCHANGED context
      /\ \/ stepStatus' = stepStatus
         \/ stepStatus' = [stepStatus EXCEPT ![sjob[e]][idx[e]] =
                             IF retryAt THEN "pending" ELSE "failed"]
  BY DEF EndWithFailure, FailStepSQL, rowVars, stepVars
<1>2. \A j \in Jobs, s \in Steps :
         stepStatus'[j][s] = "completed" => stepStatus[j][s] = "completed"
  <2> DEFINE st == IF retryAt THEN "pending" ELSE "failed"
  <2>1. st # "completed"
    OBVIOUS
  <2>2. \/ stepStatus' = stepStatus
        \/ stepStatus' = [stepStatus EXCEPT ![sjob[e]][idx[e]] = st]
    BY <1>1
  <2> HIDE DEF st
  <2> SUFFICES ASSUME NEW j \in Jobs, NEW s \in Steps,
                      stepStatus' = [stepStatus EXCEPT ![sjob[e]][idx[e]] = st],
                      stepStatus'[j][s] = "completed"
               PROVE  stepStatus[j][s] = "completed"
    BY <2>2
  <2>3. stepStatus \in [Jobs -> [Steps -> StepStatus]]
    BY DEF JobInv, StepInv, LockInv, TypeInv, TypeOK
  <2>4. stepStatus'[j][s] = st \/ stepStatus'[j][s] = stepStatus[j][s]
    BY <2>3
  <2> QED
    BY <2>1, <2>4
<1> QED
  BY <1>1, <1>2, OutputsFrame DEF SlotsBecomeIdle

LEMMA OutputsSlot ==
  ASSUME JobInv, NoOverrun, NoBlindRead', OutputsIn, SeenCurrent,
         NEW e \in Slots, SlotStep(e)
  PROVE  (OutputsIn /\ SeenCurrent)'
<1> USE DEF rowVars, stepVars, slotVars, opVars, Goto
<1>0. TypeInv /\ StepInv /\ (pc[e] # "idle" => sjob[e] \in Jobs)
  BY DEF JobInv, StepInv, LockInv, TypeInv, TypeOK, SlotShape
<1> DEFINE NoHandler ==
             \A f \in Slots, j \in Jobs : sjob'[f] = j /\ pc'[f] = "handler" =>
               sjob[f] = j /\ pc[f] = "handler" /\ seen'[f] = seen[f]
<1>1. ASSUME NEW applied \in BOOLEAN,
             BreakerBlocks(e, applied) \/ ReadStepsFails(e, applied) \/ Finish(e)
      PROVE  (OutputsIn /\ SeenCurrent)'
  <2>1. SlotsBecomeIdle({e}) /\ UNCHANGED <<stepStatus, context>>
    BY <1>1 DEF BreakerBlocks, ReadStepsFails, Finish
  <2>2. NoHandler
    BY <2>1 DEF SlotsBecomeIdle
  <2> QED
    BY <2>1, <2>2, OutputsFrame
<1>2. CASE ReadSteps(e) \/ SkipCompleted(e) \/ HandlerReturns(e) \/ HandlerThrows(e)
  <2>1. /\ UNCHANGED <<stepStatus, context, sjob>>
        /\ \/ UNCHANGED <<pc, seen>>
           \/ pc' = [pc EXCEPT ![e] = "loop"] /\ UNCHANGED seen
           \/ /\ \E label \in {"returned", "threw"} : pc' = [pc EXCEPT ![e] = label]
              /\ seen' = [seen EXCEPT ![e] = {}]
    BY <1>2 DEF ReadSteps, SkipCompleted, HandlerReturns, HandlerThrows
  <2>2. NoHandler
    BY <1>0, <2>1 DEF TypeInv, TypeOK
  <2> QED
    BY <2>1, <2>2, OutputsFrame
<1>3. ASSUME NEW fetched \in BOOLEAN, StartStep(e, fetched)
      PROVE  (OutputsIn /\ SeenCurrent)'
  <2>1. fetched
    BY <1>0, <1>3
    DEF StartStep, Reaches, Fault, NoBlindRead, Faults, TypeInv, TypeOK
  <2>2. /\ seen' = [seen EXCEPT ![e] = context[sjob[e]]]
        /\ pc' = [pc EXCEPT ![e] = "handler"]
        /\ UNCHANGED <<stepStatus, context, sjob>>
    BY <1>3, <2>1 DEF StartStep, FetchedContext
  <2>3. SeenCurrent'
    BY <1>0, <2>2 DEF OutputsIn, SeenCurrent, TypeInv, TypeOK
  <2> QED
    BY <2>2, <2>3 DEF OutputsIn
<1>4. ASSUME NEW applied \in BOOLEAN, CompleteStep(e, applied)
      PROVE  (OutputsIn /\ SeenCurrent)'
  <2> DEFINE j == sjob[e]
             s == idx[e]
  <2>1. /\ pc[e] = "returned" /\ j \in Jobs /\ s \in Steps \ snapDone[e]
        /\ pc' = [pc EXCEPT ![e] = "loop"]
        /\ UNCHANGED <<sjob, seen>>
    BY <1>0, <1>4 DEF CompleteStep, TypeInv, SlotShape
  <2>2. AtWork(e, j)
    BY <2>1 DEF AtWork, Executing
  <2>3. \A f \in Slots : Executing(f, j) => f = e
    BY <1>0, <2>1, <2>2, StepAtHand
  <2>4. NoHandler
    BY <1>0, <2>1 DEF TypeInv, TypeOK
  <2>5. \A f \in Slots, k \in Jobs : sjob'[f] = k /\ pc'[f] = "handler" => k # j
    <3>1. \A f \in Slots : sjob[f] = j /\ pc[f] = "handler" => f = e
      BY <2>3 DEF Executing
    <3> QED
      BY <2>1, <2>4, <3>1
  <2>6. CASE ~applied
    <3>1. UNCHANGED <<stepStatus, context>>
      BY <1>4, <2>6 DEF CompleteStep
    <3> QED
      BY <2>4, <3>1, OutputsFrame
  <2>7. CASE applied
    <3>1. /\ stepStatus' = [stepStatus EXCEPT ![j][s] = "completed"]
          /\ context' = [context EXCEPT ![j] = @ \cup {s}]
      BY <1>4, <2>7 DEF CompleteStep, MergeOutput
    <3> HIDE DEF j, s
    <3>2. ASSUME NEW k \in Jobs
          PROVE  /\ context'[k] = IF k = j THEN context[k] \cup {s} ELSE context[k]
                 /\ \A t \in Steps : stepStatus'[k][t] =
                      IF k = j /\ t = s THEN "completed" ELSE stepStatus[k][t]
      BY <1>0, <3>1 DEF TypeInv, TypeOK
    <3>3. OutputsIn'
      BY <3>2 DEF OutputsIn
    <3>4. SeenCurrent'
      <4> SUFFICES ASSUME NEW f \in Slots, NEW k \in Jobs,
                          sjob'[f] = k, pc'[f] = "handler",
                          NEW t \in Steps, stepStatus'[k][t] = "completed"
                   PROVE  t \in seen'[f]
        BY DEF SeenCurrent
      <4>1. k # j /\ sjob[f] = k /\ pc[f] = "handler" /\ seen'[f] = seen[f]
        BY <2>4, <2>5
      <4>2. stepStatus[k][t] = "completed"
        BY <3>2, <4>1
      <4> QED
        BY <4>1, <4>2 DEF SeenCurrent
    <3> QED
      BY <3>3, <3>4
  <2> QED
    BY <2>6, <2>7
<1>5. ASSUME NEW applied \in BOOLEAN, MissingHandler(e, applied)
      PROVE  (OutputsIn /\ SeenCurrent)'
  BY <1>5, OutputsEnd DEF MissingHandler
<1>6. ASSUME NEW retryable \in BOOLEAN, NEW hinted \in BOOLEAN, NEW applied \in BOOLEAN,
             FailStep(e, retryable, hinted, applied)
      PROVE  (OutputsIn /\ SeenCurrent)'
  <2>1. PICK retryAt \in BOOLEAN : EndWithFailure(e, retryAt, applied)
    BY <1>6 DEF FailStep
  <2> QED
    BY <2>1, OutputsEnd
<1> QED
  BY <1>1, <1>2, <1>3, <1>4, <1>5, <1>6 DEF SlotStep

LEMMA OutputsWorker ==
  ASSUME JobInv, NoOverrun, NoBlindRead', OutputsIn, SeenCurrent, WorkerStep
  PROVE  (OutputsIn /\ SeenCurrent)'
<1> USE DEF rowVars, stepVars, slotVars, opVars, Goto
<1>0. TypeInv /\ LockInv
  BY DEF JobInv, StepInv, LockInv
<1>1. ASSUME NEW e \in Slots, NEW j \in Jobs, NEW delivered \in BOOLEAN,
             Claim(e, j, delivered)
      PROVE  (OutputsIn /\ SeenCurrent)'
  <2>1. /\ UNCHANGED <<stepStatus, context, seen>>
        /\ pc[e] = "idle"
        /\ \/ pc' = [pc EXCEPT ![e] = "claimed"] /\ sjob' = [sjob EXCEPT ![e] = j]
           \/ UNCHANGED <<pc, sjob>>
    BY <1>1 DEF Claim
  <2>2. \A f \in Slots, k \in Jobs : sjob'[f] = k /\ pc'[f] = "handler" =>
          sjob[f] = k /\ pc[f] = "handler" /\ seen'[f] = seen[f]
    BY <1>0, <2>1 DEF TypeInv, TypeOK
  <2> QED
    BY <2>1, <2>2, OutputsFrame
<1>2. ASSUME NEW e \in Slots, SaveMarker(e) PROVE (OutputsIn /\ SeenCurrent)'
  <2> DEFINE j == sjob[e]
  <2>1. /\ j \in Jobs /\ pc[e] = "handler"
        /\ context' = [context EXCEPT ![j] = seen[e]]
        /\ UNCHANGED <<stepStatus, seen, pc, sjob>>
    BY <1>0, <1>2 DEF SaveMarker, TypeInv, TypeOK, SlotShape
  <2>2. \A s \in Steps : stepStatus[j][s] = "completed" => s \in seen[e]
    BY <2>1 DEF SeenCurrent
  <2> HIDE DEF j
  <2>3. OutputsIn'
    BY <1>0, <2>1, <2>2 DEF OutputsIn, TypeInv, TypeOK
  <2> QED
    BY <2>1, <2>3 DEF SeenCurrent
<1>3. ASSUME NEW e \in Slots, Heartbeat(e) PROVE (OutputsIn /\ SeenCurrent)'
  BY <1>3, OutputsFrame DEF Heartbeat
<1>4. ASSUME NEW w \in Workers, Crash(w) PROVE (OutputsIn /\ SeenCurrent)'
  BY <1>4, OutputsFrame DEF Crash, SlotsBecomeIdle
<1> QED
  BY <1>1, <1>2, <1>3, <1>4, OutputsSlot DEF WorkerStep

\* A requeue empties the context of a job only with all of its steps.
LEMMA OutputsOperator ==
  ASSUME JobInv, NoOverrun, OutputsIn, SeenCurrent, OperatorStep
  PROVE  (OutputsIn /\ SeenCurrent)'
<1>0. TypeInv
  BY DEF JobInv, StepInv, LockInv
<1>1. ASSUME NEW o \in Operators, Requeue(o) PROVE (OutputsIn /\ SeenCurrent)'
  <2> DEFINE j == opJob[o]
             reset == ToReset(j, opFull[o])
  <2>1. /\ j \in Jobs
        /\ stepStatus' = [stepStatus EXCEPT ![j] =
                            [s \in Steps |-> IF s \in reset THEN "pending" ELSE @[s]]]
        /\ context' = [context EXCEPT ![j] = IF opFull[o] THEN {} ELSE @]
        /\ UNCHANGED <<pc, sjob, seen>>
    BY <1>0, <1>1 DEF Requeue, slotVars, TypeInv, TypeOK
  <2>2. opFull[o] => reset = Steps
    BY DEF ToReset
  <2> HIDE DEF j, reset
  <2>3. ASSUME NEW k \in Jobs
        PROVE  /\ context'[k] = IF k = j /\ opFull[o] THEN {} ELSE context[k]
               /\ \A s \in Steps : stepStatus'[k][s] =
                    IF k = j /\ s \in reset THEN "pending" ELSE stepStatus[k][s]
    BY <1>0, <2>1 DEF TypeInv, TypeOK
  <2>4. OutputsIn'
    BY <2>2, <2>3 DEF OutputsIn
  <2>5. SeenCurrent'
    BY <2>1, <2>3 DEF SeenCurrent
  <2> QED
    BY <2>4, <2>5
<1>2. ASSUME UNCHANGED <<rowVars, stepVars, slotVars>> PROVE (OutputsIn /\ SeenCurrent)'
  BY <1>2, OutputsFrame DEF rowVars, stepVars, slotVars
<1> QED
  BY <1>1, <1>2 DEF OperatorStep, RetryDeadLetterCheck, RequeueCheck

LEMMA OutputNext ==
  ASSUME SingleOperator, OutputInv, [Next]_vars
  PROVE  OutputInv'
<1>1. JobInv'
  BY JobNext DEF OutputInv
<1> SUFFICES ASSUME NoOverrun', NoBlindRead' PROVE (OutputsIn /\ SeenCurrent)'
  BY <1>1 DEF OutputInv
<1>2. NoOverrun /\ NoBlindRead
  BY FaultsOnlyGrow
  DEF FaultsUp, Faults, NoOverrun, NoBlindRead, OutputInv, JobInv, StepInv, LockInv
<1>3. JobInv /\ OutputsIn /\ SeenCurrent
  BY <1>2 DEF OutputInv
<1>4. CASE DatabaseStep \/ UNCHANGED vars
  BY <1>3, <1>4, OutputsFrame
  DEF DatabaseStep, Enqueue, BecomeDue, LockExpires, LockOverrun, RecoverStuckJobs,
      vars, rowVars, stepVars, slotVars
<1> QED
  BY <1>2, <1>3, <1>4, OutputsWorker, OutputsOperator DEF Next

LEMMA OutputAlways ==
  ASSUME SingleOperator
  PROVE  Spec => []OutputInv
<1>1. Init => OutputInv
  BY JobInit DEF Init, OutputInv, OutputsIn, SeenCurrent
<1> QED
  BY <1>1, OutputNext, PTL DEF Spec

\* The output of a completed step is never lost from the context of its job, for
\* all the handlers that write the whole column back, unless a lock was overrun
\* or a read of the context failed.
THEOREM OutputsStay ==
  ASSUME SingleOperator
  PROVE  Spec => []OutputsKept
<1>1. OutputInv => OutputsKept
  BY DEF OutputInv, OutputsIn, NoBlindRead, OutputsKept
<1> QED
  BY <1>1, OutputAlways, PTL

\* Every handler is given the outputs of all the steps before its own.
THEOREM OutputsAreSeen ==
  ASSUME SingleOperator
  PROVE  Spec => []PreviousOutputsVisible
<1>1. OutputInv => PreviousOutputsVisible
  <2> SUFFICES ASSUME OutputInv, NoOverrun, NoLostComplete, NoBlindRead,
                      NEW e \in Slots, pc[e] = "handler", NEW s \in 1 .. (idx[e] - 1)
               PROVE  s \in seen[e]
    BY DEF PreviousOutputsVisible, NoLostComplete, NoBlindRead
  <2>1. TypeInv /\ NoneSkipped /\ SeenCurrent
    BY DEF OutputInv, JobInv, StepInv, LockInv
  <2>2. sjob[e] \in Jobs /\ idx[e] \in Steps
    BY <2>1 DEF TypeInv, TypeOK, SlotShape
  <2>3. s \in Steps /\ s < idx[e]
    BY <2>2, NumStepsAssumption DEF Steps
  <2>4. AtWork(e, sjob[e])
    BY DEF AtWork, Executing
  <2>5. stepStatus[sjob[e]][s] = "completed"
    BY <2>1, <2>2, <2>3, <2>4 DEF NoneSkipped
  <2> QED
    BY <2>1, <2>2, <2>3, <2>5 DEF SeenCurrent
<1> QED
  BY <1>1, OutputAlways, PTL

----------------------------------------------------------------------------
(* What has succeeded is not run again. *)

NoCrash == faults["crash"] = 0

\* A step whose handler returned is completed, or its execution is about to say so.
ReturnedKnown ==
  \A j \in Jobs, s \in Steps : s \in returned[j] =>
    \/ stepStatus[j][s] = "completed"
    \/ \E e \in Slots : sjob[e] = j /\ pc[e] = "returned" /\ idx[e] = s

Careful == NoOverrun /\ NoLostComplete /\ NoCrash

ReturnInv == JobInv /\ (Careful => ReturnedKnown)

\* What undoes no step, nor an execution between a handler and complete_step.
LEMMA ReturnsFrame ==
  ASSUME ReturnedKnown, UNCHANGED returned,
         \A j \in Jobs, s \in Steps :
           stepStatus[j][s] = "completed" => stepStatus'[j][s] = "completed",
         \A e \in Slots : pc[e] = "returned" =>
           pc'[e] = "returned" /\ sjob'[e] = sjob[e] /\ idx'[e] = idx[e]
  PROVE  ReturnedKnown'
BY DEF ReturnedKnown

\* A failure is of a step that has not completed.
LEMMA ReturnsEnd ==
  ASSUME JobInv, NoOverrun, ReturnedKnown,
         NEW e \in Slots, NEW retryAt \in BOOLEAN, NEW applied \in BOOLEAN,
         EndWithFailure(e, retryAt, applied), pc[e] # "returned",
         sjob[e] \in Jobs, AtWork(e, sjob[e]), idx[e] \in Steps \ snapDone[e]
  PROVE  ReturnedKnown'
<1> DEFINE j == sjob[e]
           s == idx[e]
           st == IF retryAt THEN "pending" ELSE "failed"
<1>1. /\ SlotsBecomeIdle({e})
      /\ UNCHANGED returned
      /\ \/ stepStatus' = stepStatus
         \/ stepStatus' = [stepStatus EXCEPT ![j][s] = st]
  BY DEF EndWithFailure, FailStepSQL, rowVars, stepVars
<1>2. stepStatus[j][s] = "pending"
  BY StepAtHand DEF JobInv
<1> HIDE DEF j, s, st
<1>3. \A k \in Jobs, t \in Steps :
         stepStatus[k][t] = "completed" => stepStatus'[k][t] = "completed"
  <2>1. stepStatus \in [Jobs -> [Steps -> StepStatus]] /\ stepStatus[j][s] # "completed"
    BY <1>2 DEF JobInv, StepInv, LockInv, TypeInv, TypeOK
  <2>2. CASE stepStatus' = [stepStatus EXCEPT ![j][s] = st]
    <3>1. \A k \in Jobs, t \in Steps :
            stepStatus'[k][t] = IF k = j /\ t = s THEN st ELSE stepStatus[k][t]
      BY <2>1, <2>2
    <3> QED
      BY <2>1, <3>1
  <2> QED
    BY <1>1, <2>2
<1>4. \A f \in Slots : pc[f] = "returned" =>
        pc'[f] = "returned" /\ sjob'[f] = sjob[f] /\ idx'[f] = idx[f]
  BY <1>1 DEF SlotsBecomeIdle
<1> QED
  BY <1>1, <1>3, <1>4, ReturnsFrame

LEMMA ReturnsSlot ==
  ASSUME JobInv, NoOverrun, NoLostComplete', ReturnedKnown,
         NEW e \in Slots, SlotStep(e)
  PROVE  ReturnedKnown'
<1> USE DEF rowVars, stepVars, slotVars, opVars, Goto
<1>0. TypeInv /\ StepInv /\ (pc[e] # "idle" => sjob[e] \in Jobs)
  BY DEF JobInv, StepInv, LockInv, TypeInv, TypeOK, SlotShape
<1> DEFINE Remain == \A f \in Slots : pc[f] = "returned" =>
                       pc'[f] = "returned" /\ sjob'[f] = sjob[f] /\ idx'[f] = idx[f]
<1>1. ASSUME NEW applied \in BOOLEAN,
             BreakerBlocks(e, applied) \/ ReadStepsFails(e, applied) \/ Finish(e)
      PROVE  ReturnedKnown'
  <2>1. SlotsBecomeIdle({e}) /\ UNCHANGED <<stepStatus, returned>> /\ pc[e] # "returned"
    BY <1>1 DEF BreakerBlocks, ReadStepsFails, Finish
  <2>2. Remain
    BY <2>1 DEF SlotsBecomeIdle
  <2> QED
    BY <2>1, <2>2, ReturnsFrame
<1>2. CASE ReadSteps(e) \/ SkipCompleted(e) \/ HandlerThrows(e)
           \/ \E fetched \in BOOLEAN : StartStep(e, fetched)
  <2>1. /\ UNCHANGED <<stepStatus, returned, sjob>>
        /\ pc[e] # "returned"
        /\ \/ UNCHANGED pc
           \/ \E label \in {"loop", "handler", "threw"} : pc' = [pc EXCEPT ![e] = label]
        /\ idx' = idx \/ idx' = [idx EXCEPT ![e] = @ + 1]
    BY <1>2 DEF ReadSteps, SkipCompleted, HandlerThrows, StartStep
  <2>2. Remain
    BY <1>0, <2>1 DEF TypeInv, TypeOK
  <2> QED
    BY <2>1, <2>2, ReturnsFrame
<1>3. CASE HandlerReturns(e)
  <2> DEFINE j == sjob[e]
             s == idx[e]
  <2>1. /\ j \in Jobs /\ pc[e] = "handler"
        /\ pc' = [pc EXCEPT ![e] = "returned"]
        /\ returned' = [returned EXCEPT ![j] = @ \cup {s}]
        /\ UNCHANGED <<stepStatus, sjob, idx>>
    BY <1>0, <1>3 DEF HandlerReturns
  <2>2. pc'[e] = "returned" /\ Remain
    BY <1>0, <2>1 DEF TypeInv, TypeOK
  <2>3. sjob'[e] = j /\ idx'[e] = s
    BY <2>1
  <2> HIDE DEF j, s
  <2>4. \A k \in Jobs : \A t \in returned'[k] : t \in returned[k] \/ (k = j /\ t = s)
    BY <1>0, <2>1 DEF TypeInv, TypeOK
  <2> SUFFICES ASSUME NEW k \in Jobs, NEW t \in Steps, t \in returned'[k]
               PROVE  \/ stepStatus'[k][t] = "completed"
                      \/ \E f \in Slots : sjob'[f] = k /\ pc'[f] = "returned" /\ idx'[f] = t
    BY DEF ReturnedKnown
  <2> QED
    BY <2>1, <2>2, <2>3, <2>4 DEF ReturnedKnown
<1>4. ASSUME NEW applied \in BOOLEAN, CompleteStep(e, applied) PROVE ReturnedKnown'
  <2> DEFINE j == sjob[e]
             s == idx[e]
  <2>1. applied
    BY <1>0, <1>4
    DEF CompleteStep, Reaches, Fault, NoLostComplete, Faults, TypeInv, TypeOK
  <2>2. /\ j \in Jobs /\ s \in Steps
        /\ stepStatus' = [stepStatus EXCEPT ![j][s] = "completed"]
        /\ pc' = [pc EXCEPT ![e] = "loop"]
        /\ idx' = [idx EXCEPT ![e] = @ + 1]
        /\ UNCHANGED <<sjob, returned>>
    BY <1>0, <1>4, <2>1 DEF CompleteStep, TypeInv, SlotShape
  <2>3. \A f \in Slots : f # e /\ pc[f] = "returned" =>
           pc'[f] = "returned" /\ sjob'[f] = sjob[f] /\ idx'[f] = idx[f]
    BY <1>0, <2>2 DEF TypeInv, TypeOK
  <2>4. sjob[e] = j /\ idx[e] = s
    OBVIOUS
  <2> HIDE DEF j, s
  <2>5. ASSUME NEW k \in Jobs, NEW t \in Steps
        PROVE  stepStatus'[k][t] =
                 IF k = j /\ t = s THEN "completed" ELSE stepStatus[k][t]
    BY <1>0, <2>2 DEF TypeInv, TypeOK
  <2> SUFFICES ASSUME NEW k \in Jobs, NEW t \in Steps, t \in returned[k],
                      stepStatus'[k][t] # "completed"
               PROVE  \E f \in Slots : sjob'[f] = k /\ pc'[f] = "returned" /\ idx'[f] = t
    BY <2>2 DEF ReturnedKnown
  <2>6. stepStatus[k][t] # "completed" /\ ~(k = j /\ t = s)
    BY <2>5
  <2>7. PICK f \in Slots : sjob[f] = k /\ pc[f] = "returned" /\ idx[f] = t
    BY <2>6 DEF ReturnedKnown
  <2>8. f # e
    BY <2>4, <2>6, <2>7
  <2> QED
    BY <2>3, <2>7, <2>8
<1>5. ASSUME NEW applied \in BOOLEAN, MissingHandler(e, applied) PROVE ReturnedKnown'
  <2>1. /\ AtWork(e, sjob[e]) /\ sjob[e] \in Jobs /\ idx[e] \in Steps \ snapDone[e]
        /\ pc[e] # "returned"
    BY <1>0, <1>5, NumStepsAssumption DEF MissingHandler, AtWork, Executing, Steps
  <2> QED
    BY <1>5, <2>1, ReturnsEnd DEF MissingHandler
<1>6. ASSUME NEW retryable \in BOOLEAN, NEW hinted \in BOOLEAN, NEW applied \in BOOLEAN,
             FailStep(e, retryable, hinted, applied)
      PROVE  ReturnedKnown'
  <2>1. /\ AtWork(e, sjob[e]) /\ sjob[e] \in Jobs /\ idx[e] \in Steps \ snapDone[e]
        /\ pc[e] # "returned"
    BY <1>0, <1>6 DEF FailStep, AtWork, Executing, TypeInv, SlotShape
  <2>2. PICK retryAt \in BOOLEAN : EndWithFailure(e, retryAt, applied)
    BY <1>6 DEF FailStep
  <2> QED
    BY <2>1, <2>2, ReturnsEnd
<1> QED
  BY <1>1, <1>2, <1>3, <1>4, <1>5, <1>6 DEF SlotStep

LEMMA ReturnsWorker ==
  ASSUME JobInv, Careful, Careful', ReturnedKnown, WorkerStep
  PROVE  ReturnedKnown'
<1> USE DEF rowVars, stepVars, slotVars, opVars, Goto
<1>0. TypeInv
  BY DEF JobInv, StepInv, LockInv
<1>1. ASSUME NEW e \in Slots, NEW j \in Jobs, NEW delivered \in BOOLEAN,
             Claim(e, j, delivered)
      PROVE  ReturnedKnown'
  <2>1. /\ UNCHANGED <<stepStatus, returned, idx>>
        /\ pc[e] = "idle"
        /\ \/ pc' = [pc EXCEPT ![e] = "claimed"] /\ sjob' = [sjob EXCEPT ![e] = j]
           \/ UNCHANGED <<pc, sjob>>
    BY <1>1 DEF Claim
  <2>2. \A f \in Slots : pc[f] = "returned" =>
          pc'[f] = "returned" /\ sjob'[f] = sjob[f] /\ idx'[f] = idx[f]
    BY <1>0, <2>1 DEF TypeInv, TypeOK
  <2> QED
    BY <2>1, <2>2, ReturnsFrame
<1>2. ASSUME NEW e \in Slots, SaveMarker(e) \/ Heartbeat(e) PROVE ReturnedKnown'
  BY <1>2, ReturnsFrame DEF SaveMarker, Heartbeat
<1>3. ASSUME NEW w \in Workers, Crash(w) PROVE FALSE
  BY <1>0, <1>3 DEF Crash, Fault, Careful, NoCrash, Faults, TypeInv, TypeOK
<1> QED
  BY <1>1, <1>2, <1>3, ReturnsSlot DEF WorkerStep, Careful

\* A requeue finds no execution of the job, so what has returned has completed.
LEMMA ReturnsOperator ==
  ASSUME JobInv, NoOverrun, ReturnedKnown, OperatorStep
  PROVE  ReturnedKnown'
<1>0. TypeInv /\ Held /\ OperatorsWait
  BY DEF JobInv, StepInv, LockInv
<1>1. ASSUME NEW o \in Operators, Requeue(o) PROVE ReturnedKnown'
  <2> DEFINE j == opJob[o]
             reset == ToReset(j, opFull[o])
  <2>1. /\ j \in Jobs /\ Terminal(j)
        /\ stepStatus' = [stepStatus EXCEPT ![j] =
                            [s \in Steps |-> IF s \in reset THEN "pending" ELSE @[s]]]
        /\ returned' = [returned EXCEPT ![j] = IF opFull[o] THEN {} ELSE @]
        /\ UNCHANGED <<pc, sjob, idx>>
    BY <1>0, <1>1 DEF Requeue, OperatorsWait, slotVars, TypeInv, TypeOK
  <2>2. \A f \in Slots : ~Executing(f, j)
    BY <1>0, <2>1 DEF Held, Holds, Terminal
  <2>3. ~opFull[o] => \A s \in reset : stepStatus[j][s] # "completed"
    BY DEF ToReset
  <2> HIDE DEF j, reset
  <2>4. ASSUME NEW k \in Jobs
        PROVE  /\ returned'[k] = IF k = j /\ opFull[o] THEN {} ELSE returned[k]
               /\ \A s \in Steps : stepStatus'[k][s] =
                    IF k = j /\ s \in reset THEN "pending" ELSE stepStatus[k][s]
    BY <1>0, <2>1 DEF TypeInv, TypeOK
  <2> SUFFICES ASSUME NEW k \in Jobs, NEW t \in Steps, t \in returned'[k]
               PROVE  \/ stepStatus'[k][t] = "completed"
                      \/ \E f \in Slots : sjob'[f] = k /\ pc'[f] = "returned" /\ idx'[f] = t
    BY DEF ReturnedKnown
  <2>5. CASE k = j
    <3>1. ~opFull[o] /\ t \in returned[j]
      BY <2>4, <2>5
    <3>2. \A f \in Slots : ~(sjob[f] = j /\ pc[f] = "returned")
      BY <2>2 DEF Executing
    <3>3. stepStatus[j][t] = "completed"
      BY <2>1, <3>1, <3>2 DEF ReturnedKnown
    <3> QED
      BY <2>3, <2>4, <2>5, <3>1, <3>3
  <2>6. CASE k # j
    BY <2>1, <2>4, <2>6 DEF ReturnedKnown
  <2> QED
    BY <2>5, <2>6
<1>2. ASSUME UNCHANGED <<rowVars, stepVars, slotVars, returned>> PROVE ReturnedKnown'
  BY <1>2, ReturnsFrame DEF stepVars, slotVars
<1> QED
  BY <1>1, <1>2 DEF OperatorStep, RetryDeadLetterCheck, RequeueCheck

LEMMA ReturnNext ==
  ASSUME SingleOperator, ReturnInv, [Next]_vars
  PROVE  ReturnInv'
<1>1. JobInv'
  BY JobNext DEF ReturnInv
<1> SUFFICES ASSUME Careful' PROVE ReturnedKnown'
  BY <1>1 DEF ReturnInv
<1>2. Careful
  BY FaultsOnlyGrow
  DEF FaultsUp, Faults, Careful, NoOverrun, NoLostComplete, NoCrash,
      ReturnInv, JobInv, StepInv, LockInv
<1>3. JobInv /\ ReturnedKnown
  BY <1>2 DEF ReturnInv
<1>4. CASE DatabaseStep \/ UNCHANGED vars
  BY <1>3, <1>4, ReturnsFrame
  DEF DatabaseStep, Enqueue, BecomeDue, LockExpires, LockOverrun, RecoverStuckJobs,
      vars, stepVars, slotVars
<1> QED
  BY <1>2, <1>3, <1>4, ReturnsWorker, ReturnsOperator DEF Next, Careful

LEMMA ReturnAlways ==
  ASSUME SingleOperator
  PROVE  Spec => []ReturnInv
<1>1. Init => ReturnInv
  BY JobInit DEF Init, ReturnInv, ReturnedKnown
<1> QED
  BY <1>1, ReturnNext, PTL DEF Spec

\* Only StartStep puts a handler to work.
LEMMA HandlerStarts ==
  ASSUME TypeInv, [Next]_vars, NEW e \in Slots, pc[e] = "loop", pc'[e] = "handler"
  PROVE  \E fetched \in BOOLEAN : StartStep(e, fetched)
<1> USE DEF rowVars, stepVars, slotVars, opVars, Goto
<1>1. ASSUME NEW f \in Slots, SlotStep(f), \A fetched \in BOOLEAN : ~StartStep(f, fetched)
      PROVE  FALSE
  <2>1. pc' = pc \/ SlotsBecomeIdle({f})
        \/ \E label \in {"loop", "returned", "threw"} : pc' = [pc EXCEPT ![f] = label]
    BY <1>1
    DEF SlotStep, BreakerBlocks, ReadSteps, ReadStepsFails, SkipCompleted,
        HandlerReturns, HandlerThrows, CompleteStep, MissingHandler, FailStep,
        EndWithFailure, Finish
  <2> QED
    BY <2>1 DEF SlotsBecomeIdle, TypeInv, TypeOK
<1>2. ASSUME NEW f \in Slots, NEW fetched \in BOOLEAN, StartStep(f, fetched) PROVE f = e
  <2>1. pc' = [pc EXCEPT ![f] = "handler"]
    BY <1>2 DEF StartStep
  <2> QED
    BY <2>1 DEF TypeInv, TypeOK
<1>3. ASSUME NEW f \in Slots, NEW j \in Jobs, NEW delivered \in BOOLEAN,
             Claim(f, j, delivered)
      PROVE  FALSE
  <2>1. pc' = pc \/ pc' = [pc EXCEPT ![f] = "claimed"]
    BY <1>3 DEF Claim
  <2> QED
    BY <2>1 DEF TypeInv, TypeOK
<1>4. CASE WorkerStep
  <2>1. ASSUME NEW f \in Slots, SaveMarker(f) \/ Heartbeat(f) PROVE FALSE
    BY <2>1 DEF SaveMarker, Heartbeat
  <2>2. ASSUME NEW w \in Workers, Crash(w) PROVE FALSE
    BY <2>2 DEF Crash, SlotsBecomeIdle
  <2>3. PICK f \in Slots : SlotStep(f)
    BY <1>3, <1>4, <2>1, <2>2 DEF WorkerStep
  <2> QED
    BY <1>1, <1>2, <2>3
<1> QED
  BY <1>4
  DEF Next, DatabaseStep, Enqueue, BecomeDue, LockExpires, LockOverrun, RecoverStuckJobs,
      OperatorStep, RetryDeadLetterCheck, RequeueCheck, Requeue, vars

\* A step whose handler returned is not run again before a full reset, unless a
\* process crashed, a complete_step was lost or a lock was overrun meanwhile.
THEOREM SuccessIsNotRepeated ==
  ASSUME SingleOperator
  PROVE  Spec => NoRepeatedSuccess
<1> DEFINE A ==
      \A e \in Slots :
        pc[e] = "loop" /\ pc'[e] = "handler" /\ idx[e] \in returned[sjob[e]] =>
          \E kind \in {"overrun", "crash", "lostComplete"} : faults[kind] > 0
<1>1. ASSUME ReturnInv, [Next]_vars PROVE A
  <2>0. TypeInv /\ StepInv
    BY <1>1 DEF ReturnInv, JobInv, StepInv, LockInv
  <2> SUFFICES ASSUME NEW e \in Slots, pc[e] = "loop", pc'[e] = "handler",
                      idx[e] \in returned[sjob[e]],
                      \A kind \in {"overrun", "crash", "lostComplete"} : ~(faults[kind] > 0)
               PROVE  FALSE
    OBVIOUS
  <2> DEFINE j == sjob[e]
             s == idx[e]
  <2>1. Careful
    <3>1. \A kind \in {"overrun", "crash", "lostComplete"} : faults[kind] \in Nat
      BY <2>0 DEF TypeInv, TypeOK, Faults
    <3> QED
      BY <3>1 DEF Careful, NoOverrun, NoLostComplete, NoCrash
  <2>2. PICK fetched \in BOOLEAN : StartStep(e, fetched)
    BY <1>1, <2>0, HandlerStarts
  <2>3. j \in Jobs /\ s \in Steps \ snapDone[e]
    BY <2>0, <2>2, RegisteredAssumption, WorkerOfAssumption
    DEF StartStep, TypeInv, TypeOK, SlotShape
  <2>4. AtWork(e, j)
    BY <2>3, NumStepsAssumption DEF AtWork, Executing, Steps
  <2>5. stepStatus[j][s] = "pending" /\ \A f \in Slots : Executing(f, j) => f = e
    BY <2>0, <2>1, <2>3, <2>4, StepAtHand DEF Careful
  <2>6. PICK f \in Slots : sjob[f] = j /\ pc[f] = "returned"
    BY <1>1, <2>1, <2>3, <2>5 DEF ReturnInv, ReturnedKnown
  <2> QED
    BY <2>5, <2>6 DEF Executing
<1> QED
  BY <1>1, ReturnAlways, PTL DEF Spec, NoRepeatedSuccess

----------------------------------------------------------------------------
(* Overlap.  When locks are overrun, executions of a job are counted against the  *)
(* overruns: one more than those only under a live lock, and none more once the   *)
(* process that holds it has left the job.                                        *)

Busy(j)   == {e \in Slots : Executing(e, j)}
Locked(j) == jobStatus[j] = "running" /\ lockLive[j] = TRUE

\* A requeue begun when the job had ended, of a job that has been reopened since.
Pending(j) == ~Terminal(j) /\ \E o \in Operators : opJob[o] = j

Load(j) == Cardinality(Busy(j)) + IF Pending(j) THEN 1 ELSE 0

LoadBounded(j) ==
  /\ Load(j) <= faults["overrun"] + IF Locked(j) THEN 1 ELSE 0
  /\ Locked(j) /\ Abandoned(j) => Load(j) <= faults["overrun"]

OverlapInv == TypeInv /\ \A j \in Jobs : LoadBounded(j)

LEMMA BusyCounts ==
  ASSUME IsFiniteSet(Slots), NEW j
  PROVE  IsFiniteSet(Busy(j)) /\ Cardinality(Busy(j)) \in Nat
BY FS_Subset, FS_CardinalityType DEF Busy

LEMMA BusyCountsNext ==
  ASSUME IsFiniteSet(Slots), NEW j
  PROVE  IsFiniteSet(Busy(j)') /\ Cardinality(Busy(j)') \in Nat
BY FS_Subset, FS_CardinalityType DEF Busy

\* A row that is kept: executions may only leave.
LEMMA LoadRowKept ==
  ASSUME IsFiniteSet(Slots), faults \in [Faults -> Nat], NEW j \in Jobs, LoadBounded(j),
         jobStatus'[j] = jobStatus[j], lockedBy'[j] = lockedBy[j],
         lockLive'[j] = lockLive[j], faults'["overrun"] = faults["overrun"],
         \A e \in Slots : Executing(e, j)' => Executing(e, j),
         (\E o \in Operators : opJob'[o] = j) => \E o \in Operators : opJob[o] = j
  PROVE  LoadBounded(j)'
<1> DEFINE B == Busy(j)
           C == Busy(j)'
<1>1. IsFiniteSet(B) /\ Cardinality(B) \in Nat /\ Cardinality(C) \in Nat
  BY BusyCounts, BusyCountsNext
<1>2. C \subseteq B
  BY DEF Busy
<1>3. Cardinality(C) <= Cardinality(B) /\ (Cardinality(C) = Cardinality(B) => C = B)
  BY <1>1, <1>2, FS_Subset
<1>4. Locked(j)' <=> Locked(j)
  BY DEF Locked
<1>5. Pending(j)' => Pending(j)
  BY DEF Pending, Terminal
<1>6. faults["overrun"] \in Nat
  BY DEF Faults
<1>7. C = B => (Abandoned(j)' => Abandoned(j))
  BY DEF Abandoned, Busy
<1> HIDE DEF B, C
<1>8. Load(j) = Cardinality(B) + (IF Pending(j) THEN 1 ELSE 0)
      /\ Load(j)' = Cardinality(C) + (IF Pending(j)' THEN 1 ELSE 0)
  BY DEF Load, B, C
<1>9. CASE C = B
  <2>1. Load(j)' <= Load(j) /\ Load(j) \in Nat /\ Load(j)' \in Nat
    BY <1>1, <1>5, <1>8, <1>9
  <2> QED
    BY <1>4, <1>6, <1>7, <1>9, <2>1 DEF LoadBounded
<1>10. CASE C # B
  <2>1. Load(j)' + 1 <= Load(j) /\ Load(j) \in Nat /\ Load(j)' \in Nat
    BY <1>1, <1>3, <1>5, <1>8, <1>10
  <2> QED
    BY <1>4, <1>6, <2>1 DEF LoadBounded
<1> QED
  BY <1>9, <1>10

\* An execution that gives the lock up leaves its job, and so pays for the requeue
\* that finds it reopened.
LEMMA LoadGivenUp ==
  ASSUME IsFiniteSet(Slots), faults \in [Faults -> Nat], NEW j \in Jobs, LoadBounded(j),
         lockLive'[j] = FALSE, faults'["overrun"] = faults["overrun"],
         NEW e \in Slots, Executing(e, j), ~Executing(e, j)',
         \A f \in Slots : Executing(f, j)' => Executing(f, j),
         opJob' = opJob
  PROVE  LoadBounded(j)'
<1> DEFINE B == Busy(j)
           C == Busy(j)'
<1>1. IsFiniteSet(B) /\ Cardinality(B) \in Nat /\ Cardinality(C) \in Nat
  BY BusyCounts, BusyCountsNext
<1>2. C \subseteq B /\ C # B
  BY DEF Busy
<1>3. Cardinality(C) + 1 <= Cardinality(B)
  BY <1>1, <1>2, FS_Subset
<1>4. ~Locked(j)'
  BY DEF Locked
<1>5. Locked(j) => (Pending(j)' => Pending(j))
  BY DEF Pending, Terminal, Locked
<1>6. faults["overrun"] \in Nat
  BY DEF Faults
<1> HIDE DEF B, C
<1>8. Load(j) = Cardinality(B) + (IF Pending(j) THEN 1 ELSE 0)
      /\ Load(j)' = Cardinality(C) + (IF Pending(j)' THEN 1 ELSE 0)
  BY DEF Load, B, C
<1>9. Load(j)' <= Load(j) /\ Load(j) \in Nat /\ Load(j)' \in Nat
  BY <1>1, <1>3, <1>8
<1>10. Locked(j) => Load(j)' + 1 <= Load(j)
  BY <1>1, <1>3, <1>5, <1>8
<1> QED
  BY <1>4, <1>6, <1>9, <1>10 DEF LoadBounded

\* While the lock is not live before or after, a load that does not grow is bounded.
LEMMA LoadUnlocked ==
  ASSUME IsFiniteSet(Slots), faults \in [Faults -> Nat], NEW j \in Jobs, LoadBounded(j),
         ~Locked(j) \/ Abandoned(j), faults'["overrun"] = faults["overrun"],
         \A e \in Slots : Executing(e, j)' <=> Executing(e, j),
         Pending(j)' => Pending(j)
  PROVE  LoadBounded(j)'
<1> DEFINE B == Busy(j)
<1>1. Cardinality(B) \in Nat
  BY BusyCounts
<1>2. Busy(j)' = B
  BY DEF Busy
<1>3. faults["overrun"] \in Nat
  BY DEF Faults
<1> HIDE DEF B
<1>4. Load(j) = Cardinality(B) + (IF Pending(j) THEN 1 ELSE 0)
      /\ Load(j)' = Cardinality(B) + (IF Pending(j)' THEN 1 ELSE 0)
  BY <1>2 DEF Load, B
<1>5. Load(j)' <= Load(j) /\ Load(j) \in Nat /\ Load(j)' \in Nat
  BY <1>1, <1>4
<1>6. Load(j) <= faults["overrun"]
  BY <1>3, <1>5 DEF LoadBounded
<1> QED
  BY <1>3, <1>5, <1>6 DEF LoadBounded

LEMMA OverlapDatabase ==
  ASSUME IsFiniteSet(Slots), OverlapInv, DatabaseStep, NEW j \in Jobs
  PROVE  LoadBounded(j)'
<1> USE DEF slotVars, opVars
<1>0. TypeInv /\ LoadBounded(j) /\ faults \in [Faults -> Nat] /\ "overrun" \in Faults
  BY DEF OverlapInv, TypeInv, TypeOK, Faults
<1>1. UNCHANGED <<pc, sjob, idx, opJob>>
  BY DEF DatabaseStep, Enqueue, BecomeDue, LockExpires, LockOverrun, RecoverStuckJobs
<1>2. \A e \in Slots : Executing(e, j)' <=> Executing(e, j)
  BY <1>1 DEF Executing
<1>3. ASSUME NEW k \in Jobs, NEW now \in BOOLEAN, Enqueue(k, now) PROVE LoadBounded(j)'
  <2>1. /\ jobStatus[k] = "absent" /\ jobStatus' = [jobStatus EXCEPT ![k] = "pending"]
        /\ UNCHANGED <<lockedBy, lockLive, faults>>
    BY <1>3 DEF Enqueue
  <2>2. CASE j # k
    BY <1>0, <1>1, <1>2, <2>1, <2>2, LoadRowKept DEF TypeInv, TypeOK
  <2>3. CASE j = k
    <3>1. ~Locked(j) /\ ~Terminal(j)
      BY <2>1, <2>3 DEF Locked, Terminal
    <3>2. Pending(j)' => Pending(j)
      BY <1>1, <3>1 DEF Pending
    <3> QED
      BY <1>0, <1>2, <2>1, <3>1, <3>2, LoadUnlocked
  <2> QED
    BY <2>2, <2>3
<1>4. ASSUME NEW k \in Jobs, BecomeDue(k) PROVE LoadBounded(j)'
  BY <1>0, <1>1, <1>2, <1>4, LoadRowKept DEF BecomeDue
<1>5. ASSUME NEW k \in Jobs, LockExpires(k) PROVE LoadBounded(j)'
  <2>1. /\ Abandoned(k) /\ lockLive' = [lockLive EXCEPT ![k] = FALSE]
        /\ UNCHANGED <<jobStatus, lockedBy, faults>>
    BY <1>5 DEF LockExpires
  <2>2. CASE j # k
    BY <1>0, <1>1, <1>2, <2>1, <2>2, LoadRowKept DEF TypeInv, TypeOK
  <2>3. CASE j = k
    <3>1. Pending(j)' => Pending(j)
      BY <1>1, <2>1 DEF Pending, Terminal
    <3> QED
      BY <1>0, <1>2, <2>1, <2>3, <3>1, LoadUnlocked
  <2> QED
    BY <2>2, <2>3
<1>6. ASSUME NEW k \in Jobs, LockOverrun(k) PROVE LoadBounded(j)'
  <2>1. faults'["overrun"] = faults["overrun"] + 1 /\ faults["overrun"] \in Nat
        /\ UNCHANGED jobStatus
    BY <1>0, <1>6 DEF LockOverrun, Fault
  <2>2. Busy(j)' = Busy(j) /\ (Pending(j)' <=> Pending(j)) /\ Cardinality(Busy(j)) \in Nat
    BY <1>1, <1>2, <2>1, BusyCounts DEF Busy, Pending, Terminal
  <2>3. Load(j)' = Load(j) /\ Load(j) \in Nat
    BY <2>2 DEF Load
  <2>4. Load(j)' <= faults'["overrun"]
    BY <1>0, <2>1, <2>3 DEF LoadBounded
  <2> QED
    BY <2>1, <2>3, <2>4 DEF LoadBounded
<1>7. CASE RecoverStuckJobs
  <2>1. /\ jobStatus' = [k \in Jobs |-> IF k \in Stuck THEN "retrying" ELSE jobStatus[k]]
        /\ lockedBy' = [k \in Jobs |-> IF k \in Stuck THEN None ELSE lockedBy[k]]
        /\ UNCHANGED <<lockLive, faults>>
    BY <1>7 DEF RecoverStuckJobs
  <2>2. CASE j \notin Stuck
    BY <1>0, <1>1, <1>2, <2>1, <2>2, LoadRowKept
  <2>3. CASE j \in Stuck
    <3>1. ~Locked(j) /\ ~Terminal(j)
      BY <2>3 DEF Locked, Terminal, Stuck
    <3>2. Pending(j)' => Pending(j)
      BY <1>1, <3>1 DEF Pending
    <3> QED
      BY <1>0, <1>2, <2>1, <3>1, <3>2, LoadUnlocked
  <2> QED
    BY <2>2, <2>3
<1> QED
  BY <1>3, <1>4, <1>5, <1>6, <1>7 DEF DatabaseStep

LEMMA OverlapOperator ==
  ASSUME SingleOperator, IsFiniteSet(Slots), OverlapInv, OperatorStep, NEW j \in Jobs
  PROVE  LoadBounded(j)'
<1> USE DEF slotVars, rowVars
<1>0. TypeInv /\ LoadBounded(j) /\ faults \in [Faults -> Nat] /\ "overrun" \in Faults
  BY DEF OverlapInv, TypeInv, TypeOK, Faults
<1>1. UNCHANGED <<pc, sjob, idx, faults>>
  BY DEF OperatorStep, RetryDeadLetterCheck, RequeueCheck, Requeue
<1>2. \A e \in Slots : Executing(e, j)' <=> Executing(e, j)
  BY <1>1 DEF Executing
<1>3. ASSUME NEW o \in Operators, NEW k \in Jobs, Terminal(k),
             opJob' = [opJob EXCEPT ![o] = k], UNCHANGED rowVars
      PROVE  LoadBounded(j)'
  <2>1. CASE j # k
    <3>1. (\E p \in Operators : opJob'[p] = j) => \E p \in Operators : opJob[p] = j
      BY <1>0, <1>3, <2>1 DEF TypeInv, TypeOK
    <3> QED
      BY <1>0, <1>1, <1>2, <1>3, <3>1, LoadRowKept
  <2>2. CASE j = k
    <3>1. ~Locked(j) /\ ~Pending(j)'
      BY <1>3, <2>2 DEF Locked, Terminal, Pending
    <3> QED
      BY <1>0, <1>1, <1>2, <3>1, LoadUnlocked
  <2> QED
    BY <2>1, <2>2
<1>4. ASSUME NEW o \in Operators, Requeue(o) PROVE LoadBounded(j)'
  <2> DEFINE k == opJob[o]
  <2>1. /\ k \in Jobs
        /\ opJob' = [opJob EXCEPT ![o] = None]
        /\ jobStatus' = [jobStatus EXCEPT ![k] = "pending"]
        /\ lockedBy' = [lockedBy EXCEPT ![k] = None]
        /\ lockLive' = [lockLive EXCEPT ![k] = FALSE]
    BY <1>0, <1>4 DEF Requeue, Unlock, TypeInv, TypeOK
  <2>2. \A p \in Operators : opJob'[p] = None
    BY <1>0, <2>1 DEF SingleOperator, TypeInv, TypeOK
  <2>3. ~Pending(j)'
    BY <2>2, NoneAssumption DEF Pending
  <2>4. CASE j # k
    <3>1. ~\E p \in Operators : opJob'[p] = j
      BY <2>2, NoneAssumption
    <3> QED
      BY <1>0, <1>1, <1>2, <2>1, <2>4, <3>1, LoadRowKept DEF TypeInv, TypeOK
  <2>5. CASE j = k
    <3>1. CASE Terminal(j)
      <4>1. ~Locked(j)
        BY <3>1 DEF Locked, Terminal
      <4> QED
        BY <1>0, <1>1, <1>2, <2>3, <4>1, LoadUnlocked
    <3>2. CASE ~Terminal(j)
      <4>1. Pending(j)
        BY <2>5, <3>2 DEF Pending
      <4>2. Busy(j)' = Busy(j) /\ Cardinality(Busy(j)) \in Nat
        BY <1>2, BusyCounts DEF Busy
      <4>3. Load(j)' + 1 = Load(j) /\ Load(j)' \in Nat
        BY <2>3, <4>1, <4>2 DEF Load
      <4>4. faults["overrun"] \in Nat /\ faults' = faults
        BY <1>0, <1>1
      <4> QED
        BY <1>0, <4>3, <4>4 DEF LoadBounded
    <3> QED
      BY <3>1, <3>2
  <2> QED
    BY <2>4, <2>5
<1>5. ASSUME NEW o \in Operators, NEW k \in Jobs, RetryDeadLetterCheck(o, k)
      PROVE  LoadBounded(j)'
  BY <1>3, <1>5 DEF RetryDeadLetterCheck, Terminal
<1>6. ASSUME NEW o \in Operators, NEW k \in Jobs, NEW override \in BOOLEAN,
             RequeueCheck(o, k, override)
      PROVE  LoadBounded(j)'
  BY <1>3, <1>6 DEF RequeueCheck
<1> QED
  BY <1>4, <1>5, <1>6 DEF OperatorStep

\* What a slot does: it leaves its job with the row as it is, or it goes on, or it
\* gives the lock up and leaves.
LEMMA OverlapSlot ==
  ASSUME IsFiniteSet(Slots), OverlapInv, NEW e \in Slots, SlotStep(e), NEW j \in Jobs
  PROVE  LoadBounded(j)'
<1> USE DEF rowVars, slotVars, opVars, Goto
<1>0. /\ TypeInv /\ LoadBounded(j) /\ faults \in [Faults -> Nat]
      /\ (pc[e] # "idle" => sjob[e] \in Jobs)
  BY DEF OverlapInv, TypeInv, TypeOK, SlotShape
<1> DEFINE Leave == \A f \in Slots : Executing(f, j)' => Executing(f, j)
<1>1. opJob' = opJob /\ faults'["overrun"] = faults["overrun"]
  <2>1. ASSUME NEW kind \in Faults \ {"overrun"}, Fault(kind)
        PROVE  faults'["overrun"] = faults["overrun"]
    BY <1>0, <2>1 DEF Fault, Faults
  <2>2. ASSUME NEW kind \in Faults \ {"overrun"}, NEW applied \in BOOLEAN,
               Reaches(applied, kind)
        PROVE  faults'["overrun"] = faults["overrun"]
    BY <2>1, <2>2 DEF Reaches
  <2>3. {"crash", "lostComplete", "lostCall", "blindRead"} \subseteq Faults \ {"overrun"}
    BY DEF Faults
  <2> QED
    BY <2>1, <2>2, <2>3
    DEF SlotStep, BreakerBlocks, ReadSteps, ReadStepsFails, SkipCompleted, StartStep,
        HandlerReturns, HandlerThrows, CompleteStep, MissingHandler, FailStep,
        EndWithFailure, Finish
<1>2. ASSUME Leave, UNCHANGED <<jobStatus, lockedBy, lockLive>> PROVE LoadBounded(j)'
  BY <1>0, <1>1, <1>2, LoadRowKept
<1>3. ASSUME Leave, NEW st, Unlock(sjob[e], st), Executing(e, sjob[e]),
             ~Executing(e, sjob[e])'
      PROVE  LoadBounded(j)'
  <2>1. CASE sjob[e] = j
    <3>1. lockLive'[j] = FALSE
      BY <1>0, <1>3, <2>1 DEF Unlock, TypeInv, TypeOK
    <3>2. Executing(e, j) /\ ~Executing(e, j)'
      BY <1>3, <2>1 DEF Executing
    <3> QED
      BY <1>0, <1>1, <1>3, <3>1, <3>2, LoadGivenUp
  <2>2. CASE sjob[e] # j
    <3>1. /\ jobStatus'[j] = jobStatus[j] /\ lockedBy'[j] = lockedBy[j]
          /\ lockLive'[j] = lockLive[j]
      BY <1>0, <1>3, <2>2 DEF Unlock, TypeInv, TypeOK
    <3> QED
      BY <1>0, <1>1, <1>3, <3>1, LoadRowKept
  <2> QED
    BY <2>1, <2>2
<1>4. ASSUME SlotsBecomeIdle({e}), pc[e] # "idle",
             \/ UNCHANGED <<jobStatus, lockedBy, lockLive>>
             \/ Executing(e, sjob[e]) /\ \E st \in JobStatus : Unlock(sjob[e], st)
      PROVE  LoadBounded(j)'
  <2>1. Leave /\ \A k \in Jobs : ~Executing(e, k)'
    BY <1>4 DEF SlotsBecomeIdle, Executing
  <2>2. CASE Executing(e, sjob[e]) /\ \E st \in JobStatus : Unlock(sjob[e], st)
    <3>1. ~Executing(e, sjob[e])'
      BY <1>4 DEF SlotsBecomeIdle, Executing
    <3> QED
      BY <1>3, <2>1, <2>2, <3>1
  <2> QED
    BY <1>2, <1>4, <2>1, <2>2
<1>5. ASSUME NEW applied \in BOOLEAN, BreakerBlocks(e, applied) PROVE LoadBounded(j)'
  BY <1>4, <1>5 DEF BreakerBlocks, Executing, JobStatus
<1>6. ASSUME NEW applied \in BOOLEAN, ReadStepsFails(e, applied) PROVE LoadBounded(j)'
  BY <1>0, <1>4, <1>6 DEF ReadStepsFails, Executing, JobStatus, TypeInv, TypeOK
<1>7. CASE ReadSteps(e) \/ HandlerReturns(e) \/ HandlerThrows(e)
  <2>1. Leave
    BY <1>0, <1>7
    DEF ReadSteps, HandlerReturns, HandlerThrows, Executing, TypeInv, TypeOK
  <2> QED
    BY <1>2, <1>7, <2>1 DEF ReadSteps, HandlerReturns, HandlerThrows
<1>8. CASE SkipCompleted(e)
  <2>1. idx[e] \in Steps
    BY <1>0, <1>8 DEF SkipCompleted, AlreadyDone, TypeInv, TypeOK
  <2>2. Leave
    BY <1>0, <1>8, <2>1, NumStepsAssumption
    DEF SkipCompleted, Executing, Steps, TypeInv, TypeOK
  <2> QED
    BY <1>2, <1>8, <2>2 DEF SkipCompleted
<1>9. ASSUME NEW fetched \in BOOLEAN, StartStep(e, fetched) PROVE LoadBounded(j)'
  <2>1. idx[e] \in Steps
    BY <1>9, RegisteredAssumption, WorkerOfAssumption DEF StartStep
  <2>2. Leave
    BY <1>0, <1>9, <2>1, NumStepsAssumption
    DEF StartStep, Executing, Steps, TypeInv, TypeOK
  <2> QED
    BY <1>2, <1>9, <2>2 DEF StartStep
<1>10. ASSUME NEW applied \in BOOLEAN, CompleteStep(e, applied) PROVE LoadBounded(j)'
  <2>1. /\ pc[e] = "returned" /\ idx[e] \in Steps
        /\ pc' = [pc EXCEPT ![e] = "loop"]
        /\ idx' = [idx EXCEPT ![e] = @ + 1]
        /\ UNCHANGED sjob
    BY <1>0, <1>10 DEF CompleteStep, TypeInv, SlotShape
  <2>2. Leave
    BY <1>0, <2>1 DEF Executing, TypeInv, TypeOK
  <2>3. CASE LastStep(idx[e]) /\ Unlock(sjob[e], "completed")
    <3>1. Executing(e, sjob[e])
      BY <2>1 DEF Executing
    <3>2. ~Executing(e, sjob[e])'
      BY <1>0, <2>1, <2>3, NumStepsAssumption
      DEF LastStep, Executing, Steps, TypeInv, TypeOK
    <3> QED
      BY <1>3, <2>2, <2>3, <3>1, <3>2
  <2> QED
    BY <1>2, <1>10, <2>2, <2>3 DEF CompleteStep
<1>11. ASSUME NEW retryAt \in BOOLEAN, NEW applied \in BOOLEAN, pc[e] # "idle",
              EndWithFailure(e, retryAt, applied), Executing(e, sjob[e])
       PROVE  LoadBounded(j)'
  <2>1. /\ SlotsBecomeIdle({e})
        /\ \/ UNCHANGED <<jobStatus, lockedBy, lockLive>>
           \/ \E st \in JobStatus : Unlock(sjob[e], st)
    BY <1>11 DEF EndWithFailure, FailStepSQL, JobStatus
  <2> QED
    BY <1>4, <1>11, <2>1
<1>12. ASSUME NEW applied \in BOOLEAN, MissingHandler(e, applied) PROVE LoadBounded(j)'
  <2>1. pc[e] # "idle" /\ Executing(e, sjob[e])
    BY <1>12, NumStepsAssumption DEF MissingHandler, Executing, Steps
  <2> QED
    BY <1>11, <1>12, <2>1 DEF MissingHandler
<1>13. ASSUME NEW retryable \in BOOLEAN, NEW hinted \in BOOLEAN, NEW applied \in BOOLEAN,
              FailStep(e, retryable, hinted, applied)
       PROVE  LoadBounded(j)'
  <2>1. PICK retryAt \in BOOLEAN : EndWithFailure(e, retryAt, applied)
    BY <1>13 DEF FailStep
  <2>2. pc[e] # "idle" /\ Executing(e, sjob[e])
    BY <1>13 DEF FailStep, Executing
  <2> QED
    BY <1>11, <2>1, <2>2
<1>14. CASE Finish(e)
  BY <1>4, <1>14 DEF Finish
<1> QED
  BY <1>5, <1>6, <1>7, <1>8, <1>9, <1>10, <1>12, <1>13, <1>14 DEF SlotStep

LEMMA OverlapClaim ==
  ASSUME IsFiniteSet(Slots), OverlapInv, NEW e \in Slots, NEW k \in Jobs,
         NEW delivered \in BOOLEAN, Claim(e, k, delivered), NEW j \in Jobs
  PROVE  LoadBounded(j)'
<1>0. TypeInv /\ LoadBounded(j) /\ faults \in [Faults -> Nat] /\ faults["overrun"] \in Nat
  BY DEF OverlapInv, TypeInv, TypeOK, Faults
<1>1. /\ pc[e] = "idle" /\ jobStatus[k] \in {"pending", "retrying"}
      /\ jobStatus' = [jobStatus EXCEPT ![k] = "running"]
      /\ lockedBy' = [lockedBy EXCEPT ![k] = WorkerOf[e]]
      /\ lockLive' = [lockLive EXCEPT ![k] = TRUE]
      /\ UNCHANGED <<idx, opJob>>
  BY DEF Claim, opVars
<1>2. /\ delivered => pc' = [pc EXCEPT ![e] = "claimed"] /\ sjob' = [sjob EXCEPT ![e] = k]
      /\ ~delivered => UNCHANGED <<pc, sjob>>
  BY DEF Claim, Goto
<1>3. faults'["overrun"] = faults["overrun"]
  BY <1>0 DEF Claim, Reaches, Fault, Faults
<1>4. \A f \in Slots : f # e => (Executing(f, j)' <=> Executing(f, j))
  BY <1>0, <1>1, <1>2 DEF Executing, TypeInv, TypeOK
<1>5. ~Executing(e, j)
  BY <1>1 DEF Executing
<1>6. CASE j # k
  <2>1. ~Executing(e, j)'
    BY <1>0, <1>1, <1>2, <1>6 DEF Executing, TypeInv, TypeOK
  <2>2. /\ jobStatus'[j] = jobStatus[j] /\ lockedBy'[j] = lockedBy[j]
        /\ lockLive'[j] = lockLive[j]
    BY <1>0, <1>1, <1>6 DEF TypeInv, TypeOK
  <2> QED
    BY <1>0, <1>1, <1>3, <1>4, <2>1, <2>2, LoadRowKept
<1>7. CASE j = k
  <2>1. ~Locked(j) /\ ~Terminal(j)
    BY <1>1, <1>7 DEF Locked, Terminal
  <2>2. Pending(j)' => Pending(j)
    BY <1>1, <2>1 DEF Pending
  <2>3. CASE ~delivered
    <3>1. \A f \in Slots : Executing(f, j)' <=> Executing(f, j)
      BY <1>1, <1>2, <2>3 DEF Executing
    <3> QED
      BY <1>0, <1>3, <2>1, <2>2, <3>1, LoadUnlocked
  <2>4. CASE delivered
    <3>1. Executing(e, j)'
      BY <1>0, <1>1, <1>2, <1>7, <2>4 DEF Executing, TypeInv, TypeOK
    <3>2. Locked(j)' /\ ~Abandoned(j)'
      BY <1>0, <1>1, <1>7, <3>1 DEF Locked, Abandoned, TypeInv, TypeOK
    <3>3. /\ Busy(j)' = Busy(j) \cup {e} /\ e \notin Busy(j)
          /\ IsFiniteSet(Busy(j)) /\ Cardinality(Busy(j)) \in Nat
      BY <1>4, <1>5, <3>1, BusyCounts DEF Busy
    <3>4. Cardinality(Busy(j)') = Cardinality(Busy(j)) + 1
      BY <3>3, FS_AddElement
    <3>5. Load(j)' <= Load(j) + 1 /\ Load(j) \in Nat /\ Load(j)' \in Nat
      BY <2>2, <3>3, <3>4 DEF Load
    <3>6. Load(j) <= faults["overrun"]
      BY <1>0, <2>1, <3>5 DEF LoadBounded
    <3> QED
      BY <1>0, <1>3, <3>2, <3>5, <3>6 DEF LoadBounded
  <2> QED
    BY <2>3, <2>4
<1> QED
  BY <1>6, <1>7

LEMMA OverlapWorker ==
  ASSUME IsFiniteSet(Slots), OverlapInv, WorkerStep, NEW j \in Jobs
  PROVE  LoadBounded(j)'
<1> USE DEF rowVars, slotVars, opVars
<1>0. TypeInv /\ LoadBounded(j) /\ faults \in [Faults -> Nat]
  BY DEF OverlapInv, TypeInv, TypeOK
<1>1. ASSUME NEW e \in Slots, SaveMarker(e) PROVE LoadBounded(j)'
  <2>1. \A f \in Slots : Executing(f, j)' => Executing(f, j)
    BY <1>1 DEF SaveMarker, Executing
  <2> QED
    BY <1>0, <1>1, <2>1, LoadRowKept DEF SaveMarker
<1>2. ASSUME NEW e \in Slots, Heartbeat(e) PROVE LoadBounded(j)'
  <2>1. /\ UNCHANGED <<jobStatus, lockedBy, pc, sjob, idx, opJob, faults>>
        /\ \/ lockLive' = [lockLive EXCEPT ![sjob[e]] = TRUE]
           \/ lockLive' = lockLive
    BY <1>2 DEF Heartbeat
  <2>2. \A f \in Slots : Executing(f, j)' <=> Executing(f, j)
    BY <2>1 DEF Executing
  <2>3. Pending(j)' => Pending(j)
    BY <2>1 DEF Pending, Terminal
  <2>4. CASE lockLive'[j] = lockLive[j]
    BY <1>0, <2>1, <2>2, <2>4, LoadRowKept
  <2>5. CASE lockLive'[j] # lockLive[j]
    <3>1. ~Locked(j)
      BY <1>0, <2>1, <2>5 DEF Locked, TypeInv, TypeOK
    <3> QED
      BY <1>0, <2>1, <2>2, <2>3, <3>1, LoadUnlocked
  <2> QED
    BY <2>4, <2>5
<1>3. ASSUME NEW w \in Workers, Crash(w) PROVE LoadBounded(j)'
  <2>1. \A f \in Slots : Executing(f, j)' => Executing(f, j)
    BY <1>3 DEF Crash, SlotsBecomeIdle, Executing
  <2>2. faults'["overrun"] = faults["overrun"]
    BY <1>0, <1>3 DEF Crash, Fault, Faults
  <2> QED
    BY <1>0, <1>3, <2>1, <2>2, LoadRowKept DEF Crash
<1> QED
  BY <1>1, <1>2, <1>3, OverlapSlot, OverlapClaim DEF WorkerStep

LEMMA OverlapAlways ==
  ASSUME SingleOperator, IsFiniteSet(Slots)
  PROVE  Spec => []OverlapInv
<1>1. Init => OverlapInv
  <2> SUFFICES ASSUME Init, NEW j \in Jobs PROVE LoadBounded(j)
    BY TypeInit DEF OverlapInv
  <2>1. Busy(j) = {} /\ ~Pending(j)
    BY NoneAssumption DEF Init, Busy, Executing, Pending
  <2>2. Load(j) = 0 /\ faults["overrun"] = 0
    BY <2>1, FS_EmptySet DEF Load, Init, Faults
  <2> QED
    BY <2>2 DEF LoadBounded
<1>2. OverlapInv /\ [Next]_vars => OverlapInv'
  <2> SUFFICES ASSUME OverlapInv, [Next]_vars PROVE OverlapInv'
    OBVIOUS
  <2>1. TypeInv'
    BY TypeNext DEF OverlapInv
  <2>2. ASSUME NEW j \in Jobs, UNCHANGED vars PROVE LoadBounded(j)'
    <3>1. \A f \in Slots : Executing(f, j)' => Executing(f, j)
      BY <2>2 DEF vars, slotVars, Executing
    <3> QED
      BY <2>2, <3>1, LoadRowKept DEF vars, rowVars, opVars, OverlapInv, TypeInv, TypeOK
  <2>3. ASSUME NEW j \in Jobs PROVE LoadBounded(j)'
    BY <2>2, OverlapDatabase, OverlapOperator, OverlapWorker DEF Next
  <2> QED
    BY <2>1, <2>3 DEF OverlapInv
<1> QED
  BY <1>1, <1>2, PTL DEF Spec

\* Each lock overrun lets in one more execution of a job and never more: a stale
\* execution that takes the lock away from its successor has itself ended.
THEOREM OverlapIsBounded ==
  ASSUME SingleOperator, IsFiniteSet(Slots)
  PROVE  Spec => []BoundedOverlap
<1>1. OverlapInv => BoundedOverlap
  <2> SUFFICES ASSUME OverlapInv, NEW j \in Jobs
               PROVE  Cardinality({e \in Slots : Executing(e, j)}) <= faults["overrun"] + 1
    BY DEF BoundedOverlap
  <2>1. faults["overrun"] \in Nat /\ LoadBounded(j)
    BY DEF OverlapInv, TypeInv, TypeOK, Faults
  <2>2. Cardinality(Busy(j)) \in Nat
    BY BusyCounts
  <2>3. Cardinality(Busy(j)) <= Load(j) /\ Load(j) \in Nat
    BY <2>2 DEF Load
  <2>4. Load(j) <= faults["overrun"] + 1
    BY <2>1, <2>3 DEF LoadBounded
  <2> QED
    BY <2>1, <2>2, <2>3, <2>4 DEF Busy
<1> QED
  BY <1>1, OverlapAlways, PTL
=============================================================================
