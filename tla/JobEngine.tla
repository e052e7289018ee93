----------------------------- MODULE JobEngine -----------------------------
(***************************************************************************)
(* The life of a job: the rows of integration_jobs, job_steps and          *)
(* dead_letter_jobs, the SQL functions that change them (migrations 002    *)
(* and 015), and the executions of executeJob that call those functions    *)
(* from several worker processes (core/executor.ts, claim.ts,              *)
(* heartbeat.ts).                                                          *)
(*                                                                         *)
(* A SQL function is one transaction, hence one action.  An execution is a *)
(* sequence of awaits, hence one action per segment between two awaits,    *)
(* with everything it keeps in memory across them (the step snapshot, the  *)
(* context it fetched) in the variables of its slot.                       *)
(***************************************************************************)
EXTENDS Naturals, FiniteSets

CONSTANTS
  Jobs,           \* jobs that may be enqueued, one idempotency key each
  Slots,          \* one executeJob call at a time runs in each slot
  Workers,        \* worker processes (WORKER_ID)
  WorkerOf,       \* the process each slot belongs to
  Operators,      \* concurrent callers of retry_dead_letter_job / requeue_job
  NumSteps,       \* total_steps
  Registered,     \* per process, the steps its getHandler knows (a deployment may lag)
  MaxAttempts,    \* max_attempts of a step
  BackoffLen,     \* length of the backoff profile of the queue
  BreakerEnabled, \* circuit breaker configured (CIRCUIT_BREAKER_ENABLED)
  MaxFaults,      \* bound: how many faults of each kind may happen
  MaxRequeues,    \* bound: how many times an operator starts a requeue
  None

Steps == 1 .. NumSteps

\* What may go wrong around the code.  "overrun": the lock of a live execution
\* expires (no heartbeat got through for lockSeconds).  "crash": a process
\* dies.  "lostComplete", "lostCall": the call complete_step, or another call,
\* fails and the code ignores or survives it.  "blindRead": the read of the
\* context before a step fails.
Faults == {"overrun", "crash", "lostComplete", "lostCall", "blindRead"}

ASSUME WorkerOfAssumption    == WorkerOf \in [Slots -> Workers]
ASSUME NumStepsAssumption    == NumSteps \in Nat \ {0}
ASSUME RegisteredAssumption  == Registered \in [Workers -> SUBSET Steps]
ASSUME AttemptsAssumption    == MaxAttempts \in Nat \ {0} /\ BackoffLen \in Nat
ASSUME BreakerAssumption     == BreakerEnabled \in BOOLEAN
ASSUME BoundsAssumption      == MaxFaults \in [Faults -> Nat] /\ MaxRequeues \in Nat
ASSUME NoneAssumption        == None \notin Jobs /\ None \notin Workers

VARIABLES
  \* integration_jobs
  jobStatus,   \* status; "absent" before enqueue_job
  lockedBy,    \* locked_by
  lockLive,    \* locked_until is set and not yet past
  due,         \* scheduled_for <= now()
  context,     \* the steps whose output is a key of context
  \* job_steps
  stepStatus, attempts,
  \* dead_letter_jobs
  openDL,      \* rows of the job with resolved_at null
  \* executeJob, per slot
  pc, sjob, idx,
  snapDone, snapAttempts,  \* the steps array read once by getJobSteps
  seen,                    \* the context fetched for the current step
  beating,                 \* the heartbeat interval is running
  \* retry_dead_letter_job / requeue_job between its check and its updates
  opJob, opFull,
  \* history
  returned,    \* steps whose handler returned since the job was last reset
  faults, requeues

rowVars  == <<jobStatus, lockedBy, lockLive, due, context>>
stepVars == <<stepStatus, attempts>>
slotVars == <<pc, sjob, idx, snapDone, snapAttempts, seen, beating>>
opVars   == <<opJob, opFull, requeues>>
vars     == <<rowVars, stepVars, openDL, slotVars, opVars, returned, faults>>

JobStatus  == {"absent", "pending", "running", "retrying", "completed", "dead_letter"}
StepStatus == {"pending", "completed", "failed"}
PC         == {"idle", "claimed", "loop", "handler", "returned", "threw"}

TypeOK ==
  /\ jobStatus  \in [Jobs -> JobStatus]
  /\ lockedBy   \in [Jobs -> Workers \cup {None}]
  /\ lockLive   \in [Jobs -> BOOLEAN]
  /\ due        \in [Jobs -> BOOLEAN]
  /\ context    \in [Jobs -> SUBSET Steps]
  /\ stepStatus \in [Jobs -> [Steps -> StepStatus]]
  /\ attempts   \in [Jobs -> [Steps -> Nat]]
  /\ openDL     \in [Jobs -> Nat]
  /\ pc         \in [Slots -> PC]
  /\ sjob       \in [Slots -> Jobs \cup {None}]
  /\ idx        \in [Slots -> 1 .. (NumSteps + 1)]
  /\ snapDone   \in [Slots -> SUBSET Steps]
  /\ snapAttempts \in [Slots -> [Steps -> Nat]]
  /\ seen       \in [Slots -> SUBSET Steps]
  /\ beating    \in [Slots -> BOOLEAN]
  /\ opJob      \in [Operators -> Jobs \cup {None}]
  /\ opFull     \in [Operators -> BOOLEAN]
  /\ returned   \in [Jobs -> SUBSET Steps]
  /\ faults     \in [Faults -> Nat]
  /\ requeues   \in Nat

Init ==
  /\ jobStatus  = [j \in Jobs |-> "absent"]
  /\ lockedBy   = [j \in Jobs |-> None]
  /\ lockLive   = [j \in Jobs |-> FALSE]
  /\ due        = [j \in Jobs |-> FALSE]
  /\ context    = [j \in Jobs |-> {}]
  /\ stepStatus = [j \in Jobs |-> [s \in Steps |-> "pending"]]
  /\ attempts   = [j \in Jobs |-> [s \in Steps |-> 0]]
  /\ openDL     = [j \in Jobs |-> 0]
  /\ pc         = [e \in Slots |-> "idle"]
  /\ sjob       = [e \in Slots |-> None]
  /\ idx        = [e \in Slots |-> 1]
  /\ snapDone   = [e \in Slots |-> {}]
  /\ snapAttempts = [e \in Slots |-> [s \in Steps |-> 0]]
  /\ seen       = [e \in Slots |-> {}]
  /\ beating    = [e \in Slots |-> FALSE]
  /\ opJob      = [o \in Operators |-> None]
  /\ opFull     = [o \in Operators |-> FALSE]
  /\ returned   = [j \in Jobs |-> {}]
  /\ faults     = [f \in Faults |-> 0]
  /\ requeues   = 0

----------------------------------------------------------------------------
(* Wrong variants of definitions below, against which the properties are       *)
(* tested: each run's property has to notice one of them.                      *)

StuckUnexpired   == {j \in Jobs : jobStatus[j] = "running"}
StuckAnyStatus   == {j \in Jobs : jobStatus[j] # "absent" /\ ~lockLive[j] /\ due[j]}
StuckUnlocked    == {j \in Jobs : jobStatus[j] = "running" /\ lockedBy[j] = None}
LastStepOffByOne(s)   == s + 1 >= NumSteps
OverwriteOutput(c, s) == {s}
ClaimedContext(e)     == snapDone[e]
OneAttemptTooMany(n)  == n <= MaxAttempts
ResetPendingOnly(j, full) == {s \in Steps : full \/ stepStatus[j][s] = "pending"}
ResetEverything(j, full)  == Steps
SkipWithoutBound(e) == idx[e] \in snapDone[e] \/ idx[e] > NumSteps

----------------------------------------------------------------------------
(* Helpers *)

Fault(kind) ==
  /\ faults[kind] < MaxFaults[kind]
  /\ faults' = [faults EXCEPT ![kind] = @ + 1]

\* A call whose error the caller ignores: it reached the database, or it did
\* not and counts as a fault of the given kind.
Reaches(applied, kind) ==
  IF applied THEN faults' = faults ELSE Fault(kind)

Terminal(j) == jobStatus[j] \in {"completed", "dead_letter"}

\* The execution in slot e still has work to do on job j.  One that is past
\* its last step only has to return.
Executing(e, j) ==
  /\ sjob[e] = j
  /\ pc[e] # "idle"
  /\ ~(pc[e] = "loop" /\ idx[e] > NumSteps)

\* No execution of the process that holds the lock of j is at work on j: it
\* crashed, its claim got lost, or it returned without unlocking.
Abandoned(j) ==
  ~ \E e \in Slots : Executing(e, j) /\ WorkerOf[e] = lockedBy[j]

\* The row update that gives the lock up, in a new status.
Unlock(j, status) ==
  /\ jobStatus' = [jobStatus EXCEPT ![j] = status]
  /\ lockedBy'  = [lockedBy EXCEPT ![j] = None]
  /\ lockLive'  = [lockLive EXCEPT ![j] = FALSE]

\* executeJob returns: the finally block stops the heartbeat, the slot is free.
SlotsBecomeIdle(E) ==
  /\ pc'       = [e \in Slots |-> IF e \in E THEN "idle" ELSE pc[e]]
  /\ sjob'     = [e \in Slots |-> IF e \in E THEN None ELSE sjob[e]]
  /\ idx'      = [e \in Slots |-> IF e \in E THEN 1 ELSE idx[e]]
  /\ snapDone' = [e \in Slots |-> IF e \in E THEN {} ELSE snapDone[e]]
  /\ snapAttempts' =
       [e \in Slots |-> IF e \in E THEN [s \in Steps |-> 0] ELSE snapAttempts[e]]
  /\ seen'     = [e \in Slots |-> IF e \in E THEN {} ELSE seen[e]]
  /\ beating'  = [e \in Slots |-> IF e \in E THEN FALSE ELSE beating[e]]

Goto(e, label) == pc' = [pc EXCEPT ![e] = label]

\* (v_step_idx + 1) >= v_total, with steps counted from 0 there.
LastStep(s) == s >= NumSteps

\* jsonb_set(context, array[step_name], output, true)
MergeOutput(c, s) == c \cup {s}

\* The context executeStep reads from the row just before the handler.
FetchedContext(e) == context[sjob[e]]

\* attemptNumber < step.max_attempts
MayRetry(attemptNumber) == attemptNumber < MaxAttempts

\* The steps a requeue resets: all of them, or those not completed.
ToReset(j, full) == {s \in Steps : full \/ stepStatus[j][s] # "completed"}

\* The step at hand was completed when the steps were read.
AlreadyDone(e) == idx[e] \in snapDone[e]

----------------------------------------------------------------------------
(* The database side: enqueue, time, recovery *)

\* enqueue_job; a second call with the same idempotency key changes nothing.
Enqueue(j, now) ==
  /\ jobStatus[j] = "absent"
  /\ jobStatus' = [jobStatus EXCEPT ![j] = "pending"]
  /\ due' = [due EXCEPT ![j] = now]
  /\ UNCHANGED <<lockedBy, lockLive, context, stepVars, openDL, slotVars, opVars,
                 returned, faults>>

\* scheduled_for passes.
BecomeDue(j) ==
  /\ jobStatus[j] \in {"pending", "retrying"}
  /\ ~due[j]
  /\ due' = [due EXCEPT ![j] = TRUE]
  /\ UNCHANGED <<jobStatus, lockedBy, lockLive, context, stepVars, openDL, slotVars,
                 opVars, returned, faults>>

\* locked_until passes with nobody left to extend the lock ...
LockExpires(j) ==
  /\ jobStatus[j] = "running" /\ lockLive[j] /\ Abandoned(j)
  /\ lockLive' = [lockLive EXCEPT ![j] = FALSE]
  /\ UNCHANGED <<jobStatus, lockedBy, due, context, stepVars, openDL, slotVars,
                 opVars, returned, faults>>

\* ... or under an execution that is still at work, whose heartbeats did not
\* get through for lockSeconds.
LockOverrun(j) ==
  /\ jobStatus[j] = "running" /\ lockLive[j] /\ ~Abandoned(j)
  /\ Fault("overrun")
  /\ lockLive' = [lockLive EXCEPT ![j] = FALSE]
  /\ UNCHANGED <<jobStatus, lockedBy, due, context, stepVars, openDL, slotVars,
                 opVars, returned>>

Stuck == {j \in Jobs : jobStatus[j] = "running" /\ ~lockLive[j]}

\* recover_stuck_jobs, every minute by pg_cron: one UPDATE over all stuck rows.
RecoverStuckJobs ==
  /\ Stuck # {}
  /\ jobStatus' = [j \in Jobs |-> IF j \in Stuck THEN "retrying" ELSE jobStatus[j]]
  /\ lockedBy'  = [j \in Jobs |-> IF j \in Stuck THEN None ELSE lockedBy[j]]
  /\ due'       = [j \in Jobs |-> IF j \in Stuck THEN TRUE ELSE due[j]]
  /\ UNCHANGED <<lockLive, context, stepVars, openDL, slotVars, opVars, returned, faults>>

----------------------------------------------------------------------------
(* The operator side: retry_dead_letter_job and requeue_job read the status   *)
(* of the row first and update it in later statements, without locking it.    *)

RetryDeadLetterCheck(o, j) ==
  /\ opJob[o] = None /\ requeues < MaxRequeues
  /\ jobStatus[j] = "dead_letter"
  /\ opJob'  = [opJob EXCEPT ![o] = j]
  /\ opFull' = [opFull EXCEPT ![o] = FALSE]
  /\ requeues' = requeues + 1
  /\ UNCHANGED <<rowVars, stepVars, openDL, slotVars, returned, faults>>

\* A payload override, or a completed job, makes the reset a full one.
RequeueCheck(o, j, override) ==
  /\ opJob[o] = None /\ requeues < MaxRequeues
  /\ Terminal(j)
  /\ opJob'  = [opJob EXCEPT ![o] = j]
  /\ opFull' = [opFull EXCEPT ![o] = override \/ jobStatus[j] = "completed"]
  /\ requeues' = requeues + 1
  /\ UNCHANGED <<rowVars, stepVars, openDL, slotVars, returned, faults>>

\* The updates of the two functions, committed together.
Requeue(o) ==
  LET j     == opJob[o]
      reset == ToReset(j, opFull[o])
  IN  /\ j # None
      /\ stepStatus' = [stepStatus EXCEPT ![j] =
                          [s \in Steps |-> IF s \in reset THEN "pending" ELSE @[s]]]
      /\ attempts' = [attempts EXCEPT ![j] =
                          [s \in Steps |-> IF s \in reset THEN 0 ELSE @[s]]]
      /\ Unlock(j, "pending")
      /\ due' = [due EXCEPT ![j] = TRUE]
      /\ context'  = [context EXCEPT ![j] = IF opFull[o] THEN {} ELSE @]
      /\ returned' = [returned EXCEPT ![j] = IF opFull[o] THEN {} ELSE @]
      /\ openDL' = [openDL EXCEPT ![j] = 0]
      /\ opJob'  = [opJob EXCEPT ![o] = None]
      /\ opFull' = [opFull EXCEPT ![o] = FALSE]
      /\ UNCHANGED <<slotVars, requeues, faults>>

----------------------------------------------------------------------------
(* The worker side: one execution of executeJob *)

\* claim_next_job.  The row is locked even when the reply never arrives; the
\* worker loop then has no job to execute.
Claim(e, j, delivered) ==
  /\ pc[e] = "idle"
  /\ jobStatus[j] \in {"pending", "retrying"} /\ due[j]
  /\ jobStatus' = [jobStatus EXCEPT ![j] = "running"]
  /\ lockedBy'  = [lockedBy EXCEPT ![j] = WorkerOf[e]]
  /\ lockLive'  = [lockLive EXCEPT ![j] = TRUE]
  /\ Reaches(delivered, "lostCall")
  /\ IF delivered
     THEN Goto(e, "claimed") /\ sjob' = [sjob EXCEPT ![e] = j]
     ELSE UNCHANGED <<pc, sjob>>
  /\ UNCHANGED <<due, context, stepVars, openDL, idx, snapDone, snapAttempts, seen,
                 beating, opVars, returned>>

\* checkCircuit refuses: an UPDATE by id alone puts the job back, and
\* executeJob returns whether or not the UPDATE was applied.
BreakerBlocks(e, applied) ==
  /\ pc[e] = "claimed" /\ BreakerEnabled
  /\ Reaches(applied, "lostCall")
  /\ IF applied
     THEN Unlock(sjob[e], "retrying") /\ due' = [due EXCEPT ![sjob[e]] = FALSE]
     ELSE UNCHANGED <<jobStatus, lockedBy, lockLive, due>>
  /\ SlotsBecomeIdle({e})
  /\ UNCHANGED <<context, stepVars, openDL, opVars, returned>>

\* startHeartbeat and getJobSteps: the only read of job_steps of this execution.
\* (The first heartbeat fires one interval later, hence after the read.)
ReadSteps(e) ==
  LET j == sjob[e]
  IN  /\ pc[e] = "claimed"
      /\ snapDone' = [snapDone EXCEPT ![e] =
                        {s \in Steps : stepStatus[j][s] = "completed"}]
      /\ snapAttempts' = [snapAttempts EXCEPT ![e] = attempts[j]]
      /\ beating' = [beating EXCEPT ![e] = TRUE]
      /\ Goto(e, "loop")
      /\ UNCHANGED <<rowVars, stepVars, openDL, sjob, idx, seen, opVars, returned, faults>>

\* getJobSteps throws: the catch block calls release_job_lock, by id alone.
ReadStepsFails(e, applied) ==
  LET j == sjob[e]
  IN  /\ pc[e] = "claimed"
      /\ Fault("lostCall")
      /\ IF applied
         THEN Unlock(j, IF jobStatus[j] = "running" THEN "pending" ELSE jobStatus[j])
         ELSE UNCHANGED <<jobStatus, lockedBy, lockLive>>
      /\ SlotsBecomeIdle({e})
      /\ UNCHANGED <<due, context, stepVars, openDL, opVars, returned>>

\* if (step.status === 'completed') continue, on the snapshot.
SkipCompleted(e) ==
  /\ pc[e] = "loop" /\ AlreadyDone(e)
  /\ idx' = [idx EXCEPT ![e] = @ + 1]
  /\ UNCHANGED <<rowVars, stepVars, openDL, pc, sjob, snapDone, snapAttempts, seen,
                 beating, opVars, returned, faults>>

\* executeStep up to the call of the handler: re-fetch the context, which is
\* taken as {} when the read fails.
StartStep(e, fetched) ==
  /\ pc[e] = "loop" /\ idx[e] \in Registered[WorkerOf[e]] \ snapDone[e]
  /\ Reaches(fetched, "blindRead")
  /\ seen' = [seen EXCEPT ![e] = IF fetched THEN FetchedContext(e) ELSE {}]
  /\ Goto(e, "handler")
  /\ UNCHANGED <<rowVars, stepVars, openDL, sjob, idx, snapDone, snapAttempts, beating,
                 opVars, returned>>

\* markStepPostAttempted: a handler writes the context it was given, plus its
\* marker, over the whole column.
SaveMarker(e) ==
  /\ pc[e] = "handler"
  /\ context' = [context EXCEPT ![sjob[e]] = seen[e]]
  /\ UNCHANGED <<jobStatus, lockedBy, lockLive, due, stepVars, openDL, slotVars, opVars,
                 returned, faults>>

HandlerReturns(e) ==
  /\ pc[e] = "handler"
  /\ Goto(e, "returned")
  /\ returned' = [returned EXCEPT ![sjob[e]] = @ \cup {idx[e]}]
  /\ seen' = [seen EXCEPT ![e] = {}]
  /\ UNCHANGED <<rowVars, stepVars, openDL, sjob, idx, snapDone, snapAttempts, beating,
                 opVars, faults>>

HandlerThrows(e) ==
  /\ pc[e] = "handler"
  /\ Goto(e, "threw")
  /\ seen' = [seen EXCEPT ![e] = {}]
  /\ UNCHANGED <<rowVars, stepVars, openDL, sjob, idx, snapDone, snapAttempts, beating,
                 opVars, returned, faults>>

\* complete_step of the step this execution holds, whoever owns the job now.
\* The result of the call is not looked at: the loop goes on either way.
CompleteStep(e, applied) ==
  LET j == sjob[e]
      s == idx[e]
  IN  /\ pc[e] = "returned"
      /\ Reaches(applied, "lostComplete")
      /\ IF applied
         THEN /\ stepStatus' = [stepStatus EXCEPT ![j][s] = "completed"]
              /\ attempts'   = [attempts EXCEPT ![j][s] = @ + 1]
              /\ context'    = [context EXCEPT ![j] = MergeOutput(@, s)]
              /\ IF LastStep(s) /\ jobStatus[j] = "running"
                 THEN Unlock(j, "completed")
                 ELSE UNCHANGED <<jobStatus, lockedBy, lockLive>>
         ELSE UNCHANGED <<stepVars, context, jobStatus, lockedBy, lockLive>>
      /\ idx' = [idx EXCEPT ![e] = @ + 1]
      /\ Goto(e, "loop")
      /\ UNCHANGED <<due, openDL, sjob, snapDone, snapAttempts, seen, beating, opVars,
                     returned>>

\* fail_step with the next retry time, or with null.
FailStepSQL(j, s, retryAt) ==
  /\ attempts' = [attempts EXCEPT ![j][s] = @ + 1]
  /\ stepStatus' = [stepStatus EXCEPT ![j][s] = IF retryAt THEN "pending" ELSE "failed"]
  /\ IF retryAt
     THEN /\ Unlock(j, "retrying")
          /\ due' = [due EXCEPT ![j] = FALSE]
          /\ openDL' = openDL
     ELSE /\ Unlock(j, "dead_letter")
          /\ openDL' = [openDL EXCEPT ![j] = @ + 1]
          /\ due' = due
  /\ UNCHANGED <<context, returned>>

\* failStep ends the execution, whether or not the call was applied.
EndWithFailure(e, retryAt, applied) ==
  /\ Reaches(applied, "lostCall")
  /\ IF applied
     THEN FailStepSQL(sjob[e], idx[e], retryAt)
     ELSE UNCHANGED <<rowVars, stepVars, openDL, returned>>
  /\ SlotsBecomeIdle({e})
  /\ UNCHANGED opVars

\* getHandler finds nothing for the step: dead letter at once.
MissingHandler(e, applied) ==
  /\ pc[e] = "loop" /\ idx[e] \in Steps \ (snapDone[e] \cup Registered[WorkerOf[e]])
  /\ EndWithFailure(e, FALSE, applied)

\* The catch block of executeStep.  attemptNumber comes from the snapshot;
\* calculateBackoff gives null past the end of the profile, and a retry hint
\* (retryAfterSeconds) takes its place.
FailStep(e, retryable, hinted, applied) ==
  LET attemptNumber == snapAttempts[e][idx[e]] + 1
      retryAt == /\ retryable /\ MayRetry(attemptNumber)
                 /\ hinted \/ attemptNumber <= BackoffLen
  IN  /\ pc[e] = "threw"
      /\ EndWithFailure(e, retryAt, applied)

\* The loop is over: the code logs 'job completed' and writes nothing.
Finish(e) ==
  /\ pc[e] = "loop" /\ idx[e] > NumSteps
  /\ SlotsBecomeIdle({e})
  /\ UNCHANGED <<rowVars, stepVars, openDL, opVars, returned, faults>>

\* heartbeat_job extends the lock of a running row locked by this worker, even
\* when it is already past; otherwise the interval is cleared.
Heartbeat(e) ==
  LET j == sjob[e]
  IN  /\ beating[e]
      /\ IF jobStatus[j] = "running" /\ lockedBy[j] = WorkerOf[e]
         THEN lockLive' = [lockLive EXCEPT ![j] = TRUE] /\ UNCHANGED beating
         ELSE beating' = [beating EXCEPT ![e] = FALSE] /\ UNCHANGED lockLive
      /\ UNCHANGED <<jobStatus, lockedBy, due, context, stepVars, openDL, pc, sjob, idx,
                     snapDone, snapAttempts, seen, opVars, returned, faults>>

\* A process dies with all its executions and comes back with empty slots.
Crash(w) ==
  LET E == {e \in Slots : WorkerOf[e] = w}
  IN  /\ \E e \in E : pc[e] # "idle"
      /\ Fault("crash")
      /\ SlotsBecomeIdle(E)
      /\ UNCHANGED <<rowVars, stepVars, openDL, opVars, returned>>

----------------------------------------------------------------------------
DatabaseStep ==
  \/ \E j \in Jobs, now \in BOOLEAN : Enqueue(j, now)
  \/ \E j \in Jobs : BecomeDue(j)
  \/ \E j \in Jobs : LockExpires(j)
  \/ \E j \in Jobs : LockOverrun(j)
  \/ RecoverStuckJobs

OperatorStep ==
  \/ \E o \in Operators, j \in Jobs : RetryDeadLetterCheck(o, j)
  \/ \E o \in Operators, j \in Jobs, override \in BOOLEAN : RequeueCheck(o, j, override)
  \/ \E o \in Operators : Requeue(o)

\* What an execution does by itself once it has a job.
SlotStep(e) ==
  \/ \E applied \in BOOLEAN : BreakerBlocks(e, applied)
  \/ ReadSteps(e)
  \/ \E applied \in BOOLEAN : ReadStepsFails(e, applied)
  \/ SkipCompleted(e)
  \/ \E fetched \in BOOLEAN : StartStep(e, fetched)
  \/ HandlerReturns(e)
  \/ HandlerThrows(e)
  \/ \E applied \in BOOLEAN : CompleteStep(e, applied)
  \/ \E applied \in BOOLEAN : MissingHandler(e, applied)
  \/ \E retryable, hinted, applied \in BOOLEAN : FailStep(e, retryable, hinted, applied)
  \/ Finish(e)

WorkerStep ==
  \/ \E e \in Slots, j \in Jobs, delivered \in BOOLEAN : Claim(e, j, delivered)
  \/ \E e \in Slots : SlotStep(e)
  \/ \E e \in Slots : SaveMarker(e)
  \/ \E e \in Slots : Heartbeat(e)
  \/ \E w \in Workers : Crash(w)

Next == DatabaseStep \/ OperatorStep \/ WorkerStep

Spec == Init /\ [][Next]_vars

\* Time passes, pg_cron runs, a started requeue transaction commits, an
\* execution goes on and its handler ends (every call has a timeout), and a
\* job that keeps being claimable is claimed at last.  Nothing obliges anybody
\* to enqueue, requeue, crash, lose a call or overrun a lock.
Fairness ==
  /\ \A j \in Jobs : WF_vars(BecomeDue(j)) /\ WF_vars(LockExpires(j))
  /\ WF_vars(RecoverStuckJobs)
  /\ \A o \in Operators : WF_vars(Requeue(o))
  /\ \A e \in Slots : WF_vars(SlotStep(e))
  /\ \A j \in Jobs : SF_vars(\E e \in Slots, delivered \in BOOLEAN : Claim(e, j, delivered))

FairSpec == Spec /\ Fairness

----------------------------------------------------------------------------
(* Properties.  Most of them rest on the lock, which promises nothing once it *)
(* has expired under a live execution: they say what holds until then.        *)

NoOverrun == faults["overrun"] = 0

\* The lock protects an execution: as long as no lock was overrun, an execution
\* at work on a job is the only one, and the row says its process owns it
\* (claim_next_job against recover_stuck_jobs, requeue_job and the worker's own
\* other executions).
ExclusiveExecution ==
  NoOverrun =>
    \A e, f \in Slots : \A j \in Jobs :
      Executing(e, j) =>
        /\ jobStatus[j] = "running" /\ lockedBy[j] = WorkerOf[e]
        /\ Executing(f, j) => e = f

\* (What a README line and comments promise without that condition.)

\* "executes as an ordered sequence of steps": a completed job has had them all.
CompletedJobsAreWhole ==
  \A j \in Jobs : jobStatus[j] = "completed" =>
    \A s \in Steps : stepStatus[j][s] = "completed"

\* "Only terminal jobs may be requeued - never an in-flight one": when a requeue
\* commits, no execution is at work on the job.
NeverRequeuedInFlight ==
  [][\A o \in Operators, e \in Slots :
       opJob[o] # None /\ opJob'[o] = None => ~Executing(e, opJob[o])]_vars

\* Each overrun lets in one more execution and never more: a stale execution that
\* takes the lock from its successor (fail_step, complete_step) has itself ended.
BoundedOverlap ==
  \A j \in Jobs :
    Cardinality({e \in Slots : Executing(e, j)}) <= faults["overrun"] + 1

\* A job that counts as completed has had every step completed, although
\* complete_step looks only at the index of the step it is given.
CompletedMeansEveryStep ==
  NoOverrun /\ faults["lostComplete"] = 0 =>
    \A j \in Jobs : jobStatus[j] = "completed" =>
      \A s \in Steps : stepStatus[j][s] = "completed"

\* A handler sees the outputs of all steps before its own in the context it is
\* given, whichever executions, processes and retries produced them.
PreviousOutputsVisible ==
  NoOverrun /\ faults["lostComplete"] = 0 /\ faults["blindRead"] = 0 =>
    \A e \in Slots : pc[e] = "handler" => 1 .. (idx[e] - 1) \subseteq seen[e]

\* The output of a completed step stays in the context of its job: the marker
\* write of a handler, a read-modify-write of the whole column, loses nothing.
OutputsKept ==
  NoOverrun /\ faults["blindRead"] = 0 =>
    \A j \in Jobs : {s \in Steps : stepStatus[j][s] = "completed"} \subseteq context[j]

\* No step is attempted more than max_attempts times between two resets,
\* although the limit is tested in the worker on a snapshot and never in SQL.
AttemptsBounded ==
  NoOverrun => \A j \in Jobs, s \in Steps : attempts[j][s] <= MaxAttempts

\* The dead-letter ledger agrees with the jobs: a job is dead exactly when it
\* has one open entry and exactly when one of its steps has failed for good.
DeadLetterLedger ==
  NoOverrun =>
    \A j \in Jobs :
      /\ openDL[j] = IF jobStatus[j] = "dead_letter" THEN 1 ELSE 0
      /\ jobStatus[j] = "dead_letter" <=> \E s \in Steps : stepStatus[j][s] = "failed"

\* A job that has ended is reopened by an operator only: no late complete_step,
\* fail_step, release or recovery changes its status.
TerminalIsFinal ==
  [][\A j \in Jobs :
       NoOverrun /\ Terminal(j) /\ jobStatus'[j] # jobStatus[j] =>
         \E o \in Operators : opJob[o] = j /\ opJob'[o] = None]_vars

\* A step whose handler returned is run again only after a full reset, unless a
\* process crashed, a complete_step was lost or a lock was overrun meanwhile.
NoRepeatedSuccess ==
  [][\A e \in Slots :
       pc[e] = "loop" /\ pc'[e] = "handler" /\ idx[e] \in returned[sjob[e]] =>
         \E kind \in {"overrun", "crash", "lostComplete"} : faults[kind] > 0]_vars

\* Every enqueued job completes or reaches the dead-letter queue: no crash, lost
\* claim or lost fail_step leaves it behind.  With a lock overrun it does not hold;
\* where a complete_step may be lost no run asks it.
EveryJobSettles ==
  \A j \in Jobs :
    jobStatus[j] \in {"pending", "running", "retrying"} ~> Terminal(j)

----------------------------------------------------------------------------
(* JobEngine implements JobContract, given that no lock is overrun and no      *)
(* complete_step is lost.                                                      *)

PhaseOf(status) ==
  CASE status = "absent"      -> "absent"
    [] status = "completed"   -> "completed"
    [] status = "dead_letter" -> "dead"
    [] OTHER                  -> "open"

phaseBar == [j \in Jobs |-> PhaseOf(jobStatus[j])]
doneBar  == [j \in Jobs |-> {s \in Steps : stepStatus[j][s] = "completed"}]

Contract == INSTANCE JobContract WITH phase <- phaseBar, done <- doneBar

\* Steps of a job are done in order, each once; the last one completes it; only
\* a job that has ended is reopened (executor.ts, complete_step, requeue_job).
ImplementsContract == Contract!Spec

\* The same, and a submitted job always advances or is given up.
ImplementsFairContract == Contract!FairSpec
=============================================================================
