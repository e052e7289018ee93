---------------------------- MODULE SyncSchedule ----------------------------
(***************************************************************************)
(* One row of sync_schedules and the pos_sync jobs made from it: the       *)
(* scheduler's claim_due_schedules, trigger_sync_now ("sync now"), the     *)
(* switch ensure_sync_schedules, and the report of a run that ended well   *)
(* (complete_sync_schedule) or badly (fail_sync_schedule, by the dead      *)
(* letter trigger).  Rows do not interact, so one stands for all.          *)
(*                                                                         *)
(* How a job is executed is JobEngine's matter: here a run is queued, runs, *)
(* fetches, reports and ends, and any run may be recovered or put back.     *)
(* Time is counted in ticks of interval_seconds.                            *)
(***************************************************************************)
EXTENDS Naturals, FiniteSets

CONSTANTS
  Runs,          \* slots for pos_sync jobs of this schedule (bound)
  Callers,       \* concurrent calls of trigger_sync_now
  Threshold,     \* failures in a row until the schedule counts as failing (5)
  Attenuation,   \* ticks between runs from then on (at least one interval)
  MaxFeed,       \* bound: modifiedTime of the newest row of the POS
  MaxTriggers,   \* bound: calls of trigger_sync_now
  MaxRevivals,   \* bound: ended jobs put back by an operator or by pg_cron
  MaxFaults,     \* bound: recoveries of a run, lost calls of complete_sync_schedule
  None

ASSUME ThresholdAssumption == Threshold \in Nat \ {0} /\ Attenuation \in Nat \ {0}
ASSUME SyncBoundsAssumption ==
  MaxFeed \in Nat \ {0} /\ MaxTriggers \in Nat /\ MaxRevivals \in Nat /\ MaxFaults \in Nat
ASSUME SyncNoneAssumption == None \notin Runs /\ None \notin Nat

VARIABLES
  \* sync_schedules
  status,
  failures,    \* consecutive_failures, kept at Threshold once it is reached
  nextIn,      \* ticks until next_run_at
  cursor,      \* last_cursor; 0 is null
  bucketJob,   \* the job that has the idempotency key of the current tick
  \* integration_jobs and the execution of the handler
  phase,
  input,       \* the cursor in the payload
  result,      \* the p_cursor the handler is about to report; 0 is null
  \* trigger_sync_now between its check and its insert: the cursor it read
  calling,
  \* the POS
  posUp,
  \* history
  triggers, revivals, faults

scheduleVars == <<status, failures, nextIn, cursor>>
runVars      == <<phase, input, result>>
countVars    == <<triggers, revivals, faults>>
vars == <<scheduleVars, bucketJob, runVars, calling, posUp, countVars>>

Phase  == {"absent", "queued", "running", "fetched", "reported", "completed", "dead"}
Status == {"active", "failing", "disabled"}

TypeOK ==
  /\ status \in Status
  /\ failures \in 0 .. Threshold
  /\ nextIn \in Nat
  /\ cursor \in Nat
  /\ bucketJob \in Runs \cup {None}
  /\ phase  \in [Runs -> Phase]
  /\ input  \in [Runs -> Nat]
  /\ result \in [Runs -> Nat]
  /\ calling \in [Callers -> Nat \cup {None}]
  /\ posUp \in BOOLEAN
  /\ triggers \in Nat /\ revivals \in Nat /\ faults \in Nat

\* A schedule as the insert of ensure_sync_schedules makes it.
Init ==
  /\ status \in {"active", "disabled"}
  /\ failures = 0
  /\ nextIn = 0
  /\ cursor = 0
  /\ bucketJob = None
  /\ phase  = [r \in Runs |-> "absent"]
  /\ input  = [r \in Runs |-> 0]
  /\ result = [r \in Runs |-> 0]
  /\ calling = [c \in Callers |-> None]
  /\ posUp = TRUE
  /\ triggers = 0 /\ revivals = 0 /\ faults = 0

----------------------------------------------------------------------------
(* Wrong variants: the code before migrations 017, 022 and 032, and others. *)

AdvanceToLast(old, new)      == IF new = 0 THEN old ELSE new
StatusAfterSuccess021(s)     == "active"
StatusKeptOnSuccess(s)       == s
Claimable031                 == status = "active"
Gate016                      == TRUE
OneFailureTooMany(f)         == IF f <= Threshold THEN f + 1 ELSE f

----------------------------------------------------------------------------
(* Helpers *)

\* status in ('pending', 'running', 'retrying')
Active == {r \in Runs : phase[r] \in {"queued", "running", "fetched", "reported"}}

\* No job of this sync is active (migration 017).
Gate == Active = {}

\* status in ('active', 'failing'): failing is a signal, not a switch.
Claimable == status \in {"active", "failing"}

\* greatest(p_cursor, last_cursor), null counting as nothing.
Advance(old, new) == IF new > old THEN new ELSE old

\* A success clears everything but disabled.
StatusAfterSuccess(s) == IF s = "disabled" THEN s ELSE "active"

\* consecutive_failures + 1; values past Threshold are not told apart.
OneMoreFailure(f) == IF f < Threshold THEN f + 1 ELSE f

\* A job nobody will ask for again; its slot can stand for a new job.
Reusable(r) == phase[r] \in {"absent", "completed", "dead"} /\ r # bucketJob

\* enqueue_job with a key that is not taken.
Insert(r, c) ==
  /\ Reusable(r)
  /\ phase' = [phase EXCEPT ![r] = "queued"]
  /\ input' = [input EXCEPT ![r] = c]
  /\ result' = result

----------------------------------------------------------------------------
(* The world: time, the POS, the switches *)

Tick ==
  /\ nextIn > 0 \/ bucketJob # None
  /\ nextIn' = IF nextIn > 0 THEN nextIn - 1 ELSE 0
  /\ bucketJob' = None
  /\ UNCHANGED <<status, failures, cursor, runVars, calling, posUp, countVars>>

PosChanges ==
  /\ posUp' = ~posUp
  /\ UNCHANGED <<scheduleVars, bucketJob, runVars, calling, countVars>>

\* ensure_sync_schedules, on a save of the integration's configuration: a
\* schedule that turns active is due at once; failures are not reset.
Ensure(on) ==
  /\ status' = IF on THEN "active" ELSE "disabled"
  /\ nextIn' = IF on /\ status # "active" THEN 0 ELSE nextIn
  /\ UNCHANGED <<failures, cursor, bucketJob, runVars, calling, posUp, countVars>>

----------------------------------------------------------------------------
(* The two producers *)

\* claim_due_schedules by the leader.  Whether or not a job is made, the next
\* run is postponed; the key of the tick may be taken, and then none is made.
ClaimDue ==
  /\ Claimable /\ nextIn = 0
  /\ nextIn' = IF failures >= Threshold THEN Attenuation ELSE 1
  /\ IF Gate /\ bucketJob = None
     THEN \E r \in Runs : Insert(r, cursor) /\ bucketJob' = r
     ELSE UNCHANGED <<runVars, bucketJob>>
  /\ UNCHANGED <<status, failures, cursor, calling, posUp, countVars>>

\* trigger_sync_now: the gate and the schedule are read, whatever its status, ...
TriggerCheck(c) ==
  /\ calling[c] = None /\ triggers < MaxTriggers
  /\ Gate
  /\ calling' = [calling EXCEPT ![c] = cursor]
  /\ triggers' = triggers + 1
  /\ UNCHANGED <<scheduleVars, bucketJob, runVars, posUp, revivals, faults>>

\* ... and the job is inserted, under a key of its own.
TriggerEnqueue(c) ==
  /\ calling[c] # None
  /\ \E r \in Runs : Insert(r, calling[c])
  /\ calling' = [calling EXCEPT ![c] = None]
  /\ UNCHANGED <<scheduleVars, bucketJob, posUp, countVars>>

----------------------------------------------------------------------------
(* A run *)

Start(r) ==
  /\ phase[r] = "queued"
  /\ phase' = [phase EXCEPT ![r] = "running"]
  /\ UNCHANGED <<scheduleVars, bucketJob, input, result, calling, posUp, countVars>>

\* The handler has read what the POS has from its input cursor on.  The payments
\* pull will report the newest row seen, or less when rows are deferred (down to
\* just behind its input); the other syncs report no cursor.
Fetch(r) ==
  /\ phase[r] = "running" /\ posUp
  /\ phase' = [phase EXCEPT ![r] = "fetched"]
  /\ \E new \in {0} \cup {n \in 1 .. MaxFeed : n + 1 >= input[r]} :
       result' = [result EXCEPT ![r] = new]
  /\ UNCHANGED <<scheduleVars, bucketJob, input, calling, posUp, countVars>>

\* complete_sync_schedule; the handlers do not look at its result.
Report(r, applied) ==
  /\ phase[r] = "fetched"
  /\ phase' = [phase EXCEPT ![r] = "reported"]
  /\ IF applied
     THEN /\ cursor' = Advance(cursor, result[r])
          /\ failures' = 0
          /\ status' = StatusAfterSuccess(status)
          /\ faults' = faults
     ELSE /\ faults < MaxFaults /\ faults' = faults + 1
          /\ UNCHANGED <<cursor, failures, status>>
  /\ result' = [result EXCEPT ![r] = 0]
  /\ UNCHANGED <<nextIn, bucketJob, input, calling, posUp, triggers, revivals>>

Finish(r) ==
  /\ phase[r] = "reported"
  /\ phase' = [phase EXCEPT ![r] = "completed"]
  /\ UNCHANGED <<scheduleVars, bucketJob, input, result, calling, posUp, countVars>>

\* The POS does not answer: the job retries, ...
Retry(r) ==
  /\ phase[r] = "running" /\ ~posUp
  /\ phase' = [phase EXCEPT ![r] = "queued"]
  /\ UNCHANGED <<scheduleVars, bucketJob, input, result, calling, posUp, countVars>>

\* ... or its attempts are used up; the dead letter trigger calls
\* fail_sync_schedule, which does not look at the status.
GiveUp(r) ==
  /\ phase[r] = "running" /\ ~posUp
  /\ phase' = [phase EXCEPT ![r] = "dead"]
  /\ failures' = OneMoreFailure(failures)
  /\ status' = IF failures' >= Threshold THEN "failing" ELSE status
  /\ UNCHANGED <<nextIn, cursor, bucketJob, input, result, calling, posUp, countVars>>

\* The worker dies and recover_stuck_jobs brings the job back.
Recover(r) ==
  /\ phase[r] \in {"running", "fetched", "reported"}
  /\ faults < MaxFaults /\ faults' = faults + 1
  /\ phase' = [phase EXCEPT ![r] = "queued"]
  /\ result' = [result EXCEPT ![r] = 0]
  /\ UNCHANGED <<scheduleVars, bucketJob, input, calling, posUp, triggers, revivals>>

\* retry_dead_letter_job (by hand, or by retry_transient_dead_letters every five
\* minutes) and requeue_job put an ended job back without asking the gate.
Revive(r) ==
  /\ phase[r] \in {"completed", "dead"} /\ revivals < MaxRevivals
  /\ phase' = [phase EXCEPT ![r] = "queued"]
  /\ revivals' = revivals + 1
  /\ UNCHANGED <<scheduleVars, bucketJob, input, result, calling, posUp, triggers,
                 faults>>

----------------------------------------------------------------------------
\* What a run does by itself.
RunStep(r) ==
  \/ Start(r)
  \/ Fetch(r)
  \/ \E applied \in BOOLEAN : Report(r, applied)
  \/ Finish(r)
  \/ Retry(r)
  \/ GiveUp(r)

Next ==
  \/ Tick
  \/ PosChanges
  \/ \E on \in BOOLEAN : Ensure(on)
  \/ ClaimDue
  \/ \E c \in Callers : TriggerCheck(c)
  \/ \E c \in Callers : TriggerEnqueue(c)
  \/ \E r \in Runs : RunStep(r)
  \/ \E r \in Runs : Recover(r)
  \/ \E r \in Runs : Revive(r)

Spec == Init /\ [][Next]_vars

\* Time passes, some replica leads and runs its loop, and queued runs are
\* executed (JobEngine).  Nothing obliges the POS to come back.
Fairness ==
  /\ WF_vars(Tick)
  /\ WF_vars(ClaimDue)
  /\ \A r \in Runs : WF_vars(RunStep(r))

FairSpec == Spec /\ Fairness

----------------------------------------------------------------------------
(* Properties *)

\* The watermark never goes back, although a run that was recovered, revived or
\* overtaken reports a cursor computed from an old one (complete_sync_schedule).
CursorNeverRegresses == [][cursor' >= cursor]_vars

\* failing is shown exactly for a reason: the last Threshold runs to end died,
\* with no success since (fail_sync_schedule against complete_sync_schedule).
FailingIsEarned == status = "failing" => failures = Threshold

\* The gate of migration 017: a second active run takes a trigger that raced, or
\* an ended job that was put back; slow runs and the schedule alone never do it.
OneRunAtATime ==
  Cardinality(Active) <= 1 + triggers + revivals

\* "complete_sync_schedule now NEVER resurrects a disabled schedule" (022): a
\* success, of a manual run or of one that was under way, leaves it disabled.
SuccessKeepsDisabled ==
  [][status = "disabled" /\ status' = "active" => Ensure(TRUE)]_vars

\* Does not hold.  "apagados intencionales" (032): what is switched off stays off until it is
\* switched on, whatever its last runs do.
DisabledStaysOff ==
  [][status = "disabled" /\ status' # "disabled" => Ensure(TRUE)]_vars

\* "El sync SIEMPRE corre" (032): a schedule that stays switched on, of a POS that
\* stays up in the end, recovers from any number of failures by itself.
SyncRecovers ==
  <>[](status # "disabled" /\ posUp) => <>[](status = "active" /\ failures = 0)
=============================================================================
