------------------------------ MODULE Workers ------------------------------
(***************************************************************************)
(* The worker processes of one queue: the claim loop and its slots, the    *)
(* limits counted by claim_next_job, the circuit breaker each process      *)
(* keeps, and the drain at SIGTERM.  A job has one step here; what its     *)
(* lock, steps and attempts do is JobEngine's matter.  Workers are woken   *)
(* by NOTIFY or the poll interval alike; locks expire only of executions   *)
(* that are gone.  The claim takes any of the rows that qualify.           *)
(***************************************************************************)
EXTENDS Naturals, FiniteSets

CONSTANTS
  Workers, Jobs,
  Of,             \* integration and site of each job
  Limits,         \* rows of integration_concurrency_limits, the enabled ones
  MaxConcurrent,  \* slots of a process
  BreakerEnabled,
  Threshold,      \* failures that open the breaker
  MaxFails,       \* bound: calls that fail and may be retried
  MaxFaults,      \* bound: crashes, and calls of the engine that are lost or whose answer is
  None

VARIABLES
  status,   \* of each job: later (scheduled_for is to come), ready, running, ended
  owner,    \* locked_by
  phase,    \* of each process: up, draining, stopped, crashed
  claim,    \* its claim: idle, asked with what the snapshot counted, given with the job
  exec,     \* its executions (activeJobs): where each is
  breaker,  \* its breaker for this integration and queue
  forsaken, \* history: running jobs a lost call or a crash left behind
  used      \* how many failures and faults happened

vars == <<status, owner, phase, claim, exec, breaker, forsaken, used>>

Idle   == [pc |-> "idle", running |-> {}, job |-> None]
Closed == [state |-> "closed", recent |-> 0, cooled |-> FALSE, throttled |-> FALSE]
Stages == {"refused", "working", "completed", "failed"}

TypeOK ==
  /\ status \in [Jobs -> {"later", "ready", "running", "ended"}] /\ owner \in [Jobs -> Workers \cup {None}]
  /\ phase \in [Workers -> {"up", "draining", "stopped", "crashed"}]
  /\ \A w \in Workers : /\ claim[w].pc \in {"idle", "asked", "given"} /\ DOMAIN exec[w] \subseteq Jobs
                        /\ \A j \in DOMAIN exec[w] : exec[w][j] \in Stages
                        /\ breaker[w].state \in {"closed", "open", "half_open"} /\ breaker[w].recent \in Nat
  /\ forsaken \subseteq Jobs

Init ==
  /\ status = [j \in Jobs |-> "ready"] /\ owner = [j \in Jobs |-> None]
  /\ phase = [w \in Workers |-> "up"] /\ claim = [w \in Workers |-> Idle]
  /\ exec = [w \in Workers |-> [j \in {} |-> None]] /\ breaker = [w \in Workers |-> Closed]
  /\ forsaken = {} /\ used = [fails |-> 0, faults |-> 0]

Running == {j \in Jobs : status[j] = "running"}
Fault   == used.faults < MaxFaults /\ used' = [used EXCEPT !.faults = @ + 1]
Lost(j) == Fault /\ forsaken' = forsaken \cup {j}

At(w, j, stage) == [exec EXCEPT ![w] = [i \in DOMAIN @ \cup {j} |-> IF i = j THEN stage ELSE @[i]]]
Without(w, j)   == [exec EXCEPT ![w] = [i \in DOMAIN @ \ {j} |-> @[i]]]

---------------------------------------------------------------------------
(* The claim.                                                              *)

\* The loop asks while a slot is free; the statement counts in its snapshot.
AskClaim(w) ==
  /\ phase[w] = "up" /\ claim[w].pc = "idle" /\ Cardinality(DOMAIN exec[w]) < MaxConcurrent
  /\ claim' = [claim EXCEPT ![w] = [Idle EXCEPT !.pc = "asked", !.running = Running]]
  /\ UNCHANGED <<status, owner, phase, exec, breaker, forsaken, used>>

\* Rows for a queue are looked at only if they name a site as well.
Consulted(l, j) ==
  \/ l.queue = None /\ l.site = None /\ l.integration = Of[j].integration
  \/ l.site # None /\ l.site = Of[j].site
Counted(l, j) == IF l.site = None THEN Of[j].integration = l.integration ELSE Of[j].site = l.site

HasRoom(running, j) ==
  \A l \in Limits : Consulted(l, j) => Cardinality({r \in running : Counted(l, r)}) < l.max

\* The row is locked and taken, whatever was claimed since the snapshot; it may
\* come back empty while another claim holds the row (skip locked).
EndClaim(w) ==
  /\ claim[w].pc = "asked"
  /\ LET rows == {j \in Jobs : status[j] = "ready" /\ HasRoom(claim[w].running, j)}
     IN \/ \E j \in rows :
             /\ status' = [status EXCEPT ![j] = "running"] /\ owner' = [owner EXCEPT ![j] = w]
             /\ \/ claim' = [claim EXCEPT ![w] = [Idle EXCEPT !.pc = "given", !.job = j]] /\ UNCHANGED <<forsaken, used>>
                \/ claim' = [claim EXCEPT ![w] = Idle] /\ Lost(j)
        \/ /\ rows = {} \/ \E v \in Workers \ {w} : claim[v].pc = "asked"
           /\ claim' = [claim EXCEPT ![w] = Idle] /\ UNCHANGED <<status, owner, forsaken, used>>
  /\ UNCHANGED <<phase, exec, breaker>>

---------------------------------------------------------------------------
(* The breaker and the execution.                                          *)

Allows(b) ==
  \/ ~BreakerEnabled \/ b.state = "closed"
  \/ b.state = "open" /\ b.cooled
  \/ b.state = "half_open" /\ ~b.throttled
Tested(b) ==
  IF ~BreakerEnabled \/ b.state = "closed" THEN b ELSE [b EXCEPT !.state = "half_open", !.throttled = TRUE]

\* The answer arrives, drain or not: executeJob takes a slot and asks the breaker.
StartJob(w) ==
  /\ claim[w].pc = "given" /\ claim' = [claim EXCEPT ![w] = Idle]
  /\ LET j == claim[w].job
     IN IF Allows(breaker[w])
        THEN exec' = At(w, j, "working") /\ breaker' = [breaker EXCEPT ![w] = Tested(@)]
        ELSE exec' = At(w, j, "refused") /\ UNCHANGED breaker
  /\ UNCHANGED <<status, owner, phase, forsaken, used>>

\* A call of the execution of j that changes its row and ends it.
Leaves(w, j, next) ==
  /\ exec' = Without(w, j)
  /\ \/ /\ status' = [status EXCEPT ![j] = next] /\ owner' = [owner EXCEPT ![j] = None]
        /\ UNCHANGED <<forsaken, used>>
     \/ Lost(j) /\ UNCHANGED <<status, owner>>

\* Refused: put back for a cool-down.
PutBack(w, j) ==
  /\ j \in DOMAIN exec[w] /\ exec[w][j] = "refused" /\ Leaves(w, j, "later")
  /\ UNCHANGED <<phase, claim, breaker>>

CompleteStep(w, j) ==
  /\ j \in DOMAIN exec[w] /\ exec[w][j] = "working"
  /\ exec' = At(w, j, "completed")
  /\ \/ status' = [status EXCEPT ![j] = "ended"] /\ owner' = [owner EXCEPT ![j] = None] /\ UNCHANGED <<forsaken, used>>
     \/ Lost(j) /\ UNCHANGED <<status, owner>>
  /\ UNCHANGED <<phase, claim, breaker>>

\* A success closes a breaker that is testing, clears one that is closed and
\* says nothing to one that is open, whenever its job was let in.
Succeeded(b) == IF b.state = "open" THEN b ELSE Closed

RecordSuccess(w, j) ==
  /\ j \in DOMAIN exec[w] /\ exec[w][j] = "completed" /\ exec' = Without(w, j)
  /\ breaker' = [breaker EXCEPT ![w] = IF BreakerEnabled THEN Succeeded(@) ELSE @]
  /\ UNCHANGED <<status, owner, phase, claim, forsaken, used>>

\* A failure counts in every state; it opens a breaker that is testing, and one
\* that is closed at the threshold.
Failed(b) ==
  LET more == [b EXCEPT !.recent = @ + 1]
  IN IF b.state = "half_open" \/ (b.state = "closed" /\ more.recent >= Threshold)
     THEN [more EXCEPT !.state = "open", !.cooled = FALSE] ELSE more

\* The handler throws; only what may be retried is a failure of the POS.
HandlerThrows(w, j) ==
  /\ j \in DOMAIN exec[w] /\ exec[w][j] = "working" /\ exec' = At(w, j, "failed")
  /\ \/ UNCHANGED <<breaker, used>>
     \/ /\ used.fails < MaxFails /\ used' = [used EXCEPT !.fails = @ + 1]
        /\ breaker' = [breaker EXCEPT ![w] = IF BreakerEnabled THEN Failed(@) ELSE @]
  /\ UNCHANGED <<status, owner, phase, claim, forsaken>>

FailStep(w, j) ==
  /\ j \in DOMAIN exec[w] /\ exec[w][j] = "failed" /\ \E next \in {"later", "ended"} : Leaves(w, j, next)
  /\ UNCHANGED <<phase, claim, breaker>>

---------------------------------------------------------------------------
(* Time, recovery and the end of a process.                                *)

\* The cool-down ends, or the pause between two tests, or a failure leaves the window.
TimePasses(w) ==
  /\ LET br == breaker[w]
     IN \/ br.state = "open" /\ ~br.cooled /\ breaker' = [breaker EXCEPT ![w].cooled = TRUE]
        \/ br.throttled /\ breaker' = [breaker EXCEPT ![w].throttled = FALSE]
        \/ br.recent > 0 /\ breaker' = [breaker EXCEPT ![w].recent = @ - 1]
  /\ UNCHANGED <<status, owner, phase, claim, exec, forsaken, used>>

BecomeDue(j) ==
  /\ status[j] = "later" /\ status' = [status EXCEPT ![j] = "ready"]
  /\ UNCHANGED <<owner, phase, claim, exec, breaker, forsaken, used>>

Sigterm(w) ==
  /\ phase[w] = "up" /\ phase' = [phase EXCEPT ![w] = "draining"]
  /\ UNCHANGED <<status, owner, claim, exec, breaker, forsaken, used>>

\* Wrong variant, for the tests of the properties: a claim on its way is not waited for.
SlotsAreFree(w) == DOMAIN exec[w] = {}

\* The loop ends behind its claim, the drain when the last execution is gone.
NothingUnderWay(w) == claim[w].pc = "idle" /\ DOMAIN exec[w] = {}

Exit(w) ==
  /\ phase[w] = "draining" /\ NothingUnderWay(w)
  /\ phase' = [phase EXCEPT ![w] = "stopped"] /\ claim' = [claim EXCEPT ![w] = Idle]
  /\ UNCHANGED <<status, owner, exec, breaker, forsaken, used>>

Crash(w) ==
  /\ phase[w] \in {"up", "draining"} /\ Fault
  /\ phase' = [phase EXCEPT ![w] = "crashed"]
  /\ claim' = [claim EXCEPT ![w] = Idle] /\ exec' = [exec EXCEPT ![w] = [j \in {} |-> None]]
  /\ forsaken' = forsaken \cup {j \in Running : owner[j] = w}
  /\ UNCHANGED <<status, owner, breaker>>

\* recover_stuck_jobs: nobody extends the lock of a job left behind.
RecoverStuckJob(j) ==
  /\ status[j] = "running" /\ j \in forsaken /\ \A w \in Workers : j \notin DOMAIN exec[w]
  /\ status' = [status EXCEPT ![j] = "ready"] /\ owner' = [owner EXCEPT ![j] = None]
  /\ forsaken' = forsaken \ {j}
  /\ UNCHANGED <<phase, claim, exec, breaker, used>>

Next ==
  \/ \E w \in Workers :
       \/ AskClaim(w) \/ EndClaim(w) \/ StartJob(w) \/ TimePasses(w) \/ Sigterm(w) \/ Exit(w) \/ Crash(w)
       \/ \E j \in Jobs : PutBack(w, j) \/ CompleteStep(w, j) \/ RecordSuccess(w, j) \/ HandlerThrows(w, j) \/ FailStep(w, j)
  \/ \E j \in Jobs : BecomeDue(j) \/ RecoverStuckJob(j)

Spec == Init /\ [][Next]_vars

---------------------------------------------------------------------------

\* 002: the claim counts running jobs in its own snapshot, so a limit can be
\* passed, but by no more than the claims that may be under way at once: one of
\* each other process.
LimitsHold ==
  \A l \in Limits : (\E j \in Jobs : Consulted(l, j)) =>
    Cardinality({j \in Running : Counted(l, j)}) < l.max + Cardinality(Workers)

\* circuit-breaker.ts: a POS that fails is not called on and on.  While a breaker
\* is closed its process has met fewer failures than the threshold in the window
\* since the last success, however late the results of jobs let in before it
\* opened arrive.
ClosedIsQuiet == \A w \in Workers : breaker[w].state = "closed" => breaker[w].recent < Threshold

\* index.ts: a process that ended by its drain leaves no job running in its name,
\* one claimed while SIGTERM came included, unless a call about that job was lost.
NoJobAbandoned ==
  \A j \in Running : owner[j] # None /\ phase[owner[j]] = "stopped" => j \in forsaken

\* Does not hold.  026, 037: the limits stored for a queue.
EveryLimitHolds ==
  \A l \in Limits : Cardinality({j \in Running : Counted(l, j)}) < l.max + Cardinality(Workers)
=============================================================================
