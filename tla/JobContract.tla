---------------------------- MODULE JobContract ----------------------------
(***************************************************************************)
(* What the engine promises of a job, without workers, locks, attempts or  *)
(* calls (README: "Every job belongs to a site_id, executes as an ordered  *)
(* sequence of steps, retries with queue-specific backoff, and moves to a  *)
(* dead-letter queue when exhausted").  JobEngine implements it as long as *)
(* no lock is overrun and no complete_step is lost.                        *)
(***************************************************************************)
EXTENDS Naturals

CONSTANTS Jobs, NumSteps

VARIABLES
  phase,  \* "absent", "open", "completed" or "dead"
  done    \* the steps that count as done

vars == <<phase, done>>

Init ==
  /\ phase = [j \in Jobs |-> "absent"]
  /\ done  = [j \in Jobs |-> {}]

Submit(j) ==
  /\ phase[j] = "absent"
  /\ phase' = [phase EXCEPT ![j] = "open"]
  /\ UNCHANGED done

\* The next step in order is done; the last one completes the job.
Progress(j, s) ==
  /\ phase[j] = "open"
  /\ done[j] = 1 .. (s - 1)
  /\ done'  = [done EXCEPT ![j] = 1 .. s]
  /\ phase' = [phase EXCEPT ![j] = IF s = NumSteps THEN "completed" ELSE "open"]

GiveUp(j) ==
  /\ phase[j] = "open"
  /\ phase' = [phase EXCEPT ![j] = "dead"]
  /\ UNCHANGED done

\* An operator reopens a dead job where it stopped, ...
Resume(j) ==
  /\ phase[j] = "dead"
  /\ phase' = [phase EXCEPT ![j] = "open"]
  /\ UNCHANGED done

\* ... or any job that has ended, from its first step.
Restart(j) ==
  /\ phase[j] \in {"completed", "dead"}
  /\ phase' = [phase EXCEPT ![j] = "open"]
  /\ done'  = [done EXCEPT ![j] = {}]

Next ==
  \E j \in Jobs :
    \/ Submit(j)
    \/ \E s \in 1 .. NumSteps : Progress(j, s)
    \/ GiveUp(j)
    \/ Resume(j)
    \/ Restart(j)

Spec == Init /\ [][Next]_vars

\* A submitted job is not forgotten.
FairSpec ==
  /\ Spec
  /\ \A j \in Jobs : WF_vars((\E s \in 1 .. NumSteps : Progress(j, s)) \/ GiveUp(j))
=============================================================================
