--------------------------- MODULE Workers_proofs ---------------------------
(***************************************************************************)
(* Theorems about Workers, for any sets of processes and jobs, any limits, *)
(* slots and threshold, and any numbers of failures and faults.            *)
(***************************************************************************)
EXTENDS Workers, FiniteSetTheorems, TLAPS

---------------------------------------------------------------------------
(* Typing *)

Pcs == {"idle", "asked", "given"}

ClaimType   == [pc : Pcs, running : SUBSET Jobs, job : Jobs \cup {None}]
ExecType    == UNION {[D -> Stages] : D \in SUBSET Jobs}
BreakerType == [state : {"closed", "open", "half_open"}, recent : Nat, cooled : BOOLEAN, throttled : BOOLEAN]

\* The types of what the claim and the drain look at.
TypeInv ==
  /\ status \in [Jobs -> {"later", "ready", "running", "ended"}]
  /\ owner \in [Jobs -> Workers \cup {None}]
  /\ phase \in [Workers -> {"up", "draining", "stopped", "crashed"}]
  /\ claim \in [Workers -> ClaimType]
  /\ \A w \in Workers : claim[w].pc = "given" => claim[w].job \in Jobs
  /\ exec \in [Workers -> ExecType]
  /\ forsaken \subseteq Jobs

\* An execution put in place changes its own entry only.
LEMMA AtEntry ==
  ASSUME exec \in [Workers -> ExecType], NEW w \in Workers, NEW j \in Jobs, NEW stage \in Stages
  PROVE  /\ At(w, j, stage) \in [Workers -> ExecType]
         /\ \A v \in Workers \ {w} : At(w, j, stage)[v] = exec[v]
         /\ DOMAIN At(w, j, stage)[w] = DOMAIN exec[w] \cup {j}
         /\ At(w, j, stage)[w][j] = stage
         /\ \A i \in DOMAIN exec[w] \ {j} : At(w, j, stage)[w][i] = exec[w][i]
<1> DEFINE f == [i \in DOMAIN exec[w] \cup {j} |-> IF i = j THEN stage ELSE exec[w][i]]
<1>1. At(w, j, stage) = [exec EXCEPT ![w] = f]
  BY DEF At
<1>2. PICK D \in SUBSET Jobs : exec[w] \in [D -> Stages]
  BY DEF ExecType
<1>3. f \in [D \cup {j} -> Stages] /\ D \cup {j} \in SUBSET Jobs
  BY <1>2
<1>4. f \in ExecType
  BY <1>3 DEF ExecType
<1> HIDE DEF f
<1>5. /\ At(w, j, stage) \in [Workers -> ExecType] /\ At(w, j, stage)[w] = f
      /\ \A v \in Workers \ {w} : At(w, j, stage)[v] = exec[v]
  BY <1>1, <1>4
<1> QED
  BY <1>5 DEF f

LEMMA WithoutEntry ==
  ASSUME exec \in [Workers -> ExecType], NEW w \in Workers, NEW j \in Jobs
  PROVE  /\ Without(w, j) \in [Workers -> ExecType]
         /\ \A v \in Workers \ {w} : Without(w, j)[v] = exec[v]
         /\ DOMAIN Without(w, j)[w] = DOMAIN exec[w] \ {j}
         /\ \A i \in DOMAIN exec[w] \ {j} : Without(w, j)[w][i] = exec[w][i]
<1> DEFINE f == [i \in DOMAIN exec[w] \ {j} |-> exec[w][i]]
<1>1. Without(w, j) = [exec EXCEPT ![w] = f]
  BY DEF Without
<1>2. PICK D \in SUBSET Jobs : exec[w] \in [D -> Stages]
  BY DEF ExecType
<1>3. f \in [D \ {j} -> Stages] /\ D \ {j} \in SUBSET Jobs
  BY <1>2
<1>4. f \in ExecType
  BY <1>3 DEF ExecType
<1> HIDE DEF f
<1>5. /\ Without(w, j) \in [Workers -> ExecType] /\ Without(w, j)[w] = f
      /\ \A v \in Workers \ {w} : Without(w, j)[v] = exec[v]
  BY <1>1, <1>4
<1> QED
  BY <1>5 DEF f

LEMMA NoneEntry == [i \in {} |-> None] \in ExecType /\ DOMAIN [i \in {} |-> None] = {}
<1>1. [i \in {} |-> None] \in [{} -> Stages]
  OBVIOUS
<1> QED
  BY <1>1 DEF ExecType

\* What each action does to the claim, as a record.
LEMMA IdleType == Idle \in ClaimType /\ Idle.pc = "idle"
BY DEF Idle, ClaimType, Pcs

LEMMA TypeInit == Init => TypeInv
<1> SUFFICES ASSUME Init PROVE TypeInv
  OBVIOUS
<1>1. claim \in [Workers -> ClaimType] /\ \A w \in Workers : claim[w].pc = "idle"
  BY IdleType DEF Init
<1>2. exec \in [Workers -> ExecType]
  BY NoneEntry DEF Init
<1> QED
  BY <1>1, <1>2 DEF Init, TypeInv

\* What the end of a claim comes to: a row taken, whose answer arrives or is lost; or none.
Takes(w, j) ==
  /\ status[j] = "ready" /\ HasRoom(claim[w].running, j)
  /\ status' = [status EXCEPT ![j] = "running"] /\ owner' = [owner EXCEPT ![j] = w]
  /\ \/ claim' = [claim EXCEPT ![w] = [Idle EXCEPT !.pc = "given", !.job = j]] /\ UNCHANGED forsaken
     \/ claim' = [claim EXCEPT ![w] = Idle] /\ forsaken' = forsaken \cup {j}

LEMMA EndClaimCases ==
  ASSUME NEW w \in Workers, EndClaim(w)
  PROVE  /\ claim[w].pc = "asked" /\ UNCHANGED <<phase, exec>>
         /\ \/ \E j \in Jobs : Takes(w, j)
            \/ claim' = [claim EXCEPT ![w] = Idle] /\ UNCHANGED <<status, owner, forsaken>>
<1>1. CASE \E j \in {k \in Jobs : status[k] = "ready" /\ HasRoom(claim[w].running, k)} :
             /\ status' = [status EXCEPT ![j] = "running"] /\ owner' = [owner EXCEPT ![j] = w]
             /\ \/ claim' = [claim EXCEPT ![w] = [Idle EXCEPT !.pc = "given", !.job = j]] /\ UNCHANGED <<forsaken, used>>
                \/ claim' = [claim EXCEPT ![w] = Idle] /\ Lost(j)
  <2>1. \E j \in Jobs : Takes(w, j)
    BY <1>1 DEF Takes, Lost
  <2> QED
    BY <2>1 DEF EndClaim
<1>2. CASE claim' = [claim EXCEPT ![w] = Idle] /\ UNCHANGED <<status, owner, forsaken, used>>
  BY <1>2 DEF EndClaim
<1> QED
  BY <1>1, <1>2 DEF EndClaim

LEMMA TypeEndClaim ==
  ASSUME TypeInv, NEW w \in Workers, EndClaim(w)
  PROVE  TypeInv'
<1> USE DEF TypeInv
<1>0. /\ status' \in [Jobs -> {"later", "ready", "running", "ended"}]
      /\ owner' \in [Jobs -> Workers \cup {None}]
      /\ forsaken' \subseteq Jobs
  <2>1. CASE \E j \in Jobs : Takes(w, j)
    <3>1. PICK j \in Jobs : Takes(w, j)
      BY <2>1
    <3> QED
      BY <3>1 DEF Takes
  <2>2. CASE UNCHANGED <<status, owner, forsaken>>
    BY <2>2
  <2> QED
    BY <2>1, <2>2, EndClaimCases
<1>1. CASE claim' = [claim EXCEPT ![w] = Idle]
  <2>1. /\ claim' \in [Workers -> ClaimType]
        /\ \A v \in Workers : claim'[v].pc = "given" => claim'[v].job \in Jobs
    BY <1>1, IdleType
  <2> QED
    BY <1>0, <2>1 DEF EndClaim
<1>2. CASE \E j \in Jobs : claim' = [claim EXCEPT ![w] = [Idle EXCEPT !.pc = "given", !.job = j]]
  <2>1. PICK j \in Jobs : claim' = [claim EXCEPT ![w] = [Idle EXCEPT !.pc = "given", !.job = j]]
    BY <1>2
  <2>2. [Idle EXCEPT !.pc = "given", !.job = j] \in ClaimType /\ [Idle EXCEPT !.pc = "given", !.job = j].job = j
    BY DEF Idle, ClaimType, Pcs
  <2>3. /\ claim' \in [Workers -> ClaimType]
        /\ \A v \in Workers : claim'[v].pc = "given" => claim'[v].job \in Jobs
    BY <2>1, <2>2
  <2> QED
    BY <1>0, <2>3 DEF EndClaim
<1> QED
  BY <1>1, <1>2 DEF EndClaim

LEMMA TypeWorkerStep ==
  ASSUME TypeInv, NEW w \in Workers,
         AskClaim(w) \/ StartJob(w) \/ TimePasses(w) \/ Sigterm(w) \/ Exit(w) \/ Crash(w)
  PROVE  TypeInv'
<1>1. CASE AskClaim(w)
  <2>1. /\ [Idle EXCEPT !.pc = "asked", !.running = Running] \in ClaimType
        /\ [Idle EXCEPT !.pc = "asked", !.running = Running].pc = "asked"
    BY DEF Idle, ClaimType, Pcs, Running
  <2> QED
    BY <1>1, <2>1 DEF AskClaim, TypeInv
<1>2. CASE StartJob(w)
  <2>1. claim[w].job \in Jobs
    BY <1>2 DEF StartJob, TypeInv
  <2>2. exec' = At(w, claim[w].job, "working") \/ exec' = At(w, claim[w].job, "refused")
    BY <1>2 DEF StartJob
  <2>3. exec' \in [Workers -> ExecType]
    BY <2>1, <2>2, AtEntry DEF TypeInv, Stages
  <2> QED
    BY <1>2, <2>3, IdleType DEF StartJob, TypeInv
<1>3. CASE TimePasses(w) \/ Sigterm(w)
  BY <1>3 DEF TimePasses, Sigterm, TypeInv
<1>4. CASE Exit(w)
  BY <1>4, IdleType DEF Exit, TypeInv
<1>5. CASE Crash(w)
  BY <1>5, IdleType, NoneEntry DEF Crash, TypeInv, Running
<1> QED
  BY <1>1, <1>2, <1>3, <1>4, <1>5

LEMMA TypeExecution ==
  ASSUME TypeInv, NEW w \in Workers, NEW j \in Jobs,
         PutBack(w, j) \/ CompleteStep(w, j) \/ RecordSuccess(w, j) \/ HandlerThrows(w, j) \/ FailStep(w, j)
  PROVE  TypeInv'
<1>1. exec' \in [Workers -> ExecType]
  BY AtEntry, WithoutEntry
  DEF TypeInv, PutBack, CompleteStep, RecordSuccess, HandlerThrows, FailStep, Leaves, Stages
<1>2. status' \in [Jobs -> {"later", "ready", "running", "ended"}] /\ owner' \in [Jobs -> Workers \cup {None}]
  BY DEF TypeInv, PutBack, CompleteStep, RecordSuccess, HandlerThrows, FailStep, Leaves
<1>3. forsaken' \subseteq Jobs
  BY DEF TypeInv, PutBack, CompleteStep, RecordSuccess, HandlerThrows, FailStep, Leaves, Lost
<1> QED
  BY <1>1, <1>2, <1>3 DEF TypeInv, PutBack, CompleteStep, RecordSuccess, HandlerThrows, FailStep

LEMMA TypeJob ==
  ASSUME TypeInv, NEW j \in Jobs, BecomeDue(j) \/ RecoverStuckJob(j)
  PROVE  TypeInv'
BY DEF TypeInv, BecomeDue, RecoverStuckJob

LEMMA TypeStep == TypeInv /\ [Next]_vars => TypeInv'
<1> SUFFICES ASSUME TypeInv, [Next]_vars PROVE TypeInv'
  OBVIOUS
<1>1. CASE UNCHANGED vars
  BY <1>1 DEF vars, TypeInv
<1>2. CASE Next
  BY <1>2, TypeEndClaim, TypeWorkerStep, TypeExecution, TypeJob DEF Next
<1> QED
  BY <1>1, <1>2

\* The columns, phases, claims and executions keep their types.
THEOREM WellTyped == Spec => []TypeInv
<1> QED
  BY TypeInit, TypeStep, PTL DEF Spec

---------------------------------------------------------------------------
(* Who answers for a running job *)

\* An execution of j that has still to say what becomes of it; an answer to a claim with j.
AtWork(w, j) == j \in DOMAIN exec[w] /\ exec[w][j] # "completed"
Given(w, j)  == claim[w].pc = "given" /\ claim[w].job = j

\* Whoever answers for a job owns it and is alone; an execution that has only to
\* tell the breaker is one of a job that ended or that was lost.
Held ==
  \A w \in Workers, j \in Jobs :
    /\ Given(w, j) \/ AtWork(w, j) => status[j] = "running" /\ owner[j] = w /\ j \notin forsaken
    /\ ~(Given(w, j) /\ AtWork(w, j))
    /\ j \in DOMAIN exec[w] /\ exec[w][j] = "completed" =>
         status[j] = "ended" \/ (status[j] = "running" /\ j \in forsaken)

\* A running job was left behind, or its owner answers for it.
Answered ==
  /\ \A j \in forsaken : status[j] = "running"
  /\ \A j \in Jobs : status[j] = "running" /\ j \notin forsaken =>
       owner[j] \in Workers /\ (Given(owner[j], j) \/ AtWork(owner[j], j))

\* A process that is gone has nothing under way.
Gone == \A w \in Workers : phase[w] \notin {"up", "draining"} => claim[w].pc = "idle" /\ DOMAIN exec[w] = {}

OwnInv == TypeInv /\ Held /\ Answered /\ Gone

LEMMA OwnInit == Init => OwnInv
<1> SUFFICES ASSUME Init PROVE OwnInv
  OBVIOUS
<1>1. \A w \in Workers : claim[w].pc = "idle" /\ DOMAIN exec[w] = {}
  BY IdleType, NoneEntry DEF Init
<1>2. \A j \in Jobs : status[j] = "ready"
  BY DEF Init
<1>3. forsaken = {}
  BY DEF Init
<1> QED
  BY <1>1, <1>2, <1>3, TypeInit DEF OwnInv, Held, Answered, Gone, Given, AtWork

LEMMA OwnEndClaim ==
  ASSUME OwnInv, NEW w \in Workers, EndClaim(w)
  PROVE  Held' /\ Answered' /\ Gone'
<1> USE DEF OwnInv
<1>1. claim[w].pc = "asked" /\ UNCHANGED <<phase, exec>>
  BY EndClaimCases
<1>2. CASE claim' = [claim EXCEPT ![w] = Idle] /\ UNCHANGED <<status, owner, forsaken>>
  <2>1. \A v \in Workers, j \in Jobs : (Given(v, j)' <=> Given(v, j)) /\ (AtWork(v, j)' <=> AtWork(v, j))
    BY <1>1, <1>2, IdleType DEF Given, AtWork, TypeInv
  <2>2. \A v \in Workers : claim[v].pc = "idle" => claim'[v].pc = "idle"
    BY <1>2, IdleType DEF TypeInv
  <2> QED
    BY <1>1, <1>2, <2>1, <2>2 DEF Held, Answered, Gone
<1>3. CASE \E j \in Jobs : Takes(w, j)
  <2>1. PICK j \in Jobs : Takes(w, j)
    BY <1>3
  <2>2. \A v \in Workers : ~Given(v, j) /\ j \notin DOMAIN exec[v]
    BY <2>1 DEF Takes, Held, AtWork
  <2>3. j \notin forsaken
    BY <2>1 DEF Takes, Answered
  <2>4. /\ status'[j] = "running" /\ owner'[j] = w
        /\ \A i \in Jobs \ {j} : status'[i] = status[i] /\ owner'[i] = owner[i] /\ (i \in forsaken' <=> i \in forsaken)
        /\ forsaken' \subseteq Jobs
    BY <2>1 DEF Takes, TypeInv
  <2>5. \A v \in Workers, i \in Jobs : AtWork(v, i)' <=> AtWork(v, i)
    BY <1>1 DEF AtWork
  <2>6. \A v \in Workers \ {w} : claim'[v] = claim[v]
    BY <2>1 DEF Takes, TypeInv
  <2>7. \A i \in Jobs : ~Given(w, i)
    BY <1>1 DEF Given
  <2>8. phase[w] \in {"up", "draining"}
    BY <1>1 DEF Gone
  <2>9. \/ (\A i \in Jobs : Given(w, i)' <=> i = j) /\ j \notin forsaken'
        \/ (\A i \in Jobs : ~Given(w, i)') /\ j \in forsaken'
    <3>1. CASE claim' = [claim EXCEPT ![w] = [Idle EXCEPT !.pc = "given", !.job = j]] /\ UNCHANGED forsaken
      BY <3>1, <2>3 DEF Given, Idle, TypeInv
    <3>2. CASE claim' = [claim EXCEPT ![w] = Idle] /\ forsaken' = forsaken \cup {j}
      BY <3>2 DEF Given, Idle, TypeInv
    <3> QED
      BY <2>1, <3>1, <3>2 DEF Takes
  <2>10. \A v \in Workers \ {w}, i \in Jobs : Given(v, i)' <=> Given(v, i)
    BY <2>6 DEF Given
  <2>11. Held'
    BY <1>1, <2>2, <2>4, <2>5, <2>7, <2>9, <2>10 DEF Held, AtWork
  <2>12. Answered'
    BY <2>2, <2>4, <2>5, <2>7, <2>9, <2>10 DEF Answered, TypeInv
  <2>13. Gone'
    BY <1>1, <2>6, <2>8 DEF Gone
  <2> QED
    BY <2>11, <2>12, <2>13
<1> QED
  BY <1>2, <1>3, EndClaimCases

LEMMA OwnStartJob ==
  ASSUME OwnInv, NEW w \in Workers, StartJob(w)
  PROVE  Held' /\ Answered' /\ Gone'
<1> USE DEF OwnInv
<1> DEFINE j == claim[w].job
<1>1. j \in Jobs /\ Given(w, j) /\ phase[w] \in {"up", "draining"}
  BY DEF StartJob, TypeInv, Given, Gone
<1>2. UNCHANGED <<status, owner, phase, forsaken>> /\ claim' = [claim EXCEPT ![w] = Idle]
  BY DEF StartJob
<1>3. PICK stage \in {"working", "refused"} : exec' = At(w, j, stage)
  BY DEF StartJob
<1>4. j \notin DOMAIN exec[w]
  BY <1>1 DEF Held, AtWork
<1> HIDE DEF j
<1>5. \A v \in Workers, i \in Jobs :
        /\ Given(v, i)' <=> Given(v, i) /\ v # w
        /\ AtWork(v, i)' <=> AtWork(v, i) \/ (v = w /\ i = j)
        /\ i \in DOMAIN exec'[v] /\ exec'[v][i] = "completed" => i \in DOMAIN exec[v] /\ exec[v][i] = "completed"
  <2> SUFFICES ASSUME NEW v \in Workers, NEW i \in Jobs
               PROVE  /\ Given(v, i)' <=> Given(v, i) /\ v # w
                      /\ AtWork(v, i)' <=> AtWork(v, i) \/ (v = w /\ i = j)
                      /\ i \in DOMAIN exec'[v] /\ exec'[v][i] = "completed" => i \in DOMAIN exec[v] /\ exec[v][i] = "completed"
    OBVIOUS
  <2>1. Given(v, i)' <=> Given(v, i) /\ v # w
    BY <1>2, IdleType DEF Given, TypeInv
  <2>2. CASE v = w
    <3>1. /\ DOMAIN exec'[w] = DOMAIN exec[w] \cup {j} /\ exec'[w][j] = stage
          /\ \A k \in DOMAIN exec[w] \ {j} : exec'[w][k] = exec[w][k]
      BY <1>1, <1>3, AtEntry DEF TypeInv, Stages
    <3> QED
      BY <1>3, <2>1, <2>2, <3>1, <1>4 DEF AtWork
  <2>3. CASE v # w
    <3>1. exec'[v] = exec[v]
      BY <1>1, <1>3, <2>3, AtEntry DEF TypeInv, Stages
    <3> QED
      BY <2>1, <2>3, <3>1 DEF AtWork
  <2> QED
    BY <2>2, <2>3
<1>6. \A i \in Jobs : Given(w, i) => i = j
  BY DEF Given, j
<1>7. Held'
  BY <1>1, <1>2, <1>5, <1>6 DEF Held
<1>8. Answered'
  BY <1>1, <1>2, <1>5, <1>6 DEF Answered
<1>9. Gone'
  <2> SUFFICES ASSUME NEW v \in Workers, phase[v] \notin {"up", "draining"}
               PROVE  claim'[v].pc = "idle" /\ DOMAIN exec'[v] = {}
    BY <1>2 DEF Gone
  <2>1. v # w
    BY <1>1
  <2>2. exec'[v] = exec[v] /\ claim'[v] = claim[v]
    BY <1>1, <1>2, <1>3, <2>1, AtEntry DEF TypeInv, Stages
  <2> QED
    BY <2>2 DEF Gone
<1> QED
  BY <1>7, <1>8, <1>9

\* What an execution does to itself: it keeps the slot, in another stage, or leaves it.
Moves(w, j, stages) ==
  /\ \A v \in Workers, i \in Jobs : v # w \/ i # j =>
       /\ i \in DOMAIN exec'[v] <=> i \in DOMAIN exec[v]
       /\ i \in DOMAIN exec[v] => exec'[v][i] = exec[v][i]
  /\ j \in DOMAIN exec'[w] => exec'[w][j] \in stages
  /\ \A v \in Workers \ {w} : exec'[v] = exec[v]

LEMMA MovesTo ==
  ASSUME TypeInv, NEW w \in Workers, NEW j \in Jobs, NEW stage \in Stages, exec' = At(w, j, stage)
  PROVE  Moves(w, j, {stage}) /\ j \in DOMAIN exec'[w] /\ exec'[w][j] = stage
<1>1. /\ \A v \in Workers \ {w} : exec'[v] = exec[v]
      /\ DOMAIN exec'[w] = DOMAIN exec[w] \cup {j} /\ exec'[w][j] = stage
      /\ \A i \in DOMAIN exec[w] \ {j} : exec'[w][i] = exec[w][i]
  BY AtEntry DEF TypeInv
<1> QED
  BY <1>1 DEF Moves

LEMMA MovesOut ==
  ASSUME TypeInv, NEW w \in Workers, NEW j \in Jobs, exec' = Without(w, j)
  PROVE  Moves(w, j, {}) /\ j \notin DOMAIN exec'[w]
<1>1. /\ \A v \in Workers \ {w} : exec'[v] = exec[v]
      /\ DOMAIN exec'[w] = DOMAIN exec[w] \ {j}
      /\ \A i \in DOMAIN exec[w] \ {j} : exec'[w][i] = exec[w][i]
  BY WithoutEntry DEF TypeInv
<1> QED
  BY <1>1 DEF Moves

\* The four things the row sees of it: nothing, while the execution goes on or is
\* over; a call that is lost; and one that takes the job from the process.
GoesOn(w, j) ==
  AtWork(w, j) /\ AtWork(w, j)' /\ Moves(w, j, {"failed"}) /\ UNCHANGED <<status, owner, forsaken>>
IsOver(w, j) ==
  exec[w][j] = "completed" /\ j \notin DOMAIN exec'[w] /\ Moves(w, j, {}) /\ UNCHANGED <<status, owner, forsaken>>
IsLost(w, j) ==
  AtWork(w, j) /\ Moves(w, j, {"completed"}) /\ forsaken' = forsaken \cup {j} /\ UNCHANGED <<status, owner>>
GivesUp(w, j) ==
  /\ AtWork(w, j) /\ Moves(w, j, {"completed"}) /\ UNCHANGED forsaken
  /\ \E next \in {"later", "ended"} :
       /\ status' = [status EXCEPT ![j] = next] /\ owner' = [owner EXCEPT ![j] = None]
       /\ next = "later" => j \notin DOMAIN exec'[w]

LEMMA ExecutionCases ==
  ASSUME TypeInv, NEW w \in Workers, NEW j \in Jobs,
         PutBack(w, j) \/ CompleteStep(w, j) \/ RecordSuccess(w, j) \/ HandlerThrows(w, j) \/ FailStep(w, j)
  PROVE  /\ j \in DOMAIN exec[w] /\ UNCHANGED <<phase, claim>>
         /\ GoesOn(w, j) \/ IsOver(w, j) \/ IsLost(w, j) \/ GivesUp(w, j)
<1>1. CASE PutBack(w, j) \/ FailStep(w, j)
  <2>1. PICK next \in {"later", "ended"} : Leaves(w, j, next)
    BY <1>1 DEF PutBack, FailStep
  <2>2. AtWork(w, j) /\ UNCHANGED <<phase, claim>>
    BY <1>1 DEF PutBack, FailStep, AtWork
  <2>3. Moves(w, j, {}) /\ j \notin DOMAIN exec'[w]
    BY <2>1, MovesOut DEF Leaves
  <2>4. Moves(w, j, {"completed"})
    BY <2>3 DEF Moves
  <2> QED
    BY <2>1, <2>2, <2>3, <2>4 DEF Leaves, Lost, IsLost, GivesUp, AtWork
<1>2. CASE CompleteStep(w, j)
  <2>1. Moves(w, j, {"completed"})
    BY <1>2, MovesTo DEF CompleteStep, Stages
  <2> QED
    BY <1>2, <2>1 DEF CompleteStep, Lost, IsLost, GivesUp, AtWork
<1>3. CASE RecordSuccess(w, j)
  BY <1>3, MovesOut DEF RecordSuccess, IsOver
<1>4. CASE HandlerThrows(w, j)
  BY <1>4, MovesTo DEF HandlerThrows, GoesOn, AtWork, Stages
<1> QED
  BY <1>1, <1>2, <1>3, <1>4

LEMMA OwnExecution ==
  ASSUME OwnInv, NEW w \in Workers, NEW j \in Jobs,
         PutBack(w, j) \/ CompleteStep(w, j) \/ RecordSuccess(w, j) \/ HandlerThrows(w, j) \/ FailStep(w, j)
  PROVE  Held' /\ Answered' /\ Gone'
<1> USE DEF OwnInv
<1>1. /\ j \in DOMAIN exec[w] /\ UNCHANGED <<phase, claim>>
      /\ GoesOn(w, j) \/ IsOver(w, j) \/ IsLost(w, j) \/ GivesUp(w, j)
  BY ExecutionCases
<1>2. PICK stages : Moves(w, j, stages)
  BY <1>1 DEF GoesOn, IsOver, IsLost, GivesUp
<1>3. \A v \in Workers, i \in Jobs :
        /\ Given(v, i)' <=> Given(v, i)
        /\ v # w \/ i # j =>
             /\ AtWork(v, i)' <=> AtWork(v, i)
             /\ i \in DOMAIN exec'[v] /\ exec'[v][i] = "completed" => i \in DOMAIN exec[v] /\ exec[v][i] = "completed"
  BY <1>1, <1>2 DEF Given, AtWork, Moves
<1>4. Gone'
  BY <1>1, <1>2 DEF Gone, Moves
<1>5. CASE GoesOn(w, j)
  BY <1>3, <1>4, <1>5 DEF GoesOn, Moves, Held, Answered, AtWork
<1>6. CASE IsOver(w, j)
  <2>1. ~AtWork(w, j) /\ ~AtWork(w, j)'
    BY <1>6 DEF IsOver, AtWork
  <2>2. \A v \in Workers, i \in Jobs :
          /\ AtWork(v, i)' <=> AtWork(v, i)
          /\ i \in DOMAIN exec'[v] /\ exec'[v][i] = "completed" => i \in DOMAIN exec[v] /\ exec[v][i] = "completed"
    BY <1>3, <1>6, <2>1 DEF IsOver, AtWork
  <2>3. UNCHANGED <<status, owner, forsaken>>
    BY <1>6 DEF IsOver
  <2>4. Held'
    BY <1>3, <2>2, <2>3 DEF Held
  <2>5. Answered'
    BY <1>3, <2>2, <2>3 DEF Answered
  <2> QED
    BY <1>4, <2>4, <2>5
<1>7. CASE IsLost(w, j)
  <2>1. status[j] = "running" /\ owner[j] = w /\ ~AtWork(w, j)' /\ ~Given(w, j)
    BY <1>7 DEF IsLost, Held, AtWork, Moves
  <2>2. \A v \in Workers \ {w} : ~Given(v, j) /\ ~AtWork(v, j)
    BY <2>1 DEF Held
  <2>3. status' = status /\ owner' = owner /\ forsaken' = forsaken \cup {j}
    BY <1>7 DEF IsLost
  <2>4. Held'
    <3> SUFFICES ASSUME NEW v \in Workers, NEW i \in Jobs
                 PROVE  /\ Given(v, i)' \/ AtWork(v, i)' => status'[i] = "running" /\ owner'[i] = v /\ i \notin forsaken'
                        /\ ~(Given(v, i)' /\ AtWork(v, i)')
                        /\ i \in DOMAIN exec'[v] /\ exec'[v][i] = "completed" =>
                             status'[i] = "ended" \/ (status'[i] = "running" /\ i \in forsaken')
      BY DEF Held
    <3>1. CASE v = w /\ i = j
      BY <1>3, <2>1, <2>3, <3>1 DEF AtWork, Given
    <3>2. CASE v # w \/ i # j
      BY <1>3, <2>1, <2>2, <2>3, <3>2 DEF Held, AtWork, Given
    <3> QED
      BY <3>1, <3>2
  <2>5. Answered'
    <3>1. \A i \in Jobs : status'[i] = "running" /\ i \notin forsaken' =>
            i # j /\ owner'[i] \in Workers /\ (Given(owner[i], i) \/ AtWork(owner[i], i))
      BY <2>3 DEF Answered
    <3>2. \A i \in Jobs \ {j}, v \in Workers : (Given(v, i)' <=> Given(v, i)) /\ (AtWork(v, i)' <=> AtWork(v, i))
      BY <1>3 DEF AtWork, Given
    <3>3. \A i \in forsaken' : status'[i] = "running"
      BY <2>1, <2>3 DEF Answered
    <3> QED
      BY <2>3, <3>1, <3>2, <3>3 DEF Answered
  <2> QED
    BY <1>4, <2>4, <2>5
<1>8. CASE GivesUp(w, j)
  <2>1. status[j] = "running" /\ owner[j] = w /\ j \notin forsaken /\ ~Given(w, j)
    BY <1>8 DEF GivesUp, Held
  <2>2. \A v \in Workers \ {w} : ~Given(v, j) /\ j \notin DOMAIN exec[v]
    BY <2>1 DEF Held, AtWork
  <2>3. ~AtWork(w, j)'
    BY <1>8 DEF GivesUp, AtWork, Moves
  <2>4. PICK next \in {"later", "ended"} :
          /\ status' = [status EXCEPT ![j] = next] /\ owner' = [owner EXCEPT ![j] = None]
          /\ next = "later" => j \notin DOMAIN exec'[w]
    BY <1>8 DEF GivesUp
  <2>5. /\ status'[j] = next /\ forsaken' = forsaken
        /\ \A i \in Jobs \ {j} : status'[i] = status[i] /\ owner'[i] = owner[i]
    BY <1>8, <2>4 DEF GivesUp, TypeInv
  <2>6. Held'
    <3> SUFFICES ASSUME NEW v \in Workers, NEW i \in Jobs
                 PROVE  /\ Given(v, i)' \/ AtWork(v, i)' => status'[i] = "running" /\ owner'[i] = v /\ i \notin forsaken'
                        /\ ~(Given(v, i)' /\ AtWork(v, i)')
                        /\ i \in DOMAIN exec'[v] /\ exec'[v][i] = "completed" =>
                             status'[i] = "ended" \/ (status'[i] = "running" /\ i \in forsaken')
      BY DEF Held
    <3>1. CASE v = w /\ i = j
      BY <1>3, <2>1, <2>3, <2>4, <2>5, <3>1
    <3>2. CASE v # w /\ i = j
      BY <1>3, <2>2, <3>2 DEF AtWork, Given
    <3>3. CASE i # j
      BY <1>3, <2>5, <3>3 DEF Held, AtWork, Given
    <3> QED
      BY <3>1, <3>2, <3>3
  <2>7. Answered'
    <3>1. status'[j] # "running" /\ j \notin forsaken'
      BY <2>1, <2>4, <2>5
    <3>2. \A i \in Jobs \ {j}, v \in Workers : (Given(v, i)' <=> Given(v, i)) /\ (AtWork(v, i)' <=> AtWork(v, i))
      BY <1>3 DEF AtWork, Given
    <3>3. \A i \in forsaken' : status'[i] = "running"
      BY <2>5, <3>1 DEF Answered, TypeInv
    <3>4. \A i \in Jobs : status'[i] = "running" /\ i \notin forsaken' =>
            i # j /\ owner'[i] \in Workers /\ (Given(owner'[i], i) \/ AtWork(owner'[i], i))
      BY <2>5, <3>1 DEF Answered
    <3> QED
      BY <3>2, <3>3, <3>4 DEF Answered
  <2> QED
    BY <1>4, <2>6, <2>7
<1> QED
  BY <1>1, <1>5, <1>6, <1>7, <1>8

LEMMA OwnOther ==
  ASSUME OwnInv, NEW w \in Workers, AskClaim(w) \/ TimePasses(w) \/ Sigterm(w) \/ Exit(w)
  PROVE  Held' /\ Answered' /\ Gone'
<1> USE DEF OwnInv
<1>1. UNCHANGED <<status, owner, exec, forsaken>>
  BY DEF AskClaim, TimePasses, Sigterm, Exit
<1>2. \A v \in Workers : claim'[v] = claim[v] \/ (claim[v].pc = "idle" /\ claim'[v].pc # "given")
  <2>1. CASE AskClaim(w)
    <3>1. claim[w].pc = "idle" /\ claim' = [claim EXCEPT ![w] = [Idle EXCEPT !.pc = "asked", !.running = Running]]
      BY <2>1 DEF AskClaim
    <3>2. [Idle EXCEPT !.pc = "asked", !.running = Running].pc = "asked"
      BY DEF Idle
    <3> QED
      BY <3>1, <3>2 DEF TypeInv
  <2>2. CASE TimePasses(w) \/ Sigterm(w)
    BY <2>2 DEF TimePasses, Sigterm
  <2>3. CASE Exit(w)
    <3>1. claim[w].pc = "idle" /\ claim' = [claim EXCEPT ![w] = Idle]
      BY <2>3 DEF Exit, NothingUnderWay
    <3> QED
      BY <3>1, IdleType DEF TypeInv
  <2> QED
    BY <2>1, <2>2, <2>3
<1>3. \A v \in Workers, i \in Jobs : (Given(v, i)' <=> Given(v, i)) /\ (AtWork(v, i)' <=> AtWork(v, i))
  BY <1>1, <1>2 DEF Given, AtWork
<1>4. Held' /\ Answered'
  BY <1>1, <1>3 DEF Held, Answered
<1>5. Gone'
  <2>1. CASE AskClaim(w)
    BY <2>1, <1>1 DEF AskClaim, Gone, TypeInv
  <2>2. CASE TimePasses(w)
    BY <2>2, <1>1 DEF TimePasses, Gone
  <2>3. CASE Sigterm(w)
    BY <2>3, <1>1 DEF Sigterm, Gone, TypeInv
  <2>4. CASE Exit(w)
    BY <2>4, <1>1, IdleType DEF Exit, NothingUnderWay, Gone, TypeInv
  <2> QED
    BY <2>1, <2>2, <2>3, <2>4
<1> QED
  BY <1>4, <1>5

LEMMA OwnCrash ==
  ASSUME OwnInv, NEW w \in Workers, Crash(w)
  PROVE  Held' /\ Answered' /\ Gone'
<1> USE DEF OwnInv
<1>1. /\ UNCHANGED <<status, owner>> /\ forsaken' = forsaken \cup {j \in Running : owner[j] = w}
      /\ \A v \in Workers \ {w} : claim'[v] = claim[v] /\ exec'[v] = exec[v] /\ phase'[v] = phase[v]
      /\ claim'[w].pc = "idle" /\ DOMAIN exec'[w] = {}
  BY IdleType, NoneEntry DEF Crash, TypeInv
<1>2. \A v \in Workers, i \in Jobs :
        /\ v # w => (Given(v, i)' <=> Given(v, i)) /\ (AtWork(v, i)' <=> AtWork(v, i))
        /\ ~Given(w, i)' /\ ~AtWork(w, i)'
  BY <1>1 DEF Given, AtWork
<1>3. Held'
  BY <1>1, <1>2 DEF Held, Running
<1>4. Answered'
  BY <1>1, <1>2 DEF Answered, Running, TypeInv
<1>5. Gone'
  BY <1>1 DEF Gone
<1> QED
  BY <1>3, <1>4, <1>5

LEMMA OwnJob ==
  ASSUME OwnInv, NEW j \in Jobs, BecomeDue(j) \/ RecoverStuckJob(j)
  PROVE  Held' /\ Answered' /\ Gone'
<1> USE DEF OwnInv
<1>1. UNCHANGED <<phase, claim, exec>>
  BY DEF BecomeDue, RecoverStuckJob
<1>2. \A v \in Workers, i \in Jobs : (Given(v, i)' <=> Given(v, i)) /\ (AtWork(v, i)' <=> AtWork(v, i))
  BY <1>1 DEF Given, AtWork
<1>3. \A v \in Workers : ~Given(v, j) /\ j \notin DOMAIN exec[v]
  BY DEF BecomeDue, RecoverStuckJob, Held, AtWork, TypeInv
<1>4. /\ status'[j] = "ready" /\ j \notin forsaken' /\ forsaken' \subseteq forsaken
      /\ \A i \in Jobs \ {j} : status'[i] = status[i] /\ owner'[i] = owner[i] /\ (i \in forsaken' <=> i \in forsaken)
  BY DEF BecomeDue, RecoverStuckJob, Answered, TypeInv
<1>5. Held'
  BY <1>1, <1>2, <1>3, <1>4 DEF Held, AtWork
<1>6. Answered'
  BY <1>2, <1>4 DEF Answered, TypeInv
<1>7. Gone'
  BY <1>1 DEF Gone
<1> QED
  BY <1>5, <1>6, <1>7

LEMMA OwnStep == OwnInv /\ [Next]_vars => OwnInv'
<1> SUFFICES ASSUME OwnInv, [Next]_vars PROVE OwnInv'
  OBVIOUS
<1>1. TypeInv'
  BY TypeStep DEF OwnInv
<1>2. Held' /\ Answered' /\ Gone'
  <2>1. CASE UNCHANGED vars
    BY <2>1 DEF vars, OwnInv, Held, Answered, Gone, Given, AtWork
  <2>2. CASE Next
    BY <2>2, OwnEndClaim, OwnStartJob, OwnExecution, OwnOther, OwnCrash, OwnJob DEF Next
  <2> QED
    BY <2>1, <2>2
<1> QED
  BY <1>1, <1>2 DEF OwnInv

\* index.ts: however claims, calls and a SIGTERM meet, a process that ended by its
\* drain owns no running job, unless a call about that job was lost.
THEOREM DrainLeavesNothing == Spec => []NoJobAbandoned
<1>1. OwnInv => NoJobAbandoned
  <2> SUFFICES ASSUME OwnInv, NEW j \in Running, owner[j] # None, phase[owner[j]] = "stopped", j \notin forsaken
               PROVE  FALSE
    BY DEF NoJobAbandoned
  <2>1. owner[j] \in Workers /\ (Given(owner[j], j) \/ AtWork(owner[j], j))
    BY DEF OwnInv, Answered, Running
  <2>2. claim[owner[j]].pc = "idle" /\ DOMAIN exec[owner[j]] = {}
    BY <2>1 DEF OwnInv, Gone
  <2> QED
    BY <2>1, <2>2 DEF Given, AtWork
<1> QED
  BY <1>1, OwnInit, OwnStep, PTL DEF Spec
---------------------------------------------------------------------------
(* How far a limit is passed *)

\* The constants the counting needs: sets that are finite, limits that are numbers.
Countable ==
  /\ IsFiniteSet(Workers) /\ Workers # {} /\ IsFiniteSet(Jobs)
  /\ \A l \in Limits : l.max \in Nat

\* The running jobs a limit counts, and the claims whose snapshot leaves room under it.
Over(l)  == {j \in Running : Counted(l, j)}
Stale(l) == {w \in Workers : claim[w].pc = "asked" /\ Cardinality({r \in claim[w].running : Counted(l, r)}) < l.max}

\* At the limit, each job beyond it has used up the stale claim of another process.
Bounded(l) ==
  \/ Cardinality(Over(l)) < l.max
  \/ Cardinality(Over(l)) + Cardinality(Stale(l)) < l.max + Cardinality(Workers)

LimitInv == TypeInv /\ \A l \in Limits : (\E j \in Jobs : Consulted(l, j)) => Bounded(l)

\* A limit that is looked at for some job is looked at for each job it counts.
LEMMA ConsultedIsCounted ==
  ASSUME NEW l \in Limits, NEW k \in Jobs, Consulted(l, k), NEW j \in Jobs, Counted(l, j)
  PROVE  Consulted(l, j)
BY DEF Consulted, Counted

LEMMA Numbers ==
  ASSUME Countable, NEW l \in Limits
  PROVE  /\ Cardinality(Over(l)) \in Nat /\ Cardinality(Stale(l)) \in Nat
         /\ IsFiniteSet(Over(l)) /\ IsFiniteSet(Stale(l))
         /\ Cardinality(Stale(l)) <= Cardinality(Workers) /\ Cardinality(Workers) \in Nat \ {0}
<1>1. Over(l) \in SUBSET Jobs /\ Stale(l) \in SUBSET Workers
  BY DEF Over, Stale, Running
<1>2. IsFiniteSet(Over(l)) /\ IsFiniteSet(Stale(l)) /\ Cardinality(Stale(l)) <= Cardinality(Workers)
  BY <1>1, FS_Subset DEF Countable
<1>3. Cardinality(Workers) # 0
  BY FS_EmptySet DEF Countable
<1> QED
  BY <1>2, <1>3, FS_CardinalityType DEF Countable

LEMMA LimitInit == Countable /\ Init => LimitInv
<1> SUFFICES ASSUME Countable, Init, NEW l \in Limits PROVE Bounded(l)
  BY TypeInit DEF LimitInv
<1>1. Over(l) = {} /\ Stale(l) = {}
  BY IdleType DEF Init, Over, Stale, Running
<1> QED
  BY <1>1, Numbers, FS_EmptySet DEF Countable, Bounded

\* Steps that start no job and take no new snapshot.
LEMMA FewerIsBounded ==
  ASSUME Countable, NEW l \in Limits, Bounded(l), Over(l)' \subseteq Over(l), Stale(l)' \subseteq Stale(l)
  PROVE  Bounded(l)'
<1>1. Cardinality(Over(l)') <= Cardinality(Over(l)) /\ Cardinality(Stale(l)') <= Cardinality(Stale(l))
  BY Numbers, FS_Subset
<1>2. /\ Cardinality(Over(l)') \in Nat /\ Cardinality(Stale(l)') \in Nat
      /\ Cardinality(Over(l)) \in Nat /\ Cardinality(Stale(l)) \in Nat
      /\ Cardinality(Workers) \in Nat /\ l.max \in Nat
  BY Numbers, FS_Subset, FS_CardinalityType DEF Countable
<1> QED
  BY <1>1, <1>2 DEF Bounded

LEMMA OthersAreFewer ==
  ASSUME TypeInv, NEW l \in Limits, [Next]_vars,
         \A w \in Workers : ~AskClaim(w) /\ \A j \in Jobs : ~(EndClaim(w) /\ Takes(w, j))
  PROVE  Over(l)' \subseteq Over(l) /\ Stale(l)' \subseteq Stale(l)
<1>1. (\A j \in Jobs : status'[j] = "running" => status[j] = "running")
      /\ (\A w \in Workers : claim'[w] = claim[w] \/ claim'[w].pc = "idle")
  <2>1. CASE UNCHANGED vars
    BY <2>1 DEF vars
  <2>2. ASSUME NEW w \in Workers, EndClaim(w)
        PROVE  claim' = [claim EXCEPT ![w] = Idle] /\ UNCHANGED status
    BY <2>2, EndClaimCases
  <2>3. CASE \E w \in Workers : EndClaim(w)
    BY <2>2, <2>3, IdleType DEF TypeInv
  <2>4. CASE \E w \in Workers : StartJob(w) \/ TimePasses(w) \/ Sigterm(w) \/ Exit(w) \/ Crash(w)
    BY <2>4, IdleType DEF StartJob, TimePasses, Sigterm, Exit, Crash, TypeInv
  <2>5. CASE \E w \in Workers, j \in Jobs :
               PutBack(w, j) \/ CompleteStep(w, j) \/ RecordSuccess(w, j) \/ HandlerThrows(w, j) \/ FailStep(w, j)
    BY <2>5 DEF PutBack, CompleteStep, RecordSuccess, HandlerThrows, FailStep, Leaves, TypeInv
  <2>6. CASE \E j \in Jobs : BecomeDue(j) \/ RecoverStuckJob(j)
    BY <2>6 DEF BecomeDue, RecoverStuckJob, TypeInv
  <2> QED
    BY <2>1, <2>3, <2>4, <2>5, <2>6 DEF Next
<1> QED
  BY <1>1 DEF Over, Stale, Running

\* A snapshot taken at the limit leaves no room under it.
LEMMA BoundedAsk ==
  ASSUME Countable, TypeInv, NEW l \in Limits, Bounded(l), NEW w \in Workers, AskClaim(w)
  PROVE  Bounded(l)'
<1>1. /\ Over(l)' = Over(l) /\ \A v \in Workers \ {w} : claim'[v] = claim[v]
      /\ claim'[w] = [Idle EXCEPT !.pc = "asked", !.running = Running]
  BY DEF AskClaim, Over, Running, TypeInv
<1>2. {r \in claim'[w].running : Counted(l, r)} = Over(l)
  BY <1>1 DEF Idle, Over
<1>3. CASE Cardinality(Over(l)) < l.max
  BY <1>1, <1>3 DEF Bounded
<1>4. CASE ~(Cardinality(Over(l)) < l.max)
  <2>1. Stale(l)' \subseteq Stale(l)
    BY <1>1, <1>2, <1>4 DEF Stale
  <2> QED
    BY <1>1, <2>1, FewerIsBounded
<1> QED
  BY <1>3, <1>4

\* A claim that adds a job to the limit is stale itself, and ends.
LEMMA BoundedTake ==
  ASSUME Countable, TypeInv, NEW l \in Limits, NEW k \in Jobs, Consulted(l, k), Bounded(l),
         NEW w \in Workers, NEW j \in Jobs, EndClaim(w), Takes(w, j)
  PROVE  Bounded(l)'
<1>1. claim[w].pc = "asked" /\ claim'[w].pc # "asked" /\ \A v \in Workers \ {w} : claim'[v] = claim[v]
  <2>1. claim[w].pc = "asked"
    BY EndClaimCases
  <2>2. PICK c : claim' = [claim EXCEPT ![w] = c] /\ c.pc # "asked"
    <3>1. Idle.pc # "asked" /\ [Idle EXCEPT !.pc = "given", !.job = j].pc # "asked"
      BY DEF Idle
    <3> QED
      BY <3>1 DEF Takes
  <2> QED
    BY <2>1, <2>2 DEF TypeInv
<1>2. Running' = Running \cup {j}
  BY DEF Takes, Running, TypeInv
<1>3. Stale(l)' \subseteq Stale(l) \ {w}
  BY <1>1 DEF Stale
<1>4. CASE ~Counted(l, j)
  <2>1. Over(l)' \subseteq Over(l) /\ Stale(l)' \subseteq Stale(l)
    BY <1>2, <1>3, <1>4 DEF Over
  <2> QED
    BY <2>1, FewerIsBounded
<1>5. CASE Counted(l, j)
  <2>1. w \in Stale(l)
    BY <1>1, <1>5, ConsultedIsCounted DEF Stale, Takes, HasRoom
  <2>2. Over(l)' = Over(l) \cup {j}
    BY <1>2, <1>5 DEF Over
  <2>3. Cardinality(Over(l)') <= Cardinality(Over(l)) + 1
    <3>1. Cardinality(Over(l) \cup {j}) <= Cardinality(Over(l)) + 1
      <4>1. IsFiniteSet(Over(l)) /\ Cardinality(Over(l)) \in Nat
        BY Numbers
      <4> DEFINE n == Cardinality(Over(l))
      <4>2. Cardinality(Over(l) \cup {j}) = IF j \in Over(l) THEN n ELSE n + 1
        BY <4>1, FS_AddElement
      <4>3. n \in Nat
        BY <4>1
      <4> HIDE DEF n
      <4>4. Cardinality(Over(l) \cup {j}) <= n + 1
        BY <4>2, <4>3
      <4> QED
        BY <4>4 DEF n
    <3> QED
      BY <2>2, <3>1
  <2>4. Cardinality(Stale(l)') <= Cardinality(Stale(l)) - 1
    <3>1. IsFiniteSet(Stale(l) \ {w}) /\ Cardinality(Stale(l) \ {w}) = Cardinality(Stale(l)) - 1
      BY <2>1, Numbers, FS_RemoveElement
    <3> QED
      BY <1>3, <3>1, FS_Subset
  <2>5. /\ Cardinality(Over(l)') \in Nat /\ Cardinality(Stale(l)') \in Nat
        /\ Cardinality(Over(l)) \in Nat /\ Cardinality(Stale(l)) \in Nat
        /\ Cardinality(Stale(l)) <= Cardinality(Workers) /\ Cardinality(Workers) \in Nat /\ l.max \in Nat
    BY <1>3, <2>2, Numbers, FS_Subset, FS_AddElement, FS_RemoveElement, FS_CardinalityType DEF Countable
  <2> QED
    BY <2>3, <2>4, <2>5 DEF Bounded
<1> QED
  BY <1>4, <1>5

LEMMA LimitStep == Countable /\ LimitInv /\ [Next]_vars => LimitInv'
<1> SUFFICES ASSUME Countable, LimitInv, [Next]_vars,
                    NEW l \in Limits, NEW k \in Jobs, Consulted(l, k)
             PROVE  Bounded(l)'
  BY TypeStep DEF LimitInv, Consulted
<1>1. TypeInv /\ Bounded(l)
  BY DEF LimitInv
<1>2. CASE \E w \in Workers : AskClaim(w)
  BY <1>1, <1>2, BoundedAsk
<1>3. CASE \E w \in Workers, j \in Jobs : EndClaim(w) /\ Takes(w, j)
  BY <1>1, <1>3, BoundedTake
<1>4. CASE \A w \in Workers : ~AskClaim(w) /\ \A j \in Jobs : ~(EndClaim(w) /\ Takes(w, j))
  BY <1>1, <1>4, OthersAreFewer, FewerIsBounded
<1> QED
  BY <1>2, <1>3, <1>4

\* 002: whatever is claimed at once, the running jobs under a limit that is looked
\* at at all never come to the limit plus the number of worker processes.
THEOREM LimitPassedByClaimsOnly ==
  ASSUME Countable
  PROVE  Spec => []LimitsHold
<1>1. LimitInv => LimitsHold
  <2> SUFFICES ASSUME LimitInv, NEW l \in Limits, NEW k \in Jobs, Consulted(l, k)
               PROVE  Cardinality(Over(l)) < l.max + Cardinality(Workers)
    BY DEF LimitsHold, Over
  <2>1. Bounded(l)
    BY DEF LimitInv
  <2> QED
    BY <2>1, Numbers DEF Bounded, Countable
<1>2. Init => LimitInv
  BY LimitInit
<1>3. LimitInv /\ [Next]_vars => LimitInv'
  BY LimitStep
<1> QED
  BY <1>1, <1>2, <1>3, PTL DEF Spec
---------------------------------------------------------------------------
(* The breaker of a process *)

BreakerInv == breaker \in [Workers -> BreakerType] /\ ClosedIsQuiet

\* What a test, a success and a failure make of a breaker that is quiet while closed.
Quiet(b) == b \in BreakerType /\ (b.state = "closed" => b.recent < Threshold)

LEMMA QuietBreakers ==
  ASSUME Threshold \in Nat \ {0}, NEW b, Quiet(b)
  PROVE  Quiet(Closed) /\ Quiet(Tested(b)) /\ Quiet(Succeeded(b)) /\ Quiet(Failed(b))
<1> USE DEF Quiet, BreakerType
<1>1. Quiet(Closed)
  BY DEF Closed
<1>2. Quiet(Tested(b))
  BY DEF Tested
<1>3. Quiet(Succeeded(b))
  BY <1>1 DEF Succeeded
<1>4. Quiet(Failed(b))
  <2> DEFINE more == [b EXCEPT !.recent = @ + 1]
  <2>1. more \in BreakerType /\ more.recent = b.recent + 1 /\ more.state = b.state
    OBVIOUS
  <2>2. CASE b.state = "half_open" \/ (b.state = "closed" /\ more.recent >= Threshold)
    <3>1. Failed(b) = [more EXCEPT !.state = "open", !.cooled = FALSE]
      BY <2>2 DEF Failed
    <3> QED
      BY <2>1, <3>1
  <2>3. CASE ~(b.state = "half_open" \/ (b.state = "closed" /\ more.recent >= Threshold))
    <3>1. Failed(b) = more
      BY <2>3 DEF Failed
    <3> QED
      BY <2>1, <2>3, <3>1
  <2> QED
    BY <2>2, <2>3
<1> QED
  BY <1>1, <1>2, <1>3, <1>4

LEMMA BreakersAreQuiet ==
  BreakerInv <=> breaker \in [Workers -> BreakerType] /\ \A w \in Workers : Quiet(breaker[w])
BY DEF BreakerInv, ClosedIsQuiet, Quiet

LEMMA BreakerStep == Threshold \in Nat \ {0} /\ BreakerInv /\ [Next]_vars => BreakerInv'
<1> SUFFICES ASSUME Threshold \in Nat \ {0}, BreakerInv, [Next]_vars PROVE BreakerInv'
  OBVIOUS
<1>1. CASE UNCHANGED breaker
  BY <1>1 DEF BreakerInv, ClosedIsQuiet
<1>2. ASSUME NEW w \in Workers, NEW b, Quiet(b), breaker' = [breaker EXCEPT ![w] = b]
      PROVE  BreakerInv'
  BY <1>2 DEF BreakerInv, ClosedIsQuiet, Quiet
<1>3. CASE \E w \in Workers : TimePasses(w)
  <2>1. PICK w \in Workers : TimePasses(w)
    BY <1>3
  <2> DEFINE now == breaker[w]
  <2>2. Quiet(now)
    BY BreakersAreQuiet
  <2>3. /\ Quiet([now EXCEPT !.cooled = TRUE]) /\ Quiet([now EXCEPT !.throttled = FALSE])
        /\ now.recent > 0 => Quiet([now EXCEPT !.recent = @ - 1])
    <3> HIDE DEF now
    <3>1. now \in BreakerType /\ Threshold \in Nat
      BY <2>2 DEF Quiet
    <3>2. Quiet([now EXCEPT !.cooled = TRUE]) /\ Quiet([now EXCEPT !.throttled = FALSE])
      BY <2>2, <3>1 DEF Quiet, BreakerType
    <3>3. ASSUME now.recent > 0 PROVE Quiet([now EXCEPT !.recent = @ - 1])
      <4> DEFINE less == [now EXCEPT !.recent = @ - 1]
      <4>1. less.recent = now.recent - 1 /\ less.state = now.state /\ now.recent \in Nat
        BY <3>1 DEF BreakerType
      <4>2. now.recent - 1 \in Nat
        BY <3>3, <4>1
      <4>3. less \in BreakerType
        BY <3>1, <4>2 DEF BreakerType
      <4> HIDE DEF less
      <4>4. Quiet(less)
        BY <2>2, <3>1, <4>1, <4>2, <4>3 DEF Quiet
      <4> QED
        BY <4>4 DEF less
    <3> QED
      BY <3>2, <3>3
  <2>4. \/ breaker' = [breaker EXCEPT ![w] = [now EXCEPT !.cooled = TRUE]]
        \/ breaker' = [breaker EXCEPT ![w] = [now EXCEPT !.throttled = FALSE]]
        \/ now.recent > 0 /\ breaker' = [breaker EXCEPT ![w] = [now EXCEPT !.recent = @ - 1]]
    BY <2>1 DEF TimePasses
  <2> HIDE DEF now
  <2> QED
    BY <1>2, <2>3, <2>4
<1>4. CASE \E w \in Workers : StartJob(w) \/ \E j \in Jobs : RecordSuccess(w, j) \/ HandlerThrows(w, j)
  <2>1. PICK w \in Workers : StartJob(w) \/ \E j \in Jobs : RecordSuccess(w, j) \/ HandlerThrows(w, j)
    BY <1>4
  <2> DEFINE now == breaker[w]
  <2>2. Quiet(now)
    BY BreakersAreQuiet
  <2>3. Quiet(Tested(now)) /\ Quiet(Succeeded(now)) /\ Quiet(Failed(now))
    BY <2>2, QuietBreakers
  <2>4. \/ UNCHANGED breaker
        \/ \E new \in {now, Tested(now), Succeeded(now), Failed(now)} : breaker' = [breaker EXCEPT ![w] = new]
    BY <2>1 DEF StartJob, RecordSuccess, HandlerThrows
  <2> HIDE DEF now
  <2> QED
    BY <1>1, <1>2, <2>2, <2>3, <2>4
<1>5. CASE ~(\E w \in Workers : TimePasses(w) \/ StartJob(w) \/ \E j \in Jobs : RecordSuccess(w, j) \/ HandlerThrows(w, j))
  <2>1. UNCHANGED breaker
    BY <1>5 DEF Next, vars, AskClaim, EndClaim, PutBack, CompleteStep, FailStep, BecomeDue, Sigterm, Exit, Crash,
                RecoverStuckJob
  <2> QED
    BY <1>1, <2>1
<1> QED
  BY <1>3, <1>4, <1>5

\* circuit-breaker.ts: for any threshold of one failure or more, and however late the
\* results of admitted jobs arrive, a closed breaker has counted fewer failures.
THEOREM ClosedBreakerIsQuiet ==
  ASSUME Threshold \in Nat \ {0}
  PROVE  Spec => []ClosedIsQuiet
<1>1. Init => BreakerInv
  <2> SUFFICES ASSUME Init PROVE BreakerInv
    OBVIOUS
  <2>1. Closed \in BreakerType /\ Closed.recent < Threshold
    BY DEF Closed, BreakerType
  <2> QED
    BY <2>1 DEF Init, BreakerInv, ClosedIsQuiet
<1>2. BreakerInv /\ [Next]_vars => BreakerInv'
  BY BreakerStep
<1>3. BreakerInv => ClosedIsQuiet
  BY DEF BreakerInv
<1> QED
  BY <1>1, <1>2, <1>3, PTL DEF Spec
=============================================================================
