------------------------- MODULE SyncSchedule_proofs -------------------------
(***************************************************************************)
(* Theorems about SyncSchedule, for any threshold and attenuation, any     *)
(* feed and any numbers of runs, callers, triggers, revivals and faults.   *)
(***************************************************************************)
EXTENDS SyncSchedule, FiniteSetTheorems, TLAPS

USE DEF scheduleVars, runVars, countVars

----------------------------------------------------------------------------
(* Typing *)

LEMMA OneMoreFailureType ==
  ASSUME NEW f \in 0 .. Threshold
  PROVE  OneMoreFailure(f) \in 0 .. Threshold
BY ThresholdAssumption DEF OneMoreFailure

LEMMA AdvanceType ==
  ASSUME NEW old \in Nat, NEW new \in Nat
  PROVE  Advance(old, new) \in Nat /\ Advance(old, new) >= old
BY DEF Advance

LEMMA InsertType ==
  ASSUME TypeOK, NEW r \in Runs, NEW c \in Nat, Insert(r, c)
  PROVE  /\ phase' \in [Runs -> Phase]
         /\ input' \in [Runs -> Nat]
         /\ result' \in [Runs -> Nat]
BY DEF TypeOK, Insert, Phase

LEMMA TypeInit == Init => TypeOK
BY ThresholdAssumption DEF Init, TypeOK, Status, Phase

LEMMA TypeClaim == TypeOK /\ ClaimDue => TypeOK'
<1> SUFFICES ASSUME TypeOK, ClaimDue PROVE TypeOK'
  OBVIOUS
<1>1. nextIn' \in Nat
  BY ThresholdAssumption DEF ClaimDue
<1>2. /\ phase' \in [Runs -> Phase] /\ input' \in [Runs -> Nat]
      /\ result' \in [Runs -> Nat] /\ bucketJob' \in Runs \cup {None}
  <2>1. CASE Gate /\ bucketJob = None
    <3>1. PICK r \in Runs : Insert(r, cursor) /\ bucketJob' = r
      BY <2>1 DEF ClaimDue
    <3> QED
      BY <3>1, InsertType DEF TypeOK
  <2>2. CASE ~(Gate /\ bucketJob = None)
    BY <2>2 DEF ClaimDue, TypeOK
  <2> QED
    BY <2>1, <2>2
<1> QED
  BY <1>1, <1>2 DEF ClaimDue, TypeOK

LEMMA TypeTrigger ==
  ASSUME TypeOK, NEW c \in Callers, TriggerCheck(c) \/ TriggerEnqueue(c)
  PROVE  TypeOK'
<1>1. CASE TriggerCheck(c)
  BY <1>1 DEF TriggerCheck, TypeOK
<1>2. CASE TriggerEnqueue(c)
  <2>1. calling[c] \in Nat
    BY <1>2 DEF TriggerEnqueue, TypeOK
  <2>2. PICK r \in Runs : Insert(r, calling[c])
    BY <1>2 DEF TriggerEnqueue
  <2>3. /\ phase' \in [Runs -> Phase] /\ input' \in [Runs -> Nat]
        /\ result' \in [Runs -> Nat]
    BY <2>1, <2>2, InsertType
  <2> QED
    BY <1>2, <2>3 DEF TriggerEnqueue, TypeOK
<1> QED
  BY <1>1, <1>2

LEMMA TypeReport ==
  ASSUME TypeOK, NEW r \in Runs, NEW applied \in BOOLEAN, Report(r, applied)
  PROVE  TypeOK'
<1>1. phase' \in [Runs -> Phase] /\ result' \in [Runs -> Nat]
  BY DEF Report, TypeOK, Phase
<1>2. cursor' \in Nat /\ failures' \in 0 .. Threshold /\ faults' \in Nat
  <2>1. cursor \in Nat /\ result[r] \in Nat /\ failures \in 0 .. Threshold /\ faults \in Nat
    BY DEF TypeOK
  <2>2. CASE applied
    <3>1. cursor' = Advance(cursor, result[r]) /\ failures' = 0 /\ faults' = faults
      BY <2>2 DEF Report
    <3>2. 0 \in 0 .. Threshold
      BY ThresholdAssumption
    <3>3. Advance(cursor, result[r]) \in Nat
      BY <2>1, AdvanceType
    <3> QED
      BY <2>1, <3>1, <3>2, <3>3
  <2>3. CASE ~applied
    BY <2>1, <2>3 DEF Report
  <2> QED
    BY <2>2, <2>3
<1>3. status' \in Status
  BY DEF Report, TypeOK, StatusAfterSuccess, Status
<1> QED
  BY <1>1, <1>2, <1>3 DEF Report, TypeOK

LEMMA TypeRun == ASSUME TypeOK, NEW r \in Runs, RunStep(r) PROVE TypeOK'
<1>1. CASE Start(r)
  BY <1>1 DEF Start, TypeOK, Phase
<1>2. CASE Fetch(r)
  <2>1. PICK new \in {0} \cup {n \in 1 .. MaxFeed : n + 1 >= input[r]} :
          result' = [result EXCEPT ![r] = new]
    BY <1>2 DEF Fetch
  <2>2. new \in Nat
    BY <2>1, SyncBoundsAssumption
  <2> QED
    BY <1>2, <2>1, <2>2 DEF Fetch, TypeOK, Phase
<1>3. CASE \E applied \in BOOLEAN : Report(r, applied)
  BY <1>3, TypeReport
<1>4. CASE Finish(r)
  BY <1>4 DEF Finish, TypeOK, Phase
<1>5. CASE Retry(r)
  BY <1>5 DEF Retry, TypeOK, Phase
<1>6. CASE GiveUp(r)
  <2>1. failures' \in 0 .. Threshold
    BY <1>6, OneMoreFailureType DEF GiveUp, TypeOK
  <2>2. status' \in Status
    BY <1>6 DEF GiveUp, TypeOK, Status
  <2> QED
    BY <1>6, <2>1, <2>2 DEF GiveUp, TypeOK, Phase
<1> QED
  BY <1>1, <1>2, <1>3, <1>4, <1>5, <1>6 DEF RunStep

LEMMA TypeNext == TypeOK /\ [Next]_vars => TypeOK'
<1> SUFFICES ASSUME TypeOK, [Next]_vars PROVE TypeOK'
  OBVIOUS
<1>1. CASE Tick
  BY <1>1 DEF Tick, TypeOK
<1>2. CASE PosChanges
  BY <1>2 DEF PosChanges, TypeOK
<1>3. CASE \E on \in BOOLEAN : Ensure(on)
  BY <1>3 DEF Ensure, TypeOK, Status
<1>4. CASE \E r \in Runs : Recover(r)
  BY <1>4 DEF Recover, TypeOK, Phase
<1>5. CASE \E r \in Runs : Revive(r)
  BY <1>5 DEF Revive, TypeOK, Phase
<1>6. CASE UNCHANGED vars
  BY <1>6 DEF vars, TypeOK
<1> QED
  BY <1>1, <1>2, <1>3, <1>4, <1>5, <1>6, TypeClaim, TypeTrigger, TypeRun DEF Next

\* Every variable of a schedule keeps its type.
THEOREM TypeCorrect == Spec => []TypeOK
BY TypeInit, TypeNext, PTL DEF Spec

----------------------------------------------------------------------------
(* The schedule row *)

\* What a step may do to the cursor, the failures and the status.
LEMMA RowStep ==
  ASSUME TypeOK, [Next]_vars
  PROVE  \/ UNCHANGED <<status, failures, cursor>>
         \/ \E on \in BOOLEAN : Ensure(on)
         \/ \E r \in Runs : Report(r, TRUE)
         \/ \E r \in Runs : GiveUp(r)
<1>1. CASE Tick \/ PosChanges \/ ClaimDue
  BY <1>1 DEF Tick, PosChanges, ClaimDue
<1>2. CASE \E c \in Callers : TriggerCheck(c) \/ TriggerEnqueue(c)
  BY <1>2 DEF TriggerCheck, TriggerEnqueue
<1>3. CASE \E r \in Runs : Recover(r) \/ Revive(r)
  BY <1>3 DEF Recover, Revive
<1>4. ASSUME NEW r \in Runs, RunStep(r)
      PROVE  \/ UNCHANGED <<status, failures, cursor>>
             \/ Report(r, TRUE)
             \/ GiveUp(r)
  BY <1>4 DEF RunStep, Start, Fetch, Report, Finish, Retry
<1>5. CASE UNCHANGED vars
  BY <1>5 DEF vars
<1> QED
  BY <1>1, <1>2, <1>3, <1>4, <1>5 DEF Next

\* last_cursor never goes back, whichever runs report and in whatever order.
THEOREM Monotone == Spec => CursorNeverRegresses
<1>1. ASSUME TypeOK, [Next]_vars PROVE cursor' >= cursor
  <2>1. CASE UNCHANGED <<status, failures, cursor>>
    BY <2>1, <1>1 DEF TypeOK
  <2>2. CASE \E on \in BOOLEAN : Ensure(on)
    BY <2>2, <1>1 DEF Ensure, TypeOK
  <2>3. CASE \E r \in Runs : Report(r, TRUE)
    BY <2>3, <1>1, AdvanceType DEF Report, TypeOK
  <2>4. CASE \E r \in Runs : GiveUp(r)
    BY <2>4, <1>1 DEF GiveUp, TypeOK
  <2> QED
    BY <2>1, <2>2, <2>3, <2>4, <1>1, RowStep
<1>2. TypeOK /\ [Next]_vars => [cursor' >= cursor]_vars
  BY <1>1
<1> QED
  BY <1>2, TypeCorrect, PTL DEF Spec, CursorNeverRegresses

\* A failing schedule has had Threshold failures without a success since.
THEOREM Earned == Spec => []FailingIsEarned
<1>1. Init => FailingIsEarned
  BY DEF Init, FailingIsEarned
<1>2. ASSUME TypeOK, FailingIsEarned, [Next]_vars PROVE FailingIsEarned'
  <2>1. CASE UNCHANGED <<status, failures, cursor>>
    BY <2>1, <1>2 DEF FailingIsEarned
  <2>2. CASE \E on \in BOOLEAN : Ensure(on)
    BY <2>2 DEF Ensure, FailingIsEarned
  <2>3. CASE \E r \in Runs : Report(r, TRUE)
    BY <2>3 DEF Report, StatusAfterSuccess, FailingIsEarned
  <2>4. CASE \E r \in Runs : GiveUp(r)
    <3>1. failures' = OneMoreFailure(failures)
          /\ status' = IF failures' >= Threshold THEN "failing" ELSE status
      BY <2>4 DEF GiveUp
    <3>2. failures' \in 0 .. Threshold
      BY <3>1, <1>2, OneMoreFailureType DEF TypeOK
    <3>3. failures \in 0 .. Threshold
      BY <1>2 DEF TypeOK
    <3>4. failures = Threshold => failures' = Threshold
      BY <3>1, <3>3, ThresholdAssumption DEF OneMoreFailure
    <3>5. failures' >= Threshold => failures' = Threshold
      BY <3>2, ThresholdAssumption
    <3> QED
      BY <3>1, <3>4, <3>5, <1>2 DEF FailingIsEarned
  <2> QED
    BY <2>1, <2>2, <2>3, <2>4, <1>2, RowStep
<1> QED
  BY <1>1, <1>2, TypeCorrect, PTL DEF Spec

\* No success turns a schedule on that was switched off.
THEOREM SuccessIsNoSwitch == Spec => SuccessKeepsDisabled
<1>1. ASSUME TypeOK, [Next]_vars, status = "disabled", status' = "active"
      PROVE  Ensure(TRUE)
  <2>1. CASE UNCHANGED <<status, failures, cursor>>
    BY <2>1, <1>1
  <2>2. CASE \E on \in BOOLEAN : Ensure(on)
    <3>1. PICK on \in BOOLEAN : Ensure(on)
      BY <2>2
    <3>2. on = TRUE
      BY <3>1, <1>1 DEF Ensure
    <3> QED
      BY <3>1, <3>2
  <2>3. CASE \E r \in Runs : Report(r, TRUE)
    BY <2>3, <1>1 DEF Report, StatusAfterSuccess
  <2>4. CASE \E r \in Runs : GiveUp(r)
    BY <2>4, <1>1 DEF GiveUp
  <2> QED
    BY <2>1, <2>2, <2>3, <2>4, <1>1, RowStep
<1>2. TypeOK /\ [Next]_vars => [status = "disabled" /\ status' = "active" => Ensure(TRUE)]_vars
  BY <1>1
<1> QED
  BY <1>2, TypeCorrect, PTL DEF Spec, SuccessKeepsDisabled

----------------------------------------------------------------------------
(* Runs at a time.  A trigger that passed the gate is a run to come, so the    *)
(* open calls count with the active runs.                                      *)

Open == {c \in Callers : calling[c] # None}

GateInv ==
  /\ IsFiniteSet(Active) /\ IsFiniteSet(Open)
  /\ Cardinality(Open) <= triggers
  /\ Cardinality(Active) + Cardinality(Open) <= 1 + triggers + revivals

LEMMA GateType ==
  ASSUME GateInv
  PROVE  Cardinality(Active) \in Nat /\ Cardinality(Open) \in Nat
BY FS_CardinalityType DEF GateInv

LEMMA InsertActive ==
  ASSUME TypeOK, NEW r \in Runs, NEW c \in Nat, Insert(r, c)
  PROVE  r \notin Active /\ Active' = Active \cup {r}
BY DEF TypeOK, Insert, Reusable, Active

\* Steps that change neither the active runs nor the calls.
LEMMA GateSame ==
  ASSUME GateInv, Active' = Active, Open' = Open,
         UNCHANGED <<triggers, revivals>>
  PROVE  GateInv'
BY DEF GateInv

LEMMA GateClaim == ASSUME TypeOK, GateInv, ClaimDue PROVE GateInv'
<1>1. Open' = Open /\ UNCHANGED <<triggers, revivals>>
  BY DEF ClaimDue, Open
<1>2. CASE Gate /\ bucketJob = None
  <2>1. PICK r \in Runs : Insert(r, cursor)
    BY <1>2 DEF ClaimDue
  <2>2. Active = {} /\ Active' = {r}
    BY <1>2, <2>1, InsertActive DEF Gate, TypeOK
  <2>3. IsFiniteSet(Active') /\ Cardinality(Active') = 1
    BY <2>2, FS_Singleton
  <2>4. triggers \in Nat /\ revivals \in Nat
    BY DEF TypeOK
  <2>5. Cardinality(Open') <= triggers' /\ IsFiniteSet(Open')
    BY <1>1 DEF GateInv
  <2>6. Cardinality(Open) \in Nat /\ Cardinality(Open) <= triggers
    BY GateType DEF GateInv
  <2>7. Cardinality(Active') + Cardinality(Open') <= 1 + triggers' + revivals'
    BY <1>1, <2>3, <2>4, <2>6
  <2> QED
    BY <2>3, <2>5, <2>7 DEF GateInv
<1>3. CASE ~(Gate /\ bucketJob = None)
  <2>1. Active' = Active
    BY <1>3 DEF ClaimDue, Active
  <2> QED
    BY <1>1, <2>1, GateSame
<1> QED
  BY <1>2, <1>3

LEMMA GateCheck ==
  ASSUME TypeOK, GateInv, NEW c \in Callers, TriggerCheck(c)
  PROVE  GateInv'
<1>1. Active' = {} /\ Active = {}
  BY DEF TriggerCheck, Gate, Active
<1>2. c \notin Open /\ Open' = Open \cup {c}
  BY SyncNoneAssumption DEF TriggerCheck, Open, TypeOK
<1>3. IsFiniteSet(Open') /\ Cardinality(Open') = Cardinality(Open) + 1
  BY <1>2, FS_AddElement DEF GateInv
<1>4. triggers' = triggers + 1 /\ revivals' = revivals /\ triggers \in Nat /\ revivals \in Nat
  BY DEF TriggerCheck, TypeOK
<1>5. IsFiniteSet(Active') /\ Cardinality(Active') = 0
  BY <1>1, FS_EmptySet
<1>6. Cardinality(Open) \in Nat /\ Cardinality(Open) <= triggers
  BY GateType DEF GateInv
<1>7. /\ Cardinality(Open') <= triggers'
      /\ Cardinality(Active') + Cardinality(Open') <= 1 + triggers' + revivals'
  BY <1>3, <1>4, <1>5, <1>6
<1> QED
  BY <1>3, <1>5, <1>7 DEF GateInv

LEMMA GateEnqueue ==
  ASSUME TypeOK, GateInv, NEW c \in Callers, TriggerEnqueue(c)
  PROVE  GateInv'
<1>1. PICK r \in Runs : Insert(r, calling[c])
  BY DEF TriggerEnqueue
<1>2. r \notin Active /\ Active' = Active \cup {r}
  BY <1>1, InsertActive DEF TriggerEnqueue, TypeOK
<1>3. c \in Open /\ Open' = Open \ {c}
  BY DEF TriggerEnqueue, Open, TypeOK
<1>4. IsFiniteSet(Active') /\ Cardinality(Active') = Cardinality(Active) + 1
  BY <1>2, FS_AddElement DEF GateInv
<1>5. IsFiniteSet(Open') /\ Cardinality(Open') = Cardinality(Open) - 1
  BY <1>3, FS_RemoveElement DEF GateInv
<1>6. triggers' = triggers /\ revivals' = revivals /\ triggers \in Nat /\ revivals \in Nat
  BY DEF TriggerEnqueue, TypeOK
<1>7. /\ Cardinality(Open) <= triggers
      /\ Cardinality(Active) + Cardinality(Open) <= 1 + triggers + revivals
  BY DEF GateInv
<1>8. /\ Cardinality(Open') <= triggers'
      /\ Cardinality(Active') + Cardinality(Open') <= 1 + triggers' + revivals'
  BY <1>4, <1>5, <1>6, <1>7, GateType
<1> QED
  BY <1>4, <1>5, <1>8 DEF GateInv

\* A run that goes on stays active or ends.
LEMMA GateRun ==
  ASSUME TypeOK, GateInv, NEW r \in Runs, RunStep(r) \/ Recover(r)
  PROVE  GateInv'
<1>1. Open' = Open /\ UNCHANGED <<triggers, revivals>>
  BY DEF RunStep, Recover, Start, Fetch, Report, Finish, Retry, GiveUp, Open
<1>2. \E next \in Phase : phase' = [phase EXCEPT ![r] = next]
  BY DEF RunStep, Recover, Start, Fetch, Report, Finish, Retry, GiveUp, Phase
<1>3. r \in Active
  BY DEF RunStep, Recover, Start, Fetch, Report, Finish, Retry, GiveUp, Active
<1>4. Active' \in SUBSET Active
  BY <1>2, <1>3 DEF Active, TypeOK
<1>5. IsFiniteSet(Active') /\ Cardinality(Active') <= Cardinality(Active)
  BY <1>4, FS_Subset DEF GateInv
<1>6. Cardinality(Active') \in Nat
  BY <1>5, FS_CardinalityType
<1>7. Cardinality(Active) + Cardinality(Open) <= 1 + triggers + revivals
  BY DEF GateInv
<1>8. triggers \in Nat /\ revivals \in Nat
  BY DEF TypeOK
<1>9. Cardinality(Active') + Cardinality(Open') <= 1 + triggers' + revivals'
  BY <1>1, <1>5, <1>6, <1>7, <1>8, GateType
<1> QED
  BY <1>1, <1>5, <1>9 DEF GateInv

LEMMA GateRevive ==
  ASSUME TypeOK, GateInv, NEW r \in Runs, Revive(r)
  PROVE  GateInv'
<1>1. Open' = Open /\ triggers' = triggers /\ revivals' = revivals + 1
  BY DEF Revive, Open
<1>2. r \notin Active /\ Active' = Active \cup {r}
  BY DEF Revive, Active, TypeOK
<1>3. IsFiniteSet(Active') /\ Cardinality(Active') = Cardinality(Active) + 1
  BY <1>2, FS_AddElement DEF GateInv
<1>4. Cardinality(Active) + Cardinality(Open) <= 1 + triggers + revivals
  BY DEF GateInv
<1>5. triggers \in Nat /\ revivals \in Nat
  BY DEF TypeOK
<1>6. Cardinality(Active') + Cardinality(Open') <= 1 + triggers' + revivals'
  BY <1>1, <1>3, <1>4, <1>5, GateType
<1> QED
  BY <1>1, <1>3, <1>6 DEF GateInv

\* The gate bounds the runs at a time, for any numbers of runs and callers.
THEOREM GateHolds == Spec => []OneRunAtATime
<1>1. Init => GateInv
  <2> SUFFICES ASSUME Init PROVE GateInv
    OBVIOUS
  <2>1. Active = {} /\ Open = {}
    BY DEF Init, Active, Open
  <2>2. triggers = 0 /\ revivals = 0
    BY DEF Init
  <2> QED
    BY <2>1, <2>2, FS_EmptySet DEF GateInv
<1>2. ASSUME TypeOK, GateInv, [Next]_vars PROVE GateInv'
  <2>1. CASE Tick \/ PosChanges \/ (\E on \in BOOLEAN : Ensure(on)) \/ UNCHANGED vars
    <3>1. UNCHANGED <<phase, calling, triggers, revivals>>
      BY <2>1 DEF Tick, PosChanges, Ensure, vars
    <3>2. Active' = Active /\ Open' = Open
      BY <3>1 DEF Active, Open
    <3> QED
      BY <1>2, <3>1, <3>2, GateSame
  <2> QED
    BY <1>2, <2>1, GateClaim, GateCheck, GateEnqueue, GateRun, GateRevive DEF Next
<1>3. TypeOK /\ GateInv => OneRunAtATime
  <2> SUFFICES ASSUME TypeOK, GateInv PROVE OneRunAtATime
    OBVIOUS
  <2>1. Cardinality(Active) + Cardinality(Open) <= 1 + triggers + revivals
    BY DEF GateInv
  <2>2. triggers \in Nat /\ revivals \in Nat
    BY DEF TypeOK
  <2> QED
    BY <2>1, <2>2, GateType DEF OneRunAtATime
<1> QED
  BY <1>1, <1>2, <1>3, TypeCorrect, PTL DEF Spec
=============================================================================
