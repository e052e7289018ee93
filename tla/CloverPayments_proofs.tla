------------------------ MODULE CloverPayments_proofs ------------------------
(***************************************************************************)
(* Proofs about CloverPayments, for any payments, orders, executions,      *)
(* pulls, times and budgets of faults.                                     *)
(***************************************************************************)
EXTENDS CloverPayments, FiniteSetTheorems, TLAPS

(* Types *)

WithItem == PullPc \ {"idle", "fetch", "next"}
WithRow  == {"reflect", "reflectRow", "antiloop", "link", "linkMap", "sum", "patch", "map",
             "forward"}

\* An execution at work has a job, and after the POST or the reconciliation a charge of it.
ExShape == \A e \in Execs :
  /\ ex[e].pc # "idle" => ex[e].job \in Mcm
  /\ ex[e].pc \in {"pos", "map"} => ex[e].charge \in Mine(ex[e].job)

\* A pull has an item and a row where its steps use them.
Shaped(p) == /\ p.pc \in WithItem => p.cur \in FeedItem
             /\ p.pc \in WithRow => p.row \in Rows
             /\ p.pc \in {"link", "linkMap"} => p.row \in Mcm
PullShape == \A k \in Pulls : Shaped(pull[k])

CloverTyped == /\ mod \in [Charges -> Int] /\ fate \in [Charges -> Fate]
               /\ amount \in [Charges -> {1, 2}] /\ inFlight \subseteq Mcm \X {1, 2}
RowsTyped   == /\ posId \in [Mcm -> Charges \cup {None}] /\ pulled \subseteq Charges
               /\ rowStatus \in [Rows -> {"completed", "voided"}]
               /\ rowRefunded \in [Rows -> BOOLEAN]
               /\ map \in [Charges -> Entry \cup {None}]
OrdersTyped == /\ linked \subseteq Orders /\ paid \in [Orders -> SUBSET Rows]
               /\ issues \in [Orders -> Mcm \cup {None}] /\ forwarded \subseteq Rows
JobsTyped   == /\ job \in [Mcm -> {"ready", "completed", "dead"}]
               /\ attempts \in [Mcm -> Nat] /\ asked \in [Mcm -> {1, 2}]
ExTyped     == ex \in [Execs -> ExState]
PullTyped   == pull \in [Pulls -> PullState]
RestTyped   == /\ cursor \in Int /\ now \in Nat
               /\ orphaned \subseteq Charges /\ failed \subseteq Charges
               /\ changes \in Nat /\ revivals \in Nat /\ faultCount \in Nat
               /\ faults \subseteq Faults

TypeInv == /\ CloverTyped /\ RowsTyped /\ OrdersTyped /\ JobsTyped /\ ExTyped /\ PullTyped
           /\ RestTyped /\ ExShape /\ PullShape

LEMMA ChargeTypes ==
  /\ \A m \in Mcm : Mine(m) \subseteq Charges /\ Mine(m) \cap Staff = {}
  /\ \A m, n \in Mcm : m # n => Mine(m) \cap Mine(n) = {}
  /\ \A c \in Charges : OrderIn(c) \in Orders
<1>1. \A m \in Mcm : Mine(m) \subseteq Posts
  BY DEF Mine, Posts
<1>2. \A m, n \in Mcm : m # n => Mine(m) \cap Mine(n) = {}
  BY DEF Mine
<1>3. \A c \in Charges : OrderIn(c) \in Orders
  BY PaymentsAssumption DEF Charges, Posts, OrderIn
<1> QED
  BY <1>1, <1>2, <1>3, PaymentsAssumption DEF Charges

\* How a fault is counted keeps its types.
LEMMA FaultTyped ==
  ASSUME TypeInv, NoFault \/ \E kind \in Faults : Fault(kind)
  PROVE  faultCount' \in Nat /\ faults' \subseteq Faults
BY DEF TypeInv, RestTyped, NoFault, Fault

LEMMA InitTyped == Init => TypeInv
<1> SUFFICES ASSUME Init PROVE TypeInv
  OBVIOUS
<1> USE DEF Init
<1>1. CloverTyped
  BY DEF CloverTyped, Fate
<1>2. RowsTyped
  BY DEF RowsTyped
<1>3. OrdersTyped
  BY PaymentsAssumption DEF OrdersTyped
<1>4. JobsTyped
  BY DEF JobsTyped
<1>5. ExTyped /\ ExShape
  BY DEF ExTyped, ExState, ExShape, Idle, ExPc
<1>6. PullTyped /\ PullShape
  BY DEF PullTyped, PullState, PullShape, Shaped, Resting, PullPc, WithItem, WithRow
<1>7. RestTyped
  BY DEF RestTyped, Faults
<1> QED
  BY <1>1, <1>2, <1>3, <1>4, <1>5, <1>6, <1>7 DEF TypeInv

LEMMA StampsTyped == ASSUME TypeInv, NEW c PROVE Stamps(c) \subseteq Int
BY TimesAssumption DEF TypeInv, RestTyped, Stamps

LEMMA LandTyped ==
  ASSUME TypeInv, NEW m \in Mcm, NEW c \in Mine(m), NEW a \in {1, 2}, Land(m, c, a)
  PROVE  mod' \in [Charges -> Int] /\ amount' \in [Charges -> {1, 2}]
BY ChargeTypes, StampsTyped DEF TypeInv, CloverTyped, Land

\* Clover, the clock and the engine.
LEMMA WorldTyped ==
  ASSUME TypeInv,
         \/ \E c \in Staff : StaffPays(c)
         \/ \E c \in Charges : Changes(c)
         \/ \E m \in Mcm : LandLate(m)
         \/ \E o \in Orders : OrderLinked(o)
         \/ Tick
  PROVE  TypeInv'
<1> USE DEF TypeInv
<1>1. CASE \E c \in Staff : StaffPays(c)
  <2>1. PICK c \in Staff : StaffPays(c)
    BY <1>1
  <2>2. CloverTyped'
    BY <2>1, StampsTyped DEF StaffPays, CloverTyped, Charges
  <2> QED
    BY <2>1, <2>2 DEF StaffPays, rowVars, orderVars, jobVars, countVars, RowsTyped, OrdersTyped,
       JobsTyped, ExTyped, PullTyped, RestTyped, ExShape, PullShape
<1>2. CASE \E c \in Charges : Changes(c)
  <2>1. PICK c \in Charges : Changes(c)
    BY <1>2
  <2>2. CloverTyped'
    BY <2>1 DEF Changes, CloverTyped, RestTyped, Larger, Fate
  <2> QED
    BY <2>1, <2>2 DEF Changes, rowVars, orderVars, jobVars, RowsTyped, OrdersTyped, JobsTyped,
       ExTyped, PullTyped, RestTyped, ExShape, PullShape
<1>3. CASE \E m \in Mcm : LandLate(m)
  <2>1. PICK m \in Mcm : LandLate(m)
    BY <1>3
  <2>2. PICK a \in {1, 2}, c \in Mine(m) : Land(m, c, a) /\ inFlight' = inFlight \ {<<m, a>>}
    BY <2>1 DEF LandLate
  <2>3. mod' \in [Charges -> Int] /\ amount' \in [Charges -> {1, 2}]
    BY <2>2, LandTyped
  <2>4. CloverTyped'
    BY <2>1, <2>2, <2>3 DEF LandLate, CloverTyped
  <2> QED
    BY <2>1, <2>4 DEF LandLate, rowVars, orderVars, jobVars, countVars, RowsTyped, OrdersTyped,
       JobsTyped, ExTyped, PullTyped, RestTyped, ExShape, PullShape
<1>4. CASE \E o \in Orders : OrderLinked(o)
  BY <1>4 DEF OrderLinked, cloverVars, rowVars, jobVars, countVars, CloverTyped, RowsTyped,
     OrdersTyped, JobsTyped, ExTyped, PullTyped, RestTyped, ExShape, PullShape
<1>5. CASE Tick
  BY <1>5 DEF Tick, cloverVars, rowVars, orderVars, jobVars, countVars, CloverTyped, RowsTyped,
     OrdersTyped, JobsTyped, ExTyped, PullTyped, RestTyped, ExShape, PullShape
<1> QED
  BY <1>1, <1>2, <1>3, <1>4, <1>5

LEMMA IdleTyped == Idle \in ExState /\ Idle.pc = "idle" /\ Idle.job = None
BY DEF Idle, ExState, ExPc

LEMMA HoldingTyped ==
  ASSUME TypeInv, NEW e \in Execs, NEW m \in Mcm, NEW c \in Mine(m), NEW b \in BOOLEAN,
         ex' = [ex EXCEPT ![e] = Holding(m, c, b)]
  PROVE  ExTyped' /\ ExShape'
<1>1. c \in Charges
  BY ChargeTypes
<1>2. /\ Holding(m, c, b) \in ExState /\ Holding(m, c, b).job = m
      /\ Holding(m, c, b).pc = "pos" /\ Holding(m, c, b).charge = c
  BY <1>1 DEF Holding, ExState, ExPc
<1> QED
  BY <1>2 DEF TypeInv, ExTyped, ExShape

LEMMA FetchingTyped ==
  ASSUME NEW w \in Int
  PROVE  Fetching(w) \in PullState /\ Fetching(w).pc = "fetch" /\ Fetching(w).wm = w
BY DEF Fetching, PullState, PullPc

LEMMA EngineTyped ==
  ASSUME TypeInv,
         \/ \E e \in Execs, m \in Mcm : Start(e, m)
         \/ Crash
         \/ \E m \in Mcm : Revive(m)
  PROVE  TypeInv'
<1> USE DEF TypeInv
<1>1. CASE \E e \in Execs, m \in Mcm : Start(e, m)
  <2>1. PICK e \in Execs, m \in Mcm : Start(e, m)
    BY <1>1
  <2>2. ExTyped' /\ ExShape'
    BY <2>1 DEF Start, ExTyped, ExShape, ExState, Starting, ExPc
  <2>3. NoFault \/ Fault("overrun")
    BY <2>1 DEF Start
  <2>4. faultCount' \in Nat /\ faults' \subseteq Faults
    BY <2>3, FaultTyped DEF Faults
  <2> QED
    BY <2>1, <2>2, <2>4 DEF Start, cloverVars, rowVars, orderVars, jobVars, CloverTyped,
       RowsTyped, OrdersTyped, JobsTyped, PullTyped, RestTyped, PullShape
<1>2. CASE Crash
  <2>1. faultCount' \in Nat /\ faults' \subseteq Faults
    BY <1>2, FaultTyped DEF Crash, Faults
  <2>2. ExTyped' /\ ExShape'
    <3>1. UNCHANGED ex \/ \E e \in Execs : ex' = [ex EXCEPT ![e] = Idle]
      BY <1>2 DEF Crash
    <3> QED
      BY <3>1, IdleTyped DEF ExTyped, ExShape
  <2>3. PullTyped' /\ PullShape'
    <3>1. UNCHANGED pull \/ \E k \in Pulls : pull' = [pull EXCEPT ![k] = Fetching(pull[k].wm)]
      BY <1>2 DEF Crash
    <3>2. \A k \in Pulls : pull[k].wm \in Int
      BY DEF PullTyped, PullState
    <3> QED
      BY <3>1, <3>2, FetchingTyped DEF PullTyped, PullShape, Shaped, WithItem, WithRow
  <2> QED
    BY <1>2, <2>1, <2>2, <2>3 DEF Crash, cloverVars, rowVars, orderVars, jobVars, CloverTyped,
       RowsTyped, OrdersTyped, JobsTyped, RestTyped
<1>3. CASE \E m \in Mcm : Revive(m)
  BY <1>3 DEF Revive, cloverVars, rowVars, orderVars, CloverTyped, RowsTyped, OrdersTyped,
     JobsTyped, ExTyped, PullTyped, RestTyped, ExShape, PullShape
<1> QED
  BY <1>1, <1>2, <1>3

(* The three ways a step of an injection ends keep the types. *)

LEMMA ThrowTyped ==
  ASSUME TypeInv, NEW e \in Execs, ex[e].pc # "idle", NEW retryable \in BOOLEAN,
         NEW told \in BOOLEAN, Throw(e, retryable, told)
  PROVE  /\ ExTyped' /\ ExShape'
         /\ job' \in [Mcm -> {"ready", "completed", "dead"}] /\ attempts' \in [Mcm -> Nat]
         /\ issues' \in [Orders -> Mcm \cup {None}]
<1> USE DEF TypeInv
<1>1. ex[e].job \in Mcm
  BY DEF ExShape
<1>2. ExTyped' /\ ExShape'
  BY IdleTyped DEF Throw, ExTyped, ExShape
<1>3. job' \in [Mcm -> {"ready", "completed", "dead"}] /\ attempts' \in [Mcm -> Nat]
  BY <1>1 DEF Throw, JobsTyped
<1>4. issues' \in [Orders -> Mcm \cup {None}]
  BY <1>1 DEF Throw, OrdersTyped
<1> QED
  BY <1>2, <1>3, <1>4

LEMMA ReturnTyped ==
  ASSUME TypeInv, NEW e \in Execs, Return(e)
  PROVE  /\ ExTyped' /\ ExShape'
         /\ job' \in [Mcm -> {"ready", "completed", "dead"}] /\ attempts' \in [Mcm -> Nat]
         /\ issues' \in [Orders -> Mcm \cup {None}]
BY IdleTyped DEF TypeInv, Return, ExTyped, ExShape, JobsTyped, OrdersTyped

LEMMA GotoTyped ==
  ASSUME TypeInv, NEW e \in Execs, ex[e].pc # "idle", NEW pc \in ExPc, Goto(e, pc),
         pc \in {"pos", "map"} => ex[e].charge \in Mine(ex[e].job)
  PROVE  ExTyped' /\ ExShape'
BY DEF TypeInv, Goto, ExTyped, ExShape, ExState

\* What the steps of an injection leave alone keeps its types.
LEMMA InjectionFrameTyped ==
  ASSUME TypeInv, injectionFrame, UNCHANGED posId \/ posId' \in [Mcm -> Charges \cup {None}],
         map' \in [Charges -> Entry \cup {None}], mod' \in [Charges -> Int],
         amount' \in [Charges -> {1, 2}], inFlight' \subseteq Mcm \X {1, 2},
         ExTyped' /\ ExShape', job' \in [Mcm -> {"ready", "completed", "dead"}],
         attempts' \in [Mcm -> Nat], issues' \in [Orders -> Mcm \cup {None}],
         NoFault \/ \E kind \in Faults : Fault(kind)
  PROVE  TypeInv'
<1>1. faultCount' \in Nat /\ faults' \subseteq Faults
  BY FaultTyped
<1> QED
  BY <1>1 DEF TypeInv, injectionFrame, CloverTyped, RowsTyped, OrdersTyped, JobsTyped,
     PullTyped, RestTyped, PullShape

LEMMA InjectionTyped ==
  ASSUME TypeInv, NEW e \in Execs, InjectionStep(e)
  PROVE  TypeInv'
<1> DEFINE Ends == /\ job' \in [Mcm -> {"ready", "completed", "dead"}]
                   /\ attempts' \in [Mcm -> Nat] /\ issues' \in [Orders -> Mcm \cup {None}]
           Counted == NoFault \/ \E kind \in Faults : Fault(kind)
<1>0. /\ mod \in [Charges -> Int] /\ amount \in [Charges -> {1, 2}]
      /\ inFlight \subseteq Mcm \X {1, 2} /\ map \in [Charges -> Entry \cup {None}]
      /\ posId \in [Mcm -> Charges \cup {None}]
      /\ UNCHANGED <<job, attempts, issues>> => Ends
      /\ \A kind \in {"failure", "late"} : Fault(kind) => Counted
      /\ NoFault => Counted
  BY DEF TypeInv, CloverTyped, RowsTyped, JobsTyped, OrdersTyped, Faults
<1>m. ex[e].pc # "idle" => ex[e].job \in Mcm
  BY DEF TypeInv, ExShape
<1>1. CASE ReadPayment(e)
  <2>1. ExTyped' /\ ExShape' /\ Ends
    BY <1>1, <1>0, ThrowTyped, ReturnTyped, GotoTyped DEF ReadPayment, At, ExPc
  <2>2. Counted
    BY <1>1, <1>0 DEF ReadPayment
  <2> QED
    BY <1>1, <1>0, <2>1, <2>2, InjectionFrameTyped DEF ReadPayment
<1>2. CASE ReadOrderInClover(e)
  <2>1. ExTyped' /\ ExShape' /\ Ends
    <3>1. CASE Goto(e, "post") /\ UNCHANGED <<job, attempts, issues>>
      BY <1>2, <1>0, <3>1, GotoTyped DEF ReadOrderInClover, At, ExPc
    <3>2. CASE /\ UNCHANGED <<job, attempts, issues>>
               /\ \E c \in Adoptable(ex[e].job) :
                    ex' = [ex EXCEPT ![e] = Holding(ex[e].job, c, TRUE)]
      <4>1. PICK c \in Adoptable(ex[e].job) :
              ex' = [ex EXCEPT ![e] = Holding(ex[e].job, c, TRUE)]
        BY <3>2
      <4>2. ex[e].job \in Mcm /\ c \in Mine(ex[e].job)
        BY <1>2, <1>m DEF Adoptable, Found, Anchored, ReadOrderInClover, At
      <4> QED
        BY <4>1, <4>2, <3>2, <1>0, HoldingTyped
    <3>3. CASE Throw(e, TRUE, FALSE) \/ Throw(e, FALSE, TRUE)
      BY <1>2, <3>3, ThrowTyped DEF ReadOrderInClover, At
    <3> QED
      BY <1>2, <3>1, <3>2, <3>3 DEF ReadOrderInClover
  <2>2. Counted
    BY <1>2, <1>0 DEF ReadOrderInClover
  <2> QED
    BY <1>2, <1>0, <2>1, <2>2, InjectionFrameTyped DEF ReadOrderInClover
<1>3. CASE PostPayment(e)
  <2> DEFINE m == ex[e].job
  <2>0. ex[e].pc # "idle" /\ m \in Mcm /\ asked[m] \in {1, 2}
    BY <1>3, <1>m DEF PostPayment, At, TypeInv, JobsTyped
  <2>1. mod' \in [Charges -> Int] /\ amount' \in [Charges -> {1, 2}]
    BY <1>3, <1>0, <2>0, LandTyped DEF PostPayment
  <2>2. inFlight' \subseteq Mcm \X {1, 2}
    <3>1. inFlight' = inFlight \/ inFlight' = inFlight \cup {<<m, asked[m]>>}
      BY <1>3 DEF PostPayment
    <3> QED
      BY <3>1, <1>0, <2>0
  <2>3. ExTyped' /\ ExShape' /\ Ends
    <3>1. CASE /\ UNCHANGED <<job, attempts, issues>>
               /\ \E c \in Mine(m) : ex' = [ex EXCEPT ![e] = Holding(m, c, FALSE)]
      BY <3>1, <1>0, <2>0, HoldingTyped
    <3>2. CASE Throw(e, TRUE, TRUE) \/ Throw(e, FALSE, TRUE)
      BY <3>2, <2>0, ThrowTyped
    <3> QED
      BY <1>3, <3>1, <3>2 DEF PostPayment
  <2>4. Counted
    BY <1>3, <1>0 DEF PostPayment
  <2> QED
    BY <1>3, <1>0, <2>1, <2>2, <2>3, <2>4, InjectionFrameTyped DEF PostPayment
<1>4. CASE WritePosId(e)
  <2>0. ex[e].pc # "idle" /\ ex[e].job \in Mcm /\ ex[e].charge \in Mine(ex[e].job)
        /\ ex[e].charge \in Charges /\ ex[e].adopted \in BOOLEAN
    BY <1>4, <1>m, ChargeTypes DEF WritePosId, At, TypeInv, ExShape, ExTyped, ExState
  <2>1. ExTyped' /\ ExShape' /\ Ends
    BY <1>4, <1>0, <2>0, ThrowTyped, GotoTyped DEF WritePosId, ExPc
  <2>2. posId' \in [Mcm -> Charges \cup {None}]
    BY <1>4, <1>0, <2>0 DEF WritePosId
  <2>3. Counted
    BY <1>4, <1>0 DEF WritePosId
  <2> QED
    BY <1>4, <1>0, <2>1, <2>2, <2>3, InjectionFrameTyped DEF WritePosId
<1>5. CASE WriteMapRow(e)
  <2>0. ex[e].pc # "idle" /\ ex[e].job \in Mcm /\ ex[e].charge \in Mine(ex[e].job)
        /\ ex[e].charge \in Charges /\ ex[e].adopted \in BOOLEAN
    BY <1>5, <1>m, ChargeTypes DEF WriteMapRow, At, TypeInv, ExShape, ExTyped, ExState
  <2>1. ExTyped' /\ ExShape' /\ Ends
    BY <1>5, <1>0, <2>0, ThrowTyped, GotoTyped DEF WriteMapRow, ExPc
  <2>2. map' \in [Charges -> Entry \cup {None}]
    <3> DEFINE c == ex[e].charge
               entry == [pay |-> ex[e].job, seen |-> SeenAfterInjection(c)]
    <3>1. map' = map \/ map' = [map EXCEPT ![c] = entry]
      BY <1>5 DEF WriteMapRow
    <3>2. SeenAfterInjection(c) \in Fate
      BY DEF SeenAfterInjection, Fate
    <3>3. entry \in Entry
      BY <2>0, <3>2 DEF Entry, Rows
    <3> QED
      BY <3>1, <3>3, <2>0, <1>0
  <2>3. Counted
    BY <1>5, <1>0 DEF WriteMapRow
  <2> QED
    BY <1>5, <1>0, <2>1, <2>2, <2>3, InjectionFrameTyped DEF WriteMapRow
<1>6. CASE CountSiblings(e)
  <2>1. ExTyped' /\ ExShape'
    BY <1>6, GotoTyped DEF CountSiblings, At, ExPc
  <2>2. Counted
    BY <1>6, <1>0 DEF CountSiblings
  <2> QED
    BY <1>6, <1>0, <2>1, <2>2, InjectionFrameTyped DEF CountSiblings
<1>7. CASE ClearIssue(e)
  <2>1. ExTyped' /\ ExShape'
    BY <1>7, GotoTyped DEF ClearIssue, At, ExPc
  <2>2. Ends
    BY <1>7 DEF ClearIssue, TypeInv, OrdersTyped, JobsTyped
  <2>3. Counted
    BY <1>7, <1>0 DEF ClearIssue
  <2> QED
    BY <1>7, <1>0, <2>1, <2>2, <2>3, InjectionFrameTyped DEF ClearIssue
<1>8. CASE EndInjection(e)
  <2>1. ExTyped' /\ ExShape' /\ Ends
    BY <1>8, ReturnTyped DEF EndInjection
  <2> QED
    BY <1>8, <1>0, <2>1, InjectionFrameTyped DEF EndInjection
<1> QED
  BY <1>1, <1>2, <1>3, <1>4, <1>5, <1>6, <1>7, <1>8 DEF InjectionStep

(* The steps of a pull keep the types. *)

LEMMA PullIsTyped ==
  ASSUME TypeInv, NEW k \in Pulls, NEW p \in PullState, Shaped(p), PullIs(k, p)
  PROVE  PullTyped' /\ PullShape'
BY DEF TypeInv, PullTyped, PullShape, PullIs

LEMMA PullToTyped ==
  ASSUME TypeInv, NEW k \in Pulls, NEW pc \in PullPc, PullTo(k, pc),
         Shaped([pull[k] EXCEPT !.pc = pc])
  PROVE  PullTyped' /\ PullShape'
<1>1. [pull[k] EXCEPT !.pc = pc] \in PullState
  BY DEF TypeInv, PullTyped, PullState
<1> QED
  BY <1>1, PullIsTyped DEF PullTo

LEMMA NextItemTyped ==
  ASSUME TypeInv, NEW k \in Pulls, NextItem(k)
  PROVE  PullTyped' /\ PullShape'
<1> DEFINE p == [pull[k] EXCEPT !.pc = "next", !.cur = None, !.row = None, !.sum = {}]
<1>1. p \in PullState /\ p.pc = "next"
  BY DEF TypeInv, PullTyped, PullState, PullPc
<1>2. Shaped(p)
  BY <1>1 DEF Shaped, WithItem, WithRow
<1> QED
  BY <1>1, <1>2, PullIsTyped DEF NextItem

\* What the steps of a pull leave alone keeps its types.
LEMMA PullFrameTyped ==
  ASSUME TypeInv, pullFrame, PullTyped' /\ PullShape',
         posId' \in [Mcm -> Charges \cup {None}], pulled' \subseteq Charges,
         rowStatus' \in [Rows -> {"completed", "voided"}], rowRefunded' \in [Rows -> BOOLEAN],
         map' \in [Charges -> Entry \cup {None}], paid' \in [Orders -> SUBSET Rows],
         forwarded' \subseteq Rows, cursor' \in Int, orphaned' \subseteq Charges,
         failed' \subseteq Charges,
         UNCHANGED <<faults, faultCount>> \/ Fault("blind") \/ Fault("shifted")
  PROVE  TypeInv'
<1>1. NoFault \/ \E kind \in Faults : Fault(kind)
  BY DEF NoFault, Faults
<1>2. faultCount' \in Nat /\ faults' \subseteq Faults
  BY <1>1, FaultTyped
<1> QED
  BY <1>2 DEF TypeInv, pullFrame, cloverVars, jobVars, CloverTyped, RowsTyped, OrdersTyped,
     JobsTyped, ExTyped, RestTyped, ExShape

LEMMA PullFacts ==
  ASSUME TypeInv, NEW k \in Pulls
  PROVE  /\ pull[k] \in PullState /\ Shaped(pull[k])
         /\ posId \in [Mcm -> Charges \cup {None}] /\ pulled \subseteq Charges
         /\ rowStatus \in [Rows -> {"completed", "voided"}]
         /\ rowRefunded \in [Rows -> BOOLEAN] /\ map \in [Charges -> Entry \cup {None}]
         /\ paid \in [Orders -> SUBSET Rows] /\ forwarded \subseteq Rows /\ cursor \in Int
         /\ now \in Nat /\ mod \in [Charges -> Int] /\ fate \in [Charges -> Fate]
         /\ orphaned \subseteq Charges /\ failed \subseteq Charges
         /\ \A c : RowsWith(c) \subseteq Mcm \cup (pulled \cap {c})
         /\ \A c : RowsWith(c) \subseteq Rows
BY DEF TypeInv, CloverTyped, RowsTyped, OrdersTyped, PullTyped, PullShape, RestTyped,
   RowsWith, Rows, Charges

LEMMA RecordInMapTyped ==
  ASSUME TypeInv, NEW k \in Pulls, RecordInMap(k), pull[k].cur \in FeedItem,
         pull[k].row \in Rows
  PROVE  /\ map' \in [Charges -> Entry \cup {None}] /\ failed' \subseteq Charges
         /\ UNCHANGED <<faults, faultCount>> \/ Fault("blind")
<1> DEFINE entry == [pay |-> pull[k].row, seen |-> Item(k).fate]
<1>1. entry \in Entry /\ Id(k) \in Charges
  BY DEF Entry, Item, Id, FeedItem
<1>2. \/ map' = [map EXCEPT ![Id(k)] = entry] /\ UNCHANGED failed /\ NoFault
      \/ UNCHANGED map /\ failed' = failed \cup {Id(k)} /\ Fault("blind")
  BY DEF RecordInMap
<1> QED
  BY <1>1, <1>2, PullFacts DEF NoFault

\* A pull that reads the feed, takes an item from it, or defers one.
LEMMA FieldsTyped ==
  /\ \A p \in PullState, T \in SUBSET FeedItem :
       [p EXCEPT !.pc = "next", !.todo = T] \in PullState
  /\ \A p \in PullState, T \in SUBSET FeedItem, t \in Int :
       [p EXCEPT !.todo = T, !.top = t] \in PullState
  /\ \A p \in PullState, D \in SUBSET Charges, t \in Int :
       [p EXCEPT !.pc = "next", !.cur = None, !.deferred = D, !.oldest = t] \in PullState
BY DEF PullState, PullPc

\* A fetch takes rows of the feed, and counts the one it missed as left behind.
Fetches(k, T) == /\ PullIs(k, [pull[k] EXCEPT !.pc = "next", !.todo = T])
                 /\ T \subseteq Feed(k) /\ failed \subseteq failed' /\ failed' \subseteq failed \cup Charges
                 /\ \A i \in Feed(k) : i \in T \/ i.id \in failed'
LEMMA FetchesSome ==
  ASSUME NEW k \in Pulls, FetchFeed(k)
  PROVE  \E T : Fetches(k, T)
<1>0. \A i \in Feed(k) : i.id \in Charges
  BY DEF Feed
<1>1. CASE UNCHANGED failed /\ PullIs(k, [pull[k] EXCEPT !.pc = "next", !.todo = Feed(k)])
  <2>1. Fetches(k, Feed(k))
    BY <1>1 DEF Fetches
  <2> QED
    BY <2>1
<1>2. ASSUME NEW i \in Feed(k), failed' = failed \cup {i.id},
             PullIs(k, [pull[k] EXCEPT !.pc = "next", !.todo = Feed(k) \ {i}])
      PROVE  \E T : Fetches(k, T)
  <2>1. Fetches(k, Feed(k) \ {i})
    BY <1>0, <1>2 DEF Fetches
  <2> QED
    BY <2>1
<1> QED
  BY <1>1, <1>2 DEF FetchFeed

LEMMA SumTyped ==
  \A p \in PullState, S \in SUBSET Rows : [p EXCEPT !.pc = "patch", !.sum = S] \in PullState
BY DEF PullState, PullPc

LEMMA PullTyped1 ==
  ASSUME TypeInv, NEW k \in Pulls,
         \/ BeginPull(k) \/ FetchFeed(k) \/ LookUpMap(k) \/ ReflectInMap(k) \/ ReflectInRow(k)
         \/ LookUpInjected(k) \/ MapInjected(k) \/ FindOrder(k)
  PROVE  TypeInv'
<1> USE PullFacts
<1>1. CASE BeginPull(k)
  <2>1. Fetching(Watermark) \in PullState /\ Shaped(Fetching(Watermark))
    BY TimesAssumption, FetchingTyped DEF Watermark, Shaped, WithItem, WithRow
  <2> QED
    BY <1>1, <2>1, PullIsTyped, PullFrameTyped DEF BeginPull, rowVars
<1>2. CASE FetchFeed(k)
  <2>0. PICK T : Fetches(k, T)
    BY <1>2, FetchesSome
  <2> DEFINE p == [pull[k] EXCEPT !.pc = "next", !.todo = T]
  <2>1. T \in SUBSET FeedItem
    BY <2>0 DEF Fetches, Feed, FeedItem
  <2>2. p \in PullState
    BY <2>1, FieldsTyped
  <2>5. p.pc = "next"
    BY DEF PullState
  <2>3. Shaped(p)
    BY <2>5 DEF Shaped, WithItem, WithRow
  <2>4. PullTyped' /\ PullShape'
    BY <2>0, <2>2, <2>3, PullIsTyped DEF Fetches
  <2>6. failed' \subseteq Charges
    BY <2>0 DEF Fetches
  <2> QED
    BY <1>2, <2>4, <2>6, PullFrameTyped DEF FetchFeed, rowVars, NoFault
<1>3. CASE LookUpMap(k)
  <2>1. PICK i \in pull[k].todo :
          LET rest == [pull[k] EXCEPT !.todo = @ \ {i}, !.top = Larger(@, i.mod)]
              entry == map[i.id]
          IN \/ PullIs(k, rest)
             \/ /\ entry # None
                /\ PullIs(k, [rest EXCEPT !.pc = "reflect", !.cur = i, !.row = entry.pay])
             \/ PullIs(k, [rest EXCEPT !.pc = "injected", !.cur = i])
    BY <1>3 DEF LookUpMap
  <2> DEFINE rest == [pull[k] EXCEPT !.todo = @ \ {i}, !.top = Larger(@, i.mod)]
             r1 == [rest EXCEPT !.pc = "reflect", !.cur = i, !.row = map[i.id].pay]
             r2 == [rest EXCEPT !.pc = "injected", !.cur = i]
  <2>2. i \in FeedItem /\ Larger(pull[k].top, i.mod) \in Int
    BY DEF PullState, FeedItem, Larger
  <2>3. rest \in PullState /\ rest.pc = "next"
    <3>1. pull[k].todo \ {i} \in SUBSET FeedItem /\ pull[k].pc = "next"
      BY <1>3 DEF PullState, LookUpMap, In
    <3>2. rest \in PullState
      BY <2>2, <3>1, FieldsTyped
    <3>3. rest.pc = "next"
      BY <3>1 DEF PullState
    <3> QED
      BY <3>2, <3>3
  <2>4. Shaped(rest)
    BY <2>3 DEF Shaped, WithItem, WithRow
  <2>5. map[i.id] # None => map[i.id].pay \in Rows
    BY <2>2 DEF FeedItem, Entry
  <2>6. map[i.id] # None => r1 \in PullState /\ Shaped(r1)
    <3>1. map[i.id] # None => r1 \in PullState /\ r1.pc = "reflect" /\ r1.cur = i
                                /\ r1.row = map[i.id].pay
      BY <2>2, <2>3, <2>5 DEF PullState, PullPc
    <3> QED
      BY <3>1, <2>2, <2>5 DEF Shaped
  <2>7. r2 \in PullState /\ Shaped(r2)
    <3>1. r2 \in PullState /\ r2.pc = "injected" /\ r2.cur = i
      BY <2>2, <2>3 DEF PullState, PullPc
    <3> QED
      BY <3>1, <2>2 DEF Shaped, WithRow
  <2>8. PullIs(k, rest) \/ (map[i.id] # None /\ PullIs(k, r1)) \/ PullIs(k, r2)
    BY <2>1
  <2>9. PullTyped' /\ PullShape'
    BY <2>3, <2>4, <2>6, <2>7, <2>8, PullIsTyped
  <2>10. UNCHANGED <<faults, faultCount>> \/ Fault("blind")
    BY <1>3 DEF LookUpMap, NoFault
  <2> QED
    BY <1>3, <2>9, <2>10, PullFrameTyped DEF LookUpMap, rowVars
<1>4. CASE ReflectInMap(k)
  <2>1. Item(k) \in FeedItem /\ pull[k].row \in Rows
    BY <1>4 DEF ReflectInMap, In, Shaped, WithItem, WithRow, PullPc, Item
  <2>2. Shaped([pull[k] EXCEPT !.pc = "reflectRow"])
    BY <2>1 DEF Shaped, PullState, Item
  <2>3. PullTyped' /\ PullShape'
    BY <1>4, <2>2, PullToTyped DEF ReflectInMap, PullPc
  <2>4. map' \in [Charges -> Entry \cup {None}]
    <3> DEFINE e == IF map[Id(k)] = None THEN None ELSE [map[Id(k)] EXCEPT !.seen = Item(k).fate]
    <3>1. map' = map \/ map' = [map EXCEPT ![Id(k)] = e]
      BY <1>4 DEF ReflectInMap
    <3>2. e \in Entry \cup {None}
      BY <2>1 DEF Item, Id, FeedItem, Entry
    <3> QED
      BY <3>1, <3>2
  <2>5. UNCHANGED <<faults, faultCount>> \/ Fault("blind")
    BY <1>4 DEF ReflectInMap, NoFault
  <2> QED
    BY <1>4, <2>3, <2>4, <2>5, PullFrameTyped DEF ReflectInMap, rowVars
<1>5. CASE ReflectInRow(k)
  <2>1. PullTyped' /\ PullShape'
    BY <1>5, NextItemTyped DEF ReflectInRow
  <2>2. rowRefunded' \in [Rows -> BOOLEAN]
    BY <1>5 DEF ReflectInRow
  <2>3. UNCHANGED <<faults, faultCount>> \/ Fault("blind")
    BY <1>5 DEF ReflectInRow, NoFault
  <2> QED
    BY <1>5, <2>1, <2>2, <2>3, PullFrameTyped DEF ReflectInRow
<1>6. CASE LookUpInjected(k)
  <2>1. pull[k].cur \in FeedItem
    BY <1>6 DEF LookUpInjected, In, Shaped, WithItem, PullPc
  <2>2. PullTyped' /\ PullShape'
    <3>1. CASE \E r \in RowsWith(Id(k)) :
                 PullIs(k, [pull[k] EXCEPT !.pc = "antiloop", !.row = r])
      <4>1. PICK r \in RowsWith(Id(k)) :
              PullIs(k, [pull[k] EXCEPT !.pc = "antiloop", !.row = r])
        BY <3>1
      <4> DEFINE p == [pull[k] EXCEPT !.pc = "antiloop", !.row = r]
      <4>2. p \in PullState /\ p.pc = "antiloop" /\ p.row \in Rows /\ p.cur = pull[k].cur
        BY DEF PullState, PullPc
      <4>3. Shaped(p)
        BY <4>2, <2>1 DEF Shaped
      <4> QED
        BY <4>1, <4>2, <4>3, PullIsTyped
    <3>2. CASE PullTo(k, "order")
      <4>1. Shaped([pull[k] EXCEPT !.pc = "order"])
        BY <2>1 DEF Shaped, WithRow, PullState
      <4> QED
        BY <3>2, <4>1, PullToTyped DEF PullPc
    <3> QED
      BY <1>6, <3>1, <3>2 DEF LookUpInjected
  <2>3. UNCHANGED <<faults, faultCount>> \/ Fault("blind")
    BY <1>6 DEF LookUpInjected, NoFault
  <2> QED
    BY <1>6, <2>2, <2>3, PullFrameTyped DEF LookUpInjected, rowVars
<1>7. CASE MapInjected(k)
  <2>1. pull[k].cur \in FeedItem /\ pull[k].row \in Rows
    BY <1>7 DEF MapInjected, In, Shaped, WithItem, WithRow, PullPc
  <2>2. PullTyped' /\ PullShape'
    BY <1>7, NextItemTyped DEF MapInjected
  <2> QED
    BY <1>7, <2>1, <2>2, RecordInMapTyped, PullFrameTyped DEF MapInjected, rowVars
<1>8. CASE FindOrder(k)
  <2>1. pull[k].cur \in FeedItem
    BY <1>8 DEF FindOrder, In, Shaped, WithItem, PullPc
  <2>2. PullTyped' /\ PullShape'
    <3> DEFINE o == IF pull[k].oldest = 0 THEN Item(k).mod ELSE Smaller(pull[k].oldest, Item(k).mod)
               p == [pull[k] EXCEPT !.pc = "next", !.cur = None, !.deferred = @ \cup {Id(k)},
                                    !.oldest = o]
    <3>1. CASE PullIs(k, p)
      <4>1. o \in Int /\ pull[k].deferred \cup {Id(k)} \in SUBSET Charges
        BY <2>1 DEF Item, Id, FeedItem, Smaller, PullState
      <4> HIDE DEF o
      <4>2. p \in PullState
        BY <4>1, FieldsTyped
      <4>3. p.pc = "next"
        BY DEF PullState
      <4>4. Shaped(p)
        BY <4>3 DEF Shaped, WithItem, WithRow
      <4> QED
        BY <3>1, <4>2, <4>4, PullIsTyped
    <3>2. CASE PullTo(k, "upsert") \/ PullTo(k, "unlinked")
      <4>1. /\ Shaped([pull[k] EXCEPT !.pc = "upsert"])
            /\ Shaped([pull[k] EXCEPT !.pc = "unlinked"])
        BY <2>1 DEF Shaped, WithRow, PullState
      <4> QED
        BY <3>2, <4>1, PullToTyped DEF PullPc
    <3> QED
      BY <1>8, <3>1, <3>2 DEF FindOrder
  <2>3. UNCHANGED <<faults, faultCount>> \/ Fault("blind")
    BY <1>8 DEF FindOrder, NoFault
  <2> QED
    BY <1>8, <2>2, <2>3, PullFrameTyped DEF FindOrder, rowVars
<1> QED
  BY <1>1, <1>2, <1>3, <1>4, <1>5, <1>6, <1>7, <1>8

LEMMA PullTyped2 ==
  ASSUME TypeInv, NEW k \in Pulls,
         \/ FindUnlinked(k) \/ LinkUnlinked(k) \/ MapLinked(k) \/ RecordPayment(k)
         \/ SumPayments(k) \/ PatchOrder(k) \/ MapRecorded(k) \/ ForwardToOmnivore(k)
         \/ ReportPull(k)
  PROVE  TypeInv'
<1> USE PullFacts
<1>1. CASE FindUnlinked(k)
  <2>1. pull[k].cur \in FeedItem
    BY <1>1 DEF FindUnlinked, In, Shaped, WithItem, PullPc
  <2>2. PullTyped' /\ PullShape'
    <3>1. CASE \E m \in Unlinked(OrderIn(Id(k))) :
                 PullIs(k, [pull[k] EXCEPT !.pc = "link", !.row = m])
      <4>1. PICK m \in Unlinked(OrderIn(Id(k))) :
              PullIs(k, [pull[k] EXCEPT !.pc = "link", !.row = m])
        BY <3>1
      <4> DEFINE p == [pull[k] EXCEPT !.pc = "link", !.row = m]
      <4>2. m \in Mcm /\ m \in Rows
        BY DEF Unlinked, Rows
      <4>3. p \in PullState /\ p.pc = "link" /\ p.row = m /\ p.cur = pull[k].cur
        BY <4>2 DEF PullState, PullPc
      <4>4. Shaped(p)
        BY <4>2, <4>3, <2>1 DEF Shaped
      <4> QED
        BY <4>1, <4>3, <4>4, PullIsTyped
    <3>2. CASE PullTo(k, "upsert")
      <4>1. Shaped([pull[k] EXCEPT !.pc = "upsert"])
        BY <2>1 DEF Shaped, WithRow, PullState
      <4> QED
        BY <3>2, <4>1, PullToTyped DEF PullPc
    <3> QED
      BY <1>1, <3>1, <3>2 DEF FindUnlinked
  <2>3. UNCHANGED <<faults, faultCount>> \/ Fault("blind")
    BY <1>1 DEF FindUnlinked, NoFault
  <2> QED
    BY <1>1, <2>2, <2>3, PullFrameTyped DEF FindUnlinked, rowVars
<1>2. CASE LinkUnlinked(k)
  <2>1. pull[k].cur \in FeedItem /\ pull[k].row \in Mcm /\ pull[k].row \in Rows
    BY <1>2 DEF LinkUnlinked, In, Shaped, WithItem, WithRow, PullPc
  <2>2. Shaped([pull[k] EXCEPT !.pc = "linkMap"])
    BY <2>1 DEF Shaped, PullState
  <2>3. PullTyped' /\ PullShape'
    BY <1>2, <2>2, PullToTyped DEF LinkUnlinked, PullPc
  <2>4. posId' = posId \/ posId' = [posId EXCEPT ![pull[k].row] = Id(k)]
    BY <1>2 DEF LinkUnlinked
  <2>5. posId' \in [Mcm -> Charges \cup {None}]
    BY <2>1, <2>4 DEF Id, FeedItem
  <2>6. UNCHANGED <<faults, faultCount>> \/ Fault("blind")
    BY <1>2 DEF LinkUnlinked, NoFault
  <2> QED
    BY <1>2, <2>3, <2>5, <2>6, PullFrameTyped DEF LinkUnlinked
<1>3. CASE MapLinked(k)
  <2>1. pull[k].cur \in FeedItem /\ pull[k].row \in Rows
    BY <1>3 DEF MapLinked, In, Shaped, WithItem, WithRow, PullPc
  <2>2. PullTyped' /\ PullShape'
    BY <1>3, NextItemTyped DEF MapLinked
  <2> QED
    BY <1>3, <2>1, <2>2, RecordInMapTyped, PullFrameTyped DEF MapLinked, rowVars
<1>4. CASE RecordPayment(k)
  <2> DEFINE c == Id(k)
             r == IF RowsWith(c) = {} THEN c ELSE CHOOSE x \in RowsWith(c) : TRUE
             pc == IF Item(k).fate = "voided" THEN "map" ELSE "sum"
             p == [pull[k] EXCEPT !.row = r, !.pc = pc]
  <2>1. pull[k].cur \in FeedItem /\ c \in Charges /\ c \in Rows
    BY <1>4 DEF RecordPayment, In, Shaped, WithItem, PullPc, Id, FeedItem, Rows
  <2>2. r \in Rows
    <3>1. RowsWith(c) # {} => (CHOOSE x \in RowsWith(c) : TRUE) \in RowsWith(c)
      OBVIOUS
    <3> QED
      BY <3>1, <2>1
  <2> HIDE DEF r
  <2>3. p \in PullState /\ p.pc \in {"map", "sum"} /\ p.row = r /\ p.cur = pull[k].cur
    <3>1. pc \in PullPc /\ pc \in {"map", "sum"}
      BY DEF PullPc
    <3> HIDE DEF pc
    <3> QED
      BY <2>2, <3>1 DEF PullState
  <2>4. Shaped(p)
    BY <2>1, <2>2, <2>3 DEF Shaped
  <2>5. \/ /\ NoFault /\ UNCHANGED failed /\ PullIs(k, p)
           /\ pulled' = IF RowsWith(c) = {} THEN pulled \cup {c} ELSE pulled
           /\ rowStatus' = [rowStatus EXCEPT ![r] =
                              IF Item(k).fate = "voided" THEN "voided" ELSE "completed"]
           /\ rowRefunded' = [rowRefunded EXCEPT ![r] = (Item(k).fate = "refunded")]
        \/ /\ Fault("blind") /\ failed' = failed \cup {c} /\ NextItem(k)
           /\ UNCHANGED <<pulled, rowStatus, rowRefunded>>
    BY <1>4 DEF RecordPayment, r
  <2>6. PullTyped' /\ PullShape'
    BY <2>3, <2>4, <2>5, PullIsTyped, NextItemTyped
  <2>7. /\ pulled' \subseteq Charges /\ rowStatus' \in [Rows -> {"completed", "voided"}]
        /\ rowRefunded' \in [Rows -> BOOLEAN] /\ failed' \subseteq Charges
    BY <2>1, <2>2, <2>5
  <2>8. UNCHANGED <<faults, faultCount>> \/ Fault("blind")
    BY <2>5 DEF NoFault
  <2>9. pullFrame /\ UNCHANGED <<posId, map, paid, forwarded, cursor, orphaned>>
    BY <1>4 DEF RecordPayment
  <2> HIDE DEF r, c
  <2> QED
    BY <2>6, <2>7, <2>8, <2>9, PullFrameTyped
<1>5. CASE SumPayments(k)
  <2>1. pull[k].cur \in FeedItem /\ pull[k].row \in Rows
    BY <1>5 DEF SumPayments, In, Shaped, WithItem, WithRow, PullPc
  <2> DEFINE p == [pull[k] EXCEPT !.pc = "patch", !.sum = Summed(k)]
             q == [pull[k] EXCEPT !.pc = "patch"]
  <2>2. Summed(k) \subseteq Rows
    BY DEF Summed, Completed, Rows, Charges
  <2>b. p \in PullState
    BY <2>2, SumTyped
  <2>c. p.pc = "patch" /\ p.row = pull[k].row /\ p.cur = pull[k].cur
    BY DEF PullState
  <2>d. q.pc = "patch" /\ q.row = pull[k].row /\ q.cur = pull[k].cur
    BY DEF PullState
  <2>3. /\ p \in PullState /\ p.pc = "patch" /\ p.row = pull[k].row /\ p.cur = pull[k].cur
        /\ q.pc = "patch" /\ q.row = pull[k].row /\ q.cur = pull[k].cur
    BY <2>b, <2>c, <2>d
  <2>4. Shaped(p) /\ Shaped(q)
    BY <2>1, <2>3 DEF Shaped
  <2>5. PullTyped' /\ PullShape'
    <3>1. PullIs(k, p) \/ PullTo(k, "patch")
      BY <1>5 DEF SumPayments
    <3>2. "patch" \in PullPc
      BY DEF PullPc
    <3> QED
      BY <3>1, <3>2, <2>3, <2>4, PullIsTyped, PullToTyped
  <2>6. UNCHANGED <<faults, faultCount>> \/ Fault("blind")
    BY <1>5 DEF SumPayments, NoFault
  <2> QED
    BY <1>5, <2>5, <2>6, PullFrameTyped DEF SumPayments, rowVars
<1>6. CASE PatchOrder(k)
  <2>1. pull[k].cur \in FeedItem /\ pull[k].row \in Rows
    BY <1>6 DEF PatchOrder, In, Shaped, WithItem, WithRow, PullPc
  <2>2. Shaped([pull[k] EXCEPT !.pc = "map"])
    BY <2>1 DEF Shaped, PullState
  <2>3. PullTyped' /\ PullShape'
    BY <1>6, <2>2, PullToTyped DEF PatchOrder, PullPc
  <2>4. paid' \in [Orders -> SUBSET Rows]
    <3>1. paid' = paid \/ paid' = [paid EXCEPT ![OrderIn(Id(k))] = pull[k].sum]
      BY <1>6 DEF PatchOrder
    <3>2. pull[k].sum \in SUBSET Rows
      BY DEF PullState
    <3> QED
      BY <3>1, <3>2
  <2>5. UNCHANGED <<faults, faultCount>> \/ Fault("blind")
    BY <1>6 DEF PatchOrder, NoFault
  <2> QED
    BY <1>6, <2>3, <2>4, <2>5, PullFrameTyped DEF PatchOrder, rowVars
<1>7. CASE MapRecorded(k)
  <2>1. pull[k].cur \in FeedItem /\ pull[k].row \in Rows
    BY <1>7 DEF MapRecorded, In, Shaped, WithItem, WithRow, PullPc
  <2>2. Shaped([pull[k] EXCEPT !.pc = "forward"])
    BY <2>1 DEF Shaped, PullState
  <2>3. PullTyped' /\ PullShape'
    BY <1>7, <2>2, PullToTyped, NextItemTyped DEF MapRecorded, PullPc
  <2> QED
    BY <1>7, <2>1, <2>3, RecordInMapTyped, PullFrameTyped DEF MapRecorded, rowVars
<1>8. CASE ForwardToOmnivore(k)
  <2>1. PullTyped' /\ PullShape'
    BY <1>8, NextItemTyped DEF ForwardToOmnivore
  <2>2. pull[k].row \in Rows
    BY <1>8 DEF ForwardToOmnivore, In, Shaped, WithRow
  <2>3. forwarded' \subseteq Rows
    BY <1>8, <2>2 DEF ForwardToOmnivore
  <2>4. UNCHANGED <<faults, faultCount>> \/ Fault("blind")
    BY <1>8 DEF ForwardToOmnivore, NoFault
  <2> QED
    BY <1>8, <2>1, <2>3, <2>4, PullFrameTyped DEF ForwardToOmnivore, rowVars
<1>9. CASE ReportPull(k)
  <2>1. Resting \in PullState /\ Shaped(Resting)
    BY DEF Resting, PullState, PullPc, Shaped, WithItem, WithRow
  <2>2. PullTyped' /\ PullShape'
    BY <1>9, <2>1, PullIsTyped DEF ReportPull
  <2>3. NewCursor(k) \in Int /\ pull[k].deferred \subseteq Charges
    BY TimesAssumption DEF NewCursor, Larger, Smaller, PullState
  <2>4. cursor' \in Int /\ orphaned' \subseteq Charges
    BY <1>9, <2>3 DEF ReportPull, Larger
  <2>5. UNCHANGED <<faults, faultCount>> \/ Fault("blind")
    BY <1>9 DEF ReportPull, NoFault
  <2> QED
    BY <1>9, <2>2, <2>4, <2>5, PullFrameTyped DEF ReportPull, rowVars
<1> QED
  BY <1>1, <1>2, <1>3, <1>4, <1>5, <1>6, <1>7, <1>8, <1>9

LEMMA NextTyped == TypeInv /\ [Next]_vars => TypeInv'
<1> SUFFICES ASSUME TypeInv, [Next]_vars PROVE TypeInv'
  OBVIOUS
<1>1. CASE UNCHANGED vars
  BY <1>1 DEF TypeInv, vars, cloverVars, rowVars, orderVars, jobVars, countVars, CloverTyped,
     RowsTyped, OrdersTyped, JobsTyped, ExTyped, PullTyped, RestTyped, ExShape, PullShape
<1>2. CASE Next
  BY <1>2, WorldTyped, EngineTyped, InjectionTyped, PullTyped1, PullTyped2 DEF Next, PullStep
<1> QED
  BY <1>1, <1>2

LEMMA Typed == Spec => []TypeInv
BY InitTyped, NextTyped, PTL DEF Spec

\* Whatever pulls and injections do to the shared rows, every variable keeps its type.
THEOREM TypeCorrect == Spec => []TypeOK
<1>1. TypeInv => TypeOK
  BY DEF TypeInv, TypeOK, CloverTyped, RowsTyped, OrdersTyped, JobsTyped, ExTyped, PullTyped,
     RestTyped
<1> QED
  BY <1>1, Typed, PTL

(* ChargedOnce *)

Quiet == {"overrun", "late"} \cap faults = {}

\* No stamp is negative, so that a new stamp is a payment.
Stamped == \A c \in Charges : mod[c] >= 0

\* The executions at work have different jobs; who is about to POST knows there is no charge.
Alone  == \A e, f \in Execs : e # f /\ ex[e].pc # "idle" /\ ex[f].pc # "idle" =>
            ex[e].job # ex[f].job
Checked == \A e \in Execs : ex[e].pc = "post" => Anchored(ex[e].job) = {}
Single  == \A m \in Mcm : \A c, d \in Anchored(m) : c = d
OnceInv == Stamped /\ (Quiet => inFlight = {} /\ Alone /\ Checked /\ Single)

LEMMA QuietBefore == ASSUME TypeInv, [Next]_vars PROVE faults \subseteq faults'
<1>1. CASE UNCHANGED vars
  BY <1>1 DEF vars, countVars
<1>2. CASE Next
  <2>1. (\E c \in Staff : StaffPays(c)) => UNCHANGED faults
    BY DEF StaffPays, countVars
  <2>2. (\E c \in Charges : Changes(c)) => UNCHANGED faults
    BY DEF Changes
  <2>3. (\E m \in Mcm : LandLate(m) \/ Revive(m)) => UNCHANGED faults
    BY DEF LandLate, Revive, countVars
  <2>4. (\E o \in Orders : OrderLinked(o)) \/ Tick => UNCHANGED faults
    BY DEF OrderLinked, Tick, countVars
  <2>5. (\E e \in Execs, m \in Mcm : Start(e, m)) \/ Crash => faults \subseteq faults'
    BY DEF Start, Crash, NoFault, Fault
  <2>6. (\E e \in Execs : InjectionStep(e)) => faults \subseteq faults'
    BY DEF InjectionStep, ReadPayment, ReadOrderInClover, PostPayment, WritePosId, WriteMapRow,
       CountSiblings, ClearIssue, EndInjection, NoFault, Fault
  <2>7. (\E k \in Pulls : PullStep(k)) => faults \subseteq faults'
    <3>1. ASSUME NEW k \in Pulls, PullStep(k) PROVE NoFault \/ Fault("blind") \/ Fault("shifted")
      <4>1. BeginPull(k) \/ FetchFeed(k) => NoFault \/ Fault("shifted")
        BY DEF BeginPull, FetchFeed, NoFault
      <4>2. LookUpMap(k) \/ ReflectInMap(k) \/ ReflectInRow(k) => NoFault \/ Fault("blind")
        BY DEF LookUpMap, ReflectInMap, ReflectInRow
      <4>3. LookUpInjected(k) \/ FindOrder(k) \/ FindUnlinked(k) => NoFault \/ Fault("blind")
        BY DEF LookUpInjected, FindOrder, FindUnlinked
      <4>4. MapInjected(k) \/ MapLinked(k) \/ MapRecorded(k) => NoFault \/ Fault("blind")
        BY DEF MapInjected, MapLinked, MapRecorded, RecordInMap
      <4>5. LinkUnlinked(k) \/ RecordPayment(k) \/ SumPayments(k) => NoFault \/ Fault("blind")
        BY DEF LinkUnlinked, RecordPayment, SumPayments
      <4>6. PatchOrder(k) \/ ForwardToOmnivore(k) \/ ReportPull(k) => NoFault \/ Fault("blind")
        BY DEF PatchOrder, ForwardToOmnivore, ReportPull
      <4> QED
        BY <3>1, <4>1, <4>2, <4>3, <4>4, <4>5, <4>6 DEF PullStep
    <3> QED
      BY <3>1 DEF NoFault, Fault
  <2> QED
    BY <1>2, <2>1, <2>2, <2>3, <2>4, <2>5, <2>6, <2>7 DEF Next
<1> QED
  BY <1>1, <1>2

LEMMA StampsPositive == ASSUME TypeInv, NEW c, NEW t \in Stamps(c) PROVE t \in Int /\ t > 0
BY TimesAssumption DEF TypeInv, RestTyped, Stamps

\* A step that moves no execution and adds no POST keeps OnceInv.
LEMMA OnceStill ==
  ASSUME TypeInv, OnceInv, faults \subseteq faults', UNCHANGED <<ex, inFlight>>, Stamped',
         \A m \in Mcm : Anchored(m)' = Anchored(m)
  PROVE  OnceInv'
<1>1. SUFFICES ASSUME Quiet' PROVE inFlight' = {} /\ Alone' /\ Checked' /\ Single'
  BY DEF OnceInv
<1>2. Quiet
  BY <1>1 DEF Quiet
<1>3. Checked'
  <2>1. \A e \in Execs : ex[e].pc = "post" => ex[e].job \in Mcm
    BY DEF TypeInv, ExShape
  <2> QED
    BY <1>2, <2>1 DEF OnceInv, Checked
<1> QED
  BY <1>2, <1>3 DEF OnceInv, Alone, Single

\* One execution goes on with its job or stops, and nothing is posted.
LEMMA OnceMoved ==
  ASSUME TypeInv, TypeInv', OnceInv, faults \subseteq faults', NEW e \in Execs,
         UNCHANGED <<mod, inFlight>>, \A f \in Execs \ {e} : ex'[f] = ex[f],
         ex'[e].pc = "idle" \/ (ex[e].pc # "idle" /\ ex'[e].job = ex[e].job),
         ex'[e].pc = "post" => Anchored(ex[e].job) = {}
  PROVE  OnceInv'
<1>0. \A m : Anchored(m)' = Anchored(m)
  BY DEF Anchored, InClover
<1>1. SUFFICES ASSUME Quiet' PROVE inFlight' = {} /\ Alone' /\ Checked' /\ Single'
  BY DEF OnceInv, Stamped
<1>2. Quiet
  BY <1>1 DEF Quiet
<1>3. Alone'
  BY <1>2 DEF OnceInv, Alone
<1>4. Checked'
  BY <1>0, <1>2 DEF OnceInv, Checked
<1>5. Single'
  BY <1>0, <1>2 DEF OnceInv, Single
<1> QED
  BY <1>2, <1>3, <1>4, <1>5 DEF OnceInv

LEMMA OnceInit == Init => OnceInv
BY DEF Init, OnceInv, Stamped, Alone, Checked, Single, Anchored, InClover, Mine, Idle, Charges,
   Posts

\* How an execution ends, or goes on.
LEMMA Moves ==
  ASSUME TypeInv, NEW e \in Execs
  PROVE  /\ \A b, c : Throw(e, b, c) => ex' = [ex EXCEPT ![e] = Idle]
         /\ Return(e) => ex' = [ex EXCEPT ![e] = Idle]
         /\ ex' = [ex EXCEPT ![e] = Idle] =>
              ex'[e].pc = "idle" /\ \A f \in Execs \ {e} : ex'[f] = ex[f]
         /\ \A pc : Goto(e, pc) =>
              ex'[e].pc = pc /\ ex'[e].job = ex[e].job /\ \A f \in Execs \ {e} : ex'[f] = ex[f]
         /\ \A m, c, b : ex' = [ex EXCEPT ![e] = Holding(m, c, b)] =>
              ex'[e].pc = "pos" /\ ex'[e].job = m /\ \A f \in Execs \ {e} : ex'[f] = ex[f]
BY DEF TypeInv, ExTyped, ExState, Throw, Return, Goto, Idle, Holding

LEMMA OnceNext == TypeInv /\ TypeInv' /\ OnceInv /\ [Next]_vars => OnceInv'
<1> SUFFICES ASSUME TypeInv, TypeInv', OnceInv, [Next]_vars PROVE OnceInv'
  OBVIOUS
<1>0. /\ faults \subseteq faults' /\ Stamped /\ mod \in [Charges -> Int] /\ now \in Nat
      /\ \A e \in Execs : ex[e].pc # "idle" => ex[e].job \in Mcm
  BY QuietBefore DEF OnceInv, TypeInv, CloverTyped, ExShape, RestTyped
<1>1. CASE UNCHANGED <<mod, inFlight, ex>>
  <2>1. \A m : Anchored(m)' = Anchored(m)
    BY <1>1 DEF Anchored, InClover
  <2>2. Stamped'
    BY <1>0, <1>1 DEF Stamped
  <2> QED
    BY <1>0, <1>1, <2>1, <2>2, OnceStill
<1>2. ASSUME NEW c \in Staff, StaffPays(c) PROVE OnceInv'
  <2>1. PICK t \in Stamps(c) : mod' = [mod EXCEPT ![c] = t]
    BY <1>2 DEF StaffPays
  <2>2. Stamped'
    BY <1>0, <2>1, StampsPositive DEF Stamped
  <2>3. \A m \in Mcm : Anchored(m)' = Anchored(m)
    BY <1>0, <2>1, ChargeTypes DEF Anchored, InClover
  <2> QED
    BY <1>0, <1>2, <2>2, <2>3, OnceStill DEF StaffPays
<1>3. ASSUME NEW c \in Charges, Changes(c) PROVE OnceInv'
  <2>1. mod' = [mod EXCEPT ![c] = Larger(now, mod[c])] /\ mod[c] > 0
    BY <1>0, <1>3 DEF Changes, Stamped, InClover
  <2>2. Larger(now, mod[c]) \in Int /\ Larger(now, mod[c]) > 0
    BY <1>0, <2>1 DEF Larger
  <2>3. Stamped'
    BY <1>0, <2>1, <2>2 DEF Stamped
  <2>4. \A d \in Charges : mod'[d] # 0 <=> mod[d] # 0
    BY <1>0, <2>1, <2>2
  <2>5. \A m \in Mcm : Anchored(m)' = Anchored(m)
    BY <2>4, ChargeTypes DEF Anchored, InClover
  <2> QED
    BY <1>0, <1>3, <2>3, <2>5, OnceStill DEF Changes
<1>4. ASSUME NEW m \in Mcm, LandLate(m) PROVE OnceInv'
  <2>1. inFlight # {} /\ UNCHANGED faults
    BY <1>4 DEF LandLate, countVars
  <2>2. ~Quiet'
    BY <2>1 DEF OnceInv, Quiet
  <2>3. PICK c \in Mine(m) : \E t \in Stamps(c) : mod' = [mod EXCEPT ![c] = t]
    BY <1>4 DEF LandLate, Land
  <2>4. Stamped'
    BY <1>0, <2>3, StampsPositive DEF Stamped
  <2> QED
    BY <2>2, <2>4 DEF OnceInv
<1>5. ASSUME NEW e \in Execs, NEW m \in Mcm, Start(e, m) PROVE OnceInv'
  <2>1. ex' = [ex EXCEPT ![e] = Starting(m)] /\ UNCHANGED <<mod, inFlight>>
    BY <1>5 DEF Start, cloverVars
  <2>2. ex'[e].pc = "guard" /\ ex'[e].job = m /\ \A f \in Execs \ {e} : ex'[f] = ex[f]
    BY <2>1 DEF TypeInv, ExTyped, Starting
  <2>3. Quiet' => \A f \in Execs : ex[f].job # m
    BY <1>5 DEF Start, Fault, Quiet, Executing
  <2>4. \A n : Anchored(n)' = Anchored(n)
    BY <2>1 DEF Anchored, InClover
  <2>5. SUFFICES ASSUME Quiet' PROVE inFlight' = {} /\ Alone' /\ Checked' /\ Single'
    BY <1>0, <2>1 DEF OnceInv, Stamped
  <2>6. Quiet
    BY <1>0, <2>5 DEF Quiet
  <2>7. Alone'
    BY <2>2, <2>3, <2>5, <2>6 DEF OnceInv, Alone
  <2>8. Checked'
    BY <2>2, <2>4, <2>6 DEF OnceInv, Checked
  <2> QED
    BY <2>1, <2>4, <2>6, <2>7, <2>8 DEF OnceInv, Single
<1>6. CASE Crash
  <2>1. UNCHANGED <<mod, inFlight>> /\ (UNCHANGED ex \/ \E e \in Execs : ex' = [ex EXCEPT ![e] = Idle])
    BY <1>6 DEF Crash, cloverVars
  <2> QED
    BY <1>0, <1>1, <2>1, OnceMoved, Moves
<1>7. ASSUME NEW e \in Execs, InjectionStep(e), ~PostPayment(e) PROVE OnceInv'
  <2>1. UNCHANGED <<mod, inFlight>> /\ ex[e].pc # "idle"
    BY <1>7 DEF InjectionStep, ReadPayment, ReadOrderInClover, WritePosId, WriteMapRow,
       CountSiblings, ClearIssue, EndInjection, At
  <2>2. \/ ex' = [ex EXCEPT ![e] = Idle]
        \/ Goto(e, "post") /\ Anchored(ex[e].job) = {}
        \/ \E pc \in ExPc \ {"post"} : Goto(e, pc)
        \/ \E c, b : ex' = [ex EXCEPT ![e] = Holding(ex[e].job, c, b)]
    <3>1. CASE ReadPayment(e)
      BY <3>1, Moves DEF ReadPayment, ExPc
    <3>2. CASE ReadOrderInClover(e)
      BY <3>2, Moves DEF ReadOrderInClover, Found
    <3>3. CASE WritePosId(e) \/ WriteMapRow(e)
      BY <3>3, Moves DEF WritePosId, WriteMapRow, ExPc
    <3>4. CASE CountSiblings(e) \/ ClearIssue(e)
      BY <3>4 DEF CountSiblings, ClearIssue, ExPc
    <3>5. CASE EndInjection(e)
      BY <3>5, Moves DEF EndInjection
    <3> QED
      BY <1>7, <3>1, <3>2, <3>3, <3>4, <3>5 DEF InjectionStep
  <2>3. /\ \A f \in Execs \ {e} : ex'[f] = ex[f]
        /\ ex'[e].pc = "idle" \/ (ex[e].pc # "idle" /\ ex'[e].job = ex[e].job)
        /\ ex'[e].pc = "post" => Anchored(ex[e].job) = {}
    BY <2>1, <2>2, Moves
  <2> QED
    BY <1>0, <2>1, <2>3, OnceMoved
<1>8. ASSUME NEW e \in Execs, PostPayment(e) PROVE OnceInv'
  <2>0. PICK m \in Mcm : m = ex[e].job /\ ex[e].pc = "post"
    BY <1>0, <1>8 DEF PostPayment, At
  <2>1. CASE UNCHANGED <<mod, inFlight>> /\ ex' = [ex EXCEPT ![e] = Idle]
    BY <1>0, <2>1, OnceMoved, Moves
  <2>2. CASE "late" \in faults' /\ UNCHANGED mod
    BY <1>0, <2>2 DEF OnceInv, Quiet, Stamped
  <2>3. ASSUME NEW c \in Mine(m), Land(m, c, asked[m]), UNCHANGED inFlight,
               ex'[e].pc = "idle" \/ (ex'[e].pc = "pos" /\ ex'[e].job = m),
               \A f \in Execs \ {e} : ex'[f] = ex[f]
        PROVE  OnceInv'
    <3>1. PICK t \in Stamps(c) : mod' = [mod EXCEPT ![c] = t]
      BY <2>3 DEF Land
    <3>2. t \in Int /\ t > 0 /\ c \in Charges
      BY <2>0, StampsPositive, ChargeTypes
    <3>3. Stamped'
      BY <1>0, <3>1, <3>2 DEF Stamped
    <3>4. SUFFICES ASSUME Quiet' PROVE inFlight' = {} /\ Alone' /\ Checked' /\ Single'
      BY <3>3 DEF OnceInv
    <3>5. Quiet
      BY <1>0, <3>4 DEF Quiet
    <3>6. Anchored(m) = {}
      BY <2>0, <3>5 DEF OnceInv, Checked
    <3>7. \A n \in Mcm \ {m} : Anchored(n)' = Anchored(n)
      BY <1>0, <2>0, <3>1, <3>2, ChargeTypes DEF Anchored, InClover
    <3>8. Anchored(m)' = {c}
      BY <1>0, <2>0, <2>3, <3>1, <3>2, <3>6, ChargeTypes DEF Anchored, InClover
    <3>9. Alone'
      BY <2>0, <2>3, <3>5 DEF OnceInv, Alone
    <3>10. Checked'
      <4>1. ASSUME NEW f \in Execs, ex'[f].pc = "post" PROVE (Anchored(ex[f].job) = {})'
        <5>1. f # e /\ ex'[f] = ex[f] /\ ex[f].pc = "post"
          BY <2>3, <4>1
        <5>2. ex[f].job \in Mcm \ {m} /\ Anchored(ex[f].job) = {}
          BY <1>0, <2>0, <3>5, <5>1 DEF OnceInv, Alone, Checked
        <5> QED
          BY <3>7, <5>1, <5>2
      <4> QED
        BY <4>1 DEF Checked
    <3>11. Single'
      BY <3>5, <3>7, <3>8 DEF OnceInv, Single
    <3> QED
      BY <2>3, <3>5, <3>9, <3>10, <3>11 DEF OnceInv
  <2>4. \/ UNCHANGED <<mod, inFlight>> /\ ex' = [ex EXCEPT ![e] = Idle]
        \/ "late" \in faults' /\ UNCHANGED mod
        \/ \E c \in Mine(m) : /\ Land(m, c, asked[m]) /\ UNCHANGED inFlight
                              /\ \/ ex' = [ex EXCEPT ![e] = Idle]
                                 \/ ex' = [ex EXCEPT ![e] = Holding(m, c, FALSE)]
    BY <1>8, <2>0, Moves DEF PostPayment, Fault
  <2>5. CASE \E c \in Mine(m) : /\ Land(m, c, asked[m]) /\ UNCHANGED inFlight
                                /\ \/ ex' = [ex EXCEPT ![e] = Idle]
                                   \/ ex' = [ex EXCEPT ![e] = Holding(m, c, FALSE)]
    <3>1. PICK c \in Mine(m) : /\ Land(m, c, asked[m]) /\ UNCHANGED inFlight
                               /\ \/ ex' = [ex EXCEPT ![e] = Idle]
                                  \/ ex' = [ex EXCEPT ![e] = Holding(m, c, FALSE)]
      BY <2>5
    <3>2. /\ ex'[e].pc = "idle" \/ (ex'[e].pc = "pos" /\ ex'[e].job = m)
          /\ \A f \in Execs \ {e} : ex'[f] = ex[f]
      <4>1. CASE ex' = [ex EXCEPT ![e] = Idle]
        BY <4>1, Moves
      <4>2. CASE ex' = [ex EXCEPT ![e] = Holding(m, c, FALSE)]
        BY <4>2 DEF TypeInv, ExTyped, Holding
      <4> QED
        BY <3>1, <4>1, <4>2
    <3> QED
      BY <2>3, <3>1, <3>2
  <2> QED
    BY <2>1, <2>2, <2>4, <2>5
<1>9. ASSUME NEW k \in Pulls, PullStep(k) PROVE UNCHANGED <<mod, inFlight, ex>>
  BY <1>9 DEF PullStep, BeginPull, FetchFeed, LookUpMap, ReflectInMap, ReflectInRow,
     LookUpInjected, MapInjected, FindOrder, FindUnlinked, LinkUnlinked, MapLinked,
     RecordPayment, SumPayments, PatchOrder, MapRecorded, ForwardToOmnivore, ReportPull,
     pullFrame, cloverVars
<1>10. ASSUME \/ \E m \in Mcm : Revive(m)
              \/ \E o \in Orders : OrderLinked(o)
              \/ Tick
              \/ UNCHANGED vars
       PROVE  UNCHANGED <<mod, inFlight, ex>>
  BY <1>10 DEF Revive, OrderLinked, Tick, vars, cloverVars
<1> QED
  BY <1>1, <1>2, <1>3, <1>4, <1>5, <1>6, <1>7, <1>8, <1>9, <1>10 DEF Next

\* An MCM payment is charged once in Clover, whatever else happens, while no lock is overrun
\* and no POST lands after its client gave up: the look for the payment's anchor before the
\* POST and the claim are enough.
THEOREM OneCharge == Spec => []ChargedOnce
<1>1. TypeInv /\ OnceInv => ChargedOnce
  <2> SUFFICES ASSUME TypeInv, OnceInv, Quiet, NEW m \in Mcm
               PROVE  Cardinality(Anchored(m)) <= 1
    BY DEF ChargedOnce, Quiet
  <2>1. CASE Anchored(m) = {}
    BY <2>1, FS_EmptySet
  <2>2. CASE Anchored(m) # {}
    <3>1. PICK c : c \in Anchored(m)
      BY <2>2
    <3>2. Anchored(m) = {c}
      BY <3>1 DEF OnceInv, Single
    <3> QED
      BY <3>2, FS_Singleton
  <2> QED
    BY <2>1, <2>2
<1>2. Init => OnceInv
  BY OnceInit
<1>3. TypeInv /\ TypeInv' /\ OnceInv /\ [Next]_vars => OnceInv'
  BY OnceNext
<1> QED
  BY <1>1, <1>2, <1>3, Typed, PTL DEF Spec

(* ClearedWhenApplied *)

Applied(m) == posId[m] # None
Written    == {"map", "siblings", "clear", "end"}

\* A completed injection, and one past its write, has its payment's pos_id; one about to clear
\* the order's issue has seen every payment of the order have its own.
AppliedInv ==
  /\ \A m \in Mcm : job[m] = "completed" => Applied(m)
  /\ \A e \in Execs : ex[e].pc \in Written => Applied(ex[e].job)
  /\ \A e \in Execs : ex[e].pc = "clear" =>
       \A m \in Mcm : OrderOf[m] = OrderOf[ex[e].job] => Applied(m)

\* No step takes a pos_id away.
LEMMA AppliedStays ==
  ASSUME TypeInv, [Next]_vars, NEW m \in Mcm, Applied(m)
  PROVE  Applied(m)'
<1>0. None \notin Charges /\ posId \in [Mcm -> Charges \cup {None}]
  BY NoneAssumption DEF TypeInv, RowsTyped
<1>1. ASSUME NEW e \in Execs, WritePosId(e) PROVE Applied(m)'
  <2>1. posId' = posId \/ posId' = [posId EXCEPT ![ex[e].job] = ex[e].charge]
    BY <1>1 DEF WritePosId
  <2>2. ex[e].charge \in Charges /\ ex[e].job \in Mcm
    BY <1>1, ChargeTypes DEF WritePosId, At, TypeInv, ExShape
  <2> QED
    BY <1>0, <2>1, <2>2 DEF Applied
<1>2. ASSUME NEW k \in Pulls, LinkUnlinked(k) PROVE Applied(m)'
  <2>1. posId' = posId \/ posId' = [posId EXCEPT ![pull[k].row] = Id(k)]
    BY <1>2 DEF LinkUnlinked
  <2>2. Id(k) \in Charges
    BY <1>2 DEF LinkUnlinked, In, TypeInv, PullShape, Shaped, WithItem, PullPc, Id, FeedItem
  <2> QED
    BY <1>0, <2>1, <2>2 DEF Applied
<1>3. ASSUME NEW e \in Execs, InjectionStep(e), ~WritePosId(e) PROVE UNCHANGED posId
  BY <1>3 DEF InjectionStep, ReadPayment, ReadOrderInClover, PostPayment, WriteMapRow,
     CountSiblings, ClearIssue, EndInjection
<1>4. ASSUME NEW k \in Pulls, PullStep(k), ~LinkUnlinked(k) PROVE UNCHANGED posId
  <2>1. ASSUME \/ BeginPull(k) \/ FetchFeed(k) \/ LookUpMap(k) \/ ReflectInMap(k)
               \/ ReflectInRow(k) \/ LookUpInjected(k) \/ MapInjected(k) \/ FindOrder(k)
        PROVE  UNCHANGED posId
    BY <2>1 DEF BeginPull, FetchFeed, LookUpMap, ReflectInMap, ReflectInRow, LookUpInjected,
       MapInjected, FindOrder, rowVars
  <2>2. ASSUME \/ FindUnlinked(k) \/ MapLinked(k) \/ RecordPayment(k) \/ SumPayments(k)
               \/ PatchOrder(k) \/ MapRecorded(k) \/ ForwardToOmnivore(k) \/ ReportPull(k)
        PROVE  UNCHANGED posId
    BY <2>2 DEF FindUnlinked, MapLinked, RecordPayment, SumPayments, PatchOrder, MapRecorded,
       ForwardToOmnivore, ReportPull, rowVars
  <2> QED
    BY <1>4, <2>1, <2>2 DEF PullStep
<1>5. ASSUME \/ UNCHANGED vars
             \/ \E c \in Staff : StaffPays(c)
             \/ \E c \in Charges : Changes(c)
             \/ \E n \in Mcm : LandLate(n) \/ Revive(n)
             \/ \E o \in Orders : OrderLinked(o)
             \/ Tick
             \/ \E e \in Execs, n \in Mcm : Start(e, n)
             \/ Crash
      PROVE  UNCHANGED posId
  BY <1>5 DEF vars, StaffPays, Changes, LandLate, Revive, OrderLinked, Tick, Start, Crash,
     rowVars
<1> QED
  BY <1>1, <1>2, <1>3, <1>4, <1>5 DEF Applied, Next

LEMMA AppliedInit == Init => AppliedInv
BY DEF Init, AppliedInv, Idle, Written

\* An execution that moves keeps AppliedInv when it knows of its new place what that asks.
LEMMA AppliedMoved ==
  ASSUME TypeInv, TypeInv', AppliedInv, [Next]_vars, NEW e \in Execs,
         \A m \in Mcm : job'[m] = "completed" => job[m] = "completed" \/ Applied(m),
         \A f \in Execs \ {e} : ex'[f] = ex[f],
         ex'[e].pc \in Written => ex'[e].job = ex[e].job /\ Applied(ex[e].job)',
         ex'[e].pc = "clear" =>
           \A m \in Mcm : OrderOf[m] = OrderOf[ex[e].job] => Applied(m)
  PROVE  AppliedInv'
<1>1. \A m \in Mcm : Applied(m) => Applied(m)'
  BY AppliedStays
<1>2. \A f \in Execs : ex'[f].pc \in Written => ex'[f].job \in Mcm
  BY DEF TypeInv, ExShape, Written
<1>3. "clear" \in Written
  BY DEF Written
<1>4. ASSUME NEW m \in Mcm, job'[m] = "completed" PROVE Applied(m)'
  BY <1>1, <1>4 DEF AppliedInv
<1>5. ASSUME NEW f \in Execs, ex'[f].pc \in Written PROVE Applied(ex[f].job)'
  BY <1>1, <1>2, <1>5 DEF AppliedInv, Applied
<1>6. ASSUME NEW f \in Execs, ex'[f].pc = "clear", NEW m \in Mcm,
             OrderOf[m] = OrderOf[ex'[f].job]
      PROVE  Applied(m)'
  BY <1>1, <1>3, <1>6 DEF AppliedInv
<1> QED
  BY <1>4, <1>5, <1>6 DEF AppliedInv

\* A step of which no execution and no job takes part keeps AppliedInv.
LEMMA AppliedStill ==
  ASSUME TypeInv, AppliedInv, [Next]_vars, UNCHANGED ex,
         \A m \in Mcm : job'[m] = "completed" => job[m] = "completed"
  PROVE  AppliedInv'
<1>1. \A m \in Mcm : Applied(m) => Applied(m)'
  BY AppliedStays
<1>2. \A f \in Execs : ex[f].pc \in Written => ex[f].job \in Mcm
  BY DEF TypeInv, ExShape, Written
<1>3. ASSUME NEW f \in Execs, ex'[f].pc \in Written PROVE Applied(ex[f].job)'
  BY <1>1, <1>2, <1>3 DEF AppliedInv, Applied
<1> QED
  BY <1>1, <1>3 DEF AppliedInv

LEMMA AppliedNext == TypeInv /\ TypeInv' /\ AppliedInv /\ [Next]_vars => AppliedInv'
<1> SUFFICES ASSUME TypeInv, TypeInv', AppliedInv, [Next]_vars PROVE AppliedInv'
  OBVIOUS
<1>0. /\ \A e \in Execs : ex[e].pc # "idle" => ex[e].job \in Mcm
      /\ job \in [Mcm -> {"ready", "completed", "dead"}]
      /\ None \notin Charges /\ posId \in [Mcm -> Charges \cup {None}]
  BY NoneAssumption DEF TypeInv, ExShape, JobsTyped, RowsTyped
<1>1. CASE UNCHANGED <<ex, job>>
  BY <1>1, AppliedStill
<1>2. ASSUME NEW e \in Execs, NEW m \in Mcm, Start(e, m) PROVE AppliedInv'
  <2>1. ex' = [ex EXCEPT ![e] = Starting(m)] /\ UNCHANGED job
    BY <1>2 DEF Start, jobVars
  <2>2. ex'[e].pc = "guard" /\ \A f \in Execs \ {e} : ex'[f] = ex[f]
    BY <2>1 DEF TypeInv, ExTyped, Starting
  <2> QED
    BY <2>1, <2>2, AppliedMoved DEF Written
<1>3. CASE Crash
  <2>1. UNCHANGED job /\ (UNCHANGED ex \/ \E e \in Execs : ex' = [ex EXCEPT ![e] = Idle])
    BY <1>3 DEF Crash, jobVars
  <2>2. ASSUME NEW e \in Execs, ex' = [ex EXCEPT ![e] = Idle] PROVE AppliedInv'
    <3>1. ex'[e].pc = "idle" /\ \A f \in Execs \ {e} : ex'[f] = ex[f]
      BY <2>2, Moves
    <3> QED
      BY <2>1, <3>1, AppliedMoved DEF Written
  <2> QED
    BY <1>1, <2>1, <2>2
<1>4. ASSUME NEW m \in Mcm, Revive(m) PROVE AppliedInv'
  <2>1. UNCHANGED ex /\ job' = [job EXCEPT ![m] = "ready"]
    BY <1>4 DEF Revive
  <2> QED
    BY <1>0, <2>1, AppliedStill
<1>5. ASSUME NEW e \in Execs, ex[e].pc # "idle",
             ex'[e].pc \notin Written, \A f \in Execs \ {e} : ex'[f] = ex[f],
             \A m \in Mcm : job'[m] = "completed" => job[m] = "completed"
      PROVE  AppliedInv'
  <2>1. ex'[e].pc # "clear"
    BY <1>5 DEF Written
  <2> QED
    BY <1>5, <2>1, AppliedMoved
<1>6. ASSUME NEW e \in Execs, ex[e].pc # "idle", NEW b, NEW c, Throw(e, b, c)
      PROVE  AppliedInv'
  <2>1. ex'[e].pc = "idle" /\ \A f \in Execs \ {e} : ex'[f] = ex[f]
    BY <1>6, Moves
  <2>2. \A m \in Mcm : job'[m] = "completed" => job[m] = "completed"
    BY <1>0, <1>6 DEF Throw
  <2> QED
    BY <1>5, <1>6, <2>1, <2>2 DEF Written
<1>7. ASSUME NEW e \in Execs, ex[e].pc # "idle", Return(e), Applied(ex[e].job)
      PROVE  AppliedInv'
  <2>1. ex'[e].pc = "idle" /\ \A f \in Execs \ {e} : ex'[f] = ex[f]
    BY <1>7, Moves
  <2>2. \A m \in Mcm : job'[m] = "completed" => job[m] = "completed" \/ Applied(m)
    BY <1>0, <1>7 DEF Return
  <2>3. ex'[e].pc \notin Written /\ ex'[e].pc # "clear"
    BY <2>1 DEF Written
  <2> QED
    BY <2>1, <2>2, <2>3, AppliedMoved
<1>8. ASSUME NEW e \in Execs, ex[e].pc # "idle", NEW pc, Goto(e, pc), UNCHANGED job,
             pc \in Written => Applied(ex[e].job)',
             pc = "clear" => \A m \in Mcm : OrderOf[m] = OrderOf[ex[e].job] => Applied(m)
      PROVE  AppliedInv'
  <2>1. /\ ex'[e].pc = pc /\ ex'[e].job = ex[e].job
        /\ \A f \in Execs \ {e} : ex'[f] = ex[f]
    BY <1>8, Moves
  <2> QED
    BY <1>8, <2>1, AppliedMoved
<1>9. ASSUME NEW e \in Execs, InjectionStep(e) PROVE AppliedInv'
  <2>0. PICK m \in Mcm : m = ex[e].job /\ ex[e].pc # "idle"
    BY <1>0, <1>9 DEF InjectionStep, ReadPayment, ReadOrderInClover, PostPayment, WritePosId,
       WriteMapRow, CountSiblings, ClearIssue, EndInjection, At
  <2>1. CASE ReadPayment(e)
    <3>1. CASE Return(e) /\ posId[m] # None
      BY <1>7, <2>0, <3>1 DEF Applied
    <3>2. CASE Goto(e, "get") /\ UNCHANGED job
      BY <1>8, <2>0, <3>2 DEF Written
    <3> QED
      BY <1>6, <2>0, <2>1, <3>1, <3>2 DEF ReadPayment
  <2>2. CASE ReadOrderInClover(e)
    <3>1. CASE Goto(e, "post") /\ UNCHANGED job
      BY <1>8, <2>0, <3>1 DEF Written
    <3>2. CASE UNCHANGED job /\ \E c : ex' = [ex EXCEPT ![e] = Holding(m, c, TRUE)]
      <4>1. PICK c : ex' = [ex EXCEPT ![e] = Holding(m, c, TRUE)]
        BY <3>2
      <4>2. ex'[e].pc = "pos" /\ \A f \in Execs \ {e} : ex'[f] = ex[f]
        BY <4>1 DEF TypeInv, ExTyped, Holding
      <4> QED
        BY <1>5, <2>0, <3>2, <4>2 DEF Written
    <3> QED
      BY <1>6, <2>0, <2>2, <3>1, <3>2 DEF ReadOrderInClover
  <2>3. CASE PostPayment(e)
    <3>1. CASE UNCHANGED job /\ \E c : ex' = [ex EXCEPT ![e] = Holding(m, c, FALSE)]
      <4>1. PICK c : ex' = [ex EXCEPT ![e] = Holding(m, c, FALSE)]
        BY <3>1
      <4>2. ex'[e].pc = "pos" /\ \A f \in Execs \ {e} : ex'[f] = ex[f]
        BY <4>1 DEF TypeInv, ExTyped, Holding
      <4> QED
        BY <1>5, <2>0, <3>1, <4>2 DEF Written
    <3> QED
      BY <1>6, <2>0, <2>3, <3>1 DEF PostPayment
  <2>4. CASE WritePosId(e)
    <3>1. CASE Goto(e, "map") /\ UNCHANGED job /\ posId' = [posId EXCEPT ![m] = ex[e].charge]
      <4>1. ex[e].charge \in Charges
        BY <2>0, <2>4, ChargeTypes DEF WritePosId, At, TypeInv, ExShape
      <4>2. posId'[m] # None
        BY <1>0, <3>1, <4>1
      <4>3. ex'[e].job = m
        BY <2>0, <3>1, Moves
      <4>4. /\ ex'[e].pc = "map" /\ \A f \in Execs \ {e} : ex'[f] = ex[f]
        BY <3>1, Moves
      <4> QED
        BY <2>0, <3>1, <4>2, <4>3, <4>4, AppliedMoved DEF Applied
    <3> QED
      BY <1>6, <2>0, <2>4, <3>1 DEF WritePosId
  <2>5. CASE WriteMapRow(e) \/ CountSiblings(e) \/ ClearIssue(e) \/ EndInjection(e)
    <3>1. Applied(m) /\ ex[e].pc \in Written
      BY <2>0, <2>5 DEF WriteMapRow, CountSiblings, ClearIssue, EndInjection, At, AppliedInv,
         Written
    <3>2. posId'[m] # None
      BY <3>1, AppliedStays DEF Applied
    <3>3. CASE UNCHANGED job /\ (Goto(e, "siblings") \/ Goto(e, "end"))
      <4>1. /\ ex'[e].pc \in {"siblings", "end"} /\ ex'[e].job = ex[e].job
            /\ \A f \in Execs \ {e} : ex'[f] = ex[f]
        BY <3>3, Moves
      <4> QED
        BY <2>0, <3>2, <3>3, <4>1, AppliedMoved DEF Applied
    <3>4. CASE UNCHANGED job /\ Goto(e, "clear") /\ PendingSiblings(m) = {}
      <4>1. /\ ex'[e].pc = "clear" /\ ex'[e].job = ex[e].job
            /\ \A f \in Execs \ {e} : ex'[f] = ex[f]
        BY <3>4, Moves
      <4>2. \A n \in Mcm : OrderOf[n] = OrderOf[m] => Applied(n)
        BY <3>1, <3>4 DEF PendingSiblings, AppliedInv
      <4> QED
        BY <2>0, <3>2, <3>4, <4>1, <4>2, AppliedMoved DEF Applied
    <3> QED
      BY <1>6, <1>7, <2>0, <2>5, <3>1, <3>3, <3>4 DEF WriteMapRow, CountSiblings, ClearIssue,
         EndInjection
  <2> QED
    BY <1>9, <2>1, <2>2, <2>3, <2>4, <2>5 DEF InjectionStep
<1>10. ASSUME NEW k \in Pulls, PullStep(k) PROVE UNCHANGED <<ex, job>>
  BY <1>10 DEF PullStep, BeginPull, FetchFeed, LookUpMap, ReflectInMap, ReflectInRow,
     LookUpInjected, MapInjected, FindOrder, FindUnlinked, LinkUnlinked, MapLinked,
     RecordPayment, SumPayments, PatchOrder, MapRecorded, ForwardToOmnivore, ReportPull,
     pullFrame, jobVars
<1>11. ASSUME \/ \E c \in Staff : StaffPays(c)
              \/ \E c \in Charges : Changes(c)
              \/ \E m \in Mcm : LandLate(m)
              \/ \E o \in Orders : OrderLinked(o)
              \/ Tick
              \/ UNCHANGED vars
       PROVE  UNCHANGED <<ex, job>>
  BY <1>11 DEF StaffPays, Changes, LandLate, OrderLinked, Tick, vars, jobVars
<1> QED
  BY <1>1, <1>2, <1>3, <1>4, <1>9, <1>10, <1>11 DEF Next

\* Only ClearIssue takes an issue away.
LEMMA IssueCleared ==
  ASSUME TypeInv, [Next]_vars, NEW o \in Orders, issues[o] # None, issues'[o] = None
  PROVE  \E e \in Execs : ex[e].pc = "clear" /\ o = OrderOf[ex[e].job]
<1>0. /\ issues \in [Orders -> Mcm \cup {None}] /\ None \notin Mcm
      /\ \A e \in Execs : ex[e].pc # "idle" => ex[e].job \in Mcm
  BY NoneAssumption DEF TypeInv, OrdersTyped, ExShape
<1>1. ASSUME NEW e \in Execs, ex[e].pc # "idle", NEW b, NEW c, Throw(e, b, c) PROVE FALSE
  <2>1. PICK i \in Mcm \cup {issues[OrderOf[ex[e].job]]} :
          issues' = [issues EXCEPT ![OrderOf[ex[e].job]] = i]
    BY <1>0, <1>1 DEF Throw
  <2> QED
    BY <1>0, <2>1
<1>2. ASSUME NEW e \in Execs, InjectionStep(e), ~ClearIssue(e) PROVE FALSE
  <2>1. ex[e].pc # "idle"
    BY <1>2 DEF InjectionStep, ReadPayment, ReadOrderInClover, PostPayment, WritePosId,
       WriteMapRow, CountSiblings, EndInjection, At
  <2>2. \A b, c : ~Throw(e, b, c)
    BY <1>1, <2>1
  <2>3. ~UNCHANGED issues /\ ~Return(e)
    BY DEF Return
  <2> QED
    BY <1>2, <2>2, <2>3 DEF InjectionStep, ReadPayment, ReadOrderInClover, PostPayment,
       WritePosId, WriteMapRow, CountSiblings, EndInjection
<1>3. ASSUME NEW k \in Pulls, PullStep(k) PROVE FALSE
  BY <1>3 DEF PullStep, BeginPull, FetchFeed, LookUpMap, ReflectInMap, ReflectInRow,
     LookUpInjected, MapInjected, FindOrder, FindUnlinked, LinkUnlinked, MapLinked,
     RecordPayment, SumPayments, PatchOrder, MapRecorded, ForwardToOmnivore, ReportPull,
     pullFrame
<1>4. ~UNCHANGED issues
  OBVIOUS
<1>5. ASSUME \/ UNCHANGED vars
             \/ \E c \in Staff : StaffPays(c)
             \/ \E c \in Charges : Changes(c)
             \/ \E n \in Mcm : LandLate(n) \/ Revive(n)
             \/ \E n \in Orders : OrderLinked(n)
             \/ Tick
             \/ \E e \in Execs, n \in Mcm : Start(e, n)
             \/ Crash
      PROVE  FALSE
  BY <1>4, <1>5 DEF vars, StaffPays, Changes, LandLate, Revive, OrderLinked, Tick, Start, Crash,
     orderVars
<1>6. ASSUME NEW e \in Execs, ClearIssue(e)
      PROVE  ex[e].pc = "clear" /\ o = OrderOf[ex[e].job]
  BY <1>0, <1>6 DEF ClearIssue, At
<1> QED
  BY <1>2, <1>3, <1>5, <1>6 DEF Next

\* However many injections of an order run, are retried or put back, and whatever a pull links
\* meanwhile, the issue of the order goes only when all its MCM payments have been applied.
THEOREM IssueGoesWhenApplied == Spec => ClearedWhenApplied
<1> DEFINE A == \A o \in Orders : issues[o] # None /\ issues'[o] = None =>
                  \A m \in Mcm : OrderOf[m] = o => posId[m] # None
<1>1. TypeInv /\ AppliedInv /\ [Next]_vars => A
  <2> SUFFICES ASSUME TypeInv, AppliedInv, [Next]_vars, NEW o \in Orders, issues[o] # None,
                      issues'[o] = None, NEW m \in Mcm, OrderOf[m] = o
               PROVE  posId[m] # None
    OBVIOUS
  <2>1. PICK e \in Execs : ex[e].pc = "clear" /\ o = OrderOf[ex[e].job]
    BY IssueCleared
  <2> QED
    BY <2>1 DEF AppliedInv, Applied
<1>2. Init => AppliedInv
  BY AppliedInit
<1>3. TypeInv /\ TypeInv' /\ AppliedInv /\ [Next]_vars => AppliedInv'
  BY AppliedNext
<1>4. TypeInv /\ AppliedInv /\ [Next]_vars => [A]_vars
  BY <1>1
<1> HIDE DEF A
<1>5. Spec => [][A]_vars
  BY <1>2, <1>3, <1>4, Typed, PTL DEF Spec
<1> QED
  BY <1>5 DEF ClearedWhenApplied, A

(* NothingSkipped *)

Settled(c) == map[c] # None \/ c \in orphaned \cup failed

\* Stamps and the cursor are not ahead of the clock.
Bounded == /\ now >= 1 /\ (now <= MaxTime \/ now = 1) /\ cursor >= 0 /\ cursor <= now
           /\ \A c \in Charges : mod[c] >= 0 /\ mod[c] <= now

\* What an item of the feed knows of its payment is true or has become old.
Snapshot(i) == i.mod >= 1 /\ i.mod <= now /\ i.mod <= mod[i.id]

Reach(p) == Larger(p.top, p.wm)

\* Where a pull has a payment it has read: settled, still to do, at hand, deferred under the
\* protection of oldest, or stamped too late to be behind the cursor this pull will report.
Late(p, c)    == mod[c] >= Reach(p) - Overlap /\ \A i \in p.todo : mod[c] >= i.mod - Overlap
Covered(p, c) == \/ Settled(c)
                 \/ \E i \in p.todo : i.id = c
                 \/ p.pc \in WithItem /\ p.cur.id = c
                 \/ c \in p.deferred /\ p.oldest # 0 /\ p.oldest <= mod[c]
                 \/ Late(p, c)

Timely(p)  == /\ p.pc # "idle" => p.wm <= now /\ p.top <= now /\ \A i \in p.todo : Snapshot(i)
              /\ p.pc \in WithItem => Snapshot(p.cur)
Begun(p)   == p.pc # "idle" =>
                \A c \in Charges : InClover(c) /\ mod[c] < p.wm - Overlap => Settled(c)
Read(p)    == p.pc \notin {"idle", "fetch"} =>
                \A c \in Charges : InClover(c) => Covered(p, c)
Mapped(p)  == p.pc \in {"reflect", "reflectRow", "forward"} => Settled(p.cur.id)
Sound(p)   == Timely(p) /\ Begun(p) /\ Read(p) /\ Mapped(p)

SkipInv == Bounded /\ NothingSkipped /\ \A k \in Pulls : Sound(pull[k])

\* The clock does not go back, and a new stamp is no older than Overlap.
Onward == /\ now' = now \/ (now < MaxTime /\ now' = now + 1)
          /\ \A c \in Charges : \/ mod'[c] = mod[c]
                                \/ /\ mod'[c] >= mod[c] /\ mod'[c] >= 1 /\ mod'[c] <= now'
                                   /\ mod'[c] >= now' - Overlap
SettledStays == \A c \in Charges : Settled(c) => Settled(c)'

LEMMA StampsRecent ==
  ASSUME TypeInv, Corrupt = {}, NEW c, NEW t \in Stamps(c)
  PROVE  t \in Int /\ t >= 1 /\ t <= now /\ t >= now - Overlap
BY TimesAssumption DEF TypeInv, RestTyped, Stamps

LEMMA AllOnward == ASSUME TypeInv, Corrupt = {}, Bounded, [Next]_vars PROVE Onward
<1>0. mod \in [Charges -> Int] /\ now \in Nat /\ Overlap \in Nat
  BY TimesAssumption DEF TypeInv, CloverTyped, RestTyped
<1>1. CASE UNCHANGED mod /\ (now' = now \/ (now < MaxTime /\ now' = now + 1))
  BY <1>0, <1>1 DEF Onward
<1>2. ASSUME NEW c \in Charges, ~InClover(c), UNCHANGED now,
             \E t \in Stamps(c) : mod' = [mod EXCEPT ![c] = t]
      PROVE  Onward
  BY <1>0, <1>2, StampsRecent DEF Onward, InClover
<1>3. ASSUME NEW c \in Staff, StaffPays(c) PROVE Onward
  BY <1>2, <1>3 DEF StaffPays, Charges
<1>4. ASSUME NEW c \in Charges, Changes(c) PROVE Onward
  <2>1. mod' = [mod EXCEPT ![c] = now] /\ UNCHANGED now
    <3>1. Larger(now, mod[c]) = now
      BY <1>0 DEF Larger, Bounded
    <3> QED
      BY <1>4, <3>1 DEF Changes
  <2> QED
    <3>1. mod[c] <= now /\ now >= 1
      BY DEF Bounded
    <3>2. now >= now - Overlap /\ now' = now /\ mod'[c] = now
      BY <1>0, <2>1
    <3>3. \A d \in Charges \ {c} : mod'[d] = mod[d]
      BY <1>0, <2>1
    <3> QED
      BY <1>0, <3>1, <3>2, <3>3 DEF Onward
<1>5. ASSUME NEW m \in Mcm, LandLate(m) PROVE Onward
  <2>1. PICK c \in Mine(m) : ~InClover(c) /\ \E t \in Stamps(c) : mod' = [mod EXCEPT ![c] = t]
    BY <1>5 DEF LandLate, Land
  <2> QED
    BY <1>2, <1>5, <2>1, ChargeTypes DEF LandLate
<1>6. ASSUME NEW e \in Execs, InjectionStep(e) PROVE Onward
  <2>1. CASE PostPayment(e)
    <3>1. ex[e].job \in Mcm /\ UNCHANGED now
      BY <2>1 DEF PostPayment, At, TypeInv, ExShape, injectionFrame
    <3>2. \/ UNCHANGED mod
          \/ \E c \in Mine(ex[e].job) :
               ~InClover(c) /\ \E t \in Stamps(c) : mod' = [mod EXCEPT ![c] = t]
      BY <2>1 DEF PostPayment, Land
    <3> QED
      BY <1>1, <1>2, <3>1, <3>2, ChargeTypes
  <2>2. CASE ~PostPayment(e)
    <3>1. UNCHANGED <<mod, now>>
      BY <1>6, <2>2 DEF InjectionStep, ReadPayment, ReadOrderInClover, WritePosId, WriteMapRow,
         CountSiblings, ClearIssue, EndInjection, injectionFrame
    <3> QED
      BY <1>1, <3>1
  <2> QED
    BY <2>1, <2>2
<1>7. ASSUME NEW k \in Pulls, PullStep(k) PROVE UNCHANGED <<mod, now>>
  BY <1>7 DEF PullStep, BeginPull, FetchFeed, LookUpMap, ReflectInMap, ReflectInRow,
     LookUpInjected, MapInjected, FindOrder, FindUnlinked, LinkUnlinked, MapLinked,
     RecordPayment, SumPayments, PatchOrder, MapRecorded, ForwardToOmnivore, ReportPull,
     pullFrame, cloverVars
<1>8. ASSUME \/ UNCHANGED vars
             \/ \E m \in Mcm : Revive(m)
             \/ \E o \in Orders : OrderLinked(o)
             \/ Tick
             \/ \E e \in Execs, m \in Mcm : Start(e, m)
             \/ Crash
      PROVE  UNCHANGED mod /\ (now' = now \/ (now < MaxTime /\ now' = now + 1))
  BY <1>8 DEF vars, Revive, OrderLinked, Tick, Start, Crash, cloverVars
<1> QED
  BY <1>1, <1>3, <1>4, <1>5, <1>6, <1>7, <1>8 DEF Next

LEMMA RecordSettles ==
  ASSUME TypeInv, NEW k \in Pulls, RecordInMap(k), pull[k].cur \in FeedItem,
         pull[k].row \in Rows, UNCHANGED orphaned, NEW c \in Charges, c = Id(k)
  PROVE  SettledStays /\ Settled(c)'
<1> DEFINE entry == [pay |-> pull[k].row, seen |-> Item(k).fate]
<1>1. entry \in Entry /\ Id(k) \in Charges
  BY DEF Entry, Item, Id, FeedItem
<1>2. entry # None
  BY <1>1, NoneAssumption
<1> HIDE DEF entry
<1>3. map \in [Charges -> Entry \cup {None}]
  BY DEF TypeInv, RowsTyped
<1>4. \/ map' = [map EXCEPT ![Id(k)] = entry] /\ UNCHANGED failed
      \/ UNCHANGED map /\ failed' = failed \cup {Id(k)}
  BY DEF RecordInMap, entry
<1> QED
  BY <1>2, <1>3, <1>4 DEF SettledStays, Settled

LEMMA AllSettledStays == ASSUME TypeInv, [Next]_vars PROVE SettledStays
<1>0. None \notin Entry /\ map \in [Charges -> Entry \cup {None}]
  BY NoneAssumption DEF TypeInv, RowsTyped
<1>1. CASE UNCHANGED map /\ orphaned \subseteq orphaned' /\ failed \subseteq failed'
  BY <1>1 DEF SettledStays, Settled
<1>2. ASSUME NEW c \in Charges, NEW entry \in Entry \cup {None}, map' = [map EXCEPT ![c] = entry],
             map[c] # None => entry # None, UNCHANGED <<orphaned, failed>>
      PROVE  SettledStays
  BY <1>0, <1>2 DEF SettledStays, Settled
<1>3. ASSUME NEW e \in Execs, InjectionStep(e) PROVE SettledStays
  <2>1. CASE WriteMapRow(e)
    <3> DEFINE c == ex[e].charge
               entry == [pay |-> ex[e].job, seen |-> SeenAfterInjection(c)]
    <3>1. c \in Charges /\ ex[e].job \in Mcm /\ SeenAfterInjection(c) \in Fate
      BY <2>1, ChargeTypes DEF WriteMapRow, At, TypeInv, ExShape, SeenAfterInjection, Fate
    <3>2. entry \in Entry
      BY <3>1 DEF Entry, Rows
    <3>3. entry # None
      BY <1>0, <3>2
    <3>4. map' = map \/ map' = [map EXCEPT ![c] = entry]
      BY <2>1 DEF WriteMapRow
    <3>5. UNCHANGED <<orphaned, failed>>
      BY <2>1 DEF WriteMapRow, injectionFrame
    <3> HIDE DEF entry, c
    <3> QED
      BY <1>1, <1>2, <3>1, <3>2, <3>3, <3>4, <3>5
  <2>2. CASE ~WriteMapRow(e)
    <3>1. UNCHANGED <<map, orphaned, failed>>
      BY <1>3, <2>2 DEF InjectionStep, ReadPayment, ReadOrderInClover, PostPayment, WritePosId,
         CountSiblings, ClearIssue, EndInjection, injectionFrame
    <3> QED
      BY <1>1, <3>1
  <2> QED
    BY <2>1, <2>2
<1>4. ASSUME NEW k \in Pulls, PullStep(k) PROVE SettledStays
  <2>1. CASE ReflectInMap(k)
    <3> DEFINE e == IF map[Id(k)] = None THEN None ELSE [map[Id(k)] EXCEPT !.seen = Item(k).fate]
    <3>1. pull[k].cur \in FeedItem
      BY <2>1 DEF ReflectInMap, In, TypeInv, PullShape, Shaped, WithItem, PullPc
    <3>2. (map' = map \/ map' = [map EXCEPT ![Id(k)] = e]) /\ UNCHANGED <<orphaned, failed>>
      BY <2>1 DEF ReflectInMap
    <3>3. Id(k) \in Charges /\ Item(k).fate \in Fate
      BY <3>1 DEF Id, Item, FeedItem
    <3>4. e \in Entry \cup {None} /\ (map[Id(k)] # None => e # None)
      <4>1. map[Id(k)] # None => [map[Id(k)] EXCEPT !.seen = Item(k).fate] \in Entry
        BY <1>0, <3>3 DEF Entry
      <4> QED
        BY <1>0, <4>1
    <3> HIDE DEF e
    <3> QED
      BY <1>1, <1>2, <3>2, <3>3, <3>4
  <2>2. CASE MapInjected(k) \/ MapLinked(k) \/ MapRecorded(k)
    <3>1. pull[k].cur \in FeedItem /\ pull[k].row \in Rows /\ RecordInMap(k) /\ UNCHANGED orphaned
      BY <2>2 DEF MapInjected, MapLinked, MapRecorded, In, TypeInv, PullShape, Shaped, WithItem,
         WithRow, PullPc
    <3>2. Id(k) \in Charges
      BY <3>1 DEF Id, FeedItem
    <3> QED
      BY <3>1, <3>2, RecordSettles
  <2>3. CASE RecordPayment(k)
    BY <1>1, <2>3 DEF RecordPayment
  <2>4. CASE ReportPull(k)
    BY <1>1, <2>4 DEF ReportPull
  <2>6. CASE FetchFeed(k)
    <3>1. failed \subseteq failed' /\ UNCHANGED <<map, orphaned>>
      BY <2>6, FetchesSome DEF FetchFeed, Fetches
    <3> QED
      BY <1>1, <3>1
  <2>5. ASSUME \/ BeginPull(k) \/ LookUpMap(k) \/ ReflectInRow(k)
               \/ LookUpInjected(k) \/ FindOrder(k) \/ FindUnlinked(k) \/ LinkUnlinked(k)
               \/ SumPayments(k) \/ PatchOrder(k) \/ ForwardToOmnivore(k)
        PROVE  SettledStays
    <3>1. UNCHANGED <<map, orphaned, failed>>
      BY <2>5 DEF BeginPull, LookUpMap, ReflectInRow, LookUpInjected, FindOrder,
         FindUnlinked, LinkUnlinked, SumPayments, PatchOrder, ForwardToOmnivore
    <3> QED
      BY <1>1, <3>1
  <2> QED
    BY <1>4, <2>1, <2>2, <2>3, <2>4, <2>5, <2>6 DEF PullStep
<1>5. ASSUME \/ UNCHANGED vars
             \/ \E c \in Staff : StaffPays(c)
             \/ \E c \in Charges : Changes(c)
             \/ \E m \in Mcm : LandLate(m) \/ Revive(m)
             \/ \E o \in Orders : OrderLinked(o)
             \/ Tick
             \/ \E e \in Execs, m \in Mcm : Start(e, m)
             \/ Crash
      PROVE  UNCHANGED <<map, orphaned, failed>>
  BY <1>5 DEF vars, StaffPays, Changes, LandLate, Revive, OrderLinked, Tick, Start, Crash
<1> QED
  BY <1>1, <1>3, <1>4, <1>5 DEF Next

(* What a pull has learnt stays true, and what it learns at each step. *)

\* However the world moves on, a pull that stays where it is remains sound.
LEMMA SoundStill ==
  ASSUME TypeInv, TypeInv', Bounded, Onward, SettledStays, NEW p \in PullState, Shaped(p),
         Sound(p)
  PROVE  Sound(p)'
<1>0. /\ mod \in [Charges -> Int] /\ mod' \in [Charges -> Int] /\ now \in Nat /\ now' \in Nat
      /\ Overlap \in Nat /\ p.wm \in Int /\ p.top \in Int /\ p.oldest \in Int
      /\ \A i \in p.todo : i \in FeedItem /\ i.id \in Charges /\ i.mod \in Int
      /\ p.pc \in WithItem => p.cur.id \in Charges /\ p.cur.mod \in Int
  BY TimesAssumption DEF TypeInv, CloverTyped, RestTyped, PullState, Shaped, FeedItem
<1>1. \A c \in Charges : mod'[c] >= mod[c]
  BY <1>0 DEF Onward
<1>2. \A i \in p.todo : Snapshot(i) => Snapshot(i)'
  BY <1>0, <1>1 DEF Snapshot, Onward
<1>3. p.pc \in WithItem /\ Snapshot(p.cur) => Snapshot(p.cur)'
  BY <1>0, <1>1 DEF Snapshot, Onward
<1>4. Timely(p)'
  BY <1>0, <1>2, <1>3 DEF Sound, Timely, Onward
<1>5. Begun(p)'
  <2>1. SUFFICES ASSUME p.pc # "idle", NEW c \in Charges, InClover(c)', mod'[c] < p.wm - Overlap
                 PROVE  Settled(c)'
    BY DEF Begun
  <2>2. p.wm <= now'
    BY <1>4, <2>1 DEF Timely
  <2>3. mod'[c] = mod[c]
    BY <1>0, <2>1, <2>2 DEF Onward
  <2> QED
    BY <2>1, <2>3 DEF Sound, Begun, SettledStays, InClover
<1>6. Read(p)'
  <2>1. SUFFICES ASSUME p.pc \notin {"idle", "fetch"}, NEW c \in Charges, InClover(c)'
                 PROVE  Covered(p, c)'
    BY DEF Read
  <2>2. p.wm <= now' /\ p.top <= now' /\ \A i \in p.todo : i.mod <= now'
    BY <1>4, <2>1 DEF Timely, Snapshot
  <2>3. CASE mod'[c] # mod[c]
    <3>1. mod'[c] >= now' - Overlap
      BY <2>3 DEF Onward
    <3>2. Late(p, c)'
      BY <1>0, <2>2, <3>1 DEF Late, Reach, Larger
    <3> QED
      BY <3>2 DEF Covered
  <2>4. CASE mod'[c] = mod[c]
    <3>1. Covered(p, c)
      BY <2>1, <2>4 DEF Sound, Read, InClover
    <3>2. Settled(c) => Settled(c)'
      BY DEF SettledStays
    <3>3. Late(p, c) => Late(p, c)'
      BY <2>4 DEF Late
    <3> QED
      BY <2>4, <3>1, <3>2, <3>3 DEF Covered
  <2> QED
    BY <2>3, <2>4
<1>7. Mapped(p)'
  <2>1. p.pc \in {"reflect", "reflectRow", "forward"} => p.pc \in WithItem
    BY DEF WithItem, PullPc
  <2> QED
    BY <1>0, <2>1 DEF Sound, Mapped, SettledStays
<1> QED
  BY <1>4, <1>5, <1>6, <1>7 DEF Sound

SameFeed(p, q) == /\ q.wm = p.wm /\ q.todo = p.todo /\ q.top = p.top
                  /\ q.oldest = p.oldest /\ q.deferred = p.deferred

\* A pull goes on with the payment at hand.
LEMMA SoundItem ==
  ASSUME NEW p \in PullState, NEW q \in PullState, Sound(p)', p.pc \in WithItem,
         q.pc \in WithItem, SameFeed(p, q), q.cur = p.cur,
         q.pc \in {"reflect", "reflectRow", "forward"} => Settled(q.cur.id)'
  PROVE  Sound(q)'
<1>1. \A x \in WithItem : x # "idle" /\ x # "fetch"
  BY DEF WithItem
<1> QED
  BY <1>1 DEF Sound, Timely, Begun, Read, Mapped, Covered, Late, Reach, SameFeed

\* A pull is done with the payment at hand, which is settled.
LEMMA SoundDone ==
  ASSUME NEW p \in PullState, NEW q \in PullState, Sound(p)', p.pc \in WithItem,
         q.pc = "next", SameFeed(p, q), Settled(p.cur.id)'
  PROVE  Sound(q)'
<1>1. /\ \A x \in WithItem : x # "idle" /\ x # "fetch"
      /\ "next" \notin WithItem
  BY DEF WithItem
<1> QED
  BY <1>1 DEF Sound, Timely, Begun, Read, Mapped, Covered, Late, Reach, SameFeed

\* A pull defers the payment at hand, and oldest protects it.
LEMMA SoundDeferred ==
  ASSUME TypeInv', NEW p \in PullState, NEW q \in PullState, Shaped(p), Sound(p)',
         p.pc \in WithItem, q.pc = "next", q.wm = p.wm, q.todo = p.todo, q.top = p.top,
         q.deferred = p.deferred \cup {p.cur.id},
         q.oldest = IF p.oldest = 0 THEN p.cur.mod ELSE Smaller(p.oldest, p.cur.mod)
  PROVE  Sound(q)'
<1>0. /\ \A x \in WithItem : x # "idle" /\ x # "fetch"
      /\ "next" \notin WithItem
      /\ mod' \in [Charges -> Int] /\ p.oldest \in Int /\ p.cur.mod \in Int /\ p.cur.id \in Charges
  BY DEF WithItem, TypeInv, CloverTyped, PullState, Shaped, FeedItem
<1>1. Timely(q)' /\ Begun(q)' /\ Mapped(q)'
  BY <1>0 DEF Sound, Timely, Begun, Mapped
<1>2. Snapshot(p.cur)'
  BY <1>0 DEF Sound, Timely
<1>3. ASSUME NEW c \in Charges, InClover(c)' PROVE Covered(q, c)'
  <2>1. Covered(p, c)'
    BY <1>0, <1>3 DEF Sound, Read
  <2>2. CASE p.cur.id = c
    <3>1. q.oldest # 0 /\ q.oldest <= mod'[c]
      BY <1>0, <1>2, <2>2 DEF Snapshot, Smaller
    <3> QED
      BY <2>2, <3>1 DEF Covered
  <2>3. CASE c \in p.deferred /\ p.oldest # 0 /\ p.oldest <= mod'[c]
    <3>1. q.oldest # 0 /\ q.oldest <= mod'[c]
      BY <1>0, <1>2, <2>3 DEF Snapshot, Smaller
    <3> QED
      BY <2>3, <3>1 DEF Covered
  <2>4. CASE Late(p, c)'
    <3>1. Late(q, c)'
      BY <2>4 DEF Late, Reach
    <3> QED
      BY <3>1 DEF Covered
  <2> QED
    BY <2>1, <2>2, <2>3, <2>4 DEF Covered
<1> QED
  BY <1>1, <1>3 DEF Sound, Read

\* A pull takes the next payment of the feed, which is settled when it is not at hand then.
LEMMA SoundTaken ==
  ASSUME TypeInv', NEW p \in PullState, NEW q \in PullState, Sound(p)', p.pc = "next",
         NEW i \in p.todo, q.wm = p.wm, q.todo = p.todo \ {i}, q.top = Larger(p.top, i.mod),
         q.oldest = p.oldest, q.deferred = p.deferred,
         \/ q.pc = "next" /\ Settled(i.id)'
         \/ q.pc = "injected" /\ q.cur = i
         \/ q.pc = "reflect" /\ q.cur = i /\ Settled(i.id)'
  PROVE  Sound(q)'
<1>0. /\ "next" \notin WithItem /\ {"injected", "reflect"} \subseteq WithItem
      /\ mod' \in [Charges -> Int] /\ now' \in Int /\ p.top \in Int /\ p.wm \in Int
      /\ \A j \in p.todo : j.mod \in Int /\ Overlap \in Int
  BY TimesAssumption DEF WithItem, PullPc, TypeInv, CloverTyped, RestTyped, PullState, FeedItem
<1>1. p.wm <= now' /\ p.top <= now' /\ \A j \in p.todo : Snapshot(j)'
  BY DEF Sound, Timely
<1>2. Timely(q)'
  <2>1. q.top <= now'
    BY <1>0, <1>1 DEF Snapshot, Larger
  <2> QED
    BY <1>0, <1>1, <2>1 DEF Timely
<1>3. Begun(q)' /\ Mapped(q)'
  BY DEF Sound, Begun, Mapped
<1>4. ASSUME NEW c \in Charges, InClover(c)' PROVE Covered(q, c)'
  <2>1. Covered(p, c)'
    BY <1>4 DEF Sound, Read
  <2>2. CASE i.id = c
    BY <1>0, <2>2 DEF Covered
  <2>3. ASSUME NEW j \in p.todo, j # i, j.id = c PROVE Covered(q, c)'
    BY <2>3 DEF Covered
  <2>4. CASE Late(p, c)'
    <3>1. Late(q, c)'
      BY <1>0, <2>4 DEF Late, Reach, Larger
    <3> QED
      BY <3>1 DEF Covered
  <2> QED
    BY <1>0, <2>1, <2>2, <2>3, <2>4 DEF Covered
<1> QED
  BY <1>2, <1>3, <1>4 DEF Sound, Read

\* A pull that begins: what lies behind its watermark lies behind the cursor.
LEMMA SoundBegun ==
  ASSUME TypeInv, Bounded, NothingSkipped, NEW q, q = Fetching(Watermark)
  PROVE  Sound(q)
<1>0. /\ mod \in [Charges -> Int] /\ now \in Nat /\ cursor \in Int /\ MaxTime \in Nat
      /\ Overlap \in Nat /\ Lookback \in Nat /\ Lookback >= MaxTime
  BY TimesAssumption, BoundsAssumption DEF TypeInv, CloverTyped, RestTyped
<1>1. q.pc = "fetch" /\ q.wm = Watermark /\ q.top = 0 /\ q.todo = {}
  BY DEF Fetching
<1>2. Watermark <= now
  BY <1>0 DEF Watermark, Bounded
<1>3. Timely(q)
  BY <1>0, <1>1, <1>2 DEF Timely, WithItem
<1>4. Begun(q)
  <2>1. SUFFICES ASSUME NEW c \in Charges, InClover(c), mod[c] < Watermark - Overlap
                 PROVE  Settled(c)
    BY <1>1 DEF Begun
  <2>2. CASE cursor # 0
    BY <2>1, <2>2 DEF Watermark, NothingSkipped, Behind, Settled
  <2>3. CASE cursor = 0
    <3>1. Watermark <= 1
      BY <1>0, <2>3 DEF Watermark, Bounded
    <3>2. mod[c] >= 1
      BY <1>0, <2>1 DEF Bounded, InClover
    <3>3. Watermark \in Int
      BY <1>0 DEF Watermark
    <3> QED
      BY <1>0, <2>1, <3>1, <3>2, <3>3
  <2> QED
    BY <2>2, <2>3
<1> QED
  BY <1>1, <1>3, <1>4 DEF Sound, Read, Mapped

\* A pull that dies starts over with its watermark.
LEMMA SoundAgain ==
  ASSUME TypeInv', NEW p \in PullState, Sound(p)', p.pc # "idle", Bounded'
  PROVE  Sound(Fetching(p.wm))'
<1>0. now' \in Nat /\ p.wm \in Int
  BY DEF TypeInv, RestTyped, PullState
<1>1. /\ Fetching(p.wm).pc = "fetch" /\ Fetching(p.wm).wm = p.wm /\ Fetching(p.wm).top = 0
      /\ Fetching(p.wm).todo = {}
  BY DEF Fetching
<1> QED
  BY <1>0, <1>1 DEF Sound, Timely, Begun, Read, Mapped, WithItem, Bounded

\* A pull reads the feed: what it does not take from it is settled.
LEMMA SoundFetched ==
  ASSUME TypeInv, Bounded, UNCHANGED <<mod, now>>, NEW k \in Pulls, NEW T, Fetches(k, T),
         NEW p \in PullState, p = pull[k], Sound(p)', p.pc = "fetch",
         NEW q \in PullState, q.pc = "next", q.todo = T, q.wm = p.wm, q.top = p.top
  PROVE  Sound(q)'
<1>0. mod \in [Charges -> Int] /\ now \in Nat /\ p.wm \in Int /\ Overlap \in Nat
  BY TimesAssumption DEF TypeInv, CloverTyped, RestTyped, PullState
<1>1. ASSUME NEW i \in T PROVE Snapshot(i)'
  <2>1. PICK c \in Charges : i = [id |-> c, mod |-> mod[c], fate |-> fate[c]] /\ InClover(c)
    BY DEF Fetches, Feed
  <2> QED
    BY <1>0, <2>1 DEF Snapshot, Bounded, InClover
<1>2. Timely(q)' /\ Begun(q)' /\ Mapped(q)'
  BY <1>1 DEF Sound, Timely, Begun, Mapped, WithItem
<1>3. ASSUME NEW c \in Charges, InClover(c) PROVE Covered(q, c)'
  <2>1. CASE mod[c] < p.wm - Overlap
    <3>1. Settled(c)'
      BY <1>3, <2>1 DEF Sound, Begun, InClover
    <3> QED
      BY <3>1 DEF Covered
  <2>2. CASE mod[c] >= p.wm - Overlap
    <3> DEFINE i == [id |-> c, mod |-> mod[c], fate |-> fate[c]]
    <3>1. i \in Feed(k) /\ i.id = c
      BY <1>3, <2>2 DEF Feed
    <3>2. i \in T \/ c \in failed'
      BY <3>1 DEF Fetches
    <3> HIDE DEF i
    <3> QED
      BY <3>1, <3>2 DEF Covered, Settled
  <2> QED
    BY <1>0, <2>1, <2>2
<1>4. Read(q)'
  BY <1>3 DEF Read, InClover
<1> QED
  BY <1>2, <1>4 DEF Sound

LEMMA PullMoves ==
  ASSUME TypeInv, NEW k \in Pulls
  PROVE  /\ \A p : PullIs(k, p) => pull'[k] = p /\ \A j \in Pulls \ {k} : pull'[j] = pull[j]
         /\ \A pc : PullTo(k, pc) =>
              /\ pull'[k].pc = pc /\ SameFeed(pull[k], pull'[k]) /\ pull'[k].cur = pull[k].cur
              /\ \A j \in Pulls \ {k} : pull'[j] = pull[j]
         /\ NextItem(k) =>
              /\ pull'[k].pc = "next" /\ SameFeed(pull[k], pull'[k])
              /\ \A j \in Pulls \ {k} : pull'[j] = pull[j]
<1>0. pull \in [Pulls -> PullState] /\ pull[k] \in PullState
  BY DEF TypeInv, PullTyped
<1>1. ASSUME NEW p, PullIs(k, p)
      PROVE  pull'[k] = p /\ \A j \in Pulls \ {k} : pull'[j] = pull[j]
  BY <1>0, <1>1 DEF PullIs
<1>2. ASSUME NEW pc, PullTo(k, pc)
      PROVE  /\ pull'[k].pc = pc /\ SameFeed(pull[k], pull'[k]) /\ pull'[k].cur = pull[k].cur
             /\ \A j \in Pulls \ {k} : pull'[j] = pull[j]
  <2>1. /\ pull'[k] = [pull[k] EXCEPT !.pc = pc]
        /\ \A j \in Pulls \ {k} : pull'[j] = pull[j]
    BY <1>1, <1>2 DEF PullTo
  <2> QED
    BY <1>0, <2>1 DEF PullState, SameFeed
<1>3. ASSUME NextItem(k)
      PROVE  /\ pull'[k].pc = "next" /\ SameFeed(pull[k], pull'[k])
             /\ \A j \in Pulls \ {k} : pull'[j] = pull[j]
  <2>1. /\ pull'[k] = [pull[k] EXCEPT !.pc = "next", !.cur = None, !.row = None, !.sum = {}]
        /\ \A j \in Pulls \ {k} : pull'[j] = pull[j]
    BY <1>1, <1>3 DEF NextItem
  <2> QED
    BY <1>0, <2>1 DEF PullState, SameFeed
<1> QED
  BY <1>1, <1>2, <1>3

\* The steps of a pull with a payment at hand: it keeps it, settles it or defers it.
Keeps(k)  == /\ pull'[k].pc \in WithItem /\ SameFeed(pull[k], pull'[k])
             /\ pull'[k].cur = pull[k].cur
Ends(k)   == pull'[k].pc = "next" /\ SameFeed(pull[k], pull'[k])
Defers(k) ==
  LET p == pull[k]  q == pull'[k] IN
  /\ q.pc = "next" /\ q.wm = p.wm /\ q.todo = p.todo /\ q.top = p.top
  /\ q.deferred = p.deferred \cup {p.cur.id}
  /\ q.oldest = IF p.oldest = 0 THEN p.cur.mod ELSE Smaller(p.oldest, p.cur.mod)

LEMMA ItemSteps ==
  ASSUME TypeInv, NEW k \in Pulls, Sound(pull[k]), SettledStays, NEW c \in Charges,
         pull[k].pc \in WithItem => c = Id(k),
         PullStep(k), ~BeginPull(k), ~FetchFeed(k), ~LookUpMap(k), ~ReportPull(k)
  PROVE  /\ pull[k].pc \in WithItem
         /\ \A j \in Pulls \ {k} : pull'[j] = pull[j]
         /\ UNCHANGED cursor
         /\ \/ Keeps(k) /\ (pull'[k].pc \in {"reflect", "reflectRow", "forward"} => Settled(c)')
            \/ Ends(k) /\ Settled(c)'
            \/ Defers(k)
<1> USE PullMoves
<1>0. /\ \A x \in {"reflect", "reflectRow", "injected", "antiloop", "order", "unlinked", "link",
                   "linkMap", "upsert", "sum", "patch", "map", "forward"} : x \in WithItem
      /\ pull[k].pc \in WithItem => pull[k].cur \in FeedItem
      /\ pull[k].pc \in WithRow => pull[k].row \in Rows
      /\ pull[k].pc \in {"reflect", "reflectRow", "forward"} => Settled(Id(k))
      /\ pull[k] \in PullState /\ (Settled(c) => Settled(c)')
  BY DEF WithItem, PullPc, TypeInv, PullShape, PullTyped, Shaped, Sound, Mapped, Id, SettledStays
<1>1. CASE ReflectInMap(k)
  BY <1>0, <1>1 DEF ReflectInMap, In, Keeps
<1>2. CASE ReflectInRow(k)
  BY <1>0, <1>2 DEF ReflectInRow, In, Ends
<1>3. CASE LookUpInjected(k)
  <2>1. CASE PullTo(k, "order")
    <3>1. UNCHANGED cursor /\ pull[k].pc \in WithItem
      BY <1>0, <1>3 DEF LookUpInjected, In
    <3>2. Keeps(k) /\ pull'[k].pc = "order" /\ \A j \in Pulls \ {k} : pull'[j] = pull[j]
      BY <1>0, <2>1 DEF Keeps
    <3> QED
      BY <3>1, <3>2
  <2>2. ASSUME NEW x, PullIs(k, [pull[k] EXCEPT !.pc = "antiloop", !.row = x])
        PROVE  Keeps(k) /\ pull'[k].pc = "antiloop" /\ \A j \in Pulls \ {k} : pull'[j] = pull[j]
    <3>1. /\ pull'[k] = [pull[k] EXCEPT !.pc = "antiloop", !.row = x]
          /\ \A j \in Pulls \ {k} : pull'[j] = pull[j]
      BY <2>2
    <3> QED
      BY <1>0, <3>1 DEF Keeps, SameFeed, PullState
  <2> QED
    BY <1>0, <1>3, <2>1, <2>2 DEF LookUpInjected, In
<1>4. CASE MapInjected(k)
  <2>1. /\ pull[k].cur \in FeedItem /\ pull[k].row \in Rows /\ RecordInMap(k) /\ NextItem(k)
        /\ UNCHANGED <<orphaned, cursor>> /\ c = Id(k) /\ pull[k].pc \in WithItem
    BY <1>0, <1>4 DEF MapInjected, In, WithRow
  <2> QED
    BY <2>1, RecordSettles DEF Ends
<1>5. CASE FindOrder(k)
  <2> DEFINE o == IF pull[k].oldest = 0 THEN Item(k).mod ELSE Smaller(pull[k].oldest, Item(k).mod)
             p == [pull[k] EXCEPT !.pc = "next", !.cur = None, !.deferred = @ \cup {Id(k)},
                                  !.oldest = o]
  <2>1. CASE PullIs(k, p)
    <3>1. pull'[k] = p /\ \A j \in Pulls \ {k} : pull'[j] = pull[j]
      BY <2>1
    <3>2. Defers(k)
      BY <1>0, <3>1 DEF Defers, PullState, Item, Id
    <3> QED
      BY <1>0, <1>5, <3>1, <3>2 DEF FindOrder, In
  <2>2. CASE PullTo(k, "upsert") \/ PullTo(k, "unlinked")
    BY <1>0, <1>5, <2>2 DEF FindOrder, In, Keeps
  <2>3. PullIs(k, p) \/ PullTo(k, "upsert") \/ PullTo(k, "unlinked")
    <3>1. CASE Id(k) \in Staff
      BY <1>5, <3>1 DEF FindOrder
    <3>2. CASE Id(k) \notin Staff
      BY <1>5, <3>2 DEF FindOrder
    <3> QED
      BY <3>1, <3>2
  <2> HIDE DEF p
  <2> QED
    BY <2>1, <2>2, <2>3
<1>6. CASE FindUnlinked(k)
  <2>1. CASE PullTo(k, "upsert")
    <3>1. UNCHANGED cursor /\ pull[k].pc \in WithItem
      BY <1>0, <1>6 DEF FindUnlinked, In
    <3>2. Keeps(k) /\ pull'[k].pc = "upsert" /\ \A j \in Pulls \ {k} : pull'[j] = pull[j]
      BY <1>0, <2>1 DEF Keeps
    <3> QED
      BY <3>1, <3>2
  <2>2. ASSUME NEW x, PullIs(k, [pull[k] EXCEPT !.pc = "link", !.row = x])
        PROVE  Keeps(k) /\ pull'[k].pc = "link" /\ \A j \in Pulls \ {k} : pull'[j] = pull[j]
    <3>1. /\ pull'[k] = [pull[k] EXCEPT !.pc = "link", !.row = x]
          /\ \A j \in Pulls \ {k} : pull'[j] = pull[j]
      BY <2>2
    <3> QED
      BY <1>0, <3>1 DEF Keeps, SameFeed, PullState
  <2> QED
    BY <1>0, <1>6, <2>1, <2>2 DEF FindUnlinked, In
<1>7. CASE LinkUnlinked(k)
  BY <1>0, <1>7 DEF LinkUnlinked, In, Keeps
<1>8. CASE MapLinked(k)
  <2>1. /\ pull[k].cur \in FeedItem /\ pull[k].row \in Rows /\ RecordInMap(k) /\ NextItem(k)
        /\ UNCHANGED <<orphaned, cursor>> /\ c = Id(k) /\ pull[k].pc \in WithItem
    BY <1>0, <1>8 DEF MapLinked, In, WithRow
  <2> QED
    BY <2>1, RecordSettles DEF Ends
<1>9. CASE RecordPayment(k)
  <2>0. c = Id(k) /\ pull[k].pc \in WithItem /\ UNCHANGED cursor
    BY <1>0, <1>9 DEF RecordPayment, In
  <2>1. CASE failed' = failed \cup {Id(k)} /\ NextItem(k)
    BY <2>0, <2>1 DEF Ends, Settled
  <2>2. ASSUME NEW x, NEW pc \in {"map", "sum"},
               PullIs(k, [pull[k] EXCEPT !.row = x, !.pc = pc])
        PROVE  Keeps(k) /\ pull'[k].pc = pc /\ \A j \in Pulls \ {k} : pull'[j] = pull[j]
    <3>1. /\ pull'[k] = [pull[k] EXCEPT !.row = x, !.pc = pc]
          /\ \A j \in Pulls \ {k} : pull'[j] = pull[j]
      BY <2>2
    <3> QED
      BY <1>0, <3>1 DEF Keeps, SameFeed, PullState
  <2> DEFINE c0 == Id(k)
             x0 == IF RowsWith(c0) = {} THEN c0 ELSE CHOOSE x \in RowsWith(c0) : TRUE
             pc0 == IF Item(k).fate = "voided" THEN "map" ELSE "sum"
  <2>3. \/ PullIs(k, [pull[k] EXCEPT !.row = x0, !.pc = pc0])
        \/ failed' = failed \cup {Id(k)} /\ NextItem(k)
    BY <1>9 DEF RecordPayment
  <2>4. pc0 \in {"map", "sum"}
    OBVIOUS
  <2> HIDE DEF x0, pc0
  <2> QED
    BY <2>0, <2>1, <2>2, <2>3, <2>4
<1>10. CASE SumPayments(k)
  <2>1. CASE PullTo(k, "patch")
    <3>1. UNCHANGED cursor /\ pull[k].pc \in WithItem
      BY <1>0, <1>10 DEF SumPayments, In
    <3>2. Keeps(k) /\ pull'[k].pc = "patch" /\ \A j \in Pulls \ {k} : pull'[j] = pull[j]
      BY <1>0, <2>1 DEF Keeps
    <3> QED
      BY <3>1, <3>2
  <2>2. CASE PullIs(k, [pull[k] EXCEPT !.pc = "patch", !.sum = Summed(k)])
    <3>1. /\ pull'[k] = [pull[k] EXCEPT !.pc = "patch", !.sum = Summed(k)]
          /\ \A j \in Pulls \ {k} : pull'[j] = pull[j]
      BY <2>2
    <3>2. Keeps(k) /\ pull'[k].pc = "patch"
      BY <1>0, <3>1 DEF Keeps, SameFeed, PullState
    <3> QED
      BY <1>0, <1>10, <3>1, <3>2 DEF SumPayments, In
  <2> QED
    BY <1>10, <2>1, <2>2 DEF SumPayments
<1>11. CASE PatchOrder(k)
  BY <1>0, <1>11 DEF PatchOrder, In, Keeps
<1>12. CASE MapRecorded(k)
  <2>1. /\ pull[k].cur \in FeedItem /\ pull[k].row \in Rows /\ RecordInMap(k)
        /\ UNCHANGED <<orphaned, cursor>> /\ c = Id(k) /\ pull[k].pc \in WithItem
        /\ NextItem(k) \/ PullTo(k, "forward")
    BY <1>0, <1>12 DEF MapRecorded, In, WithRow
  <2>2. Settled(c)'
    BY <2>1, RecordSettles
  <2> QED
    BY <1>0, <2>1, <2>2 DEF Ends, Keeps
<1>13. CASE ForwardToOmnivore(k)
  BY <1>0, <1>13 DEF ForwardToOmnivore, In, Ends
<1> QED
  BY <1>1, <1>2, <1>3, <1>4, <1>5, <1>6, <1>7, <1>8, <1>9, <1>10, <1>11, <1>12, <1>13
  DEF PullStep

\* While the cursor stays, what lies behind it is settled.
LEMMA SkipStill ==
  ASSUME TypeInv, TypeInv', SkipInv, Onward, SettledStays, UNCHANGED cursor,
         \A k \in Pulls : Sound(pull[k])'
  PROVE  SkipInv'
<1>0. /\ mod \in [Charges -> Int] /\ mod' \in [Charges -> Int] /\ now \in Nat /\ cursor \in Int
      /\ Overlap \in Nat /\ MaxTime \in Nat /\ Bounded
  BY TimesAssumption, BoundsAssumption DEF TypeInv, CloverTyped, RestTyped, SkipInv
<1>1. now' <= MaxTime \/ now' = 1
  BY <1>0 DEF Bounded, Onward
<1>2. now' >= now /\ now' \in Nat
  BY <1>0 DEF Onward
<1>3. \A c \in Charges : mod'[c] >= 0 /\ mod'[c] <= now'
  BY <1>0, <1>2 DEF Bounded, Onward
<1>4. Bounded'
  BY <1>0, <1>1, <1>2, <1>3 DEF Bounded
<1>5. ASSUME NEW c \in Charges, Behind(c)' PROVE Settled(c)'
  <2>1. mod'[c] = mod[c]
    BY <1>0, <1>2, <1>5 DEF Onward, Behind, Bounded
  <2>2. Settled(c)
    BY <1>5, <2>1 DEF SkipInv, NothingSkipped, Behind, InClover, Settled
  <2> QED
    BY <2>2 DEF SettledStays
<1>6. NothingSkipped'
  BY <1>5 DEF NothingSkipped, Settled
<1> QED
  BY <1>4, <1>6 DEF SkipInv

LEMMA SkipInit == Init => SkipInv
<1> SUFFICES ASSUME Init PROVE SkipInv
  OBVIOUS
<1>1. Bounded
  BY DEF Init, Bounded
<1>2. NothingSkipped
  BY DEF Init, NothingSkipped, Behind, InClover
<1>3. \A k \in Pulls : pull[k].pc = "idle"
  BY DEF Init, Resting
<1> QED
  BY <1>1, <1>2, <1>3 DEF SkipInv, Sound, Timely, Begun, Read, Mapped, WithItem

\* The report of a pull: all that lies behind the new cursor is settled.
LEMMA SkipReported ==
  ASSUME TypeInv, TypeInv', SkipInv, Onward, SettledStays, NEW k \in Pulls, ReportPull(k)
  PROVE  SkipInv'
<1> DEFINE p == pull[k]
<1>0. /\ mod \in [Charges -> Int] /\ now \in Nat /\ cursor \in Int /\ Overlap \in Nat
      /\ Skew \in Nat /\ p.wm \in Int /\ p.top \in Int /\ p.oldest \in Int /\ Bounded /\ Sound(p)
  BY TimesAssumption DEF TypeInv, CloverTyped, RestTyped, SkipInv, PullTyped, PullState
<1>1. /\ p.pc = "next" /\ p.todo = {} /\ PullIs(k, Resting) /\ UNCHANGED <<mod, now, map, failed>>
      /\ \/ UNCHANGED <<cursor, orphaned>>
         \/ /\ cursor' = Larger(cursor, NewCursor(k))
            /\ orphaned' = orphaned \cup (IF Protected(k) THEN {} ELSE p.deferred)
  BY DEF ReportPull, In, pullFrame, cloverVars
<1>2. \A j \in Pulls : Sound(pull[j])'
  <2>1. ASSUME NEW j \in Pulls \ {k} PROVE Sound(pull[j])'
    <3>1. PICK q : q = pull[j]
      OBVIOUS
    <3>2. q \in PullState /\ Shaped(q) /\ Sound(q)
      BY <3>1 DEF TypeInv, PullTyped, PullShape, SkipInv
    <3>3. Sound(q)'
      BY <1>0, <3>2, SoundStill
    <3>4. pull'[j] = q
      BY <1>1, <3>1, PullMoves
    <3> QED
      BY <3>3, <3>4
  <2>2. pull'[k] = Resting
    BY <1>1, PullMoves
  <2>3. Sound(pull[k])'
    BY <2>2 DEF Sound, Timely, Begun, Read, Mapped, Resting, WithItem
  <2> QED
    BY <2>1, <2>3
<1>3. CASE UNCHANGED <<cursor, orphaned>>
  BY <1>2, <1>3, SkipStill
<1>4. CASE /\ cursor' = Larger(cursor, NewCursor(k))
           /\ orphaned' = orphaned \cup (IF Protected(k) THEN {} ELSE p.deferred)
  <2> DEFINE guarded == IF Protected(k) THEN Smaller(Reach(p), p.oldest - 1) ELSE Reach(p)
  <2>1. Reach(p) \in Int /\ Reach(p) <= now
    BY <1>0, <1>1 DEF Reach, Larger, Sound, Timely
  <2>2. guarded \in Int /\ guarded <= Reach(p) /\ (Protected(k) => guarded <= p.oldest - 1)
    BY <1>0, <2>1 DEF Smaller
  <2>3. NewCursor(k) = Larger(0, Smaller(guarded, now + Skew))
    BY DEF NewCursor, Reach
  <2> HIDE DEF guarded
  <2>4. /\ NewCursor(k) \in Int /\ NewCursor(k) >= 0 /\ NewCursor(k) <= now
        /\ NewCursor(k) = 0 \/ NewCursor(k) <= guarded
    BY <1>0, <2>1, <2>2, <2>3 DEF Larger, Smaller
  <2>5. cursor' >= 0 /\ cursor' <= now /\ (cursor' = cursor \/ cursor' = NewCursor(k))
    BY <1>0, <1>4, <2>4 DEF Larger, Bounded
  <2>6. Bounded'
    BY <1>0, <1>1, <2>5 DEF Bounded
  <2>7. ASSUME NEW c \in Charges, Behind(c)' PROVE Settled(c)'
    <3>0. InClover(c) /\ mod[c] < cursor' - Overlap
      BY <1>1, <2>7 DEF Behind, InClover
    <3>1. CASE cursor' = cursor
      <4>1. Settled(c)
        BY <3>0, <3>1 DEF SkipInv, NothingSkipped, Behind, Settled
      <4> QED
        BY <4>1 DEF SettledStays
    <3>2. CASE cursor' = NewCursor(k)
      <4>1. mod[c] >= 1
        BY <1>0, <3>0 DEF Bounded, InClover
      <4>2. mod[c] < guarded - Overlap
        BY <1>0, <2>2, <2>4, <3>0, <3>2, <4>1
      <4>3. Covered(p, c)
        BY <1>0, <1>1, <3>0 DEF Sound, Read
      <4>4. ~Late(p, c)
        BY <1>0, <2>1, <2>2, <4>2 DEF Late
      <4>5. CASE Settled(c)
        BY <4>5 DEF SettledStays
      <4>6. CASE c \in p.deferred /\ p.oldest # 0 /\ p.oldest <= mod[c]
        <5>1. ~Protected(k)
          BY <1>0, <2>2, <4>2, <4>6
        <5> QED
          BY <1>4, <4>6, <5>1 DEF Settled
      <4> QED
        BY <1>1, <4>3, <4>4, <4>5, <4>6 DEF Covered, WithItem
    <3> QED
      BY <2>5, <3>1, <3>2
  <2>8. NothingSkipped'
    BY <2>7 DEF NothingSkipped, Settled
  <2> QED
    BY <1>2, <2>6, <2>8 DEF SkipInv
<1> QED
  BY <1>1, <1>3, <1>4

\* A step of a pull that leaves the cursor alone.
LEMMA SkipPull ==
  ASSUME TypeInv, TypeInv', SkipInv, Onward, SettledStays, NEW k \in Pulls, PullStep(k),
         ~ReportPull(k)
  PROVE  SkipInv'
<1>0. PICK p \in PullState, q \in PullState :
        p = pull[k] /\ q = pull'[k] /\ Shaped(p) /\ Shaped(q) /\ Sound(p)
  BY DEF TypeInv, PullTyped, PullShape, SkipInv
<1>1. Sound(p)' /\ Bounded /\ NothingSkipped
  BY <1>0, SoundStill DEF SkipInv
<1>2. ASSUME Sound(q)', UNCHANGED cursor, \A j \in Pulls \ {k} : pull'[j] = pull[j]
      PROVE  SkipInv'
  <2>1. ASSUME NEW j \in Pulls \ {k} PROVE Sound(pull[j])'
    <3>1. PICK r : r = pull[j]
      OBVIOUS
    <3>2. r \in PullState /\ Shaped(r) /\ Sound(r)
      BY <3>1 DEF TypeInv, PullTyped, PullShape, SkipInv
    <3>3. Sound(r)'
      BY <1>1, <3>2, SoundStill
    <3>4. pull'[j] = r
      BY <1>2, <3>1
    <3> QED
      BY <3>3, <3>4
  <2>2. Sound(pull[k])'
    BY <1>0, <1>2
  <2>3. \A j \in Pulls : Sound(pull[j])'
    BY <2>1, <2>2
  <2> QED
    BY <1>2, <2>3, SkipStill
<1>3. CASE BeginPull(k)
  <2>1. q = Fetching(Watermark) /\ UNCHANGED cursor /\ \A j \in Pulls \ {k} : pull'[j] = pull[j]
    BY <1>0, <1>3, PullMoves DEF BeginPull
  <2>2. Sound(q)
    BY <1>1, <2>1, SoundBegun
  <2>3. Sound(q)'
    BY <1>0, <1>1, <2>2, SoundStill
  <2> QED
    BY <1>2, <2>1, <2>3
<1>4. CASE FetchFeed(k)
  <2>0. PICK T : Fetches(k, T)
    BY <1>4, FetchesSome
  <2>1. /\ q = [p EXCEPT !.pc = "next", !.todo = T]
        /\ \A j \in Pulls \ {k} : pull'[j] = pull[j]
    BY <1>0, <2>0, PullMoves DEF Fetches
  <2>2. q.pc = "next" /\ q.todo = T /\ q.wm = p.wm /\ q.top = p.top
    BY <2>1 DEF PullState
  <2>3. p.pc = "fetch" /\ UNCHANGED <<cursor, mod, now>>
    BY <1>0, <1>4 DEF FetchFeed, In, pullFrame, cloverVars
  <2>5. Sound(q)'
    BY <1>0, <1>1, <2>0, <2>2, <2>3, SoundFetched
  <2> QED
    BY <1>2, <2>1, <2>3, <2>5
<1>5. CASE LookUpMap(k)
  <2>1. PICK i \in p.todo :
          LET rest == [p EXCEPT !.todo = @ \ {i}, !.top = Larger(@, i.mod)]
              entry == map[i.id]
          IN \/ entry # None /\ PullIs(k, rest)
             \/ /\ entry # None
                /\ PullIs(k, [rest EXCEPT !.pc = "reflect", !.cur = i, !.row = entry.pay])
             \/ PullIs(k, [rest EXCEPT !.pc = "injected", !.cur = i])
    BY <1>0, <1>5 DEF LookUpMap
  <2> DEFINE rest == [p EXCEPT !.todo = @ \ {i}, !.top = Larger(@, i.mod)]
             r1 == [rest EXCEPT !.pc = "reflect", !.cur = i, !.row = map[i.id].pay]
             r2 == [rest EXCEPT !.pc = "injected", !.cur = i]
  <2>2. /\ UNCHANGED cursor /\ p.pc = "next" /\ \A j \in Pulls \ {k} : pull'[j] = pull[j]
        /\ (map[i.id] # None /\ q = rest) \/ (map[i.id] # None /\ q = r1) \/ q = r2
    BY <1>0, <1>5, <2>1, PullMoves DEF LookUpMap, In
  <2>3. i \in FeedItem /\ i.id \in Charges
    BY <1>0 DEF PullState, FeedItem
  <2>4. map[i.id] # None => Settled(i.id)'
    BY <2>3 DEF SettledStays, Settled
  <2>5. /\ q.wm = p.wm /\ q.todo = p.todo \ {i} /\ q.top = Larger(p.top, i.mod)
        /\ q.oldest = p.oldest /\ q.deferred = p.deferred
    BY <2>2 DEF PullState
  <2>6. \/ q.pc = "next" /\ Settled(i.id)'
        \/ q.pc = "injected" /\ q.cur = i
        \/ q.pc = "reflect" /\ q.cur = i /\ Settled(i.id)'
    BY <2>2, <2>4 DEF PullState
  <2>7. Sound(q)'
    BY <1>1, <2>2, <2>5, <2>6, SoundTaken
  <2> QED
    BY <1>2, <2>2, <2>7
<1>6. CASE ~BeginPull(k) /\ ~FetchFeed(k) /\ ~LookUpMap(k)
  <2>0. PICK c \in Charges : p.pc \in WithItem => c = p.cur.id
    <3>1. CASE p.pc \in WithItem
      <4>1. p.cur.id \in Charges
        BY <1>0, <3>1 DEF Shaped, FeedItem
      <4> QED
        BY <4>1
    <3>2. CASE p.pc \notin WithItem /\ Charges # {}
      BY <3>2
    <3>3. CASE Charges = {}
      BY <1>6, <3>3, <1>0 DEF PullStep, ReflectInMap, ReflectInRow, LookUpInjected, MapInjected,
         FindOrder, FindUnlinked, LinkUnlinked, MapLinked, RecordPayment, SumPayments,
         PatchOrder, MapRecorded, ForwardToOmnivore, In, Shaped, WithItem, PullPc, FeedItem
    <3> QED
      BY <3>1, <3>2, <3>3
  <2>1. /\ pull[k].pc \in WithItem
        /\ \A j \in Pulls \ {k} : pull'[j] = pull[j]
        /\ UNCHANGED cursor
        /\ \/ Keeps(k) /\ (pull'[k].pc \in {"reflect", "reflectRow", "forward"} => Settled(c)')
           \/ Ends(k) /\ Settled(c)'
           \/ Defers(k)
    BY <1>0, <1>6, <2>0, ItemSteps DEF Id
  <2>2. p.pc \in WithItem /\ c = p.cur.id
    BY <1>0, <2>0, <2>1
  <2>3. CASE Keeps(k) /\ (pull'[k].pc \in {"reflect", "reflectRow", "forward"} => Settled(c)')
    <3>1. /\ q.pc \in WithItem /\ SameFeed(p, q) /\ q.cur = p.cur
          /\ q.pc \in {"reflect", "reflectRow", "forward"} => Settled(c)'
      BY <1>0, <2>3 DEF Keeps
    <3>2. Sound(q)'
      BY <1>1, <2>2, <3>1, SoundItem
    <3> QED
      BY <1>2, <2>1, <3>2
  <2>4. CASE Ends(k) /\ Settled(c)'
    <3>1. q.pc = "next" /\ SameFeed(p, q) /\ Settled(p.cur.id)'
      BY <1>0, <2>2, <2>4 DEF Ends
    <3>2. Sound(q)'
      BY <1>1, <2>2, <3>1, SoundDone
    <3> QED
      BY <1>2, <2>1, <3>2
  <2>5. CASE Defers(k)
    <3>1. /\ q.pc = "next" /\ q.wm = p.wm /\ q.todo = p.todo /\ q.top = p.top
          /\ q.deferred = p.deferred \cup {p.cur.id}
          /\ q.oldest = IF p.oldest = 0 THEN p.cur.mod ELSE Smaller(p.oldest, p.cur.mod)
      BY <1>0, <2>5 DEF Defers
    <3>2. Sound(q)'
      BY <1>0, <1>1, <2>2, <3>1, SoundDeferred
    <3> QED
      BY <1>2, <2>1, <3>2
  <2> QED
    BY <2>1, <2>3, <2>4, <2>5
<1> QED
  BY <1>3, <1>4, <1>5, <1>6

LEMMA SkipNext ==
  ASSUME Corrupt = {}
  PROVE  TypeInv /\ TypeInv' /\ SkipInv /\ [Next]_vars => SkipInv'
<1> SUFFICES ASSUME TypeInv, TypeInv', SkipInv, [Next]_vars PROVE SkipInv'
  OBVIOUS
<1>0. Onward /\ SettledStays
  BY AllOnward, AllSettledStays DEF SkipInv
<1>1. ASSUME UNCHANGED <<pull, cursor>> PROVE SkipInv'
  <2>1. ASSUME NEW k \in Pulls PROVE Sound(pull[k])'
    <3>1. PICK p : p = pull[k]
      OBVIOUS
    <3>2. p \in PullState /\ Shaped(p) /\ Sound(p)
      BY <3>1 DEF TypeInv, PullTyped, PullShape, SkipInv
    <3>3. Sound(p)'
      BY <1>0, <3>2, SoundStill DEF SkipInv
    <3> QED
      BY <1>1, <3>1, <3>3
  <2> QED
    BY <1>0, <1>1, <2>1, SkipStill
<1>2. ASSUME NEW k \in Pulls, PullStep(k) PROVE SkipInv'
  BY <1>0, <1>2, SkipPull, SkipReported
<1>3. ASSUME NEW k \in Pulls, pull[k].pc # "idle", UNCHANGED <<cursor, now, mod>>,
             pull' = [pull EXCEPT ![k] = Fetching(pull[k].wm)]
      PROVE  SkipInv'
  <2>1. ASSUME NEW j \in Pulls PROVE Sound(pull[j])'
    <3>1. PICK p : p = pull[j]
      OBVIOUS
    <3>2. p \in PullState /\ Shaped(p) /\ Sound(p) /\ Bounded /\ Bounded'
      BY <1>3, <3>1 DEF TypeInv, PullTyped, PullShape, SkipInv, Bounded
    <3>3. Sound(p)'
      BY <1>0, <3>2, SoundStill
    <3>4. CASE j = k
      <4>1. Sound(Fetching(p.wm))'
        BY <1>3, <3>1, <3>2, <3>3, <3>4, SoundAgain
      <4>2. pull'[j] = Fetching(p.wm)
        BY <1>3, <3>1, <3>4 DEF TypeInv, PullTyped
      <4> QED
        BY <4>1, <4>2
    <3>5. CASE j # k
      <4>1. pull'[j] = p
        BY <1>3, <3>1, <3>5 DEF TypeInv, PullTyped
      <4> QED
        BY <3>3, <4>1
    <3> QED
      BY <3>4, <3>5
  <2> QED
    BY <1>0, <1>3, <2>1, SkipStill
<1>4. CASE Crash
  <2>1. /\ UNCHANGED <<cursor, now, mod>>
        /\ \/ UNCHANGED pull
           \/ \E k \in Pulls : /\ pull[k].pc # "idle"
                               /\ pull' = [pull EXCEPT ![k] = Fetching(pull[k].wm)]
    BY <1>4 DEF Crash, cloverVars
  <2> QED
    BY <1>1, <1>3, <2>1
<1>5. ASSUME NEW e \in Execs, InjectionStep(e) PROVE UNCHANGED <<pull, cursor>>
  BY <1>5 DEF InjectionStep, ReadPayment, ReadOrderInClover, PostPayment, WritePosId,
     WriteMapRow, CountSiblings, ClearIssue, EndInjection, injectionFrame
<1>6. ASSUME \/ UNCHANGED vars
             \/ \E c \in Staff : StaffPays(c)
             \/ \E c \in Charges : Changes(c)
             \/ \E m \in Mcm : LandLate(m) \/ Revive(m)
             \/ \E o \in Orders : OrderLinked(o)
             \/ Tick
             \/ \E e \in Execs, m \in Mcm : Start(e, m)
      PROVE  UNCHANGED <<pull, cursor>>
  BY <1>6 DEF vars, StaffPays, Changes, LandLate, Revive, OrderLinked, Tick, Start
<1> QED
  BY <1>1, <1>2, <1>4, <1>5, <1>6 DEF Next

\* When Clover's clock is right and a row is visible within Overlap of its stamp, no pull leaves
\* a Clover payment behind the cursor unseen, whatever overlaps, crashes or fails: it is in the
\* map, or a pull gave it up knowingly.
THEOREM NoneSkipped == Corrupt = {} => (Spec => []NothingSkipped)
<1> SUFFICES ASSUME Corrupt = {} PROVE Spec => []NothingSkipped
  OBVIOUS
<1>1. Init => SkipInv
  BY SkipInit
<1>2. TypeInv /\ TypeInv' /\ SkipInv /\ [Next]_vars => SkipInv'
  BY SkipNext
<1>3. SkipInv => NothingSkipped
  BY DEF SkipInv
<1> QED
  BY <1>1, <1>2, <1>3, Typed, PTL DEF Spec

(* NeverTwice *)

\* A payment's pos_id is a POST in Clover for the payment's order, and it has one when its row
\* is voided; no two payments have the same.
Linked(m) == /\ posId[m] # None =>
                  posId[m] \in Posts /\ InClover(posId[m]) /\ OrderIn(posId[m]) = OrderOf[m]
             /\ rowStatus[m] = "voided" => posId[m] # None
Apart     == \A m, n \in Mcm : posId[m] # None /\ posId[m] = posId[n] => m = n

\* What an execution is about to write, and what a pull has read, is in Clover; a pull links
\* POSTs of MCM only, to payments of their order.
Holds(e)  == ex[e].pc = "pos" => InClover(ex[e].charge)
Known(p)  == /\ \A i \in p.todo : InClover(i.id)
             /\ p.pc \in WithItem => InClover(p.cur.id)
             /\ p.pc \in {"unlinked", "link"} => p.cur.id \in Posts
             /\ p.pc = "link" => OrderOf[p.row] = OrderIn(p.cur.id)

LinkInv == /\ (\A m \in Mcm : Linked(m)) /\ Apart
           /\ (\A e \in Execs : Holds(e)) /\ (\A k \in Pulls : Known(pull[k]))

LEMMA LinkInit == Init => LinkInv
<1> SUFFICES ASSUME Init PROVE LinkInv
  OBVIOUS
<1>1. \A m \in Mcm : Linked(m)
  BY DEF Init, Linked, Rows
<1>2. \A e \in Execs : Holds(e)
  BY DEF Init, Holds, Idle
<1>3. \A k \in Pulls : Known(pull[k])
  BY DEF Init, Known, Resting, WithItem
<1> QED
  BY <1>1, <1>2, <1>3 DEF Init, LinkInv, Apart

LEMMA Landed ==
  ASSUME TypeInv, NEW m \in Mcm, NEW c \in Mine(m), NEW a, Land(m, c, a)
  PROVE  InClover(c)' /\ \A d \in Charges : InClover(d) => InClover(d)'
<1>1. PICK t \in Stamps(c) : mod' = [mod EXCEPT ![c] = t]
  BY DEF Land
<1>2. t # 0 /\ c \in Charges
  BY StampsPositive, ChargeTypes
<1> QED
  BY <1>1, <1>2 DEF InClover, TypeInv, CloverTyped

\* No payment leaves Clover.
LEMMA Grown ==
  ASSUME TypeInv, Stamped, [Next]_vars, NEW d \in Charges, InClover(d)
  PROVE  InClover(d)'
<1>0. mod \in [Charges -> Int] /\ now \in Nat
  BY DEF TypeInv, CloverTyped, RestTyped
<1>1. CASE UNCHANGED mod
  BY <1>1 DEF InClover
<1>2. ASSUME NEW c \in Staff, StaffPays(c) PROVE InClover(d)'
  <2>1. PICK t \in Stamps(c) : mod' = [mod EXCEPT ![c] = t]
    BY <1>2 DEF StaffPays
  <2> QED
    BY <1>0, <2>1, StampsPositive DEF InClover
<1>3. ASSUME NEW c \in Charges, Changes(c) PROVE InClover(d)'
  <2>1. mod' = [mod EXCEPT ![c] = Larger(now, mod[c])] /\ mod[c] > 0
    BY <1>0, <1>3 DEF Changes, Stamped, InClover
  <2>2. Larger(now, mod[c]) # 0
    BY <1>0, <2>1 DEF Larger
  <2> QED
    BY <1>0, <2>1, <2>2 DEF InClover
<1>4. ASSUME NEW m \in Mcm, LandLate(m) PROVE InClover(d)'
  BY <1>4, Landed DEF LandLate
<1>5. ASSUME NEW e \in Execs, InjectionStep(e) PROVE InClover(d)'
  <2>1. CASE PostPayment(e)
    <3>1. ex[e].job \in Mcm
      BY <2>1 DEF PostPayment, At, TypeInv, ExShape
    <3> QED
      BY <1>1, <2>1, <3>1, Landed DEF PostPayment
  <2>2. CASE ~PostPayment(e)
    BY <1>1, <1>5, <2>2 DEF InjectionStep, ReadPayment, ReadOrderInClover, WritePosId,
       WriteMapRow, CountSiblings, ClearIssue, EndInjection
  <2> QED
    BY <2>1, <2>2
<1>6. ASSUME NEW k \in Pulls, PullStep(k) PROVE InClover(d)'
  <2>1. UNCHANGED mod
    BY <1>6 DEF PullStep, BeginPull, FetchFeed, LookUpMap, ReflectInMap, ReflectInRow,
       LookUpInjected, MapInjected, FindOrder, FindUnlinked, LinkUnlinked, MapLinked,
       RecordPayment, SumPayments, PatchOrder, MapRecorded, ForwardToOmnivore, ReportPull,
       pullFrame, cloverVars
  <2> QED
    BY <1>1, <2>1
<1>7. ASSUME \/ \E m \in Mcm : Revive(m)
             \/ \E o \in Orders : OrderLinked(o)
             \/ \E e \in Execs, m \in Mcm : Start(e, m)
             \/ Crash \/ Tick
             \/ UNCHANGED vars
      PROVE  UNCHANGED mod
  BY <1>7 DEF Revive, OrderLinked, Start, Crash, Tick, vars, cloverVars
<1> QED
  BY <1>1, <1>2, <1>3, <1>4, <1>5, <1>6, <1>7 DEF Next

\* Rows that no step writes stay linked; an execution and a pull that stay where they are keep
\* what they know.
LEMMA LinkedStill ==
  ASSUME TypeInv, Stamped, [Next]_vars, \A m \in Mcm : Linked(m), Apart,
         UNCHANGED <<posId, rowStatus>>
  PROVE  (\A m \in Mcm : Linked(m)') /\ Apart'
<1>1. \A c \in Posts : InClover(c) => InClover(c)'
  BY Grown DEF Charges
<1> QED
  BY <1>1 DEF Linked, Apart

LEMMA HoldsStill ==
  ASSUME TypeInv, Stamped, [Next]_vars, NEW e \in Execs, Holds(e),
         ex'[e] = ex[e] \/ ex'[e].pc # "pos"
  PROVE  Holds(e)'
<1>1. ex[e].pc = "pos" => ex[e].charge \in Charges
  BY ChargeTypes DEF TypeInv, ExShape
<1> QED
  BY <1>1, Grown DEF Holds

LEMMA KnownStill ==
  ASSUME TypeInv, Stamped, [Next]_vars, NEW p \in PullState, Shaped(p), Known(p)
  PROVE  Known(p)'
<1>1. \A i \in p.todo : i.id \in Charges
  BY DEF PullState, FeedItem
<1>2. p.pc \in WithItem => p.cur.id \in Charges
  BY DEF Shaped, FeedItem
<1> QED
  BY <1>1, <1>2, Grown DEF Known

LEMMA PullsStill ==
  ASSUME TypeInv, Stamped, [Next]_vars, NEW k \in Pulls, Known(pull[k]), pull'[k] = pull[k]
  PROVE  Known(pull[k])'
<1>1. Shaped(pull[k]) /\ pull[k] \in PullState
  BY DEF TypeInv, PullShape, PullTyped
<1>2. PICK p : p = pull[k] /\ p \in PullState /\ Shaped(p) /\ Known(p)
  BY <1>1
<1>3. Known(p)'
  BY <1>2, KnownStill
<1> QED
  BY <1>2, <1>3 DEF Known

\* What an execution holds was found in Clover, or has just landed there.
LEMMA HoldsNext ==
  ASSUME TypeInv, Stamped, [Next]_vars, \A f \in Execs : Holds(f), NEW e \in Execs,
         InjectionStep(e)
  PROVE  \A f \in Execs : Holds(f)'
<1>0. /\ ex \in [Execs -> ExState] /\ ex[e].pc # "idle" /\ ex[e].job \in Mcm
  BY DEF TypeInv, ExTyped, ExShape, InjectionStep, ReadPayment, ReadOrderInClover, PostPayment,
     WritePosId, WriteMapRow, CountSiblings, ClearIssue, EndInjection, At
<1>1. CASE \E x : ex'[e].pc # "pos" /\ \A f \in Execs \ {e} : ex'[f] = ex[f]
  BY <1>1, HoldsStill
<1>2. ASSUME NEW c, NEW b, ex' = [ex EXCEPT ![e] = Holding(ex[e].job, c, b)], InClover(c)'
      PROVE  \A f \in Execs : Holds(f)'
  <2>1. /\ ex'[e].pc = "pos" /\ ex'[e].charge = c
        /\ \A f \in Execs \ {e} : ex'[f] = ex[f]
    BY <1>0, <1>2 DEF Holding
  <2>2. Holds(e)'
    BY <1>2, <2>1 DEF Holds, InClover
  <2> QED
    BY <2>1, <2>2, HoldsStill
<1>3. CASE ex' = [ex EXCEPT ![e] = Idle]
  BY <1>1, <1>3, Moves
<1>4. ASSUME NEW pc \in ExPc \ {"pos"}, Goto(e, pc) PROVE \A f \in Execs : Holds(f)'
  BY <1>1, <1>4, Moves
<1>5. CASE ReadOrderInClover(e)
  <2>1. ASSUME NEW c \in Adoptable(ex[e].job) PROVE InClover(c)'
    <3>1. c \in Charges /\ InClover(c)
      BY <1>0, <2>1, ChargeTypes DEF Adoptable, Found, Anchored
    <3> QED
      BY <3>1, Grown
  <2> QED
    BY <1>2, <1>3, <1>4, <1>5, <2>1, Moves DEF ReadOrderInClover, ExPc
<1>6. CASE PostPayment(e)
  <2>1. ASSUME NEW c \in Mine(ex[e].job), Land(ex[e].job, c, asked[ex[e].job])
        PROVE  InClover(c)'
    BY <1>0, <2>1, Landed
  <2> QED
    BY <1>2, <1>3, <1>6, <2>1, Moves DEF PostPayment
<1>7. CASE ReadPayment(e) \/ WritePosId(e) \/ WriteMapRow(e)
  BY <1>3, <1>4, <1>7, Moves DEF ReadPayment, WritePosId, WriteMapRow, ExPc
<1>8. CASE CountSiblings(e) \/ ClearIssue(e) \/ EndInjection(e)
  BY <1>3, <1>4, <1>8, Moves DEF CountSiblings, ClearIssue, EndInjection, ExPc
<1> QED
  BY <1>5, <1>6, <1>7, <1>8 DEF InjectionStep

\* One payment gets a pos_id of its own order that no other has.
LEMMA LinkedWritten ==
  ASSUME TypeInv, Stamped, [Next]_vars, \A m \in Mcm : Linked(m), Apart, UNCHANGED rowStatus,
         NEW n \in Mcm, NEW c \in Posts, posId' = [posId EXCEPT ![n] = c], InClover(c),
         OrderIn(c) = OrderOf[n], RowsWith(c) \subseteq {n}
  PROVE  (\A m \in Mcm : Linked(m)') /\ Apart'
<1>0. /\ posId \in [Mcm -> Charges \cup {None}] /\ c # None
      /\ \A d \in Posts : InClover(d) => InClover(d)'
  BY Grown, NoneAssumption DEF TypeInv, RowsTyped, Charges
<1>1. posId'[n] = c /\ \A m \in Mcm \ {n} : posId'[m] = posId[m]
  BY <1>0
<1>2. \A m \in Mcm \ {n} : posId[m] # c
  BY DEF RowsWith
<1>3. \A m \in Mcm : Linked(m)'
  BY <1>0, <1>1 DEF Linked
<1>4. Apart'
  BY <1>0, <1>1, <1>2 DEF Apart
<1> QED
  BY <1>3, <1>4

LEMMA LinkInjection ==
  ASSUME TypeInv, Stamped, [Next]_vars, LinkInv, NEW e \in Execs, InjectionStep(e)
  PROVE  LinkInv'
<1>1. \A f \in Execs : Holds(f)'
  BY HoldsNext DEF LinkInv
<1>2. UNCHANGED <<pull, rowStatus>>
  BY DEF InjectionStep, ReadPayment, ReadOrderInClover, PostPayment, WritePosId, WriteMapRow,
     CountSiblings, ClearIssue, EndInjection, injectionFrame
<1>3. \A k \in Pulls : Known(pull[k])'
  BY <1>2, PullsStill DEF LinkInv
<1>4. (\A m \in Mcm : Linked(m)') /\ Apart'
  <2>1. CASE UNCHANGED posId
    BY <1>2, <2>1, LinkedStill DEF LinkInv
  <2>2. CASE WritePosId(e) /\ ~UNCHANGED posId
    <3> DEFINE m == ex[e].job
               c == ex[e].charge
    <3>1. m \in Mcm /\ c \in Mine(m) /\ Holds(e) /\ ex[e].pc = "pos"
      BY <2>2 DEF WritePosId, At, TypeInv, ExShape, LinkInv
    <3>2. c \in Posts /\ c \notin Staff /\ c[1] = m
      BY <3>1, ChargeTypes DEF Mine, Posts
    <3>3. InClover(c) /\ OrderIn(c) = OrderOf[m]
      BY <3>1, <3>2 DEF Holds, OrderIn
    <3>4. posId' = [posId EXCEPT ![m] = c] /\ RowsWith(c) \subseteq {m}
      BY <2>2 DEF WritePosId
    <3> HIDE DEF m, c
    <3> QED
      BY <1>2, <3>1, <3>2, <3>3, <3>4, LinkedWritten DEF LinkInv
  <2>3. ~WritePosId(e) => UNCHANGED posId
    BY DEF InjectionStep, ReadPayment, ReadOrderInClover, PostPayment, WriteMapRow,
       CountSiblings, ClearIssue, EndInjection
  <2> QED
    BY <2>1, <2>2, <2>3
<1> QED
  BY <1>1, <1>3, <1>4 DEF LinkInv

\* The items of a feed are in Clover.
LEMMA FeedIsReal == ASSUME NEW k \in Pulls PROVE \A i \in Feed(k) : InClover(i.id)
BY DEF Feed

\* A pull that ends with its item, or goes on to a step that asks for no more of it.
LEMMA KnownKept ==
  ASSUME TypeInv, Stamped, [Next]_vars, NEW k \in Pulls, Known(pull[k]), UNCHANGED mod,
         pull'[k].todo = pull[k].todo,
         \/ pull'[k].pc = "next"
         \/ /\ pull'[k].cur = pull[k].cur /\ pull[k].pc \in WithItem
            /\ pull'[k].pc \notin {"unlinked", "link"}
  PROVE  Known(pull[k])'
<1>1. "next" \notin WithItem
  BY DEF WithItem
<1> QED
  BY <1>1 DEF Known, InClover

LEMMA KnownNext ==
  ASSUME TypeInv, Stamped, [Next]_vars, NEW k \in Pulls, Known(pull[k]), PullStep(k)
  PROVE  Known(pull[k])' /\ \A j \in Pulls \ {k} : pull'[j] = pull[j]
<1> USE PullMoves
<1>0. /\ pull[k] \in PullState /\ Shaped(pull[k]) /\ UNCHANGED mod
      /\ \A x \in {"reflect", "reflectRow", "injected", "antiloop", "order", "unlinked", "link",
                   "linkMap", "upsert", "sum", "patch", "map", "forward"} : x \in WithItem
      /\ \A x \in {"idle", "fetch", "next"} : x \notin WithItem
  BY DEF WithItem, PullPc, TypeInv, PullTyped, PullShape, PullStep, BeginPull, FetchFeed,
     LookUpMap, ReflectInMap, ReflectInRow, LookUpInjected, MapInjected, FindOrder, FindUnlinked,
     LinkUnlinked, MapLinked, RecordPayment, SumPayments, PatchOrder, MapRecorded,
     ForwardToOmnivore, ReportPull, pullFrame, cloverVars
<1> DEFINE Others == \A j \in Pulls \ {k} : pull'[j] = pull[j]
<1>a. ASSUME NEW pc, PullTo(k, pc), pull[k].pc \in WithItem, pc \notin {"unlinked", "link"}
      PROVE  Known(pull[k])' /\ Others
  <2>1. /\ pull'[k].pc = pc /\ SameFeed(pull[k], pull'[k]) /\ pull'[k].cur = pull[k].cur
        /\ Others
    BY <1>a
  <2> QED
    BY <1>0, <1>a, <2>1, KnownKept DEF SameFeed
<1>b. ASSUME NextItem(k) PROVE Known(pull[k])' /\ Others
  <2>1. pull'[k].pc = "next" /\ SameFeed(pull[k], pull'[k]) /\ Others
    BY <1>b
  <2> QED
    BY <1>0, <2>1, KnownKept DEF SameFeed
<1>c. ASSUME NEW p, PullIs(k, p), p.todo = pull[k].todo,
             \/ p.pc = "next"
             \/ /\ p.cur = pull[k].cur /\ pull[k].pc \in WithItem
                /\ p.pc \notin {"unlinked", "link"}
      PROVE  Known(pull[k])' /\ Others
  <2>1. pull'[k] = p /\ Others
    BY <1>c
  <2> QED
    BY <1>0, <1>c, <2>1, KnownKept
<1>1. CASE BeginPull(k)
  <2>1. pull'[k] = Fetching(Watermark) /\ Others
    BY <1>1 DEF BeginPull
  <2> QED
    BY <1>0, <2>1 DEF Known, Fetching
<1>2. CASE FetchFeed(k)
  <2>0. PICK T : Fetches(k, T)
    BY <1>2, FetchesSome
  <2>1. pull'[k] = [pull[k] EXCEPT !.pc = "next", !.todo = T] /\ Others
    BY <1>2, <2>0 DEF Fetches
  <2>2. pull'[k].pc = "next" /\ pull'[k].todo \subseteq Feed(k)
    BY <1>0, <2>0, <2>1 DEF PullState, Fetches
  <2> QED
    BY <1>0, <2>1, <2>2, FeedIsReal DEF Known, InClover
<1>3. CASE LookUpMap(k)
  <2>1. PICK i \in pull[k].todo :
          LET rest == [pull[k] EXCEPT !.todo = @ \ {i}, !.top = Larger(@, i.mod)]
              entry == map[i.id]
          IN \/ PullIs(k, rest)
             \/ PullIs(k, [rest EXCEPT !.pc = "reflect", !.cur = i, !.row = entry.pay])
             \/ PullIs(k, [rest EXCEPT !.pc = "injected", !.cur = i])
    BY <1>3 DEF LookUpMap
  <2> DEFINE rest == [pull[k] EXCEPT !.todo = @ \ {i}, !.top = Larger(@, i.mod)]
  <2>2. rest.todo = pull[k].todo \ {i} /\ rest.pc = "next"
    BY <1>0, <1>3 DEF PullState, LookUpMap, In
  <2>3. /\ Others /\ pull'[k].todo = pull[k].todo \ {i}
        /\ \/ pull'[k].pc = "next"
           \/ pull'[k].pc \in {"reflect", "injected"} /\ pull'[k].cur = i
    <3>1. CASE PullIs(k, rest)
      BY <2>2, <3>1
    <3>2. CASE PullIs(k, [rest EXCEPT !.pc = "reflect", !.cur = i, !.row = map[i.id].pay])
      <4>1. pull'[k] = [rest EXCEPT !.pc = "reflect", !.cur = i, !.row = map[i.id].pay]
        BY <3>2
      <4> QED
        BY <1>0, <2>2, <3>2, <4>1 DEF PullState
    <3>3. CASE PullIs(k, [rest EXCEPT !.pc = "injected", !.cur = i])
      <4>1. pull'[k] = [rest EXCEPT !.pc = "injected", !.cur = i]
        BY <3>3
      <4> QED
        BY <1>0, <2>2, <3>3, <4>1 DEF PullState
    <3> QED
      BY <2>1, <3>1, <3>2, <3>3
  <2> HIDE DEF rest
  <2> QED
    BY <1>0, <2>3 DEF Known, InClover
<1>4. CASE ReflectInMap(k) \/ LinkUnlinked(k) \/ PatchOrder(k)
  BY <1>0, <1>4, <1>a DEF ReflectInMap, LinkUnlinked, PatchOrder, In
<1>5. CASE ReflectInRow(k) \/ MapInjected(k) \/ MapLinked(k) \/ ForwardToOmnivore(k)
  BY <1>5, <1>b DEF ReflectInRow, MapInjected, MapLinked, ForwardToOmnivore
<1>6. CASE LookUpInjected(k)
  <2>1. CASE PullTo(k, "order")
    BY <1>0, <1>6, <2>1, <1>a DEF LookUpInjected, In
  <2>2. ASSUME NEW x, PullIs(k, [pull[k] EXCEPT !.pc = "antiloop", !.row = x])
        PROVE  Known(pull[k])' /\ Others
    <3> DEFINE p == [pull[k] EXCEPT !.pc = "antiloop", !.row = x]
    <3>1. p.todo = pull[k].todo /\ p.pc = "antiloop" /\ p.cur = pull[k].cur
      BY <1>0 DEF PullState
    <3>2. PullIs(k, p)
      BY <2>2
    <3> HIDE DEF p
    <3> QED
      BY <1>0, <1>6, <3>1, <3>2, <1>c DEF LookUpInjected, In
  <2> QED
    BY <1>6, <2>1, <2>2 DEF LookUpInjected
<1>7. CASE FindOrder(k)
  <2>1. CASE PullTo(k, "upsert")
    BY <1>0, <1>7, <2>1, <1>a DEF FindOrder, In
  <2>2. CASE PullTo(k, "unlinked") /\ Id(k) \notin Staff
    <3>1. /\ pull'[k].pc = "unlinked" /\ SameFeed(pull[k], pull'[k])
          /\ pull'[k].cur = pull[k].cur /\ Others /\ pull[k].pc = "order"
      BY <1>7, <2>2 DEF FindOrder, In
    <3>2. pull[k].cur \in FeedItem
      BY <1>0, <3>1 DEF Shaped
    <3>3. pull[k].cur.id \in Posts
      BY <2>2, <3>2 DEF Id, FeedItem, Charges
    <3> QED
      BY <1>0, <3>1, <3>3 DEF Known, InClover, SameFeed
  <2> DEFINE o == IF pull[k].oldest = 0 THEN Item(k).mod ELSE Smaller(pull[k].oldest, Item(k).mod)
             p == [pull[k] EXCEPT !.pc = "next", !.cur = None, !.deferred = @ \cup {Id(k)},
                                  !.oldest = o]
  <2>3. p.todo = pull[k].todo /\ p.pc = "next"
    BY <1>0 DEF PullState
  <2>4. PullIs(k, p) \/ PullTo(k, "upsert") \/ (PullTo(k, "unlinked") /\ Id(k) \notin Staff)
    <3>1. CASE Id(k) \in Staff
      BY <1>7, <3>1 DEF FindOrder
    <3>2. CASE Id(k) \notin Staff
      BY <1>7, <3>2 DEF FindOrder
    <3> QED
      BY <3>1, <3>2
  <2> HIDE DEF p
  <2> QED
    BY <2>1, <2>2, <2>3, <2>4, <1>c
<1>8. CASE FindUnlinked(k)
  <2>1. CASE PullTo(k, "upsert")
    BY <1>0, <1>8, <2>1, <1>a DEF FindUnlinked, In
  <2>2. ASSUME NEW m \in Unlinked(OrderIn(Id(k))),
               PullIs(k, [pull[k] EXCEPT !.pc = "link", !.row = m])
        PROVE  Known(pull[k])' /\ Others
    <3>1. pull'[k] = [pull[k] EXCEPT !.pc = "link", !.row = m] /\ Others
      BY <2>2
    <3>2. /\ pull'[k].pc = "link" /\ pull'[k].row = m /\ pull'[k].cur = pull[k].cur
          /\ pull'[k].todo = pull[k].todo /\ pull[k].pc = "unlinked"
      BY <1>0, <1>8, <3>1 DEF PullState, FindUnlinked, In
    <3>3. OrderOf[m] = OrderIn(pull[k].cur.id)
      BY <2>2 DEF Unlinked, Completed, RowOrder, Id
    <3> QED
      BY <1>0, <3>1, <3>2, <3>3 DEF Known, InClover
  <2> QED
    BY <1>8, <2>1, <2>2 DEF FindUnlinked
<1>9. CASE RecordPayment(k)
  <2> DEFINE c == Id(k)
             x == IF RowsWith(c) = {} THEN c ELSE CHOOSE y \in RowsWith(c) : TRUE
             pc == IF Item(k).fate = "voided" THEN "map" ELSE "sum"
             p == [pull[k] EXCEPT !.row = x, !.pc = pc]
  <2>1. PullIs(k, p) \/ NextItem(k)
    BY <1>9 DEF RecordPayment
  <2>2. pc \notin {"unlinked", "link", "next"}
    OBVIOUS
  <2> HIDE DEF x, pc
  <2>3. p.todo = pull[k].todo /\ p.cur = pull[k].cur /\ p.pc = pc
    BY <1>0 DEF PullState
  <2>4. pull[k].pc \in WithItem
    BY <1>0, <1>9 DEF RecordPayment, In
  <2> HIDE DEF p
  <2> QED
    BY <1>b, <1>c, <2>1, <2>2, <2>3, <2>4
<1>10. CASE SumPayments(k)
  <2> DEFINE p == [pull[k] EXCEPT !.pc = "patch", !.sum = Summed(k)]
  <2>1. p.todo = pull[k].todo /\ p.cur = pull[k].cur /\ p.pc = "patch"
    BY <1>0 DEF PullState
  <2>2. (PullIs(k, p) \/ PullTo(k, "patch")) /\ pull[k].pc \in WithItem
    BY <1>0, <1>10 DEF SumPayments, In
  <2> HIDE DEF p
  <2> QED
    BY <1>a, <1>c, <2>1, <2>2
<1>11. CASE MapRecorded(k)
  BY <1>0, <1>11, <1>a, <1>b DEF MapRecorded, In
<1>12. CASE ReportPull(k)
  <2>1. pull'[k] = Resting /\ Others
    BY <1>12 DEF ReportPull
  <2> QED
    BY <1>0, <2>1 DEF Known, Resting
<1> QED
  BY <1>1, <1>2, <1>3, <1>4, <1>5, <1>6, <1>7, <1>8, <1>9, <1>10, <1>11, <1>12 DEF PullStep

LEMMA LinkPull ==
  ASSUME TypeInv, Stamped, [Next]_vars, LinkInv, NEW k \in Pulls, PullStep(k)
  PROVE  LinkInv'
<1>0. /\ posId \in [Mcm -> Charges \cup {None}] /\ rowStatus \in [Rows -> {"completed", "voided"}]
      /\ None \notin Charges /\ Mcm \cap Charges = {} /\ Mcm \subseteq Rows
  BY NoneAssumption, PaymentsAssumption DEF TypeInv, RowsTyped, Rows, Charges
<1>1. UNCHANGED ex
  BY DEF PullStep, BeginPull, FetchFeed, LookUpMap, ReflectInMap, ReflectInRow, LookUpInjected,
     MapInjected, FindOrder, FindUnlinked, LinkUnlinked, MapLinked, RecordPayment, SumPayments,
     PatchOrder, MapRecorded, ForwardToOmnivore, ReportPull, pullFrame
<1>2. \A e \in Execs : Holds(e)'
  BY <1>1, HoldsStill DEF LinkInv
<1>3. \A j \in Pulls : Known(pull[j])'
  BY KnownNext, PullsStill DEF LinkInv
<1>4. CASE UNCHANGED <<posId, rowStatus>>
  BY <1>2, <1>3, <1>4, LinkedStill DEF LinkInv
<1>5. CASE LinkUnlinked(k) /\ ~UNCHANGED posId
  <2> DEFINE m == pull[k].row
             c == Id(k)
  <2>1. m \in Mcm /\ Known(pull[k]) /\ pull[k].pc = "link" /\ pull[k].pc \in WithItem
    BY <1>5 DEF LinkUnlinked, In, TypeInv, PullShape, Shaped, LinkInv, WithItem, PullPc
  <2>2. c \in Posts /\ InClover(c) /\ OrderIn(c) = OrderOf[m]
    BY <2>1 DEF Known, Id
  <2>3. /\ posId' = [posId EXCEPT ![m] = c] /\ RowsWith(c) \subseteq {m} /\ UNCHANGED rowStatus
    BY <1>5 DEF LinkUnlinked
  <2> HIDE DEF m, c
  <2> QED
    BY <1>2, <1>3, <2>1, <2>2, <2>3, LinkedWritten DEF LinkInv
<1>6. CASE RecordPayment(k)
  <2> DEFINE c == Id(k)
             r == IF RowsWith(c) = {} THEN c ELSE CHOOSE x \in RowsWith(c) : TRUE
  <2>1. c \in Charges
    BY <1>6 DEF RecordPayment, In, TypeInv, PullShape, Shaped, WithItem, PullPc, Id, FeedItem
  <2>2. r = c \/ r \in RowsWith(c)
    OBVIOUS
  <2>3. /\ UNCHANGED posId
        /\ \/ UNCHANGED rowStatus
           \/ \E s : rowStatus' = [rowStatus EXCEPT ![r] = s]
    BY <1>6 DEF RecordPayment
  <2> HIDE DEF c, r
  <2>4. r \in Mcm => posId[r] = c
    BY <1>0, <2>1, <2>2, PullFacts DEF RowsWith
  <2>5. \A m \in Mcm : rowStatus'[m] = rowStatus[m] \/ posId[m] # None
    BY <1>0, <2>1, <2>3, <2>4
  <2>6. \A d \in Posts : InClover(d) => InClover(d)'
    BY Grown DEF Charges
  <2>7. (\A m \in Mcm : Linked(m)') /\ Apart'
    BY <2>3, <2>5, <2>6 DEF LinkInv, Linked, Apart
  <2> QED
    BY <1>2, <1>3, <2>7 DEF LinkInv
<1>7. ASSUME ~RecordPayment(k) PROVE UNCHANGED rowStatus
  <2>1. ASSUME \/ BeginPull(k) \/ FetchFeed(k) \/ LookUpMap(k) \/ ReflectInMap(k)
               \/ ReflectInRow(k) \/ LookUpInjected(k) \/ MapInjected(k) \/ FindOrder(k)
        PROVE  UNCHANGED rowStatus
    BY <2>1 DEF BeginPull, FetchFeed, LookUpMap, ReflectInMap, ReflectInRow, LookUpInjected,
       MapInjected, FindOrder, rowVars
  <2>2. ASSUME \/ FindUnlinked(k) \/ LinkUnlinked(k) \/ MapLinked(k) \/ SumPayments(k)
               \/ PatchOrder(k) \/ MapRecorded(k) \/ ForwardToOmnivore(k) \/ ReportPull(k)
        PROVE  UNCHANGED rowStatus
    BY <2>2 DEF FindUnlinked, LinkUnlinked, MapLinked, SumPayments, PatchOrder, MapRecorded,
       ForwardToOmnivore, ReportPull, rowVars
  <2> QED
    BY <1>7, <2>1, <2>2 DEF PullStep
<1>8. ASSUME ~LinkUnlinked(k) PROVE UNCHANGED posId
  <2>1. ASSUME \/ BeginPull(k) \/ FetchFeed(k) \/ LookUpMap(k) \/ ReflectInMap(k)
               \/ ReflectInRow(k) \/ LookUpInjected(k) \/ MapInjected(k) \/ FindOrder(k)
        PROVE  UNCHANGED posId
    BY <2>1 DEF BeginPull, FetchFeed, LookUpMap, ReflectInMap, ReflectInRow, LookUpInjected,
       MapInjected, FindOrder, rowVars
  <2>2. ASSUME \/ FindUnlinked(k) \/ MapLinked(k) \/ RecordPayment(k) \/ SumPayments(k)
               \/ PatchOrder(k) \/ MapRecorded(k) \/ ForwardToOmnivore(k) \/ ReportPull(k)
        PROVE  UNCHANGED posId
    BY <2>2 DEF FindUnlinked, MapLinked, RecordPayment, SumPayments, PatchOrder, MapRecorded,
       ForwardToOmnivore, ReportPull, rowVars
  <2> QED
    BY <1>8, <2>1, <2>2 DEF PullStep
<1>9. LinkUnlinked(k) => UNCHANGED rowStatus
  BY DEF LinkUnlinked
<1> QED
  BY <1>4, <1>5, <1>6, <1>7, <1>8, <1>9

LEMMA LinkNext == TypeInv /\ Stamped /\ LinkInv /\ [Next]_vars => LinkInv'
<1> SUFFICES ASSUME TypeInv, Stamped, LinkInv, [Next]_vars PROVE LinkInv'
  OBVIOUS
<1>1. CASE \E e \in Execs : InjectionStep(e)
  BY <1>1, LinkInjection
<1>2. CASE \E k \in Pulls : PullStep(k)
  BY <1>2, LinkPull
<1>3. ASSUME UNCHANGED <<posId, rowStatus>>,
             \A e \in Execs : ex'[e] = ex[e] \/ ex'[e].pc # "pos",
             \A k \in Pulls : pull'[k] = pull[k] \/ \E w : pull'[k] = Fetching(w)
      PROVE  LinkInv'
  <2>1. (\A m \in Mcm : Linked(m)') /\ Apart' /\ \A e \in Execs : Holds(e)'
    BY <1>3, LinkedStill, HoldsStill DEF LinkInv
  <2>2. ASSUME NEW k \in Pulls PROVE Known(pull[k])'
    <3>1. CASE pull'[k] = pull[k]
      BY <3>1, PullsStill DEF LinkInv
    <3>2. CASE \E w : pull'[k] = Fetching(w)
      BY <3>2 DEF Known, Fetching, WithItem
    <3> QED
      BY <1>3, <3>1, <3>2
  <2> QED
    BY <2>1, <2>2 DEF LinkInv
<1>4. CASE Crash
  <2>1. UNCHANGED <<posId, rowStatus>>
    BY <1>4 DEF Crash, rowVars
  <2>2. \A e \in Execs : ex'[e] = ex[e] \/ ex'[e].pc # "pos"
    <3>1. UNCHANGED ex \/ \E e \in Execs : ex' = [ex EXCEPT ![e] = Idle]
      BY <1>4 DEF Crash
    <3> QED
      BY <3>1 DEF Idle, TypeInv, ExTyped
  <2>3. \A k \in Pulls : pull'[k] = pull[k] \/ \E w : pull'[k] = Fetching(w)
    <3>1. UNCHANGED pull \/ \E k \in Pulls : pull' = [pull EXCEPT ![k] = Fetching(pull[k].wm)]
      BY <1>4 DEF Crash
    <3> QED
      BY <3>1 DEF TypeInv, PullTyped
  <2> QED
    BY <1>3, <2>1, <2>2, <2>3
<1>5. CASE \E e \in Execs, m \in Mcm : Start(e, m)
  <2>1. PICK e \in Execs, m \in Mcm : Start(e, m)
    BY <1>5
  <2>2. ex' = [ex EXCEPT ![e] = Starting(m)] /\ UNCHANGED <<posId, rowStatus, pull>>
    BY <2>1 DEF Start, rowVars
  <2>3. \A f \in Execs : ex'[f] = ex[f] \/ ex'[f].pc # "pos"
    BY <2>2 DEF Starting, TypeInv, ExTyped
  <2> QED
    BY <1>3, <2>2, <2>3
<1>6. ASSUME \/ UNCHANGED vars
             \/ \E c \in Staff : StaffPays(c)
             \/ \E c \in Charges : Changes(c)
             \/ \E m \in Mcm : LandLate(m) \/ Revive(m)
             \/ \E o \in Orders : OrderLinked(o)
             \/ Tick
      PROVE  UNCHANGED <<posId, rowStatus, ex, pull>>
  BY <1>6 DEF vars, StaffPays, Changes, LandLate, Revive, OrderLinked, Tick, rowVars
<1> QED
  BY <1>1, <1>2, <1>3, <1>4, <1>5, <1>6 DEF Next

\* The payments of an order that all have a pos_id have, one by one, the POSTs of that order
\* that are in Clover, when each was charged once.
LEMMA EveryPostIsLinked ==
  ASSUME IsFiniteSet(Mcm), TypeInv, LinkInv, Single, NEW c \in Posts, InClover(c),
         \A m \in Mcm : OrderOf[m] = OrderIn(c) => posId[m] # None
  PROVE  RowsWith(c) # {}
<1> DEFINE M == {m \in Mcm : OrderOf[m] = OrderIn(c)}
           h == [m \in M |-> posId[m][1]]
<1>0. \A d \in Posts : /\ d[1] \in Mcm /\ d \in Mine(d[1]) /\ OrderIn(d) = OrderOf[d[1]]
                       /\ InClover(d) => d \in Anchored(d[1])
  BY PaymentsAssumption DEF Posts, Mine, OrderIn, Anchored
<1>1. \A m \in M : posId[m] \in Posts /\ InClover(posId[m]) /\ OrderIn(posId[m]) = OrderOf[m]
  BY DEF LinkInv, Linked
<1>2. \A m \in M : posId[m][1] \in M
  BY <1>0, <1>1
<1>3. \A m, n \in M : posId[m][1] = posId[n][1] => m = n
  <2> SUFFICES ASSUME NEW m \in M, NEW n \in M, posId[m][1] = posId[n][1] PROVE m = n
    OBVIOUS
  <2>1. posId[m] = posId[n]
    BY <1>0, <1>1 DEF Single
  <2>2. posId[m] # None
    OBVIOUS
  <2> QED
    BY <2>1, <2>2 DEF LinkInv, Apart
<1>4. h \in Injection(M, M)
  BY <1>2, <1>3 DEF Injection, IsInjective
<1>5. IsFiniteSet(M)
  BY FS_Subset
<1>6. h \in Surjection(M, M)
  BY <1>4, <1>5, FS_Injection
<1>7. c[1] \in M
  BY <1>0
<1>8. PICK m \in M : posId[m][1] = c[1]
  BY <1>6, <1>7 DEF Surjection
<1>9. posId[m] = c
  BY <1>0, <1>1, <1>8 DEF Single
<1> QED
  BY <1>9 DEF RowsWith

Calm == {"overrun", "late", "blind"} \cap faults = {}

\* A pull about to insert a row for a POST of MCM has seen every payment of the order linked.
Exhausted(p) == p.pc = "upsert" /\ p.cur.id \in Posts =>
                  \A m \in Mcm : OrderOf[m] = OrderIn(p.cur.id) => Applied(m)
TwiceInv == Calm => pulled \cap Posts = {} /\ \A k \in Pulls : Exhausted(pull[k])

\* A sum is read as it is then, unless the statement fails.
LEMMA SumPlaces ==
  ASSUME TypeInv, NEW k \in Pulls, SumPayments(k)
  PROVE  /\ pull'[k].pc = "patch" /\ pull'[k].cur = pull[k].cur
         /\ NoFault => pull'[k].sum = Summed(k)
<1>0. pull[k] \in PullState
  BY DEF TypeInv, PullTyped
<1> DEFINE p == [pull[k] EXCEPT !.pc = "patch", !.sum = Summed(k)]
<1>1. p.pc = "patch" /\ p.cur = pull[k].cur /\ p.sum = Summed(k)
  BY <1>0 DEF PullState
<1>2. PullIs(k, p) \/ (PullTo(k, "patch") /\ Fault("blind"))
  BY DEF SumPayments
<1>3. ~(NoFault /\ Fault("blind"))
  BY DEF NoFault, Fault, TypeInv, RestTyped
<1> HIDE DEF p
<1> QED
  BY <1>1, <1>2, <1>3, PullMoves

\* Where the steps of a pull that choose lead.
LEMMA Places ==
  ASSUME TypeInv, NEW k \in Pulls
  PROVE  /\ BeginPull(k) \/ FetchFeed(k) \/ ReportPull(k) =>
              pull'[k].pc \in {"fetch", "next", "idle"}
         /\ LookUpMap(k) => pull'[k].pc \in {"next", "reflect", "injected"}
         /\ LookUpInjected(k) => pull'[k].pc \in {"antiloop", "order"}
         /\ FindOrder(k) => \/ pull'[k].pc \in {"next", "unlinked"}
                            \/ PullTo(k, "upsert") /\ Id(k) \in Staff
         /\ FindUnlinked(k) =>
              \/ pull'[k].pc = "link"
              \/ PullTo(k, "upsert") /\ ("blind" \in faults' \/ Unlinked(OrderIn(Id(k))) = {})
         /\ RecordPayment(k) => pull'[k].pc \in {"map", "sum", "next"}
<1> USE PullMoves
<1>0. pull[k] \in PullState
  BY DEF TypeInv, PullTyped
<1>1. ASSUME BeginPull(k) \/ FetchFeed(k) \/ ReportPull(k)
      PROVE  pull'[k].pc \in {"fetch", "next", "idle"}
  <2>1. BeginPull(k) => pull'[k] = Fetching(Watermark)
    BY DEF BeginPull
  <2>2. FetchFeed(k) => \E T : pull'[k] = [pull[k] EXCEPT !.pc = "next", !.todo = T]
    BY FetchesSome DEF Fetches
  <2>3. ReportPull(k) => pull'[k] = Resting
    BY DEF ReportPull
  <2>4. /\ Fetching(Watermark).pc = "fetch" /\ Resting.pc = "idle"
        /\ \A T : [pull[k] EXCEPT !.pc = "next", !.todo = T].pc = "next"
    BY <1>0 DEF Fetching, Resting, PullState
  <2>5. FetchFeed(k) => pull'[k].pc = "next"
    BY <2>2, <2>4
  <2> QED
    BY <1>1, <2>1, <2>3, <2>4, <2>5
<1>2. ASSUME LookUpMap(k) PROVE pull'[k].pc \in {"next", "reflect", "injected"}
  <2>1. PICK i \in pull[k].todo :
          LET rest == [pull[k] EXCEPT !.todo = @ \ {i}, !.top = Larger(@, i.mod)]
              entry == map[i.id]
          IN \/ PullIs(k, rest)
             \/ PullIs(k, [rest EXCEPT !.pc = "reflect", !.cur = i, !.row = entry.pay])
             \/ PullIs(k, [rest EXCEPT !.pc = "injected", !.cur = i])
    BY <1>2 DEF LookUpMap
  <2> DEFINE rest == [pull[k] EXCEPT !.todo = @ \ {i}, !.top = Larger(@, i.mod)]
  <2>2. pull'[k] \in {rest, [rest EXCEPT !.pc = "reflect", !.cur = i, !.row = map[i.id].pay],
                      [rest EXCEPT !.pc = "injected", !.cur = i]}
    BY <2>1
  <2>3. rest.pc = "next"
    BY <1>0, <1>2 DEF PullState, LookUpMap, In
  <2>4. /\ [rest EXCEPT !.pc = "reflect", !.cur = i, !.row = map[i.id].pay].pc = "reflect"
        /\ [rest EXCEPT !.pc = "injected", !.cur = i].pc = "injected"
    BY <1>0 DEF PullState
  <2> QED
    BY <2>2, <2>3, <2>4
<1>3. ASSUME LookUpInjected(k) PROVE pull'[k].pc \in {"antiloop", "order"}
  <2>1. ASSUME NEW x, PullIs(k, [pull[k] EXCEPT !.pc = "antiloop", !.row = x])
        PROVE  pull'[k].pc = "antiloop"
    <3>1. pull'[k] = [pull[k] EXCEPT !.pc = "antiloop", !.row = x]
      BY <2>1
    <3> QED
      BY <1>0, <3>1 DEF PullState
  <2>2. PullTo(k, "order") => pull'[k].pc = "order"
    BY PullMoves
  <2>3. PullTo(k, "order") \/ \E x : PullIs(k, [pull[k] EXCEPT !.pc = "antiloop", !.row = x])
    BY <1>3 DEF LookUpInjected
  <2> QED
    BY <2>1, <2>2, <2>3
<1>4. ASSUME FindOrder(k)
      PROVE  pull'[k].pc \in {"next", "unlinked"} \/ (PullTo(k, "upsert") /\ Id(k) \in Staff)
  <2> DEFINE o == IF pull[k].oldest = 0 THEN Item(k).mod ELSE Smaller(pull[k].oldest, Item(k).mod)
             p == [pull[k] EXCEPT !.pc = "next", !.cur = None, !.deferred = @ \cup {Id(k)},
                                  !.oldest = o]
  <2>1. PullIs(k, p) \/ (PullTo(k, "upsert") /\ Id(k) \in Staff) \/ PullTo(k, "unlinked")
    <3>1. CASE Id(k) \in Staff
      BY <1>4, <3>1 DEF FindOrder
    <3>2. CASE Id(k) \notin Staff
      BY <1>4, <3>2 DEF FindOrder
    <3> QED
      BY <3>1, <3>2
  <2>2. p.pc = "next"
    BY <1>0 DEF PullState
  <2> HIDE DEF p
  <2>3. PullIs(k, p) => pull'[k].pc = "next"
    BY <2>2
  <2>4. PullTo(k, "unlinked") => pull'[k].pc = "unlinked"
    BY PullMoves
  <2> QED
    BY <2>1, <2>3, <2>4
<1>5. ASSUME FindUnlinked(k)
      PROVE  \/ pull'[k].pc = "link"
             \/ PullTo(k, "upsert") /\ ("blind" \in faults' \/ Unlinked(OrderIn(Id(k))) = {})
  <2>1. ASSUME NEW x, PullIs(k, [pull[k] EXCEPT !.pc = "link", !.row = x])
        PROVE  pull'[k].pc = "link"
    <3>1. pull'[k] = [pull[k] EXCEPT !.pc = "link", !.row = x]
      BY <2>1
    <3> QED
      BY <1>0, <3>1 DEF PullState
  <2> QED
    BY <1>5, <2>1 DEF FindUnlinked, Fault
<1>6. ASSUME RecordPayment(k) PROVE pull'[k].pc \in {"map", "sum", "next"}
  <2> DEFINE c == Id(k)
             x == IF RowsWith(c) = {} THEN c ELSE CHOOSE y \in RowsWith(c) : TRUE
             pc == IF Item(k).fate = "voided" THEN "map" ELSE "sum"
             p == [pull[k] EXCEPT !.row = x, !.pc = pc]
  <2>1. PullIs(k, p) \/ NextItem(k)
    BY <1>6 DEF RecordPayment
  <2>2. pc \in {"map", "sum"}
    OBVIOUS
  <2> HIDE DEF x, pc
  <2>3. p.pc = pc
    BY <1>0 DEF PullState
  <2> HIDE DEF p
  <2> QED
    BY <2>1, <2>2, <2>3
<1> QED
  BY <1>1, <1>2, <1>3, <1>4, <1>5, <1>6

\* How a pull comes to insert a row.
LEMMA UpsertReached ==
  ASSUME TypeInv, NEW k \in Pulls, PullStep(k), pull'[k].pc = "upsert"
  PROVE  /\ pull'[k].cur = pull[k].cur
         /\ \/ Id(k) \in Staff
            \/ "blind" \in faults'
            \/ Unlinked(OrderIn(Id(k))) = {}
<1>1. \/ PullTo(k, "upsert") /\ Id(k) \in Staff
      \/ PullTo(k, "upsert") /\ ("blind" \in faults' \/ Unlinked(OrderIn(Id(k))) = {})
  <2>1. \/ FindOrder(k) \/ FindUnlinked(k)
        \/ ReflectInMap(k) \/ LinkUnlinked(k) \/ SumPayments(k) \/ PatchOrder(k)
        \/ ReflectInRow(k) \/ MapInjected(k) \/ MapLinked(k) \/ MapRecorded(k)
        \/ ForwardToOmnivore(k)
    BY Places DEF PullStep
  <2>2. ~ReflectInMap(k) /\ ~LinkUnlinked(k) /\ ~PatchOrder(k)
    BY PullMoves DEF ReflectInMap, LinkUnlinked, PatchOrder
  <2>3. ~ReflectInRow(k) /\ ~MapInjected(k) /\ ~MapLinked(k) /\ ~MapRecorded(k)
        /\ ~ForwardToOmnivore(k)
    BY PullMoves DEF ReflectInRow, MapInjected, MapLinked, MapRecorded, ForwardToOmnivore
  <2>4. ~SumPayments(k)
    BY SumPlaces
  <2> QED
    BY <2>1, <2>2, <2>3, <2>4, Places
<1> QED
  BY <1>1, PullMoves

\* Only RecordPayment makes rows.
LEMMA PulledBy ==
  ASSUME [Next]_vars, \A k \in Pulls : ~RecordPayment(k)
  PROVE  UNCHANGED <<pulled, rowStatus>>
<1>1. ASSUME NEW k \in Pulls, PullStep(k) PROVE UNCHANGED <<pulled, rowStatus>>
  <2>1. ASSUME \/ BeginPull(k) \/ FetchFeed(k) \/ LookUpMap(k) \/ ReflectInMap(k)
               \/ ReflectInRow(k) \/ LookUpInjected(k) \/ MapInjected(k) \/ FindOrder(k)
        PROVE  UNCHANGED <<pulled, rowStatus>>
    BY <2>1 DEF BeginPull, FetchFeed, LookUpMap, ReflectInMap, ReflectInRow, LookUpInjected,
       MapInjected, FindOrder, rowVars
  <2>2. ASSUME \/ FindUnlinked(k) \/ LinkUnlinked(k) \/ MapLinked(k) \/ SumPayments(k)
               \/ PatchOrder(k) \/ MapRecorded(k) \/ ForwardToOmnivore(k) \/ ReportPull(k)
        PROVE  UNCHANGED <<pulled, rowStatus>>
    BY <2>2 DEF FindUnlinked, LinkUnlinked, MapLinked, SumPayments, PatchOrder, MapRecorded,
       ForwardToOmnivore, ReportPull, rowVars
  <2> QED
    BY <1>1, <2>1, <2>2 DEF PullStep
<1>2. ASSUME NEW e \in Execs, InjectionStep(e) PROVE UNCHANGED <<pulled, rowStatus>>
  BY <1>2 DEF InjectionStep, ReadPayment, ReadOrderInClover, PostPayment, WritePosId,
     WriteMapRow, CountSiblings, ClearIssue, EndInjection, injectionFrame
<1>3. ASSUME \/ UNCHANGED vars
             \/ \E c \in Staff : StaffPays(c)
             \/ \E c \in Charges : Changes(c)
             \/ \E m \in Mcm : LandLate(m) \/ Revive(m)
             \/ \E o \in Orders : OrderLinked(o)
             \/ \E e \in Execs, m \in Mcm : Start(e, m)
             \/ Tick \/ Crash
      PROVE  UNCHANGED <<pulled, rowStatus>>
  BY <1>3 DEF vars, StaffPays, Changes, LandLate, Revive, OrderLinked, Tick, Start, Crash,
     rowVars
<1> QED
  BY <1>1, <1>2, <1>3 DEF Next

\* A pull moves by its own step, or starts over after a crash.
LEMMA PullsMove ==
  ASSUME TypeInv, [Next]_vars, NEW k \in Pulls, pull'[k] # pull[k]
  PROVE  PullStep(k) \/ (pull'[k] = Fetching(pull[k].wm) /\ "crash" \in faults')
<1>1. ASSUME NEW j \in Pulls, PullStep(j), j # k PROVE FALSE
  <2>1. Shaped(pull[j]) /\ pull[j] \in PullState
    BY DEF TypeInv, PullShape, PullTyped
  <2>2. \A p : PullIs(j, p) => pull'[k] = pull[k]
    BY <1>1, PullMoves
  <2>3. \A pc : PullTo(j, pc) => pull'[k] = pull[k]
    BY <1>1, PullMoves
  <2>4. NextItem(j) => pull'[k] = pull[k]
    BY <1>1, PullMoves
  <2>5. ASSUME \/ BeginPull(j) \/ FetchFeed(j) \/ LookUpMap(j) \/ ReflectInMap(j)
               \/ ReflectInRow(j) \/ LookUpInjected(j) \/ MapInjected(j) \/ FindOrder(j)
        PROVE  FALSE
    BY <2>2, <2>3, <2>4, <2>5 DEF BeginPull, FetchFeed, LookUpMap, ReflectInMap, ReflectInRow,
       LookUpInjected, MapInjected, FindOrder
  <2>6. ASSUME \/ FindUnlinked(j) \/ LinkUnlinked(j) \/ MapLinked(j) \/ RecordPayment(j)
               \/ SumPayments(j) \/ PatchOrder(j) \/ MapRecorded(j) \/ ForwardToOmnivore(j)
               \/ ReportPull(j)
        PROVE  FALSE
    BY <2>2, <2>3, <2>4, <2>6 DEF FindUnlinked, LinkUnlinked, MapLinked, RecordPayment,
       SumPayments, PatchOrder, MapRecorded, ForwardToOmnivore, ReportPull
  <2> QED
    BY <1>1, <2>5, <2>6 DEF PullStep
<1>2. CASE Crash
  <2>1. \E j \in Pulls : pull' = [pull EXCEPT ![j] = Fetching(pull[j].wm)]
    BY <1>2 DEF Crash
  <2> QED
    BY <1>2, <2>1 DEF TypeInv, PullTyped, Crash, Fault
<1>3. ASSUME NEW e \in Execs, InjectionStep(e) PROVE FALSE
  BY <1>3 DEF InjectionStep, ReadPayment, ReadOrderInClover, PostPayment, WritePosId,
     WriteMapRow, CountSiblings, ClearIssue, EndInjection, injectionFrame
<1>4. ASSUME \/ UNCHANGED vars
             \/ \E c \in Staff : StaffPays(c)
             \/ \E c \in Charges : Changes(c)
             \/ \E m \in Mcm : LandLate(m) \/ Revive(m)
             \/ \E o \in Orders : OrderLinked(o)
             \/ \E e \in Execs, m \in Mcm : Start(e, m)
             \/ Tick
      PROVE  FALSE
  BY <1>4 DEF vars, StaffPays, Changes, LandLate, Revive, OrderLinked, Tick, Start
<1> QED
  BY <1>1, <1>2, <1>3, <1>4 DEF Next

LEMMA TwiceNext ==
  ASSUME IsFiniteSet(Mcm), TypeInv, TypeInv', OnceInv, LinkInv, TwiceInv, [Next]_vars
  PROVE  TwiceInv'
<1> SUFFICES ASSUME Calm' PROVE pulled' \cap Posts = {} /\ \A k \in Pulls : Exhausted(pull[k])'
  BY DEF TwiceInv
<1>0. /\ Calm /\ Quiet /\ faults \subseteq faults' /\ "blind" \notin faults'
      /\ \A m \in Mcm : Applied(m) => Applied(m)'
  BY QuietBefore, AppliedStays DEF Calm, Quiet
<1>1. ASSUME NEW k \in Pulls, RecordPayment(k) PROVE pulled' \cap Posts = {}
  <2> DEFINE c == Id(k)
  <2>1. /\ c \in Charges /\ InClover(c) /\ In(k, "upsert")
    BY <1>1 DEF RecordPayment, In, TypeInv, PullShape, Shaped, WithItem, PullPc, Id, FeedItem,
       LinkInv, Known
  <2>2. c \in Posts => RowsWith(c) # {}
    <3>1. c \in Posts => \A m \in Mcm : OrderOf[m] = OrderIn(c) => posId[m] # None
      BY <1>0, <2>1 DEF TwiceInv, Exhausted, In, Id, Applied
    <3>2. Single
      BY <1>0 DEF OnceInv
    <3> QED
      BY <2>1, <3>1, <3>2, EveryPostIsLinked
  <2>3. pulled' = pulled \/ (RowsWith(c) = {} /\ pulled' = pulled \cup {c})
    BY <1>1 DEF RecordPayment
  <2> QED
    BY <1>0, <2>2, <2>3 DEF TwiceInv
<1>2. pulled' \cap Posts = {}
  BY <1>0, <1>1, PulledBy DEF TwiceInv
<1>3. ASSUME NEW k \in Pulls, pull'[k].pc = "upsert", pull'[k].cur.id \in Posts,
             NEW m \in Mcm, OrderOf[m] = OrderIn(pull'[k].cur.id)
      PROVE  Applied(m)'
  <2>1. CASE pull'[k] = pull[k]
    BY <1>0, <1>3, <2>1 DEF TwiceInv, Exhausted
  <2>2. CASE PullStep(k)
    <3>1. Id(k) = pull'[k].cur.id /\ Unlinked(OrderIn(Id(k))) = {}
      BY <1>0, <1>3, <2>2, UpsertReached, PaymentsAssumption DEF Id
    <3>2. OrderOf[m] = OrderIn(Id(k))
      BY <1>3, <3>1
    <3>3. rowStatus[m] = "completed" => posId[m] # None
      BY <3>1, <3>2 DEF Unlinked, Completed, RowOrder
    <3>4. rowStatus[m] \in {"completed", "voided"}
      BY DEF TypeInv, RowsTyped, Rows
    <3> QED
      BY <1>0, <3>3, <3>4 DEF LinkInv, Linked, Applied
  <2>3. CASE pull'[k] = Fetching(pull[k].wm)
    BY <1>3, <2>3 DEF Fetching
  <2> QED
    BY <2>1, <2>2, <2>3, PullsMove
<1>4. \A k \in Pulls : Exhausted(pull[k])'
  BY <1>3 DEF Exhausted
<1> QED
  BY <1>2, <1>4

\* No POST of MCM is recorded a second time as a payment of its own, for any finite set of
\* payments, while no lock is overrun, no POST lands late and no statement fails: a pull that
\* finds every payment of the order linked is about to record a POST that one of them has,
\* because each payment was charged once.
THEOREM NeverRecordedTwice == ASSUME IsFiniteSet(Mcm) PROVE Spec => []NeverTwice
<1>1. TwiceInv => NeverTwice
  BY DEF TwiceInv, NeverTwice, Calm
<1>2. Init => OnceInv /\ LinkInv /\ TwiceInv
  <2>1. Init => TwiceInv
    BY DEF Init, TwiceInv, Exhausted, Resting
  <2> QED
    BY <2>1, OnceInit, LinkInit
<1>3. TypeInv /\ TypeInv' /\ OnceInv /\ LinkInv /\ TwiceInv /\ [Next]_vars =>
        OnceInv' /\ LinkInv' /\ TwiceInv'
  <2>1. OnceInv => Stamped
    BY DEF OnceInv
  <2> QED
    BY <2>1, OnceNext, LinkNext, TwiceNext
<1> QED
  BY <1>1, <1>2, <1>3, Typed, PTL DEF Spec

(* PaidAddsUp *)

\* One pull at a time, and nothing has failed.
Lone   == faults = {} /\ \A j, k \in Pulls : j = k
Due(r) == r \in pulled /\ rowStatus[r] = "completed"
Adding == {"sum", "patch"}

\* A sum about to be written has every completed row of the order that a pull made; such a row
\* counts in the order's paid, or the pull is about to sum the order.
SumComplete(k) == pull[k].pc = "patch" =>
                    \A r \in Rows : Due(r) /\ RowOrder(r) = OrderIn(Id(k)) => r \in pull[k].sum
Awaited(r)     == \E k \in Pulls : pull[k].pc \in Adding /\ OrderIn(Id(k)) = RowOrder(r)
SumInv == Lone => /\ \A k \in Pulls : SumComplete(k)
                  /\ \A r \in Rows : Due(r) => r \in paid[RowOrder(r)] \/ Awaited(r)

\* A pull that nothing else disturbs sums only after it recorded a row.
LEMMA SumReached ==
  ASSUME TypeInv, NEW k \in Pulls, PullStep(k), pull'[k].pc \in Adding
  PROVE  RecordPayment(k) \/ SumPayments(k)
<1>1. \/ RecordPayment(k) \/ SumPayments(k)
      \/ ReflectInMap(k) \/ LinkUnlinked(k) \/ PatchOrder(k)
      \/ ReflectInRow(k) \/ MapInjected(k) \/ MapLinked(k) \/ MapRecorded(k)
      \/ ForwardToOmnivore(k)
  BY Places, PullMoves DEF PullStep, Adding
<1>2. ~ReflectInMap(k) /\ ~LinkUnlinked(k) /\ ~PatchOrder(k)
  BY PullMoves DEF ReflectInMap, LinkUnlinked, PatchOrder, Adding
<1>3. ~ReflectInRow(k) /\ ~MapInjected(k) /\ ~MapLinked(k) /\ ~MapRecorded(k)
      /\ ~ForwardToOmnivore(k)
  BY PullMoves DEF ReflectInRow, MapInjected, MapLinked, MapRecorded, ForwardToOmnivore, Adding
<1> QED
  BY <1>1, <1>2, <1>3

\* Only PatchOrder writes what an order has been paid.
LEMMA PaidBy ==
  ASSUME [Next]_vars, \A k \in Pulls : ~PatchOrder(k)
  PROVE  UNCHANGED paid
<1>1. ASSUME NEW k \in Pulls, PullStep(k) PROVE UNCHANGED paid
  <2>1. ASSUME \/ BeginPull(k) \/ FetchFeed(k) \/ LookUpMap(k) \/ ReflectInMap(k)
               \/ ReflectInRow(k) \/ LookUpInjected(k) \/ MapInjected(k) \/ FindOrder(k)
        PROVE  UNCHANGED paid
    BY <2>1 DEF BeginPull, FetchFeed, LookUpMap, ReflectInMap, ReflectInRow, LookUpInjected,
       MapInjected, FindOrder
  <2>2. ASSUME \/ FindUnlinked(k) \/ LinkUnlinked(k) \/ MapLinked(k) \/ RecordPayment(k)
               \/ SumPayments(k) \/ MapRecorded(k) \/ ForwardToOmnivore(k) \/ ReportPull(k)
        PROVE  UNCHANGED paid
    BY <2>2 DEF FindUnlinked, LinkUnlinked, MapLinked, RecordPayment, SumPayments, MapRecorded,
       ForwardToOmnivore, ReportPull
  <2> QED
    BY <1>1, <2>1, <2>2 DEF PullStep
<1>2. ASSUME NEW e \in Execs, InjectionStep(e) PROVE UNCHANGED paid
  BY <1>2 DEF InjectionStep, ReadPayment, ReadOrderInClover, PostPayment, WritePosId,
     WriteMapRow, CountSiblings, ClearIssue, EndInjection, injectionFrame
<1>3. ASSUME \/ UNCHANGED vars
             \/ \E c \in Staff : StaffPays(c)
             \/ \E c \in Charges : Changes(c)
             \/ \E m \in Mcm : LandLate(m) \/ Revive(m)
             \/ \E o \in Orders : OrderLinked(o)
             \/ \E e \in Execs, m \in Mcm : Start(e, m)
             \/ Tick \/ Crash
      PROVE  UNCHANGED paid
  BY <1>3 DEF vars, StaffPays, Changes, LandLate, Revive, OrderLinked, Tick, Start, Crash,
     orderVars
<1> QED
  BY <1>1, <1>2, <1>3 DEF Next

\* The row that a payment is recorded in: the payment's own, or one of MCM's.
LEMMA RecordedRow ==
  ASSUME TypeInv, NEW k \in Pulls, RecordPayment(k), "blind" \notin faults', NEW c, c = Id(k)
  PROVE  /\ c \in Charges /\ pull[k].pc = "upsert"
         /\ pull'[k].cur = pull[k].cur
         /\ pull'[k].pc = IF Item(k).fate = "voided" THEN "map" ELSE "sum"
         /\ \A r \in Rows : Due(r)' => Due(r) \/ (r = c /\ Item(k).fate # "voided")
<1> DEFINE x == IF RowsWith(c) = {} THEN c ELSE CHOOSE y \in RowsWith(c) : TRUE
           pc == IF Item(k).fate = "voided" THEN "map" ELSE "sum"
           s == IF Item(k).fate = "voided" THEN "voided" ELSE "completed"
           p == [pull[k] EXCEPT !.row = x, !.pc = pc]
<1>0. /\ pull[k] \in PullState /\ rowStatus \in [Rows -> {"completed", "voided"}]
      /\ pulled \subseteq Charges /\ Mcm \cap Charges = {}
  BY PaymentsAssumption DEF TypeInv, PullTyped, RowsTyped, Charges
<1>1. c \in Charges /\ pull[k].pc = "upsert"
  BY DEF RecordPayment, In, TypeInv, PullShape, Shaped, WithItem, PullPc, Id, FeedItem
<1>2. /\ PullIs(k, p) /\ rowStatus' = [rowStatus EXCEPT ![x] = s]
      /\ pulled' = IF RowsWith(c) = {} THEN pulled \cup {c} ELSE pulled
  BY DEF RecordPayment, Fault
<1>3. x = c \/ x \in RowsWith(c)
  OBVIOUS
<1>4. x = c \/ (x \in Mcm /\ RowsWith(c) # {})
  BY <1>3, PullFacts
<1>5. c \in pulled => c \in RowsWith(c)
  BY DEF RowsWith
<1> HIDE DEF x
<1>6. p.cur = pull[k].cur /\ p.pc = pc
  BY <1>0
<1> HIDE DEF p
<1>7. pull'[k].cur = pull[k].cur /\ pull'[k].pc = pc
  BY <1>2, <1>6, PullMoves
<1>8. \A r \in Rows : Due(r)' => Due(r) \/ r = c
  BY <1>0, <1>1, <1>2, <1>4 DEF Due
<1>9. Due(c)' => Item(k).fate # "voided" \/ Due(c)
  <2> SUFFICES ASSUME Due(c)', Item(k).fate = "voided" PROVE Due(c)
    OBVIOUS
  <2>1. rowStatus' = [rowStatus EXCEPT ![x] = "voided"]
    BY <1>2
  <2>2. c \in Rows
    BY <1>1 DEF Rows
  <2>3. c \in pulled' /\ rowStatus'[c] = "completed"
    BY DEF Due
  <2>4. x # c
    BY <1>0, <2>1, <2>2, <2>3
  <2>5. rowStatus[c] = "completed" /\ c \in pulled
    BY <1>0, <1>2, <1>4, <2>1, <2>2, <2>3, <2>4
  <2> QED
    BY <2>5 DEF Due
<1> QED
  BY <1>1, <1>7, <1>8, <1>9

LEMMA SumNext ==
  ASSUME TypeInv, TypeInv', SumInv, [Next]_vars
  PROVE  SumInv'
<1> SUFFICES ASSUME Lone'
             PROVE  /\ \A k \in Pulls : SumComplete(k)'
                    /\ \A r \in Rows : Due(r)' => r \in paid'[RowOrder(r)] \/ Awaited(r)'
  BY DEF SumInv, RowOrder, OrderIn
<1>0. /\ faults = {} /\ faults' = {} /\ \A j, k \in Pulls : j = k
      /\ \A k \in Pulls : SumComplete(k)
      /\ \A r \in Rows : Due(r) => r \in paid[RowOrder(r)] \/ Awaited(r)
  BY QuietBefore DEF Lone, SumInv
<1>1. CASE UNCHANGED <<pulled, rowStatus, paid, pull>>
  <2>1. \A k \in Pulls : SumComplete(k)'
    BY <1>0, <1>1 DEF SumComplete, Due, Id
  <2>2. \A r \in Rows : Due(r)' => r \in paid'[RowOrder(r)] \/ Awaited(r)'
    BY <1>0, <1>1 DEF Due, Awaited, Id
  <2> QED
    BY <2>1, <2>2
<1>2. CASE UNCHANGED pull
  <2>1. \A k \in Pulls : ~RecordPayment(k) /\ ~PatchOrder(k)
    <3>1. ASSUME NEW k \in Pulls, PatchOrder(k) PROVE FALSE
      BY <1>2, <3>1, PullMoves DEF PatchOrder, In
    <3>2. ASSUME NEW k \in Pulls, RecordPayment(k) PROVE FALSE
      BY <1>2, <3>2, Places DEF RecordPayment, In
    <3> QED
      BY <3>1, <3>2
  <2> QED
    BY <1>1, <1>2, <2>1, PulledBy, PaidBy
<1>3. ASSUME NEW k \in Pulls, PullStep(k), \A j \in Pulls : j = k
      PROVE  /\ SumComplete(k)'
             /\ \A r \in Rows : Due(r)' => r \in paid'[RowOrder(r)] \/ Awaited(r)'
  <2>0. "blind" \notin faults' /\ pull[k] \in PullState
    BY <1>0 DEF TypeInv, PullTyped
  <2>1. CASE RecordPayment(k)
    <3>1. SumComplete(k)'
      BY <1>3, <2>0, <2>1, RecordedRow DEF SumComplete
    <3>2. ASSUME NEW r \in Rows, Due(r)' PROVE r \in paid'[RowOrder(r)] \/ Awaited(r)'
      <4>1. UNCHANGED paid /\ pull[k].pc \notin Adding
        BY <2>1 DEF RecordPayment, In, Adding
      <4>2. CASE Due(r)
        BY <1>0, <1>3, <4>1, <4>2 DEF Awaited
      <4>3. CASE ~Due(r)
        <5>0. PICK c : c = Id(k)
          OBVIOUS
        <5>1. r = Id(k) /\ Item(k).fate # "voided" /\ r \in Charges
          BY <2>0, <2>1, <3>2, <4>3, <5>0, RecordedRow
        <5>2. RowOrder(r) = OrderIn(Id(k))
          BY <5>1, PaymentsAssumption DEF RowOrder, Charges
        <5>3. pull'[k].pc \in Adding /\ pull'[k].cur = pull[k].cur
          BY <2>0, <2>1, <5>1, RecordedRow DEF Adding
        <5> QED
          BY <5>2, <5>3 DEF Awaited, Id
      <4> QED
        BY <4>2, <4>3
    <3> QED
      BY <3>1, <3>2
  <2>2. CASE SumPayments(k)
    <3>1. /\ UNCHANGED <<pulled, rowStatus, paid>> /\ pull[k].pc = "sum" /\ NoFault
      BY <2>0, <2>2 DEF SumPayments, rowVars, In, Fault
    <3>2. /\ pull'[k].pc = "patch" /\ pull'[k].cur = pull[k].cur /\ pull'[k].sum = Summed(k)
      BY <2>2, <3>1, SumPlaces
    <3>3. SumComplete(k)'
      BY <3>1, <3>2 DEF SumComplete, Summed, Completed, Due, Id
    <3>4. \A r \in Rows : Due(r)' => r \in paid'[RowOrder(r)] \/ Awaited(r)'
      BY <1>0, <1>3, <3>1, <3>2 DEF Due, Awaited, Adding, Id
    <3> QED
      BY <3>3, <3>4
  <2>3. CASE PatchOrder(k)
    <3>1. /\ UNCHANGED <<pulled, rowStatus>> /\ pull[k].pc = "patch" /\ pull'[k].pc = "map"
          /\ paid' = [paid EXCEPT ![OrderIn(Id(k))] = pull[k].sum]
      BY <2>0, <2>3, PullMoves DEF PatchOrder, rowVars, In, Fault
    <3>2. OrderIn(Id(k)) \in Orders /\ paid \in [Orders -> SUBSET Rows]
      BY <3>1, ChargeTypes DEF TypeInv, PullShape, Shaped, WithItem, PullPc, Id, FeedItem,
         OrdersTyped
    <3>3. SumComplete(k)'
      BY <3>1 DEF SumComplete
    <3>4. ASSUME NEW r \in Rows, Due(r)' PROVE r \in paid'[RowOrder(r)]
      <4>1. Due(r)
        BY <3>1, <3>4 DEF Due
      <4>2. CASE RowOrder(r) = OrderIn(Id(k))
        BY <1>0, <3>1, <3>2, <4>1, <4>2 DEF SumComplete
      <4>3. CASE RowOrder(r) # OrderIn(Id(k))
        BY <1>0, <1>3, <3>1, <3>2, <4>1, <4>3 DEF Awaited
      <4> QED
        BY <4>2, <4>3
    <3> QED
      BY <3>3, <3>4
  <2>4. CASE ~RecordPayment(k) /\ ~SumPayments(k) /\ ~PatchOrder(k)
    <3>1. UNCHANGED <<pulled, rowStatus, paid>>
      <4>1. \A j \in Pulls : ~RecordPayment(j) /\ ~PatchOrder(j)
        BY <1>3, <2>4
      <4> QED
        BY <4>1, PulledBy, PaidBy
    <3>2. pull'[k].pc \notin Adding
      BY <1>3, <2>4, SumReached
    <3>3. SumComplete(k)'
      BY <3>2 DEF SumComplete, Adding
    <3>4. pull[k].pc \notin Adding
      BY <1>3, <2>4 DEF PullStep, BeginPull, FetchFeed, LookUpMap, ReflectInMap, ReflectInRow,
         LookUpInjected, MapInjected, FindOrder, FindUnlinked, LinkUnlinked, MapLinked,
         MapRecorded, ForwardToOmnivore, ReportPull, In, Adding
    <3>5. \A r \in Rows : Due(r)' => r \in paid'[RowOrder(r)]
      BY <1>0, <1>3, <3>1, <3>4 DEF Due, Awaited
    <3> QED
      BY <3>3, <3>5
  <2> QED
    BY <2>1, <2>2, <2>3, <2>4
<1>4. CASE ~UNCHANGED pull
  <2>1. PICK k \in Pulls : pull'[k] # pull[k]
    BY <1>4 DEF TypeInv, PullTyped
  <2>2. PullStep(k)
    BY <1>0, <2>1, PullsMove
  <2> QED
    BY <1>0, <1>3, <2>2
<1> QED
  BY <1>2, <1>4

\* With one pull at a time and no fault, what a pull records counts in the order's paid when
\* the pull is over, for any payments of any orders: the sum is read after the row is written
\* and nothing comes between the sum and the patch.
THEOREM RecordedIsPaid == ASSUME IsFiniteSet(Pulls) PROVE Spec => []PaidAddsUp
<1>1. TypeInv /\ SumInv => PaidAddsUp
  <2> SUFFICES ASSUME TypeInv, SumInv, faults = {}, Cardinality(Pulls) = 1,
                      \A k \in Pulls : pull[k].pc = "idle",
                      NEW r \in pulled, rowStatus[r] = "completed"
               PROVE  r \in paid[RowOrder(r)]
    BY DEF PaidAddsUp
  <2>1. \A j, k \in Pulls : j = k
    <3>1. PICK x : Pulls = {x}
      BY FS_Singleton
    <3> QED
      BY <3>1
  <2>2. ~Awaited(r)
    BY DEF Awaited, Adding
  <2>3. r \in Rows
    BY DEF TypeInv, RowsTyped, Rows
  <2> QED
    BY <2>1, <2>2, <2>3 DEF SumInv, Lone, Due
<1>2. Init => SumInv
  BY DEF Init, SumInv, SumComplete, Due, Resting
<1> QED
  BY <1>1, <1>2, SumNext, Typed, PTL DEF Spec
=============================================================================
