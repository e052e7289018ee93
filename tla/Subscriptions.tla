--------------------------- MODULE Subscriptions ---------------------------
(***************************************************************************)
(* subs.apply_payment: the paid orders of one customer become              *)
(* subscriptions, one per unit bought.  A job is executed by one process   *)
(* at a time; it may fail or die at any await and is then tried again from *)
(* the top, so each step looks at what an earlier attempt left.  The jobs  *)
(* of two orders of the customer overlap freely: they share the asset the  *)
(* orders may name and the customer's default card.  Each attempt looks up *)
(* whose the order is, and may find nobody.                                *)
(***************************************************************************)
EXTENDS Naturals, FiniteSets

CONSTANTS
  Orders,
  Units,        \* the units of plans each order bought
  Wants,        \* the orders that name the customer's asset
  Fits,         \* the units whose plan suits the model of the asset
  Automatic,         \* the units whose cadence may be charged by itself
  Card,         \* the test card each order was paid with, or None
  MaxAttempts,
  Faults,       \* bound: how many of Kinds happen in one behaviour
  None

\* What may happen besides the code's own steps, each kind once.
Kinds == {"blind", "unseen", "guest", "fails", "fails2", "dies", "dies2", "requeue", "staff",
          "unwritten"}

VARIABLES
  plan,   \* subs_subscriptions and subs_periods, per order and unit
  asset,  \* status of the asset
  vault,  \* subs_instruments: the cards stored, and those marked default
  row,    \* status of each order
  job,    \* the job of each order and its execution
  used    \* the kinds that happened

vars == <<plan, asset, vault, row, job, used>>

NoPlan  == [n |-> 0, asset |-> FALSE, period |-> FALSE, card |-> None]
Cards   == {Card[o] : o \in Orders} \ {None}
Fresh   == [pc |-> "start", todo |-> {}, unit |-> None, asset |-> FALSE, plans |-> FALSE,
            owned |-> FALSE, tries |-> 0, silent |-> FALSE]

TypeOK ==
  /\ plan \in [Orders -> [Units -> [n : Nat, asset : BOOLEAN, period : BOOLEAN, card : Cards \cup {None}]]]
  /\ asset \in {"registered", "active"}
  /\ vault \in [stored : SUBSET Cards, default : SUBSET Cards]
  /\ row \in [Orders -> {"new-order", "in-kitchen", "check-closed"}]
  /\ \A o \in Orders :
       /\ job[o].pc \in {"start", "units", "make", "period", "activate", "demote", "save",
                         "attach", "done", "dead"}
       /\ job[o].todo \subseteq Units /\ job[o].tries \in 0 .. MaxAttempts
  /\ used \subseteq Kinds

Init ==
  /\ plan = [o \in Orders |-> [u \in Units |-> NoPlan]]
  /\ asset = "registered" /\ vault = [stored |-> {}, default |-> {}]
  /\ row = [o \in Orders |-> "new-order"]
  /\ job = [o \in Orders |-> Fresh] /\ used = {}

Happens(k) == k \in Kinds \ used /\ Cardinality(used) < Faults /\ used' = used \cup {k}
At(o, pc)  == job[o].pc = pc
Go(o, pc)  == job' = [job EXCEPT ![o].pc = pc]

---------------------------------------------------------------------------
(* What the handler reads before it writes.                                *)

\* loadSettings, loadPayment, loadOrders and loadPublishedTerms drop the error
\* of their reads: a failed one looks like a module that is off, no lines or no
\* terms, and the job completes having done nothing, or like no payment, which
\* is fatal.
Blind(o) ==
  /\ Happens("blind")
  /\ \/ job' = [job EXCEPT ![o].pc = "done", ![o].silent = TRUE]
     \/ Go(o, "dead")

Read(o) ==
  /\ At(o, "start")
  /\ \/ Go(o, "units") /\ UNCHANGED used
     \/ Blind(o)
  /\ UNCHANGED <<plan, asset, vault, row>>

\* Wrong variants, for the tests of the properties: idempotence per order, and a
\* card only for the plans of this attempt.
MissingByOrder(o) == IF \E u \in Units : plan[o][u].n > 0 THEN {} ELSE Units
HadNone(o)        == FALSE

\* equipoActivable: the asset the order names, unless it carries a live plan.  A
\* failed read of the asset is no asset, a failed count of its plans is no plan.
Existing(o)   == {u \in Units : plan[o][u].n > 0}
HadPlans(o)   == Existing(o) # {}
Missing(o)    == Units \ Existing(o)
LivePlan      == \E o \in Orders, u \in Units : plan[o][u].asset
Attachable(o) == o \in Wants /\ ~LivePlan

\* An order nobody owns yet ("guest": no account has its e-mail, no customer its
\* telephone) names no asset.
LookAtUnits(o) ==
  /\ At(o, "units")
  /\ \E owned, found \in BOOLEAN :
       /\ \/ owned /\ found = Attachable(o) /\ UNCHANGED used
          \/ owned /\ found # Attachable(o) /\ o \in Wants /\ Happens("unseen")
          \/ ~owned /\ ~found /\ Happens("guest")
       /\ job' = [job EXCEPT ![o] = [@ EXCEPT !.pc = "make", !.todo = Missing(o), !.plans = HadPlans(o),
                                              !.unit = None, !.owned = owned, !.asset = found]]
  /\ UNCHANGED <<plan, asset, vault, row>>

---------------------------------------------------------------------------
(* Each missing unit: the subscription, its first period, its asset.       *)

Uses(o, u) == job[o].asset /\ u \in Fits

InsertPlan(o) ==
  /\ At(o, "make")
  /\ \E u \in job[o].todo :
       /\ \A v \in job[o].todo : u <= v
       /\ plan' = [plan EXCEPT ![o][u].n = @ + 1, ![o][u].asset = Uses(o, u)]
       /\ job' = [job EXCEPT ![o] = [@ EXCEPT !.pc = "period", !.unit = u, !.plans = TRUE,
                                              !.todo = job[o].todo \ {u}]]
  /\ UNCHANGED <<asset, vault, row, used>>

InsertPeriod(o) ==
  /\ At(o, "period")
  /\ plan' = [plan EXCEPT ![o][job[o].unit].period = TRUE]
  /\ Go(o, IF Uses(o, job[o].unit) THEN "activate" ELSE "make")
  /\ UNCHANGED <<asset, vault, row, used>>

\* activarEquipo, encolarAltaServicio and avisarEquipoActivado: none of them
\* fails the handler; an update that fails is logged.
Activated ==
  \/ asset' = "active" /\ UNCHANGED used
  \/ Happens("unwritten") /\ UNCHANGED asset

\* One asset, one plan.
Activate(o) ==
  /\ At(o, "activate")
  /\ Activated
  /\ job' = [job EXCEPT ![o].pc = "make", ![o].asset = FALSE]
  /\ UNCHANGED <<plan, vault, row>>

\* cerrarOrdenSoloPlanes: an order nobody moved (the orders have plans only); an
\* update that fails is logged.
Closed(o) ==
  \/ row' = [row EXCEPT ![o] = IF @ = "new-order" THEN "check-closed" ELSE @] /\ UNCHANGED used
  \/ row[o] = "new-order" /\ Happens("unwritten") /\ UNCHANGED row

CloseOrder(o) ==
  /\ At(o, "make") /\ job[o].todo = {}
  /\ Closed(o)
  /\ Go(o, IF job[o].plans /\ job[o].owned /\ Card[o] # None THEN "demote" ELSE "done")
  /\ UNCHANGED <<plan, asset, vault>>

---------------------------------------------------------------------------
(* The card, also when this attempt had no unit left to create.            *)

DemoteOthers(o) ==
  /\ At(o, "demote")
  /\ vault' = [vault EXCEPT !.default = @ \cap {Card[o]}]
  /\ Go(o, "save") /\ UNCHANGED <<plan, asset, row, used>>

Failing(o) == [job[o] EXCEPT !.tries = IF @ < MaxAttempts THEN @ + 1 ELSE @,
                             !.pc    = IF job[o].tries + 1 < MaxAttempts THEN "start" ELSE "dead"]

\* subs_instruments_default_uq admits one default card: the upsert throws when
\* another order's card became the default since.
SaveCard(o) ==
  /\ At(o, "save")
  /\ IF vault.default \subseteq {Card[o]}
     THEN /\ vault' = [stored |-> vault.stored \cup {Card[o]}, default |-> {Card[o]}]
          /\ Go(o, "attach")
     ELSE job' = [job EXCEPT ![o] = Failing(o)] /\ UNCHANGED vault
  /\ UNCHANGED <<plan, asset, row, used>>

\* attachInstrumentToOrder: the plans collected automatically; a long cadence is
\* collected by hand.
AttachCard(o) ==
  /\ At(o, "attach")
  /\ plan' = [plan EXCEPT ![o] = [u \in Units |->
                IF @[u].n > 0 /\ u \in Automatic /\ @[u].card = None THEN [@[u] EXCEPT !.card = Card[o]] ELSE @[u]]]
  /\ Go(o, "done") /\ UNCHANGED <<asset, vault, row, used>>

---------------------------------------------------------------------------
(* Failures and people.                                                    *)

Fail(o) ==
  /\ job[o].pc \in {"units", "make", "period", "demote", "save", "attach"}
  /\ \/ (Happens("fails") \/ Happens("fails2")) /\ job' = [job EXCEPT ![o] = Failing(o)]
     \/ (Happens("dies") \/ Happens("dies2")) /\ Go(o, "start")
  /\ UNCHANGED <<plan, asset, vault, row>>

Requeue(o) ==
  /\ At(o, "dead") /\ Happens("requeue")
  /\ job' = [job EXCEPT ![o].pc = "start", ![o].tries = 0]
  /\ UNCHANGED <<plan, asset, vault, row>>

StaffMoves(o) ==
  /\ row[o] = "new-order" /\ Happens("staff")
  /\ row' = [row EXCEPT ![o] = "in-kitchen"]
  /\ UNCHANGED <<plan, asset, vault, job>>

Next == \E o \in Orders :
  \/ Read(o) \/ LookAtUnits(o) \/ InsertPlan(o) \/ InsertPeriod(o) \/ Activate(o) \/ CloseOrder(o)
  \/ DemoteOthers(o) \/ SaveCard(o) \/ AttachCard(o) \/ Fail(o) \/ Requeue(o) \/ StaffMoves(o)

Spec == Init /\ [][Next]_vars

---------------------------------------------------------------------------
(* Properties.                                                             *)

\* However often the job fails or dies within a fleet, no unit is subscribed
\* twice and, once the job says it is done, none that was paid for is missing
\* (apply-payment.ts: idempotence per unit).
PaidInFull ==
  /\ \A o \in Orders, u \in Units : plan[o][u].n <= 1
  /\ \A o \in Orders : At(o, "done") /\ ~job[o].silent => \A u \in Units : plan[o][u].n = 1

\* A done order paid by card, whose owner its last attempt knew, has that card on
\* each of its plans collected automatically and on no other, whichever attempt
\* created them and whatever the customer's other order did meanwhile.
CardReachesEveryPlan == \A o \in Orders :
  At(o, "done") /\ ~job[o].silent /\ job[o].owned /\ Card[o] # None =>
    /\ Card[o] \in vault.stored
    /\ \A u \in Units : plan[o][u].card = IF u \in Automatic THEN Card[o] ELSE None

\* Does not hold.  What the guard of equipoActivable is for; the guard is read long before the
\* plan is inserted, so two orders that name one asset both pass it.
OneLivePlanPerAsset ==
  Cardinality({w \in Orders \X Units : plan[w[1]][w[2]].asset}) <= 1

\* Does not hold.  Every plan has its first, paid, period; a job that died between the two
\* inserts finds the unit existing and never returns to it.
EveryPlanHasItsPeriod == \A o \in Orders :
  At(o, "done") => \A u \in Units : plan[o][u].n > 0 => plan[o][u].period
=============================================================================
