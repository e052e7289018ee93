--------------------------- MODULE Handlers_proofs ---------------------------
(***************************************************************************)
(* From the components to their union MCHandlers: a behaviour of the union *)
(* is, in its slots, a behaviour of the component it chose, and so has the *)
(* properties proved of that component.                                    *)
(***************************************************************************)
EXTENDS MCHandlers, Sequences, TLAPS

---------------------------------------------------------------------------
(* A behaviour is its component's.                                         *)

\* The component of a behaviour stays the one it chose.
LEMMA Chosen == [Next]_vars => UNCHANGED which
  BY DEF Next, vars

OnEngine == which = "engine"
LEMMA ItsEngine == Spec => []~OnEngine \/ (Engine!Spec /\ []OnEngine)
<1>1. /\ Init /\ OnEngine => Engine!Init
      /\ [Next]_vars => (OnEngine' <=> OnEngine)
      /\ OnEngine /\ [Next]_vars => [Engine!Next]_(Engine!vars)
  BY Chosen DEF Init, Next, vars, Engine!vars, Engine!rowVars, Engine!stepVars, Engine!slotVars,
     Engine!opVars, OnEngine
<1> QED BY <1>1, PTL DEF Spec, Engine!Spec

OnOrder == which = "order"
LEMMA ItsOrder == Spec => []~OnOrder \/ (Injection1!Spec /\ []OnOrder)
<1>1. /\ Init /\ OnOrder => Injection1!Init
      /\ [Next]_vars => (OnOrder' <=> OnOrder)
      /\ OnOrder /\ [Next]_vars => [Injection1!Next]_(Injection1!vars)
  BY Chosen DEF Init, Next, vars, Injection1!vars, OnOrder
<1> QED BY <1>1, PTL DEF Spec, Injection1!Spec

OnSplit == which = "split"
LEMMA ItsSplit == Spec => []~OnSplit \/ (Injection2!Spec /\ []OnSplit)
<1>1. /\ Init /\ OnSplit => Injection2!Init
      /\ [Next]_vars => (OnSplit' <=> OnSplit)
      /\ OnSplit /\ [Next]_vars => [Injection2!Next]_(Injection2!vars)
  BY Chosen DEF Init, Next, vars, Injection2!vars, OnSplit
<1> QED BY <1>1, PTL DEF Spec, Injection2!Spec

OnPush == which = "push"
LEMMA ItsPush == Spec => []~OnPush \/ (Injection1!Clover!Spec /\ []OnPush)
<1>1. /\ Init /\ OnPush => Injection1!Clover!Init
      /\ [Next]_vars => (OnPush' <=> OnPush)
      /\ OnPush /\ [Next]_vars => [Injection1!Clover!Next]_(Injection1!Clover!vars)
  BY Chosen DEF Init, Next, vars, Injection1!Clover!vars, OnPush
<1> QED BY <1>1, PTL DEF Spec, Injection1!Clover!Spec

OnPushes == which = "pushes"
LEMMA ItsPushes == Spec => []~OnPushes \/ (Injection2!Clover!Spec /\ []OnPushes)
<1>1. /\ Init /\ OnPushes => Injection2!Clover!Init
      /\ [Next]_vars => (OnPushes' <=> OnPushes)
      /\ OnPushes /\ [Next]_vars => [Injection2!Clover!Next]_(Injection2!Clover!vars)
  BY Chosen DEF Init, Next, vars, Injection2!Clover!vars, OnPushes
<1> QED BY <1>1, PTL DEF Spec, Injection2!Clover!Spec

OnTender == which = "tender"
LEMMA ItsTender == Spec => []~OnTender \/ (Upkeep!Tender!Spec /\ []OnTender)
<1>1. /\ Init /\ OnTender => Upkeep!Tender!Init
      /\ [Next]_vars => (OnTender' <=> OnTender)
      /\ OnTender /\ [Next]_vars => [Upkeep!Tender!Next]_(Upkeep!Tender!vars)
  BY Chosen DEF Init, Next, vars, Upkeep!Tender!vars, OnTender
<1> QED BY <1>1, PTL DEF Spec, Upkeep!Tender!Spec

OnPlans == which = "plans"
LEMMA ItsPlans == Spec => []~OnPlans \/ (Upkeep!Plans!Spec /\ []OnPlans)
<1>1. /\ Init /\ OnPlans => Upkeep!Plans!Init
      /\ [Next]_vars => (OnPlans' <=> OnPlans)
      /\ OnPlans /\ [Next]_vars => [Upkeep!Plans!Next]_(Upkeep!Plans!vars)
  BY Chosen DEF Init, Next, vars, Upkeep!Plans!vars, OnPlans
<1> QED BY <1>1, PTL DEF Spec, Upkeep!Plans!Spec

OnLoops == which = "loops"
LEMMA ItsLoops == Spec => []~OnLoops \/ (ClaimLoops!Spec /\ []OnLoops)
<1>1. /\ Init /\ OnLoops => ClaimLoops!Init
      /\ [Next]_vars => (OnLoops' <=> OnLoops)
      /\ OnLoops /\ [Next]_vars => [ClaimLoops!Next]_(ClaimLoops!vars)
  BY Chosen DEF Init, Next, vars, ClaimLoops!vars, OnLoops
<1> QED BY <1>1, PTL DEF Spec, ClaimLoops!Spec

OnBreaker == which = "breaker"
LEMMA ItsBreaker == Spec => []~OnBreaker \/ (Breaker!Spec /\ []OnBreaker)
<1>1. /\ Init /\ OnBreaker => Breaker!Init
      /\ [Next]_vars => (OnBreaker' <=> OnBreaker)
      /\ OnBreaker /\ [Next]_vars => [Breaker!Next]_(Breaker!vars)
  BY Chosen DEF Init, Next, vars, Breaker!vars, OnBreaker
<1> QED BY <1>1, PTL DEF Spec, Breaker!Spec

OnProducts == which = "products"
LEMMA ItsProducts == Spec => []~OnProducts \/ (Site1!Catalog!Spec /\ []OnProducts)
<1>1. /\ Init /\ OnProducts => Site1!Catalog!Init
      /\ [Next]_vars => (OnProducts' <=> OnProducts)
      /\ OnProducts /\ [Next]_vars => [Site1!Catalog!Next]_(Site1!Catalog!vars)
  BY Chosen DEF Init, Next, vars, Site1!Catalog!vars, OnProducts
<1> QED BY <1>1, PTL DEF Spec, Site1!Catalog!Spec

OnModifiers == which = "modifiers"
LEMMA ItsModifiers == Spec => []~OnModifiers \/ (Site2!Catalog!Spec /\ []OnModifiers)
<1>1. /\ Init /\ OnModifiers => Site2!Catalog!Init
      /\ [Next]_vars => (OnModifiers' <=> OnModifiers)
      /\ OnModifiers /\ [Next]_vars => [Site2!Catalog!Next]_(Site2!Catalog!vars)
  BY Chosen DEF Init, Next, vars, Site2!Catalog!vars, OnModifiers
<1> QED BY <1>1, PTL DEF Spec, Site2!Catalog!Spec

OnCategories == which = "categories"
LEMMA ItsCategories == Spec => []~OnCategories \/ (Site3!Catalog!Spec /\ []OnCategories)
<1>1. /\ Init /\ OnCategories => Site3!Catalog!Init
      /\ [Next]_vars => (OnCategories' <=> OnCategories)
      /\ OnCategories /\ [Next]_vars => [Site3!Catalog!Next]_(Site3!Catalog!vars)
  BY Chosen DEF Init, Next, vars, Site3!Catalog!vars, OnCategories
<1> QED BY <1>1, PTL DEF Spec, Site3!Catalog!Spec

OnTables == which = "tables"
LEMMA ItsTables == Spec => []~OnTables \/ (Site4!Catalog!Spec /\ []OnTables)
<1>1. /\ Init /\ OnTables => Site4!Catalog!Init
      /\ [Next]_vars => (OnTables' <=> OnTables)
      /\ OnTables /\ [Next]_vars => [Site4!Catalog!Next]_(Site4!Catalog!vars)
  BY Chosen DEF Init, Next, vars, Site4!Catalog!vars, OnTables
<1> QED BY <1>1, PTL DEF Spec, Site4!Catalog!Spec

OnMenu == which = "menu"
LEMMA ItsMenu == Spec => []~OnMenu \/ (Upkeep!Menu!Spec /\ []OnMenu)
<1>1. /\ Init /\ OnMenu => Upkeep!Menu!Init
      /\ [Next]_vars => (OnMenu' <=> OnMenu)
      /\ OnMenu /\ [Next]_vars => [Upkeep!Menu!Next]_(Upkeep!Menu!vars)
  BY Chosen DEF Init, Next, vars, Upkeep!Menu!vars, OnMenu
<1> QED BY <1>1, PTL DEF Spec, Upkeep!Menu!Spec

OnCloverRoster == which = "croster"
LEMMA ItsCloverRoster == Spec => []~OnCloverRoster \/ (Site1!Roster!Spec /\ []OnCloverRoster)
<1>1. /\ Init /\ OnCloverRoster => Site1!Roster!Init
      /\ [Next]_vars => (OnCloverRoster' <=> OnCloverRoster)
      /\ OnCloverRoster /\ [Next]_vars => [Site1!Roster!Next]_(Site1!Roster!vars)
  BY Chosen DEF Init, Next, vars, Site1!Roster!vars, OnCloverRoster
<1> QED BY <1>1, PTL DEF Spec, Site1!Roster!Spec

OnOmnivoreRoster == which = "oroster"
LEMMA ItsOmnivoreRoster == Spec => []~OnOmnivoreRoster \/ (Site2!Roster!Spec /\ []OnOmnivoreRoster)
<1>1. /\ Init /\ OnOmnivoreRoster => Site2!Roster!Init
      /\ [Next]_vars => (OnOmnivoreRoster' <=> OnOmnivoreRoster)
      /\ OnOmnivoreRoster /\ [Next]_vars => [Site2!Roster!Next]_(Site2!Roster!vars)
  BY Chosen DEF Init, Next, vars, Site2!Roster!vars, OnOmnivoreRoster
<1> QED BY <1>1, PTL DEF Spec, Site2!Roster!Spec

OnManyRosters == which = "mroster"
LEMMA ItsManyRosters == Spec => []~OnManyRosters \/ (Upkeep!Rosters!Spec /\ []OnManyRosters)
<1>1. /\ Init /\ OnManyRosters => Upkeep!Rosters!Init
      /\ [Next]_vars => (OnManyRosters' <=> OnManyRosters)
      /\ OnManyRosters /\ [Next]_vars => [Upkeep!Rosters!Next]_(Upkeep!Rosters!vars)
  BY Chosen DEF Init, Next, vars, Upkeep!Rosters!vars, OnManyRosters
<1> QED BY <1>1, PTL DEF Spec, Upkeep!Rosters!Spec

OnGroups == which = "groups"
LEMMA ItsGroups == Spec => []~OnGroups \/ (Upkeep!Options!Spec /\ []OnGroups)
<1>1. /\ Init /\ OnGroups => Upkeep!Options!Init
      /\ [Next]_vars => (OnGroups' <=> OnGroups)
      /\ OnGroups /\ [Next]_vars => [Upkeep!Options!Next]_(Upkeep!Options!vars)
  BY Chosen DEF Init, Next, vars, Upkeep!Options!vars, OnGroups
<1> QED BY <1>1, PTL DEF Spec, Upkeep!Options!Spec

OnSeal == which = "seal"
LEMMA ItsSeal == Spec => []~OnSeal \/ (Site1!Wiring!Spec /\ []OnSeal)
<1>1. /\ Init /\ OnSeal => Site1!Wiring!Init
      /\ [Next]_vars => (OnSeal' <=> OnSeal)
      /\ OnSeal /\ [Next]_vars => [Site1!Wiring!Next]_(Site1!Wiring!vars)
  BY Chosen DEF Init, Next, vars, Site1!Wiring!vars, OnSeal
<1> QED BY <1>1, PTL DEF Spec, Site1!Wiring!Spec

OnCaching == which = "caching"
LEMMA ItsCaching == Spec => []~OnCaching \/ (Site2!Wiring!Spec /\ []OnCaching)
<1>1. /\ Init /\ OnCaching => Site2!Wiring!Init
      /\ [Next]_vars => (OnCaching' <=> OnCaching)
      /\ OnCaching /\ [Next]_vars => [Site2!Wiring!Next]_(Site2!Wiring!vars)
  BY Chosen DEF Init, Next, vars, Site2!Wiring!vars, OnCaching
<1> QED BY <1>1, PTL DEF Spec, Site2!Wiring!Spec

OnStock == which = "stock"
LEMMA ItsStock == Spec => []~OnStock \/ (Site3!Wiring!Spec /\ []OnStock)
<1>1. /\ Init /\ OnStock => Site3!Wiring!Init
      /\ [Next]_vars => (OnStock' <=> OnStock)
      /\ OnStock /\ [Next]_vars => [Site3!Wiring!Next]_(Site3!Wiring!vars)
  BY Chosen DEF Init, Next, vars, Site3!Wiring!vars, OnStock
<1> QED BY <1>1, PTL DEF Spec, Site3!Wiring!Spec

OnSettle == which = "settle"
LEMMA ItsSettle == Spec => []~OnSettle \/ (Upkeep!Settle!Spec /\ []OnSettle)
<1>1. /\ Init /\ OnSettle => Upkeep!Settle!Init
      /\ [Next]_vars => (OnSettle' <=> OnSettle)
      /\ OnSettle /\ [Next]_vars => [Upkeep!Settle!Next]_(Upkeep!Settle!vars)
  BY Chosen DEF Init, Next, vars, Upkeep!Settle!vars, OnSettle
<1> QED BY <1>1, PTL DEF Spec, Upkeep!Settle!Spec

OnAlerts == which = "alerts"
LEMMA ItsAlerts == Spec => []~OnAlerts \/ (Upkeep!Outbox!Spec /\ []OnAlerts)
<1>1. /\ Init /\ OnAlerts => Upkeep!Outbox!Init
      /\ [Next]_vars => (OnAlerts' <=> OnAlerts)
      /\ OnAlerts /\ [Next]_vars => [Upkeep!Outbox!Next]_(Upkeep!Outbox!vars)
  BY Chosen DEF Init, Next, vars, Upkeep!Outbox!vars, OnAlerts
<1> QED BY <1>1, PTL DEF Spec, Upkeep!Outbox!Spec

---------------------------------------------------------------------------
(* What follows of each component.                                         *)

\* apply-payment.ts: no unit is subscribed twice, and none is missing once the job
\* says it is done, in every behaviour of the union.
THEOREM RunPaidInFull == Spec => []PaidInFull
<1>1. Upkeep!Plans!Spec => []Upkeep!Plans!PaidInFull BY Upkeep!EveryUnitOnce
<1>2. ~OnPlans \/ Upkeep!Plans!PaidInFull => PaidInFull BY DEF PaidInFull, OnPlans
<1> QED BY <1>1, <1>2, ItsPlans, PTL

\* attach-card: a done order paid by card has that card on each of its plans that are
\* collected automatically and on no other, if its last attempt knew whose it is.
THEOREM RunCardReachesEveryPlan == Spec => []CardReachesEveryPlan
<1>1. Upkeep!Plans!Spec => []Upkeep!Plans!CardReachesEveryPlan BY Upkeep!EveryPlanHasItsCard
<1>2. ~OnPlans \/ Upkeep!Plans!CardReachesEveryPlan => CardReachesEveryPlan
  BY DEF CardReachesEveryPlan, OnPlans
<1> QED BY <1>1, <1>2, ItsPlans, PTL

LEMMA TenderAmounts == Upkeep!TenderAmounts
  BY DEF Upkeep!TenderAmounts

\* payment_injection tenders a payment once.
THEOREM RunTenderedOnce == Spec => []TenderedOnce
<1>1. Upkeep!Tender!Spec => []Upkeep!Tender!TenderedOnce
  BY TenderAmounts, Upkeep!OneTenderEach
<1>2. ~OnTender \/ Upkeep!Tender!TenderedOnce => TenderedOnce BY DEF TenderedOnce, OnTender
<1> QED BY <1>1, <1>2, ItsTender, PTL

\* payment_injection notes every cent it did not tender.
THEOREM RunDifferenceIsNoted == Spec => []DifferenceIsNoted
<1>1. Upkeep!Tender!Spec => []Upkeep!Tender!DifferenceIsNoted
  BY TenderAmounts, Upkeep!ChargedIsAccounted
<1>2. ~OnTender \/ Upkeep!Tender!DifferenceIsNoted => DifferenceIsNoted
  BY DEF DifferenceIsNoted, OnTender
<1> QED BY <1>1, <1>2, ItsTender, PTL

\* No ticket of the POS is one of the labels a step leaves instead of one.
Labels == /\ {o1, o2} \cap {"resolved", "cancelled", None} = {}
          /\ None \notin {"resolved", "cancelled", "done"}

LEMMA OrderPayloads == ASSUME Labels PROVE Injection1!Payload /\ Injection2!Payload
  BY DEF Labels, Injection1!Payload, Injection2!Payload, Injection1!Skips,
         Injection2!Skips

\* order_injection opens one ticket, loads the items and tenders a payment once, in every
\* behaviour whose ticket has a name the search may go by (create-order.ts:52).
THEOREM RunNothingTwice == ASSUME Labels PROVE Spec => []NothingTwice
<1>1. Injection1!Spec => []Injection1!NothingTwice
  BY OrderPayloads, Injection1!OrderNothingTwice
<1>2. Injection2!Spec => []Injection2!NothingTwice
  BY OrderPayloads, Injection2!OrderNothingTwice
<1>3. (~OnOrder \/ Injection1!NothingTwice) /\ (~OnSplit \/ Injection2!NothingTwice)
      => NothingTwice
  BY DEF NothingTwice, OnOrder, OnSplit
<1> QED BY <1>1, <1>2, <1>3, ItsOrder, ItsSplit, PTL

\* create-payment.ts:59-62: a job that completes in silence has settled its ticket.
THEOREM RunSilentMeansSettled == ASSUME Labels PROVE Spec => []SilentMeansSettled
<1>1. Injection1!Spec => []Injection1!SilentMeansSettled
  BY OrderPayloads, Injection1!OrderSilentMeansSettled
<1>2. Injection2!Spec => []Injection2!SilentMeansSettled
  BY OrderPayloads, Injection2!OrderSilentMeansSettled
<1>3. (~OnOrder \/ Injection1!SilentMeansSettled)
        /\ (~OnSplit \/ Injection2!SilentMeansSettled) => SilentMeansSettled
  BY DEF SilentMeansSettled, OnOrder, OnSplit
<1> QED BY <1>1, <1>2, <1>3, ItsOrder, ItsSplit, PTL

\* An id is none, and so is a reference.
PushNone == None \notin {o1, o2, o3} /\ \A x, y : <<x, y>> # None

LEMMA BagsOfLines ==
  ASSUME NEW f, NEW g, Injection1!Clover!IsABag(f), Injection1!Clover!IsABag(g)
  PROVE  Injection1!Clover!IsABag(f (+) g)
  BY DEF Injection1!Clover!IsABag, (+)

LEMMA PushesInstance ==
  ASSUME PushNone PROVE Injection1!PushesGiven /\ Injection2!PushesGiven
<1>1. \A k, n : Injection1!Clover!IsABag(MCLine(k, n))
  BY DEF Injection1!Clover!IsABag, MCLine, SetToBag
<1> DEFINE A == MCLine("a", 2) (+) MCLine("fee", 1)
           B == MCLine("a", 2) (+) MCLine("b", 3) (+) MCLine("fee", 2)
           C == MCLine("b", 3) (+) MCLine("c", 1) (+) MCLine("fee", 2)
<1>2. /\ Injection1!Clover!IsABag(A) /\ Injection1!Clover!IsABag(B) /\ Injection1!Clover!IsABag(C)
  BY <1>1, BagsOfLines
<1>3. MCVersions = <<A, B, C>>
  BY DEF MCVersions
<1> HIDE DEF A, B, C
<1>4. /\ Len(MCVersions) = 3 /\ Len(<<MCVersions[1], MCVersions[3]>>) = 2
      /\ \A v \in 1 .. 3 : Injection1!Clover!IsABag(MCVersions[v])
  BY <1>2, <1>3
<1>5. \A f : Injection1!Clover!IsABag(f) <=> Injection2!Clover!IsABag(f)
  BY DEF Injection1!Clover!IsABag, Injection2!Clover!IsABag
<1>6. Injection1!PushesGiven
  BY <1>4 DEF PushNone, Injection1!PushesGiven
<1>7. Injection2!PushesGiven
  BY <1>4, <1>5 DEF PushNone, Injection2!PushesGiven
<1> QED BY <1>6, <1>7

\* create-order.ts and reconcile-items.ts: Clover ends with one order per push or
\* supplement, and with exactly the lines of the last version.
THEOREM RunLinesConverge ==
  ASSUME PushNone PROVE Spec => []LinesConverge
<1>1. Injection1!Clover!Spec => []Injection1!Clover!OneOrderEach
  BY PushesInstance, Injection1!PushOneOrderEach
<1>2. Injection2!Clover!Spec => []Injection2!Clover!OneOrderEach
  BY PushesInstance, Injection2!PushOneOrderEach
<1>3. Injection1!Clover!Spec => []Injection1!Clover!LinesConverge
  BY PushesInstance, Injection1!PushLinesConverge
<1>4. Injection2!Clover!Spec => []Injection2!Clover!LinesConverge
  BY PushesInstance, Injection2!PushLinesConverge
<1>5. /\ (~OnPush \/ (Injection1!Clover!OneOrderEach /\ Injection1!Clover!LinesConverge))
      /\ (~OnPushes \/ (Injection2!Clover!OneOrderEach /\ Injection2!Clover!LinesConverge))
      => LinesConverge
  BY DEF LinesConverge, OnPush, OnPushes
<1> QED BY <1>1, <1>2, <1>3, <1>4, <1>5, ItsPush, ItsPushes, PTL

\* index.ts: a process that ends by its drain leaves nothing running in its name.
THEOREM RunNoJobAbandoned == Spec => []NoJobAbandoned
<1>1. ClaimLoops!Spec => []ClaimLoops!NoJobAbandoned BY ClaimLoops!DrainLeavesNothing
<1>2. Breaker!Spec => []Breaker!NoJobAbandoned BY Breaker!DrainLeavesNothing
<1>3. (~OnLoops \/ ClaimLoops!NoJobAbandoned) /\ (~OnBreaker \/ Breaker!NoJobAbandoned)
      => NoJobAbandoned
  BY DEF NoJobAbandoned, OnLoops, OnBreaker
<1> QED BY <1>1, <1>2, <1>3, ItsLoops, ItsBreaker, PTL

\* What JobEngine assumes of its constants.
LEMMA EngineConstants ==
  /\ MCWorkerOf \in [MCSlots -> {wa, wb}]
  /\ [w \in {wa, wb} |-> {1}] \in [{wa, wb} -> SUBSET Engine!Steps]
  /\ OneOverrun \in [Engine!Faults -> Nat]
<1>1. MCWorkerOf \in [MCSlots -> {wa, wb}] BY DEF MCWorkerOf
<1>2. [w \in {wa, wb} |-> {1}] \in [{wa, wb} -> SUBSET Engine!Steps] BY DEF Engine!Steps
<1>3. OneOverrun \in [Engine!Faults -> Nat] BY DEF OneOverrun, Engine!Faults
<1> QED BY <1>1, <1>2, <1>3

LEMMA EngineInstance ==
  ASSUME None \notin {job1, wa, wb}
  PROVE  Engine!SingleOperator /\ Engine!IsFiniteSet(MCSlots)
<1>1. Engine!SingleOperator BY DEF Engine!SingleOperator
<1>2. Engine!IsFiniteSet({a1})
  <2>1. \A x : Engine!IsFiniteSet({x}) BY EngineConstants, Engine!FS_Singleton, SMTT(30)
  <2> QED BY <2>1
<1>3. Engine!IsFiniteSet({a1} \cup {a2}) BY <1>2, EngineConstants, Engine!FS_AddElement
<1>4. Engine!IsFiniteSet({a1} \cup {a2} \cup {b1}) BY <1>3, EngineConstants, Engine!FS_AddElement
<1>5. MCSlots = {a1} \cup {a2} \cup {b1} BY DEF MCSlots
<1> QED BY <1>1, <1>4, <1>5

LEMMA LoopsInstance == ClaimLoops!Countable
<1>1. ClaimLoops!IsFiniteSet({wa}) /\ ClaimLoops!IsFiniteSet({o1}) BY ClaimLoops!FS_Singleton
<1>2. ClaimLoops!IsFiniteSet({wa} \cup {wb}) /\ ClaimLoops!IsFiniteSet({o1} \cup {o2})
  BY <1>1, ClaimLoops!FS_AddElement
<1>3. ClaimLoops!IsFiniteSet({o1} \cup {o2} \cup {o3}) BY <1>2, ClaimLoops!FS_AddElement
<1>4. {wa} \cup {wb} = {wa, wb} /\ {o1} \cup {o2} \cup {o3} = {o1, o2, o3} OBVIOUS
<1>5. \A l \in MCLimits : l.max \in Nat BY DEF MCLimits
<1> QED BY <1>2, <1>3, <1>4, <1>5 DEF ClaimLoops!Countable

\* One execution of a job for each overrun and one more; a limit is passed only by
\* claims under way together; a closed breaker has fewer failures than its threshold.
THEOREM RunConcurrencyIsBounded ==
  ASSUME None \notin {job1, wa, wb} PROVE Spec => []ConcurrencyIsBounded
<1>1. Engine!Spec => []Engine!BoundedOverlap
  BY EngineConstants, EngineInstance, Engine!OverlapIsBounded
<1>2. ClaimLoops!Spec => []ClaimLoops!LimitsHold
  BY LoopsInstance, ClaimLoops!LimitPassedByClaimsOnly
<1>3. Breaker!Spec => []Breaker!ClosedIsQuiet BY Breaker!ClosedBreakerIsQuiet
<1>4. (~OnEngine \/ Engine!BoundedOverlap) /\ (~OnLoops \/ ClaimLoops!LimitsHold)
        /\ (~OnBreaker \/ Breaker!ClosedIsQuiet) => ConcurrencyIsBounded
  BY DEF ConcurrencyIsBounded, OnEngine, OnLoops, OnBreaker
<1> QED BY <1>1, <1>2, <1>3, <1>4, ItsEngine, ItsLoops, ItsBreaker, PTL

---------------------------------------------------------------------------
(* What keeps a site in step.                                              *)

\* What the components' theorems ask of the values given here: None is no row, name,
\* level, location or other value, MCM's own modifier is not one of the POS's, and no
\* sweep of fetch_products is the one of fetch_item_stock.
SitesNone ==
  /\ Site1!CatalogNone /\ Site2!CatalogNone /\ Site3!CatalogNone /\ Site4!CatalogNone
  /\ Site1!RosterNone /\ Site2!RosterNone /\ Upkeep!RostersNone
  /\ Site1!WiringNone /\ Site2!WiringNone /\ Site3!WiringNone
  /\ Upkeep!MenuNone /\ Upkeep!OptionsNone

\* employees/fetch: a pull leaves no PIN open that the POS does not list, takes nobody
\* out of a location that did not answer, and lets nobody sign with the manager PIN of
\* somebody whose name is not taken for theirs.
THEOREM RunRosterMirrored ==
  ASSUME SitesNone PROVE Spec => []RosterMirrored
<1>1. Site1!Roster!Spec => []Site1!Roster!NoOrphanPin
  BY Site1!NoPinIsOrphan DEF SitesNone
<1>2. Site2!Roster!Spec => []Site2!Roster!NoOrphanPin
  BY Site2!NoPinIsOrphan DEF SitesNone
<1>3. Upkeep!Rosters!Spec => []Upkeep!Rosters!NobodyLosesALocation
  BY Upkeep!NobodyIsLost DEF SitesNone
<1>4. Upkeep!Rosters!Spec => []Upkeep!Rosters!SharedPinIsNoManager
  BY Upkeep!SharedPinsAreFair DEF SitesNone
<1>5. /\ (~OnCloverRoster \/ Site1!Roster!NoOrphanPin)
      /\ (~OnOmnivoreRoster \/ Site2!Roster!NoOrphanPin)
      /\ (~OnManyRosters \/ (Upkeep!Rosters!NobodyLosesALocation /\ Upkeep!Rosters!SharedPinIsNoManager))
      => RosterMirrored
  BY DEF RosterMirrored, OnCloverRoster, OnOmnivoreRoster, OnManyRosters
<1> QED BY <1>1, <1>2, <1>3, <1>4, <1>5, ItsCloverRoster, ItsOmnivoreRoster, ItsManyRosters, PTL

\* The syncs' merges: what people decided by hand outlives every sync, a corrected key
\* is the one used, and a sealed order goes to one Aloha.
THEOREM RunHandWorkStays ==
  ASSUME SitesNone PROVE Spec => []HandWorkStays
<1>1. Site1!Catalog!Spec => []Site1!Catalog!EditsAreKept
  BY Site1!TypedNameStays DEF SitesNone
<1>2. Site2!Catalog!Spec => []Site2!Catalog!EditsAreKept
  BY Site2!TypedNameStays DEF SitesNone
<1>3. Site3!Catalog!Spec => []Site3!Catalog!EditsAreKept
  BY Site3!TypedNameStays DEF SitesNone
<1>4. Site4!Catalog!Spec => []Site4!Catalog!EditsAreKept
  BY Site4!TypedNameStays DEF SitesNone
<1>5. Upkeep!Menu!Spec => []Upkeep!Menu!ChoiceIsKept
  BY Upkeep!PickedLevelStays DEF SitesNone
<1>6. Upkeep!Menu!Spec => []Upkeep!Menu!ManualStays
  BY Upkeep!MarkOfTheStaffStays DEF SitesNone
<1>7. Site1!Roster!Spec => []Site1!Roster!SuspendedStays
  BY Site1!SuspendedStaysClosed DEF SitesNone
<1>8. Site2!Roster!Spec => []Site2!Roster!SuspendedStays
  BY Site2!SuspendedStaysClosed DEF SitesNone
<1>9. Upkeep!Rosters!Spec => []Upkeep!Rosters!AdminStays
  BY Upkeep!AdminStaysAdmin DEF SitesNone
<1>10. Upkeep!Options!Spec => []Upkeep!Options!HandAttachedStays
  BY Upkeep!AttachedByHandStays DEF SitesNone
<1>11. Site1!Wiring!Spec => []Site1!Wiring!FixIsUsed
  BY Site1!CorrectedKeyIsUsed DEF SitesNone
<1>12. Site1!Wiring!Spec => []Site1!Wiring!OneAloha
  BY Site1!SealedGoesToOneAloha DEF SitesNone
<1>13. Site2!Wiring!Spec => []Site2!Wiring!FixIsUsed
  BY Site2!CorrectedKeyIsUsed DEF SitesNone
<1>14. /\ (~OnProducts \/ Site1!Catalog!EditsAreKept)
       /\ (~OnModifiers \/ Site2!Catalog!EditsAreKept)
       /\ (~OnCategories \/ Site3!Catalog!EditsAreKept)
       /\ (~OnTables \/ Site4!Catalog!EditsAreKept)
       /\ (~OnMenu \/ (Upkeep!Menu!ChoiceIsKept /\ Upkeep!Menu!ManualStays))
       /\ (~OnCloverRoster \/ Site1!Roster!SuspendedStays)
       /\ (~OnOmnivoreRoster \/ Site2!Roster!SuspendedStays)
       /\ (~OnManyRosters \/ Upkeep!Rosters!AdminStays)
       /\ (~OnGroups \/ Upkeep!Options!HandAttachedStays)
       /\ (~OnSeal \/ (Site1!Wiring!FixIsUsed /\ Site1!Wiring!OneAloha))
       /\ (~OnCaching \/ Site2!Wiring!FixIsUsed)
       => HandWorkStays
  BY DEF HandWorkStays, OnProducts, OnModifiers, OnCategories, OnTables, OnMenu, OnCloverRoster,
         OnOmnivoreRoster, OnManyRosters, OnGroups, OnSeal, OnCaching
<1> QED BY <1>1, <1>2, <1>3, <1>4, <1>5, <1>6, <1>7, <1>8, <1>9, <1>10, <1>11, <1>12, <1>13, <1>14,
           ItsProducts, ItsModifiers, ItsCategories, ItsTables, ItsMenu, ItsCloverRoster,
           ItsOmnivoreRoster, ItsManyRosters, ItsGroups, ItsSeal, ItsCaching, PTL

\* catalog-sync.ts, tables and modifiers: after a sweep that nobody disturbed, what the
\* POS sells is sold in MCM with its stock; a table with an open order is on the plan,
\* unless the sweep read its orders before it was seated or could not read them.
THEOREM RunCatalogIsShown ==
  ASSUME SitesNone PROVE Spec => []CatalogIsShown
<1>1. Site1!Catalog!Spec => []Site1!Catalog!ProductsMirrored
  BY Site1!SweptIsMirrored DEF SitesNone
<1>2. Site2!Catalog!Spec => []Site2!Catalog!ProductsMirrored
  BY Site2!SweptIsMirrored DEF SitesNone
<1>3. Site3!Catalog!Spec => []Site3!Catalog!ProductsMirrored
  BY Site3!SweptIsMirrored DEF SitesNone
<1>4. Site4!Catalog!Spec => []Site4!Catalog!BusyTableShown
  BY Site4!TableInUseIsShown DEF SitesNone
<1>5. Upkeep!Options!Spec => []Upkeep!Options!GroupsMirrored
  BY Upkeep!GroupsAreMirrored DEF SitesNone
<1>6. Site3!Wiring!Spec => []Site3!Wiring!StockFollowsConnections
  BY Site3!StockIsScheduled DEF SitesNone
<1>7. /\ (~OnProducts \/ Site1!Catalog!ProductsMirrored)
      /\ (~OnModifiers \/ Site2!Catalog!ProductsMirrored)
      /\ (~OnCategories \/ Site3!Catalog!ProductsMirrored)
      /\ (~OnTables \/ Site4!Catalog!BusyTableShown)
      /\ (~OnGroups \/ Upkeep!Options!GroupsMirrored)
      /\ (~OnStock \/ Site3!Wiring!StockFollowsConnections)
      => CatalogIsShown
  BY DEF CatalogIsShown, OnProducts, OnModifiers, OnCategories, OnTables, OnGroups, OnStock
<1> QED BY <1>1, <1>2, <1>3, <1>4, <1>5, <1>6, <1>7, ItsProducts, ItsModifiers, ItsCategories,
           ItsTables, ItsGroups, ItsStock, PTL

LEMMA AlertsInstance == Upkeep!AlertsQuotas
<1>1. Upkeep!IsFiniteSet({k1}) BY Upkeep!FS_Singleton
<1> QED BY <1>1 DEF Upkeep!AlertsQuotas

\* The dispatcher and auto-settle: what the rate limiter holds back it holds back for the
\* mails of its own kind; a push that failed has given its turn back, and no sweep leaves
\* an overdue terminal looking fine.
THEOREM RunTurnsAreKept ==
  ASSUME Upkeep!SettleNone PROVE Spec => []TurnsAreKept
<1>1. Upkeep!Outbox!Spec => []Upkeep!Outbox!LanesHold
  BY AlertsInstance, Upkeep!LanesAreApart
<1>2. Upkeep!Settle!Spec => []Upkeep!Settle!PushYields BY Upkeep!FailedPushYields
<1>3. Upkeep!Settle!Spec => []Upkeep!Settle!StuckIsVisible BY Upkeep!StuckTerminalIsVisible
<1>4. /\ (~OnAlerts \/ Upkeep!Outbox!LanesHold)
      /\ (~OnSettle \/ (Upkeep!Settle!PushYields /\ Upkeep!Settle!StuckIsVisible))
      => TurnsAreKept
  BY DEF TurnsAreKept, OnAlerts, OnSettle
<1> QED BY <1>1, <1>2, <1>3, <1>4, ItsAlerts, ItsSettle, PTL
=============================================================================
