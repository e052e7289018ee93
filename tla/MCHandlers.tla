----------------------------- MODULE MCHandlers -----------------------------
(***************************************************************************)
(* The handlers and what is left of the engine, each on its small instance *)
(* and checked in one run: their disjoint union.  which names the component *)
(* of a behaviour, chosen at the start; that component's variables are the *)
(* first slots x1, x2, ..., the slots it does not use stay 0, and only its *)
(* actions happen.  The components do not interact here.  A component that *)
(* has theorems is taken with them, from the module that proves them.      *)
(***************************************************************************)
EXTENDS TLC, Bags, Naturals

CONSTANTS None, AutoLevel, a, b, d1, k1, k2, l1, l2, n1, n2, n3, o1, o2, o3, p1, p2, s1, s2,
          job1, op1, a1, a2, b1, wa, wb

VARIABLES which,
  x1, x2, x3, x4, x5, x6, x7, x8, x9, x10, x11, x12, x13, x14, x15, x16, x17, x18, x19,
  x20

\* The slots from the i-th on, and that they are not used.
Tail11 == <<x11, x12, x13, x14, x15, x16, x17, x18, x19, x20>>
Unused11 == x11 = 0 /\ x12 = 0 /\ x13 = 0 /\ x14 = 0 /\ x15 = 0 /\ x16 = 0 /\ x17 = 0 /\ x18 = 0 /\ x19 = 0 /\ x20 = 0
Tail10 == <<x10, Tail11>>
Unused10 == x10 = 0 /\ Unused11
Tail9 == <<x9, Tail10>>
Unused9 == x9 = 0 /\ Unused10
Tail7 == <<x7, x8, Tail9>>
Unused7 == x7 = 0 /\ x8 = 0 /\ Unused9
Tail6 == <<x6, Tail7>>
Unused6 == x6 = 0 /\ Unused7
Tail5 == <<x5, Tail6>>
Unused5 == x5 = 0 /\ Unused6

MCSlots    == {a1, a2, b1}
MCWorkerOf == [e \in MCSlots |-> IF e = b1 THEN wb ELSE wa]
OneOverrun == [f \in {"overrun", "crash", "lostComplete", "lostCall", "blindRead"} |-> IF f = "overrun" THEN 1 ELSE 0]
\* An order of an item and a fee.  Three versions: a dish is added, one is replaced;
\* or two, with both at once.
MCLine(k, n) == SetToBag({<<k, n>>})
MCVersions   ==
  <<MCLine("a", 2) (+) MCLine("fee", 1), MCLine("a", 2) (+) MCLine("b", 3) (+) MCLine("fee", 2),
    MCLine("b", 3) (+) MCLine("c", 1) (+) MCLine("fee", 2)>>
\* Three jobs of one integration and two sites; a limit of each, and one for a queue.
MCOf     == [j \in {o1, o2, o3} |-> [integration |-> "pos", site |-> IF j = o2 THEN b ELSE a]]
MCLimits == {[queue |-> None, integration |-> "pos", site |-> None, max |-> 1],
             [queue |-> None, integration |-> "pos", site |-> a, max |-> 1],
             [queue |-> "print", integration |-> "pos", site |-> None, max |-> 0]}
\* Executions of one worker are alike.
MCSymmetry == Permutations({a1, a2})

Engine == INSTANCE JobEngine_proofs WITH
  Slots <- MCSlots, WorkerOf <- MCWorkerOf, Jobs <- {job1}, Workers <- {wa, wb},
  Operators <- {op1}, NumSteps <- 1, Registered <- [w \in {wa, wb} |-> {1}], MaxAttempts <- 2, BackoffLen <- 1,
  BreakerEnabled <- FALSE, MaxFaults <- OneOverrun, MaxRequeues <- 1,
  jobStatus <- x1, lockedBy <- x2, lockLive <- x3, due <- x4, context <- x5, stepStatus <- x6,
  attempts <- x7, openDL <- x8, pc <- x9, sjob <- x10, idx <- x11, snapDone <- x12, snapAttempts <-
  x13, seen <- x14, beating <- x15, opJob <- x16, opFull <- x17, returned <- x18, faults <- x19,
  requeues <- x20
\* An order and its injection, in two settings: whole or split between two payments, and
\* pushed in two versions or in three.
Injection1 == INSTANCE Injections_proofs WITH
  Tickets <- {o1, o2}, NumItems <- 2, Asked <- <<1>>, MaxAttempts <- 2, ReportsDue <- TRUE, Faults <- 2,
  Ids <- {o1, o2, o3}, Versions <- <<MCVersions[1], MCVersions[3]>>, Fee <- "fee", BulkMax <- 1,
  PushFaults <- 2,
  used <- x1, job <- x2, pos <- x3, sky <- x4, order <- x5, ex <- x6, clover <- x3, row <- x4
Injection2 == INSTANCE Injections_proofs WITH
  Tickets <- {o1, o2}, NumItems <- 2, Asked <- <<2, 1>>, MaxAttempts <- 2, ReportsDue <- TRUE, Faults <- 2,
  Ids <- {o1, o2, o3}, Versions <- MCVersions, Fee <- "fee", BulkMax <- 1, PushFaults <- 1,
  used <- x1, job <- x2, pos <- x3, sky <- x4, order <- x5, ex <- x6, clover <- x3, row <- x4
OmnivoreTickets == INSTANCE OmnivorePull WITH
  Lanes <- {a1, a2}, Dishes <- {d1}, MaxItems <- 2, MaxLines <- 1, Faults <- 1,
  pos <- x1, row <- x2, fire <- x3, lane <- x4, used <- x5
\* An order of Clover: two lanes and one dish, and one lane and two dishes of other prices.
CloverTickets == INSTANCE CloverPull WITH
  Lanes <- {a1, a2}, Sigs <- {d1}, Price <- [d \in {d1} |-> 1], MaxRows <- 2, MaxLines <- 1, Faults <- 1,
  clover <- x1, row <- x2, lane <- x3, used <- x4
CloverMixed == INSTANCE CloverPull WITH
  Lanes <- {k1}, Sigs <- {a, b}, Price <- [d \in {a, b} |-> IF d = a THEN 1 ELSE 2], MaxRows <- 2,
  MaxLines <- 1, Faults <- 1,
  clover <- x1, row <- x2, lane <- x3, used <- x4
ClaimLoops == INSTANCE Workers_proofs WITH
  Workers <- {wa, wb}, Jobs <- {o1, o2, o3}, Of <- MCOf, Limits <- MCLimits, MaxConcurrent <- 2,
  BreakerEnabled <- FALSE, Threshold <- 2, MaxFails <- 0, MaxFaults <- 0,
  status <- x1, owner <- x2, phase <- x3, claim <- x4, exec <- x5, breaker <- x6, forsaken <- x7, used <- x8
Breaker == INSTANCE Workers_proofs WITH
  Workers <- {wa}, Jobs <- {o1, o2}, Of <- MCOf, Limits <- MCLimits, MaxConcurrent <- 2,
  BreakerEnabled <- TRUE, Threshold <- 2, MaxFails <- 3, MaxFaults <- 1,
  status <- x1, owner <- x2, phase <- x3, claim <- x4, exec <- x5, breaker <- x6, forsaken <- x7, used <- x8
\* What differs from site to site, in four settings: the table that is swept, the
\* roster, the locations, and the jobs and syncs that use their connections.  Each
\* component takes its variables from the first slots; the components of one setting
\* share them.
Site1 == INSTANCE Sites_proofs WITH
  Table <- [p1 |-> "product", p2 |-> "product"], Pos <- "clover", Pins <- {n1, n2, n3},
  Locations <- {1, 2}, Jobs <- {"inject"}, Syncs <- {}, MaxCalls <- 2,
  People <- {p1, p2}, Cap <- 1, RosterFaults <- 3, Lanes <- {k1}, Names <- {a, b}, ShrinkCap <- 1,
  Elsewhere <- d1, Faults <- 2,
  used <- x1, row <- x2, staff <- x3, pull <- x4, stopped <- x5, item <- x3, busy <- x4, kept <- x5,
  lane <- x6, conn <- x2, cache <- x3, sync <- x4, sched <- x5, job <- x6
Site2 == INSTANCE Sites_proofs WITH
  Table <- [p1 |-> "product", m1 |-> "modifier"], Pos <- "omnivore", Pins <- {n1, n2},
  Locations <- {1}, Jobs <- {"inject", "pay"}, Syncs <- {}, MaxCalls <- 1,
  People <- {p1, p2}, Cap <- 1, RosterFaults <- 3, Lanes <- {k1}, Names <- {a, b}, ShrinkCap <- 1,
  Elsewhere <- d1, Faults <- 2,
  used <- x1, row <- x2, staff <- x3, pull <- x4, stopped <- x5, item <- x3, busy <- x4, kept <- x5,
  lane <- x6, conn <- x2, cache <- x3, sync <- x4, sched <- x5, job <- x6
Site3 == INSTANCE Sites_proofs WITH
  Table <- [p1 |-> "product", c1 |-> "category"], Pos <- "omnivore", Pins <- {n1, n2},
  Locations <- {1}, Jobs <- {}, Syncs <- {k1, k2}, MaxCalls <- 2,
  People <- {p1, p2}, Cap <- 1, RosterFaults <- 3, Lanes <- {k1}, Names <- {a, b}, ShrinkCap <- 1,
  Elsewhere <- d1, Faults <- 2,
  used <- x1, row <- x2, staff <- x3, pull <- x4, stopped <- x5, item <- x3, busy <- x4, kept <- x5,
  lane <- x6, conn <- x2, cache <- x3, sync <- x4, sched <- x5, job <- x6
Site4 == INSTANCE Sites_proofs WITH
  Table <- [t1 |-> "table", t2 |-> "table"], Pos <- "omnivore", Pins <- {n1, n2},
  Locations <- {1}, Jobs <- {}, Syncs <- {}, MaxCalls <- 1,
  People <- {p1, p2}, Cap <- 1, RosterFaults <- 3, Lanes <- {k1}, Names <- {a, b}, ShrinkCap <- 1,
  Elsewhere <- d1, Faults <- 3,
  used <- x1, row <- x2, staff <- x3, pull <- x4, stopped <- x5, item <- x3, busy <- x4, kept <- x5,
  lane <- x6, conn <- x2, cache <- x3, sync <- x4, sched <- x5, job <- x6
\* The components of which one setting is enough.
Upkeep == INSTANCE Upkeep_proofs WITH
  Pays <- {s1, s2}, Asked <- [p \in {s1, s2} |-> IF p = s1 THEN 3 ELSE 2], Total <- 3, Unfired <- 1,
  Retries <- 1, MaxWaiting <- 2, TenderFaults <- 3,
  Products <- {p1}, Levels <- {l1, l2}, Names <- {a, b}, ShrinkCap <- 1, PerSite <- TRUE,
  Groups <- {l1, l2}, Modifiers <- {a}, Ranges <- {0, 1}, ManageStock <- TRUE, Native <- b,
  Locations <- {1, 2}, Pins <- {n1}, People <- {p1, p2, o3}, Alike <- {<<p1, p2>>, <<p2, p1>>}, RosterFaults <- 3,
  Devices <- {d1}, OverdueAfter <- 2,
  Orders <- {o1, o2}, Units <- {1, 2}, Wants <- {o1, o2}, Fits <- {2}, Automatic <- {1},
  Card <- [o \in {o1, o2} |-> IF o = o1 THEN k1 ELSE k2], MaxAttempts <- 2, Faults <- 2,
  Keys <- {a, b, d1}, Critical <- {a}, Noisy <- {a, b}, Dispatchers <- {k1}, MaxRows <- 3, MaxCount <- 3,
  Quota <- [critical |-> 1, other |-> 2, site |-> 1],
  used <- x1, row <- x2, job <- x6, sweep <- x6,
  ticket <- x3, sky <- x4, fired <- x5, noted <- x7, issue <- x8, ex <- x9,
  item <- x3, level <- x4, oos <- x5, chosen <- x7, manual <- x8, visit <- x9,
  menu <- x2, ingr <- x3, grp <- x4, attached <- x5, staff <- x3, pull <- x4, admins <- x5,
  open <- x2, on <- x3, seen <- x4, settling <- x5, stamp <- x7, tries <- x8, said <- x9, excused <- x10,
  plan <- x3, asset <- x4, vault <- x5, outbox <- x2, log <- x3, desk <- x4, events <- x5

Init ==
  \/ which = "engine" /\ Engine!Init
  \/ which = "order" /\ Injection1!Init /\ Unused7
  \/ which = "split" /\ Injection2!Init /\ Unused7
  \/ which = "tender" /\ Upkeep!Tender!Init /\ Unused10
  \/ which = "push" /\ Injection1!Clover!Init /\ Unused5
  \/ which = "pushes" /\ Injection2!Clover!Init /\ Unused5
  \/ which = "otickets" /\ OmnivoreTickets!Init /\ Unused6
  \/ which = "ctickets" /\ CloverTickets!Init /\ Unused5
  \/ which = "cmixed" /\ CloverMixed!Init /\ Unused5
  \/ which = "products" /\ Site1!Catalog!Init /\ Unused7
  \/ which = "modifiers" /\ Site2!Catalog!Init /\ Unused7
  \/ which = "categories" /\ Site3!Catalog!Init /\ Unused7
  \/ which = "tables" /\ Site4!Catalog!Init /\ Unused7
  \/ which = "menu" /\ Upkeep!Menu!Init /\ Unused10
  \/ which = "croster" /\ Site1!Roster!Init /\ Unused6
  \/ which = "oroster" /\ Site2!Roster!Init /\ Unused6
  \/ which = "plans" /\ Upkeep!Plans!Init /\ Unused7
  \/ which = "alerts" /\ Upkeep!Outbox!Init /\ Unused6
  \/ which = "loops" /\ ClaimLoops!Init /\ Unused9
  \/ which = "breaker" /\ Breaker!Init /\ Unused9
  \/ which = "settle" /\ Upkeep!Settle!Init /\ Unused11
  \/ which = "mroster" /\ Upkeep!Rosters!Init /\ Unused6
  \/ which = "groups" /\ Upkeep!Options!Init /\ Unused7
  \/ which = "seal" /\ Site1!Wiring!Init /\ Unused7
  \/ which = "caching" /\ Site2!Wiring!Init /\ Unused7
  \/ which = "stock" /\ Site3!Wiring!Init /\ Unused7

Next ==
  /\ UNCHANGED which
  /\ \/ which = "engine" /\ Engine!Next
     \/ which = "order" /\ Injection1!Next /\ UNCHANGED Tail7
     \/ which = "split" /\ Injection2!Next /\ UNCHANGED Tail7
     \/ which = "tender" /\ Upkeep!Tender!Next /\ UNCHANGED Tail10
     \/ which = "push" /\ Injection1!Clover!Next /\ UNCHANGED Tail5
     \/ which = "pushes" /\ Injection2!Clover!Next /\ UNCHANGED Tail5
     \/ which = "otickets" /\ OmnivoreTickets!Next /\ UNCHANGED Tail6
     \/ which = "ctickets" /\ CloverTickets!Next /\ UNCHANGED Tail5
     \/ which = "cmixed" /\ CloverMixed!Next /\ UNCHANGED Tail5
     \/ which = "products" /\ Site1!Catalog!Next /\ UNCHANGED Tail7
     \/ which = "modifiers" /\ Site2!Catalog!Next /\ UNCHANGED Tail7
     \/ which = "categories" /\ Site3!Catalog!Next /\ UNCHANGED Tail7
     \/ which = "tables" /\ Site4!Catalog!Next /\ UNCHANGED Tail7
     \/ which = "menu" /\ Upkeep!Menu!Next /\ UNCHANGED Tail10
     \/ which = "croster" /\ Site1!Roster!Next /\ UNCHANGED Tail6
     \/ which = "oroster" /\ Site2!Roster!Next /\ UNCHANGED Tail6
     \/ which = "plans" /\ Upkeep!Plans!Next /\ UNCHANGED Tail7
     \/ which = "alerts" /\ Upkeep!Outbox!Next /\ UNCHANGED Tail6
     \/ which = "loops" /\ ClaimLoops!Next /\ UNCHANGED Tail9
     \/ which = "breaker" /\ Breaker!Next /\ UNCHANGED Tail9
     \/ which = "settle" /\ Upkeep!Settle!Next /\ UNCHANGED Tail11
     \/ which = "mroster" /\ Upkeep!Rosters!Next /\ UNCHANGED Tail6
     \/ which = "groups" /\ Upkeep!Options!Next /\ UNCHANGED Tail7
     \/ which = "seal" /\ Site1!Wiring!Next /\ UNCHANGED Tail7
     \/ which = "caching" /\ Site2!Wiring!Next /\ UNCHANGED Tail7
     \/ which = "stock" /\ Site3!Wiring!Next /\ UNCHANGED Tail7

vars == <<which, x1, x2, x3, x4, x5, x6, x7, x8, x9, x10, x11, x12, x13, x14, x15, x16, x17, x18, x19,
          x20>>
Spec == Init /\ [][Next]_vars

---------------------------------------------------------------------------
TypeOK ==
  CASE which = "engine" -> Engine!TypeOK
    [] which = "order" -> Injection1!TypeOK
    [] which = "split" -> Injection2!TypeOK
    [] which = "tender" -> Upkeep!Tender!TypeOK
    [] which = "push" -> Injection1!Clover!TypeOK
    [] which = "pushes" -> Injection2!Clover!TypeOK
    [] which = "otickets" -> OmnivoreTickets!TypeOK
    [] which = "ctickets" -> CloverTickets!TypeOK
    [] which = "cmixed" -> CloverMixed!TypeOK
    [] which = "products" -> Site1!Catalog!TypeOK
    [] which = "modifiers" -> Site2!Catalog!TypeOK
    [] which = "categories" -> Site3!Catalog!TypeOK
    [] which = "tables" -> Site4!Catalog!TypeOK
    [] which = "menu" -> Upkeep!Menu!TypeOK
    [] which = "croster" -> Site1!Roster!TypeOK
    [] which = "oroster" -> Site2!Roster!TypeOK
    [] which = "plans" -> Upkeep!Plans!TypeOK
    [] which = "alerts" -> Upkeep!Outbox!TypeOK
    [] which = "loops" -> ClaimLoops!TypeOK
    [] which = "breaker" -> Breaker!TypeOK
    [] which = "settle" -> Upkeep!Settle!TypeOK
    [] which = "mroster" -> Upkeep!Rosters!TypeOK
    [] which = "groups" -> Upkeep!Options!TypeOK
    [] which = "seal" -> Site1!Wiring!TypeOK
    [] which = "caching" -> Site2!Wiring!TypeOK
    [] which = "stock" -> Site3!Wiring!TypeOK

\* Each overrun lets one more execution of a job in, and never more; a limit is
\* passed by no more than the claims that may be under way at once; and a POS
\* that fails up to the threshold is let alone.
ConcurrencyIsBounded ==
  /\ which = "engine" => Engine!BoundedOverlap
  /\ which = "loops" => ClaimLoops!LimitsHold
  /\ which = "breaker" => Breaker!ClosedIsQuiet

\* A process that ends by its drain leaves nothing running in its name.
NoJobAbandoned ==
  /\ which = "loops" => ClaimLoops!NoJobAbandoned
  /\ which = "breaker" => Breaker!NoJobAbandoned

\* order_injection posts nothing twice, if it may search for its ticket, and shows
\* nothing only when the ticket is whole and settled.
NothingTwice ==
  /\ which = "order" => Injection1!NothingTwice
  /\ which = "split" => Injection2!NothingTwice
SilentMeansSettled ==
  /\ which = "order" => Injection1!SilentMeansSettled
  /\ which = "split" => Injection2!SilentMeansSettled

\* payment_injection tenders a payment once and tells the staff of every cent
\* it did not tender.
TenderedOnce      == which = "tender" => Upkeep!Tender!TenderedOnce
DifferenceIsNoted == which = "tender" => Upkeep!Tender!DifferenceIsNoted

\* Clover ends with one order per push or supplement, with exactly the lines of
\* the last version, and never bills more than the order was worth.
LinesConverge ==
  /\ which = "push" => Injection1!Clover!OneOrderEach /\ Injection1!Clover!LinesConverge
  /\ which = "pushes" => Injection2!Clover!OneOrderEach /\ Injection2!Clover!LinesConverge
NeverOverbilled ==
  /\ which = "push" => Injection1!Clover!NeverOverbilled
  /\ which = "pushes" => Injection2!Clover!NeverOverbilled

\* A ticket of either POS has one row and each item of it one line, whatever
\* pulls, fires and pushes interleave, unless a pull or a save could not see or keep
\* what there was.
ShownOnce ==
  /\ which = "otickets" => OmnivoreTickets!ShownOnce
  /\ which = "ctickets" => CloverTickets!PulledOnce
  /\ which = "cmixed" => CloverMixed!PulledOnce

\* What a waiter typed is not dropped, and what is on the ticket is not voided.
OrderedStays == which = "otickets" => OmnivoreTickets!OrderedStays

\* A Clover order's total is the sum of its lines, while nobody reprices a line at
\* the terminal.
TotalIsItsLines ==
  /\ which = "ctickets" => CloverTickets!TotalIsItsLines
  /\ which = "cmixed" => CloverMixed!TotalIsItsLines

\* After a sweep that nobody disturbed, what Clover sells is sold in MCM with
\* its stock, and what Omnivore offers with a dish is offered with it; a table with
\* an open order is on the plan, unless the sweep read its orders before it was seated
\* or could not read them.
CatalogIsShown ==
  /\ which = "products" => Site1!Catalog!ProductsMirrored
  /\ which = "modifiers" => Site2!Catalog!ProductsMirrored
  /\ which = "categories" => Site3!Catalog!ProductsMirrored
  /\ which = "tables" => Site4!Catalog!BusyTableShown
  /\ which = "groups" => Upkeep!Options!GroupsMirrored
  /\ which = "stock" => Site3!Wiring!StockFollowsConnections

\* What people decided by hand outlives every sync: names typed over Clover's,
\* the default price level, what is sold out, who is suspended or made admin, what
\* hangs from a modifier group; a key that was corrected is the one used, and an
\* order that was sealed goes to one Aloha whatever the manager moves meanwhile.
HandWorkStays ==
  /\ which = "products" => Site1!Catalog!EditsAreKept
  /\ which = "modifiers" => Site2!Catalog!EditsAreKept
  /\ which = "categories" => Site3!Catalog!EditsAreKept
  /\ which = "tables" => Site4!Catalog!EditsAreKept
  /\ which = "menu" => Upkeep!Menu!ChoiceIsKept /\ Upkeep!Menu!ManualStays
  /\ which = "croster" => Site1!Roster!SuspendedStays
  /\ which = "oroster" => Site2!Roster!SuspendedStays
  /\ which = "mroster" => Upkeep!Rosters!AdminStays
  /\ which = "groups" => Upkeep!Options!HandAttachedStays
  /\ which = "seal" => Site1!Wiring!FixIsUsed /\ Site1!Wiring!OneAloha
  /\ which = "caching" => Site2!Wiring!FixIsUsed

\* A pull leaves no PIN open that the POS does not list, takes nobody out of a
\* location that did not answer, and lets nobody sign with the manager PIN of somebody
\* whose name is not taken for theirs.
RosterMirrored ==
  /\ which = "croster" => Site1!Roster!NoOrphanPin
  /\ which = "oroster" => Site2!Roster!NoOrphanPin
  /\ which = "mroster" => Upkeep!Rosters!NobodyLosesALocation /\ Upkeep!Rosters!SharedPinIsNoManager

\* Every unit paid for is one subscription; those collected automatically have the
\* card they were paid with, and no other has.
PaidInFull           == which = "plans" => Upkeep!Plans!PaidInFull
CardReachesEveryPlan == which = "plans" => Upkeep!Plans!CardReachesEveryPlan

\* The noise of one incident does not silence the alert of another; a push that
\* failed does not keep the turn of the pull, and no sweep leaves an overdue
\* terminal looking fine.
TurnsAreKept ==
  /\ which = "alerts" => Upkeep!Outbox!LanesHold
  /\ which = "settle" => Upkeep!Settle!PushYields /\ Upkeep!Settle!StuckIsVisible
=============================================================================
