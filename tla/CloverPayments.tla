--------------------------- MODULE CloverPayments ---------------------------
(***************************************************************************)
(* Payments between MCM and Clover, both ways, on one site.                *)
(*                                                                         *)
(* MCM -> Clover: the handler clover/payment_injection, which applies a    *)
(* payment MCM made to an order in Clover.  Clover ignores idempotency     *)
(* keys, so the handler looks for its own anchor on the order first.       *)
(* Clover -> MCM: the handler clover/fetch_payments, which pulls what was  *)
(* modified since a watermark, records it and pays the MCM order.          *)
(*                                                                         *)
(* The handlers share the tables payments, clover_payment_map, orders and  *)
(* the rows of Clover, one statement or request at a time.  How jobs are   *)
(* claimed and retried is JobEngine's matter: here a ready injection is    *)
(* executed, an execution may crash and be executed again, and a pull that *)
(* crashed starts over with the cursor of its payload.                     *)
(***************************************************************************)
EXTENDS Integers, FiniteSets

CONSTANTS
  Mcm,           \* payments MCM made with a card, each with an injection job
  Staff,         \* payments taken at a Clover device
  Orders,
  OrderOf,       \* the order of each payment
  OnOmnivore,    \* orders with an Omnivore ticket and no order_injection job
  Execs,         \* executions of payment_injection at work at a time
  Pulls,         \* executions of fetch_payments at work at a time
  Overlap,       \* OVERLAP_MS
  Protect,       \* DEFER_PROTECT_MS
  Lookback,      \* DEFAULT_LOOKBACK_MS
  Skew,          \* SKEW_MS
  Lag,           \* a row of Clover is visible at most Lag after its stamp
  Corrupt,       \* staff payments whose stamp lies in the far future
  MaxAttempts,   \* max_attempts of the injection's step
  MaxPosts,      \* bound: POSTs of one payment that reach Clover
  MaxTime,       \* bound: ticks of the clock
  MaxChanges,    \* bound: voids and refunds
  MaxFaults,     \* bound: faults of any kind
  MaxRevivals,   \* bound: ended jobs put back
  None

\* What Clover may hold: a staff payment, or the n-th POST of an MCM payment.
Mine(m) == {m} \X (1 .. MaxPosts)
Posts   == Mcm \X (1 .. MaxPosts)
Charges == Staff \cup Posts

\* Rows of payments (MCM's, and those a pull makes) and of clover_payment_map.
Rows  == Mcm \cup Charges
Fate  == {"live", "voided", "refunded"}
Entry == [pay : Rows, seen : Fate]

ASSUME PaymentsAssumption ==
  /\ OrderOf \in [Mcm \cup Staff -> Orders]
  /\ Staff \cap Posts = {} /\ Mcm \cap (Staff \cup Posts) = {} /\ Corrupt \subseteq Staff
  /\ OnOmnivore \subseteq Orders
\* The first pull comes within Lookback of the first payment in Clover.
ASSUME TimesAssumption ==
  /\ Overlap \in Nat /\ Protect \in Nat /\ Lookback \in Nat /\ Skew \in Nat
  /\ Lag \in 0 .. Overlap /\ Lookback >= MaxTime
ASSUME BoundsAssumption ==
  /\ {MaxPosts, MaxTime, MaxChanges, MaxFaults, MaxRevivals} \subseteq Nat
  /\ MaxAttempts \in Nat \ {0}
ASSUME NoneAssumption == None \notin Mcm \cup Charges /\ None \notin Entry

VARIABLES
  \* Clover: modifiedTime (0: no such payment), what became of it, amount posted
  mod, fate, amount,
  inFlight,      \* POSTs the client gave up on that have not reached Clover
  \* payments: pos_id of MCM's rows, the rows the pull made, status and total_refunded
  posId, pulled, rowStatus, rowRefunded,
  map,           \* clover_payment_map
  \* orders: known by a Clover id, the payments summed in paid, the payment in issues
  linked, paid, issues,
  forwarded,     \* rows with an omnivore payment_injection job made by the pull
  \* integration_jobs of the injections: status, attempt_count, amount in the payload
  job, attempts, asked,
  ex,            \* executions of payment_injection
  cursor,        \* last_cursor of fetch_payments; 0 is null
  pull,          \* executions of fetch_payments
  now,
  \* history
  orphaned,      \* payments a pull left behind because their order was missing
  failed,        \* payments a pull left behind because a write failed or the pages shifted
  changes, revivals,
  faults,        \* the kinds of faults that happened
  faultCount

cloverVars == <<mod, fate, amount, inFlight>>
rowVars    == <<posId, pulled, rowStatus, rowRefunded>>
orderVars  == <<linked, paid, issues>>
jobVars    == <<job, attempts, asked>>
countVars  == <<changes, faults, faultCount, revivals>>
vars == <<cloverVars, rowVars, map, orderVars, forwarded, jobVars, ex, cursor, pull,
          now, orphaned, failed, countVars>>

\* An execution between jobs, one that begins, and one that has its Clover payment; a pull
\* between jobs, and one that begins with the watermark w.
Idle        == [job |-> None, pc |-> "idle", charge |-> None, adopted |-> FALSE]
Starting(m) == [job |-> m, pc |-> "guard", charge |-> None, adopted |-> FALSE]
Holding(m, c, adopted) == [job |-> m, pc |-> "pos", charge |-> c, adopted |-> adopted]
Resting     == [pc |-> "idle", wm |-> 0, todo |-> {}, top |-> 0, oldest |-> 0,
                deferred |-> {}, cur |-> None, row |-> None, sum |-> {}]
Fetching(w) == [pc |-> "fetch", wm |-> w, todo |-> {}, top |-> 0, oldest |-> 0,
                deferred |-> {}, cur |-> None, row |-> None, sum |-> {}]

ExPc   == {"idle", "guard", "get", "post", "pos", "map", "siblings", "clear", "end"}
Faults == {"crash", "overrun", "late", "failure", "blind", "shifted"}
PullPc == {"idle", "fetch", "next", "reflect", "reflectRow", "injected", "antiloop", "order",
           "unlinked", "link", "linkMap", "upsert", "sum", "patch", "map", "forward"}
FeedItem == [id : Charges, mod : Int, fate : Fate]
ExState   == [job : Mcm \cup {None}, pc : ExPc, charge : Charges \cup {None}, adopted : BOOLEAN]
PullState == [pc : PullPc, wm : Int, todo : SUBSET FeedItem, top : Int,
              oldest : Int, deferred : SUBSET Charges, cur : FeedItem \cup {None},
              row : Rows \cup {None}, sum : SUBSET Rows]

TypeOK ==
  /\ mod \in [Charges -> Int] /\ fate \in [Charges -> Fate] /\ amount \in [Charges -> {1, 2}]
  /\ inFlight \subseteq Mcm \X {1, 2}
  /\ posId \in [Mcm -> Charges \cup {None}] /\ pulled \subseteq Charges
  /\ rowStatus \in [Rows -> {"completed", "voided"}] /\ rowRefunded \in [Rows -> BOOLEAN]
  /\ map \in [Charges -> Entry \cup {None}]
  /\ linked \subseteq Orders /\ paid \in [Orders -> SUBSET Rows]
  /\ issues \in [Orders -> Mcm \cup {None}] /\ forwarded \subseteq Rows
  /\ job \in [Mcm -> {"ready", "completed", "dead"}]
  /\ attempts \in [Mcm -> Nat] /\ asked \in [Mcm -> {1, 2}]
  /\ ex \in [Execs -> ExState] /\ pull \in [Pulls -> PullState]
  /\ cursor \in Int /\ now \in Nat /\ orphaned \subseteq Charges /\ failed \subseteq Charges
  /\ {changes, revivals, faultCount} \subseteq Nat /\ faults \subseteq Faults

Init ==
  /\ mod = [c \in Charges |-> 0] /\ fate = [c \in Charges |-> "live"]
  /\ amount = [c \in Charges |-> 1] /\ inFlight = {}
  /\ posId = [m \in Mcm |-> None] /\ pulled = {}
  /\ rowStatus = [r \in Rows |-> "completed"] /\ rowRefunded = [r \in Rows |-> FALSE]
  /\ map = [c \in Charges |-> None]
  /\ linked = {OrderOf[m] : m \in Mcm} /\ paid = [o \in Orders |-> {}]
  /\ issues = [o \in Orders |-> None] /\ forwarded = {}
  /\ job = [m \in Mcm |-> "ready"] /\ attempts = [m \in Mcm |-> 0] /\ asked = [m \in Mcm |-> 1]
  /\ ex = [e \in Execs |-> Idle]
  /\ cursor = 0 /\ pull = [k \in Pulls |-> Resting] /\ now = 1
  /\ orphaned = {} /\ failed = {}
  /\ changes = 0 /\ revivals = 0 /\ faults = {} /\ faultCount = 0

----------------------------------------------------------------------------
(* Wrong variants: the code before the fixes its comments name, and others. *)

FoundIfRetried(m)      == IF attempts[m] = 0 THEN {} ELSE
                            {c \in {m} \X (1 .. MaxPosts) : mod[c] # 0}
UnlinkedBeforeF6(o)    == {}
NoSiblings(m)          == {}
SeenAsStored(c)        == IF map[c] = None THEN None ELSE map[c].seen
CursorBeforeF9b(k)     == IF pull[k].top > pull[k].wm THEN pull[k].top ELSE pull[k].wm
OwnPayment(k)          == {pull[k].row}
RowNotReadBack(k)      == {None}

----------------------------------------------------------------------------
(* Helpers *)

InClover(c)  == mod[c] # 0
OrderIn(c)   == IF c \in Staff THEN OrderOf[c] ELSE OrderOf[c[1]]
Anchored(m)  == {c \in Mine(m) : InClover(c)}

\* The row of payments whose pos_id is c: the index of migration 016 allows one.
RowsWith(c)  == {m \in Mcm : posId[m] = c} \cup (pulled \cap {c})
RowExists(r) == r \in Mcm \cup pulled
RowOrder(r)  == IF r \in Mcm THEN OrderOf[r] ELSE OrderIn(r)

\* Payments with orders_ids of the order and status completed.
Completed(o) == {r \in Mcm \cup pulled : RowOrder(r) = o /\ rowStatus[r] = "completed"}
Unlinked(o)  == {m \in Mcm \cap Completed(o) : posId[m] = None}

Executing(m) == {e \in Execs : ex[e].job = m}

\* Sibling injections of the order that are not completed.
PendingSiblings(m) == {n \in Mcm \ {m} : OrderOf[n] = OrderOf[m] /\ job[n] # "completed"}

\* The payments of the order in Clover that carry the anchor of m, looked for on every
\* attempt; one of them is adopted when its amount is the one asked for.
Found(m)     == Anchored(m)
Adoptable(m) == {c \in Found(m) : amount[c] = asked[m]}

\* willTerminate, and the executor's own test.
Terminal(m, retryable) == ~retryable \/ attempts[m] + 1 >= MaxAttempts

Watermark == IF cursor # 0 THEN cursor ELSE now - Lookback
Larger(a, b)  == IF a > b THEN a ELSE b
Smaller(a, b) == IF a < b THEN a ELSE b

\* The cursor never passes the oldest deferred payment, unless that one is too old.
Protected(k) == pull[k].oldest # 0 /\ now - pull[k].oldest < Protect
NewCursor(k) ==
  LET reached  == Larger(pull[k].top, pull[k].wm)
      guarded  == IF Protected(k) THEN Smaller(reached, pull[k].oldest - 1)
                                  ELSE reached
  IN Larger(0, Smaller(guarded, now + Skew))

NoFault == UNCHANGED <<faults, faultCount>>
Fault(kind) ==
  /\ faultCount < MaxFaults
  /\ faultCount' = faultCount + 1
  /\ faults' = faults \cup {kind}

----------------------------------------------------------------------------
(* Clover, the clock and the engine *)

Stamps(c) == IF c \in Corrupt THEN {now + Skew + 1} ELSE {t \in now - Lag .. now : t > 0}

\* A customer pays at the device.
StaffPays(c) ==
  /\ ~InClover(c)
  /\ \E t \in Stamps(c) : mod' = [mod EXCEPT ![c] = t]
  /\ UNCHANGED <<fate, amount, inFlight, rowVars, map, orderVars, forwarded, jobVars, ex,
                 cursor, pull, now, orphaned, failed, countVars>>

\* A payment is voided or refunded in Clover, which stamps it anew.
Changes(c) ==
  /\ InClover(c) /\ fate[c] = "live" /\ changes < MaxChanges
  /\ \E f \in {"voided", "refunded"} : fate' = [fate EXCEPT ![c] = f]
  /\ mod' = [mod EXCEPT ![c] = Larger(now, mod[c])]
  /\ changes' = changes + 1
  /\ UNCHANGED <<amount, inFlight, rowVars, map, orderVars, forwarded, jobVars, ex, cursor,
                 pull, now, orphaned, failed, revivals, faults, faultCount>>

\* The POST of m takes effect: Clover makes one more payment, whatever there is.
Land(m, c, a) ==
  /\ c \in Mine(m) /\ ~InClover(c) /\ \A d \in Mine(m) : d[2] < c[2] => InClover(d)
  /\ \E t \in Stamps(c) : mod' = [mod EXCEPT ![c] = t]
  /\ amount' = [amount EXCEPT ![c] = a]

\* A POST lands after its client gave up.
LandLate(m) ==
  /\ \E a \in {1, 2} : /\ <<m, a>> \in inFlight
                       /\ inFlight' = inFlight \ {<<m, a>>}
                       /\ \E c \in Mine(m) : Land(m, c, a)
  /\ UNCHANGED <<fate, rowVars, map, orderVars, forwarded, jobVars, ex, cursor, pull, now,
                 orphaned, failed, countVars>>

Tick ==
  /\ now < MaxTime
  /\ now' = now + 1
  /\ UNCHANGED <<cloverVars, rowVars, map, orderVars, forwarded, jobVars, ex, cursor, pull,
                 orphaned, failed, countVars>>

\* An order gets its Clover id: the orders' pull, or the injection of the order.
OrderLinked(o) ==
  /\ o \notin linked
  /\ linked' = linked \cup {o}
  /\ UNCHANGED <<cloverVars, rowVars, map, paid, issues, forwarded, jobVars, ex, cursor, pull,
                 now, orphaned, failed, countVars>>

\* A worker claims the job; beside another execution only when that one's lock ran out.
Start(e, m) ==
  /\ ex[e].pc = "idle" /\ job[m] = "ready"
  /\ \/ Executing(m) = {} /\ NoFault
     \/ Executing(m) # {} /\ Fault("overrun")
  /\ ex' = [ex EXCEPT ![e] = Starting(m)]
  /\ UNCHANGED <<cloverVars, rowVars, map, orderVars, forwarded, jobVars, cursor, pull, now,
                 orphaned, failed, changes, revivals>>

\* The process of an injection or of a pull dies; a pull starts over with its payload.
Crash ==
  /\ Fault("crash")
  /\ \/ /\ \E e \in Execs : ex[e].pc # "idle" /\ ex' = [ex EXCEPT ![e] = Idle]
        /\ UNCHANGED pull
     \/ /\ \E k \in Pulls : /\ pull[k].pc \notin {"idle", "fetch"}
                            /\ pull' = [pull EXCEPT ![k] = Fetching(pull[k].wm)]
        /\ UNCHANGED ex
  /\ UNCHANGED <<cloverVars, rowVars, map, orderVars, forwarded, jobVars, cursor, now,
                 orphaned, failed, changes, revivals>>

\* An operator or pg_cron puts an ended injection back, perhaps with another amount.
Revive(m) ==
  /\ job[m] # "ready" /\ revivals < MaxRevivals
  /\ job' = [job EXCEPT ![m] = "ready"]
  /\ attempts' = [attempts EXCEPT ![m] = 0]
  /\ \E a \in {1, 2} : asked' = [asked EXCEPT ![m] = a]
  /\ revivals' = revivals + 1
  /\ UNCHANGED <<cloverVars, rowVars, map, orderVars, forwarded, ex, cursor, pull, now,
                 orphaned, failed, changes, faults, faultCount>>

----------------------------------------------------------------------------
(* clover/payment_injection *)

injectionFrame == UNCHANGED <<fate, pulled, rowStatus, rowRefunded, linked, paid, forwarded,
                              cursor, pull, now, orphaned, failed, asked, changes,
                              revivals>>

At(e, pc) == ex[e].pc = pc
Goto(e, pc) == ex' = [ex EXCEPT ![e].pc = pc]

\* The handler throws; told: persistCloverPaymentIssue runs when the job is to end here.
Throw(e, retryable, told) ==
  LET m == ex[e].job IN
  /\ ex' = [ex EXCEPT ![e] = Idle]
  /\ attempts' = [attempts EXCEPT ![m] = IF job[m] = "ready" THEN @ + 1 ELSE @]
  /\ job' = [job EXCEPT ![m] = IF job[m] = "ready" /\ Terminal(m, retryable) THEN "dead" ELSE @]
  /\ issues' = [issues EXCEPT ![OrderOf[m]] =
                  IF told /\ Terminal(m, retryable) THEN m ELSE @]

\* The handler returns and complete_step ends the job.
Return(e) ==
  /\ ex' = [ex EXCEPT ![e] = Idle]
  /\ job' = [job EXCEPT ![ex[e].job] = IF @ = "ready" THEN "completed" ELSE @]
  /\ UNCHANGED <<attempts, issues>>

\* Resume guard: a payment with a pos_id has been applied.
ReadPayment(e) ==
  /\ At(e, "guard")
  /\ \/ /\ NoFault /\ posId[ex[e].job] # None /\ Return(e)
     \/ /\ NoFault /\ posId[ex[e].job] = None /\ Goto(e, "get")
        /\ UNCHANGED <<job, attempts, issues>>
     \/ /\ Fault("failure") /\ Throw(e, TRUE, FALSE)
  /\ UNCHANGED <<mod, amount, inFlight, posId, map>> /\ injectionFrame

\* Reconcile before posting: adopt our payment, stop at another amount, post if there is
\* none.  When the order cannot be read nothing is posted; when it is not found, never.
ReadOrderInClover(e) ==
  LET m == ex[e].job IN
  /\ At(e, "get")
  /\ \/ /\ NoFault /\ Found(m) = {} /\ Goto(e, "post")
        /\ UNCHANGED <<job, attempts, issues>>
     \/ /\ NoFault
        /\ \E c \in Adoptable(m) : ex' = [ex EXCEPT ![e] = Holding(m, c, TRUE)]
        /\ UNCHANGED <<job, attempts, issues>>
     \/ /\ NoFault /\ Found(m) \ Adoptable(m) # {} /\ Throw(e, FALSE, TRUE)
     \/ /\ Fault("failure") /\ (Throw(e, TRUE, FALSE) \/ Throw(e, FALSE, TRUE))
  /\ UNCHANGED <<mod, amount, inFlight, posId, map>> /\ injectionFrame

\* The POST: answered; refused; or its answer lost, when it has landed, will land or will not.
PostPayment(e) ==
  LET m == ex[e].job IN
  /\ At(e, "post")
  /\ \/ /\ NoFault
        /\ \E c \in Mine(m) : /\ Land(m, c, asked[m])
                              /\ ex' = [ex EXCEPT ![e] = Holding(m, c, FALSE)]
        /\ UNCHANGED <<inFlight, job, attempts, issues>>
     \/ /\ Fault("failure") /\ Throw(e, TRUE, TRUE)
        /\ \E c \in Mine(m) : Land(m, c, asked[m])
        /\ UNCHANGED <<inFlight>>
     \/ /\ Fault("failure") /\ (Throw(e, TRUE, TRUE) \/ Throw(e, FALSE, TRUE))
        /\ UNCHANGED <<mod, amount, inFlight>>
     \/ /\ Fault("late")
        /\ inFlight' = inFlight \cup {<<m, asked[m]>>}
        /\ Throw(e, TRUE, TRUE)
        /\ UNCHANGED <<mod, amount>>
  /\ UNCHANGED <<posId, map>> /\ injectionFrame

\* payments.pos_id; refused when another row has it.  Only the POST's path tells the order.
WritePosId(e) ==
  LET m == ex[e].job  c == ex[e].charge  told == ~ex[e].adopted IN
  /\ At(e, "pos")
  /\ \/ /\ NoFault /\ RowsWith(c) \subseteq {m}
        /\ posId' = [posId EXCEPT ![m] = c] /\ Goto(e, "map")
        /\ UNCHANGED <<job, attempts, issues>>
     \/ /\ NoFault /\ ~(RowsWith(c) \subseteq {m})
        /\ Throw(e, TRUE, told) /\ UNCHANGED posId
     \/ /\ Fault("failure") /\ Throw(e, TRUE, told) /\ UNCHANGED posId
  /\ UNCHANGED <<mod, amount, inFlight, map>> /\ injectionFrame

\* The map row says voided = false and leaves total_refunded as it is.
SeenAfterInjection(c) ==
  IF map[c] # None /\ map[c].seen = "refunded" THEN "refunded" ELSE "live"

WriteMapRow(e) ==
  LET m == ex[e].job  c == ex[e].charge IN
  /\ At(e, "map")
  /\ \/ /\ NoFault /\ map' = [map EXCEPT ![c] = [pay |-> m, seen |-> SeenAfterInjection(c)]]
        /\ Goto(e, "siblings") /\ UNCHANGED <<job, attempts, issues>>
     \/ /\ Fault("failure") /\ Throw(e, TRUE, ~ex[e].adopted) /\ UNCHANGED map
  /\ UNCHANGED <<mod, amount, inFlight, posId>> /\ injectionFrame

\* reconcileCloverOrderIssues counts the siblings, and clears the slot in a second statement.
CountSiblings(e) ==
  /\ At(e, "siblings")
  /\ \/ NoFault /\ PendingSiblings(ex[e].job) = {} /\ Goto(e, "clear")
     \/ NoFault /\ PendingSiblings(ex[e].job) # {} /\ Goto(e, "end")
     \/ Fault("failure") /\ Goto(e, "end")
  /\ UNCHANGED <<mod, amount, inFlight, posId, map, job, attempts, issues>>
  /\ injectionFrame

ClearIssue(e) ==
  /\ At(e, "clear")
  /\ \/ NoFault /\ issues' = [issues EXCEPT ![OrderOf[ex[e].job]] = None]
     \/ Fault("failure") /\ UNCHANGED issues
  /\ Goto(e, "end")
  /\ UNCHANGED <<mod, amount, inFlight, posId, map, job, attempts>> /\ injectionFrame

EndInjection(e) ==
  /\ At(e, "end") /\ Return(e) /\ NoFault
  /\ UNCHANGED <<mod, amount, inFlight, posId, map>> /\ injectionFrame

InjectionStep(e) ==
  \/ ReadPayment(e) \/ ReadOrderInClover(e) \/ PostPayment(e) \/ WritePosId(e)
  \/ WriteMapRow(e) \/ CountSiblings(e) \/ ClearIssue(e) \/ EndInjection(e)

----------------------------------------------------------------------------
(* clover/fetch_payments *)

pullFrame == UNCHANGED <<cloverVars, linked, issues, jobVars, ex, now, changes, revivals>>

In(k, pc)     == pull[k].pc = pc
Item(k)       == pull[k].cur
Id(k)         == pull[k].cur.id
PullIs(k, p)  == pull' = [pull EXCEPT ![k] = p]
PullTo(k, pc) == PullIs(k, [pull[k] EXCEPT !.pc = pc])
NextItem(k)   == PullIs(k, [pull[k] EXCEPT !.pc = "next", !.cur = None, !.row = None, !.sum = {}])

\* The job carries the cursor of the moment it was enqueued.
BeginPull(k) ==
  /\ In(k, "idle")
  /\ PullIs(k, Fetching(Watermark))
  /\ UNCHANGED <<rowVars, map, paid, forwarded, cursor, orphaned, failed, faults, faultCount>> /\ pullFrame

Feed(k) == {[id |-> c, mod |-> mod[c], fate |-> fate[c]] :
              c \in {d \in Charges : InClover(d) /\ mod[d] >= pull[k].wm - Overlap}}

\* The pages of the feed; a failed GET is thrown and the job runs again.  They are read by
\* offset and in no stated order, so a row may shift over the edge of a page and be missed.
FetchFeed(k) ==
  /\ In(k, "fetch")
  /\ \/ /\ NoFault /\ UNCHANGED failed
        /\ PullIs(k, [pull[k] EXCEPT !.pc = "next", !.todo = Feed(k)])
     \/ \E i \in Feed(k) :
          /\ Feed(k) # {i} /\ Fault("shifted") /\ failed' = failed \cup {i.id}
          /\ PullIs(k, [pull[k] EXCEPT !.pc = "next", !.todo = Feed(k) \ {i}])
  /\ UNCHANGED <<rowVars, map, paid, forwarded, cursor, orphaned>> /\ pullFrame

\* The next payment, and its map row: reflect what changed, or go on as new.
LookUpMap(k) ==
  /\ In(k, "next")
  /\ \E i \in pull[k].todo :
       LET rest == [pull[k] EXCEPT !.todo = @ \ {i}, !.top = Larger(@, i.mod)]
           entry == map[i.id]
       IN \/ /\ NoFault /\ entry # None /\ entry.seen = i.fate
             /\ PullIs(k, rest)
          \/ /\ NoFault /\ entry # None /\ entry.seen # i.fate
             /\ PullIs(k, [rest EXCEPT !.pc = "reflect", !.cur = i, !.row = entry.pay])
          \/ /\ (NoFault /\ entry = None) \/ Fault("blind")
             /\ PullIs(k, [rest EXCEPT !.pc = "injected", !.cur = i])
  /\ UNCHANGED <<rowVars, map, paid, forwarded, cursor, orphaned, failed>> /\ pullFrame

ReflectInMap(k) ==
  /\ In(k, "reflect") /\ PullTo(k, "reflectRow")
  /\ \/ NoFault /\ map' = [map EXCEPT ![Id(k)] =
                           IF @ = None THEN None ELSE [@ EXCEPT !.seen = Item(k).fate]]
     \/ Fault("blind") /\ UNCHANGED map
  /\ UNCHANGED <<rowVars, paid, forwarded, cursor, orphaned, failed>> /\ pullFrame

\* total_refunded follows Clover; status does not.
ReflectInRow(k) ==
  /\ In(k, "reflectRow") /\ NextItem(k)
  /\ \/ NoFault /\ rowRefunded' = [rowRefunded EXCEPT ![pull[k].row] =
                                   (Item(k).fate = "refunded")]
     \/ Fault("blind") /\ UNCHANGED rowRefunded
  /\ UNCHANGED <<posId, pulled, rowStatus, map, paid, forwarded, cursor, orphaned, failed>>
  /\ pullFrame

\* Anti-loop: a row with this pos_id is taken for one MCM injected.
LookUpInjected(k) ==
  /\ In(k, "injected")
  /\ \/ /\ NoFault
        /\ \E r \in RowsWith(Id(k)) :
             PullIs(k, [pull[k] EXCEPT !.pc = "antiloop", !.row = r])
     \/ /\ (NoFault /\ RowsWith(Id(k)) = {}) \/ Fault("blind")
        /\ PullTo(k, "order")
  /\ UNCHANGED <<rowVars, map, paid, forwarded, cursor, orphaned, failed>> /\ pullFrame

\* The upsert of the map row of the payment at hand.
RecordInMap(k) ==
  \/ /\ NoFault /\ UNCHANGED failed
     /\ map' = [map EXCEPT ![Id(k)] = [pay |-> pull[k].row, seen |-> Item(k).fate]]
  \/ /\ Fault("blind") /\ UNCHANGED map
     /\ failed' = failed \cup {Id(k)}

MapInjected(k) ==
  /\ In(k, "antiloop") /\ RecordInMap(k) /\ NextItem(k)
  /\ UNCHANGED <<rowVars, paid, forwarded, cursor, orphaned>> /\ pullFrame

\* Without an order the payment is deferred; with one, only our own POSTs carry an
\* external id and may be a payment of MCM that was never linked.
FindOrder(k) ==
  /\ In(k, "order")
  /\ \/ /\ (NoFault /\ OrderIn(Id(k)) \notin linked) \/ Fault("blind")
        /\ PullIs(k, [pull[k] EXCEPT
                        !.pc = "next", !.cur = None, !.deferred = @ \cup {Id(k)},
                        !.oldest = IF @ = 0 THEN Item(k).mod ELSE Smaller(@, Item(k).mod)])
     \/ /\ NoFault /\ OrderIn(Id(k)) \in linked
        /\ PullTo(k, IF Id(k) \in Staff THEN "upsert" ELSE "unlinked")
  /\ UNCHANGED <<rowVars, map, paid, forwarded, cursor, orphaned, failed>> /\ pullFrame

\* Any completed payment of the order without pos_id will do (limit 1).
FindUnlinked(k) ==
  /\ In(k, "unlinked")
  /\ \/ /\ NoFault
        /\ \E m \in Unlinked(OrderIn(Id(k))) :
             PullIs(k, [pull[k] EXCEPT !.pc = "link", !.row = m])
     \/ /\ (NoFault /\ Unlinked(OrderIn(Id(k))) = {}) \/ Fault("blind")
        /\ PullTo(k, "upsert")
  /\ UNCHANGED <<rowVars, map, paid, forwarded, cursor, orphaned, failed>> /\ pullFrame

\* The update is not conditional on pos_id being null, and its error is ignored.
LinkUnlinked(k) ==
  /\ In(k, "link") /\ PullTo(k, "linkMap")
  /\ \/ /\ NoFault /\ RowsWith(Id(k)) \subseteq {pull[k].row}
        /\ posId' = [posId EXCEPT ![pull[k].row] = Id(k)]
     \/ /\ NoFault /\ ~(RowsWith(Id(k)) \subseteq {pull[k].row}) /\ UNCHANGED posId
     \/ /\ Fault("blind") /\ UNCHANGED posId
  /\ UNCHANGED <<pulled, rowStatus, rowRefunded, map, paid, forwarded, cursor, orphaned,
                 failed>> /\ pullFrame

MapLinked(k) ==
  /\ In(k, "linkMap") /\ RecordInMap(k) /\ NextItem(k)
  /\ UNCHANGED <<rowVars, paid, forwarded, cursor, orphaned>> /\ pullFrame

\* insert ... on conflict (site_id, pos_id) do update; an error skips the payment.
RecordPayment(k) ==
  LET c == Id(k)  r == IF RowsWith(c) = {} THEN c ELSE CHOOSE x \in RowsWith(c) : TRUE IN
  /\ In(k, "upsert")
  /\ \/ /\ NoFault /\ UNCHANGED failed
        /\ pulled' = IF RowsWith(c) = {} THEN pulled \cup {c} ELSE pulled
        /\ rowStatus' = [rowStatus EXCEPT ![r] =
                           IF Item(k).fate = "voided" THEN "voided" ELSE "completed"]
        /\ rowRefunded' = [rowRefunded EXCEPT ![r] = (Item(k).fate = "refunded")]
        /\ PullIs(k, [pull[k] EXCEPT
                        !.row = r, !.pc = IF Item(k).fate = "voided" THEN "map" ELSE "sum"])
     \/ /\ Fault("blind") /\ failed' = failed \cup {c} /\ NextItem(k)
        /\ UNCHANGED <<pulled, rowStatus, rowRefunded>>
  /\ UNCHANGED <<posId, map, paid, forwarded, cursor, orphaned>> /\ pullFrame

\* paid is the sum of what is completed, read in one statement and written in another;
\* payment_status and status follow from it and the order's total.
Summed(k) == Completed(OrderIn(Id(k)))
SumPayments(k) ==
  /\ In(k, "sum")
  /\ \/ /\ NoFault /\ PullIs(k, [pull[k] EXCEPT !.pc = "patch", !.sum = Summed(k)])
     \/ /\ Fault("blind") /\ PullTo(k, "patch")
  /\ UNCHANGED <<rowVars, map, paid, forwarded, cursor, orphaned, failed>> /\ pullFrame

PatchOrder(k) ==
  /\ In(k, "patch") /\ PullTo(k, "map")
  /\ \/ NoFault /\ paid' = [paid EXCEPT ![OrderIn(Id(k))] = pull[k].sum]
     \/ Fault("blind") /\ UNCHANGED paid
  /\ UNCHANGED <<rowVars, map, forwarded, cursor, orphaned, failed>> /\ pullFrame

MapRecorded(k) ==
  /\ In(k, "map") /\ RecordInMap(k)
  /\ IF Item(k).fate = "voided" THEN NextItem(k) ELSE PullTo(k, "forward")
  /\ UNCHANGED <<rowVars, paid, forwarded, cursor, orphaned>> /\ pullFrame

\* enqueue_job with the key of the row: one job however often; failures are logged.
ForwardToOmnivore(k) ==
  /\ In(k, "forward") /\ NextItem(k)
  /\ \/ NoFault /\ forwarded' = forwarded \cup
                  (IF OrderIn(Id(k)) \in OnOmnivore THEN {pull[k].row} ELSE {})
     \/ Fault("blind") /\ UNCHANGED forwarded
  /\ UNCHANGED <<rowVars, map, paid, cursor, orphaned, failed>> /\ pullFrame

\* complete_sync_schedule, whose result is ignored.
ReportPull(k) ==
  /\ In(k, "next") /\ pull[k].todo = {}
  /\ \/ /\ NoFault /\ cursor' = Larger(cursor, NewCursor(k))
        /\ orphaned' = orphaned \cup
             (IF Protected(k) THEN {} ELSE pull[k].deferred)
     \/ /\ Fault("blind") /\ UNCHANGED <<cursor, orphaned>>
  /\ PullIs(k, Resting)
  /\ UNCHANGED <<rowVars, map, paid, forwarded, failed>> /\ pullFrame

PullStep(k) ==
  \/ BeginPull(k) \/ FetchFeed(k) \/ LookUpMap(k) \/ ReflectInMap(k) \/ ReflectInRow(k)
  \/ LookUpInjected(k) \/ MapInjected(k) \/ FindOrder(k) \/ FindUnlinked(k)
  \/ LinkUnlinked(k) \/ MapLinked(k) \/ RecordPayment(k) \/ SumPayments(k)
  \/ PatchOrder(k) \/ MapRecorded(k) \/ ForwardToOmnivore(k) \/ ReportPull(k)

----------------------------------------------------------------------------
Next ==
  \/ \E c \in Staff : StaffPays(c)
  \/ \E c \in Charges : Changes(c)
  \/ \E m \in Mcm : LandLate(m) \/ Revive(m)
  \/ \E o \in Orders : OrderLinked(o)
  \/ Tick
  \/ \E e \in Execs, m \in Mcm : Start(e, m)
  \/ Crash
  \/ \E e \in Execs : InjectionStep(e)
  \/ \E k \in Pulls : PullStep(k)

Spec == Init /\ [][Next]_vars

----------------------------------------------------------------------------
(* Properties *)

\* While no lock is overrun and no POST lands after its client gave up, an MCM payment is
\* charged at most once, whatever crashes, is lost or is retried.
ChargedOnce ==
  {"overrun", "late"} \cap faults = {} => \A m \in Mcm : Cardinality(Anchored(m)) <= 1

\* A Clover payment behind the cursor, where no pull looks again, is in the map, unless a pull
\* gave it up for want of its order, a write failed or the pages of the feed shifted under it.
Behind(c)  == InClover(c) /\ mod[c] < cursor - Overlap
NothingSkipped ==
  \A c \in Charges : Behind(c) => map[c] # None \/ c \in orphaned \cup failed

\* No POST of MCM is recorded a second time as a payment of its own, while no statement fails.
NeverTwice == {"overrun", "late", "blind"} \cap faults = {} => pulled \cap Posts = {}

\* The issue of an order goes only when every MCM payment of the order has its pos_id.
ClearedWhenApplied ==
  [][\A o \in Orders : issues[o] # None /\ issues'[o] = None =>
       \A m \in Mcm : OrderOf[m] = o => posId[m] # None]_vars

\* While one pull runs at a time and nothing fails, a payment it records counts in the
\* order's paid when the pull is over.
PaidAddsUp ==
  faults = {} /\ Cardinality(Pulls) = 1 /\ (\A k \in Pulls : pull[k].pc = "idle") =>
    \A r \in pulled : rowStatus[r] = "completed" => r \in paid[RowOrder(r)]

\* A completed injection has charged its payment.
CompletedIsCharged == \A m \in Mcm : job[m] = "completed" => Anchored(m) # {}
=============================================================================
