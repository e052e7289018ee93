---------------------------- MODULE CloverOrder -----------------------------
(***************************************************************************)
(* One MCM order pushed to Clover.  Each version of its lines is a job of  *)
(* two steps: create (or adopt) the Clover order, and reconcile its lines. *)
(* A paid Clover order cannot be changed: what was added since is billed   *)
(* on a supplement, a second Clover order with a job of its own, which the *)
(* manifest of the order (clover_supplemental) keeps track of.  A line is  *)
(* a pair of a key (name and note) and a price; lines are a bag.  Native   *)
(* modifiers (off by default), printing and POSTs that take effect after   *)
(* their client gave up are left out.                                      *)
(***************************************************************************)
EXTENDS Integers, Sequences, FiniteSets, Bags, FiniteSetsExt

CONSTANTS
  Ids,          \* bound: orders Clover may open
  Versions,     \* the lines of each version of the order, a sequence of bags
  Fee,          \* the key of its charge, whose price varies between versions
  BulkMax,      \* lines of one bulk_line_items request
  MaxAttempts,  \* max_attempts of each step
  Faults,       \* bound: how many of Kinds happen in one behaviour
  None

\* What may happen besides the code's own steps, each kind once.
Kinds == {"crash", "lost", "unsaved", "blind", "undeleted", "untotalled", "fails", "retry", "overlap",
          "midway", "unnamed"}

VARIABLES
  clover,   \* Clover's orders: external reference, lines, total, whether it is paid
  row,      \* orders: clover_ticket_id, hash, pos_injection_error, clover_supplemental
  job,      \* integration_jobs: pushes <<version, EmptyBag>> and supplements <<0, signature>>
  used      \* the kinds that happened

vars == <<clover, row, job, used>>

Key(l)     == l[1]
Keys(b)    == BagOfAll(Key, b)
Amount(b)  == MapThenSumSet(LAMBDA l : l[2] * b[l], DOMAIN b)
Push(v)    == <<v, EmptyBag>>
Supp(sig)  == <<0, sig>>
Primary(j) == j[1] # 0
Latest     == CHOOSE v \in 0 .. Len(Versions) :
                Push(v + 1) \notin DOMAIN job /\ (v = 0 \/ Push(v) \in DOMAIN job)
Ended(j)   == job[j].status \in {"completed", "dead"}

NoOrder == [ref |-> None, lines |-> EmptyBag, total |-> 0, paid |-> FALSE]
Queued(lines, total) ==
  [status |-> "queued", step |-> 1, attempts |-> 0, pc |-> "idle", order |-> None,
   lines |-> lines, total |-> total, del |-> EmptyBag, add |-> EmptyBag, sig |-> EmptyBag,
   bill |-> <<>>]
Pc == {"idle", "adopt", "find", "post", "link", "hash", "get", "delete", "bulk", "total",
       "claim", "bill", "enqueue", "save"}

TypeOK ==
  /\ DOMAIN clover = Ids
  /\ \A o \in Ids : /\ IsABag(clover[o].lines) /\ clover[o].total \in Int /\ clover[o].paid \in BOOLEAN
                    /\ clover[o].ref \in DOMAIN job \cup {<<1, EmptyBag>>, None}
  /\ row.ticket \in Ids \cup {None} /\ row.hash \in 0 .. Len(Versions)
  /\ row.error \in {"none", "failed", "removed", "no_residual", "unreconciled"}
  /\ \A e \in row.supplements : IsABag(e.sig) /\ e.id \in Ids \cup {None}
  /\ \A j \in DOMAIN job :
       /\ job[j].status \in {"queued", "running", "completed", "dead"} /\ job[j].step \in {1, 2}
       /\ job[j].attempts \in 0 .. MaxAttempts /\ job[j].pc \in Pc
       /\ job[j].order \in Ids \cup {None} /\ IsABag(job[j].lines)
  /\ used \subseteq Kinds

Init ==
  /\ clover = [o \in Ids |-> NoOrder]
  /\ row = [ticket |-> None, hash |-> 0, error |-> "none", seed |-> <<>>, supplements |-> {}]
  /\ job = <<>> /\ used = {}

Happens(k) == k \in Kinds \ used /\ Cardinality(used) < Faults /\ used' = used \cup {k}
At(j, pc)  == job[j].pc = pc
Go(j, pc)  == job' = [job EXCEPT ![j].pc = pc]

\* An update whose error is only logged.
Logged(new) ==
  \/ row' = new /\ UNCHANGED used
  \/ Happens("unsaved") /\ UNCHANGED row

---------------------------------------------------------------------------
(* Producer and engine                                                     *)

\* The edge enqueues a job per version of the lines (its key holds their hash).
PushVersion ==
  /\ Latest < Len(Versions)
  /\ IF \A j \in DOMAIN job : Ended(j) THEN UNCHANGED used ELSE Happens("overlap")
  /\ job' = [j \in DOMAIN job \cup {Push(Latest + 1)} |->
               IF j \in DOMAIN job THEN job[j]
               ELSE Queued(Versions[Latest + 1], Amount(Versions[Latest + 1]))]
  /\ UNCHANGED <<clover, row>>

Start(j) ==
  /\ job[j].status = "queued"
  /\ job' = [job EXCEPT ![j].status = "running",
                        ![j].pc = IF job[j].step = 1 THEN "adopt"
                                  ELSE IF Primary(j) THEN "hash" ELSE "get"]
  /\ UNCHANGED <<clover, row, used>>

Rested(j)  == [job[j] EXCEPT !.pc = "idle", !.del = EmptyBag, !.add = EmptyBag, !.sig = EmptyBag, !.bill = <<>>]
Completed(j) == job' = [job EXCEPT ![j] = [Rested(j) EXCEPT !.status = "completed"]]
Created(j, o) ==
  job' = [job EXCEPT ![j] = [@ EXCEPT !.step = 2, !.attempts = 0, !.order = o,
                                      !.pc = IF Primary(j) THEN "hash" ELSE "get"]]

\* A step that throws; persistInjectionError when it dies (willTerminate).
Thrown(j, retryable) ==
  LET retries == retryable /\ job[j].attempts + 1 < MaxAttempts
  IN /\ job' = [job EXCEPT ![j] = [Rested(j) EXCEPT !.status = IF retries THEN "queued" ELSE "dead",
                                                   !.attempts = @ + 1]]
     /\ row' = IF retries THEN row ELSE [row EXCEPT !.error = "failed"]

Crash(j) ==
  /\ job[j].status = "running" /\ Happens("crash")
  /\ job' = [job EXCEPT ![j] = [Rested(j) EXCEPT !.status = "queued"]]
  /\ UNCHANGED <<clover, row>>

RetryDeadLetter(j) ==
  /\ job[j].status = "dead"
  /\ IF Primary(j) /\ j # Push(Latest) THEN Happens("overlap") ELSE Happens("retry")
  /\ job' = [job EXCEPT ![j].status = "queued", ![j].attempts = 0]
  /\ UNCHANGED <<clover, row>>

\* A request or a claim fails without effect; a job that cannot be enqueued fails for good.
RequestFails(j) ==
  /\ job[j].pc \in {"post", "get", "bulk", "claim", "bill", "enqueue"}
  /\ \E retryable \in BOOLEAN : (At(j, "enqueue") => ~retryable) /\ Thrown(j, retryable)
  /\ Happens("fails") /\ UNCHANGED clover

---------------------------------------------------------------------------
(* create_order and create_supplemental_order                              *)

\* The id a former attempt left on the row, or in the manifest; a read that fails counts as none.
Linked(j) ==
  IF Primary(j) THEN row.ticket
  ELSE IF \E e \in row.supplements : e.sig = j[2]
         THEN (CHOOSE e \in row.supplements : e.sig = j[2]).id ELSE None
Adopt(j) ==
  /\ At(j, "adopt")
  /\ \/ Linked(j) # None /\ Created(j, Linked(j)) /\ UNCHANGED used
     \/ Linked(j) = None /\ Go(j, "find") /\ UNCHANGED used
     \/ Linked(j) # None /\ Happens("blind") /\ Go(j, "find")
  /\ UNCHANGED <<clover, row>>

\* externalReferenceId: the same for all pushes, one of each supplement.
Ref(j) == IF Primary(j) THEN Push(1) ELSE j
WithRef(j) == {o \in Ids : clover[o].ref = Ref(j)}
FindByRef(j) ==
  /\ At(j, "find")
  /\ \/ \E o \in WithRef(j) : job' = [job EXCEPT ![j].pc = "link", ![j].order = o] /\ UNCHANGED used
     \/ WithRef(j) = {} /\ Go(j, "post") /\ UNCHANGED used
     \/ WithRef(j) # {} /\ Happens("blind") /\ Go(j, "post")
  /\ UNCHANGED <<clover, row>>

Free == CHOOSE o \in Ids : clover[o] = NoOrder
PostOrder(j) ==
  /\ At(j, "post") /\ \E o \in Ids : clover[o] = NoOrder
  /\ clover' = [clover EXCEPT ![Free].ref = Ref(j), ![Free].total = job[j].total]
  /\ \/ /\ job' = [job EXCEPT ![j].pc = "link", ![j].order = Free]
        /\ UNCHANGED <<row, used>>
     \/ Happens("lost") /\ Thrown(j, TRUE)

\* persistCloverTicketId, which clears the error.
WithTicket(o) == [row EXCEPT !.ticket = o, !.error = "none"]
\* persistSupplementCloverId: the entry of the signature, under the row's lock.
WithSupplement(sig, o) ==
  [row EXCEPT !.supplements = {e \in @ : e.sig # sig} \cup {[sig |-> sig, id |-> o]}]
LinkOrder(j) ==
  /\ At(j, "link")
  /\ Logged(IF Primary(j) THEN WithTicket(job[j].order) ELSE WithSupplement(j[2], job[j].order))
  /\ Created(j, job[j].order)
  /\ UNCHANGED clover

---------------------------------------------------------------------------
(* reconcile_items: an order that is not paid                              *)

ReadHash(j) ==
  /\ At(j, "hash")
  /\ IF row.hash = j[1] THEN Completed(j) ELSE Go(j, "get")
  /\ UNCHANGED <<clover, row, used>>

\* Wrong variant, for the tests of the properties: the lines are sent whatever is there.
RecreateAll(j) ==
  LET o == clover[job[j].order]
  IN /\ At(j, "get")
     /\ job' = [job EXCEPT ![j].pc = IF o.paid /\ Primary(j) THEN "claim" ELSE "delete",
                           ![j].del = EmptyBag, ![j].add = job[j].lines]
     /\ UNCHANGED <<clover, row, used>>

\* computeLineItemDelta: what is there and not wanted goes, what is wanted and not there comes.
\* Lines pair up by their signature, each once.
LineItemDelta(existing, desired) ==
  [toDelete |-> existing (-) desired, toCreate |-> desired (-) existing]

GetOrder(j) ==
  LET o     == clover[job[j].order]
      delta == LineItemDelta(o.lines, job[j].lines)
  IN /\ At(j, "get")
     /\ job' = [job EXCEPT ![j].pc = IF o.paid /\ Primary(j) THEN "claim" ELSE "delete",
                           ![j].del = delta.toDelete, ![j].add = delta.toCreate]
     /\ UNCHANGED <<clover, row, used>>

\* Each line is deleted by a request of its own; a failure is swallowed.
DeleteLine(j) ==
  /\ At(j, "delete") /\ job[j].del # EmptyBag
  /\ LET one == SetToBag({CHOOSE l \in DOMAIN job[j].del : TRUE})
     IN /\ \/ /\ ~clover[job[j].order].paid
              /\ clover' = [clover EXCEPT ![job[j].order].lines = @ (-) one] /\ UNCHANGED used
           \/ clover[job[j].order].paid /\ UNCHANGED <<clover, used>>
           \/ Happens("undeleted") /\ UNCHANGED clover
        /\ job' = [job EXCEPT ![j].del = @ (-) one]
  /\ UNCHANGED row
Deleted(j) ==
  /\ At(j, "delete") /\ job[j].del = EmptyBag /\ Go(j, "bulk")
  /\ UNCHANGED <<clover, row, used>>

\* bulk_line_items, in chunks of any of the lines; an order paid meanwhile refuses them for good.
Chunks(b) ==
  {[l \in {l \in DOMAIN b : n[l] > 0} |-> n[l]] : n \in {n \in [DOMAIN b -> 0 .. BulkMax] : \A l \in DOMAIN b : n[l] <= b[l]}}
BulkCreate(j) ==
  /\ At(j, "bulk") /\ job[j].add # EmptyBag
  /\ \/ \E chunk \in Chunks(job[j].add) :
          /\ BagCardinality(chunk) = Min({BulkMax, BagCardinality(job[j].add)})
          /\ ~clover[job[j].order].paid
          /\ clover' = [clover EXCEPT ![job[j].order].lines = @ (+) chunk]
          /\ \/ job' = [job EXCEPT ![j].add = @ (-) chunk] /\ UNCHANGED <<row, used>>
             \/ Happens("lost") /\ Thrown(j, TRUE)
     \/ clover[job[j].order].paid /\ Thrown(j, FALSE) /\ UNCHANGED <<clover, used>>
Filled(j) ==
  /\ At(j, "bulk") /\ job[j].add = EmptyBag /\ Go(j, "total")
  /\ UNCHANGED <<clover, row, used>>

\* The total is dictated; a failure is not fatal.
SetTotal(j) ==
  /\ At(j, "total")
  /\ \/ /\ clover' = [clover EXCEPT ![job[j].order].total = IF clover[job[j].order].paid THEN @ ELSE job[j].total]
        /\ UNCHANGED used
     \/ Happens("untotalled") /\ UNCHANGED clover
  /\ IF Primary(j) THEN Go(j, "save") ELSE Completed(j)
  /\ UNCHANGED row

\* persistCloverHash ends every branch of a push.
SaveHash(j) ==
  /\ At(j, "save") /\ Logged([row EXCEPT !.hash = j[1]]) /\ Completed(j)
  /\ UNCHANGED clover

---------------------------------------------------------------------------
(* reconcile_items: a paid order (handlePaidPrimaryDelta)                  *)

\* claim_clover_supplement, one transaction: what has been billed is the lines the primary had
\* at the first claim, and the signatures of all supplements; the delta gets an entry of its
\* own, unless one has its signature already.
Seed(j)   == IF row.seed = <<>> THEN Keys(clover[job[j].order].lines) ELSE row.seed[1]
Billed(j) == FoldSet(LAMBDA e, b : b (+) e.sig, Seed(j), row.supplements)
\* computeDelta: keys by count.
Unbilled(j) == Keys(job[j].lines) (-) Billed(j)
HasRemoval(j) == ~(Billed(j) \sqsubseteq Keys(job[j].lines))
Claim(j) ==
  LET delta   == Unbilled(j)
      claimed == [row EXCEPT !.seed = <<Seed(j)>>]
      known   == \E e \in row.supplements : e.sig = delta
  IN /\ At(j, "claim")
     /\ \/ /\ delta = EmptyBag /\ Go(j, "save")
           /\ row' = IF HasRemoval(j) THEN [claimed EXCEPT !.error = "removed"] ELSE claimed
        \/ /\ delta # EmptyBag
           /\ row' = IF known THEN claimed
                     ELSE [claimed EXCEPT !.supplements = @ \cup {[sig |-> delta, id |-> None]}]
           /\ job' = [job EXCEPT ![j].pc = "bill", ![j].sig = delta]
     /\ UNCHANGED <<clover, used>>

\* The lines of the delta, charges apart: a charge is billed by what it grew, not by count.
\* fees: the names the order's row has for charges.
Items(j, fees) == [l \in {l \in DOMAIN job[j].lines : Key(l) \in DOMAIN job[j].sig \ fees} |->
                     job[j].sig[Key(l)]]
Charges(b, fees) == Amount([l \in {l \in DOMAIN b : Key(l) \in fees} |-> b[l]])
Growth(j, orders, fees) ==
  Charges(job[j].lines, fees) - MapThenSumSet(LAMBDA o : Charges(clover[o].lines, fees), orders)
Delta(j, orders, fees) ==
  Items(j, fees) (+) (IF Growth(j, orders, fees) > 0 THEN SetToBag({<<Fee, Growth(j, orders, fees)>>})
                      ELSE EmptyBag)

\* resolveSupplementTotal: what the order is worth, less what Clover's orders say they total.
Residual(j, orders) == job[j].total - MapThenSumSet(LAMBDA o : clover[o].total, orders)

\* absorbToTarget: one line, a charge if possible, takes the difference; none may become free.
Raised(b, l, n) == (b (-) SetToBag({l})) (+) SetToBag({<<l[1], l[2] + n>>})
Absorbing(b, n, fees) ==
  LET fit == {l \in DOMAIN b : l[2] + n > 0}
      fee == {l \in fit : Key(l) \in fees}
  IN IF n = 0 \/ fit = {} THEN {b}
     ELSE {Raised(b, l, n) : l \in IF fee # {} THEN fee ELSE fit}

\* Wrong variant, for the tests of the properties: each supplement is billed as the first.
NoPriors(j) == {}

\* Supplements Clover already has are discounted; a manifest that cannot be read has none.
Priors(j) == {e.id : e \in {e \in row.supplements : e.id # None /\ e.sig # job[j].sig}}
BillWith(j, orders, fees) ==
  LET delta == Delta(j, orders, fees)
      owed  == Residual(j, orders)
  IN \/ delta = EmptyBag /\ Go(j, "save") /\ UNCHANGED row
     \/ /\ delta # EmptyBag /\ owed <= 0 /\ Go(j, "save")
        /\ row' = [row EXCEPT !.error = "no_residual"]
     \/ /\ delta # EmptyBag /\ owed > 0
        /\ \E b \in Absorbing(delta, owed - Amount(delta), fees) :
             /\ job' = [job EXCEPT ![j].pc = "enqueue", ![j].bill = <<b, owed>>]
             /\ row' = IF Amount(b) = owed THEN row ELSE [row EXCEPT !.error = "unreconciled"]

\* A read of the order that fails names no charge ("unnamed"), and all lines go by count.  The
\* payload is one with a total: without one (:193-198) the lines are billed as they are.
Bill(j) ==
  /\ At(j, "bill")
  /\ LET orders == {job[j].order} \cup Priors(j)
     IN \/ BillWith(j, orders, {Fee}) /\ UNCHANGED used
        \/ Happens("unnamed") /\ BillWith(j, orders, {})
        \/ Priors(j) # {} /\ Happens("blind") /\ BillWith(j, {job[j].order}, {Fee})
  /\ UNCHANGED clover

\* enqueueCloverSupplementalInjection: a signature that has a job gets no other.
EnqueueSupplement(j) ==
  LET s == Supp(job[j].sig)
      J == [job EXCEPT ![j].pc = "save"]
  IN /\ At(j, "enqueue")
     /\ job' = [k \in DOMAIN job \cup {s} |->
                  IF k \in DOMAIN job THEN J[k] ELSE Queued(job[j].bill[1], job[j].bill[2])]
     /\ UNCHANGED <<clover, row, used>>

---------------------------------------------------------------------------
(* The world                                                               *)

\* The primary is paid at the register (nobody asks whether a supplement is); half reconciled, or
\* with a total that is not that of its lines, only as a fault.
Pay(o) ==
  /\ clover[o].ref = Push(1) /\ clover[o].lines # EmptyBag /\ ~clover[o].paid
  /\ IF Amount(clover[o].lines) = clover[o].total THEN UNCHANGED used ELSE Happens("midway")
  /\ clover' = [clover EXCEPT ![o].paid = TRUE]
  /\ UNCHANGED <<row, job>>

Next ==
  \/ PushVersion
  \/ \E j \in DOMAIN job :
       \/ Start(j) \/ Crash(j) \/ RetryDeadLetter(j) \/ RequestFails(j)
       \/ Adopt(j) \/ FindByRef(j) \/ PostOrder(j) \/ LinkOrder(j)
       \/ ReadHash(j) \/ GetOrder(j) \/ DeleteLine(j) \/ Deleted(j) \/ BulkCreate(j) \/ Filled(j)
       \/ SetTotal(j) \/ SaveHash(j) \/ Claim(j) \/ Bill(j) \/ EnqueueSupplement(j)
  \/ \E o \in Ids : Pay(o)

Spec == Init /\ [][Next]_vars

---------------------------------------------------------------------------
(* Properties                                                              *)

Never(kinds) == used \cap kinds = {}
Made         == {o \in Ids : clover[o].ref # None}
Settled      == Push(1) \in DOMAIN job /\ \A j \in DOMAIN job : Ended(j)

\* Whatever is lost, crashes or is put back, a push or a supplement opens one Clover order
\* (create-order.ts:16-23, create-supplemental-order.ts:14-15): unless a lookup failed, or two
\* versions were under way together.
OneOrderEach ==
  Never({"blind", "overlap"}) => \A o, p \in Made : clover[o].ref = clover[p].ref => o = p

\* When the last push completed and nothing was paid, Clover has exactly its lines, each once
\* (reconcile-items.ts:110-114), whatever the attempts before it left half done.
LinesConverge ==
  Settled /\ Never({"overlap", "undeleted", "blind"}) /\ (\A o \in Made : ~clover[o].paid)
    /\ job[Push(Latest)].status = "completed"
  => clover[job[Push(Latest)].order].lines = Versions[Latest]

\* Clover's orders never come to more than the dearest version of the order was worth: the
\* "hard ceiling" of supplemental.ts:491-493.  It needs every write of an id, a total and a
\* manifest to have come through, and no dead supplement put back after a later one.
Worth == Max({Amount(Versions[v]) : v \in 1 .. Latest} \cup {0})
NeverOverbilled ==
  Never({"overlap", "blind", "unsaved", "untotalled", "undeleted", "midway", "retry"})
  => MapThenSumSet(LAMBDA o : Amount(clover[o].lines), Made) <= Worth

\* Does not hold.  What was added after the payment is billed, or an error shows it: "never a silent loss"
\* (reconcile-items.ts:92-97).  An addition equal to an earlier one has its signature, hence
\* its entry and its job.
NeverSilentlyLost ==
  Settled /\ row.error = "none" /\ job[Push(Latest)].status = "completed"
  => Keys(Versions[Latest]) \sqsubseteq
       Keys(FoldSet(LAMBDA o, b : b (+) clover[o].lines, EmptyBag, Made))
=============================================================================
