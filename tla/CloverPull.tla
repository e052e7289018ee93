---------------------------- MODULE CloverPull -----------------------------
(***************************************************************************)
(* The clover fetch_open_orders and fetch_closed_orders pulls: two lanes   *)
(* that read the orders of Clover and write them to the order's row, while *)
(* waiters edit the row, a push adds its lines to Clover one by one, the   *)
(* terminal adds, removes and reprices lines and takes the payment, and    *)
(* the payment pull records that payment.  One Clover order and its row;   *)
(* of a second row only that it exists.                                    *)
(*                                                                         *)
(* As in OmnivorePull a lane remembers whether the row was stamped         *)
(* (clover_synced_at) since its fetch and whether date_updated moved since *)
(* its lookup; neither the managed merge nor the payment pull moves it.    *)
(***************************************************************************)
EXTENDS Naturals, Sequences, SequencesExt, FiniteSets, FiniteSetsExt

CONSTANTS
  Lanes,     \* executions of the pull handlers
  Sigs,      \* signatures (name and price) of lines
  Price,     \* the price in each signature
  MaxRows,   \* bound: line items ever created in Clover
  MaxLines,  \* bound: lines the waiters type
  Faults     \* bound: how many of them happen in one behaviour

\* What may happen besides the code's own steps, each kind once.
\* (What the code does to itself is only noted; Faults does not bound it.)
Noted == {"reclaimed", "doubled"}
Kinds == {"unread", "blind", "delete", "emptied", "kitchen", "pay", "remove", "price"} \cup Noted

VARIABLES
  clover,  \* the Clover order: line items made, the signature of those left, paid
  row,     \* the order's row in MCM, by what the pulls find it, how many rows the order has,
           \* its payments row
  lane,    \* each lane: its snapshot, the row it looked up, what it missed
  used     \* the kinds that happened

vars == <<clover, row, lane, used>>

NoItems == <<>>
\* linked: not at all, by clover_ticket_id, or by clover_pos_id.
NoRow   == [rows |-> 0, linked |-> "no", managed |-> FALSE, lines |-> <<>>, total |-> 0, status |-> "new",
            paid |-> FALSE, applied |-> FALSE, counted |-> FALSE, typed |-> 0]
Resting == [pc |-> "idle", items |-> NoItems, closed |-> FALSE, stamped |-> FALSE, stale |-> FALSE,
            status |-> "new", paid |-> FALSE, row |-> NoRow]

TypeOK ==
  /\ clover.made \in 0 .. MaxRows /\ DOMAIN clover.items \subseteq 1 .. clover.made
  /\ \A i \in DOMAIN clover.items : clover.items[i] \in Sigs
  /\ row.rows \in 0 .. 2 /\ row.linked \in {"no", "ticket", "pos"} /\ row.total \in Nat /\ row.status \in {"new", "kitchen", "closed"}
  /\ \A n \in DOMAIN row.lines :
       row.lines[n] \in [sig : Sigs, qty : Nat, total : Nat, ids : SUBSET (1 .. MaxRows), voided : BOOLEAN]
  /\ \A k \in Lanes : lane[k].pc \in {"idle", "fetched", "read", "checked", "absent"}
  /\ used \subseteq Kinds

\* An order opened from MCM (its Clover order was just posted and has no lines yet, its row
\* does not name it) or one born in the terminal, with table service (its row is or will be
\* managed) or without.
Init ==
  /\ \E s \in Sigs, managed \in BOOLEAN :
       \/ /\ clover = [made |-> 0, items |-> NoItems, paid |-> FALSE]
          /\ row = [NoRow EXCEPT !.rows = 1, !.managed = managed]
       \/ /\ clover = [made |-> 1, items |-> (1 :> s), paid |-> FALSE]
          /\ row = [NoRow EXCEPT !.managed = managed]
  /\ lane = [k \in Lanes |-> Resting] /\ used = {}

Happens(k) == k \in Kinds \ used /\ Cardinality(used \ Noted) < Faults /\ used' = used \cup {k}
At(k, pc)  == lane[k].pc = pc
Rest(k)    == lane' = [lane EXCEPT ![k] = Resting]

\* What the lines come to, by price and quantity and by their own totals, and what the items
\* of Clover's order come to.
Standing(lines) == {n \in DOMAIN lines : ~lines[n].voided}
Worth(lines)    == MapThenSumSet(LAMBDA n : Price[lines[n].sig] * lines[n].qty, Standing(lines))
Totals(lines, N) == MapThenSumSet(LAMBDA n : lines[n].total, N \cap Standing(lines))
Charged(items)  == MapThenSumSet(LAMBDA i : Price[items[i]], DOMAIN items)
Ascending(ids) ==
  CHOOSE s \in [1 .. Cardinality(ids) -> ids] : \A m, n \in DOMAIN s : m < n => s[m] < s[n]

\* Another party writes the row; only what waiters write moves date_updated.
Edit(r, moves) ==
  /\ row' = r
  /\ lane' = [k \in Lanes |-> [lane[k] EXCEPT !.stale = @ \/ (moves /\ lane[k].pc \in {"read", "checked"})]]

---------------------------------------------------------------------------
(* Around the pulls: the terminal, the waiters, the push and the payment   *)
(* pull, as upsert-orders.ts and managed-merge.ts describe them.           *)

Adds(s) ==
  /\ ~clover.paid /\ clover.made < MaxRows
  /\ clover' = [clover EXCEPT !.made = @ + 1, !.items = @ @@ (clover.made + 1 :> s)]
TerminalAdds ==
  /\ \E s \in Sigs : Adds(s)
  /\ UNCHANGED <<row, lane, used>>

TerminalRemoves ==
  /\ ~clover.paid
  /\ \E i \in DOMAIN clover.items :
       /\ Happens(IF DOMAIN clover.items = {i} THEN "emptied" ELSE "remove")
       /\ clover' = [clover EXCEPT !.items = Restrict(@, DOMAIN @ \ {i})]
  /\ UNCHANGED <<row, lane>>

\* A line item keeps its id when its price is changed.
TerminalReprices ==
  /\ ~clover.paid /\ Happens("price")
  /\ \E i \in DOMAIN clover.items : \E s \in Sigs \ {clover.items[i]} :
       clover' = [clover EXCEPT !.items[i] = s]
  /\ UNCHANGED <<row, lane>>

TerminalPays ==
  /\ ~clover.paid /\ Happens("pay")
  /\ clover' = [clover EXCEPT !.paid = TRUE]
  /\ UNCHANGED <<row, lane>>

\* persistCloverTicketId, after the POST of the order; a write that fails is only logged.
SavesTicket ==
  /\ row.rows > 0 /\ row.linked = "no"
  /\ Edit([row EXCEPT !.linked = "ticket"], FALSE)
  /\ UNCHANGED <<clover, used>>

WaiterTypes ==
  /\ row.rows > 0 /\ row.managed /\ row.typed < MaxLines /\ row.status # "closed"
  /\ \E s \in Sigs, q \in 1 .. 2 :
       LET lines == Append(row.lines,
                            [sig |-> s, qty |-> q, total |-> Price[s] * q, ids |-> {}, voided |-> FALSE])
       IN Edit([row EXCEPT !.typed = @ + 1, !.lines = lines, !.total = @ + Price[s] * q], TRUE)
  /\ UNCHANGED <<clover, used>>

KitchenAccepts ==
  /\ row.rows > 0 /\ row.status = "new" /\ Happens("kitchen")
  /\ Edit([row EXCEPT !.status = "kitchen"], TRUE)
  /\ UNCHANGED clover

\* One more line item of a signature the row has more of, with no reference back.
PushesLine ==
  /\ \E s \in Sigs :
       /\ MapThenSumSet(LAMBDA n : row.lines[n].qty,
                        {n \in DOMAIN row.lines : row.lines[n].sig = s /\ ~row.lines[n].voided})
            > Cardinality({i \in DOMAIN clover.items : clover.items[i] = s})
       /\ Adds(s)
  /\ UNCHANGED <<row, lane, used>>

\* upsert-payments.ts: the payments row first, then paid and status of the order.
PaymentRecorded ==
  /\ clover.paid /\ row.rows > 0 /\ row.linked # "no" /\ ~row.applied
  /\ Edit([row EXCEPT !.applied = TRUE], FALSE)
  /\ UNCHANGED <<clover, used>>

PaymentCounted ==
  /\ row.applied /\ ~row.counted
  /\ Edit([row EXCEPT !.counted = TRUE, !.paid = TRUE, !.status = "closed"], FALSE)
  /\ UNCHANGED <<clover, used>>

---------------------------------------------------------------------------
(* mergeCloverManagedLineItems                                             *)

\* What the conversion of an order makes of a line item: a line of its own.
PosLine(items, i) == [sig |-> items[i], qty |-> 1, total |-> Price[items[i]], ids |-> {i}, voided |-> FALSE]
PosLines(items) ==
  LET order == Ascending(DOMAIN items) IN [n \in DOMAIN order |-> PosLine(items, order[n])]

\* First pass, by anchor, each row once.
ByAnchor(lines, acc, n) ==
  LET mine == lines[n].ids \cap acc.pool
  IN [pool |-> acc.pool \ mine, got |-> [acc.got EXCEPT ![n] = mine]]
ClaimAnchored(lines, items) ==
  FoldLeft(LAMBDA acc, n : ByAnchor(lines, acc, n),
    [pool |-> DOMAIN items, got |-> [n \in DOMAIN lines |-> {}]], [n \in DOMAIN lines |-> n])

\* Second pass, by signature up to the quantity, anchored lines first (voided ones too).
BySignature(lines, items, acc, n) ==
  LET same    == {i \in acc.pool : items[i] = lines[n].sig}
      missing == lines[n].qty - Cardinality(acc.got[n])
      take    == {i \in same : Cardinality({j \in same : j < i}) < missing}
  IN [pool |-> acc.pool \ take, got |-> [acc.got EXCEPT ![n] = @ \cup take]]
ClaimSigned(lines, items, claims) ==
  LET anchored == {n \in DOMAIN lines : lines[n].ids # {}}
  IN FoldLeft(LAMBDA acc, n : BySignature(lines, items, acc, n), claims,
       Ascending(anchored) \o Ascending(DOMAIN lines \ anchored))

\* Matched: Clover has the quantity; name, price and the line's own total stay MCM's, whatever
\* the terminal made of the price.  Anchored and unmatched: voided at the terminal.  Never
\* anchored: untouched.
Resolved(l, got) ==
  IF got # {} THEN [l EXCEPT !.qty = Cardinality(got), !.ids = got]
  ELSE IF l.ids # {} THEN [l EXCEPT !.voided = TRUE] ELSE l

\* What nobody claimed, one line for each signature, with the total of the first.
PosAdds(items, pool) ==
  LET firsts == {i \in pool : \A j \in pool : items[j] = items[i] => i <= j}
      order  == Ascending(firsts)
  IN [n \in DOMAIN order |->
        LET ids == {j \in pool : items[j] = items[order[n]]}
        IN [PosLine(items, order[n]) EXCEPT !.qty = Cardinality(ids), !.ids = ids]]

Merge(lines, items) ==
  LET claims == ClaimSigned(lines, items, ClaimAnchored(lines, items))
  IN [n \in DOMAIN lines |-> Resolved(lines[n], claims.got[n])] \o PosAdds(items, claims.pool)

\* The merge left an item of the order on a voided line: the second pass gives an
\* item to a line of its signature that was voided before, and voided it stays.
Hides(lines, items) == \E n \in DOMAIN lines : lines[n].voided /\ lines[n].ids \cap DOMAIN items # {}

\* Wrong variant, for the tests of the properties: a line typed in MCM counts twice once it is in Clover.
TotalAddsAll(lines, items, total) ==
  IF items = NoItems THEN total
  ELSE Charged(items) + Totals(lines, DOMAIN lines)

\* Clover's total and the own totals of what is not in Clover yet; with an empty Clover order
\* the total stays.
MergedTotal(lines, items, total) ==
  IF items = NoItems THEN total
  ELSE Charged(items) + Totals(lines, {n \in DOMAIN lines : lines[n].ids = {}})

---------------------------------------------------------------------------
(* upsertOrdersFromClover, for one order.                                  *)

\* What the conversion of an order keeps.
Converted == [Resting EXCEPT !.pc = "fetched", !.items = clover.items, !.closed = clover.paid]

Fetch(k) ==
  /\ At(k, "idle")
  /\ lane' = [lane EXCEPT ![k] = Converted]
  /\ UNCHANGED <<clover, row, used>>

\* Every order of the day; the paid ones only.
FetchOpenOrders(k)   == Fetch(k)
FetchClosedOrders(k) == clover.paid /\ Fetch(k)

\* By clover_pos_id or clover_ticket_id; a failed lookup and an order deleted in
\* Clover are skipped, a stamp newer than the snapshot bars a managed row.  What becomes of
\* a second row that is found instead is left out.
Lookup(k) ==
  /\ At(k, "fetched")
  /\ \/ (Happens("unread") \/ Happens("delete")) /\ Rest(k)
     \/ row.rows = 2 /\ UNCHANGED used /\ Rest(k)
     \/ /\ row.rows > 0 /\ row.linked # "no" /\ UNCHANGED used
        /\ \/ row.managed /\ lane[k].stamped /\ Rest(k)
           \/ /\ ~(row.managed /\ lane[k].stamped)
              /\ lane' = [lane EXCEPT ![k].pc = "read", ![k].row = row]
     \/ /\ row.rows < 2 /\ row.linked = "no" /\ UNCHANGED used
        /\ lane' = [lane EXCEPT ![k].pc = "absent"]
  /\ UNCHANGED <<clover, row>>

\* ESTADOS_EN_CURSO: the states of the kitchen's flow, which Clover does not know.
EnCurso == {"new", "kitchen"}

\* orderHasAppliedPayment: the payment fields of an order with a payment are
\* those looked up (what cannot be read counts as paid), otherwise Clover's; a
\* state of the kitchen's is never taken back to new.
Guard(k) ==
  /\ At(k, "read")
  /\ \E unknown \in BOOLEAN :
       LET guarded == unknown \/ row.applied
           read    == lane[k].row
           mapped  == IF lane[k].closed THEN "closed" ELSE "new"
           status  == IF guarded THEN read.status ELSE mapped
       IN /\ IF unknown THEN Happens("blind") ELSE UNCHANGED used
          /\ lane' = [lane EXCEPT
                 ![k].pc = "checked",
                 ![k].paid = IF guarded THEN read.paid ELSE lane[k].closed,
                 ![k].status = IF status # "closed" /\ read.status \in EnCurso THEN read.status ELSE status]
  /\ UNCHANGED <<clover, row>>

\* Managed: merge, total and payment fields, unless a waiter wrote since.
MergeWrite(k) ==
  /\ At(k, "checked") /\ lane[k].row.managed
  /\ LET read   == lane[k].row
         lines  == Merge(read.lines, lane[k].items)
         merged == [read EXCEPT !.lines = lines, !.total = MergedTotal(lines, lane[k].items, @),
                                !.paid = lane[k].paid, !.status = lane[k].status]
     IN IF lane[k].stale \/ merged = read
        THEN Rest(k) /\ UNCHANGED <<row, used>>
        ELSE /\ used' = IF Hides(lines, lane[k].items) THEN used \cup {"reclaimed"} ELSE used
             /\ row' = [merged EXCEPT !.applied = row.applied, !.counted = row.counted, !.rows = row.rows]
             /\ lane' = [o \in Lanes |-> IF o = k THEN Resting
                           ELSE [lane[o] EXCEPT !.stamped = @ \/ At(o, "fetched")]]
  /\ UNCHANGED clover

\* verifyOrderHasRelevantChanges: of the status only a reopening and a new order closed.
Relevant(old, new) ==
  \/ old.lines # new.lines \/ old.total # new.total \/ old.paid # new.paid
  \/ old.status = "closed" /\ new.status # "closed"
  \/ old.status = "new" /\ new.status = "closed"

\* Not managed: Clover's order, if it differs from the row looked up, replaces it whoever
\* wrote since, its clover_pos_id included, which may be no other row's.
Overwrite(k) ==
  /\ At(k, "checked") /\ ~lane[k].row.managed
  /\ LET order == [lane[k].row EXCEPT
                      !.lines = PosLines(lane[k].items), !.total = Charged(lane[k].items),
                      !.paid = lane[k].paid, !.status = lane[k].status]
     IN row' = IF ~Relevant(lane[k].row, order) \/ row.rows = 2 THEN row
               ELSE [row EXCEPT !.lines = order.lines, !.total = order.total, !.linked = "pos",
                                !.paid = order.paid, !.status = order.status]
  /\ Rest(k)
  /\ UNCHANGED <<clover, used>>

\* Upsert with ignoreDuplicates on site and clover_pos_id, which an order opened from MCM has
\* not got: a row that was not found, linked meanwhile or not, gets a second one beside it.
\* Stamped when managed.
MayInsert == row.linked # "pos" /\ row.rows < 2
Insert(k) ==
  /\ At(k, "absent")
  /\ \/ ~MayInsert /\ Rest(k) /\ UNCHANGED <<row, used>>
     \/ /\ MayInsert /\ row.rows = 0
        /\ row' = [row EXCEPT !.rows = 1, !.linked = "pos", !.paid = lane[k].closed,
                              !.status = IF lane[k].closed THEN "closed" ELSE "new",
                              !.lines = PosLines(lane[k].items), !.total = Charged(lane[k].items)]
        /\ lane' = [o \in Lanes |-> IF o = k THEN Resting
                      ELSE [lane[o] EXCEPT !.stamped = @ \/ At(o, "fetched")]]
        /\ UNCHANGED used
     \/ /\ MayInsert /\ row.rows = 1
        /\ row' = [row EXCEPT !.rows = 2] /\ used' = used \cup {"doubled"}
        /\ Rest(k)
  /\ UNCHANGED clover

Next ==
  \/ TerminalAdds \/ TerminalRemoves \/ TerminalReprices \/ TerminalPays
  \/ SavesTicket \/ WaiterTypes \/ KitchenAccepts \/ PushesLine
  \/ PaymentRecorded \/ PaymentCounted
  \/ \E k \in Lanes :
       FetchOpenOrders(k) \/ FetchClosedOrders(k) \/ Lookup(k) \/ Guard(k) \/ MergeWrite(k) \/ Overwrite(k) \/ Insert(k)

Spec == Init /\ [][Next]_vars

---------------------------------------------------------------------------
(* Properties.                                                             *)

\* The bill is what its lines come to, price by quantity, whichever side is ahead: a line
\* typed in MCM or in the terminal is neither left out of the total nor counted twice.
\* (Not when the terminal removed every line: the total of an order that is empty in Clover
\* is kept, for tables just opened.  Nor when it changed the price of one: the total follows,
\* the line keeps MCM's price (managed-merge.ts:20).  Nor when a voided line was given an
\* item: see AddedIsShown.)
TotalIsItsLines ==
  row.rows > 0 /\ used \cap {"emptied", "price", "reclaimed"} = {} => row.total = Worth(row.lines)

\* Does not hold.  The same of the totals the lines carry themselves, which is what a bill
\* prints: a matched line whose quantity Clover has changed keeps its old total, and a group
\* of line items added in the terminal has the total of one (managed-merge.ts:155-158, 193).
LineTotalsAddUp ==
  row.rows > 0 /\ used \cap {"emptied", "price", "reclaimed"} = {}
    => row.total = Totals(row.lines, DOMAIN row.lines)

\* Does not hold.  What the terminal adds comes in as a line that stands ("POS-ADD ... status sent",
\* clover-managed-merge.test.ts:63-69): a line item of the order is never on a voided line.
AddedIsShown ==
  \A n \in DOMAIN row.lines : row.lines[n].voided => row.lines[n].ids \cap DOMAIN clover.items = {}

\* A line item of Clover's order has one line of the row, and a line no more quantity than it
\* has line items, whatever pulls, pushes and price changes interleave; and the order has one
\* row, unless a pull looked for it before the push had saved its id (create-order.ts:57-62).
PulledOnce ==
  /\ "doubled" \notin used => row.rows <= 1
  /\ \A m, n \in DOMAIN row.lines : m # n => row.lines[m].ids \cap row.lines[n].ids = {}
  /\ \A n \in DOMAIN row.lines : row.lines[n].ids # {} => row.lines[n].qty = Cardinality(row.lines[n].ids)

\* Does not hold.  "sin esto el pull no la encontraba e INSERTABA un duplicado huérfano"
\* (upsert-orders.ts:256-260): the lookup by clover_ticket_id comes before that id is saved.
OneRow == row.rows <= 1

\* Does not hold.  "El sync NO debe reabrir/des-pagar una orden pagada" (upsert-orders.ts:17).
PaidStaysPaid == [][row.counted /\ row.paid => row'.paid]_vars
=============================================================================
