--------------------------- MODULE OmnivorePull ----------------------------
(***************************************************************************)
(* The omnivore fetch_open_orders and fetch_closed_orders pulls: two lanes *)
(* that read the tickets of the POS and write them to the row of the       *)
(* order, while waiters edit the same row, send its lines to the POS       *)
(* (send-to-kitchen, an edge function outside this repository) and the     *)
(* terminal adds, voids and closes.  One ticket and its order; of a second *)
(* row for the ticket only that it exists.                                 *)
(*                                                                         *)
(* Times are compared only as before or after, so instead of clocks a lane *)
(* remembers whether the row was stamped (omnivore_synced_at) since its    *)
(* fetch and whether it was written (date_updated) since its lookup.       *)
(***************************************************************************)
EXTENDS Naturals, Sequences, SequencesExt, FiniteSets

CONSTANTS
  Lanes,     \* executions of the pull handlers
  Dishes,    \* what a line's signature and product tell apart
  MaxItems,  \* bound: items ever rung up on the ticket
  MaxLines,  \* bound: lines the waiters type
  Faults     \* bound: how many of them happen in one behaviour

\* What may happen besides the code's own steps, each kind once.
Kinds == {"unread", "unseen", "blind", "dies", "outage", "race", "void", "close", "pay"}

VARIABLES
  pos,    \* the ticket: by item id the dish and the line it was sent from, if any;
          \* the items still on it; open
  row,    \* the order's row in MCM, and how many rows the ticket has
  fire,   \* send-to-kitchen: the line it sends and the items it rang up
  lane,   \* each lane: its snapshot, the row it looked up, what it missed
  used    \* the kinds that happened

vars == <<pos, row, fire, lane, used>>

Line    == [dish : Dishes, qty : 1 .. 2, ids : SUBSET (1 .. MaxItems),
            status : {"unsent", "sent", "voided"}, pending : BOOLEAN]
NoRow   == [rows |-> 0, linked |-> FALSE, managed |-> FALSE, lines |-> <<>>, paid |-> FALSE,
            applied |-> FALSE, flying |-> FALSE, typed |-> 0]
NoFire  == [pc |-> "idle", line |-> 0, ids |-> {}]
Resting == [pc |-> "idle", items |-> {}, closed |-> FALSE, stamped |-> FALSE,
            stale |-> FALSE, guarded |-> FALSE, row |-> NoRow]

TypeOK ==
  /\ pos.rung \in Seq([dish : Dishes, from : Nat]) /\ pos.items \subseteq DOMAIN pos.rung /\ pos.open \in BOOLEAN
  /\ row.rows \in 0 .. 2 /\ row.lines \in Seq(Line)
  /\ fire.pc \in {"idle", "marked", "rung"} /\ fire.line \in 0 .. Len(row.lines)
  /\ \A k \in Lanes : lane[k].pc \in {"idle", "fetched", "read", "checked", "absent", "link", "insert"}
  /\ used \subseteq Kinds

\* A table opened from MCM, whose row is not linked to its ticket yet, or a
\* ticket rung up at the terminal, which MCM has no row for: with table service
\* (its row will be managed) or without (waiters work at the terminal only).
Init ==
  /\ \E d \in Dishes, managed \in BOOLEAN :
       \/ /\ pos = [rung |-> <<>>, items |-> {}, open |-> TRUE]
          /\ row = [NoRow EXCEPT !.rows = 1, !.managed = TRUE] /\ managed
       \/ /\ pos = [rung |-> <<[dish |-> d, from |-> 0]>>, items |-> {1}, open |-> TRUE]
          /\ row = [NoRow EXCEPT !.managed = managed]
  /\ fire = NoFire /\ lane = [k \in Lanes |-> Resting] /\ used = {}

Happens(k) == k \in Kinds \ used /\ Cardinality(used) < Faults /\ used' = used \cup {k}
At(k, pc)  == lane[k].pc = pc
Rest(k)    == lane' = [lane EXCEPT ![k] = Resting]

\* Another party writes the row: every lane that has looked it up is stale.
\* A stamp also bars the lanes that fetched before it.
Write(r, stamp) ==
  /\ row' = r
  /\ lane' = [k \in Lanes |->
                [lane[k] EXCEPT !.stale = @ \/ lane[k].pc \notin {"idle", "fetched"},
                                !.stamped = @ \/ (stamp /\ At(k, "fetched"))]]

---------------------------------------------------------------------------
(* Around the pulls: the terminal, the waiters, the payments of MCM and    *)
(* send-to-kitchen, as upsert-orders.ts, merge-managed-order.ts and        *)
(* fire-in-flight.ts describe them.                                        *)

Ring(d, n, from) ==
  /\ pos.open /\ Len(pos.rung) + n <= MaxItems
  /\ pos' = [pos EXCEPT !.rung = @ \o [i \in 1 .. n |-> [dish |-> d, from |-> from]],
                        !.items = @ \cup (Len(pos.rung) + 1 .. Len(pos.rung) + n)]

TerminalAdds ==
  /\ \E d \in Dishes : Ring(d, 1, 0)
  /\ UNCHANGED <<row, fire, lane, used>>

TerminalVoids ==
  /\ pos.open /\ Happens("void")
  /\ \E i \in pos.items : pos' = [pos EXCEPT !.items = @ \ {i}]
  /\ UNCHANGED <<row, fire, lane>>

TerminalCloses ==
  /\ pos.open /\ Happens("close")
  /\ pos' = [pos EXCEPT !.open = FALSE]
  /\ UNCHANGED <<row, fire, lane>>

WaiterTypes ==
  /\ row.rows > 0 /\ row.managed /\ row.typed < MaxLines
  /\ \E d \in Dishes, q \in 1 .. 2 :
       Write([row EXCEPT !.typed = @ + 1,
                !.lines = Append(@, [dish |-> d, qty |-> q, ids |-> {},
                                     status |-> "unsent", pending |-> FALSE])], FALSE)
  /\ UNCHANGED <<pos, fire, used>>

\* patchManagedOrder: MCM links the row to the ticket it opened, if no other row has it.
OutboundLinks ==
  /\ row.rows = 1 /\ ~row.linked
  /\ Write([row EXCEPT !.linked = TRUE], FALSE)
  /\ UNCHANGED <<pos, fire, used>>

\* A payment completed in MCM; the POS has not heard of it.
Paid ==
  /\ row.rows > 0 /\ Happens("pay")
  /\ Write([row EXCEPT !.applied = TRUE, !.paid = TRUE], FALSE)
  /\ UNCHANGED <<pos, fire>>

\* Phase 0: the row is marked before anything is posted.  A line whose fire died
\* is not sent again before a pull has settled it.
FireMarks(n) ==
  /\ fire.pc = "idle" /\ pos.open /\ row.linked /\ row.managed /\ ~row.flying
  /\ row.lines[n].status = "unsent" /\ row.lines[n].ids = {} /\ ~row.lines[n].pending
  /\ Write([row EXCEPT !.flying = TRUE, !.lines[n].pending = TRUE], FALSE)
  /\ fire' = [NoFire EXCEPT !.pc = "marked", !.line = n]
  /\ UNCHANGED <<pos, used>>

\* Aloha rings a line of quantity n up as n items.
FirePosts ==
  /\ fire.pc = "marked"
  /\ LET l == row.lines[fire.line] IN
       /\ Ring(l.dish, l.qty, fire.line)
       /\ fire' = [fire EXCEPT !.pc = "rung", !.ids = pos'.items \ pos.items]
  /\ UNCHANGED <<row, lane, used>>

FireStamps ==
  /\ fire.pc = "rung"
  /\ Write([row EXCEPT !.flying = FALSE, !.lines[fire.line].status = "sent",
                       !.lines[fire.line].pending = FALSE, !.lines[fire.line].ids = fire.ids], TRUE)
  /\ fire' = NoFire
  /\ UNCHANGED <<pos, used>>

FireDies ==
  /\ fire.pc # "idle" /\ Happens("dies")
  /\ fire' = NoFire
  /\ UNCHANGED <<pos, row, lane>>

\* The marker lapses after 90 s, which outlast a fire that is alive.
MarkerLapses ==
  /\ row.flying /\ fire.pc = "idle"
  /\ row' = [row EXCEPT !.flying = FALSE]
  /\ UNCHANGED <<pos, fire, lane, used>>

\* Nobody pulled for ten minutes: a dead fire's lines are not adopted any more.
\* Faults does not bound it: it needs a fire that died.
PendingLapses(n) ==
  /\ row.lines[n].pending /\ fire.pc = "idle" /\ ~row.flying /\ "outage" \notin used
  /\ row' = [row EXCEPT !.lines[n].pending = FALSE]
  /\ used' = used \cup {"outage"}
  /\ UNCHANGED <<pos, fire, lane>>

---------------------------------------------------------------------------
(* mergeManagedOrderLineItems                                              *)

Carried(lines) == UNION {lines[n].ids : n \in DOMAIN lines}
Ascending(ids) ==
  CHOOSE s \in [1 .. Cardinality(ids) -> ids] : \A m, n \in DOMAIN s : m < n => s[m] < s[n]
PosLine(i)     == [dish |-> pos.rung[i].dish, qty |-> 1, ids |-> {i}, status |-> "sent", pending |-> FALSE]
Adopted(l, ids) == [l EXCEPT !.status = "sent", !.ids = ids, !.pending = FALSE]

\* Wrong variant, for the tests of the properties: the lines of a dead fire are not adopted.
AdoptableIfSent(l) == l.ids = {} /\ l.status = "sent"

\* A line without an id that was sent, or whose fire died before its stamp.
Adoptable(l) == l.ids = {} /\ l.status # "voided" /\ (l.status = "sent" \/ l.pending)

\* Matched and unfired lines stay as they are; a line with ids of which none is
\* on the ticket was voided at the terminal.
Kept(l, items) == IF l.ids # {} /\ l.ids \cap items = {} THEN [l EXCEPT !.status = "voided"] ELSE l

\* An item goes to the first adoptable line of its signature.
AdoptBySignature(acc, i) ==
  LET lines == {n \in DOMAIN acc.lines :
                  Adoptable(acc.lines[n]) /\ acc.lines[n].qty = 1 /\ acc.lines[n].dish = pos.rung[i].dish}
  IN IF lines = {} THEN [acc EXCEPT !.rest = @ \cup {i}]
     ELSE LET n == CHOOSE m \in lines : \A o \in lines : m <= o
          IN [acc EXCEPT !.lines[n] = Adopted(@, {i})]

\* A line with a fire pending takes the items of its product, up to its quantity.
AdoptByDish(acc, n) ==
  LET l    == acc.lines[n]
      same == {i \in acc.rest : pos.rung[i].dish = l.dish}
      take == {i \in same : Cardinality({j \in same : j < i}) < l.qty}
  IN IF ~(l.pending /\ Adoptable(l)) \/ take = {} THEN acc
     ELSE [lines |-> [acc.lines EXCEPT ![n] = Adopted(@, take)],
           rest  |-> acc.rest \ take]

Merge(lines, items) ==
  LET fresh == Ascending(items \ Carried(lines))
      sig   == FoldLeft(AdoptBySignature, [lines |-> lines, rest |-> {}], fresh)
      dish  == FoldLeft(AdoptByDish, sig, [n \in DOMAIN lines |-> n])
      adds  == Ascending(dish.rest)
  IN [n \in DOMAIN lines |-> Kept(dish.lines[n], items)]
       \o [n \in DOMAIN adds |-> PosLine(adds[n])]

---------------------------------------------------------------------------
(* upsertOmnivoreOrders, for one ticket.                                   *)

\* What the conversion of a ticket keeps: the items, and a close only once the
\* ticket is closed; an open one with nothing due may be empty.
Converted == [Resting EXCEPT !.pc = "fetched", !.items = pos.items, !.closed = ~pos.open]

\* fetchOmnivoreOrders, by what it asks for: a ticket is in the snapshot of the
\* open ones while it is open, in that of a window once it closed (or opened).
Sees(mode) == CASE mode = "open" -> pos.open [] mode = "closed" -> ~pos.open [] mode = "today" -> TRUE

Fetch(k, modes) ==
  /\ At(k, "idle") /\ \E mode \in modes : Sees(mode)
  /\ lane' = [lane EXCEPT ![k] = Converted]
  /\ UNCHANGED <<pos, row, fire, used>>

\* The fast lane, the sweep, and the sweep it replaced.
FetchOpenOrders(k)   == Fetch(k, {"open"})
FetchClosedOrders(k) == Fetch(k, {"closed", "open"})
FetchRecentOrders(k) == Fetch(k, {"today", "open"})

\* Wrong variant, for the tests of the properties: snapshots older than the row are written.
OnlyFiresBar(k) == row.managed /\ row.flying

\* A stamp newer than the snapshot, and a fire in flight, end the ticket's turn.
TurnEnds(k) == row.managed /\ (lane[k].stamped \/ row.flying)

\* By site, location and omnivore_pos_id; a failed lookup skips the ticket.  What becomes of
\* a second row is left out.
Lookup(k) ==
  /\ At(k, "fetched")
  /\ \/ Happens("unread") /\ Rest(k)
     \/ row.rows = 2 /\ UNCHANGED used /\ Rest(k)
     \/ /\ row.linked /\ TurnEnds(k) /\ UNCHANGED used /\ Rest(k)
     \/ /\ row.linked /\ ~TurnEnds(k) /\ UNCHANGED used
        /\ lane' = [lane EXCEPT ![k].pc = "read", ![k].row = row]
     \/ /\ ~row.linked /\ row.rows < 2 /\ UNCHANGED used
        /\ lane' = [lane EXCEPT ![k].pc = "absent"]
  /\ UNCHANGED <<pos, row, fire>>

\* orderHasAppliedPayment: what cannot be read counts as paid.
Guard(k) ==
  /\ At(k, "read")
  /\ \/ UNCHANGED used /\ lane' = [lane EXCEPT ![k].pc = "checked", ![k].guarded = row.applied]
     \/ Happens("blind") /\ lane' = [lane EXCEPT ![k].pc = "checked", ![k].guarded = TRUE]
  /\ UNCHANGED <<pos, row, fire>>

\* Managed: the merge of what was looked up, written only if nobody wrote since
\* (and something changed); a close is adopted, anything else about the payment
\* is MCM's.
MergeWrite(k) ==
  /\ At(k, "checked") /\ lane[k].row.managed
  /\ LET read   == lane[k].row
         closed == ~lane[k].guarded /\ lane[k].closed
         merged == [read EXCEPT !.lines = Merge(@, lane[k].items), !.paid = closed \/ @]
     IN IF lane[k].stale \/ merged = read
        THEN Rest(k) /\ UNCHANGED row
        ELSE /\ row' = merged
             /\ lane' = [o \in Lanes |-> IF o = k THEN Resting
                           ELSE [lane[o] EXCEPT !.stale = @ \/ lane[o].pc \notin {"idle", "fetched"},
                                                !.stamped = @ \/ At(o, "fetched")]]
  /\ UNCHANGED <<pos, fire, used>>

\* verifyOrderHasRelevantChanges
Relevant(old, new) == old.lines # new.lines \/ old.paid # new.paid

\* Not managed: the POS rules, and if the order differs from the one looked up
\* the row is overwritten whoever wrote since; only the payment fields of an
\* order already paid are those looked up.
Overwrite(k) ==
  /\ At(k, "checked") /\ ~lane[k].row.managed
  /\ LET read  == lane[k].row
         order == [read EXCEPT !.lines = [n \in 1 .. Cardinality(lane[k].items) |->
                                            PosLine(Ascending(lane[k].items)[n])],
                               !.paid = IF lane[k].guarded THEN @ ELSE lane[k].closed]
     IN IF ~Relevant(read, order)
        THEN Rest(k) /\ UNCHANGED row
        ELSE /\ row' = [row EXCEPT !.lines = order.lines, !.paid = order.paid]
             /\ lane' = [o \in Lanes |-> IF o = k THEN Resting
                           ELSE [lane[o] EXCEPT !.stale = @ \/ lane[o].pc \notin {"idle", "fetched"}]]
  /\ UNCHANGED <<pos, fire, used>>

\* No row has the ticket: an unlinked row that its name ("MCM <id>", or the name of a tab)
\* points to is adopted instead of inserting one.  A look that fails counts as none found, and
\* a name of another form finds none.
Candidate == row.rows > 0 /\ ~row.linked
Select(k) ==
  /\ At(k, "absent")
  /\ \/ lane' = [lane EXCEPT ![k].pc = IF Candidate THEN "link" ELSE "insert"] /\ UNCHANGED used
     \/ Candidate /\ Happens("unseen") /\ lane' = [lane EXCEPT ![k].pc = "insert"]
  /\ UNCHANGED <<pos, row, fire>>

\* Only if it is still unlinked, and no other row has the ticket.
Link(k) ==
  /\ At(k, "link")
  /\ row' = [row EXCEPT !.linked = @ \/ row.rows = 1]
  /\ Rest(k)
  /\ UNCHANGED <<pos, fire, used>>

\* Upsert with ignoreDuplicates on site, location and omnivore_pos_id: beside a row that is
\* not linked it makes a second one.  Unlike the merge it leaves no stamp, so a lane with an
\* older snapshot ("race") is not barred from the row.
MayInsert == ~row.linked /\ row.rows < 2
Insert(k) ==
  /\ At(k, "insert")
  /\ \/ ~MayInsert /\ UNCHANGED <<row, used>>
     \/ MayInsert /\ row.rows = 1 /\ row' = [row EXCEPT !.rows = 2] /\ UNCHANGED used
     \/ /\ MayInsert /\ row.rows = 0
        /\ row' = [row EXCEPT !.rows = 1, !.linked = TRUE, !.paid = lane[k].closed,
                              !.lines = Merge(<<>>, lane[k].items)]
        /\ IF \E o \in Lanes : lane[o].pc # "idle" /\ lane[o].items # lane[k].items
           THEN Happens("race") ELSE UNCHANGED used
  /\ Rest(k)
  /\ UNCHANGED <<pos, fire>>

Next ==
  \/ TerminalAdds \/ TerminalVoids \/ TerminalCloses
  \/ WaiterTypes \/ OutboundLinks \/ Paid
  \/ \E n \in DOMAIN row.lines : FireMarks(n) \/ PendingLapses(n)
  \/ FirePosts \/ FireStamps \/ FireDies \/ MarkerLapses
  \/ \E k \in Lanes :
       \/ FetchOpenOrders(k) \/ FetchClosedOrders(k) \/ FetchRecentOrders(k) \/ Lookup(k) \/ Guard(k) \/ MergeWrite(k) \/ Overwrite(k)
       \/ Select(k) \/ Link(k) \/ Insert(k)

Spec == Init /\ [][Next]_vars

---------------------------------------------------------------------------
(* Properties.                                                             *)

\* A ticket has one row and an item of it one line, whichever lanes meet and
\* whenever a fire dies: "orden doblada" is what both guards and the adoption of
\* merge-managed-order.ts exist to prevent.  (Not one row if the row to adopt was not seen.
\* Nor one line if nobody pulled for the ten minutes in which a dead fire's lines may be
\* adopted.)
ShownOnce ==
  /\ "unseen" \notin used => row.rows <= 1
  /\ \A m, n \in DOMAIN row.lines : m # n => row.lines[m].ids \cap row.lines[n].ids = {}
  /\ "outage" \notin used =>
       \A m, n \in DOMAIN row.lines, i \in 1 .. Len(pos.rung) :
         i \in row.lines[n].ids /\ pos.rung[i].from = m => row.lines[m].ids # {}

\* Does not hold.  "ADOPTAR esa orden en vez de insertar una 2ª" (upsert-orders.ts:532-534):
\* the reads at :542 and :553 drop their errors and go on to the insert.
OneRow == row.rows <= 1

\* Does not hold.  A line is voided for the terminal's sake only if its items left the ticket.
\* fetch-open-orders.ts calls the two lanes safe together, but a first insert
\* leaves nothing to compare an older snapshot with.
OnlyTheTerminalVoids ==
  \A n \in DOMAIN row.lines :
    row.lines[n].status = "voided" => row.lines[n].ids \cap pos.items = {}

\* What a waiter typed is never dropped, and no snapshot taken before a fire or
\* an edit, however late it is written, voids what is on the ticket.
OrderedStays ==
  /\ row.managed => Len(row.lines) >= row.typed
  /\ "race" \notin used => OnlyTheTerminalVoids
=============================================================================
