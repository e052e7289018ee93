-------------------------- MODULE OmnivoreCatalog --------------------------
(***************************************************************************)
(* The catalogue pull of Omnivore: fetch_products sweeps the products and  *)
(* then their price levels, keeping the prices, names and default levels   *)
(* the operator chose, and fetch_stock keeps one location's rows of what   *)
(* is sold out apart from those the staff made.  Modifiers are merged as   *)
(* products are, without names or archiving; their groups are left out.    *)
(*                                                                         *)
(* Each pass reads, computes every change, then writes: the inserts in one *)
(* statement, the updates one by one.                                      *)
(***************************************************************************)
EXTENDS Naturals, FiniteSets

CONSTANTS
  Products,
  Levels,     \* price levels a product can have in the POS
  Names,
  ShrinkCap,  \* products one sweep may archive (OMNI_ARCHIVE_MAX_SHRINK_ABS)
  PerSite,    \* the stock of the location, not of the product (manage_stock is FALSE)
  Faults,     \* bound: how many of Kinds happen in one behaviour
  None, AutoLevel  \* no value; the level made for a product that has none (pos_id is null)

\* What may happen besides the code's own steps, each kind once.
Kinds == {"rename", "reprice", "levels", "remove", "restore", "out", "back", "cut",
          "pick", "override", "manual", "dies", "late"}

VARIABLES
  item,    \* each product in the POS: its name, levels with their prices, sold out
  row,     \* its row in MCM, or None
  level,   \* its rows of product_price_levels, and which one is the default
  oos,     \* its row in stock_availability for the location: None, "ours" or "manual"
  chosen,  \* history: the default the operator picked, while the POS has it
  manual,  \* history: the staff's own mark stands
  sweep,   \* fetch_products under way
  visit,   \* fetch_stock under way
  used     \* the kinds that happened

vars == <<item, row, level, oos, chosen, manual, sweep, visit, used>>

Prices  == 1 .. 3
NoLevel == [rows |-> [l \in {} |-> 0], default |-> None]
Resting == [pc |-> "idle", snap |-> None, rows |-> None, left |-> {}, level |-> None]

TypeOK ==
  /\ \A p \in Products :
       /\ item[p].name \in Names /\ DOMAIN item[p].levels \subseteq Levels /\ item[p].listed \in BOOLEAN
       /\ row[p] # None => row[p].price \in Prices /\ row[p].status \in {"published", "draft"}
       /\ DOMAIN level[p].rows \subseteq Levels \cup {AutoLevel}
       /\ oos[p] \in {None, "ours", "manual"} /\ chosen[p] \in Levels \cup {None}
  /\ sweep.pc \in {"idle", "fetched", "products", "levels", "clear", "create", "set", "swept"}
  /\ visit.pc \in {"idle", "delete", "insert"} /\ used \subseteq Kinds

\* Products are listed with one level of price 1; nothing was swept yet.
Init ==
  /\ \E l \in Levels : item = [p \in Products |-> [name |-> CHOOSE n \in Names : TRUE, listed |-> TRUE,
                                                   out |-> FALSE, levels |-> [k \in {l} |-> 1], main |-> 1]]
  /\ row = [p \in Products |-> None] /\ level = [p \in Products |-> NoLevel]
  /\ oos = [p \in Products |-> None] /\ chosen = [p \in Products |-> None] /\ manual = [p \in Products |-> FALSE]
  /\ sweep = Resting /\ visit = Resting /\ used = {}

Happens(k) == k \in Kinds \ used /\ Cardinality(used) < Faults /\ used' = used \cup {k}

---------------------------------------------------------------------------
(* The POS and the operator.                                               *)

\* "cut" is a fetch that ends early: what it misses looks removed.
MenuChanges ==
  /\ \E p \in Products :
       \/ \E n \in Names \ {item[p].name} : Happens("rename") /\ item' = [item EXCEPT ![p].name = n]
       \/ /\ Happens("reprice")
          /\ \E l \in DOMAIN item[p].levels : item' = [item EXCEPT ![p].levels[l] = 2, ![p].main = 2]
       \/ /\ Happens("levels")
          /\ \E ls \in SUBSET Levels \ {DOMAIN item[p].levels} :
               item' = [item EXCEPT ![p].levels = [l \in ls |-> IF l \in DOMAIN @ THEN @[l] ELSE 3]]
       \/ item[p].listed /\ Happens("remove") /\ item' = [item EXCEPT ![p].listed = FALSE]
       \/ ~item[p].listed /\ Happens("restore") /\ item' = [item EXCEPT ![p].listed = TRUE]
       \/ ~item[p].out /\ Happens("out") /\ item' = [item EXCEPT ![p].out = TRUE]
       \/ item[p].out /\ Happens("back") /\ item' = [item EXCEPT ![p].out = FALSE]
  \* A level the POS drops is no longer the operator's choice.
  /\ chosen' = [p \in Products |-> IF chosen[p] \in DOMAIN item'[p].levels THEN chosen[p] ELSE None]
  /\ UNCHANGED <<row, level, oos, manual, sweep, visit>>

\* The operator picks another default level; "late" while a sweep holds the levels it read.
OperatorPicks ==
  /\ \E p \in Products : \E l \in (DOMAIN level[p].rows \cap DOMAIN item[p].levels) \ {level[p].default} :
       /\ Happens(IF sweep.pc \in {"clear", "create", "set"} THEN "late" ELSE "pick")
       /\ level' = [level EXCEPT ![p].default = l] /\ chosen' = [chosen EXCEPT ![p] = l]
  /\ UNCHANGED <<item, row, oos, manual, sweep, visit>>

OperatorRenames ==
  /\ \E p \in Products : \E n \in Names :
       /\ row[p] # None /\ Happens("override")
       /\ row' = [row EXCEPT ![p].name = n, ![p].overridden = TRUE]
  /\ UNCHANGED <<item, level, oos, chosen, manual, sweep, visit>>

\* The staff marks the product sold out here, on its own row or on the sync's.
StaffMarks ==
  /\ \E p \in Products :
       /\ oos[p] # "manual" /\ Happens("manual")
       /\ oos' = [oos EXCEPT ![p] = "manual"] /\ manual' = [manual EXCEPT ![p] = TRUE]
  /\ UNCHANGED <<item, row, level, chosen, sweep, visit>>

---------------------------------------------------------------------------
(* fetch_products: the products.                                           *)

Fetch ==
  /\ sweep.pc = "idle"
  /\ \/ UNCHANGED used /\ sweep' = [Resting EXCEPT !.pc = "fetched", !.snap = item]
     \/ /\ Happens("cut")
        /\ \E p \in Products : sweep' = [Resting EXCEPT !.pc = "fetched", !.snap = [item EXCEPT ![p].listed = FALSE]]
  /\ UNCHANGED <<item, row, level, oos, chosen, manual, visit>>

Stock(i)   == IF i.out THEN "out" ELSE "in"
Created(i) == [name |-> i.name, seen |-> i.name, overridden |-> FALSE, price |-> i.main, status |-> "published",
               stock |-> IF PerSite THEN "in" ELSE Stock(i), archived |-> FALSE]

\* The price the operator took from one of the levels stays.
PriceMoves(r, i) == r.price \notin {i.levels[l] : l \in DOMAIN i.levels} \cup {i.main}
Renamed(r, i)    == r.seen # i.name
Updates(r, i)    == PriceMoves(r, i) \/ Renamed(r, i) \/ (~PerSite /\ r.stock # Stock(i))

\* omniArchiveIsSafe, and what it then archives.
ArchiveIsSafe(snap, rows) ==
  LET fetched == {p \in Products : snap[p].listed}
      managed == {p \in Products : rows[p] # None}
  IN fetched # {} /\ managed # {} /\ Cardinality(managed) <= Cardinality(fetched) + ShrinkCap
Archives(snap, rows) ==
  {p \in Products : /\ ArchiveIsSafe(snap, rows) /\ ~snap[p].listed /\ rows[p] # None
                    /\ rows[p].status = "published" /\ ~rows[p].archived}

\* The rows are read, the changes computed and the new products inserted.
ReadProducts ==
  /\ sweep.pc = "fetched"
  /\ LET listed == {p \in Products : sweep.snap[p].listed}
         new    == {p \in listed : row[p] = None}
     IN /\ row' = [p \in Products |-> IF p \in new THEN Created(sweep.snap[p]) ELSE row[p]]
        /\ sweep' = [sweep EXCEPT !.pc = "products", !.rows = row,
                       !.left = {p \in listed \ new : Updates(row[p], sweep.snap[p])} \cup Archives(sweep.snap, row)]
  /\ UNCHANGED <<item, level, oos, chosen, manual, visit, used>>

\* batchProducts writes name, price, stock and additional_properties from the row
\* read; the status an archive asks for is not among them.
UpdateProduct ==
  /\ sweep.pc = "products"
  /\ \E p \in sweep.left :
       LET i == sweep.snap[p]
           r == sweep.rows[p]
       IN /\ row' = [row EXCEPT ![p] =
               IF ~i.listed THEN [@ EXCEPT !.name = r.name, !.archived = TRUE, !.seen = r.seen, !.overridden = r.overridden]
               ELSE [@ EXCEPT !.name = IF Renamed(r, i) /\ ~r.overridden THEN i.name ELSE r.name, !.seen = i.name,
                              !.overridden = r.overridden, !.archived = r.archived,
                              !.price = IF PriceMoves(r, i) THEN i.main ELSE @,
                              !.stock = IF PerSite THEN @ ELSE Stock(i)]]
          /\ sweep' = [sweep EXCEPT !.left = @ \ {p}]
  /\ UNCHANGED <<item, level, oos, chosen, manual, visit, used>>

---------------------------------------------------------------------------
(* fetch_products: the price levels, product by product as their rows go.  *)

\* The operator's default while the POS has it, else the level of the main price.
DefaultOf(i, lv) ==
  IF DOMAIN i.levels = {} THEN AutoLevel
  ELSE IF lv.default \in DOMAIN i.levels THEN lv.default
  ELSE LET same == {l \in DOMAIN i.levels : i.levels[l] = i.main}
       IN CHOOSE l \in (IF same # {} THEN same ELSE DOMAIN i.levels) : TRUE

Wanted(i) == IF DOMAIN i.levels = {} THEN [l \in {AutoLevel} |-> i.main] ELSE i.levels
Swept     == {p \in Products : sweep.snap[p].listed /\ row[p] # None}

\* Levels gone from the POS are deleted, the default among them.
DeleteLevels ==
  /\ sweep.pc = "products" /\ sweep.left = {}
  /\ level' = [p \in Products |->
       IF p \notin Swept THEN level[p]
       ELSE LET stay == DOMAIN level[p].rows \cap DOMAIN Wanted(sweep.snap[p])
            IN [rows |-> [l \in stay |-> level[p].rows[l]],
                default |-> IF level[p].default \in stay THEN level[p].default ELSE None]]
  /\ sweep' = [sweep EXCEPT !.pc = "clear", !.level = level, !.left = Swept]
  /\ UNCHANGED <<item, row, oos, chosen, manual, visit, used>>

\* The rows whose price or flag differs from what was read are written.
Rewritten(p, l) ==
  LET lv == sweep.level[p]
      i  == sweep.snap[p]
  IN /\ l \in DOMAIN lv.rows \cap DOMAIN Wanted(i)
     /\ lv.rows[l] # Wanted(i)[l] \/ (l = lv.default) # (l = DefaultOf(i, lv))
Repriced(p, ls) == [l \in DOMAIN level[p].rows |-> IF l \in ls THEN Wanted(sweep.snap[p])[l] ELSE level[p].rows[l]]

ClearDefaults ==
  /\ sweep.pc = "clear"
  /\ level' = [p \in Products |->
       IF p \notin sweep.left THEN level[p]
       ELSE LET ls == {l \in DOMAIN level[p].rows : Rewritten(p, l) /\ l # DefaultOf(sweep.snap[p], sweep.level[p])}
            IN [rows |-> Repriced(p, ls), default |-> IF level[p].default \in ls THEN None ELSE level[p].default]]
  /\ sweep' = [sweep EXCEPT !.pc = "create"]
  /\ UNCHANGED <<item, row, oos, chosen, manual, visit, used>>

\* One default per product (the unique index): a row made or marked default
\* beside another one fails the sweep.
Clashes(p, l) == level[p].default \notin {None, l}
Missing(p)    == DOMAIN Wanted(sweep.snap[p]) \ DOMAIN sweep.level[p].rows

CreateLevels ==
  /\ sweep.pc = "create"
  /\ LET new(p) == DefaultOf(sweep.snap[p], sweep.level[p]) \in Missing(p)
     IN IF \E p \in sweep.left : new(p) /\ Clashes(p, DefaultOf(sweep.snap[p], sweep.level[p]))
        THEN sweep' = Resting /\ UNCHANGED level
        ELSE /\ level' = [p \in Products |->
                  IF p \notin sweep.left THEN level[p]
                  ELSE [rows |-> [l \in DOMAIN level[p].rows \cup Missing(p) |->
                                    IF l \in Missing(p) THEN Wanted(sweep.snap[p])[l] ELSE level[p].rows[l]],
                        default |-> IF new(p) THEN DefaultOf(sweep.snap[p], sweep.level[p]) ELSE level[p].default]]
             /\ sweep' = [sweep EXCEPT !.pc = "set"]
  /\ UNCHANGED <<item, row, oos, chosen, manual, visit, used>>

SetDefaults ==
  /\ sweep.pc = "set" /\ sweep.left # {}
  /\ \E p \in sweep.left :
       LET l == DefaultOf(sweep.snap[p], sweep.level[p])
       IN IF ~Rewritten(p, l) THEN sweep' = [sweep EXCEPT !.left = @ \ {p}] /\ UNCHANGED level
          ELSE IF Clashes(p, l) THEN sweep' = Resting /\ UNCHANGED level
          ELSE /\ level' = [level EXCEPT ![p].rows = Repriced(p, {l}), ![p].default = l]
               /\ sweep' = [sweep EXCEPT !.left = @ \ {p}]
  /\ UNCHANGED <<item, row, oos, chosen, manual, visit, used>>

\* The sweep ends, or a write fails half way and the job is run again.
Leave ==
  /\ \/ sweep.pc = "set" /\ sweep.left = {} /\ UNCHANGED used
     \/ sweep.pc # "idle" /\ Happens("dies")
  /\ sweep' = Resting
  /\ UNCHANGED <<item, row, level, oos, chosen, manual, visit>>

---------------------------------------------------------------------------
(* fetch_stock, applyLocationStock.                                        *)

VisitReads ==
  /\ PerSite /\ visit.pc = "idle"
  /\ visit' = [Resting EXCEPT !.pc = "delete", !.snap = item, !.rows = oos]
  /\ UNCHANGED <<item, row, level, oos, chosen, manual, sweep, used>>

Desired(p) == visit.snap[p].out /\ row[p] # None

\* Only rows still of the sync are deleted, whatever was read.
VisitDeletes ==
  /\ visit.pc = "delete"
  /\ oos' = [p \in Products |->
       IF visit.rows[p] = "ours" /\ ~Desired(p) /\ oos[p] = "ours" THEN None ELSE oos[p]]
  /\ visit' = [visit EXCEPT !.pc = "insert"]
  /\ UNCHANGED <<item, row, level, chosen, manual, sweep, used>>

\* A row somebody made meanwhile (23505) stays.
VisitInserts ==
  /\ visit.pc = "insert"
  /\ oos' = [p \in Products |-> IF visit.rows[p] = None /\ Desired(p) /\ oos[p] = None THEN "ours" ELSE oos[p]]
  /\ visit' = Resting
  /\ UNCHANGED <<item, row, level, chosen, manual, sweep, used>>

Next ==
  \/ MenuChanges \/ OperatorPicks \/ OperatorRenames \/ StaffMarks
  \/ Fetch \/ ReadProducts \/ UpdateProduct \/ DeleteLevels \/ ClearDefaults \/ CreateLevels \/ SetDefaults \/ Leave
  \/ VisitReads \/ VisitDeletes \/ VisitInserts

Spec == Init /\ [][Next]_vars

---------------------------------------------------------------------------

\* products-helper.ts: the default level the operator picked stays the default
\* while the POS has it, whatever is renamed, repriced, added or dropped, and
\* wherever a sweep dies.  A pick under a sweep that already read the levels is
\* the case the code does not protect.
ChoiceIsKept ==
  \A p \in Products : chosen[p] # None /\ "late" \notin used => level[p].default = chosen[p]

\* location-stock.ts: what the staff marked sold out at the location is never
\* lifted or taken over by the sync, even marked between its read and its writes.
ManualStays == \A p \in Products : manual[p] => oos[p] = "manual"

\* Does not hold.  products-helper.ts: an archived product is in draft.
ArchivedIsDraft == \A p \in Products : row[p] # None /\ row[p].archived => row[p].status = "draft"
=============================================================================
