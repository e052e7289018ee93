--------------------------- MODULE CloverCatalog ---------------------------
(***************************************************************************)
(* The catalogue pull of Clover: fetch_products sweeps a table (products,  *)
(* categories, or the modifiers kept as ingredients), writing the rows     *)
(* that changed, archiving those gone from a complete fetch and keeping    *)
(* the names edited in MCM; fetch_tables does it with the tables of the    *)
(* floor plan; fetch_item_stock follows what is sold out.  Meanwhile the   *)
(* merchant edits in Clover and the staff in MCM, and diners sit down.     *)
(*                                                                         *)
(* A sweep reads the whole table once, then writes row by row.  The tables *)
(* are swept one after another in the code; their rows only meet in the    *)
(* links between them, which are left out, so a lane here picks any table. *)
(* Groups of modifiers are merged as categories are.                       *)
(***************************************************************************)
EXTENDS Naturals, FiniteSets

CONSTANTS
  Lanes,      \* executions of fetch_products
  Table,      \* elements of the catalogue -> "product", "category", "modifier" or "table"
  Names,      \* names an element can have
  ShrinkCap,  \* rows one sweep may archive (ARCHIVE_MAX_SHRINK_ABS; the ratio never passes it here)
  Faults,     \* bound: how many of Kinds happen in one behaviour
  None

Elems == DOMAIN Table
\* What may happen besides the code's own steps, each kind once.
Kinds == {"rename", "out", "back", "hide", "delete", "restore", "edit", "reedit", "adopt", "late",
          "capped", "short", "dies", "stock", "seat", "seatlate", "unseen", "rise"}
Stock == "stock"  \* the lane of fetch_item_stock

VARIABLES
  item,    \* the element in Clover
  row,     \* its row in MCM, or None
  busy,    \* the tables with an open order
  kept,    \* history: the name typed in MCM that stands, or None
  lane,    \* each sweep under way: its fetch, the rows it read, what is left to write
  used     \* the kinds that happened

vars == <<item, row, busy, kept, lane, used>>

Item == [name : Names, state : {"sold", "out", "hidden", "gone"}]
Row  == [name : Names, baseline : Names \cup {None}, noted : BOOLEAN, adopt : BOOLEAN,
         status : {"published", "draft"}, stock : {"in", "out"}, archived : BOOLEAN]
Resting == [pc |-> "idle", table |-> None, snap |-> None, complete |-> TRUE, rows |-> None,
            left |-> {}, calm |-> TRUE]

TypeOK ==
  /\ item \in [Elems -> Item]
  /\ \A e \in Elems : row[e] # None => row[e] \in Row
  /\ kept \in [Elems -> Names \cup {None}] /\ busy \subseteq Elems
  /\ \A k \in Lanes \cup {Stock} : lane[k].pc \in {"idle", "fetched", "merging", "archiving", "swept"}
  /\ used \subseteq Kinds

Init ==
  /\ item = [e \in Elems |-> [name |-> CHOOSE n \in Names : TRUE, state |-> "sold"]]
  /\ row  = [e \in Elems |-> None]
  /\ kept = [e \in Elems |-> None] /\ busy = {}
  /\ lane = [k \in Lanes \cup {Stock} |-> Resting]
  /\ used = {}

Happens(k) == k \in Kinds \ used /\ Cardinality(used) < Faults /\ used' = used \cup {k}

\* What lane k does; every other sweep is no longer alone.
Lane(k, l) == lane' = [j \in DOMAIN lane |-> IF j = k THEN l ELSE [lane[j] EXCEPT !.calm = FALSE]]
Disturb    == lane' = [j \in DOMAIN lane |-> [lane[j] EXCEPT !.calm = FALSE]]

---------------------------------------------------------------------------
(* The merchant, in Clover; the staff, in MCM.                             *)

MenuChanges ==
  /\ \E e \in Elems :
       \/ \E n \in Names \ {item[e].name} : Happens("rename") /\ item' = [item EXCEPT ![e].name = n]
       \/ item[e].state = "sold" /\ Happens("out") /\ item' = [item EXCEPT ![e].state = "out"]
       \/ item[e].state = "out" /\ Happens("back") /\ item' = [item EXCEPT ![e].state = "sold"]
       \/ Table[e] = "product" /\ Happens("hide") /\ item' = [item EXCEPT ![e].state = "hidden"]
       \/ Happens("delete") /\ item' = [item EXCEPT ![e].state = "gone"]
       \/ /\ item[e].state \in {"hidden", "gone"} /\ Happens("restore")
          /\ item' = [item EXCEPT ![e].state = "sold"]
  /\ Disturb /\ UNCHANGED <<row, busy, kept>>

\* A name typed in MCM; "late" while a sweep holds the rows it read.
StaffRenames ==
  /\ \E e \in Elems, n \in Names :
       /\ row[e] # None /\ row[e].name # n
       /\ \/ /\ \A k \in Lanes : lane[k].pc \in {"idle", "fetched"}
             /\ Happens("edit") \/ Happens("reedit")
          \/ Happens("late")
       /\ row'  = [row EXCEPT ![e].name = n]
       /\ kept' = [kept EXCEPT ![e] = IF n = row[e].baseline \/ row[e].adopt THEN None ELSE n]
  /\ Disturb /\ UNCHANGED <<item, busy>>

\* cloverAdoptOnNextSync
StaffAdopts ==
  /\ \E e \in Elems :
       /\ row[e] # None /\ Happens("adopt")
       /\ row' = [row EXCEPT ![e].adopt = TRUE] /\ kept' = [kept EXCEPT ![e] = None]
  /\ Disturb /\ UNCHANGED <<item, busy>>

---------------------------------------------------------------------------
(* The sweep of one table.                                                 *)

Rows(t)      == {e \in Elems : Table[e] = t}
Listed(s, e) == s[e].state # "gone" /\ ~(Table[e] = "product" /\ s[e].state = "hidden")
Present(l)   == {e \in Rows(l.table) : Listed(l.snap, e)}
Of(t, f)     == [e \in Rows(t) |-> f[e]]
First(es)    == CHOOSE e \in es : TRUE

\* Diners sit at a table the plan shows: "seatlate" while a sweep that already
\* looked for open orders hides tables.
Diners ==
  /\ \/ \E e \in Elems \ busy :
          /\ Table[e] = "table" /\ row[e] # None /\ ~row[e].archived
          /\ Happens(IF \E k \in Lanes : lane[k].pc = "archiving" THEN "seatlate" ELSE "seat")
          /\ busy' = busy \cup {e}
     \/ busy # {} /\ Happens("rise") /\ busy' = {}
  /\ Disturb /\ UNCHANGED <<item, row, kept>>

\* fetchAllCloverElements: "capped" stops at MAX_PAGES and says so, "short" is
\* a page that came back short and passes for the last one.
Fetch(k) ==
  /\ lane[k].pc = "idle"
  /\ \E t \in {Table[e] : e \in Elems} :
       \/ /\ UNCHANGED used
          /\ Lane(k, [Resting EXCEPT !.pc = "fetched", !.table = t, !.snap = Of(t, item)])
       \/ \E e \in Rows(t) :
            /\ Happens("capped") \/ Happens("short")
            /\ Lane(k, [Resting EXCEPT !.pc = "fetched", !.table = t, !.complete = "capped" \notin used' \ used,
                                       !.snap = [Of(t, item) EXCEPT ![e].state = "gone"], !.calm = FALSE])
  /\ UNCHANGED <<item, row, busy, kept>>

ReadRows(k) ==
  /\ lane[k].pc = "fetched"
  /\ Lane(k, [lane[k] EXCEPT !.pc = "merging", !.rows = Of(lane[k].table, row), !.left = Present(lane[k])])
  /\ UNCHANGED <<item, row, busy, kept, used>>

\* aplicarOverridesLocales: the name that stays, what is noted of it.
Overridden(prev, name) ==
  /\ ~prev.adopt
  /\ prev.name # (IF prev.baseline # None THEN prev.baseline ELSE name)

\* The row the sweep wants, before and after the names of MCM are put back.
FromClover(e, s) ==
  [name |-> s.name, baseline |-> IF Table[e] = "table" THEN s.name ELSE None, noted |-> FALSE, adopt |-> FALSE, archived |-> FALSE,
   status |-> IF Table[e] = "product" /\ s.state = "out" THEN "draft" ELSE "published",
   stock |-> IF Table[e] \in {"product", "modifier"} /\ s.state = "out" THEN "out" ELSE "in"]

Protected(prev, new) ==
  [new EXCEPT !.name = IF Overridden(prev, new.name) THEN prev.name ELSE @,
              !.baseline = new.name, !.noted = Overridden(prev, new.name)]

\* Wrong variant, for the tests of the properties: that a row is archived is not compared.
ChangedIfListed(e, prev, new) == prev.name # new.name \/ prev.baseline # new.baseline \/ prev.noted # new.noted

\* What each table compares before it writes.  The rows of the ingredients are
\* read without their stock, which then counts as "in".
Changed(e, prev, new) ==
  \/ prev.name # new.name \/ prev.baseline # new.baseline \/ prev.noted # new.noted
  \/ Table[e] \in {"product", "category"} /\ prev.status # new.status
  \/ Table[e] = "product" /\ prev.stock # new.stock
  \/ Table[e] = "modifier" /\ new.stock # "in"
  \/ Table[e] # "category" /\ prev.archived

\* Modifiers and tables have no status to write.
Written(e, prev, new) ==
  IF Table[e] \in {"modifier", "table"} THEN [new EXCEPT !.status = prev.status] ELSE new

Insert(e, new) ==
  row' = [row EXCEPT ![e] = IF @ = None \/ Table[e] = "product" THEN new ELSE @]

MergeRow(k) ==
  LET e    == First(lane[k].left)
      prev == lane[k].rows[e]
      s    == lane[k].snap[e]
      new  == IF prev = None THEN FromClover(e, s) ELSE Protected(prev, FromClover(e, s))
  IN /\ lane[k].pc = "merging" /\ lane[k].left # {}
     /\ IF prev = None THEN Insert(e, new)
        ELSE row' = [row EXCEPT ![e] = IF Changed(e, prev, new) THEN Written(e, prev, new) ELSE @]
     \* What Clover says now is what was typed: the edit no longer stands.
     /\ kept' = [kept EXCEPT ![e] = IF @ = s.name THEN None ELSE @]
     /\ Lane(k, [lane[k] EXCEPT !.left = @ \ {e}])
     /\ UNCHANGED <<item, busy, used>>

\* archiveIsSafe, on the rows read when the table's sweep began: it compares how
\* many there are, for the modifiers with those it inserted; archivarEsSeguro of
\* the tables counts those to hide.
Known(l)         == {e \in Rows(l.table) : l.rows[e] # None}
Gone(l)          == {e \in Known(l) \ Present(l) : ~l.rows[e].archived}
Counted(l)       == IF l.table = "modifier" THEN Known(l) \cup Present(l) ELSE Known(l)
ArchiveIsSafe(l) ==
  /\ l.complete /\ Present(l) # {} /\ Counted(l) # {}
  /\ IF l.table = "table" THEN Cardinality(Gone(l)) <= ShrinkCap
     ELSE Cardinality(Counted(l)) <= Cardinality(Present(l)) + ShrinkCap

BeginArchive(k) ==
  /\ lane[k].pc = "merging" /\ lane[k].left = {}
  /\ \/ /\ UNCHANGED used
        /\ Lane(k, [lane[k] EXCEPT !.pc = "archiving",
                                   !.left = IF ArchiveIsSafe(lane[k]) THEN Gone(lane[k]) \ busy ELSE {}])
     \/ \* The look for open orders fails and its error is dropped: no table counts as in use.
        /\ lane[k].table = "table" /\ ArchiveIsSafe(lane[k]) /\ Happens("unseen")
        /\ Lane(k, [lane[k] EXCEPT !.pc = "archiving", !.left = Gone(lane[k])])
  /\ UNCHANGED <<item, row, busy, kept>>

ArchiveRow(k) ==
  LET e    == First(lane[k].left)
      prev == lane[k].rows[e]
  IN /\ lane[k].pc = "archiving" /\ lane[k].left # {}
     /\ row' = [row EXCEPT ![e] =
          [row[e] EXCEPT !.archived = TRUE, !.baseline = prev.baseline, !.noted = prev.noted, !.adopt = prev.adopt,
             !.status = IF Table[e] \in {"product", "category"} THEN "draft" ELSE @,
             !.stock = IF Table[e] \in {"product", "modifier"} THEN "out" ELSE @]]
     /\ Lane(k, [lane[k] EXCEPT !.left = @ \ {e}])
     /\ UNCHANGED <<item, busy, kept, used>>

EndSweep(k) ==
  /\ lane[k].pc = "archiving" /\ lane[k].left = {}
  /\ Lane(k, [lane[k] EXCEPT !.pc = "swept"])
  /\ UNCHANGED <<item, row, busy, kept, used>>

\* The handler goes on to the next table or completes its schedule; or a write
\* fails, and the rows written stay.
Leave(k) ==
  /\ \/ lane[k].pc = "swept" /\ UNCHANGED used
     \/ lane[k].pc \in {"merging", "archiving"} /\ Happens("dies")
  /\ Lane(k, Resting)
  /\ UNCHANGED <<item, row, busy, kept>>

---------------------------------------------------------------------------
(* fetch_item_stock, syncCloverItemStock.                                  *)

StockReads ==
  /\ lane[Stock].pc = "idle" /\ Happens("stock")
  /\ Lane(Stock, [Resting EXCEPT !.pc = "merging", !.snap = Of("product", item), !.rows = Of("product", row),
       !.left = {e \in Rows("product") : /\ item[e].state # "gone" /\ row[e] # None
                                         /\ ~row[e].archived}])
  /\ UNCHANGED <<item, row, busy, kept>>

StockWrites ==
  LET e      == First(lane[Stock].left)
      prev   == lane[Stock].rows[e]
      sold   == lane[Stock].snap[e].state = "sold"
      stock  == IF sold THEN "in" ELSE "out"
      status == IF sold THEN "published" ELSE "draft"
  IN /\ lane[Stock].pc = "merging" /\ lane[Stock].left # {}
     /\ row' = IF prev.stock = stock /\ prev.status = status THEN row
               ELSE [row EXCEPT ![e].stock = stock, ![e].status = status]
     /\ Lane(Stock, [lane[Stock] EXCEPT !.left = @ \ {e}])
     /\ UNCHANGED <<item, busy, kept, used>>

StockEnds ==
  /\ lane[Stock].pc = "merging" /\ lane[Stock].left = {}
  /\ Lane(Stock, Resting) /\ UNCHANGED <<item, row, busy, kept, used>>

Next ==
  \/ MenuChanges \/ StaffRenames \/ StaffAdopts \/ Diners
  \/ \E k \in Lanes : \/ Fetch(k) \/ ReadRows(k) \/ MergeRow(k) \/ BeginArchive(k) \/ ArchiveRow(k)
                      \/ EndSweep(k) \/ Leave(k)
  \/ StockReads \/ StockWrites \/ StockEnds

Spec == Init /\ [][Next]_vars

---------------------------------------------------------------------------

\* local-overrides.ts: a name typed in MCM outlives every sweep, through renames
\* in Clover, archiving and coming back, until it is given up (typed back to
\* Clover's, or adopted).  An edit under a sweep that already read its row, and
\* the insert another sweep won, are the cases the code does not protect.
EditsAreKept ==
  \A e \in Elems : kept[e] # None /\ "late" \notin used => row[e].name = kept[e]

\* fetch-tables.ts: a table with an open order is not hidden from the plan,
\* though Clover no longer has it, unless the sweep's look for open orders failed
\* (its error is dropped) or the diners sat down between that look and the write.
BusyTableShown == {"seatlate", "unseen"} \cap used = {} => \A e \in busy : ~row[e].archived

\* Does not hold: the look that fails hides every table Clover no longer has, those in use too.
BusyTableShownUnread == "seatlate" \notin used => \A e \in busy : ~row[e].archived

\* A sweep nobody disturbed leaves the rows of its table as Clover has them:
\* what is listed on sale or sold out as there, what is gone out of sale.
Mirrored(t) ==
  \A k \in Lanes : lane[k].pc = "swept" /\ lane[k].table = t /\ lane[k].calm =>
    \A e \in Present(lane[k]) :
      row[e].stock = (IF t \in {"product", "modifier"} /\ item[e].state = "out" THEN "out" ELSE "in") /\ ~row[e].archived

ProductsMirrored == Mirrored("product")

\* Does not hold: modifier-sync.ts says the same of a modifier that is sold out and comes back.
ModifiersMirrored == Mirrored("modifier")
=============================================================================
