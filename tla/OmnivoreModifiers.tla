-------------------------- MODULE OmnivoreModifiers --------------------------
(***************************************************************************)
(* The modifiers of Omnivore's fetch_products: after the products, a sweep *)
(* builds from the option sets of products and modifiers one group for     *)
(* each Omnivore group and range asked of it, writes the modifiers, maps   *)
(* the groups to MCM's rows and writes each group that differs as a whole. *)
(* What the owner attached to a group by hand, which Omnivore does not     *)
(* know, is to stay.  The names and the prices are left out.               *)
(***************************************************************************)
EXTENDS Naturals, FiniteSets

CONSTANTS
  Groups, Modifiers, Products,
  Ranges,       \* the maxima option sets ask for; 0 is no maximum
  ManageStock,  \* the sweep writes what is sold out; not where stock goes by location
  Native,       \* a product or modifier of MCM's own
  Faults,       \* bound: how many of Kinds happen in one behaviour
  None

\* What may happen besides the code's own steps, each kind once.
Kinds == {"asks", "asks2", "nests", "nests2", "lists", "stock", "attach", "late", "dies"}

VARIABLES
  menu,      \* Omnivore: the groups' modifiers, the option sets, what is sold out
  ingr,      \* the row of each modifier: none, in stock or out
  grp,       \* the row of each group and range, or None
  sweep,     \* the sweep under way: what it read
  attached,  \* history: what the owner attached, to which row
  used       \* the kinds that happened

vars == <<menu, ingr, grp, sweep, attached, used>>

Keys    == Groups \X (Ranges \cup {30})
Fields  == {"ingredients", "products", "included"}
Row     == [ingredients : SUBSET (Modifiers \cup {Native}), products : SUBSET (Products \cup {Native}),
            included : SUBSET (Modifiers \cup {Native})]
Resting == [pc |-> "idle", full |-> FALSE, calm |-> TRUE, asks |-> {}, mods |-> [g \in Groups |-> {}],
            nests |-> {}, out |-> {}, prev |-> [k \in Keys |-> None], todo |-> {}]

TypeOK ==
  /\ menu.mods \in [Groups -> SUBSET Modifiers] /\ menu.asks \subseteq Products \X Groups \X Ranges
  /\ menu.nests \subseteq Modifiers \X Groups \X Ranges /\ menu.out \subseteq Modifiers
  /\ ingr \in [Modifiers -> {"none", "in", "out"}] /\ \A k \in Keys : grp[k] # None => grp[k] \in Row
  /\ sweep.pc \in {"idle", "products", "groups", "nested", "stock", "written", "read", "created", "swept"}
  /\ attached \subseteq Keys \X Fields /\ used \subseteq Kinds

Init ==
  /\ \E q \in Products \X Groups \X Ranges :
       menu = [mods |-> [g \in Groups |-> Modifiers], asks |-> {q}, nests |-> {}, out |-> {}]
  /\ ingr = [m \in Modifiers |-> "none"] /\ grp = [k \in Keys |-> None]
  /\ sweep = Resting /\ attached = {} /\ used = {}

Happens(k) == k \in Kinds \ used /\ Cardinality(used) < Faults /\ used' = used \cup {k}

Flip(S, e) == IF e \in S THEN S \ {e} ELSE S \cup {e}

---------------------------------------------------------------------------
(* The restaurant and the owner.                                           *)

MenuChanges ==
  /\ \/ /\ Happens("asks") \/ Happens("asks2")
        /\ \E q \in Products \X Groups \X Ranges : menu' = [menu EXCEPT !.asks = Flip(@, q)]
     \/ /\ Happens("nests") \/ Happens("nests2")
        /\ \E q \in Modifiers \X Groups \X Ranges : menu' = [menu EXCEPT !.nests = Flip(@, q)]
     \/ Happens("lists") /\ \E g \in Groups, m \in Modifiers : menu' = [menu EXCEPT !.mods[g] = Flip(@, m)]
     \/ Happens("stock") /\ \E m \in Modifiers : menu' = [menu EXCEPT !.out = Flip(@, m)]
  /\ sweep' = [sweep EXCEPT !.calm = FALSE]
  /\ UNCHANGED <<ingr, grp, attached>>

\* "late" while a sweep holds the groups it read.
OwnerAttaches ==
  /\ Happens(IF sweep.pc \in {"read", "created"} THEN "late" ELSE "attach")
  /\ \E k \in Keys, f \in Fields :
       /\ grp[k] # None /\ grp' = [grp EXCEPT ![k][f] = @ \cup {Native}]
       /\ attached' = attached \cup {<<k, f>>}
  /\ UNCHANGED <<menu, ingr, sweep>>

---------------------------------------------------------------------------
(* getOmnivoreIngredientGroupToImport: which groups, in which ranges, for  *)
(* whom.  No maximum means 30 to a product and stays 0 to a modifier.      *)

ProductKey(q)       == <<q[2], IF q[3] = 0 THEN 30 ELSE q[3]>>
NestedKey(q)        == <<q[2], q[3]>>
ProductKeys(asks)   == {ProductKey(q) : q \in asks}
ToImport(s)         == ProductKeys(s.asks) \cup {NestedKey(q) : q \in s.nests}
ModifiersOf(mods, K) == UNION {mods[k[1]] : k \in K}

\* linkGroup: the ranges of a group that products asked for are copies that share
\* one list of the modifiers that ask for it; a range only a modifier asks for has its own.
Included(s, k) ==
  LET mine == {q \in s.nests : q[2] = k[1]}
      made == ProductKeys(s.asks)
  IN {q[1] : q \in {r \in mine : IF k \in made THEN NestedKey(r) \in made ELSE NestedKey(r) = k}}

Imported(s, k) ==
  [ingredients |-> s.mods[k[1]], products |-> {q[1] : q \in {r \in s.asks : ProductKey(r) = k}},
   included |-> Included(s, k)]

---------------------------------------------------------------------------
(* The sweep, its reads of Omnivore one after the other.                   *)

\* The products are in MCM by now; a sweep of prices and stock alone is not full.
ReadProducts ==
  /\ sweep.pc = "idle"
  /\ \E full \in BOOLEAN : sweep' = [Resting EXCEPT !.pc = "products", !.full = full, !.asks = menu.asks]
  /\ UNCHANGED <<menu, ingr, grp, attached, used>>

ReadGroups ==
  /\ sweep.pc = "products" /\ sweep' = [sweep EXCEPT !.pc = "groups", !.mods = menu.mods]
  /\ UNCHANGED <<menu, ingr, grp, attached, used>>

\* The option sets of the modifiers of the groups that products ask for, and no deeper.
ReadNested ==
  /\ sweep.pc = "groups"
  /\ LET reached == ModifiersOf(sweep.mods, ProductKeys(sweep.asks))
     IN sweep' = [sweep EXCEPT !.pc = "nested", !.nests = {q \in menu.nests : q[1] \in reached}]
  /\ UNCHANGED <<menu, ingr, grp, attached, used>>

ReadStock ==
  /\ sweep.pc = "nested" /\ sweep' = [sweep EXCEPT !.pc = "stock", !.out = menu.out]
  /\ UNCHANGED <<menu, ingr, grp, attached, used>>

\* The modifiers of the groups and those that ask for one; a sweep that is not full adds none.
WriteIngredients ==
  /\ sweep.pc = "stock"
  /\ LET ids   == ModifiersOf(sweep.mods, ToImport(sweep)) \cup {q[1] : q \in sweep.nests}
         At(m) == IF ManageStock /\ m \in sweep.out THEN "out" ELSE "in"
     IN ingr' = [m \in Modifiers |->
          CASE m \notin ids      -> ingr[m]
            [] ingr[m] = "none"  -> IF sweep.full THEN At(m) ELSE "none"
            [] OTHER             -> IF ManageStock THEN At(m) ELSE ingr[m]]
  /\ sweep' = [sweep EXCEPT !.pc = "written"]
  /\ UNCHANGED <<menu, grp, attached, used>>

\* What a group is to be: what Omnivore says of it in MCM's rows, and what was
\* attached by hand to the row read.
Target(k) ==
  LET now == Imported(sweep, k)
      Kept(f) == IF sweep.prev[k] = None THEN {} ELSE sweep.prev[k][f] \cap {Native}
      Known(S) == {m \in S : ingr[m] # "none"}
  IN [ingredients |-> Known(now.ingredients) \cup Kept("ingredients"),
      products |-> now.products \cup Kept("products"), included |-> Known(now.included) \cup Kept("included")]

\* The groups are read, and compared one by one; one that is not imported is left alone.
ReadRows ==
  /\ sweep.pc = "written"
  /\ sweep' = [sweep EXCEPT !.pc = "read", !.prev = grp, !.todo = IF sweep.full THEN ToImport(sweep) ELSE {}]
  /\ UNCHANGED <<menu, ingr, grp, attached, used>>

\* The new groups in one statement,
CreateGroups ==
  /\ sweep.pc = "read"
  /\ LET new == {k \in sweep.todo : sweep.prev[k] = None}
     IN /\ grp' = [k \in Keys |-> IF k \in new THEN Target(k) ELSE grp[k]]
        /\ sweep' = [sweep EXCEPT !.pc = "created",
                     !.todo = {k \in sweep.todo \ new : Target(k) # sweep.prev[k]}]
  /\ UNCHANGED <<menu, ingr, attached, used>>

\* then the others one at a time, each whole from the row read.
UpdateGroup(k) ==
  /\ sweep.pc = "created" /\ k \in sweep.todo
  /\ grp' = [grp EXCEPT ![k] = Target(k)] /\ sweep' = [sweep EXCEPT !.todo = @ \ {k}]
  /\ UNCHANGED <<menu, ingr, attached, used>>

Finish ==
  /\ sweep.pc = "created" /\ sweep.todo = {} /\ sweep' = [sweep EXCEPT !.pc = "swept"]
  /\ UNCHANGED <<menu, ingr, grp, attached, used>>

\* The next sweep starts over; so it does after a failure or a crash, at any point.
Leave ==
  /\ \/ sweep.pc = "swept" /\ UNCHANGED used
     \/ sweep.pc \notin {"idle", "swept"} /\ Happens("dies")
  /\ sweep' = Resting
  /\ UNCHANGED <<menu, ingr, grp, attached>>

Next ==
  \/ MenuChanges \/ OwnerAttaches
  \/ ReadProducts \/ ReadGroups \/ ReadNested \/ ReadStock \/ WriteIngredients \/ ReadRows
  \/ CreateGroups \/ (\E k \in Keys : UpdateGroup(k)) \/ Finish \/ Leave

Spec == Init /\ [][Next]_vars

---------------------------------------------------------------------------

\* ingredients-helper.ts M3: pruning what Omnivore no longer lists takes nothing
\* away that was attached by hand, but for what was attached under a sweep that
\* had read the group.
HandAttachedStays ==
  "late" \notin used => \A a \in attached : Native \in grp[a[1]][a[2]]

\* After a full sweep nobody disturbed, whatever sweeps died before it: every group a
\* product asks for has a row in that range with the group's modifiers, offered by the
\* products that ask for it and by no other, and every modifier reached that asks for
\* one offers it; and a modifier on offer is sold out when it is in Omnivore.
GroupsMirrored ==
  sweep.pc = "swept" /\ sweep.full /\ sweep.calm =>
    LET reached == ModifiersOf(menu.mods, ProductKeys(menu.asks))
    IN /\ \A q \in menu.asks :
            LET k == ProductKey(q)
            IN /\ grp[k] # None /\ grp[k].ingredients \ {Native} = menu.mods[q[2]]
               /\ grp[k].products \ {Native} = {r[1] : r \in {s \in menu.asks : ProductKey(s) = k}}
       /\ \A q \in menu.nests :
            q[1] \in reached => grp[NestedKey(q)] # None /\ q[1] \in grp[NestedKey(q)].included
       /\ ManageStock => \A m \in reached : ingr[m] = IF m \in menu.out THEN "out" ELSE "in"

\* ingredients-helper.ts:48: collect which modifiers reference each range.  Does not
\* hold: the ranges products asked for share one list, so a modifier that asks for
\* one of them offers them all.
NestedIsExact ==
  sweep.pc = "swept" /\ sweep.full /\ sweep.calm =>
    \A k \in ProductKeys(menu.asks), m \in Modifiers :
      m \in grp[k].included => <<m, k[1], k[2]>> \in menu.nests

\* ingredients-helper.ts F6: dead references are removed.  Does not hold: a range
\* nobody asks for any more is not imported, and keeps its products.
NoDeadLink ==
  sweep.pc = "swept" /\ sweep.full /\ sweep.calm =>
    \A k \in Keys : grp[k] # None => \A p \in grp[k].products \ {Native} : \E q \in menu.asks : q[1] = p /\ ProductKey(q) = k
=============================================================================
